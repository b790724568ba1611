----------------------------- MODULE RedisLock ------------------------------
(***************************************************************************)
(* portalocker.RedisLock (portalocker/redis.py): a lock that is nothing    *)
(* but a subscription.  Redis knows who subscribes to the channel and how  *)
(* many they are (PUBSUB NUMSUB); a client that is not alone pings the     *)
(* channel, every subscriber's worker thread answers with its live mode,   *)
(* and the client decides from the answers.  A step is one command that    *)
(* Redis executes, or one local decision between two commands, so that     *)
(* what a client read may be stale by the time it acts.                    *)
(***************************************************************************)
EXTENDS Naturals, FiniteSets

CONSTANTS Clients,   \* the RedisLock objects, named by their holder_id
          Writers,   \* those created with LockFlags.EXCLUSIVE
          FailFast,  \* those created with fail_when_locked
          Faulty     \* those whose commands may fail and whose process may die

ASSUME ClientsAssumption ==
    /\ Clients \subseteq Nat
    /\ IsFiniteSet(Clients)
    /\ Writers \subseteq Clients
    /\ FailFast \subseteq Clients
    /\ Faulty \subseteq Clients

VARIABLES pc,        \* where each client is
          subs,      \* the subscribers Redis counts on the channel
          mode,      \* what each client answers to a ping
          elected,   \* writer_elected
          pings,     \* the probers whose ping each client has yet to answer
          expected,  \* the subscriber count each prober started from
          replies,   \* the modes each prober has collected
          victims,   \* the connections each prober is about to kill
          after,     \* where a client goes once it has unsubscribed
          unseen     \* history: those whose decision overlooks a subscriber

probeVars == <<pings, expected, replies, victims>>
redisVars == <<pc, subs, mode, elected, probeVars, after, unseen>>

HolderModes == {"pending", "exclusive", "shared"}
Probing == {"probe", "wait"}
Commanding == Probing \cup {"attempt", "count", "kill", "reap"}
Active == Commanding \cup {"chosen", "held"}
Places == Active \cup {"idle", "leaving", "abandoned", "dead"}
Silent == [c \in Clients |-> "none"]

RedisTypeOK ==
    /\ pc \in [Clients -> Places]
    /\ subs \subseteq Clients
    /\ mode \in [Clients -> HolderModes]
    /\ elected \in [Clients -> BOOLEAN]
    /\ pings \in [Clients -> SUBSET Clients]
    /\ expected \in [Clients -> 0 .. Cardinality(Clients)]
    /\ replies \in [Clients -> [Clients -> HolderModes \cup {"none"}]]
    /\ victims \in [Clients -> SUBSET Clients]
    /\ after \in [Clients -> {"idle", "attempt"}]
    /\ unseen \subseteq Clients

RedisInit ==
    /\ pc = [c \in Clients |-> "idle"]
    /\ subs = {}
    /\ mode = [c \in Clients |-> IF c \in Writers THEN "pending" ELSE "shared"]
    /\ elected = [c \in Clients |-> FALSE]
    /\ pings = [c \in Clients |-> {}]
    /\ expected = [c \in Clients |-> 0]
    /\ replies = [c \in Clients |-> Silent]
    /\ victims = [c \in Clients |-> {}]
    /\ after = [c \in Clients |-> "idle"]
    /\ unseen = {}

Goto(c, l) == pc' = [pc EXCEPT ![c] = l]

Answered(c) == {d \in Clients : replies[c][d] # "none"}
Seen(c) == {replies[c][d] : d \in Answered(c)}

(* The private response channel is closed, and with it what was collected. *)
Forget(c, suspects) ==
    /\ expected' = [expected EXCEPT ![c] = 0]
    /\ replies' = [replies EXCEPT ![c] = Silent]
    /\ victims' = [victims EXCEPT ![c] = suspects]

EndProbeSuspecting(c, suspects) ==
    /\ Forget(c, suspects)
    /\ pings' = [d \in Clients |-> pings[d] \ {c}]

EndProbe(c) == EndProbeSuspecting(c, {})

(* So is the worker thread, and the pings it has not answered are lost.    *)
EndProbeAndThread(c) ==
    /\ Forget(c, {})
    /\ pings' = [d \in Clients |-> IF d = c THEN {} ELSE pings[d] \ {c}]

---------------------------------------------------------------------------
(* acquire: the mode is reset, then attempts follow each other.            *)
(* Without fail_when_locked a failed attempt leads to the next one.        *)
StartAcquire(c) ==
    /\ pc[c] = "idle"
    /\ mode' = [mode EXCEPT ![c] = IF c \in Writers THEN "pending" ELSE @]
    /\ elected' = [elected EXCEPT ![c] = FALSE]
    /\ after' = [after EXCEPT ![c] = IF c \in FailFast THEN "idle" ELSE "attempt"]
    /\ Goto(c, "attempt")
    /\ UNCHANGED <<subs, probeVars, unseen>>

(* An attempt begins with a subscription, unless there is one.  A writer   *)
(* that has counted for the last time does not notice any more.            *)
Subscribe(c) ==
    /\ pc[c] = "attempt" /\ ~elected[c]
    /\ subs' = subs \cup {c}
    /\ unseen' = unseen \cup {d \in Clients : pc[d] = "chosen"}
    /\ Goto(c, "count")
    /\ UNCHANGED <<mode, elected, pings, expected, replies, victims, after>>

(* An elected writer kept its subscription and begins with the count.      *)
Counting(c) == pc[c] = "count" \/ (pc[c] = "attempt" /\ elected[c])

(* acquire is about to return, the caller's next call is release: only a   *)
(* writer has yet to become exclusive for whoever asks.                    *)
Enter(c) ==
    /\ Goto(c, IF c \in Writers THEN "chosen" ELSE "held")
    /\ after' = [after EXCEPT ![c] = "idle"]

(* Mutation: the probe's own subscription is counted as well.              *)
CountProbe(c) ==
    /\ Counting(c)
    /\ IF Cardinality(subs) = 1
          THEN Enter(c) /\ UNCHANGED expected
          ELSE /\ Goto(c, "probe")
               /\ expected' = [expected EXCEPT ![c] = Cardinality(subs) + 1]
               /\ UNCHANGED after
    /\ UNCHANGED <<subs, mode, elected, pings, replies, victims, unseen>>

(* The fast path: the count says that nobody else is there.                *)
Count(c) ==
    /\ Counting(c)
    /\ IF Cardinality(subs) = 1
          THEN Enter(c) /\ UNCHANGED expected
          ELSE /\ Goto(c, "probe")
               /\ expected' = [expected EXCEPT ![c] = Cardinality(subs)]
               /\ UNCHANGED after
    /\ UNCHANGED <<subs, mode, elected, pings, replies, victims, unseen>>

Promote(c) ==
    /\ pc[c] = "chosen"
    /\ mode' = [mode EXCEPT ![c] = "exclusive"]
    /\ Goto(c, "held")
    /\ UNCHANGED <<subs, elected, probeVars, after, unseen>>

Answers(d) == d \in subs /\ pc[d] \notin {"leaving", "dead"}

(* The ping reaches whoever subscribes now, the prober included.           *)
Ping(c) ==
    /\ pc[c] = "probe"
    /\ pings' = [d \in Clients |-> IF Answers(d) THEN pings[d] \cup {c} ELSE pings[d]]
    /\ Goto(c, "wait")
    /\ UNCHANGED <<subs, mode, elected, expected, replies, victims, after, unseen>>

(* channel_handler: the worker thread of d answers with its live mode; the *)
(* prober reads no further once it has as many replies as it expects.      *)
Answer(d, c) ==
    /\ c \in pings[d]
    /\ replies' = [replies EXCEPT ![c][d] = mode[d]]
    /\ LET enough == Cardinality(Answered(c)) + 1 >= expected[c]
       IN  pings' = [e \in Clients |-> IF e = d \/ enough THEN pings[e] \ {c} ELSE pings[e]]
    /\ UNCHANGED <<pc, subs, mode, elected, expected, victims, after, unseen>>

(* Leaving stops the worker thread first, so that a leaving client is      *)
(* still counted but answers no longer.                                    *)
Leave(c, l) ==
    /\ Goto(c, "leaving")
    /\ after' = [after EXCEPT ![c] = l]
    /\ elected' = [elected EXCEPT ![c] = FALSE]
    /\ EndProbeAndThread(c)
    /\ unseen' = unseen \ {c}

(* A failed attempt unsubscribes, whether another one follows or           *)
(* AlreadyLocked.  Mutation: it raises and keeps its subscription.         *)
BackOffCounted(c) ==
    IF after[c] = "attempt"
       THEN Leave(c, "attempt")
       ELSE Goto(c, "idle") /\ EndProbe(c) /\ UNCHANGED <<elected, after, unseen>>

BackOff(c) == Leave(c, after[c])

(* _resolve_lock_holders.  Mutations: a pending writer does not keep       *)
(* readers out; a writer does not wait for readers.                        *)
CompatiblePending(c) == c \notin Writers /\ Seen(c) \subseteq {"shared", "pending"}

ReadersIgnored(c) == FALSE

Compatible(c) == c \notin Writers /\ Seen(c) \subseteq {"shared"}

WriterIsElected(c) ==
    /\ c \in Writers
    /\ "exclusive" \notin Seen(c)
    /\ replies[c][c] = "pending"
    /\ \A d \in Answered(c) : replies[c][d] = "pending" => c <= d

ReadersLeft(c) == "shared" \in Seen(c)

(* fail_when_locked makes an elected writer raise all the same.            *)
Elected(c) == WriterIsElected(c) /\ after[c] = "attempt"

(* As many subscribers as answers, and yet one that has not answered: it   *)
(* took the place of another, and the numbers are all that is compared.    *)
Overlooks(c) == Cardinality(subs) = expected[c] /\ ~(subs \subseteq Answered(c))

(* A reader joins readers, the elected writer takes a lock without readers.*)
Choose(c) ==
    /\ Compatible(c) \/ (Elected(c) /\ ~ReadersLeft(c))
    /\ Enter(c)
    /\ EndProbe(c)
    /\ unseen' = IF Overlooks(c) THEN unseen \cup {c} ELSE unseen
    /\ elected' = [elected EXCEPT ![c] = c \in Writers]

(* The elected writer waits, subscribed and pending, for readers to drain. *)
AwaitReaders(c) ==
    /\ Elected(c) /\ ReadersLeft(c)
    /\ Goto(c, "attempt")
    /\ EndProbe(c)
    /\ elected' = [elected EXCEPT ![c] = TRUE]
    /\ UNCHANGED <<after, unseen>>

Lose(c) ==
    /\ ~Compatible(c) /\ ~Elected(c)
    /\ BackOff(c)

Resolve(c) ==
    /\ Cardinality(Answered(c)) = expected[c]
    /\ Choose(c) \/ AwaitReaders(c) \/ Lose(c)

(* _kill_unavailable_locks spares the names of those that answered.        *)
Suspect(c) ==
    /\ Cardinality(Answered(c)) < expected[c]
    /\ Goto(c, "kill")
    /\ EndProbeSuspecting(c, Clients \ Answered(c))
    /\ UNCHANGED <<elected, after, unseen>>

(* An inconclusive probe does not cost an elected writer its place.        *)
Inconclusive(c) ==
    IF elected[c]
       THEN Goto(c, "attempt") /\ EndProbe(c) /\ UNCHANGED <<elected, after, unseen>>
       ELSE BackOff(c)

(* Mutation: what is counted after the probe is not looked at.             *)
RecountBlind(c) ==
    /\ pc[c] = "wait"
    /\ Resolve(c) \/ Suspect(c)
    /\ UNCHANGED <<subs, mode>>

(* Enough replies came, or unavailable_timeout has passed; the subscribers *)
(* are counted again.  An answer that the prober does not have by then is  *)
(* lost to it, whether it was not sent, is late, was sent before the       *)
(* response channel was subscribed, or is still unread: the prober reads   *)
(* one reply per poll.                                                     *)
Recount(c) ==
    /\ pc[c] = "wait"
    /\ IF Cardinality(subs) = expected[c] THEN Resolve(c) \/ Suspect(c) ELSE Inconclusive(c)
    /\ UNCHANGED <<subs, mode>>

(* Redis forgets the connection of d, and d gets no more pings from it; a  *)
(* later subscription is another one.                                      *)
Disconnect(d) ==
    /\ subs' = subs \ {d}
    /\ pings' = [pings EXCEPT ![d] = {}]
    /\ victims' = [c \in Clients |-> IF pc[c] = "reap" THEN victims[c] \ {d} ELSE victims[c]]

(* The clients are listed: those that did not reply, the prober itself if  *)
(* it missed its own reply, and newcomers ...                              *)
ListUnavailable(c) ==
    /\ pc[c] = "kill"
    /\ victims' = [victims EXCEPT ![c] = @ \cap subs]
    /\ Goto(c, "reap")
    /\ UNCHANGED <<subs, mode, elected, pings, expected, replies, after, unseen>>

(* ... and Redis closes their connections, one after the other.            *)
Kill(c) ==
    /\ pc[c] = "reap"
    /\ \E d \in victims[c] : Disconnect(d)
    /\ UNCHANGED <<pc, mode, elected, expected, replies, after, unseen>>

AllKilled(c) ==
    /\ pc[c] = "reap" /\ victims[c] = {}
    /\ Inconclusive(c)
    /\ UNCHANGED <<subs, mode>>

---------------------------------------------------------------------------
(* The deadline passed between two attempts, or subscribing failed.        *)
GiveUp(c) ==
    /\ pc[c] = "attempt"
    /\ Leave(c, "idle")
    /\ UNCHANGED <<subs, mode>>

(* Also what is left of an acquire that raised is released sooner or later.*)
Release(c) ==
    /\ pc[c] \in {"held", "abandoned"}
    /\ Leave(c, "idle")
    /\ UNCHANGED <<subs, mode>>

(* pubsub.unsubscribe and close: the second half of release().             *)
Unsubscribe(c) ==
    /\ pc[c] = "leaving"
    /\ Disconnect(c)
    /\ Goto(c, after[c])
    /\ UNCHANGED <<mode, elected, expected, replies, after, unseen>>

---------------------------------------------------------------------------
(* An exception in the middle of acquire leaves it without a release: the  *)
(* subscription lives on, and its thread answers, until it is released.    *)
Abandon(c) ==
    /\ pc[c] = "attempt" => elected[c]
    /\ Goto(c, "abandoned")
    /\ EndProbe(c)
    /\ after' = [after EXCEPT ![c] = "idle"]
    /\ unseen' = unseen \ {c}
    /\ UNCHANGED <<subs, mode, elected>>

CommandFails(c) == c \in Faulty /\ pc[c] \in Commanding /\ Abandon(c)

(* A client whose connection was killed is told by its worker thread,      *)
(* which interrupts the main thread wherever it is; nobody counts it any   *)
(* longer, and what is left of it is released.                             *)
Interrupted(c) ==
    /\ pc[c] \in Active /\ c \notin subs
    /\ pc[c] = "attempt" => elected[c]
    /\ Leave(c, "idle")
    /\ UNCHANGED <<subs, mode>>

(* The process dies; Redis counts its connection until it finds out.       *)
Crash(c) ==
    /\ c \in Faulty /\ pc[c] # "dead"
    /\ Goto(c, "dead")
    /\ elected' = [elected EXCEPT ![c] = FALSE]
    /\ after' = [after EXCEPT ![c] = "idle"]
    /\ EndProbeAndThread(c)
    /\ unseen' = unseen \ {c}
    /\ UNCHANGED <<subs, mode>>

ConnectionLost(c) ==
    /\ pc[c] = "dead" /\ c \in subs
    /\ Disconnect(c)
    /\ UNCHANGED <<pc, mode, elected, expected, replies, after, unseen>>

Attempt(c) ==
    \/ Subscribe(c) \/ Count(c) \/ Ping(c) \/ Recount(c) \/ Promote(c)
    \/ ListUnavailable(c) \/ Kill(c) \/ AllKilled(c)

RedisNext == \E c \in Clients :
    \/ StartAcquire(c) \/ Attempt(c) \/ GiveUp(c)
    \/ Release(c) \/ Unsubscribe(c)
    \/ CommandFails(c) \/ Interrupted(c)
    \/ Crash(c) \/ ConnectionLost(c)
    \/ \E d \in Clients : Answer(d, c)

RedisSpec == RedisInit /\ [][RedisNext]_redisVars

---------------------------------------------------------------------------
(* The subscription is the lock: a client owns it while acquire has        *)
(* returned and Redis still counts its subscription.                       *)
Owns(c) == pc[c] = "held" /\ c \in subs

(* It is sure of it unless it decided without having seen a subscriber:    *)
(* one that joined between a writer's last count and its promotion, or one *)
(* that took, during the probe, the place of one that had answered         *)
(* (redis.py:816, 1019, 1137-1139).                                        *)
Sure(c) == Owns(c) /\ c \notin unseen

RedisMode(c) == IF Sure(c) THEN mode[c] ELSE "none"

(* The promise of RedisLockMode.EXCLUSIVE, "nobody else may join": of two  *)
(* clients whose acquire returned and whose subscription lives, neither is *)
(* a writer.  The election and the recount are there to guarantee it.      *)
RedisExclusion == \A c, d \in Clients :
    c # d /\ Owns(c) /\ Owns(d) => {c, d} \cap Writers = {}

(* What election and recount do guarantee, whoever joins, leaves, dies,    *)
(* answers late or is killed: a writer owns the lock beside another owner  *)
(* only if one of the two has decided without having seen a subscriber.    *)
OnlyUnseenConflict == \A c, d \in Clients :
    c # d /\ Owns(c) /\ Owns(d) /\ {c, d} \cap Writers # {} => {c, d} \cap unseen # {}

RedisAbstract == INSTANCE RWLock WITH grant <- [c \in Clients |-> RedisMode(c)]

(* Taking, sharing, releasing, losing and reaping the subscription all     *)
(* look like grants and drops of one readers-writer lock, as far as the    *)
(* owners are sure.                                                        *)
RedisImplementsRWLock == RedisAbstract!Spec

(* _holders_are_compatible: once a writer is elected no reader gets in     *)
(* before it, however its probes end, until it has had the lock or left;   *)
(* unless the reader decides without having seen a subscriber.             *)
PendingKeepsReadersOut ==
    [][\A r \in Clients \ Writers :
          ~Owns(r) /\ Sure(r)' =>
              ~\E w \in Writers : elected[w] /\ w \in subs /\ pc[w] # "held"]_redisVars

(* An acquire that ended with AlreadyLocked, or a release, leaves no       *)
(* subscription behind, which would be counted and block everybody for     *)
(* good (redis.py:1013-1015, 1026-1030, 1158-1159).                        *)
IdleUncounted == \A c \in Clients : pc[c] = "idle" => c \notin subs
=============================================================================
