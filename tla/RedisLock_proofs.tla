--------------------------- MODULE RedisLock_proofs --------------------------
(***************************************************************************)
(* Proofs about RedisLock, for any number of clients, whether they were    *)
(* given a connection or create their own, and for every schedule: clients *)
(* may join and leave during a probe, answers may be lost or come late,    *)
(* and whoever did not answer in time may be killed.                       *)
(***************************************************************************)
EXTENDS RedisOwn, FiniteSetTheorems, TLAPS

(* The clients from which a prober still awaits an answer.                 *)
Pinged(c) == {d \in Clients : c \in pings[d]}

(* Only a prober that waits has pings under way and replies.               *)
ProbeInv == \A c \in Clients :
    pc[c] # "wait" => replies[c] = Silent /\ Pinged(c) = {}

(* Readers answer "shared", and writers do not.                            *)
ModeInv == \A c \in Clients :
    /\ IF c \in Writers THEN mode[c] # "shared" ELSE mode[c] = "shared"
    /\ pc[c] = "held" /\ c \in Writers => mode[c] = "exclusive"
    /\ pc[c] = "chosen" => c \in Writers
    /\ \A d \in Clients :
          IF d \in Writers THEN replies[c][d] # "shared"
                           ELSE replies[c][d] \in {"none", "shared"}

(* The clients whose decision is made, and those of them that had seen     *)
(* every subscriber and are still subscribed themselves.                   *)
Decided(c) == pc[c] \in {"chosen", "held"}
SureOfIt(c) == Decided(c) /\ c \in subs /\ c \notin unseen

(* Nobody else is excused for having overlooked a subscriber.              *)
UnseenInv == \A c \in unseen : Decided(c)

(* A writer that decided comes before the writers that were there then;    *)
(* whoever subscribed later is not told that it is still pending.          *)
PassedInv == \A w, d \in Writers :
    w # d /\ SureOfIt(w) /\ d \in subs =>
        w < d \/ (pc[w] = "held" /\ replies[d][w] # "pending")

(* So no second client decides beside it.                                  *)
AloneInv == \A c, d \in Clients :
    c # d /\ SureOfIt(c) /\ SureOfIt(d) => {c, d} \cap Writers = {}

ElectionInv == UnseenInv /\ PassedInv /\ AloneInv

RedisInv == RedisTypeOK /\ ProbeInv /\ ModeInv /\ IdleUncounted /\ ElectionInv

LEMMA InitRedisInv == RedisInit => RedisInv
<1> SUFFICES ASSUME RedisInit PROVE RedisInv
  OBVIOUS
<1> USE ClientsAssumption DEF RedisInit
<1>1. RedisTypeOK
  BY FS_CardinalityType DEF RedisTypeOK, Places, Active, HolderModes, Silent
<1>2. ProbeInv /\ ModeInv /\ IdleUncounted
  BY DEF ProbeInv, Pinged, ModeInv, IdleUncounted, Silent
<1>3. ElectionInv
  BY DEF ElectionInv, UnseenInv, PassedInv, AloneInv, SureOfIt, Decided
<1> QED
  BY <1>1, <1>2, <1>3 DEF RedisInv

(* What a step of c leaves alone of the others.                            *)
Apart(c) == \A d \in Clients \ {c} :
    /\ pc'[d] = pc[d] /\ mode'[d] = mode[d] /\ replies'[d] = replies[d]
    /\ d \in unseen <=> d \in unseen'
    /\ \A e \in Clients : d \in pings'[e] => d \in pings[e]

-----------------------------------------------------------------------------
(* The steps after which c neither waits for answers nor has the lock: it  *)
(* begins or ends an attempt, kills, gives up, leaves, or dies.            *)
Resting == {"idle", "attempt", "kill", "reap", "leaving", "abandoned", "dead", "probe"}

Settles(c) ==
    /\ Apart(c)
    /\ subs' \subseteq subs
    /\ c \notin unseen'
    /\ pc'[c] \in Resting
    /\ pc'[c] = "idle" => c \notin subs'
    /\ mode'[c] \in {mode[c], IF c \in Writers THEN "pending" ELSE mode[c]}
    /\ replies'[c] = Silent
    /\ \A d \in Clients : c \notin pings'[d]

LEMMA SettlingInv ==
    ASSUME RedisInv, RedisTypeOK', NEW c \in Clients, Settles(c) PROVE RedisInv'
<1> USE DEF Settles, Resting
<1>1. ProbeInv'
  BY DEF RedisInv, ProbeInv, Apart, Pinged
<1>2. ModeInv'
  BY DEF RedisInv, ModeInv, Apart, Silent
<1>3. IdleUncounted'
  BY DEF RedisInv, IdleUncounted, Apart
<1>4. \A d \in Clients : SureOfIt(d)' => d # c /\ SureOfIt(d)
  BY DEF SureOfIt, Decided, Apart
<1>5. UnseenInv'
  BY DEF RedisInv, RedisTypeOK, ElectionInv, UnseenInv, Decided, Apart
<1>6. PassedInv' /\ AloneInv'
  <2>1. PassedInv'
    <3> SUFFICES ASSUME NEW w \in Writers, NEW d \in Writers, w # d, SureOfIt(w)', d \in subs'
                 PROVE  w < d \/ (pc'[w] = "held" /\ replies'[d][w] # "pending")
      BY DEF PassedInv
    <3>1. w \in Clients /\ d \in Clients /\ w # c /\ SureOfIt(w) /\ d \in subs /\ pc'[w] = pc[w]
      BY <1>4, ClientsAssumption DEF Apart
    <3>2. w < d \/ (pc[w] = "held" /\ replies[d][w] # "pending")
      BY <3>1 DEF RedisInv, ElectionInv, PassedInv
    <3>3. replies'[d] = replies[d] \/ replies'[d][w] = "none"
      BY <3>1 DEF Apart, Silent
    <3> QED
      BY <3>1, <3>2, <3>3
  <2>2. AloneInv'
    BY <1>4 DEF RedisInv, ElectionInv, AloneInv
  <2> QED
    BY <2>1, <2>2
<1> QED
  BY <1>1, <1>2, <1>3, <1>5, <1>6 DEF RedisInv, ElectionInv

LEMMA EndProbeSettles ==
    ASSUME RedisTypeOK, NEW c \in Clients, EndProbe(c) \/ EndProbeAndThread(c)
           \/ \E S \in SUBSET Clients : EndProbeSuspecting(c, S)
    PROVE  /\ \A d \in Clients : c \notin pings'[d] /\ pings'[d] \subseteq pings[d]
           /\ replies'[c] = Silent
           /\ \A d \in Clients \ {c} : replies'[d] = replies[d]
           /\ pings' \in [Clients -> SUBSET Clients]
           /\ expected' \in [Clients -> 0 .. Cardinality(Clients)]
           /\ replies' \in [Clients -> [Clients -> HolderModes \cup {"none"}]]
           /\ victims' \in [Clients -> SUBSET Clients]
<1> USE DEF RedisTypeOK, EndProbe, EndProbeSuspecting, EndProbeAndThread
<1>1. PICK S \in SUBSET Clients : Forget(c, S)
  OBVIOUS
<1>2. 0 \in 0 .. Cardinality(Clients)
  BY ClientsAssumption, FS_CardinalityType
<1>3. /\ replies'[c] = Silent
      /\ \A d \in Clients \ {c} : replies'[d] = replies[d]
      /\ expected' \in [Clients -> 0 .. Cardinality(Clients)]
      /\ replies' \in [Clients -> [Clients -> HolderModes \cup {"none"}]]
      /\ victims' \in [Clients -> SUBSET Clients]
  BY <1>1, <1>2 DEF Forget, Silent
<1>4. /\ \A d \in Clients : c \notin pings'[d] /\ pings'[d] \subseteq pings[d]
      /\ pings' \in [Clients -> SUBSET Clients]
  OBVIOUS
<1> QED
  BY <1>3, <1>4

(* Steps that do not touch the probe find none.                            *)
LEMMA NoProbe ==
    ASSUME RedisInv, NEW c \in Clients, pc[c] # "wait"
    PROVE  replies[c] = Silent /\ \A d \in Clients : c \notin pings[d]
  BY DEF RedisInv, ProbeInv, Pinged

LEMMA DisconnectTypes ==
    ASSUME RedisTypeOK, NEW d \in Clients, Disconnect(d)
    PROVE  /\ subs' \subseteq subs /\ d \notin subs'
           /\ pings' \in [Clients -> SUBSET Clients]
           /\ \A e \in Clients : pings'[e] \subseteq pings[e]
           /\ victims' \in [Clients -> SUBSET Clients]
  BY DEF RedisTypeOK, Disconnect

LEMMA LeaveSettles ==
    ASSUME RedisInv, NEW c \in Clients, NEW l \in {"idle", "attempt"}, Leave(c, l),
           UNCHANGED <<subs, mode>>
    PROVE  RedisTypeOK' /\ Settles(c)
<1>0. RedisTypeOK
  BY DEF RedisInv
<1>1. EndProbeAndThread(c)
  BY DEF Leave
<1> QED
  BY <1>0, <1>1, EndProbeSettles
  DEF Leave, RedisTypeOK, Settles, Apart, Resting, Places, HolderModes, Goto

Harmless(c) ==
    \/ StartAcquire(c) \/ GiveUp(c) \/ Release(c) \/ Interrupted(c)
    \/ ListUnavailable(c) \/ Kill(c) \/ AllKilled(c)
    \/ Unsubscribe(c) \/ Crash(c) \/ ConnectionLost(c)
    \/ pc[c] \in Active /\ Abandon(c)
    \/ Count(c) /\ pc'[c] = "probe"
    \/ Recount(c) /\ ~Choose(c)

LEMMA SubscriberCount ==
    ASSUME RedisInv
    PROVE  /\ IsFiniteSet(subs) /\ Cardinality(subs) \in 0 .. Cardinality(Clients)
           /\ subs \in SUBSET Clients
<1>1. subs \in SUBSET Clients /\ IsFiniteSet(Clients)
  BY ClientsAssumption DEF RedisInv, RedisTypeOK
<1>2. IsFiniteSet(subs) /\ Cardinality(subs) <= Cardinality(Clients)
  BY <1>1, FS_Subset
<1>3. Cardinality(subs) \in Nat /\ Cardinality(Clients) \in Nat
  BY <1>1, <1>2, FS_CardinalityType
<1> QED
  BY <1>1, <1>2, <1>3

(* A probe that does not end with a choice ends.                           *)
LEMMA InconclusiveSettles ==
    ASSUME RedisInv, NEW c \in Clients, pc[c] \in {"wait", "reap"},
           Inconclusive(c) \/ AwaitReaders(c) \/ Suspect(c) \/ Lose(c),
           UNCHANGED <<subs, mode>>
    PROVE  RedisTypeOK' /\ Settles(c)
<1>0. RedisTypeOK /\ c \notin unseen
  BY DEF RedisInv, ElectionInv, UnseenInv, Decided
<1>1. CASE BackOff(c)
  <2>1. after[c] \in {"idle", "attempt"} /\ Leave(c, after[c])
    BY <1>0, <1>1 DEF BackOff, RedisTypeOK
  <2> QED
    BY <2>1, LeaveSettles
<1>2. CASE \/ Goto(c, "attempt") /\ EndProbe(c)
              /\ elected' \in [Clients -> BOOLEAN] /\ UNCHANGED <<after, unseen>>
           \/ Goto(c, "kill") /\ EndProbeSuspecting(c, Clients \ Answered(c))
              /\ UNCHANGED <<elected, after, unseen>>
  <2>1. EndProbe(c) \/ \E S \in SUBSET Clients : EndProbeSuspecting(c, S)
    BY <1>2
  <2>2. pc'[c] \in {"attempt", "kill"} /\ \A d \in Clients \ {c} : pc'[d] = pc[d]
    BY <1>0, <1>2 DEF Goto, RedisTypeOK
  <2>3. RedisTypeOK'
    BY <1>0, <1>2, <2>1, EndProbeSettles
    DEF RedisTypeOK, Places, Active, Commanding, Probing, Goto
  <2>4. Settles(c)
    BY <1>0, <1>2, <2>1, <2>2, EndProbeSettles DEF Settles, Apart, Resting
  <2> QED
    BY <2>3, <2>4
<1> QED
  BY <1>0, <1>1, <1>2 DEF Inconclusive, AwaitReaders, Suspect, Lose, RedisTypeOK

LEMMA HarmlessSettles ==
    ASSUME RedisInv, NEW c \in Clients, Harmless(c) PROVE RedisTypeOK' /\ Settles(c)
<1> USE DEF RedisTypeOK, Settles, Apart, Resting, Places, Active, Commanding, Probing,
            HolderModes, Goto, probeVars
<1>0. RedisTypeOK /\ (~Decided(c) => c \notin unseen)
  BY DEF RedisInv, ElectionInv, UnseenInv
<1>1. CASE StartAcquire(c)
  BY <1>0, <1>1, NoProbe DEF StartAcquire, RedisInv, IdleUncounted, Decided
<1>2. CASE GiveUp(c) \/ Release(c) \/ Interrupted(c)
  BY <1>2, LeaveSettles DEF GiveUp, Release, Interrupted
<1>3. CASE ListUnavailable(c)
  BY <1>0, <1>3, NoProbe DEF ListUnavailable, Decided
<1>4. CASE Kill(c)
  <2>1. PICK d \in Clients : Disconnect(d)
    BY <1>0, <1>4 DEF Kill
  <2> QED
    BY <1>0, <1>4, <2>1, DisconnectTypes, NoProbe DEF Kill, Decided
<1>5. CASE AllKilled(c)
  BY <1>5, InconclusiveSettles DEF AllKilled
<1>6. CASE Unsubscribe(c)
  BY <1>0, <1>6, DisconnectTypes, NoProbe DEF Unsubscribe, Decided
<1>7. CASE pc[c] \in Active /\ Abandon(c)
  <2>1. EndProbe(c)
    BY <1>7 DEF Abandon
  <2> QED
    BY <1>0, <1>7, <2>1, EndProbeSettles DEF Abandon
<1>8. CASE Crash(c)
  <2>1. EndProbeAndThread(c)
    BY <1>8 DEF Crash
  <2> QED
    BY <1>0, <1>8, <2>1, EndProbeSettles DEF Crash
<1>9. CASE ConnectionLost(c)
  BY <1>0, <1>9, DisconnectTypes, NoProbe DEF ConnectionLost, Decided
<1>10. CASE Count(c) /\ pc'[c] = "probe"
  <2>1. /\ pc' = [pc EXCEPT ![c] = "probe"]
        /\ expected' = [expected EXCEPT ![c] = Cardinality(subs)]
        /\ UNCHANGED <<subs, mode, elected, pings, replies, victims, after, unseen>>
        /\ pc[c] \in {"count", "attempt"}
    BY <1>0, <1>10 DEF Count, Counting, Enter
  <2>2. RedisTypeOK'
    BY <1>0, <2>1, SubscriberCount
  <2>3. Settles(c)
    BY <1>0, <2>1, NoProbe DEF Decided
  <2> QED
    BY <2>2, <2>3
<1>11. CASE Recount(c) /\ ~Choose(c)
  BY <1>11, InconclusiveSettles DEF Recount, Resolve
<1> QED
  BY <1>1, <1>2, <1>3, <1>4, <1>5, <1>6, <1>7, <1>8, <1>9, <1>10, <1>11 DEF Harmless

-----------------------------------------------------------------------------
(* The steps of a probe.                                                   *)
LEMMA SubscribeInv ==
    ASSUME RedisInv, NEW c \in Clients, Subscribe(c) PROVE RedisInv'
<1> USE DEF Subscribe, Goto
<1>1. /\ RedisTypeOK' /\ RedisTypeOK
      /\ pc' = [pc EXCEPT ![c] = "count"] /\ pc \in [Clients -> Places]
      /\ replies[c] = Silent /\ UNCHANGED <<mode, pings, replies>>
  BY NoProbe DEF RedisInv, RedisTypeOK, Places, Active, Commanding
<1>2. ProbeInv' /\ ModeInv' /\ IdleUncounted'
  BY <1>1 DEF RedisInv, ProbeInv, Pinged, ModeInv, IdleUncounted
<1>3. \A d \in Clients : SureOfIt(d)' =>
          SureOfIt(d) /\ d # c /\ pc[d] = "held" /\ pc'[d] = "held"
  BY <1>1 DEF SureOfIt, Decided
<1>4. UnseenInv' /\ AloneInv'
  BY <1>1, <1>3 DEF RedisInv, ElectionInv, UnseenInv, AloneInv, Decided
<1>5. PassedInv'
  <2> SUFFICES ASSUME NEW w \in Writers, NEW d \in Writers, w # d, SureOfIt(w)', d \in subs'
               PROVE  w < d \/ (pc'[w] = "held" /\ replies'[d][w] # "pending")
    BY DEF PassedInv
  <2>1. w \in Clients /\ d \in Clients
    BY ClientsAssumption
  <2>2. CASE d = c
    BY <1>1, <1>3, <2>1, <2>2 DEF Silent
  <2>3. CASE d # c
    BY <1>1, <1>3, <2>1, <2>3 DEF RedisInv, ElectionInv, PassedInv
  <2> QED
    BY <2>2, <2>3
<1> QED
  BY <1>1, <1>2, <1>4, <1>5 DEF RedisInv, ElectionInv

LEMMA PingInv ==
    ASSUME RedisInv, NEW c \in Clients, Ping(c) PROVE RedisInv'
<1> USE DEF Ping, Goto
<1>1. /\ RedisTypeOK' /\ pc[c] = "probe" /\ pc' = [pc EXCEPT ![c] = "wait"]
      /\ pc \in [Clients -> Places]
      /\ UNCHANGED <<subs, mode, replies, unseen>>
      /\ \A d \in Clients : pings'[d] \subseteq pings[d] \cup {c}
  BY DEF RedisInv, RedisTypeOK, Places, Active, Commanding, Probing
<1>2. ProbeInv' /\ ModeInv' /\ IdleUncounted'
  BY <1>1 DEF RedisInv, ProbeInv, Pinged, ModeInv, IdleUncounted
<1>3. ElectionInv'
  BY <1>1 DEF RedisInv, ElectionInv, UnseenInv, PassedInv, AloneInv, SureOfIt, Decided
<1> QED
  BY <1>1, <1>2, <1>3 DEF RedisInv

(* A writer that has the lock does not answer as pending.                  *)
LEMMA AnswerInv ==
    ASSUME RedisInv, NEW c \in Clients, NEW d \in Clients, Answer(d, c) PROVE RedisInv'
<1> USE DEF Answer
<1>1. /\ RedisTypeOK' /\ pc[c] = "wait" /\ UNCHANGED <<pc, subs, mode, unseen>>
      /\ \A e \in Clients : pings'[e] \subseteq pings[e]
      /\ replies'[c][d] = mode[d]
      /\ \A e, f \in Clients : e # c \/ f # d => replies'[e][f] = replies[e][f]
      /\ \A e \in Clients \ {c} : replies'[e] = replies[e]
  BY DEF RedisInv, RedisTypeOK, ProbeInv, Pinged
<1>2. ProbeInv' /\ ModeInv' /\ IdleUncounted'
  BY <1>1 DEF RedisInv, ProbeInv, Pinged, ModeInv, IdleUncounted
<1>3. UnseenInv' /\ AloneInv'
  BY <1>1 DEF RedisInv, ElectionInv, UnseenInv, AloneInv, SureOfIt, Decided
<1>4. PassedInv'
  <2> SUFFICES ASSUME NEW w \in Writers, NEW e \in Writers, w # e, SureOfIt(w)', e \in subs'
               PROVE  w < e \/ (pc'[w] = "held" /\ replies'[e][w] # "pending")
    BY DEF PassedInv
  <2>1. w \in Clients /\ e \in Clients
    BY ClientsAssumption
  <2>2. w < e \/ (pc[w] = "held" /\ replies[e][w] # "pending")
    BY <1>1 DEF RedisInv, ElectionInv, PassedInv, SureOfIt, Decided
  <2>3. CASE e # c \/ w # d
    BY <1>1, <2>1, <2>2, <2>3
  <2>4. CASE e = c /\ w = d
    BY <1>1, <2>1, <2>2, <2>4 DEF RedisInv, ModeInv
  <2> QED
    BY <2>3, <2>4
<1> QED
  BY <1>1, <1>2, <1>3, <1>4 DEF RedisInv, ElectionInv

-----------------------------------------------------------------------------
(* The steps that decide.                                                  *)
Enters(c) ==
    \/ Count(c) /\ pc'[c] # "probe"
    \/ Recount(c) /\ Choose(c)

(* A client enters alone, or every subscriber has answered it: a reader    *)
(* with "shared", a writer with "pending" and with no name before its own. *)
Informed(c) ==
    IF c \in Writers
       THEN \A d \in subs : d # c => replies[c][d] = "pending" /\ c <= d
       ELSE subs \cap Writers = {}

LEMMA AnswersInform ==
    ASSUME RedisInv, NEW c \in Clients, Choose(c), subs \subseteq Answered(c)
    PROVE  Informed(c)
<1>1. /\ \A d \in Answered(c) : replies[c][d] \in HolderModes /\ replies[c][d] \in Seen(c)
      /\ subs \subseteq Clients
  BY DEF RedisInv, RedisTypeOK, Answered, Seen
<1>2. CASE c \in Writers
  <2>1. Elected(c) /\ ~ReadersLeft(c)
    BY <1>2 DEF Choose, Compatible
  <2>2. \A d \in subs : replies[c][d] = "pending"
    BY <1>1, <2>1 DEF Elected, WriterIsElected, ReadersLeft, HolderModes
  <2> QED
    BY <1>2, <2>1, <2>2 DEF Informed, Elected, WriterIsElected
<1>3. CASE c \notin Writers
  <2>1. \A d \in subs : replies[c][d] = "shared"
    BY <1>1, <1>3 DEF Choose, Compatible, Elected, WriterIsElected
  <2> QED
    BY <1>1, <1>3, <2>1 DEF Informed, RedisInv, ModeInv
<1> QED
  BY <1>2, <1>3

LEMMA EnteringFacts ==
    ASSUME RedisInv, NEW c \in Clients, Enters(c)
    PROVE  /\ RedisTypeOK' /\ Apart(c) /\ UNCHANGED <<subs, mode>>
           /\ ~Decided(c) /\ pc'[c] = IF c \in Writers THEN "chosen" ELSE "held"
           /\ replies'[c] = Silent /\ \A d \in Clients : c \notin pings'[d]
           /\ c \in subs /\ c \notin unseen' => Informed(c)
<1>0. RedisTypeOK
  BY DEF RedisInv
<1>1. CASE Count(c) /\ pc'[c] # "probe"
  <2>1. /\ Cardinality(subs) = 1 /\ Enter(c) /\ pc[c] \in {"count", "attempt"}
        /\ UNCHANGED <<subs, mode, elected, pings, replies, victims, unseen, expected>>
    BY <1>0, <1>1 DEF Count, Counting, Goto, RedisTypeOK
  <2>2. RedisTypeOK' /\ Apart(c) /\ ~Decided(c)
        /\ pc'[c] = IF c \in Writers THEN "chosen" ELSE "held"
    BY <1>0, <2>1 DEF Enter, Goto, Apart, Decided, RedisTypeOK, Places, Active
  <2>3. c \in subs => subs = {c}
    BY <2>1, SubscriberCount, FS_Singleton
  <2>4. c \in subs => Informed(c)
    BY <2>3 DEF Informed
  <2> QED
    BY <2>1, <2>2, <2>4, NoProbe
<1>2. CASE Recount(c) /\ Choose(c)
  <2>1. /\ pc[c] = "wait" /\ Cardinality(subs) = expected[c] /\ UNCHANGED <<subs, mode>>
        /\ Enter(c) /\ EndProbe(c) /\ elected' \in [Clients -> BOOLEAN]
        /\ unseen' = IF Overlooks(c) THEN unseen \cup {c} ELSE unseen
    BY <1>0, <1>2 DEF Recount, Choose, RedisTypeOK, Inconclusive, BackOff, Leave, Enter, Goto
  <2>2. RedisTypeOK'
    BY <1>0, <2>1, EndProbeSettles DEF Enter, Goto, RedisTypeOK, Places, Active
  <2>3. /\ Apart(c) /\ ~Decided(c) /\ pc'[c] = IF c \in Writers THEN "chosen" ELSE "held"
        /\ replies'[c] = Silent /\ \A d \in Clients : c \notin pings'[d]
    BY <1>0, <2>1, EndProbeSettles DEF Enter, Goto, Apart, Decided, RedisTypeOK
  <2>4. c \notin unseen' => subs \subseteq Answered(c)
    BY <2>1 DEF Overlooks
  <2> QED
    BY <1>2, <2>1, <2>2, <2>3, <2>4, AnswersInform
<1> QED
  BY <1>1, <1>2 DEF Enters

LEMMA EnteringInv ==
    ASSUME RedisInv, NEW c \in Clients, Enters(c) PROVE RedisInv'
<1>1. ProbeInv' /\ ModeInv' /\ IdleUncounted'
  BY EnteringFacts DEF Apart, RedisInv, ProbeInv, Pinged, ModeInv, IdleUncounted, Silent
<1>2. UnseenInv'
  BY EnteringFacts DEF Apart, RedisInv, RedisTypeOK, ElectionInv, UnseenInv, Decided
<1>3. \A d \in Clients \ {c} : SureOfIt(d)' = SureOfIt(d) /\ pc'[d] = pc[d]
  BY EnteringFacts DEF Apart, SureOfIt, Decided
<1>4. SureOfIt(c)' => Informed(c) /\ c \in subs
  BY EnteringFacts DEF SureOfIt
<1>5. PassedInv'
  <2> SUFFICES ASSUME NEW w \in Writers, NEW d \in Writers, w # d, SureOfIt(w)', d \in subs'
               PROVE  w < d \/ (pc'[w] = "held" /\ replies'[d][w] # "pending")
    BY DEF PassedInv
  <2>1. w \in Clients /\ d \in Clients /\ w \in Nat /\ d \in Nat /\ d \in subs
    BY EnteringFacts, ClientsAssumption
  <2>2. CASE w = c
    BY <1>4, <2>1, <2>2 DEF Informed
  <2>3. CASE w # c
    <3>1. w < d \/ (pc[w] = "held" /\ replies[d][w] # "pending")
      BY <1>3, <2>1, <2>3 DEF RedisInv, ElectionInv, PassedInv
    <3>2. replies'[d] = replies[d] \/ replies'[d][w] = "none"
      BY EnteringFacts, <2>1 DEF Apart, Silent
    <3> QED
      BY <1>3, <2>1, <2>3, <3>1, <3>2
  <2> QED
    BY <2>2, <2>3
<1>6. ASSUME NEW d \in Clients \ {c}, SureOfIt(c)', SureOfIt(d) PROVE {c, d} \cap Writers = {}
  <2>1. Informed(c) /\ c \in subs /\ d \in subs
    BY <1>4, <1>6 DEF SureOfIt
  <2>2. CASE c \notin Writers
    BY <2>1, <2>2 DEF Informed
  <2>3. CASE c \in Writers
    <3>1. replies[c][d] = "pending" /\ c <= d
      BY <2>1, <2>3 DEF Informed
    <3>2. d \in Writers
      BY <3>1 DEF RedisInv, ModeInv
    <3>3. d < c
      BY <1>6, <2>1, <2>3, <3>1, <3>2 DEF RedisInv, ElectionInv, PassedInv
    <3> QED
      BY <3>1, <3>3, ClientsAssumption
  <2> QED
    BY <2>2, <2>3
<1>7. AloneInv'
  BY <1>3, <1>6 DEF RedisInv, ElectionInv, AloneInv
<1> QED
  BY <1>1, <1>2, <1>5, <1>7, EnteringFacts DEF RedisInv, ElectionInv

LEMMA PromoteInv ==
    ASSUME RedisInv, NEW c \in Clients, Promote(c)
    PROVE  RedisInv' /\ \A d \in Clients : SureOfIt(d)' = SureOfIt(d)
<1> USE DEF Promote, Goto, probeVars
<1>1. /\ RedisTypeOK' /\ pc[c] = "chosen" /\ pc' = [pc EXCEPT ![c] = "held"]
      /\ pc \in [Clients -> Places] /\ mode \in [Clients -> HolderModes]
      /\ UNCHANGED <<subs, pings, replies, unseen>>
      /\ c \in Writers
  BY DEF RedisInv, RedisTypeOK, ModeInv, Places, Active, HolderModes
<1>2. ProbeInv' /\ ModeInv' /\ IdleUncounted'
  BY <1>1 DEF RedisInv, ProbeInv, Pinged, ModeInv, IdleUncounted
<1>3. \A d \in Clients : SureOfIt(d)' = SureOfIt(d) /\ Decided(d)' = Decided(d)
  BY <1>1 DEF SureOfIt, Decided
<1>4. UnseenInv' /\ AloneInv'
  BY <1>1, <1>3 DEF RedisInv, RedisTypeOK, ElectionInv, UnseenInv, AloneInv
<1>5. PassedInv'
  BY <1>1, <1>3, ClientsAssumption DEF RedisInv, ElectionInv, PassedInv
<1> QED
  BY <1>1, <1>2, <1>3, <1>4, <1>5 DEF RedisInv, ElectionInv

-----------------------------------------------------------------------------
Step == \E c \in Clients :
    \/ Harmless(c) \/ Subscribe(c) \/ Ping(c) \/ Enters(c) \/ Promote(c)
    \/ \E d \in Clients : Answer(d, c)

LEMMA RedisSteps == [RedisNext]_redisVars => [Step]_redisVars
  BY DEF RedisNext, Attempt, CommandFails, Active, Commanding, Step, Harmless, Enters

(* A worker thread without a connection adds nothing to what a step can do *)
(* to the lock: the client is abandoned, or its prober waits in vain.      *)
LEMMA OwnSteps == [OwnNext]_ownVars => [Step]_redisVars
<1> SUFFICES ASSUME OwnNext PROVE [Step]_redisVars
  BY DEF ownVars
<1> PICK c \in Clients :
       \/ OwnStart(c) \/ OwnSubscribe(c) \/ OwnUnsubscribe(c) \/ OwnOther(c)
       \/ ThreadDies(c) \/ OwnInterrupted(c)
       \/ \E d \in Clients : OwnAnswer(d, c)
  BY DEF OwnNext
<1>1. CASE OwnOther(c)
  BY <1>1 DEF OwnOther, Step, Harmless, Enters
<1>2. CASE ThreadDies(c)
  BY <1>2 DEF ThreadDies
<1>3. CASE ~OwnOther(c) /\ ~ThreadDies(c)
  BY <1>3 DEF OwnStart, OwnSubscribe, OwnUnsubscribe, OwnInterrupted, OwnAnswer, Step, Harmless
<1> QED
  BY <1>1, <1>2, <1>3

LEMMA RedisInvStep == ASSUME RedisInv, [Step]_redisVars PROVE RedisInv'
<1>1. ASSUME NEW c \in Clients, Harmless(c) PROVE RedisInv'
  BY <1>1, HarmlessSettles, SettlingInv
<1>2. ASSUME NEW c \in Clients, Subscribe(c) \/ Ping(c) \/ \E d \in Clients : Answer(d, c)
      PROVE  RedisInv'
  BY <1>2, SubscribeInv, PingInv, AnswerInv
<1>3. ASSUME NEW c \in Clients, Enters(c) \/ Promote(c) PROVE RedisInv'
  BY <1>3, EnteringInv, PromoteInv
<1>4. CASE UNCHANGED redisVars
  <2>1. RedisTypeOK' /\ ProbeInv' /\ ModeInv' /\ IdleUncounted'
    BY <1>4 DEF RedisInv, RedisTypeOK, ProbeInv, Pinged, ModeInv, IdleUncounted,
                redisVars, probeVars
  <2>2. ElectionInv'
    BY <1>4 DEF RedisInv, ElectionInv, UnseenInv, PassedInv, AloneInv, SureOfIt, Decided,
                redisVars, probeVars
  <2> QED
    BY <2>1, <2>2 DEF RedisInv
<1> QED
  BY <1>1, <1>2, <1>3, <1>4 DEF Step

(* A client that decided having seen every subscriber was elected against  *)
(* the writers that were there, and those that came later are told that it *)
(* has the lock: so it decides alone, or among readers.                    *)
THEOREM RedisInvariant == RedisSpec => []RedisInv
<1>1. RedisInv /\ [RedisNext]_redisVars => RedisInv'
  BY RedisSteps, RedisInvStep
<1> QED
  BY <1>1, InitRedisInv, PTL DEF RedisSpec

(* The same of clients that create their connection themselves.            *)
THEOREM OwnInvariant == OwnSpec => []RedisInv
<1>1. OwnInit => RedisInv
  BY InitRedisInv DEF OwnInit
<1>2. RedisInv /\ [OwnNext]_ownVars => RedisInv'
  BY OwnSteps, RedisInvStep
<1> QED
  BY <1>1, <1>2, PTL DEF OwnSpec

(* RedisLock is typed, whatever the schedule.                              *)
THEOREM RedisTypes == RedisSpec => []RedisTypeOK
<1>1. RedisInv => RedisTypeOK
  BY DEF RedisInv
<1> QED
  BY <1>1, RedisInvariant, PTL

(* An idle RedisLock is not counted by the others, whatever the schedule.  *)
THEOREM RedisIdleUncounted == RedisSpec => []IdleUncounted
<1>1. RedisInv => IdleUncounted
  BY DEF RedisInv
<1> QED
  BY <1>1, RedisInvariant, PTL

LEMMA InvExcludes == RedisInv => OnlyUnseenConflict
  BY DEF RedisInv, ElectionInv, AloneInv, SureOfIt, Decided, OnlyUnseenConflict, Owns

(* Two clients own the lock and one is a writer only if one of the two     *)
(* decided without having seen a subscriber: the election and the recount  *)
(* keep them apart otherwise, whoever joins, leaves, dies, answers late or *)
(* is killed.                                                              *)
THEOREM RedisMutualExclusion == RedisSpec => []OnlyUnseenConflict
  BY InvExcludes, RedisInvariant, PTL

(* So they do when the clients own their connections and lose the threads  *)
(* that should answer: that costs subscriptions and time, not exclusion.   *)
THEOREM OwnMutualExclusion == OwnSpec => []OnlyUnseenConflict /\ []IdleUncounted
<1>1. RedisInv => IdleUncounted
  BY DEF RedisInv
<1> QED
  BY <1>1, InvExcludes, OwnInvariant, PTL

-----------------------------------------------------------------------------
(* Only a reader that enters and a writer that becomes exclusive gain a    *)
(* grant they are sure of; nobody else's changes in such a step.           *)
Gains(c) == Enters(c) \/ Promote(c)

LEMMA OnlyGainers ==
    ASSUME RedisInv, [Step]_redisVars, \A c \in Clients : ~Gains(c), NEW r \in Clients
    PROVE  Sure(r)' => Sure(r) /\ mode'[r] = mode[r]
<1>1. ASSUME NEW c \in Clients, Harmless(c) PROVE Sure(r)' => Sure(r) /\ mode'[r] = mode[r]
  BY <1>1, HarmlessSettles DEF Settles, Apart, Resting, Sure, Owns
<1>2. ASSUME NEW c \in Clients, Subscribe(c) \/ Ping(c) \/ \E d \in Clients : Answer(d, c)
      PROVE  Sure(r)' => Sure(r) /\ mode'[r] = mode[r]
  BY <1>2 DEF Subscribe, Ping, Answer, Goto, Sure, Owns, RedisInv, RedisTypeOK
<1>3. CASE UNCHANGED redisVars
  BY <1>3 DEF redisVars, Sure, Owns
<1> QED
  BY <1>1, <1>2, <1>3 DEF Step, Gains

LEMMA GainerGains ==
    ASSUME RedisInv, NEW c \in Clients, Gains(c)
    PROVE  /\ ~Owns(c) /\ subs' = subs
           /\ \A d \in Clients \ {c} : Sure(d)' = Sure(d) /\ mode'[d] = mode[d]
           /\ c \notin Writers /\ Sure(c)' => subs \cap Writers = {}
<1>1. CASE Enters(c)
  BY <1>1, EnteringFacts DEF Owns, Sure, Decided, Apart, Informed
<1>2. CASE Promote(c)
  BY <1>2 DEF Promote, Goto, probeVars, Owns, Sure, RedisInv, RedisTypeOK, ModeInv
<1> QED
  BY <1>1, <1>2 DEF Gains

LEMMA StepKeepsReadersOut ==
    ASSUME RedisInv, [Step]_redisVars, NEW r \in Clients \ Writers, ~Owns(r), Sure(r)',
           NEW w \in Writers, elected[w], w \in subs, pc[w] # "held"
    PROVE  FALSE
<1>1. PICK c \in Clients : Gains(c)
  BY OnlyGainers DEF Sure
<1>2. r = c
  BY <1>1, GainerGains DEF Sure
<1> QED
  BY <1>1, <1>2, GainerGains

(* No reader gets in while an elected writer waits, in either module.      *)
THEOREM RedisPendingKeepsReadersOut ==
    (RedisSpec => PendingKeepsReadersOut) /\ (OwnSpec => PendingKeepsReadersOut)
<1> DEFINE Kept == \A r \in Clients \ Writers :
        ~Owns(r) /\ Sure(r)' =>
            ~\E w \in Writers : elected[w] /\ w \in subs /\ pc[w] # "held"
<1>1. RedisInv /\ [Step]_redisVars => Kept
  BY StepKeepsReadersOut
<1>2. RedisInv /\ [RedisNext]_redisVars => [Kept]_redisVars
  BY <1>1, RedisSteps
<1>3. RedisInv /\ [OwnNext]_ownVars => [Kept]_redisVars
  BY <1>1, OwnSteps
<1>4. RedisSpec => PendingKeepsReadersOut
  BY <1>2, RedisInvariant, PTL DEF RedisSpec, PendingKeepsReadersOut
<1>5. OwnSpec => PendingKeepsReadersOut
  BY <1>3, OwnInvariant, PTL DEF OwnSpec, PendingKeepsReadersOut
<1> QED
  BY <1>4, <1>5

-----------------------------------------------------------------------------
Grants == [c \in Clients |-> RedisMode(c)]

LEMMA StepImplements ==
    ASSUME RedisInv, [Step]_redisVars PROVE [RedisAbstract!Next]_Grants
<1>0. RedisInv'
  BY RedisInvStep
<1>1. ASSUME NEW c \in Clients, Gains(c) PROVE [RedisAbstract!Next]_Grants
  <2>1. Grants[c] = "none" /\ Grants' = [Grants EXCEPT ![c] = RedisMode(c)']
    BY <1>1, GainerGains DEF Grants, RedisMode, Sure
  <2>2. CASE ~Sure(c)'
    BY <2>1, <2>2 DEF Grants, RedisMode
  <2>3. CASE Sure(c)'
    <3>1. RedisMode(c)' = IF c \in Writers THEN "exclusive" ELSE "shared"
      BY <1>0, <2>3 DEF RedisMode, RedisInv, RedisTypeOK, HolderModes, ModeInv, Sure, Owns
    <3>2. \A d \in Clients \ {c} : ~RedisAbstract!Conflict(RedisMode(c)', Grants[d])
      <4> SUFFICES ASSUME NEW d \in Clients \ {c}, Sure(d)
                   PROVE  RedisMode(c)' = "shared" /\ mode[d] = "shared"
        BY DEF RedisAbstract!Conflict, Grants, RedisMode
      <4>1. Sure(d)'
        BY <1>1, GainerGains
      <4>2. c \notin Writers /\ d \notin Writers
        BY <1>0, <2>3, <4>1 DEF RedisInv, ElectionInv, AloneInv, SureOfIt, Decided, Sure, Owns
      <4> QED
        BY <3>1, <4>2 DEF RedisInv, ModeInv
    <3> QED
      BY <2>1, <3>1, <3>2 DEF RedisAbstract!Next, RedisAbstract!Grant, Grants
  <2> QED
    BY <2>2, <2>3
<1>2. CASE \A c \in Clients : ~Gains(c)
  <2> DEFINE S == {d \in Clients : ~Sure(d)'}
  <2>1. Grants' = [d \in Clients |-> IF d \in S THEN "none" ELSE Grants[d]]
    BY <1>2, OnlyGainers DEF Grants, RedisMode
  <2> QED
    BY <2>1 DEF RedisAbstract!Next, RedisAbstract!Revoke, Grants
<1> QED
  BY <1>1, <1>2

LEMMA InitImplements == RedisInit => RedisAbstract!Init
  BY DEF RedisInit, RedisAbstract!Init, RedisMode, Sure, Owns

(* As far as the owners are sure, taking, sharing, losing and being killed *)
(* are grants, drops and revocations of one readers-writer lock.           *)
THEOREM RedisImplements == RedisSpec => RedisImplementsRWLock
<1>1. RedisInv /\ [RedisNext]_redisVars => [RedisAbstract!Next]_Grants
  BY RedisSteps, StepImplements
<1> QED
  BY <1>1, InitImplements, RedisInvariant, PTL
  DEF RedisSpec, RedisImplementsRWLock, RedisAbstract!Spec, Grants

(* So they are for clients that own their connection, whose threads may    *)
(* die while they hold the lock.                                           *)
THEOREM OwnImplements == OwnSpec => RedisImplementsRWLock
<1>1. OwnInit => RedisAbstract!Init
  BY InitImplements DEF OwnInit
<1>2. RedisInv /\ [OwnNext]_ownVars => [RedisAbstract!Next]_Grants
  BY OwnSteps, StepImplements
<1> QED
  BY <1>1, <1>2, OwnInvariant, PTL
  DEF OwnSpec, RedisImplementsRWLock, RedisAbstract!Spec, Grants
=============================================================================
