------------------------------ MODULE RedisOwn ------------------------------
(***************************************************************************)
(* RedisLock objects that create their connection themselves.  release,    *)
(* which is also the back-off between two attempts, closes and forgets it, *)
(* while acquire goes on with the connection it got before its first       *)
(* attempt.  The worker thread of a later attempt then finds none when it  *)
(* has to answer: channel_handler's assertion ends the thread.             *)
(***************************************************************************)
EXTENDS RedisLock

VARIABLES connected,   \* the clients whose self.connection is set
          mute         \* the clients whose worker thread has died

ownVars == <<redisVars, connected, mute>>

OwnInit == RedisInit /\ connected = {} /\ mute = {}

(* get_connection, once per acquire.                                       *)
OwnStart(c) ==
    /\ StartAcquire(c)
    /\ connected' = connected \cup {c}
    /\ UNCHANGED mute

(* Every subscription has a thread of its own.                             *)
OwnSubscribe(c) ==
    /\ Subscribe(c)
    /\ mute' = mute \ {c}
    /\ UNCHANGED connected

OwnUnsubscribe(c) ==
    /\ Unsubscribe(c)
    /\ connected' = connected \ {c}
    /\ UNCHANGED mute

(* channel_handler with and without a connection.                          *)
OwnAnswer(d, c) ==
    /\ d \in connected \ mute
    /\ Answer(d, c)
    /\ UNCHANGED <<connected, mute>>

ThreadDies(d) ==
    /\ d \notin connected \cup mute
    /\ pings[d] # {}
    /\ mute' = mute \cup {d}
    /\ UNCHANGED <<redisVars, connected>>

(* The thread interrupts the main thread, and acquire ends or the holder   *)
(* is thrown out of its block, as when the connection was lost.            *)
OwnInterrupted(c) == c \in mute /\ pc[c] \in Active /\ Abandon(c) /\ UNCHANGED <<connected, mute>>

OwnOther(c) ==
    /\ \/ Count(c) \/ Ping(c) \/ Recount(c) \/ Promote(c)
       \/ ListUnavailable(c) \/ Kill(c) \/ AllKilled(c)
       \/ GiveUp(c) \/ Release(c) \/ Interrupted(c)
    /\ UNCHANGED <<connected, mute>>

OwnNext == \E c \in Clients :
    \/ OwnStart(c) \/ OwnSubscribe(c) \/ OwnUnsubscribe(c)
    \/ OwnOther(c)
    \/ ThreadDies(c) \/ OwnInterrupted(c)
    \/ \E d \in Clients : OwnAnswer(d, c)

OwnSpec == OwnInit /\ [][OwnNext]_ownVars

-----------------------------------------------------------------------------
(* "A probing lock is subscribed to its own channel, so it answers its own *)
(* ping and appears in its own holder list" (redis.py:369-370): while it   *)
(* waits for the answer to its ping, its worker thread is there to give it.*)
AnswersItself == \A c \in Clients : c \in mute => c \notin pings[c]
=============================================================================
