------------------------------ MODULE PidBlocks -----------------------------
(***************************************************************************)
(* The blocks that run under a PidFileLock: `with lock`, which is entered  *)
(* without the lock on contention, and `with lock.fail_closed()`           *)
(* (_PidFileLockFailClosedContext, utils.py:1494-1577), which is not.      *)
(* Adds to PidLock how many blocks of an object are running.               *)
(***************************************************************************)
EXTENDS PidLock, Integers

CONSTANTS FailClosed,  \* the locks that are used through fail_closed()
          MaxBlocks    \* bound: how deep the blocks of one object are nested

ASSUME FailClosedAssumption == FailClosed \subseteq Locks
ASSUME MaxBlocksAssumption == MaxBlocks \in Nat \ {0}

VARIABLE blocks        \* the blocks of each lock's object that are running

blockVars == <<pidVars, blocks>>

BlockTypeOK == PidTypeOK /\ blocks \in [Locks -> 0..MaxBlocks]

BlockInit == PidInit /\ blocks = [l \in Locks |-> 0]

Blocks(l, n) == blocks' = [blocks EXCEPT ![l] = @ + n]

EnterFirst(l) == blocks[l] = 0 /\ EnterLock(l) /\ UNCHANGED blocks

(* acquire goes on, or it fails and passes its exception on.               *)
EnterStep(l) ==
    /\ SidecarStep(l) \/ Verified(l) \/ VerifyBreaks(l) \/ TruncatePid(l) \/ PublishFails(l)
    /\ UNCHANGED blocks

(* acquire has returned, and the block begins.                             *)
BeginHeld(l) == WritePid(l) /\ Blocks(l, 1)

(* __enter__ of the lock itself returns the holder's PID.                  *)
BeginUnheld(l) == l \notin FailClosed /\ ReadPid(l) /\ Blocks(l, 1)

(* Mutation: the contention is reported but not raised.                    *)
RefuseSilently(l) == l \in FailClosed /\ ReadPid(l) /\ Blocks(l, 1)

(* The fail-closed context attaches the holder's PID and raises again.     *)
Refuse(l) ==
    /\ l \in FailClosed
    /\ Step(l, "contended", "out")
    /\ UNCHANGED <<tempVars, pidfile, blocks>>

(* The block has ended and __exit__ runs: it releases what is held.        *)
EndUnheld(l) == ExitUnheld(l) /\ Blocks(l, -1)
EndHeld(l) == ReleasePid(l) /\ Blocks(l, -1)
EndBreaks(l) == ReleaseBreaks(l) /\ Blocks(l, IF stage[l] = "holding" THEN -1 ELSE 0)

ExitStep(l) == (ReleaseSidecar(l) \/ ReleaseEnd(l)) /\ UNCHANGED blocks

BlockCrash(l) == PidCrash(l) /\ blocks' = [blocks EXCEPT ![l] = 0]

BlockStep(l) ==
    \/ EnterFirst(l) \/ EnterStep(l)
    \/ BeginHeld(l) \/ BeginUnheld(l) \/ Refuse(l)
    \/ EndUnheld(l) \/ EndHeld(l) \/ EndBreaks(l) \/ ExitStep(l)
    \/ BlockCrash(l)

BlockNext == (PidCleanup /\ UNCHANGED blocks) \/ \E l \in Locks : BlockStep(l)

BlockSpec == BlockInit /\ [][BlockNext]_blockVars

-----------------------------------------------------------------------------
(* Blocks of one object inside each other.                                 *)

(* acquire puts a new Lock in _inner_lock; nothing refers to the old one   *)
(* any more, and its finalizer unlocks and closes the sidecar that is held.*)
ReplaceInner(l) ==
    /\ blocks[l] \in 1 .. MaxBlocks - 1
    /\ Step(l, "holding", "replacing")
    /\ LetGo(l)
    /\ UNCHANGED <<pidfile, blocks>>

ReplaceEnd(l) ==
    /\ ReleaseUnlock(l) \/ ReleaseClose(l)
    /\ Step(l, "replacing", IF phase'[l] = "idle" THEN "replaced" ELSE "replacing")
    /\ UNCHANGED <<pidfile, blocks>>

(* Then the sidecar is locked as the first time.                           *)
EnterAgain(l) ==
    /\ Step(l, "replaced", "entering")
    /\ StartAcquire(l)
    /\ UNCHANGED <<pidfile, blocks>>

(* The inner __exit__ has released the lock and cleared _acquired_lock, so *)
(* the outer one has nothing to do.                                        *)
EndOuter(l) ==
    /\ stage[l] = "out" /\ blocks[l] > 0
    /\ Blocks(l, -1)
    /\ UNCHANGED pidVars

NestedNext ==
    BlockNext \/ \E l \in Locks : ReplaceInner(l) \/ ReplaceEnd(l) \/ EnterAgain(l) \/ EndOuter(l)

NestedSpec == BlockInit /\ [][NestedNext]_blockVars

-----------------------------------------------------------------------------
(* As long as a fail-closed block runs no other process has the lock:      *)
(* entering is refused on contention, and nothing but its own exit gives   *)
(* the lock up ("guarantees the block only runs while this process owns    *)
(* the lock", utils.py:1356-1358).                                         *)
FailClosedOwns == \A l \in FailClosed :
    blocks[l] > 0 => \A k \in Locks \ {l} : ~Owner(k)
=============================================================================
