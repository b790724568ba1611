------------------------------ MODULE PidLock ------------------------------
(***************************************************************************)
(* portalocker.PidFileLock on POSIX.  The flock is on a sidecar file that  *)
(* comes and goes like a TemporaryFileLock's (fd, granted, path, pc and    *)
(* phase are the sidecar's); the PID file beside it carries no lock and    *)
(* only says who holds the sidecar.  A lock object stands for its process, *)
(* and for its PID.                                                        *)
(***************************************************************************)
EXTENDS TempLock

VARIABLES pidfile,  \* the PID in the PID file; None when missing or empty
          stage     \* where each lock is in PidFileLock's own methods

pidVars == <<tempVars, pidfile, stage>>

(* "entering": in _acquire_verified; "publishing" and "writing": in        *)
(* _write_pid before and after the truncation; "unlinking": release has    *)
(* unlinked the PID file; "contended": acquire raised AlreadyLocked;       *)
(* "told" and "untold": the block runs without the lock, with the PID of   *)
(* another process or with None; "interrupted": acquire was left with      *)
(* _inner_lock set; "replacing" and "replaced": an acquire inside a block  *)
(* of the same object drops its first Lock (PidBlocks).                    *)
Stages == {"out", "entering", "publishing", "writing", "holding", "unlinking", "releasing",
           "contended", "told", "untold", "interrupted", "replacing", "replaced", "dead"}

PidTypeOK ==
    /\ TempTypeOK
    /\ pidfile \in Locks \cup {None}
    /\ stage \in [Locks -> Stages]

PidInit ==
    /\ TempInit
    /\ pidfile = None
    /\ stage = [l \in Locks |-> "out"]

Step(l, from, to) == stage[l] = from /\ stage' = [stage EXCEPT ![l] = to]

-----------------------------------------------------------------------------
(* acquire                                                                 *)

EnterLock(l) ==
    /\ Step(l, "out", "entering")
    /\ StartAcquire(l)
    /\ UNCHANGED pidfile

(* _acquire_verified on the sidecar; every LockException it ends with      *)
(* becomes AlreadyLocked, and _inner_lock is forgotten.                    *)
SidecarStep(l) ==
    /\ InnerAcquire(l) \/ VerifyStale(l) \/ DropStale(l) \/ Reopen(l) \/ GiveUp(l)
    /\ Step(l, "entering", IF phase'[l] = "idle" THEN "contended" ELSE "entering")
    /\ UNCHANGED pidfile

(* Mutation: the sidecar is not checked for a swap of its path.            *)
VerifiedBlindly(l) ==
    /\ Verifying(l)
    /\ Enter(l, "held")
    /\ Step(l, "entering", "publishing")
    /\ UNCHANGED <<lockVars, pidfile>>

Verified(l) ==
    /\ VerifyOk(l)
    /\ Step(l, "entering", "publishing")
    /\ UNCHANGED pidfile

(* The sidecar's Lock is let go and its finalizer releases it; there is    *)
(* nothing that unlinks a path.                                            *)
LetGo(l) == Enter(l, "releasing") /\ UNCHANGED lockVars

(* The check raises: acquire forgets _inner_lock and passes it on.         *)
VerifyBreaks(l) ==
    /\ "stat" \in Faults
    /\ Verifying(l)
    /\ LetGo(l)
    /\ Step(l, "entering", "releasing")
    /\ UNCHANGED pidfile

(* _write_pid empties the PID file, then writes and flushes the PID.       *)
TruncatePid(l) ==
    /\ Step(l, "publishing", "writing")
    /\ pidfile' = None
    /\ UNCHANGED tempVars

(* Mutation: the descriptor's number is written for the PID.               *)
WriteDescriptor(l) ==
    /\ Step(l, "writing", "holding")
    /\ pidfile' = fd[l]
    /\ UNCHANGED tempVars

WritePid(l) ==
    /\ Step(l, "writing", "holding")
    /\ pidfile' = l
    /\ UNCHANGED tempVars

(* Mutation: publishing fails and the exception leaves without rollback.   *)
PublishFailsKeeping(l) ==
    /\ "publish" \in Faults
    /\ Step(l, "writing", "out")
    /\ UNCHANGED <<tempVars, pidfile>>

(* Publishing fails and _rollback_failed_acquire releases the sidecar; the *)
(* PID stays in the file when it was fsync or close that failed.           *)
PublishFails(l) ==
    /\ "publish" \in Faults
    /\ LetGo(l)
    /\ \/ Step(l, "publishing", "releasing") /\ UNCHANGED pidfile
       \/ Step(l, "writing", "releasing") /\ pidfile' \in {None, l}

-----------------------------------------------------------------------------
(* __enter__ on contention, and release                                    *)

(* read_pid after AlreadyLocked; then the block runs and is left again.    *)
ReadPid(l) ==
    /\ Step(l, "contended", IF pidfile = None THEN "untold" ELSE "told")
    /\ UNCHANGED <<tempVars, pidfile>>

(* Nothing was acquired, so __exit__ releases nothing.                     *)
ExitUnheld(l) ==
    /\ Step(l, "told", "out") \/ Step(l, "untold", "out")
    /\ UNCHANGED <<tempVars, pidfile>>

ReleasePid(l) ==
    /\ Step(l, "holding", "unlinking")
    /\ pidfile' = None
    /\ UNCHANGED tempVars

ReleaseSidecar(l) ==
    /\ Step(l, "unlinking", "releasing")
    /\ Release(l)
    /\ UNCHANGED pidfile

(* An unlink fails; what comes after it is skipped up to the finally.      *)
ReleaseBreaks(l) ==
    /\ Step(l, "holding", "releasing") \/ Step(l, "unlinking", "releasing")
    /\ UnlinkFails(l)
    /\ UNCHANGED pidfile

(* Mutation: the PID file is unlinked after the sidecar was released.      *)
ReleaseEndUnlinking(l) ==
    /\ ReleaseUnlock(l) \/ ReleaseClose(l)
    /\ Step(l, "releasing", IF phase'[l] = "idle" THEN "out" ELSE "releasing")
    /\ pidfile' = None

(* The sidecar's Lock.release, whichever way it was come by.               *)
ReleaseEnd(l) ==
    /\ ReleaseUnlock(l) \/ ReleaseClose(l)
    /\ Step(l, "releasing", IF phase'[l] = "idle" THEN "out" ELSE "releasing")
    /\ UNCHANGED pidfile

(* The process dies and leaves its PID file; its PID is not used again.    *)
PidCrash(l) ==
    /\ TempCrash(l)
    /\ stage' = [stage EXCEPT ![l] = "dead"]
    /\ UNCHANGED pidfile

PidCleanup == Cleanup /\ UNCHANGED <<pidfile, stage>>

-----------------------------------------------------------------------------
PidNext ==
    \/ PidCleanup
    \/ \E l \in Locks :
          \/ EnterLock(l) \/ SidecarStep(l) \/ Verified(l) \/ VerifyBreaks(l)
          \/ TruncatePid(l) \/ WritePid(l) \/ PublishFails(l)
          \/ ReadPid(l)
          \/ ExitUnheld(l)
          \/ ReleasePid(l) \/ ReleaseSidecar(l) \/ ReleaseBreaks(l)
          \/ ReleaseEnd(l)
          \/ PidCrash(l)

PidSpec == PidInit /\ [][PidNext]_pidVars

-----------------------------------------------------------------------------
(* What an interrupted acquire does.                                       *)

(* The user interrupts the sleep between two attempts: KeyboardInterrupt   *)
(* is no Exception, so acquire is left with _inner_lock still set.         *)
Interrupt(l) ==
    /\ phase[l] = "acquiring"
    /\ Expire(l)
    /\ Enter(l, "idle")
    /\ Step(l, "entering", "interrupted")
    /\ UNCHANGED pidfile

(* __del__ or atexit runs release on an interrupted lock: _inner_lock is   *)
(* set, so both files are unlinked, though nothing is held.  The two       *)
(* unlinks are one step here.                                              *)
Finalize(l) ==
    /\ Step(l, "interrupted", "out")
    /\ pidfile' = None
    /\ UnlinkPath
    /\ UNCHANGED <<pc, phase, stray>>

InterruptedNext == PidNext \/ \E l \in Locks : Interrupt(l) \/ Finalize(l)

InterruptedSpec == PidInit /\ [][InterruptedNext]_pidVars

-----------------------------------------------------------------------------
(* The process that owns the sidecar, and so may touch the PID file.       *)
Owner(l) == stage[l] \in {"publishing", "writing", "holding", "unlinking"}
PidMode == [l \in Locks |-> IF Owner(l) THEN "exclusive" ELSE "none"]

(* Whoever runs its block as the holder is alone in it, has its own PID in *)
(* the PID file, and the sidecar's path still names the file it flocked:   *)
(* neither a failed nor a finished nor a finalized lock of another process *)
(* takes them away (utils.py:1448-1492).                                   *)
HolderPublished == \A l \in Locks :
    stage[l] = "holding" => pidfile = l /\ fd[l] = path /\ granted[l] # "none"

(* Only one process at a time works on the PID file: PidFileLock           *)
(* implements the abstract lock.                                           *)
PidAbstract == INSTANCE RWLock WITH Clients <- Locks, grant <- PidMode
PidImplementsRWLock == PidAbstract!Spec

(* An acquire that failed, whether in the sidecar's lock, in the check or  *)
(* in publishing the PID, and a finished release never leave the sidecar   *)
(* locked or open (utils.py:1256-1260, 1283-1320).                         *)
OutsideHoldsNothing == \A l \in Locks :
    stage[l] \in {"out", "contended", "told", "untold", "dead"} =>
        fd[l] = None /\ granted[l] = "none"
=============================================================================
