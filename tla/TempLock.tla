------------------------------ MODULE TempLock ------------------------------
(***************************************************************************)
(* portalocker.TemporaryFileLock on POSIX: a Lock whose release unlinks    *)
(* the path while the flock is still held, and whose acquire checks after  *)
(* locking that the path still names the file it locked, because another   *)
(* release may have unlinked that file after it was opened.                *)
(***************************************************************************)
EXTENDS FileLock

VARIABLES phase,  \* where each lock is in TemporaryFileLock's own methods
          stray   \* history: a lock that was not held unlinked another's file

tempVars == <<lockVars, phase, stray>>

(* "acquiring": in _acquire_verified; "checking": acquire was called on a  *)
(* lock that is held; "dropping": letting a stale file go; "failed": the   *)
(* check raised, acquire is left with self.fh set; "releasing": past the   *)
(* unlink.                                                                 *)
Phases == {"idle", "acquiring", "held", "checking", "dropping", "failed", "releasing"}

TempTypeOK == TypeOK /\ phase \in [Locks -> Phases] /\ stray \in BOOLEAN

TempInit == Init /\ phase = [l \in Locks |-> "idle"] /\ stray = FALSE

Enter(l, there) == phase' = [phase EXCEPT ![l] = there] /\ UNCHANGED stray

-----------------------------------------------------------------------------
(* acquire                                                                 *)

StartAcquire(l) == phase[l] = "idle" /\ Acquire(l) /\ Enter(l, "acquiring")

(* Mutation: a result of Lock.acquire that acquire does not know.          *)
InnerAcquireLost(l) ==
    /\ phase[l] = "acquiring"
    /\ Attempt(l) \/ Retry(l) \/ Expire(l) \/ Prepare(l) \/ PrepareRaises(l)
    /\ Enter(l, IF pc'[l] \in {"idle", "orphan"} THEN pc'[l] ELSE "acquiring")

(* Lock.acquire runs its course; what it raises leaves acquire too.        *)
InnerAcquire(l) ==
    /\ phase[l] = "acquiring"
    /\ Attempt(l) \/ Retry(l) \/ Expire(l) \/ Prepare(l) \/ PrepareRaises(l)
    /\ Enter(l, IF pc'[l] \in {"idle", "orphan"} THEN "idle" ELSE "acquiring")

(* With self.fh set Lock.acquire returns it at once; only the check runs.  *)
Reacquire(l) ==
    /\ phase[l] \in {"held", "failed"}
    /\ Enter(l, IF phase[l] = "held" THEN "checking" ELSE "acquiring")
    /\ UNCHANGED lockVars

(* _fh_matches_path: a file that is open keeps its inode number.           *)
Matches(l) == fd[l] = path

Verifying(l) == phase[l] \in {"acquiring", "checking"} /\ pc[l] = "held"

(* Mutation: no check after locking.                                       *)
VerifyNothing(l) == Verifying(l) /\ Enter(l, "held") /\ UNCHANGED lockVars

VerifyOk(l) ==
    /\ Verifying(l)
    /\ Matches(l)
    /\ Enter(l, "held")
    /\ UNCHANGED lockVars

(* Mutation: a stale handle is dropped as release would, path included.    *)
VerifyStaleUnlinking(l) ==
    /\ Verifying(l)
    /\ ~Matches(l)
    /\ UnlinkPath
    /\ Enter(l, "releasing")
    /\ UNCHANGED pc

(* Mutation: a stale handle raises at once instead of being dropped.       *)
VerifyStaleRaising(l) == Verifying(l) /\ ~Matches(l) /\ Enter(l, "idle") /\ UNCHANGED lockVars

(* A stale handle is dropped with Lock.release, which leaves the path be.  *)
VerifyStale(l) ==
    /\ Verifying(l)
    /\ ~Matches(l)
    /\ Unlock(l) \/ UnlockFails(l)
    /\ Enter(l, "dropping")

(* The stat of the path fails with another OSError than FileNotFoundError, *)
(* or the user interrupts it: self.fh stays set.                           *)
VerifyRaises(l) ==
    /\ "stat" \in Faults
    /\ Verifying(l)
    /\ Enter(l, IF phase[l] = "checking" THEN "held" ELSE "failed")
    /\ UNCHANGED lockVars

DropStale(l) == phase[l] = "dropping" /\ Close(l) /\ UNCHANGED <<phase, stray>>

Reopen(l) == phase[l] = "dropping" /\ Acquire(l) /\ Enter(l, "acquiring")

(* Mutation: the retry loop around the check has no deadline.              *)
GiveUpNever(l) == FALSE /\ Enter(l, "idle") /\ UNCHANGED lockVars

(* The timeout bounds the loop around the check as well: AlreadyLocked.    *)
GiveUp(l) ==
    /\ phase[l] = "dropping"
    /\ pc[l] = "idle"
    /\ Enter(l, "idle")
    /\ UNCHANGED lockVars

(* The handle of an acquire whose truncate raised is collected.            *)
CollectOrphan(l) == Collect(l) /\ UNCHANGED <<phase, stray>>

-----------------------------------------------------------------------------
(* release, also run by __del__ and by the atexit handler                  *)

Release(l) ==
    /\ phase[l] \in {"held", "failed"}
    /\ UnlinkPath
    /\ phase' = [phase EXCEPT ![l] = "releasing"]
    /\ stray' = (stray \/ (phase[l] = "failed" /\ ~Matches(l)))
    /\ UNCHANGED pc

UnlinkFails(l) ==
    /\ "unlink" \in Faults
    /\ phase[l] \in {"held", "failed"}
    /\ Enter(l, "releasing")
    /\ UNCHANGED lockVars

ReleaseUnlock(l) ==
    /\ phase[l] = "releasing"
    /\ Unlock(l) \/ UnlockFails(l)
    /\ UNCHANGED <<phase, stray>>

(* Mutation: the path is unlinked once more after the flock was given up.  *)
ReleaseCloseUnlinking(l) ==
    /\ phase[l] = "releasing" /\ pc[l] = "closing"
    /\ path' = None
    /\ fd' = [fd EXCEPT ![l] = None]
    /\ granted' = [granted EXCEPT ![l] = "none"]
    /\ Goto(l, "idle")
    /\ Enter(l, "idle")

ReleaseClose(l) == phase[l] = "releasing" /\ Close(l) /\ Enter(l, "idle")

TempCrash(l) == Crash(l) /\ Enter(l, "idle")

(* Somebody deletes the file a dead process left behind; it is not locked. *)
Cleanup ==
    /\ "cleanup" \in Faults
    /\ path # None
    /\ ~PathFlocked
    /\ UnlinkPath
    /\ UNCHANGED <<pc, phase, stray>>

-----------------------------------------------------------------------------
TempNext ==
    \/ Cleanup
    \/ \E l \in Locks :
          \/ StartAcquire(l)
          \/ InnerAcquire(l)
          \/ Reacquire(l)
          \/ VerifyOk(l) \/ VerifyStale(l) \/ VerifyRaises(l)
          \/ DropStale(l) \/ Reopen(l) \/ GiveUp(l)
          \/ CollectOrphan(l)
          \/ Release(l) \/ UnlinkFails(l)
          \/ ReleaseUnlock(l) \/ ReleaseClose(l)
          \/ TempCrash(l)

TempSpec == TempInit /\ [][TempNext]_tempVars

(* A call that was started runs on, and a finite timeout ends it: both the *)
(* retries of Lock.acquire and the loop around the check are bounded by    *)
(* it, however often they go round before.  Nobody has to release.         *)
TempFairness == \A l \in Locks :
    /\ WF_tempVars(InnerAcquire(l) \/ VerifyOk(l) \/ VerifyStale(l) \/ DropStale(l) \/ Reopen(l))
    /\ SF_tempVars(GiveUp(l) \/ (phase[l] = "acquiring" /\ Expire(l) /\ Enter(l, "idle")))

FairTempSpec == TempSpec /\ TempFairness

-----------------------------------------------------------------------------
TempHeld(l) == phase[l] \in {"held", "checking"}
TempMode == [l \in Locks |-> IF TempHeld(l) THEN Mode[l] ELSE "none"]

(* Mutual exclusion although the file comes and goes: no two callers hold  *)
(* conflicting locks, on the same file or on two files that had the same   *)
(* name (the split brain of _acquire_verified, utils.py:1047-1070).        *)
TempExclusion == \A k, l \in Locks : k # l => ~Conflict(TempMode[k], TempMode[l])

(* ... which one thing can undo: a check that raised has left a lock that  *)
(* nobody holds with a handle on a file the path no longer names, and its  *)
(* release unlinks what the path names now (utils.py:1063, 1086-1110).     *)
ExclusionUnlessStray == ~stray => TempExclusion

(* From the return of acquire to the call of release the path names the    *)
(* very file the holder has flocked: nobody unlinked or replaced it, so    *)
(* every newcomer contends with the holder (utils.py:941-945, 1072-1110).  *)
HolderOwnsPath == ~stray => \A l \in Locks : TempHeld(l) => fd[l] = path /\ granted[l] = Mode[l]

(* An acquire that failed left no handle behind that a later finalizer     *)
(* would take for a held lock and release (utils.py:941-945), but in two   *)
(* cases: the check raised (utils.py:1063), and the truncation did, which  *)
(* leaves a handle that only its collection closes (utils.py:644).         *)
FailedHoldsNothing == \A l \in Locks :
    /\ phase[l] \in {"idle", "failed"}
    /\ fd[l] # None \/ granted[l] # "none"
    => \/ phase[l] = "failed" /\ "stat" \in Faults
       \/ pc[l] = "orphan" /\ l \in Truncating /\ "prepare" \in Faults

(* A non-blocking acquire returns or raises, whatever the others do, even  *)
(* when they replace the file time and again (utils.py:1052-1070).         *)
TempAcquireEnds == \A l \in Locks \ Blocking :
    phase[l] \in {"acquiring", "dropping"} ~> phase[l] \in {"held", "idle", "failed"}

(* TemporaryFileLock implements the abstract reader/writer lock as long as *)
(* no stray release has unlinked another lock's file.                      *)
SoundMode == [l \in Locks |-> IF stray THEN "none" ELSE TempMode[l]]

TempAbstract == INSTANCE RWLock WITH Clients <- Locks, grant <- SoundMode
TempImplementsRWLock == TempAbstract!Spec

-----------------------------------------------------------------------------
(* The constructor's default flags.                                        *)
ExclusiveFlags == \A l \in Locks : Mode[l] = "exclusive"

(* Where Lock's own code can be, for each place in TemporaryFileLock's.    *)
PhaseInv == \A l \in Locks :
    /\ phase[l] = "idle" => pc[l] \in {"idle", "orphan"}
    /\ phase[l] = "acquiring" => pc[l] \in {"trying", "waiting", "locked", "held"}
    /\ phase[l] \in {"held", "checking", "failed"} => pc[l] = "held"
    /\ phase[l] = "dropping" => pc[l] \in {"closing", "idle"}
    /\ phase[l] = "releasing" => pc[l] \in {"held", "closing"}
    /\ phase[l] = "failed" => "stat" \in Faults

TempInv == FlockInv /\ TempTypeOK /\ PhaseInv /\ HolderOwnsPath
=============================================================================
