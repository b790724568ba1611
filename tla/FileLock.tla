------------------------------ MODULE FileLock ------------------------------
(***************************************************************************)
(* portalocker.Lock: open the file, flock it, retry while the timeout      *)
(* lasts, hand out the handle; release unlocks first and closes second.    *)
(* One action per step of Lock.acquire and Lock.release after which        *)
(* another process may run.                                                *)
(***************************************************************************)
EXTENDS LockFile

CONSTANTS Mode,        \* the type bit of each lock's flags
          Blocking,    \* the locks whose flags lack NON_BLOCKING
          FailFast,    \* the locks called with fail_when_locked
          Truncating,  \* the locks opened with a mode that contains "w"
          Faults       \* the failures of the environment that may happen

ASSUME ModeAssumption == Mode \in [Locks -> {"shared", "exclusive"}]

VARIABLE pc            \* where each lock is in acquire or release

lockVars == <<fileVars, pc>>

(* "idle": self.fh is None and no call runs; "trying": about to flock;     *)
(* "waiting": inside the retry generator; "locked": flocked, about to be   *)
(* prepared; "held": self.fh set and returned; "closing": unlocked by      *)
(* release, not yet closed; "orphan": acquire raised after the flock and   *)
(* the traceback still keeps the handle alive.                             *)
PCs == {"idle", "trying", "waiting", "locked", "held", "closing", "orphan"}

TypeOK == FileTypeOK /\ pc \in [Locks -> PCs]

Init ==
    /\ path \in Inodes \cup {None}
    /\ fd = [l \in Locks |-> None]
    /\ granted = [l \in Locks |-> "none"]
    /\ pc = [l \in Locks |-> "idle"]

Goto(l, there) == pc' = [pc EXCEPT ![l] = there]

-----------------------------------------------------------------------------
(* Lock.acquire                                                            *)

(* A lock that is held returns its handle and changes nothing; an open     *)
(* that raises changes nothing either.  fail_when_locked may be overridden *)
(* per call: such a call is one by a lock that has the other value.        *)
Acquire(l) == pc[l] = "idle" /\ Open(l) /\ Goto(l, "trying")

(* Mutation: the type bit of the flags does not reach the locking call.    *)
TryLockShared(l) == pc[l] = "trying" /\ Flock(l, "shared") /\ Goto(l, "locked")

(* portalocker.lock is granted the flock; blocking flags wait for it here. *)
TryLock(l) == pc[l] = "trying" /\ Flock(l, Mode[l]) /\ Goto(l, "locked")

(* portalocker.lock raises LockException: contention (EACCES, EAGAIN), or  *)
(* any other OSError of the locking call.                                  *)
AttemptFails(l) ==
    \/ l \notin Blocking /\ ~CanFlock(l, Mode[l])
    \/ "flock" \in Faults

Fail(l) == CloseFile(l) /\ Goto(l, "idle")

(* Mutation: a failed acquire that does not run try_close.                 *)
FailLeaking(l) ==
    /\ pc[l] = "trying" /\ AttemptFails(l) /\ l \in FailFast
    /\ Goto(l, "idle")
    /\ UNCHANGED fileVars

(* A failed attempt of an acquire that fails fast raises AlreadyLocked.    *)
FailAtOnce(l) == pc[l] = "trying" /\ AttemptFails(l) /\ l \in FailFast /\ Fail(l)

(* An exception that is not a LockException ends the loop at once.         *)
AttemptBreaks(l) == pc[l] = "trying" /\ "flock" \in Faults /\ Fail(l)

(* Otherwise the generator sleeps until the next attempt ...               *)
Backoff(l) ==
    /\ pc[l] = "trying"
    /\ AttemptFails(l)
    /\ l \notin FailFast
    /\ Goto(l, "waiting")
    /\ UNCHANGED fileVars

Retry(l) ==
    /\ pc[l] = "waiting"
    /\ Goto(l, "trying")
    /\ UNCHANGED fileVars

(* Mutation: the loop falls through without raising its last exception.    *)
ExpireUnlocked(l) ==
    /\ pc[l] = "waiting"
    /\ Goto(l, "locked")
    /\ UNCHANGED fileVars

(* Mutation: the deadline never passes.                                    *)
ExpireNever(l) == FALSE /\ Fail(l)

(* ... or the timeout has passed, and the last exception is raised again.  *)
Expire(l) == pc[l] = "waiting" /\ Fail(l)

(* _prepare_fh, and self.fh is set.                                        *)
Prepare(l) ==
    /\ pc[l] = "locked"
    /\ Goto(l, "held")
    /\ UNCHANGED fileVars

(* seek or truncate raises: nothing closes the handle but its collection.  *)
PrepareRaises(l) ==
    /\ "prepare" \in Faults
    /\ l \in Truncating
    /\ pc[l] = "locked"
    /\ Goto(l, "orphan")
    /\ UNCHANGED fileVars

Collect(l) == pc[l] = "orphan" /\ Fail(l)

-----------------------------------------------------------------------------
(* Lock.release; a lock that is not held has nothing to release.           *)

(* Mutation: unlocked, but self.fh is kept.                                *)
UnlockKeeping(l) == pc[l] = "held" /\ Unflock(l) /\ UNCHANGED pc

Unlock(l) == pc[l] = "held" /\ Unflock(l) /\ Goto(l, "closing")

UnlockFails(l) ==
    /\ "unlock" \in Faults
    /\ pc[l] = "held"
    /\ Goto(l, "closing")
    /\ UNCHANGED fileVars

Close(l) == pc[l] = "closing" /\ Fail(l)

(* The process dies; a new one starts with a new Lock object.              *)
Crash(l) == "crash" \in Faults /\ pc[l] # "idle" /\ Fail(l)

-----------------------------------------------------------------------------
Attempt(l) == TryLock(l) \/ FailAtOnce(l) \/ AttemptBreaks(l) \/ Backoff(l)

AcquireStep(l) ==
    Attempt(l) \/ Retry(l) \/ Expire(l) \/ Prepare(l) \/ PrepareRaises(l) \/ Collect(l)

Next == \E l \in Locks :
    \/ Acquire(l)
    \/ AcquireStep(l)
    \/ Unlock(l) \/ UnlockFails(l) \/ Close(l)
    \/ Crash(l)

Spec == Init /\ [][Next]_lockVars

(* A call that was started runs on; a finite timeout ends the retries,     *)
(* however often the generator yields before.  No fairness for Unlock: a   *)
(* holder may keep the lock as long as it likes.                           *)
Fairness == \A l \in Locks :
    /\ WF_lockVars(Attempt(l) \/ Retry(l) \/ Prepare(l))
    /\ SF_lockVars(Expire(l))
    /\ WF_lockVars(Close(l))

FairSpec == Spec /\ Fairness

-----------------------------------------------------------------------------
(* The mode a caller believes it holds: from the return of acquire to the  *)
(* call of release.                                                        *)
Held(l) == pc[l] = "held"
HeldMode == [l \in Locks |-> IF Held(l) THEN Mode[l] ELSE "none"]

(* Callers that were handed the file never hold it in conflicting modes:   *)
(* Lock.acquire returns a handle only after portalocker.lock succeeded on  *)
(* the very file the path names (utils.py:612-647).                        *)
Exclusion == \A k, l \in Locks : k # l => ~Conflict(HeldMode[k], HeldMode[l])

(* A lock that is not held and in no call has a file open, or a flock, in  *)
(* one case only: it truncates, and the truncation of the file it had just *)
(* locked raised.  All the other failing paths of acquire close what they  *)
(* opened, and release closes even when unlock raised (utils.py:598-641,   *)
(* 726-736).  utils.py:601-603 says it of every failing path, and forgets  *)
(* _prepare_fh (utils.py:644).                                             *)
InNoCall(l) == pc[l] \in {"idle", "orphan"}

NothingLeaked == \A l \in Locks :
    /\ InNoCall(l)
    /\ fd[l] # None \/ granted[l] # "none"
    => pc[l] = "orphan" /\ l \in Truncating /\ "prepare" \in Faults

(* Every path that leaves acquire without a lock has closed the file it    *)
(* opened, as the comment in utils.py:601-603 says of try_close; it holds  *)
(* where truncating a locked file cannot fail.                             *)
FailedAcquireCloses == \A l \in Locks : InNoCall(l) => fd[l] = None

(* A non-blocking acquire returns or raises, even when the holder of the   *)
(* file never lets go: the timeout bounds the retries (utils.py:612-641).  *)
AcquireEnds == \A l \in Locks \ Blocking :
    pc[l] \in {"trying", "waiting", "locked"} ~> pc[l] \in {"held", "idle", "orphan"}

(* Lock implements the abstract reader/writer lock.                        *)
Abstract == INSTANCE RWLock WITH Clients <- Locks, grant <- HeldMode
ImplementsRWLock == Abstract!Spec

-----------------------------------------------------------------------------
(* What the flocks guarantee whatever happens to the path; it is inductive *)
(* also for the locks that unlink it.                                      *)
FlocksExclude == \A k, l \in Locks :
    k # l /\ fd[k] = fd[l] => ~Conflict(granted[k], granted[l])

GrantedIsOpen == \A l \in Locks : granted[l] # "none" => fd[l] # None

LockedIsGranted == \A l \in Locks : pc[l] \in {"locked", "held"} => granted[l] = Mode[l]

OpenUnlessIdle == \A l \in Locks : pc[l] = "idle" <=> fd[l] = None

FlockInv ==
    /\ TypeOK
    /\ FlocksExclude
    /\ GrantedIsOpen
    /\ LockedIsGranted
    /\ OpenUnlessIdle

(* The path of a Lock is never unlinked, so all have the same file open.   *)
OneFile == \A l \in Locks : fd[l] \in {None, path}

FileInv == FlockInv /\ OneFile
=============================================================================
