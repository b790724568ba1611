-------------------------- MODULE FileLock_proofs --------------------------
(***************************************************************************)
(* Proofs about FileLock: what the flocks guarantee is kept by every step  *)
(* of a lock, also of one that unlinks its path (TempLock cites these      *)
(* lemmas), and with a path that stays it yields mutual exclusion.         *)
(***************************************************************************)
EXTENDS FileLock, TLAPS

(* Opening a file takes no flock, so it keeps what the flocks guarantee.   *)
LEMMA AcquireFlockInv ==
    ASSUME FlockInv, NEW l \in Locks, Acquire(l) PROVE FlockInv'
<1> USE DEF FlockInv, TypeOK, FileTypeOK
<1>1. PICK i \in (IF path = None THEN FreeInodes ELSE {path}) :
          path' = i /\ fd' = [fd EXCEPT ![l] = i]
  BY DEF Acquire, Open
<1>2. i \in Inodes
  BY <1>1 DEF FreeInodes
<1>3. /\ pc' = [pc EXCEPT ![l] = "trying"]
      /\ granted' = granted
      /\ fd[l] = None
  BY DEF Acquire, Open, Goto
<1>4. granted[l] = "none"
  BY <1>3 DEF GrantedIsOpen
<1>5. TypeOK'
  BY <1>1, <1>2, <1>3 DEF PCs
<1>6. FlocksExclude'
  BY <1>1, <1>3, <1>4 DEF FlocksExclude, Conflict
<1>7. GrantedIsOpen'
  BY <1>1, <1>2, <1>3, NoneAssumption DEF GrantedIsOpen
<1>8. LockedIsGranted'
  BY <1>3 DEF LockedIsGranted
<1>9. OpenUnlessIdle'
  BY <1>1, <1>2, <1>3, NoneAssumption DEF OpenUnlessIdle
<1> QED
  BY <1>5, <1>6, <1>7, <1>8, <1>9

(* flock grants only what conflicts with no other open file of the inode.  *)
LEMMA TryLockFlockInv ==
    ASSUME FlockInv, NEW l \in Locks, TryLock(l) PROVE FlockInv'
<1> USE DEF FlockInv, TypeOK, FileTypeOK
<1>1. /\ pc' = [pc EXCEPT ![l] = "locked"]
      /\ granted' = [granted EXCEPT ![l] = Mode[l]]
      /\ UNCHANGED <<path, fd>>
      /\ CanFlock(l, Mode[l])
      /\ pc[l] = "trying"
  BY DEF TryLock, Flock, Goto
<1>2. Mode[l] \in Modes
  BY ModeAssumption DEF Modes
<1>3. TypeOK'
  BY <1>1, <1>2 DEF PCs
<1>4. FlocksExclude'
  BY <1>1 DEF FlocksExclude, CanFlock, Conflict
<1>5. GrantedIsOpen'
  BY <1>1 DEF GrantedIsOpen, OpenUnlessIdle
<1>6. LockedIsGranted' /\ OpenUnlessIdle'
  BY <1>1 DEF LockedIsGranted, OpenUnlessIdle
<1> QED
  BY <1>3, <1>4, <1>5, <1>6

(* Closing a file gives up its flock, and no lock is left behind as held.  *)
LEMMA FailFlockInv ==
    ASSUME FlockInv, NEW l \in Locks, Fail(l) PROVE FlockInv'
<1> USE DEF FlockInv, TypeOK, FileTypeOK
<1>1. /\ pc' = [pc EXCEPT ![l] = "idle"]
      /\ granted' = [granted EXCEPT ![l] = "none"]
      /\ fd' = [fd EXCEPT ![l] = None]
      /\ path' = path
  BY DEF Fail, CloseFile, Goto
<1>2. TypeOK'
  BY <1>1 DEF PCs, Modes
<1>3. FlocksExclude'
  BY <1>1 DEF FlocksExclude, Conflict
<1>4. GrantedIsOpen' /\ LockedIsGranted' /\ OpenUnlessIdle'
  BY <1>1 DEF GrantedIsOpen, LockedIsGranted, OpenUnlessIdle
<1> QED
  BY <1>2, <1>3, <1>4

(* Unlocking drops the flock of a lock that is no longer handed out.       *)
LEMMA UnlockFlockInv ==
    ASSUME FlockInv, NEW l \in Locks, Unlock(l) PROVE FlockInv'
<1> USE DEF FlockInv, TypeOK, FileTypeOK
<1>1. /\ pc' = [pc EXCEPT ![l] = "closing"]
      /\ granted' = [granted EXCEPT ![l] = "none"]
      /\ UNCHANGED <<path, fd>>
      /\ pc[l] = "held"
  BY DEF Unlock, Unflock, Goto
<1>2. TypeOK'
  BY <1>1 DEF PCs, Modes
<1>3. FlocksExclude' /\ GrantedIsOpen'
  BY <1>1 DEF FlocksExclude, GrantedIsOpen, Conflict
<1>4. LockedIsGranted' /\ OpenUnlessIdle'
  BY <1>1 DEF LockedIsGranted, OpenUnlessIdle
<1> QED
  BY <1>2, <1>3, <1>4

(* A step that only moves on inside the code: it enters "held" from        *)
(* "locked" only, "locked" never, and "idle" neither is left nor entered.  *)
LEMMA MoveFlockInv ==
    ASSUME FlockInv, NEW l \in Locks, UNCHANGED fileVars,
           NEW there \in PCs \ {"idle", "locked"}, Goto(l, there), pc[l] # "idle",
           there = "held" => pc[l] = "locked"
    PROVE  FlockInv'
BY DEF FlockInv, TypeOK, FileTypeOK, fileVars, Goto, FlocksExclude, GrantedIsOpen,
       LockedIsGranted, OpenUnlessIdle

(* Unlinking the path touches no open file.                                *)
LEMMA UnlinkFlockInv ==
    ASSUME FlockInv, UnlinkPath, UNCHANGED pc PROVE FlockInv'
BY DEF FlockInv, TypeOK, FileTypeOK, UnlinkPath, FlocksExclude, GrantedIsOpen, LockedIsGranted,
       OpenUnlessIdle

(* Nor does a step that changes nothing of the locks.                      *)
LEMMA StutterFlockInv ==
    ASSUME FlockInv, UNCHANGED lockVars PROVE FlockInv'
BY DEF FlockInv, TypeOK, FileTypeOK, lockVars, fileVars, FlocksExclude, GrantedIsOpen,
       LockedIsGranted, OpenUnlessIdle

(* Every step of one lock in Lock.acquire or Lock.release keeps FlockInv.  *)
LEMMA StepFlockInv ==
    ASSUME FlockInv, NEW l \in Locks,
           Acquire(l) \/ AcquireStep(l) \/ Unlock(l) \/ UnlockFails(l) \/ Close(l) \/ Crash(l)
    PROVE  FlockInv'
<1>1. CASE Acquire(l)
  BY <1>1, AcquireFlockInv
<1>2. CASE TryLock(l)
  BY <1>2, TryLockFlockInv
<1>3. CASE Fail(l)
  BY <1>3, FailFlockInv
<1>4. CASE Backoff(l)
  BY <1>4, MoveFlockInv DEF Backoff, PCs
<1>5. CASE Retry(l)
  BY <1>5, MoveFlockInv DEF Retry, PCs
<1>6. CASE Prepare(l)
  BY <1>6, MoveFlockInv DEF Prepare, PCs
<1>7. CASE PrepareRaises(l)
  BY <1>7, MoveFlockInv DEF PrepareRaises, PCs
<1>8. CASE Unlock(l)
  BY <1>8, UnlockFlockInv
<1>9. CASE UnlockFails(l)
  BY <1>9, MoveFlockInv DEF UnlockFails, PCs
<1> QED
  BY <1>1, <1>2, <1>3, <1>4, <1>5, <1>6, <1>7, <1>8, <1>9
  DEF AcquireStep, Attempt, FailAtOnce, AttemptBreaks, Expire, Collect, Close, Crash

(* With the flocks alone: nothing is granted before anybody opened a file. *)
LEMMA InitFlockInv == ASSUME Init PROVE FlockInv
BY NoneAssumption DEF Init, FlockInv, TypeOK, FileTypeOK, Modes, PCs, FlocksExclude, Conflict,
       GrantedIsOpen, LockedIsGranted, OpenUnlessIdle

-----------------------------------------------------------------------------
(* No step of a Lock removes the path, so the locks that have a file open  *)
(* have the file open that the path names.                                 *)
LEMMA StepOneFile ==
    ASSUME FileInv, [Next]_lockVars PROVE OneFile'
<1> USE DEF FileInv, FlockInv, TypeOK, FileTypeOK, OneFile
<1>1. CASE UNCHANGED lockVars
  BY <1>1 DEF lockVars, fileVars
<1>2. ASSUME NEW l \in Locks, Acquire(l) PROVE OneFile'
  BY <1>2, NoneAssumption DEF Acquire, Open, FreeInodes
<1>3. ASSUME NEW l \in Locks, Fail(l) PROVE OneFile'
  BY <1>3 DEF Fail, CloseFile
<1>4. ASSUME UNCHANGED <<path, fd>> PROVE OneFile'
  BY <1>4
<1> QED
  BY <1>1, <1>2, <1>3, <1>4
  DEF Next, AcquireStep, Attempt, TryLock, FailAtOnce, AttemptBreaks, Backoff, Retry, Expire,
      Prepare, PrepareRaises, Collect, Unlock, UnlockFails, Close, Crash, Flock, Unflock, fileVars

(* FileInv is an invariant of portalocker.Lock, for any number of locks,   *)
(* any mix of modes, and all the failures Faults may name.                 *)
THEOREM FileInvariant == Spec => []FileInv
<1>1. Init => FileInv
  BY InitFlockInv DEF FileInv, OneFile, Init
<1>2. FileInv /\ [Next]_lockVars => FileInv'
  BY StepFlockInv, StutterFlockInv, StepOneFile DEF FileInv, Next
<1> QED
  BY <1>1, <1>2, PTL DEF Spec

(* The caller that acquire handed the file to holds it in a mode that      *)
(* conflicts with no other caller's (utils.py:612-647).                    *)
THEOREM FileExclusion == Spec => []Exclusion
<1>1. FileInv => Exclusion
  <2> SUFFICES ASSUME FileInv, NEW k \in Locks, NEW l \in Locks, k # l,
                      Conflict(HeldMode[k], HeldMode[l])
               PROVE  FALSE
    BY DEF Exclusion
  <2>1. Held(k) /\ Held(l)
    BY DEF Conflict, HeldMode
  <2>2. granted[k] = HeldMode[k] /\ granted[l] = HeldMode[l]
    BY <2>1 DEF FileInv, FlockInv, LockedIsGranted, HeldMode, Held
  <2>3. fd[k] = fd[l]
    BY <2>1 DEF FileInv, FlockInv, OneFile, OpenUnlessIdle, Held
  <2> QED
    BY <2>2, <2>3 DEF FileInv, FlockInv, FlocksExclude
<1> QED
  BY <1>1, FileInvariant, PTL

-----------------------------------------------------------------------------
(* An acquire strands the file it locked only where _prepare_fh truncates  *)
(* it and the truncation fails.                                            *)
OrphansTruncate == \A l \in Locks :
    pc[l] = "orphan" => "prepare" \in Faults /\ l \in Truncating

THEOREM FileOrphans == Spec => []OrphansTruncate
<1>1. Init => OrphansTruncate
  BY DEF Init, OrphansTruncate
<1>2. FileInv /\ OrphansTruncate /\ [Next]_lockVars => OrphansTruncate'
  <2> SUFFICES ASSUME FileInv, OrphansTruncate, [Next]_lockVars
               PROVE  OrphansTruncate'
    OBVIOUS
  <2> USE DEF FileInv, FlockInv, TypeOK, OrphansTruncate
  <2>1. ASSUME NEW l \in Locks, PrepareRaises(l) PROVE OrphansTruncate'
    BY <2>1 DEF PrepareRaises, Goto
  <2>2. ASSUME NEW l \in Locks, NEW there \in PCs \ {"orphan"}, Goto(l, there)
        PROVE  OrphansTruncate'
    BY <2>2 DEF Goto
  <2>3. CASE UNCHANGED lockVars
    BY <2>3 DEF lockVars
  <2>4. ASSUME NEW l \in Locks,
               \/ Acquire(l) \/ Attempt(l) \/ Retry(l) \/ Expire(l) \/ Prepare(l)
               \/ Collect(l) \/ Unlock(l) \/ UnlockFails(l) \/ Close(l) \/ Crash(l)
        PROVE  \E there \in PCs \ {"orphan"} : Goto(l, there)
    BY <2>4 DEF PCs, Attempt, Acquire, TryLock, FailAtOnce, AttemptBreaks, Backoff, Retry,
                Expire, Prepare, Collect, Unlock, UnlockFails, Close, Crash, Fail
  <2> QED
    BY <2>1, <2>2, <2>3, <2>4 DEF Next, AcquireStep
<1> QED
  BY <1>1, <1>2, FileInvariant, PTL DEF Spec

(* A lock that is neither held nor in a call has no open file and no flock *)
(* (utils.py:598-641, 726-736), save the file that acquire could not       *)
(* truncate once it was locked (utils.py:644).                             *)
THEOREM FileNothingLeaked == Spec => []NothingLeaked
<1>1. FileInv /\ OrphansTruncate => NothingLeaked
  BY DEF FileInv, FlockInv, GrantedIsOpen, OpenUnlessIdle, OrphansTruncate, NothingLeaked,
         InNoCall
<1> QED
  BY <1>1, FileInvariant, FileOrphans, PTL

(* Every failed acquire has closed its file, as the comment on try_close   *)
(* in utils.py:601-603 says, unless truncating a locked file may fail: the *)
(* one way in which the comment is wrong.                                  *)
THEOREM FileFailedAcquireCloses ==
    ASSUME "prepare" \notin Faults \/ Truncating = {}
    PROVE  Spec => []FailedAcquireCloses
<1>1. FileInv /\ OrphansTruncate => FailedAcquireCloses
  BY DEF FileInv, FlockInv, OpenUnlessIdle, OrphansTruncate, FailedAcquireCloses, InNoCall
<1> QED
  BY <1>1, FileInvariant, FileOrphans, PTL

-----------------------------------------------------------------------------
(* A step moves at most one lock from one place to another.                *)
LEMMA OneLockMoves ==
    ASSUME [Next]_lockVars
    PROVE  pc' = pc \/ \E l \in Locks, there \in PCs : pc' = [pc EXCEPT ![l] = there]
BY DEF Next, lockVars, Acquire, AcquireStep, Attempt, TryLock, FailAtOnce, AttemptBreaks, Backoff,
       Retry, Expire, Prepare, PrepareRaises, Collect, Unlock, UnlockFails, Close, Crash, Fail,
       Goto, PCs

(* A lock that moves gains its mode, loses it or keeps what it had, and    *)
(* what it gains conflicts with nobody's.                                  *)
LEMMA FileStepImplements ==
    ASSUME TypeOK, Exclusion', [Next]_lockVars
    PROVE  [Abstract!Next]_HeldMode
<1>1. CASE pc' = pc
  BY <1>1 DEF HeldMode, Held
<1>2. ASSUME NEW l \in Locks, NEW there \in PCs, pc' = [pc EXCEPT ![l] = there]
      PROVE  [Abstract!Next]_HeldMode
  <2> DEFINE m == IF there = "held" THEN Mode[l] ELSE "none"
  <2>1. HeldMode' = [HeldMode EXCEPT ![l] = m]
    BY <1>2 DEF TypeOK, HeldMode, Held
  <2>2. HeldMode[l] \in {"none", Mode[l]} /\ HeldMode = [k \in Locks |-> HeldMode[k]]
    BY DEF HeldMode
  <2>3. CASE HeldMode[l] = m
    BY <2>1, <2>2, <2>3
  <2>4. CASE m = "none" /\ HeldMode[l] # "none"
    <3>1. Abstract!Drop(l)
      BY <2>1, <2>4 DEF Abstract!Drop
    <3> QED
      BY <3>1 DEF Abstract!Next
  <2>5. CASE m = Mode[l] /\ HeldMode[l] = "none"
    <3>1. HeldMode'[l] = m /\ \A k \in Locks \ {l} : HeldMode'[k] = HeldMode[k]
      BY <2>1, <2>2
    <3>2. \A k \in Locks \ {l} : ~Abstract!Conflict(m, HeldMode[k])
      BY <3>1 DEF Exclusion, Conflict, Abstract!Conflict
    <3>3. Abstract!Grant(l, m) /\ m \in {"shared", "exclusive"}
      BY <2>1, <2>5, <3>2, ModeAssumption DEF Abstract!Grant
    <3> QED
      BY <3>3 DEF Abstract!Next
  <2> QED
    BY <2>2, <2>3, <2>4, <2>5
<1> QED
  BY <1>1, <1>2, OneLockMoves

(* portalocker.Lock implements the abstract reader/writer lock, for any    *)
(* number of locks, any mix of modes and all the failures.                 *)
THEOREM FileImplements == Spec => ImplementsRWLock
<1>1. Init => Abstract!Init
  BY DEF Init, Abstract!Init, HeldMode, Held
<1>2. FileInv => TypeOK
  BY DEF FileInv, FlockInv
<1>3. TypeOK /\ Exclusion' /\ [Next]_lockVars => [Abstract!Next]_HeldMode
  BY FileStepImplements
<1> QED
  BY <1>1, <1>2, <1>3, FileInvariant, FileExclusion, PTL DEF Spec, ImplementsRWLock, Abstract!Spec

-----------------------------------------------------------------------------
(* What the abstract lock is for: whatever implements it hands out no      *)
(* conflicting grants, so that a refinement of it is mutual exclusion, and *)
(* more: which steps may grant, and that a grant never changes its mode.   *)
THEOREM AbstractExcludes == Abstract!Spec => [](Abstract!TypeOK /\ Abstract!Exclusion)
<1> USE DEF Abstract!TypeOK, Abstract!Exclusion, Abstract!Conflict, Abstract!Modes
<1>1. Abstract!Init => Abstract!TypeOK /\ Abstract!Exclusion
  BY DEF Abstract!Init
<1>2. Abstract!TypeOK /\ Abstract!Exclusion /\ [Abstract!Next]_HeldMode
        => Abstract!TypeOK' /\ Abstract!Exclusion'
  BY DEF Abstract!Next, Abstract!Revoke, Abstract!Drop, Abstract!Grant
<1> QED
  BY <1>1, <1>2, PTL DEF Abstract!Spec
=============================================================================
