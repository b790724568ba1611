------------------------- MODULE ReentrantLock_proofs -------------------------
(***************************************************************************)
(* Proofs about DataLock and ReentrantLock.  With the contents added it is *)
(* still a FileLock, and nothing changes the file under a holder but the   *)
(* late writes of callers that did not flush; the acquire count follows    *)
(* the lock below, so that the file is given up by the last release only.  *)
(***************************************************************************)
EXTENDS ReentrantLock, FileLock_proofs

(* Every step of DataLock is a step of FileLock or leaves the lock alone.  *)
LEMMA DataStepIsFileStep == ASSUME [DataNext]_allVars PROVE [Next]_lockVars
BY DEF DataNext, allVars, Next, AcquireStep, DataAcquire, DataPrepare, Write, Flush, DataRelease,
       DataClose, DataCrash

(* Contents added, DataLock is still the Lock of FileLock.                 *)
THEOREM DataIsFile == DataSpec => Spec
<1>1. DataInit => Init
  BY DEF DataInit
<1>2. [DataNext]_allVars => [Next]_lockVars
  BY DataStepIsFileStep
<1> QED
  BY <1>1, <1>2, PTL DEF DataSpec, Spec

(* With file contents and buffers, callers still exclude one another.      *)
THEOREM DataExclusion == DataSpec => []Exclusion
BY DataIsFile, FileExclusion, PTL

(* ... and implements the abstract reader/writer lock.                     *)
THEOREM DataImplements == DataSpec => ImplementsRWLock
BY DataIsFile, FileImplements, PTL

(* The contents of the file come from locks and handles buffer or do not.  *)
LEMMA StepDataTypes ==
    ASSUME DataTypeOK, [DataNext]_allVars
    PROVE  content' \subseteq Locks /\ dirty' \in [Locks -> BOOLEAN]
BY DEF DataTypeOK, DataNext, allVars, dataVars, DataAcquire, DataPrepare, Write, Flush, DataRelease,
       DataClose, DataCrash, WriteOut, Clean

(* Types, whatever callers do and whatever fails.                          *)
THEOREM DataTypes == DataSpec => []DataTypeOK
<1>1. DataInit /\ TypeOK => DataTypeOK
  BY DEF DataInit, DataTypeOK
<1>2. DataTypeOK /\ TypeOK' /\ [DataNext]_allVars => DataTypeOK'
  BY StepDataTypes DEF DataTypeOK
<1>3. FileInv => TypeOK
  BY DEF FileInv, FlockInv
<1> QED
  BY <1>1, <1>2, <1>3, DataIsFile, FileInvariant, PTL DEF DataSpec

(* A dirty handle is an exclusive holder's, or that of a released lock     *)
(* whose caller did not flush.                                             *)
LEMMA DataInvStep ==
    ASSUME DataInv, [DataNext]_allVars PROVE DataInv'
<1> USE DEF DataInv, DataTypeOK, TypeOK, FileTypeOK, Held
<1>1. FileInv'
  BY DataStepIsFileStep, StepFlockInv, StutterFlockInv, StepOneFile DEF FileInv, Next
<1>2. content' \subseteq Locks /\ dirty' \in [Locks -> BOOLEAN]
  BY StepDataTypes
<1>3. ASSUME UNCHANGED allVars PROVE DirtyIsHeldOrLate'
  BY <1>3 DEF allVars, lockVars, dataVars, DirtyIsHeldOrLate
<1>4. ASSUME NEW l \in Locks, pc[l] \notin {"held", "closing"},
             pc' = [pc EXCEPT ![l] = pc'[l]], UNCHANGED dirty
      PROVE  DirtyIsHeldOrLate'
  BY <1>4 DEF DirtyIsHeldOrLate
<1>5. ASSUME NEW l \in Locks,
             \/ DataAcquire(l) \/ DataPrepare(l)
             \/ /\ Attempt(l) \/ Retry(l) \/ Expire(l) \/ PrepareRaises(l) \/ Collect(l)
                /\ UNCHANGED dataVars
      PROVE  DirtyIsHeldOrLate'
  BY <1>4, <1>5 DEF DataAcquire, DataPrepare, dataVars, Acquire, Attempt, TryLock, FailAtOnce,
     AttemptBreaks, Backoff, Retry, Expire, Prepare, PrepareRaises, Collect, Fail, Goto
<1>6. ASSUME NEW l \in Locks, Write(l) \/ Flush(l) PROVE DirtyIsHeldOrLate'
  BY <1>6 DEF Write, Flush, WriteOut, Clean, lockVars, DirtyIsHeldOrLate
<1>7. ASSUME NEW l \in Locks, DataRelease(l) PROVE DirtyIsHeldOrLate'
  BY <1>7 DEF DataRelease, dataVars, Unlock, UnlockFails, Goto, DirtyIsHeldOrLate
<1>8. ASSUME NEW l \in Locks, DataClose(l) \/ DataCrash(l) PROVE DirtyIsHeldOrLate'
  BY <1>8 DEF DataClose, DataCrash, WriteOut, Clean, Close, Crash, Fail, Goto,
              DirtyIsHeldOrLate
<1>9. DirtyIsHeldOrLate'
  BY <1>3, <1>5, <1>6, <1>7, <1>8 DEF DataNext
<1> QED
  BY <1>1, <1>2, <1>9 DEF FileInv, FlockInv

(* The inductive invariant of the contents: DataInv.                       *)
THEOREM DataInvariant == DataSpec => []DataInv
<1>1. DataInit => DataInv
  BY InitFlockInv DEF DataInit, DataInv, DataTypeOK, DirtyIsHeldOrLate, FileInv, FlockInv,
                      OneFile, Init
<1>2. DataInv /\ [DataNext]_allVars => DataInv'
  BY DataInvStep
<1> QED
  BY <1>1, <1>2, PTL DEF DataSpec

(* Two locks that are granted at the same time are not exclusive.          *)
LEMMA GrantedTogether ==
    ASSUME FileInv, NEW k \in Locks, NEW l \in Locks, k # l,
           pc[k] \in {"locked", "held"}, pc[l] \in {"locked", "held"}
    PROVE  Mode[k] = "shared" /\ Mode[l] = "shared"
<1>1. fd[k] = fd[l] /\ granted[k] = Mode[k] /\ granted[l] = Mode[l]
  BY DEF FileInv, FlockInv, OneFile, OpenUnlessIdle, LockedIsGranted
<1> QED
  BY <1>1, ModeAssumption DEF FileInv, FlockInv, FlocksExclude, Conflict

(* While a caller holds the lock, the contents change only by what it      *)
(* wrote itself, and by the late write of a caller that released the lock  *)
(* without having flushed (utils.py:506-508, 726-736, 771-789).            *)
THEOREM DataUndisturbed == ASSUME TruncatingIsExclusive PROVE DataSpec => Undisturbed
<1>1. DataInv /\ [DataNext]_allVars => [OwnOrLate]_allVars
  <2> SUFFICES ASSUME DataInv, DataNext, NEW l \in Locks, Held(l), Held(l)', content' # content
               PROVE  Writes(l) \/ \E k \in Locks : LateWrite(k)
    BY DEF OwnOrLate
  <2> USE DEF Held
  <2>1. PICK k \in Locks : DataPrepare(k) \/ Flush(k) \/ DataClose(k)
    BY DEF DataNext, DataAcquire, dataVars, Write, DataRelease, DataCrash
  <2>2. CASE DataPrepare(k)
    <3>1. k \in Truncating /\ pc[k] = "locked"
      BY <2>2 DEF DataPrepare, Prepare
    <3> QED
      BY <3>1, GrantedTogether DEF DataInv, TruncatingIsExclusive
  <2>3. CASE Flush(k)
    <3>1. Writes(k) /\ Held(k) /\ Mode[k] = "exclusive"
      BY <2>3 DEF Flush, WriteOut, Clean, Writes, DataInv, DataTypeOK, DirtyIsHeldOrLate
    <3> QED
      BY <3>1, GrantedTogether DEF DataInv
  <2>4. CASE DataClose(k)
    <3>1. Writes(k) /\ pc[k] = "closing" /\ content' = content \cup {k}
      BY <2>4 DEF DataClose, Close, WriteOut, Clean, Writes, DataInv, DataTypeOK
    <3>2. k \notin Flushing
      BY <3>1 DEF DataInv, DirtyIsHeldOrLate, Writes
    <3> QED
      BY <3>1, <3>2 DEF LateWrite
  <2> QED
    BY <2>1, <2>2, <2>3, <2>4
<1> QED
  BY <1>1, DataInvariant, PTL DEF DataSpec, Undisturbed

-----------------------------------------------------------------------------
(* Counting apart, every step is one of DataLock.                          *)
LEMMA CountedStepIsDataStep == ASSUME [CountedNext]_countedVars PROVE [DataNext]_allVars
BY DEF CountedNext, countedVars, DataNext, FirstAcquire, AcquireGoesOn, FirstAcquired,
       AcquireAgain, ReleaseInner, ReleaseLast, ReleaseReturns, CountedCrash

(* RLocks and Locks that share a file are the locks of DataLock.           *)
THEOREM CountedIsData == CountedSpec => DataSpec
<1>1. CountedInit => DataInit
  BY DEF CountedInit
<1>2. [CountedNext]_countedVars => [DataNext]_allVars
  BY CountedStepIsDataStep
<1> QED
  BY <1>1, <1>2, PTL DEF CountedSpec, DataSpec

(* What the count says of the lock below: nothing but the count's own      *)
(* steps nests, and a release that is under way was the last one.          *)
CountInv ==
    /\ count \in [Locks -> 0..MaxDepth]
    /\ \A l \in Locks \ Reentrant : count[l] = 0
    /\ \A l \in Reentrant :
          /\ count[l] > 0 <=> pc[l] \in {"held", "closing"}
          /\ pc[l] = "closing" => count[l] = 1

(* The steps below the count: acquire begins, goes on or fails.            *)
LEMMA BelowCountInv ==
    ASSUME CountInv, TypeOK, NEW l \in Locks,
           FirstAcquire(l) \/ AcquireGoesOn(l) \/ ((Write(l) \/ Flush(l)) /\ UNCHANGED count)
    PROVE  CountInv'
<1> USE DEF CountInv, TypeOK
<1>1. /\ count' = count
      /\ \A k \in Locks \ {l} : pc'[k] = pc[k]
      /\ pc'[l] \in {"held", "closing"} <=> pc[l] \in {"held", "closing"}
      /\ pc'[l] = "closing" => pc[l] = "closing"
  <2>1. CASE FirstAcquire(l)
    BY <2>1 DEF FirstAcquire, DataAcquire, Acquire, Goto
  <2>2. CASE AcquireGoesOn(l)
    BY <2>2 DEF AcquireGoesOn, Attempt, TryLock, FailAtOnce, AttemptBreaks, Backoff, Retry,
                Expire, PrepareRaises, Collect, Fail, Goto
  <2>3. CASE (Write(l) \/ Flush(l)) /\ UNCHANGED count
    BY <2>3 DEF Write, Flush, lockVars
  <2> QED
    BY <2>1, <2>2, <2>3
<1> QED
  BY <1>1, ReentrantAssumption

(* The steps of the count.                                                 *)
LEMMA CountingCountInv ==
    ASSUME CountInv, TypeOK, NEW l \in Locks,
           \/ FirstAcquired(l) \/ AcquireAgain(l) \/ ReleaseInner(l)
           \/ ReleaseLast(l) \/ ReleaseReturns(l) \/ CountedCrash(l)
    PROVE  CountInv'
<1> USE DepthAssumption, ReentrantAssumption DEF CountInv, TypeOK
<1>1. CASE FirstAcquired(l)
  BY <1>1 DEF FirstAcquired, DataPrepare, Prepare, Goto, Add
<1>2. CASE AcquireAgain(l)
  BY <1>2 DEF AcquireAgain, Add, Held, allVars, lockVars
<1>3. CASE ReleaseInner(l)
  BY <1>3 DEF ReleaseInner, Add, Held, allVars, lockVars
<1>4. CASE ReleaseLast(l)
  BY <1>4 DEF ReleaseLast, DataRelease, Unlock, UnlockFails, Goto
<1>5. CASE ReleaseReturns(l)
  BY <1>5 DEF ReleaseReturns, DataClose, Close, Fail, Goto, Add
<1>6. CASE CountedCrash(l)
  BY <1>6 DEF CountedCrash, DataCrash, Crash, Fail, Goto
<1> QED
  BY <1>1, <1>2, <1>3, <1>4, <1>5, <1>6

LEMMA StepCountInv == CountInv /\ TypeOK /\ [CountedNext]_countedVars => CountInv'
<1>1. ASSUME CountInv, UNCHANGED countedVars PROVE CountInv'
  BY <1>1 DEF CountInv, countedVars, allVars, lockVars
<1> QED
  BY <1>1, BelowCountInv, CountingCountInv DEF CountedNext

(* The inductive invariant of the acquire count.                           *)
THEOREM CountedInvariant == CountedSpec => [](CountInv /\ FileInv)
<1>1. CountedInit => CountInv
  BY DepthAssumption, ReentrantAssumption DEF CountedInit, DataInit, Init, CountInv
<1>2. FileInv => TypeOK
  BY DEF FileInv, FlockInv
<1> QED
  BY <1>1, <1>2, StepCountInv, CountedIsData, DataIsFile, FileInvariant, PTL DEF CountedSpec

(* Types, for any number of locks and any depth.                           *)
THEOREM CountedTypes == CountedSpec => []CountedTypeOK
<1>1. CountInv /\ DataTypeOK => CountedTypeOK
  BY DEF CountInv, CountedTypeOK
<1> QED
  BY <1>1, CountedInvariant, CountedIsData, DataTypes, PTL

(* The count is positive exactly from the return of the first acquire to   *)
(* the end of the last release, and the file is flocked all the while it   *)
(* is held.                                                                *)
THEOREM RLockCountAgrees == CountedSpec => []CountAgrees
<1>1. CountInv /\ FileInv => CountAgrees
  BY ReentrantAssumption DEF CountInv, FileInv, FlockInv, LockedIsGranted, CountAgrees, Held
<1> QED
  BY <1>1, CountedInvariant, PTL

(* No step but the last release, or the death of the process, touches the  *)
(* file of an RLock that was acquired more than once.                      *)
THEOREM RLockKeptWhileNested == CountedSpec => KeptWhileNested
<1> DEFINE Kept == \A l \in Reentrant :
              count[l] > 1 /\ count'[l] > 0 =>
                  pc'[l] = "held" /\ fd'[l] = fd[l] /\ granted'[l] = granted[l]
<1>1. CountInv /\ FileInv /\ [CountedNext]_countedVars => [Kept]_countedVars
  <2> SUFFICES ASSUME CountInv, FileInv, CountedNext,
                      NEW l \in Reentrant, count[l] > 1, count'[l] > 0
               PROVE  pc'[l] = "held" /\ fd'[l] = fd[l] /\ granted'[l] = granted[l]
    OBVIOUS
  <2>1. PICK k \in Locks :
            \/ FirstAcquire(k) \/ AcquireGoesOn(k) \/ FirstAcquired(k)
            \/ AcquireAgain(k) \/ Write(k) \/ Flush(k)
            \/ ReleaseInner(k) \/ ReleaseLast(k) \/ ReleaseReturns(k)
            \/ CountedCrash(k)
    BY DEF CountedNext
  <2> USE ReentrantAssumption DEF CountInv, FileInv, FlockInv, TypeOK, FileTypeOK
  <2>2. pc[l] = "held" /\ count[l] \in 0..MaxDepth
    BY DepthAssumption
  <2>3. CASE FirstAcquire(k)
    BY <2>2, <2>3 DEF FirstAcquire, DataAcquire, Acquire, Open, Goto
  <2>4. CASE AcquireGoesOn(k)
    BY <2>2, <2>4 DEF AcquireGoesOn, Attempt, TryLock, FailAtOnce, AttemptBreaks, Backoff,
         Retry, Expire, PrepareRaises, Collect, Fail, Goto, Flock, CloseFile, fileVars
  <2>5. CASE FirstAcquired(k)
    BY <2>2, <2>5 DEF FirstAcquired, DataPrepare, Prepare, Goto, fileVars
  <2>6. CASE AcquireAgain(k) \/ ReleaseInner(k) \/ Write(k) \/ Flush(k)
    BY <2>2, <2>6 DEF AcquireAgain, ReleaseInner, Write, Flush, allVars, lockVars, fileVars
  <2>7. CASE ReleaseLast(k)
    <3>1. k # l
      BY <2>7 DEF ReleaseLast
    <3> QED
      BY <2>2, <2>7, <3>1 DEF ReleaseLast, DataRelease, Unlock, UnlockFails, Unflock, Goto, fileVars
  <2>8. CASE ReleaseReturns(k)
    BY <2>2, <2>8 DEF ReleaseReturns, DataClose, Close, Fail, CloseFile, Goto
  <2>9. CASE CountedCrash(k)
    BY <2>2, <2>9 DEF CountedCrash, DataCrash, Crash, Fail, CloseFile, Goto
  <2> QED
    BY <2>1, <2>3, <2>4, <2>5, <2>6, <2>7, <2>8, <2>9
<1> QED
  BY <1>1, CountedInvariant, PTL DEF CountedSpec, KeptWhileNested

(* RLocks and Locks that share a file exclude one another as their modes   *)
(* say, and implement the abstract reader/writer lock.                     *)
THEOREM CountedImplements == CountedSpec => []Exclusion /\ ImplementsRWLock
BY CountedIsData, DataExclusion, DataImplements, PTL
=============================================================================
