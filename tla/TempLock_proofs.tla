-------------------------- MODULE TempLock_proofs --------------------------
(***************************************************************************)
(* Proofs about TempLock: with exclusive flags, TemporaryFileLock excludes *)
(* every other holder although its file is unlinked and created again and  *)
(* again, until a lock whose check raised is released; with any flags, a   *)
(* failed acquire leaves something behind in two cases only.               *)
(***************************************************************************)
EXTENDS TempLock, FileLock_proofs

USE DEF Enter

(* Every step of TempLock is a step of Lock, an unlink or neither, so what *)
(* the flocks guarantee is kept.                                           *)
LEMMA TempFlockInv == ASSUME FlockInv, [TempNext]_tempVars PROVE FlockInv'
<1>1. CASE UNCHANGED lockVars
  BY <1>1, StutterFlockInv
<1>2. CASE UnlinkPath /\ UNCHANGED pc
  BY <1>2, UnlinkFlockInv
<1>3. CASE \E l \in Locks :
             Acquire(l) \/ AcquireStep(l) \/ Unlock(l) \/ UnlockFails(l) \/ Close(l) \/ Crash(l)
  BY <1>3, StepFlockInv
<1> QED
  BY <1>1, <1>2, <1>3
  DEF TempNext, tempVars, Cleanup, StartAcquire, InnerAcquire, AcquireStep, Reacquire, VerifyOk,
      VerifyStale, VerifyRaises, DropStale, Reopen, GiveUp, CollectOrphan, Release,
      UnlinkFails, ReleaseUnlock, ReleaseClose, TempCrash

(* Only a truncation strands the handle of a lock, here as in Lock.        *)
LEMMA TempOrphans ==
    ASSUME TypeOK, OrphansTruncate, [TempNext]_tempVars PROVE OrphansTruncate'
<1> USE DEF TypeOK, OrphansTruncate
<1>1. CASE UNCHANGED pc
  BY <1>1
<1>2. ASSUME NEW l \in Locks, NEW there \in PCs \ {"orphan"}, Goto(l, there)
      PROVE  OrphansTruncate'
  BY <1>2 DEF Goto
<1>3. ASSUME NEW l \in Locks, PrepareRaises(l) PROVE OrphansTruncate'
  BY <1>3 DEF PrepareRaises, Goto
<1>4. ASSUME NEW l \in Locks,
             \/ Acquire(l) \/ Attempt(l) \/ Retry(l) \/ Expire(l) \/ Prepare(l)
             \/ Collect(l) \/ Unlock(l) \/ UnlockFails(l) \/ Close(l) \/ Crash(l)
      PROVE  \E there \in PCs \ {"orphan"} : Goto(l, there)
  BY <1>4 DEF PCs, Attempt, Acquire, TryLock, FailAtOnce, AttemptBreaks, Backoff, Retry, Expire,
              Prepare, Collect, Unlock, UnlockFails, Close, Crash, Fail
<1> QED
  BY <1>1, <1>2, <1>3, <1>4
  DEF TempNext, tempVars, lockVars, Cleanup, StartAcquire, InnerAcquire, Reacquire, VerifyOk,
      VerifyStale, VerifyRaises, DropStale, Reopen, GiveUp, CollectOrphan, Release, UnlinkFails,
      ReleaseUnlock, ReleaseClose, TempCrash

(* What one step of Lock's code does to the place of the lock that takes   *)
(* it; the other locks stay where they are.                                *)
LEMMA InnerPC ==
    ASSUME TypeOK, NEW l \in Locks,
           Attempt(l) \/ Retry(l) \/ Expire(l) \/ Prepare(l) \/ PrepareRaises(l)
    PROVE  /\ pc[l] \in {"trying", "waiting", "locked"}
           /\ pc'[l] \in PCs \ {"closing"}
           /\ pc' = [pc EXCEPT ![l] = pc'[l]]
           /\ path' = path
BY DEF TypeOK, FileTypeOK, Attempt, TryLock, FailAtOnce, AttemptBreaks, Backoff, Retry, Expire,
       Prepare, PrepareRaises, Goto, Fail, CloseFile, Flock, fileVars, PCs

(* The two programs move in step: Lock's code is only where the code of    *)
(* TemporaryFileLock that called it can be.                                *)
LEMMA TempPhaseInv ==
    ASSUME TempTypeOK, PhaseInv, [TempNext]_tempVars
    PROVE  PhaseInv' /\ phase' \in [Locks -> Phases] /\ stray' \in BOOLEAN
<1> USE DEF TempTypeOK, TypeOK, PhaseInv, Phases
<1>0. stray' \in BOOLEAN
  <2>1. CASE stray' = stray
    BY <2>1
  <2>2. ASSUME NEW l \in Locks, Release(l) PROVE stray' \in BOOLEAN
    BY <2>2 DEF Release, Matches
  <2> QED
    BY <2>1, <2>2
    DEF TempNext, tempVars, Cleanup, StartAcquire, InnerAcquire, Reacquire, VerifyOk,
        VerifyStale, VerifyRaises, DropStale, Reopen, GiveUp, CollectOrphan, UnlinkFails,
        ReleaseUnlock, ReleaseClose, TempCrash
<1>1. CASE UNCHANGED tempVars
  BY <1>1 DEF tempVars, lockVars
<1>2. CASE Cleanup
  BY <1>2 DEF Cleanup
<1>3. ASSUME NEW l \in Locks, StartAcquire(l) \/ Reopen(l) PROVE PhaseInv' /\ phase' \in [Locks -> Phases]
  BY <1>3 DEF StartAcquire, Reopen, Acquire, Goto
<1>4. ASSUME NEW l \in Locks, InnerAcquire(l) PROVE PhaseInv' /\ phase' \in [Locks -> Phases]
  <2>1. /\ pc'[l] \in PCs \ {"closing"}
        /\ pc' = [pc EXCEPT ![l] = pc'[l]]
    BY <1>4, InnerPC DEF InnerAcquire
  <2> QED
    BY <1>4, <2>1 DEF InnerAcquire, PCs
<1>5. ASSUME NEW l \in Locks, Reacquire(l) \/ VerifyOk(l) \/ VerifyRaises(l) \/ GiveUp(l)
      PROVE  PhaseInv' /\ phase' \in [Locks -> Phases]
  BY <1>5 DEF Reacquire, VerifyOk, VerifyRaises, GiveUp, Verifying, lockVars
<1>6. ASSUME NEW l \in Locks, VerifyStale(l) \/ ReleaseUnlock(l)
      PROVE  PhaseInv' /\ phase' \in [Locks -> Phases]
  BY <1>6 DEF VerifyStale, ReleaseUnlock, Verifying, Unlock, UnlockFails, Goto
<1>7. ASSUME NEW l \in Locks, DropStale(l) \/ ReleaseClose(l) \/ CollectOrphan(l) \/ TempCrash(l)
      PROVE  PhaseInv' /\ phase' \in [Locks -> Phases]
  BY <1>7 DEF DropStale, ReleaseClose, CollectOrphan, TempCrash, Close, Collect, Crash, Fail, Goto
<1>8. ASSUME NEW l \in Locks, Release(l) \/ UnlinkFails(l)
      PROVE  PhaseInv' /\ phase' \in [Locks -> Phases]
  BY <1>8 DEF Release, UnlinkFails, lockVars
<1> QED
  BY <1>0, <1>1, <1>2, <1>3, <1>4, <1>5, <1>6, <1>7, <1>8 DEF TempNext

(* Two locks that hold the file the path names are one lock: both have the *)
(* same inode flocked exclusively.                                         *)
LEMMA OneHolder ==
    ASSUME FlockInv, HolderOwnsPath, ~stray, ExclusiveFlags,
           NEW k \in Locks, NEW l \in Locks, TempHeld(k), fd[l] = path, granted[l] # "none"
    PROVE  k = l
<1>1. fd[k] = path /\ granted[k] = "exclusive"
  BY DEF HolderOwnsPath, ExclusiveFlags
<1> QED
  BY <1>1 DEF FlockInv, FlocksExclude, Conflict

(* No step makes a stray release undone.                                   *)
LEMMA StrayForGood == [TempNext]_tempVars /\ stray => stray'
BY DEF TempNext, tempVars, Cleanup, StartAcquire, InnerAcquire, Reacquire, VerifyOk, VerifyStale,
       VerifyRaises, DropStale, Reopen, GiveUp, CollectOrphan, Release, UnlinkFails,
       ReleaseUnlock, ReleaseClose, TempCrash

(* The step of lock l leaves a lock that still holds in possession of the  *)
(* path, when it keeps the path or finds no other holder.                  *)
LEMMA TempHolderOwnsPath ==
    ASSUME TempInv, ExclusiveFlags, [TempNext]_tempVars
    PROVE  HolderOwnsPath'
<1> SUFFICES ASSUME ~stray, ~stray' PROVE HolderOwnsPath'
  BY StrayForGood DEF HolderOwnsPath
<1> USE DEF TempInv, TempTypeOK, TypeOK, FileTypeOK, HolderOwnsPath, TempHeld
<1>1. CASE UNCHANGED tempVars
  BY <1>1 DEF tempVars, lockVars, fileVars
<1>2. CASE Cleanup
  <2>1. \A l \in Locks : ~TempHeld(l)
    BY <1>2, ModeAssumption DEF Cleanup, PathFlocked
  <2> QED
    BY <1>2, <2>1 DEF Cleanup
<1>3. ASSUME NEW l \in Locks, StartAcquire(l) \/ Reopen(l) PROVE HolderOwnsPath'
  <2>1. \A k \in Locks : TempHeld(k) => path # None
    BY ModeAssumption DEF FlockInv, GrantedIsOpen
  <2> QED
    BY <1>3, <2>1 DEF StartAcquire, Reopen, Acquire, Open
<1>4. ASSUME NEW l \in Locks, InnerAcquire(l) PROVE HolderOwnsPath'
  BY <1>4 DEF InnerAcquire, Attempt, TryLock, FailAtOnce, AttemptBreaks, Backoff, Retry, Expire,
              Prepare, PrepareRaises, Fail, CloseFile, Flock, fileVars
<1>5. ASSUME NEW l \in Locks, Reacquire(l) \/ GiveUp(l) \/ VerifyRaises(l)
      PROVE  HolderOwnsPath'
  BY <1>5 DEF Reacquire, GiveUp, VerifyRaises, Verifying, lockVars, fileVars
<1>6. ASSUME NEW l \in Locks, VerifyOk(l) PROVE HolderOwnsPath'
  BY <1>6 DEF VerifyOk, Verifying, Matches, FlockInv, LockedIsGranted, lockVars, fileVars
<1>7. ASSUME NEW l \in Locks, VerifyStale(l) \/ ReleaseUnlock(l) PROVE HolderOwnsPath'
  BY <1>7 DEF VerifyStale, ReleaseUnlock, Unlock, UnlockFails, Unflock, fileVars
<1>8. ASSUME NEW l \in Locks, DropStale(l) \/ ReleaseClose(l) \/ CollectOrphan(l) \/ TempCrash(l)
      PROVE  HolderOwnsPath'
  BY <1>8 DEF DropStale, ReleaseClose, CollectOrphan, TempCrash, Close, Collect, Crash, Fail,
              CloseFile, PhaseInv
<1>9. ASSUME NEW l \in Locks, Release(l) PROVE HolderOwnsPath'
  <2>1. pc[l] = "held" /\ fd[l] = path
    BY <1>9 DEF Release, PhaseInv, Matches
  <2>2. granted[l] # "none"
    BY <2>1 DEF FlockInv, LockedIsGranted, ExclusiveFlags
  <2>3. \A k \in Locks : TempHeld(k) => k = l
    BY <2>1, <2>2, OneHolder
  <2> QED
    BY <1>9, <2>3 DEF Release, UnlinkPath
<1>10. ASSUME NEW l \in Locks, UnlinkFails(l) PROVE HolderOwnsPath'
  BY <1>10 DEF UnlinkFails, lockVars, fileVars
<1> QED
  BY <1>1, <1>2, <1>3, <1>4, <1>5, <1>6, <1>7, <1>8, <1>9, <1>10 DEF TempNext

(* What needs no flags: Lock's own invariant, and the two programs in step.*)
TempBase == FlockInv /\ TempTypeOK /\ PhaseInv /\ OrphansTruncate

(* TempBase is an invariant of TemporaryFileLock for any number of locks   *)
(* and any mix of flags, whatever failures Faults may name.                *)
THEOREM TempBaseInvariant == TempSpec => []TempBase
<1>1. TempInit => TempBase
  BY InitFlockInv DEF TempInit, TempBase, TempTypeOK, Phases, PhaseInv, FlockInv, Init,
                      OrphansTruncate
<1>2. TempBase /\ [TempNext]_tempVars => TempBase'
  BY TempFlockInv, TempPhaseInv, TempOrphans DEF TempBase, TempTypeOK, FlockInv
<1> QED
  BY <1>1, <1>2, PTL DEF TempSpec

LEMMA TempInvInit == ASSUME TempInit PROVE TempInv
BY InitFlockInv DEF TempInit, TempInv, TempTypeOK, Phases, PhaseInv, HolderOwnsPath, TempHeld,
                    FlockInv, Init

LEMMA TempInvStep ==
    ASSUME TempInv, ExclusiveFlags, [TempNext]_tempVars PROVE TempInv'
BY TempFlockInv, TempPhaseInv, TempHolderOwnsPath DEF TempInv, TempTypeOK, FlockInv

(* With exclusive flags, which are the default, a holder owns the path     *)
(* besides; a reader does not, because the next reader's release unlinks   *)
(* the file under it.                                                      *)
THEOREM TempInvariant ==
    ASSUME ExclusiveFlags PROVE TempSpec => []TempInv
<1>1. TempInit => TempInv
  BY TempInvInit
<1>2. TempInv /\ [TempNext]_tempVars => TempInv'
  BY TempInvStep
<1> QED
  BY <1>1, <1>2, PTL DEF TempSpec

(* No two callers hold a TemporaryFileLock at the same time, until a lock  *)
(* whose check raised is released with a file that the path does not name  *)
(* (utils.py:1047-1070, 1072-1110).                                        *)
THEOREM TempMutualExclusion ==
    ASSUME ExclusiveFlags PROVE TempSpec => []ExclusionUnlessStray
<1>1. TempInv => ExclusionUnlessStray
  BY OneHolder, ModeAssumption
  DEF TempInv, HolderOwnsPath, ExclusionUnlessStray, TempExclusion, TempMode, Conflict
<1> QED
  BY <1>1, TempInvariant, PTL

(* From acquire's return to release the path names the file that the       *)
(* holder has flocked (utils.py:941-945, 1072-1110).                       *)
THEOREM TempHolderKeepsPath ==
    ASSUME ExclusiveFlags PROVE TempSpec => []HolderOwnsPath
<1>1. TempInv => HolderOwnsPath
  BY DEF TempInv
<1> QED
  BY <1>1, TempInvariant, PTL

(* Where no check of a path raises there is no stray release, so that the  *)
(* exclusion is unconditional.                                             *)
THEOREM TempCheckedExclusion ==
    ASSUME ExclusiveFlags, "stat" \notin Faults PROVE TempSpec => []TempExclusion
<1>1. TempInit => ~stray
  BY DEF TempInit
<1>2. TempInv /\ ~stray /\ [TempNext]_tempVars => ~stray'
  <2>1. ASSUME TempInv, ~stray, NEW l \in Locks, Release(l) PROVE ~stray'
    BY <2>1 DEF TempInv, PhaseInv, Release
  <2> QED
    BY <2>1
    DEF TempNext, tempVars, Cleanup, StartAcquire, InnerAcquire, Reacquire, VerifyOk,
        VerifyStale, VerifyRaises, DropStale, Reopen, GiveUp, CollectOrphan, UnlinkFails,
        ReleaseUnlock, ReleaseClose, TempCrash
<1>3. ~stray /\ ExclusionUnlessStray => TempExclusion
  BY DEF ExclusionUnlessStray
<1> QED
  BY <1>1, <1>2, <1>3, TempInvariant, TempMutualExclusion, PTL DEF TempSpec

(* An acquire that failed left a handle behind only where its check or its *)
(* truncation raised, whatever the flags (utils.py:644, 941-945, 1063).    *)
THEOREM TempFailedHoldsNothing == TempSpec => []FailedHoldsNothing
<1>1. TempBase => FailedHoldsNothing
  BY DEF TempBase, PhaseInv, FlockInv, OpenUnlessIdle, GrantedIsOpen, OrphansTruncate,
         FailedHoldsNothing
<1> QED
  BY <1>1, TempBaseInvariant, PTL

-----------------------------------------------------------------------------
(* A step moves at most one lock from one place to another.                *)
LEMMA OneMoves ==
    ASSUME [TempNext]_tempVars
    PROVE  \/ phase' = phase
           \/ \E l \in Locks, there \in Phases : phase' = [phase EXCEPT ![l] = there]
BY DEF TempNext, tempVars, Cleanup, StartAcquire, InnerAcquire, Reacquire, VerifyOk,
       VerifyStale, VerifyRaises, DropStale, Reopen, GiveUp, CollectOrphan, Release, UnlinkFails,
       ReleaseUnlock, ReleaseClose, TempCrash, Phases

(* A step of TempLock grants, drops or leaves alone the abstract lock: one *)
(* lock's mode changes, and a mode it gains conflicts with no other's.     *)
LEMMA TempStepImplements ==
    ASSUME TempTypeOK, ExclusionUnlessStray', [TempNext]_tempVars
    PROVE  [TempAbstract!Next]_SoundMode
<1>1. CASE stray'
  <2>1. SoundMode' = [k \in Locks |-> IF k \in Locks THEN "none" ELSE SoundMode[k]]
    BY <1>1 DEF SoundMode
  <2>2. TempAbstract!Revoke(Locks)
    BY <2>1 DEF TempAbstract!Revoke
  <2> QED
    BY <2>2 DEF TempAbstract!Next
<1>2. CASE ~stray' /\ phase' = phase
  BY <1>2, StrayForGood DEF SoundMode, TempMode, TempHeld
<1>3. ASSUME NEW l \in Locks, NEW there \in Phases, phase' = [phase EXCEPT ![l] = there],
             ~stray'
      PROVE  [TempAbstract!Next]_SoundMode
  <2> DEFINE m == IF there \in {"held", "checking"} THEN Mode[l] ELSE "none"
  <2>0. ~stray /\ TempExclusion'
    BY <1>3, StrayForGood DEF ExclusionUnlessStray
  <2>1. SoundMode' = [SoundMode EXCEPT ![l] = m]
    BY <1>3, <2>0 DEF TempTypeOK, SoundMode, TempMode, TempHeld
  <2>2. SoundMode[l] \in {"none", Mode[l]} /\ m \in {"none", Mode[l]}
    BY DEF SoundMode, TempMode
  <2>3. CASE SoundMode[l] = m
    <3>1. SoundMode = [k \in Locks |-> SoundMode[k]]
      BY DEF SoundMode
    <3> QED
      BY <2>1, <2>3, <3>1
  <2>4. CASE m = "none" /\ SoundMode[l] # "none"
    <3>1. TempAbstract!Drop(l)
      BY <2>1, <2>4 DEF TempAbstract!Drop
    <3> QED
      BY <3>1 DEF TempAbstract!Next
  <2>5. CASE m = Mode[l] /\ SoundMode[l] = "none"
    <3>1. SoundMode'[l] = m /\ \A k \in Locks \ {l} : SoundMode'[k] = SoundMode[k]
      BY <2>1 DEF SoundMode
    <3>2. \A k \in Locks \ {l} : ~Conflict(SoundMode'[l], SoundMode'[k])
      BY <1>3, <2>0 DEF TempExclusion, SoundMode
    <3>3. \A k \in Locks \ {l} : ~TempAbstract!Conflict(m, SoundMode[k])
      BY <3>1, <3>2 DEF Conflict, TempAbstract!Conflict
    <3>4. TempAbstract!Grant(l, m)
      BY <2>1, <2>5, <3>3 DEF TempAbstract!Grant
    <3>5. m \in {"shared", "exclusive"}
      BY <2>5, ModeAssumption
    <3> QED
      BY <3>4, <3>5 DEF TempAbstract!Next
  <2> QED
    BY <2>2, <2>3, <2>4, <2>5
<1> QED
  BY <1>1, <1>2, <1>3, OneMoves

(* TemporaryFileLock implements the abstract reader/writer lock, up to the *)
(* first stray release.                                                    *)
THEOREM TempImplements ==
    ASSUME ExclusiveFlags PROVE TempSpec => TempImplementsRWLock
<1>1. TempInit => TempAbstract!Init
  BY DEF TempInit, TempAbstract!Init, SoundMode, TempMode, TempHeld
<1>2. TempInv => TempTypeOK
  BY DEF TempInv
<1>3. TempTypeOK /\ ExclusionUnlessStray' /\ [TempNext]_tempVars => [TempAbstract!Next]_SoundMode
  BY TempStepImplements
<1> QED
  BY <1>1, <1>2, <1>3, TempInvariant, TempMutualExclusion, PTL
  DEF TempSpec, TempImplementsRWLock, TempAbstract!Spec

(* Types, whatever the flags and whatever happens to the file.             *)
THEOREM TempTypes == TempSpec => []TempTypeOK
<1>1. TempBase => TempTypeOK
  BY DEF TempBase
<1> QED
  BY <1>1, TempBaseInvariant, PTL
=============================================================================
