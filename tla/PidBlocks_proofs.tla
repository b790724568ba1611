--------------------------- MODULE PidBlocks_proofs --------------------------
(***************************************************************************)
(* Proofs about PidFileLock and the blocks that run under it, when acquire *)
(* is not interrupted: NestedSpec is the general case, in which an object  *)
(* may be acquired inside its own block; BlockSpec is the one without.     *)
(***************************************************************************)
EXTENDS PidBlocks, TempLock_proofs

(* PidFileLock makes its sidecar lock with LOCK_METHOD and mode "a".       *)
SidecarFlags == ExclusiveFlags /\ Truncating = {}

(* Where the sidecar's lock is for each place in PidFileLock's methods.    *)
StageInv == \A l \in Locks :
    /\ stage[l] \in {"out", "contended", "told", "untold", "replaced", "dead"} => phase[l] = "idle"
    /\ stage[l] = "entering" => phase[l] \in {"acquiring", "dropping"}
    /\ Owner(l) => phase[l] = "held"
    /\ stage[l] \in {"releasing", "replacing"} => phase[l] = "releasing"
    /\ stage[l] # "interrupted"
    /\ pc[l] # "orphan"

Published == \A l \in Locks : stage[l] = "holding" => pidfile = l

PidInv == TempInv /\ ~stray /\ PidTypeOK /\ StageInv /\ Published

(* Two processes never own the sidecar.                                    *)
LEMMA OneOwner ==
    ASSUME PidInv, SidecarFlags, NEW k \in Locks, NEW l \in Locks, Owner(k), Owner(l)
    PROVE  k = l
<1>1. TempHeld(k) /\ TempHeld(l)
  BY DEF PidInv, StageInv, TempHeld
<1>2. fd[l] = path /\ granted[l] = "exclusive"
  BY <1>1 DEF PidInv, TempInv, HolderOwnsPath, SidecarFlags, ExclusiveFlags
<1> QED
  BY <1>1, <1>2, OneHolder DEF PidInv, TempInv, SidecarFlags

(* Letting the sidecar's lock go leaves its flock and its path alone.      *)
LEMMA LetGoTempInv ==
    ASSUME TempInv, NEW l \in Locks, LetGo(l), phase[l] \in {"acquiring", "held"}, pc[l] = "held"
    PROVE  TempInv' /\ stray' = stray
<1>1. phase' = [phase EXCEPT ![l] = "releasing"] /\ stray' = stray /\ UNCHANGED lockVars
  BY DEF LetGo, Enter
<1>2. FlockInv'
  BY <1>1, StutterFlockInv DEF TempInv
<1>3. TempTypeOK' /\ PhaseInv' /\ HolderOwnsPath'
  BY <1>1 DEF TempInv, TempTypeOK, TypeOK, FileTypeOK, Phases, PhaseInv, HolderOwnsPath, TempHeld,
              lockVars, fileVars
<1> QED
  BY <1>1, <1>2, <1>3 DEF TempInv

(* The steps inside the sidecar's lock: the PID file is left alone.        *)
LEMMA SidecarPidInv ==
    ASSUME PidInv, SidecarFlags, NEW l \in Locks,
           \/ EnterLock(l) \/ SidecarStep(l) \/ Verified(l)
           \/ ReleaseSidecar(l) \/ ReleaseBreaks(l) \/ ReleaseEnd(l) \/ PidCrash(l)
           \/ ReplaceEnd(l) \/ EnterAgain(l)
    PROVE  PidInv'
<1> USE DEF PidInv, Step, Enter
<1>1. TempNext
  BY DEF TempNext, EnterLock, SidecarStep, Verified, ReleaseSidecar, ReleaseBreaks, ReleaseEnd,
         PidCrash, ReplaceEnd, EnterAgain
<1>2. TempInv'
  BY <1>1, TempInvStep DEF SidecarFlags
<1>3. /\ stage' = [stage EXCEPT ![l] = stage'[l]] /\ stage'[l] \in Stages
      /\ stage'[l] # "holding" /\ pidfile' = pidfile
  BY DEF EnterLock, SidecarStep, Verified, ReleaseSidecar, ReleaseBreaks, ReleaseEnd, PidCrash,
         ReplaceEnd, EnterAgain, PidTypeOK, Stages
<1>4. /\ phase' = [phase EXCEPT ![l] = phase'[l]]
      /\ \A k \in Locks \ {l} : pc'[k] = pc[k]
      /\ pc'[l] # "orphan"
  <2>1. CASE SidecarStep(l) /\ InnerAcquire(l)
    <3>1. ~PrepareRaises(l)
      BY DEF PrepareRaises, SidecarFlags
    <3>2. pc' = [pc EXCEPT ![l] = pc'[l]]
      BY <2>1, InnerPC DEF InnerAcquire, TempInv, TempTypeOK
    <3> QED
      BY <2>1, <3>1, <3>2 DEF InnerAcquire, Attempt, TryLock, FailAtOnce, AttemptBreaks, Backoff,
         Retry, Expire, Prepare, Fail, Goto, TempInv, TempTypeOK, TypeOK, PCs
  <2>2. CASE ~InnerAcquire(l)
    BY <2>2 DEF EnterLock, StartAcquire, SidecarStep, VerifyStale, DropStale, Reopen, GiveUp,
       Verified, VerifyOk, ReleaseSidecar, Release, ReleaseBreaks, UnlinkFails, ReleaseEnd,
       ReleaseUnlock, ReleaseClose, PidCrash, ReplaceEnd, EnterAgain, TempCrash, Acquire, Unlock, UnlockFails, Close, Crash,
       Fail, Goto, lockVars, StageInv, TempInv, TempTypeOK, TypeOK, PCs
  <2>3. CASE InnerAcquire(l) /\ ~SidecarStep(l)
    <3>1. phase[l] = "acquiring" /\ pc[l] \in {"trying", "waiting", "locked"}
      BY <2>3, InnerPC DEF InnerAcquire, TempInv, TempTypeOK
    <3>2. stage[l] = "entering"
      BY <3>1 DEF StageInv, PidTypeOK, Stages, Owner
    <3>3. Verified(l) \/ PidCrash(l)
      BY <2>3, <3>2 DEF EnterLock, ReleaseSidecar, ReleaseBreaks, ReleaseEnd, ReplaceEnd, EnterAgain
    <3>4. PidCrash(l)
      BY <3>1, <3>3 DEF Verified, VerifyOk, Verifying
    <3> QED
      BY <3>4 DEF PidCrash, TempCrash, Crash, Fail, Goto, TempInv, TempTypeOK, TypeOK, PCs
  <2> QED
    BY <2>1, <2>2, <2>3
<1>5. StageInv'
  <2>1. \A k \in Locks \ {l} : stage'[k] = stage[k] /\ phase'[k] = phase[k]
    BY <1>3, <1>4 DEF PidTypeOK, TempTypeOK
  <2>2. /\ stage'[l] \in {"out", "contended", "replaced", "dead"} => phase'[l] = "idle"
        /\ stage'[l] = "entering" => phase'[l] \in {"acquiring", "dropping"}
        /\ stage'[l] \in {"publishing", "writing", "holding", "unlinking"} => phase'[l] = "held"
        /\ stage'[l] \in {"releasing", "replacing"} => phase'[l] = "releasing"
        /\ stage'[l] \in {"out", "contended", "dead", "entering", "publishing", "releasing",
                          "replacing", "replaced"}
    BY DEF EnterLock, StartAcquire, SidecarStep, InnerAcquire, VerifyStale, DropStale, Reopen,
       GiveUp, Verified, VerifyOk, ReleaseSidecar, Release, ReleaseBreaks, UnlinkFails, ReleaseEnd,
       ReleaseUnlock, ReleaseClose, PidCrash, ReplaceEnd, EnterAgain, TempCrash, StageInv, PidTypeOK, TempTypeOK
  <2> QED
    BY <1>4, <2>1, <2>2 DEF StageInv, Owner
<1>6. Published' /\ PidTypeOK'
  BY <1>2, <1>3 DEF Published, PidTypeOK, TempInv
<1>7. ~stray'
  <2>1. CASE ReleaseSidecar(l)
    BY <2>1 DEF ReleaseSidecar, Release, StageInv, Owner
  <2>2. CASE ~ReleaseSidecar(l)
    BY <2>2 DEF EnterLock, StartAcquire, SidecarStep, InnerAcquire, VerifyStale, DropStale, Reopen,
       GiveUp, Verified, VerifyOk, ReleaseBreaks, UnlinkFails, ReleaseEnd, ReleaseUnlock,
       ReleaseClose, PidCrash, TempCrash, ReplaceEnd, EnterAgain
  <2> QED
    BY <2>1, <2>2
<1> QED
  BY <1>2, <1>5, <1>6, <1>7

(* The steps that let the sidecar go without its own release.              *)
LEMMA LetGoPidInv ==
    ASSUME PidInv, SidecarFlags, NEW l \in Locks, VerifyBreaks(l) \/ PublishFails(l)
    PROVE  PidInv'
<1> USE DEF PidInv, Step
<1>1. /\ LetGo(l)
      /\ stage' = [stage EXCEPT ![l] = "releasing"]
      /\ \/ Verifying(l) /\ stage[l] = "entering" /\ pidfile' = pidfile
         \/ Owner(l) /\ pidfile' \in {pidfile, None, l}
  BY DEF VerifyBreaks, PublishFails, Owner
<1>2. phase[l] \in {"acquiring", "held"} /\ pc[l] = "held"
  BY <1>1 DEF Verifying, StageInv, TempInv, PhaseInv
<1>3. TempInv' /\ ~stray'
  BY <1>1, <1>2, LetGoTempInv
<1>4. phase' = [phase EXCEPT ![l] = "releasing"] /\ pc' = pc
  BY <1>1 DEF LetGo, Enter, lockVars
<1>5. StageInv'
  BY <1>1, <1>4 DEF StageInv, Owner, PidTypeOK, TempTypeOK
<1>6. Published'
  <2> SUFFICES ASSUME NEW k \in Locks, stage'[k] = "holding" PROVE pidfile' = k
    BY DEF Published
  <2>1. k # l /\ stage[k] = "holding" /\ pidfile = k
    BY <1>1 DEF PidTypeOK, Published
  <2>2. ~Owner(l)
    BY <2>1, OneOwner DEF Owner
  <2> QED
    BY <1>1, <2>1, <2>2
<1>7. PidTypeOK'
  BY <1>1, <1>3 DEF PidTypeOK, Stages, TempInv
<1> QED
  BY <1>3, <1>5, <1>6, <1>7

(* The steps outside the sidecar's lock: the PID file and the blocks.      *)
LEMMA OutsidePidInv ==
    ASSUME PidInv, SidecarFlags, NEW l \in Locks,
           \/ TruncatePid(l) \/ WritePid(l) \/ ReadPid(l) \/ ExitUnheld(l) \/ ReleasePid(l)
           \/ Step(l, "contended", "out") /\ UNCHANGED <<tempVars, pidfile>>
    PROVE  PidInv'
<1> USE DEF PidInv, Step
<1>1. /\ UNCHANGED tempVars
      /\ stage' = [stage EXCEPT ![l] = stage'[l]]
      /\ \/ Owner(l) /\ stage'[l] \in {"writing", "unlinking"} /\ pidfile' = None
         \/ Owner(l) /\ stage'[l] = "holding" /\ pidfile' = l
         \/ /\ stage[l] \in {"contended", "told", "untold"} /\ pidfile' = pidfile
            /\ stage'[l] \in {"told", "untold", "out"}
  BY DEF TruncatePid, WritePid, ReadPid, ExitUnheld, ReleasePid, PidTypeOK, Owner
<1>2. TempInv'
  BY <1>1, TempInvStep DEF SidecarFlags
<1>3. StageInv'
  BY <1>1 DEF StageInv, Owner, PidTypeOK, tempVars, lockVars
<1>4. Published'
  <2> SUFFICES ASSUME NEW k \in Locks, k # l, stage'[k] = "holding" PROVE pidfile' = k
    BY <1>1 DEF Published, PidTypeOK
  <2>1. stage[k] = "holding" /\ pidfile = k
    BY <1>1 DEF PidTypeOK, Published
  <2>2. ~Owner(l)
    BY <2>1, OneOwner DEF Owner
  <2> QED
    BY <1>1, <2>1, <2>2
<1>5. PidTypeOK'
  BY <1>1, <1>2 DEF PidTypeOK, Stages, TempInv
<1> QED
  BY <1>1, <1>2, <1>3, <1>4, <1>5 DEF tempVars

(* Dropping the Lock that is held opens no gap: the PID in the file is     *)
(* stale from now on, but its flock is kept until the finalizer is done.   *)
LEMMA ReplacePidInv ==
    ASSUME PidInv, SidecarFlags, NEW l \in Locks, ReplaceInner(l) PROVE PidInv'
<1> USE DEF PidInv, ReplaceInner, Step
<1>1. phase[l] = "held" /\ pc[l] = "held"
  BY DEF StageInv, Owner, TempInv, PhaseInv
<1>2. TempInv'
  BY <1>1, LetGoTempInv
<1>3. phase' = [phase EXCEPT ![l] = "releasing"] /\ pc' = pc
  BY DEF LetGo, Enter, lockVars
<1>4. StageInv' /\ Published' /\ PidTypeOK'
  BY <1>2, <1>3 DEF StageInv, Owner, Published, PidTypeOK, Stages, TempInv, TempTypeOK
<1> QED
  BY <1>2, <1>3, <1>4 DEF LetGo, Enter

LEMMA CleanupPidInv == ASSUME PidInv, SidecarFlags, PidCleanup PROVE PidInv'
<1>1. TempInv'
  BY TempInvStep DEF PidInv, PidCleanup, TempNext, SidecarFlags
<1> QED
  BY <1>1 DEF PidInv, PidCleanup, Cleanup, PidTypeOK, StageInv, Owner, Published, TempInv

(* No step of a block of PidFileLock breaks PidInv.                        *)
LEMMA BlockPidInv == PidInv /\ SidecarFlags /\ [BlockNext]_blockVars => PidInv'
<1>1. ASSUME PidInv, SidecarFlags, UNCHANGED blockVars PROVE PidInv'
  <2>1. TempInv'
    BY <1>1, TempInvStep DEF blockVars, pidVars, PidInv, SidecarFlags
  <2> QED
    BY <1>1, <2>1 DEF blockVars, pidVars, tempVars, lockVars, PidInv, PidTypeOK, StageInv, Owner,
                      Published, TempInv
<1>2. ASSUME PidInv, SidecarFlags, NEW l \in Locks, BlockStep(l) PROVE PidInv'
  BY <1>2, SidecarPidInv, LetGoPidInv, OutsidePidInv
  DEF BlockStep, EnterFirst, EnterStep, BeginHeld, BeginUnheld, Refuse, EndUnheld, EndHeld,
      EndBreaks, ExitStep, BlockCrash
<1> QED
  BY <1>1, <1>2, CleanupPidInv DEF BlockNext

LEMMA NestedPidInv == PidInv /\ SidecarFlags /\ [NestedNext]_blockVars => PidInv'
<1>1. ASSUME PidInv, SidecarFlags, NEW l \in Locks, EndOuter(l) PROVE PidInv'
  <2>1. TempInv'
    BY <1>1, TempInvStep DEF EndOuter, pidVars, PidInv, SidecarFlags
  <2> QED
    BY <1>1, <2>1 DEF EndOuter, pidVars, tempVars, lockVars, PidInv, PidTypeOK, StageInv, Owner,
                      Published, TempInv
<1> QED
  BY <1>1, BlockPidInv, ReplacePidInv, SidecarPidInv DEF NestedNext

(* How many blocks of an object run follows from where it is.              *)
BlocksInv == \A l \in Locks :
    /\ blocks[l] = IF stage[l] \in {"holding", "told", "untold"} THEN 1 ELSE 0
    /\ stage[l] \in {"told", "untold"} => l \notin FailClosed

BlockInv == PidInv /\ BlockTypeOK /\ BlocksInv

LEMMA StepBlocksInv ==
    ASSUME BlockInv, [BlockNext]_blockVars
    PROVE  BlocksInv' /\ blocks' \in [Locks -> 0..MaxBlocks]
<1> USE MaxBlocksAssumption DEF BlockInv, BlockTypeOK, PidTypeOK, BlocksInv, Step, Blocks
<1>1. CASE UNCHANGED blockVars
  BY <1>1 DEF blockVars, pidVars
<1>2. CASE PidCleanup /\ UNCHANGED blocks
  BY <1>2 DEF PidCleanup
<1>3. ASSUME NEW l \in Locks, EnterFirst(l) \/ EnterStep(l) \/ ExitStep(l)
      PROVE  BlocksInv' /\ blocks' \in [Locks -> 0..MaxBlocks]
  BY <1>3 DEF EnterFirst, EnterLock, EnterStep, SidecarStep, Verified, VerifyBreaks, TruncatePid,
              PublishFails, ExitStep, ReleaseSidecar, ReleaseEnd
<1>4. ASSUME NEW l \in Locks, BeginHeld(l) \/ BeginUnheld(l) \/ Refuse(l)
      PROVE  BlocksInv' /\ blocks' \in [Locks -> 0..MaxBlocks]
  BY <1>4 DEF BeginHeld, WritePid, BeginUnheld, ReadPid, Refuse
<1>5. ASSUME NEW l \in Locks, EndUnheld(l) \/ EndHeld(l) \/ EndBreaks(l)
      PROVE  BlocksInv' /\ blocks' \in [Locks -> 0..MaxBlocks]
  BY <1>5 DEF EndUnheld, ExitUnheld, EndHeld, ReleasePid, EndBreaks, ReleaseBreaks
<1>6. ASSUME NEW l \in Locks, BlockCrash(l)
      PROVE  BlocksInv' /\ blocks' \in [Locks -> 0..MaxBlocks]
  BY <1>6 DEF BlockCrash, PidCrash
<1> QED
  BY <1>1, <1>2, <1>3, <1>4, <1>5, <1>6 DEF BlockNext, BlockStep

LEMMA BlockInvInit == BlockInit => BlockInv
<1> SUFFICES ASSUME BlockInit PROVE BlockInv
  OBVIOUS
<1>1. TempInv
  BY TempInvInit DEF BlockInit, PidInit
<1> QED
  BY <1>1, MaxBlocksAssumption
  DEF BlockInit, PidInit, TempInit, Init, BlockInv, PidInv, BlockTypeOK, PidTypeOK, StageInv,
      Owner, Published, BlocksInv, Stages, TempInv

(* BlockInv is an invariant of PidFileLock and its blocks, for any number  *)
(* of processes, whatever failures Faults may name.                        *)
THEOREM BlockInvariant == ASSUME SidecarFlags PROVE BlockSpec => []BlockInv
<1>1. BlockInv /\ [BlockNext]_blockVars => BlockInv'
  BY BlockPidInv, StepBlocksInv DEF BlockInv, BlockTypeOK, PidInv
<1> QED
  BY <1>1, BlockInvInit, PTL DEF BlockSpec

(* With an object acquired inside its own block there may be several       *)
(* blocks, and they may run without the lock.                              *)
NestingInv == \A l \in Locks :
    IF stage[l] \in {"holding", "told", "untold"} THEN blocks[l] > 0 ELSE blocks[l] < MaxBlocks

NestedInv == PidInv /\ BlockTypeOK /\ NestingInv

LEMMA StepNestingInv ==
    ASSUME NestedInv, [NestedNext]_blockVars
    PROVE  NestingInv' /\ blocks' \in [Locks -> 0..MaxBlocks]
<1> USE MaxBlocksAssumption DEF NestedInv, BlockTypeOK, PidTypeOK, NestingInv, Step, Blocks
<1> DEFINE Kept == NestingInv' /\ blocks' \in [Locks -> 0..MaxBlocks]
<1>1. CASE UNCHANGED blockVars
  BY <1>1 DEF blockVars, pidVars
<1>2. CASE PidCleanup /\ UNCHANGED blocks
  BY <1>2 DEF PidCleanup
<1>3. ASSUME NEW l \in Locks, EnterFirst(l) \/ EnterStep(l) \/ ExitStep(l) PROVE Kept
  BY <1>3 DEF EnterFirst, EnterLock, EnterStep, SidecarStep, Verified, VerifyBreaks, TruncatePid,
              PublishFails, ExitStep, ReleaseSidecar, ReleaseEnd
<1>4. ASSUME NEW l \in Locks, BeginHeld(l) \/ BeginUnheld(l) \/ Refuse(l) PROVE Kept
  BY <1>4 DEF BeginHeld, WritePid, BeginUnheld, ReadPid, Refuse
<1>5. ASSUME NEW l \in Locks, EndUnheld(l) \/ EndHeld(l) \/ EndBreaks(l) PROVE Kept
  BY <1>5 DEF EndUnheld, ExitUnheld, EndHeld, ReleasePid, EndBreaks, ReleaseBreaks
<1>6. ASSUME NEW l \in Locks, BlockCrash(l) PROVE Kept
  BY <1>6 DEF BlockCrash, PidCrash
<1>7. ASSUME NEW l \in Locks, ReplaceInner(l) \/ ReplaceEnd(l) \/ EnterAgain(l) PROVE Kept
  BY <1>7 DEF ReplaceInner, ReplaceEnd, EnterAgain
<1>8. ASSUME NEW l \in Locks, EndOuter(l) PROVE Kept
  BY <1>8 DEF EndOuter, pidVars
<1> QED
  BY <1>1, <1>2, <1>3, <1>4, <1>5, <1>6, <1>7, <1>8 DEF NestedNext, BlockNext, BlockStep

(* NestedInv is an invariant of PidFileLock, for any number of processes   *)
(* and any depth of nesting, whatever failures Faults may name.            *)
THEOREM NestedInvariant == ASSUME SidecarFlags PROVE NestedSpec => []NestedInv
<1>1. BlockInit => NestedInv
  BY BlockInvInit, MaxBlocksAssumption
  DEF BlockInit, PidInit, BlockInv, NestedInv, NestingInv
<1>2. NestedInv /\ [NestedNext]_blockVars => NestedInv'
  BY NestedPidInv, StepNestingInv DEF NestedInv, BlockTypeOK, PidInv
<1> QED
  BY <1>1, <1>2, PTL DEF NestedSpec

LEMMA PidInvPublishes == PidInv => HolderPublished
  BY ModeAssumption
  DEF PidInv, Published, StageInv, Owner, TempInv, HolderOwnsPath, TempHeld, HolderPublished

LEMMA PidInvHoldsNothing == PidInv => OutsideHoldsNothing
  BY DEF PidInv, StageInv, TempInv, PhaseInv, FlockInv, OpenUnlessIdle, GrantedIsOpen,
         OutsideHoldsNothing

(* Types, for any number of processes.                                     *)
THEOREM BlockTypes == ASSUME SidecarFlags PROVE BlockSpec => []BlockTypeOK
<1>1. BlockInv => BlockTypeOK
  BY DEF BlockInv
<1> QED
  BY <1>1, BlockInvariant, PTL

(* A holder's PID is in the PID file as long as its block runs, and the    *)
(* sidecar's path names the file it has flocked.                           *)
THEOREM PidHolderPublished == ASSUME SidecarFlags PROVE BlockSpec => []HolderPublished
<1>1. BlockInv => HolderPublished
  BY PidInvPublishes DEF BlockInv
<1> QED
  BY <1>1, BlockInvariant, PTL

(* An acquire that failed and a finished release leave nothing locked.     *)
THEOREM PidOutsideHoldsNothing == ASSUME SidecarFlags PROVE BlockSpec => []OutsideHoldsNothing
<1>1. BlockInv => OutsideHoldsNothing
  BY PidInvHoldsNothing DEF BlockInv
<1> QED
  BY <1>1, BlockInvariant, PTL

(* An object acquired inside its own block only costs the outer block the  *)
(* lock: whoever believes to hold it still does, alone and published, and  *)
(* what failed or finished still leaves nothing locked.                    *)
THEOREM NestedKeepsHolders ==
    ASSUME SidecarFlags
    PROVE  NestedSpec => []BlockTypeOK /\ []HolderPublished /\ []OutsideHoldsNothing
<1>1. NestedInv => BlockTypeOK /\ HolderPublished /\ OutsideHoldsNothing
  BY PidInvPublishes, PidInvHoldsNothing DEF NestedInv
<1> QED
  BY <1>1, NestedInvariant, PTL

(* While a fail-closed block runs no other process owns the lock.          *)
THEOREM PidFailClosedOwns == ASSUME SidecarFlags PROVE BlockSpec => []FailClosedOwns
<1>1. BlockInv => FailClosedOwns
  <2> SUFFICES ASSUME BlockInv, NEW l \in FailClosed, blocks[l] > 0, NEW k \in Locks \ {l}
               PROVE  ~Owner(k)
    BY DEF FailClosedOwns
  <2>1. l \in Locks /\ Owner(l)
    BY FailClosedAssumption DEF BlockInv, BlocksInv, Owner
  <2> QED
    BY <2>1, OneOwner DEF BlockInv
<1> QED
  BY <1>1, BlockInvariant, PTL

-----------------------------------------------------------------------------
(* A step moves at most one lock from one place to another.                *)
LEMMA OneStage ==
    ASSUME PidTypeOK, [NestedNext]_blockVars
    PROVE  \/ stage' = stage
           \/ \E l \in Locks : stage' = [stage EXCEPT ![l] = stage'[l]]
BY DEF PidTypeOK, NestedNext, ReplaceInner, ReplaceEnd, EnterAgain, EndOuter, BlockNext, blockVars, pidVars, BlockStep, PidCleanup, EnterFirst, EnterLock,
       EnterStep, SidecarStep, Verified, VerifyBreaks, TruncatePid, PublishFails, BeginHeld,
       WritePid, BeginUnheld, ReadPid, Refuse, EndUnheld, ExitUnheld, EndHeld, ReleasePid,
       EndBreaks, ReleaseBreaks, ExitStep, ReleaseSidecar, ReleaseEnd, BlockCrash, PidCrash, Step

LEMMA PidStepImplements ==
    ASSUME PidTypeOK, [NestedNext]_blockVars,
           (\A k, l \in Locks : Owner(k) /\ Owner(l) => k = l)'
    PROVE  [PidAbstract!Next]_PidMode
<1>1. CASE stage' = stage
  BY <1>1 DEF PidMode, Owner
<1>2. ASSUME NEW l \in Locks, stage' = [stage EXCEPT ![l] = stage'[l]]
      PROVE  [PidAbstract!Next]_PidMode
  <2> DEFINE m == IF Owner(l)' THEN "exclusive" ELSE "none"
  <2>1. PidMode' = [PidMode EXCEPT ![l] = m]
    BY <1>2 DEF PidTypeOK, PidMode, Owner
  <2>2. PidMode = [k \in Locks |-> PidMode[k]] /\ PidMode[l] \in {"none", "exclusive"}
    BY DEF PidMode
  <2>3. CASE PidMode[l] = m
    BY <2>1, <2>2, <2>3
  <2>4. CASE ~Owner(l)' /\ PidMode[l] # "none"
    <3>1. PidAbstract!Drop(l)
      BY <2>1, <2>4 DEF PidAbstract!Drop
    <3> QED
      BY <3>1 DEF PidAbstract!Next
  <2>5. CASE Owner(l)' /\ PidMode[l] = "none"
    <3>1. \A k \in Locks \ {l} : PidMode'[k] = "none" /\ PidMode'[k] = PidMode[k]
      BY <2>1, <2>2, <2>5 DEF PidMode
    <3>2. PidAbstract!Grant(l, "exclusive")
      BY <2>1, <2>5, <3>1 DEF PidAbstract!Grant, PidAbstract!Conflict
    <3> QED
      BY <3>2 DEF PidAbstract!Next
  <2> QED
    BY <2>2, <2>3, <2>4, <2>5
<1> QED
  BY <1>1, <1>2, OneStage

(* PidFileLock implements the abstract lock, blocks and all.               *)
THEOREM PidImplements == ASSUME SidecarFlags PROVE BlockSpec => PidImplementsRWLock
<1> DEFINE Alone == \A k, l \in Locks : Owner(k) /\ Owner(l) => k = l
<1>1. BlockInit => PidAbstract!Init
  BY DEF BlockInit, PidInit, PidAbstract!Init, PidMode, Owner
<1>2. BlockInv => PidTypeOK /\ Alone
  BY OneOwner DEF BlockInv, PidInv
<1>3. PidTypeOK /\ Alone' /\ [BlockNext]_blockVars => [PidAbstract!Next]_PidMode
  BY PidStepImplements DEF NestedNext
<1> HIDE DEF Alone
<1> QED
  BY <1>1, <1>2, <1>3, BlockInvariant, PTL DEF BlockSpec, PidImplementsRWLock, PidAbstract!Spec

(* It does when an object is acquired inside its own block: the lock that  *)
(* the finalizer drops is free for others, and for the inner block.        *)
THEOREM NestedImplements == ASSUME SidecarFlags PROVE NestedSpec => PidImplementsRWLock
<1> DEFINE Alone == \A k, l \in Locks : Owner(k) /\ Owner(l) => k = l
<1>1. BlockInit => PidAbstract!Init
  BY DEF BlockInit, PidInit, PidAbstract!Init, PidMode, Owner
<1>2. NestedInv => PidTypeOK /\ Alone
  BY OneOwner DEF NestedInv, PidInv
<1>3. PidTypeOK /\ Alone' /\ [NestedNext]_blockVars => [PidAbstract!Next]_PidMode
  BY PidStepImplements
<1> HIDE DEF Alone
<1> QED
  BY <1>1, <1>2, <1>3, NestedInvariant, PTL DEF NestedSpec, PidImplementsRWLock, PidAbstract!Spec
=============================================================================
