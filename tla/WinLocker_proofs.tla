--------------------------- MODULE WinLocker_proofs --------------------------
(***************************************************************************)
(* Proofs about WinLocker: every range that is locked contains byte 0, so  *)
(* that the two lockers exclude each other, and every call restores the    *)
(* position it found.                                                      *)
(***************************************************************************)
EXTENDS WinLocker, TLAPS

(* The range that h locks from position 0.                                 *)
Locked(h) == IF ByWin32(h) THEN Whole ELSE Bytes(0)

(* Between Prepare and Restore the position is 0 and saved the caller's.   *)
PositionInv == \A h \in Handles :
    /\ pc[h] \in {"idle", "held", "failed", "retrying"} => pos[h] = where[h]
    /\ pc[h] \in {"locking", "locked", "refused", "unlocking", "fallback", "unlocked", "kept"}
          => pos[h] = 0 /\ saved[h] = where[h]

(* What Windows has locked for a handle follows from where its call is.    *)
RegionInv == \A h \in Handles :
    /\ pc[h] \in {"idle", "locking", "refused", "unlocked"}
          => region[h] = {} /\ mode[h] = "none"
    /\ pc[h] \in {"locked", "held", "unlocking", "retrying", "fallback", "kept", "failed"}
          => region[h] = Locked(h) /\ mode[h] = Mode[h]
    /\ pc[h] \in {"retrying", "fallback"} => ByWin32(h)

(* Windows never lets two ranges overlap unless both are shared.           *)
RangesExclude == \A g, h \in Handles :
    g # h => region[g] \cap region[h] = {} \/ (mode[g] = "shared" /\ mode[h] = "shared")

WinInv == WinTypeOK /\ PositionInv /\ RegionInv /\ RangesExclude

LEMMA WholeIsNotBytes == Whole # Bytes(0) /\ 0 \in Whole /\ 0 \in Bytes(0)
<1>1. Length \in Whole /\ Length \notin Bytes(0)
  BY LengthAssumption DEF Whole, Bytes
<1>2. 0 \in Whole /\ 0 \in Bytes(0)
  BY LengthAssumption DEF Whole, Bytes
<1> QED
  BY <1>1, <1>2

LEMMA InitWinInv == WinInit => WinInv
  BY PositionsAssumption
  DEF WinInit, WinInv, WinTypeOK, PositionInv, RegionInv, RangesExclude, PCs

(* Steps that ask nothing of Windows: the call begins, is refused, goes    *)
(* over to the other locker, fails or returns, or its caller seeks.        *)
LEMMA MoveWinInv ==
    ASSUME WinInv, NEW h \in Handles,
           \/ Lock(h) \/ Refused(h) \/ LockReturns(h) \/ Unlock(h) \/ Denied(h)
           \/ Fallback(h) \/ UnlockFails(h) \/ UnlockReturns(h) \/ Seek(h)
    PROVE  WinInv'
<1> USE PositionsAssumption DEF WinInv, WinTypeOK
<1>1. /\ UNCHANGED osVars
      /\ \A g \in Handles \ {h} :
            /\ pc'[g] = pc[g] /\ where'[g] = where[g]
            /\ pos'[g] = pos[g] /\ saved'[g] = saved[g]
  BY DEF Lock, Refused, LockReturns, Unlock, Denied, Fallback, UnlockFails, UnlockReturns, Seek,
         Goto, Prepare, Restore, osVars, posVars
<1>2. WinTypeOK'
  BY <1>1
  DEF Lock, Refused, LockReturns, Unlock, Denied, Fallback, UnlockFails, UnlockReturns, Seek,
      Goto, Prepare, Restore, osVars, posVars, PCs
<1>3. PositionInv'
  BY <1>1
  DEF PositionInv, Lock, Refused, LockReturns, Unlock, Denied, Fallback, UnlockFails,
      UnlockReturns, Seek, Goto, Prepare, Restore, posVars
<1>4. pc'[h] \in {"retrying", "fallback"} => ByWin32(h)
  <2>1. CASE Denied(h)
    BY <2>1 DEF Denied, Goto, RegionInv, PositionInv, OwnRange, Locked, ByWin32
  <2> QED
    BY <2>1 DEF RegionInv, Lock, Refused, LockReturns, Unlock, Fallback, UnlockFails,
                UnlockReturns, Seek, Goto
<1>5. RegionInv'
  BY <1>1, <1>4
  DEF RegionInv, Locked, Lock, Refused, LockReturns, Unlock, Denied, Fallback, UnlockFails,
      UnlockReturns, Seek, Goto, osVars
<1>6. RangesExclude'
  BY <1>1 DEF RangesExclude, osVars
<1> QED
  BY <1>2, <1>3, <1>5, <1>6

(* Windows grants a range: from position 0, as no other overlaps it.       *)
LEMMA GrantedWinInv == ASSUME WinInv, NEW h \in Handles, Granted(h) PROVE WinInv'
<1> USE DEF WinInv, WinTypeOK, Granted, Goto, OsLock, posVars
<1>1. Range(h) = Locked(h)
  BY DEF PositionInv, Range, Locked
<1>2. WinTypeOK'
  BY <1>1, ModeAssumption, PositionsAssumption DEF Locked, PCs
<1>3. PositionInv' /\ RegionInv'
  BY <1>1 DEF PositionInv, RegionInv, Locked
<1>4. RangesExclude'
  BY DEF RangesExclude, CanLock
<1> QED
  BY <1>2, <1>3, <1>4

(* A range given back, by unlock, by its fallback or with the handle.      *)
LEMMA FreedWinInv ==
    ASSUME WinInv, NEW h \in Handles, Unlocked(h) \/ FallbackUnlocks(h) \/ Close(h)
    PROVE  WinInv'
<1> USE PositionsAssumption
    DEF WinInv, WinTypeOK, Unlocked, FallbackUnlocks, Close, Goto, OsUnlock, posVars
<1>1. WinTypeOK'
  BY DEF PCs
<1>2. PositionInv'
  BY DEF PositionInv
<1>3. RegionInv'
  BY DEF RegionInv, Locked
<1>4. RangesExclude'
  BY DEF RangesExclude
<1> QED
  BY <1>1, <1>2, <1>3, <1>4

LEMMA StepWinInv == WinInv /\ [WinNext]_winVars => WinInv'
<1>1. ASSUME WinInv, UNCHANGED winVars PROVE WinInv'
  BY <1>1
  DEF winVars, posVars, osVars, WinInv, WinTypeOK, PositionInv, RegionInv, RangesExclude
<1> QED
  BY <1>1, MoveWinInv, GrantedWinInv, FreedWinInv DEF WinNext, LockStep, UnlockStep

(* The inductive invariant of the Windows lockers.                         *)
THEOREM WinInvariant == WinSpec => []WinInv
  BY InitWinInv, StepWinInv, PTL DEF WinSpec

(* Types, for any files, lengths and positions.                            *)
THEOREM WinTypes == WinSpec => []WinTypeOK
<1>1. WinInv => WinTypeOK
  BY DEF WinInv
<1> QED
  BY <1>1, WinInvariant, PTL

(* Whichever interface locked the file, what unlock leaves is not locked.  *)
THEOREM WinUnlockFrees == WinSpec => []UnlockFrees
<1>1. WinInv => UnlockFrees
  BY DEF WinInv, RegionInv, UnlockFrees
<1> QED
  BY <1>1, WinInvariant, PTL

(* lock and unlock leave the position as they found it.                    *)
THEOREM WinPositionKept == WinSpec => []PositionKept
<1>1. WinInv => PositionKept
  BY DEF WinInv, PositionInv, PositionKept
<1> QED
  BY <1>1, WinInvariant, PTL

-----------------------------------------------------------------------------
(* Every locked range contains byte 0, so those who hold the file at the   *)
(* same time have it shared.                                               *)
LEMMA HoldersShare ==
    WinInv => \A g, h \in Handles : g # h => ~Abstract!Conflict(WinHeld[g], WinHeld[h])
<1> SUFFICES ASSUME WinInv, NEW g \in Handles, NEW h \in Handles, g # h,
                    pc[g] = "held", pc[h] = "held"
             PROVE  Mode[g] = "shared" /\ Mode[h] = "shared"
  BY DEF WinHeld, Abstract!Conflict
<1>1. region[g] = Locked(g) /\ region[h] = Locked(h) /\ mode[g] = Mode[g] /\ mode[h] = Mode[h]
  BY DEF WinInv, RegionInv
<1>2. 0 \in region[g] \cap region[h]
  BY <1>1, WholeIsNotBytes DEF Locked
<1> QED
  BY <1>1, <1>2 DEF WinInv, RangesExclude

LEMMA OneHandleMoves ==
    ASSUME [WinNext]_winVars
    PROVE  pc' = pc \/ \E h \in Handles, there \in PCs : pc' = [pc EXCEPT ![h] = there]
BY DEF WinNext, winVars, LockStep, UnlockStep, Lock, Granted, Refused, LockReturns, Unlock,
       Unlocked, Denied, Fallback, FallbackUnlocks, UnlockFails, UnlockReturns, Seek, Close,
       Goto, PCs

LEMMA WinStepImplements ==
    ASSUME WinTypeOK, [WinNext]_winVars,
           (\A g, h \in Handles : g # h => ~Abstract!Conflict(WinHeld[g], WinHeld[h]))'
    PROVE  [Abstract!Next]_WinHeld
<1>1. CASE pc' = pc
  BY <1>1 DEF WinHeld
<1>2. ASSUME NEW h \in Handles, NEW there \in PCs, pc' = [pc EXCEPT ![h] = there]
      PROVE  [Abstract!Next]_WinHeld
  <2> DEFINE m == IF there = "held" THEN Mode[h] ELSE "none"
  <2>1. WinHeld' = [WinHeld EXCEPT ![h] = m]
    BY <1>2 DEF WinTypeOK, WinHeld
  <2>2. WinHeld[h] \in {"none", Mode[h]} /\ WinHeld = [g \in Handles |-> WinHeld[g]]
    BY DEF WinHeld
  <2>3. CASE WinHeld[h] = m
    BY <2>1, <2>2, <2>3
  <2>4. CASE m = "none" /\ WinHeld[h] # "none"
    <3>1. Abstract!Drop(h)
      BY <2>1, <2>4 DEF Abstract!Drop
    <3> QED
      BY <3>1 DEF Abstract!Next
  <2>5. CASE m = Mode[h] /\ WinHeld[h] = "none"
    <3>1. WinHeld'[h] = m /\ \A g \in Handles \ {h} : WinHeld'[g] = WinHeld[g]
      BY <2>1, <2>2
    <3>2. \A g \in Handles \ {h} : ~Abstract!Conflict(m, WinHeld[g])
      BY <3>1
    <3>3. Abstract!Grant(h, m) /\ m \in {"shared", "exclusive"}
      BY <2>1, <2>5, <3>2, ModeAssumption DEF Abstract!Grant
    <3> QED
      BY <3>3 DEF Abstract!Next
  <2> QED
    BY <2>2, <2>3, <2>4, <2>5
<1> QED
  BY <1>1, <1>2, OneHandleMoves

(* Whatever the positions, the lengths and the mix of the two lockers, no  *)
(* two processes hold the file in conflicting modes.                       *)
THEOREM WinImplements == WinSpec => WinImplementsRWLock
<1> DEFINE Share == \A g, h \in Handles : g # h => ~Abstract!Conflict(WinHeld[g], WinHeld[h])
<1>1. WinInit => Abstract!Init
  BY DEF WinInit, Abstract!Init, WinHeld
<1>2. WinInv => WinTypeOK /\ Share
  BY HoldersShare DEF WinInv
<1>3. WinTypeOK /\ Share' /\ [WinNext]_winVars => [Abstract!Next]_WinHeld
  BY WinStepImplements
<1> HIDE DEF Share
<1> QED
  BY <1>1, <1>2, <1>3, WinInvariant, PTL DEF WinSpec, WinImplementsRWLock, Abstract!Spec
=============================================================================
