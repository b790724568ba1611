-------------------------- MODULE Semaphore_proofs --------------------------
(***************************************************************************)
(* Proofs about Semaphore: holders sit in slots of their own, so there are *)
(* never more of them than slots, and no slot is lost.                     *)
(***************************************************************************)
EXTENDS Semaphore, FiniteSetTheorems, TLAPS

(* Whoever was told that it holds a slot has locked that slot's file.      *)
HolderHasSlot == \A s \in Instances : pc[s] = "held" => flocked[slot[s]] = s

SemInv == SemTypeOK /\ HolderHasSlot /\ NoSlotLost

(* The starting and the ending of an acquire without success move only     *)
(* instances that have no slot locked.                                     *)
LEMMA SearchSemInv ==
    ASSUME SemInv, NEW s \in Instances,
           StartSweep(s) \/ SkipSlot(s) \/ SweepRaises(s) \/ Refuse(s)
    PROVE  SemInv'
<1> USE DEF SemInv, SemTypeOK
<1>1. /\ pc[s] \in {"idle", "sweeping", "waiting"}
      /\ pc'[s] \in {"idle", "sweeping", "waiting"}
      /\ \A t \in Instances \ {s} : pc'[t] = pc[t] /\ slot'[t] = slot[t]
      /\ flocked' = flocked
      /\ SemTypeOK'
  <2>1. CASE StartSweep(s)
    <3>1. 0 \in Slots
      BY MaximumAssumption DEF Slots
    <3> QED
      BY <2>1, <3>1 DEF StartSweep, Goto
  <2>2. CASE SkipSlot(s)
    BY <2>2 DEF SkipSlot, Goto
  <2>3. CASE SweepRaises(s)
    BY <2>3 DEF SweepRaises, Goto
  <2>4. CASE Refuse(s)
    BY <2>4 DEF Refuse, Goto
  <2> QED
    BY <2>1, <2>2, <2>3, <2>4
<1>2. HolderHasSlot'
  BY <1>1 DEF HolderHasSlot
<1>3. NoSlotLost'
  BY <1>1, FreeAssumption DEF NoSlotLost
<1> QED
  BY <1>1, <1>2, <1>3

(* A slot is taken only while nobody has it.                               *)
LEMMA TakeSemInv ==
    ASSUME SemInv, NEW s \in Instances, TakeSlot(s) PROVE SemInv'
<1> USE DEF SemInv, SemTypeOK, TakeSlot, Goto
<1>1. SemTypeOK'
  OBVIOUS
<1>2. HolderHasSlot'
  BY FreeAssumption DEF HolderHasSlot
<1>3. NoSlotLost'
  BY DEF NoSlotLost
<1> QED
  BY <1>1, <1>2, <1>3

(* A slot given back, by release or by the death of its process, is the    *)
(* slot of the instance that acts.                                         *)
LEMMA GiveBackSemInv ==
    ASSUME SemInv, NEW s \in Instances,
           ReleaseSlot(s) \/ CloseSlot(s) \/ Crash(s)
    PROVE  SemInv'
<1> USE DEF SemInv, SemTypeOK
<1>1. /\ slot' = slot
      /\ \/ pc' = [pc EXCEPT ![s] = "closing"] /\ pc[s] = "held"
         \/ pc' = [pc EXCEPT ![s] = "idle"] /\ Unlock(s)
      /\ Unlock(s) \/ flocked' = flocked
  BY DEF ReleaseSlot, CloseSlot, Crash, Goto
<1>2. \A n \in Slots : flocked'[n] = flocked[n] \/ (flocked[n] = s /\ flocked'[n] = Free)
  BY <1>1 DEF Unlock
<1>3. SemTypeOK'
  BY <1>1 DEF Unlock
<1>4. HolderHasSlot'
  BY <1>1, <1>2 DEF HolderHasSlot
<1>5. NoSlotLost'
  <2> SUFFICES ASSUME NEW n \in Slots, flocked'[n] # Free
               PROVE  LET t == flocked'[n] IN slot'[t] = n /\ pc'[t] \in {"held", "closing"}
    BY DEF NoSlotLost
  <2>1. flocked'[n] = flocked[n]
    BY <1>2
  <2>2. CASE flocked[n] = s
    <3>1. pc' = [pc EXCEPT ![s] = "closing"] /\ pc[s] = "held"
      BY <1>1, <2>1, <2>2 DEF Unlock
    <3> QED
      BY <1>1, <2>1, <2>2, <3>1 DEF NoSlotLost
  <2>3. CASE flocked[n] # s
    BY <1>1, <2>1, <2>3 DEF NoSlotLost
  <2> QED
    BY <2>2, <2>3
<1> QED
  BY <1>3, <1>4, <1>5

LEMMA StepSemInv == SemInv /\ [SemNext]_semVars => SemInv'
<1> SUFFICES ASSUME SemInv, [SemNext]_semVars PROVE SemInv'
  OBVIOUS
<1>1. CASE UNCHANGED semVars
  BY <1>1 DEF semVars, SemInv, SemTypeOK, HolderHasSlot, NoSlotLost
<1>2. ASSUME NEW s \in Instances,
             \/ StartSweep(s) \/ Sweep(s) \/ Refuse(s)
             \/ ReleaseSlot(s) \/ CloseSlot(s) \/ Crash(s)
      PROVE  SemInv'
  BY <1>2, SearchSemInv, TakeSemInv, GiveBackSemInv DEF Sweep
<1> QED
  BY <1>1, <1>2 DEF SemNext

LEMMA InitSemInv == SemInit => SemInv
  BY MaximumAssumption
  DEF SemInit, SemInv, SemTypeOK, HolderHasSlot, NoSlotLost, Slots

(* The inductive invariant of the semaphore.                               *)
THEOREM SemInvariant == SemSpec => []SemInv
  BY InitSemInv, StepSemInv, PTL DEF SemSpec

(* No slot stays locked that no instance would give back.                  *)
THEOREM SemNoSlotLost == SemSpec => []NoSlotLost
<1>1. SemInv => NoSlotLost
  BY DEF SemInv
<1> QED
  BY <1>1, SemInvariant, PTL

-----------------------------------------------------------------------------
(* Holders map one-to-one into the slots.                                  *)
LEMMA HoldersBounded ==
    SemInv => IsFiniteSet(Holders) /\ Cardinality(Holders) <= Maximum
<1> SUFFICES ASSUME SemInv
             PROVE  IsFiniteSet(Holders) /\ Cardinality(Holders) <= Maximum
  OBVIOUS
<1> DEFINE seat == [s \in Holders |-> slot[s]]
<1>1. IsFiniteSet(Slots) /\ Cardinality(Slots) = Maximum
  <2>1. IsFiniteSet(0 .. Maximum - 1)
        /\ Cardinality(0 .. Maximum - 1) =
             IF 0 > Maximum - 1 THEN 0 ELSE Maximum - 1 - 0 + 1
    BY FS_Interval, MaximumAssumption
  <2> QED
    BY <2>1, MaximumAssumption DEF Slots
<1>2. seat \in Injection(Holders, Slots)
  BY DEF Injection, IsInjective, Holders, SemInv, SemTypeOK, HolderHasSlot
<1> QED
  BY <1>1, <1>2, FS_Injection

(* What BoundedSemaphore promises: it implements the pool of Maximum       *)
(* slots, for any number of instances and slots and whatever fails.        *)
THEOREM SemImplements == SemSpec => ImplementsSlotPool
<1>1. SemInit => Pool!Init
  BY DEF SemInit, Pool!Init, Holders
<1>2. ASSUME SemInv, SemInv', [SemNext]_semVars
      PROVE  [Pool!Next]_Holders
  <2>1. CASE UNCHANGED semVars
    BY <2>1 DEF semVars, Holders
  <2>2. ASSUME NEW s \in Instances, TakeSlot(s)
        PROVE  Pool!Take(s)
    <3>1. s \notin Holders /\ Holders' = Holders \cup {s}
      BY <1>2, <2>2 DEF TakeSlot, Goto, Holders, SemInv, SemTypeOK
    <3>2. IsFiniteSet(Holders) /\ Cardinality(Holders) \in Nat
      BY <1>2, HoldersBounded, FS_CardinalityType
    <3>3. (SemInv => IsFiniteSet(Holders) /\ Cardinality(Holders) <= Maximum)'
      BY HoldersBounded, PTL
    <3>4. Pool!Cardinality(Holders) = Cardinality(Holders)
      BY DEF Pool!Cardinality, Cardinality
    <3> QED
      BY <1>2, <3>1, <3>2, <3>3, <3>4, FS_AddElement, MaximumAssumption DEF Pool!Take
  <2>3. ASSUME NEW s \in Instances,
               \/ StartSweep(s) \/ SkipSlot(s) \/ SweepRaises(s) \/ Refuse(s)
               \/ ReleaseSlot(s) \/ CloseSlot(s) \/ Crash(s)
        PROVE  Pool!Put(s) \/ Holders' = Holders
    <3>1. \E there \in {"idle", "sweeping", "waiting", "closing"} :
             pc' = [pc EXCEPT ![s] = there] \/ (pc' = pc)
      BY <2>3 DEF StartSweep, SkipSlot, SweepRaises, Refuse, ReleaseSlot, CloseSlot, Crash, Goto
    <3>2. CASE pc' = pc
      BY <3>2 DEF Holders
    <3>3. CASE pc' # pc
      <4>1. Holders' = Holders \ {s}
        BY <1>2, <3>1, <3>3 DEF Holders, SemInv, SemTypeOK
      <4> QED
        BY <4>1 DEF Pool!Put
    <3> QED
      BY <3>2, <3>3
  <2> QED
    BY <1>2, <2>1, <2>2, <2>3 DEF SemNext, Sweep, Pool!Next
<1> QED
  BY <1>1, <1>2, SemInvariant, PTL DEF SemSpec, ImplementsSlotPool, Pool!Spec

(* Types: no instance ever looks at, or sits in, a slot that is not there. *)
THEOREM SemTypes == SemSpec => []SemTypeOK
<1>1. SemInv => SemTypeOK
  BY DEF SemInv
<1> QED
  BY <1>1, SemInvariant, PTL

-----------------------------------------------------------------------------
(* A slot is granted to whoever takes it only when no other instance holds *)
(* it, and otherwise grants only disappear.                                *)
LEMMA SlotStep ==
    ASSUME SemInv, SemInv', [SemNext]_semVars, NEW n \in Slots
    PROVE  [SlotLock(n)!Next]_(SlotGrant(n))
<1>1. CASE UNCHANGED semVars
  BY <1>1 DEF semVars, SlotGrant, Holders
<1>2. ASSUME NEW s \in Instances, TakeSlot(s)
      PROVE  SlotLock(n)!Next \/ SlotGrant(n)' = SlotGrant(n)
  <2>1. /\ s \notin Holders /\ Holders' = Holders \cup {s}
        /\ slot' = slot
        /\ flocked[slot[s]] = Free
    BY <1>2 DEF TakeSlot, Goto, Holders, SemInv, SemTypeOK
  <2>2. CASE slot[s] # n
    BY <2>1, <2>2 DEF SlotGrant
  <2>3. CASE slot[s] = n
    <3>1. \A t \in Instances : SlotGrant(n)[t] = "none"
      BY <2>1, <2>3, FreeAssumption DEF SlotGrant, SemInv, HolderHasSlot, Holders
    <3>2. SlotGrant(n)' = [SlotGrant(n) EXCEPT ![s] = "exclusive"]
      BY <2>1, <2>3 DEF SlotGrant
    <3>3. SlotLock(n)!Grant(s, "exclusive")
      BY <3>1, <3>2 DEF SlotLock!Grant, SlotLock!Conflict
    <3> QED
      BY <3>3 DEF SlotLock!Next
  <2> QED
    BY <2>2, <2>3
<1>3. ASSUME NEW s \in Instances,
             \/ StartSweep(s) \/ SkipSlot(s) \/ SweepRaises(s) \/ Refuse(s)
             \/ ReleaseSlot(s) \/ CloseSlot(s) \/ Crash(s)
      PROVE  SlotLock(n)!Next \/ SlotGrant(n)' = SlotGrant(n)
  <2>1. /\ Holders' \subseteq Holders
        /\ \A t \in Holders' : slot'[t] = slot[t]
    BY <1>3 DEF StartSweep, SkipSlot, SweepRaises, Refuse, ReleaseSlot, CloseSlot, Crash,
                Goto, Holders, SemInv, SemTypeOK
  <2>2. SlotLock(n)!Revoke(Holders \ Holders')
    BY <2>1 DEF SlotLock!Revoke, SlotGrant
  <2>3. Holders \ Holders' \in SUBSET Instances
    BY DEF Holders
  <2> QED
    BY <2>2, <2>3 DEF SlotLock!Next
<1> QED
  BY <1>1, <1>2, <1>3 DEF SemNext, Sweep

(* Every slot of the semaphore is an exclusive lock: whatever fails, no    *)
(* two instances are ever handed the same slot.                            *)
THEOREM SemSlotsAreLocks == SemSpec => SlotsAreLocks
<1>1. SemInit => \A n \in Slots : SlotLock(n)!Init
  BY DEF SemInit, SlotLock!Init, SlotGrant, Holders
<1>2. SemInv /\ SemInv' /\ [SemNext]_semVars =>
        [\A n \in Slots : [SlotLock(n)!Next]_(SlotGrant(n))]_semVars
  BY SlotStep
<1> QED
  BY <1>1, <1>2, SemInvariant, PTL DEF SemSpec, SlotsAreLocks
=============================================================================
