----------------------------- MODULE Semaphore ------------------------------
(***************************************************************************)
(* portalocker.BoundedSemaphore: Maximum lock files, the slots, which      *)
(* every instance sweeps from slot 0 upwards with a fail-fast Lock each,   *)
(* keeping the first that locks.  Nobody sees all slots at once: between   *)
(* the tries of one sweep the other instances take and free slots.         *)
(***************************************************************************)
EXTENDS Naturals, FiniteSets

CONSTANTS Instances,   \* the semaphore objects of all processes
          Maximum,     \* the number of slots
          Free,        \* nobody has the slot's file locked
          Faults       \* failures that may happen: "flock", "open", "unlock", "crash"

ASSUME MaximumAssumption == Maximum \in Nat \ {0}
ASSUME FreeAssumption == Free \notin Instances

VARIABLES pc,       \* where each instance is
          slot,     \* the slot it tries, or has in self.lock
          flocked   \* the instance whose Lock has each slot's file locked

semVars == <<pc, slot, flocked>>

Slots == 0 .. Maximum - 1

SemTypeOK ==
    /\ pc \in [Instances -> {"idle", "sweeping", "waiting", "held", "closing"}]
    /\ slot \in [Instances -> Slots]
    /\ flocked \in [Slots -> Instances \cup {Free}]

SemInit ==
    /\ pc = [s \in Instances |-> "idle"]
    /\ slot = [s \in Instances |-> 0]
    /\ flocked = [n \in Slots |-> Free]

Goto(s, there) == pc' = [pc EXCEPT ![s] = there]

Unlock(s) == flocked' = [n \in Slots |-> IF flocked[n] = s THEN Free ELSE flocked[n]]

-----------------------------------------------------------------------------
(* acquire asserts that no slot is held and starts the first sweep.        *)
StartSweep(s) ==
    /\ pc[s] \in {"idle", "waiting"}
    /\ Goto(s, "sweeping")
    /\ slot' = [slot EXCEPT ![s] = 0]
    /\ UNCHANGED flocked

(* Mutation: a slot that is already locked counts as taken by the caller.  *)
TakeAnySlot(s) ==
    /\ pc[s] = "sweeping"
    /\ flocked' = [flocked EXCEPT ![slot[s]] = IF @ = Free THEN s ELSE @]
    /\ Goto(s, "held")
    /\ UNCHANGED slot

(* try_lock: the slot's Lock is acquired, becomes self.lock, and the sweep *)
(* ends.                                                                   *)
TakeSlot(s) ==
    /\ pc[s] = "sweeping"
    /\ flocked[slot[s]] = Free
    /\ flocked' = [flocked EXCEPT ![slot[s]] = s]
    /\ Goto(s, "held")
    /\ UNCHANGED slot

(* Mutation: the sweep goes one slot too far.                              *)
SkipPastLast(s) ==
    /\ pc[s] = "sweeping"
    /\ flocked[slot[s]] # Free \/ "flock" \in Faults
    /\ IF slot[s] \in Slots
          THEN slot' = [slot EXCEPT ![s] = @ + 1] /\ UNCHANGED pc
          ELSE Goto(s, "waiting") /\ UNCHANGED slot
    /\ UNCHANGED flocked

(* AlreadyLocked, which a fail-fast Lock also makes of any other           *)
(* LockException: the next slot, or the end of the sweep.                  *)
SkipSlot(s) ==
    /\ pc[s] = "sweeping"
    /\ flocked[slot[s]] # Free \/ "flock" \in Faults
    /\ IF slot[s] + 1 \in Slots
          THEN slot' = [slot EXCEPT ![s] = @ + 1] /\ UNCHANGED pc
          ELSE Goto(s, "waiting") /\ UNCHANGED slot
    /\ UNCHANGED flocked

(* Any other exception, such as a missing directory, ends acquire.         *)
SweepRaises(s) ==
    /\ "open" \in Faults
    /\ pc[s] = "sweeping"
    /\ Goto(s, "idle")
    /\ UNCHANGED <<slot, flocked>>

(* Mutation: the deadline is not looked at.                                *)
RefuseNever(s) == FALSE /\ pc[s] = "waiting" /\ UNCHANGED semVars

(* The timeout has passed after a sweep without success.                   *)
Refuse(s) ==
    /\ pc[s] = "waiting"
    /\ Goto(s, "idle")
    /\ UNCHANGED <<slot, flocked>>

(* release: Lock.release unlocks and closes the slot's file, and self.lock *)
(* is forgotten; the close frees the slot when the unlock failed.          *)
ReleaseSlot(s) ==
    /\ pc[s] = "held"
    /\ Goto(s, "closing")
    /\ Unlock(s) \/ ("unlock" \in Faults /\ UNCHANGED flocked)
    /\ UNCHANGED slot

(* Mutation: self.lock is forgotten without closing the file.              *)
ForgetSlot(s) ==
    /\ pc[s] = "closing"
    /\ Goto(s, "idle")
    /\ UNCHANGED <<slot, flocked>>

CloseSlot(s) ==
    /\ pc[s] = "closing"
    /\ Goto(s, "idle")
    /\ Unlock(s)
    /\ UNCHANGED slot

(* The process dies with its files; another takes its place.               *)
Crash(s) ==
    /\ "crash" \in Faults
    /\ pc[s] # "idle"
    /\ Goto(s, "idle")
    /\ Unlock(s)
    /\ UNCHANGED slot

Sweep(s) == TakeSlot(s) \/ SkipSlot(s) \/ SweepRaises(s)

SemNext == \E s \in Instances :
    \/ StartSweep(s) \/ Sweep(s) \/ Refuse(s)
    \/ ReleaseSlot(s) \/ CloseSlot(s)
    \/ Crash(s)

SemSpec == SemInit /\ [][SemNext]_semVars

(* A sweep that was started runs on, and the timeout, which is finite,     *)
(* ends acquire however often a sweep is started again.                    *)
SemFairness == \A s \in Instances : WF_semVars(Sweep(s)) /\ SF_semVars(Refuse(s))

FairSemSpec == SemSpec /\ SemFairness

-----------------------------------------------------------------------------
Holders == {s \in Instances : pc[s] = "held"}

(* At most Maximum processes run at once: the semaphore implements the     *)
(* pool of slots, whatever fails (utils.py:1597-1598, 1771-1816).          *)
Pool == INSTANCE SlotPool WITH Clients <- Instances, holders <- Holders
ImplementsSlotPool == Pool!Spec

(* Each slot is a lock of its own, the exclusive lock file of that name:   *)
(* nobody is handed a slot that another instance holds, and a step grants  *)
(* or drops each slot as a lock would (utils.py:1807-1816).                *)
SlotGrant(n) == [s \in Instances |->
    IF s \in Holders /\ slot[s] = n THEN "exclusive" ELSE "none"]
SlotLock(n) == INSTANCE RWLock WITH Clients <- Instances, grant <- SlotGrant(n)
SlotsAreLocks ==
    /\ \A n \in Slots : SlotLock(n)!Init
    /\ [][\A n \in Slots : [SlotLock(n)!Next]_(SlotGrant(n))]_semVars

(* No slot is lost: a slot's file is locked only by an instance that still *)
(* has that slot in self.lock and will give it back (utils.py:1803-1827).  *)
NoSlotLost == \A n \in Slots :
    flocked[n] # Free =>
        LET s == flocked[n] IN slot[s] = n /\ pc[s] \in {"held", "closing"}

(* acquire returns or raises although all slots may stay taken forever.    *)
SemAcquireEnds == \A s \in Instances :
    pc[s] = "sweeping" ~> pc[s] \in {"held", "idle"}
=============================================================================
