---------------------------- MODULE ReentrantLock ---------------------------
(***************************************************************************)
(* portalocker.RLock (utils.py:792-908): a Lock that counts how often its  *)
(* object was acquired, takes the file on the first acquire and gives it   *)
(* back on the release that matches it.  Locks of both kinds share the     *)
(* file; what a Lock does is in DataLock.                                  *)
(***************************************************************************)
EXTENDS DataLock, Integers

CONSTANTS Reentrant,   \* the locks that are RLocks
          MaxDepth     \* bound: how deep a caller nests its acquires

ASSUME ReentrantAssumption == Reentrant \subseteq Locks
ASSUME DepthAssumption == MaxDepth \in Nat \ {0}

VARIABLE count         \* _acquire_count; a plain Lock has none, and 0 here

countedVars == <<allVars, count>>

CountedTypeOK == DataTypeOK /\ count \in [Locks -> 0..MaxDepth]

CountedInit == DataInit /\ count = [l \in Locks |-> 0]

Add(l, n) == count' = [count EXCEPT ![l] = IF l \in Reentrant THEN @ + n ELSE @]

(* Only the first acquire of an RLock reaches Lock.acquire.                *)
FirstAcquire(l) == count[l] = 0 /\ DataAcquire(l) /\ UNCHANGED count

(* Mutation: counted before Lock.acquire has been asked.                   *)
BackoffCounted(l) ==
    /\ (Attempt(l) \/ Retry(l) \/ Expire(l)) /\ UNCHANGED dataVars
    /\ IF pc'[l] = "waiting" THEN Add(l, 1) ELSE UNCHANGED count

(* Lock.acquire goes on; when it raises nothing has been counted.          *)
AcquireGoesOn(l) ==
    /\ Attempt(l) \/ Retry(l) \/ Expire(l) \/ PrepareRaises(l) \/ Collect(l)
    /\ UNCHANGED <<dataVars, count>>

(* Lock.acquire has returned the handle.                                   *)
FirstAcquired(l) == DataPrepare(l) /\ Add(l, 1)

(* A later acquire gets the same handle.                                   *)
AcquireAgain(l) ==
    /\ count[l] \in 1 .. MaxDepth - 1
    /\ Held(l)
    /\ Add(l, 1)
    /\ UNCHANGED allVars

(* Mutation: an inner release unlocks.                                     *)
ReleaseInnerUnlocking(l) ==
    /\ count[l] > 1
    /\ DataRelease(l)
    /\ Add(l, -1)

ReleaseInner(l) ==
    /\ count[l] > 1
    /\ Held(l)
    /\ Add(l, -1)
    /\ UNCHANGED allVars

(* The release that matches the first acquire; with a count of 0 an RLock  *)
(* raises LockException, and a Lock that is not held does nothing.         *)
ReleaseLast(l) ==
    /\ count[l] = IF l \in Reentrant THEN 1 ELSE 0
    /\ DataRelease(l)
    /\ UNCHANGED count

(* Lock.release has returned; it raises nothing of the failures of unlock  *)
(* and close, as an RLock is built without raise_on_release_error.         *)
ReleaseReturns(l) == DataClose(l) /\ Add(l, -1)

CountedCrash(l) == DataCrash(l) /\ count' = [count EXCEPT ![l] = 0]

CountedNext == \E l \in Locks :
    \/ FirstAcquire(l) \/ AcquireGoesOn(l) \/ FirstAcquired(l) \/ AcquireAgain(l)
    \/ (Write(l) \/ Flush(l)) /\ UNCHANGED count
    \/ ReleaseInner(l) \/ ReleaseLast(l) \/ ReleaseReturns(l)
    \/ CountedCrash(l)

CountedSpec == CountedInit /\ [][CountedNext]_countedVars
FairCountedSpec == CountedSpec /\ Fairness

-----------------------------------------------------------------------------
(* The count and the underlying lock agree: as long as one acquire of an   *)
(* RLock is not matched by a release its file is flocked in its mode, and  *)
(* an acquire that raised has not been counted (utils.py:881-908).         *)
CountAgrees == \A l \in Reentrant :
    /\ count[l] > 0 <=> pc[l] \in {"held", "closing"}
    /\ Held(l) => granted[l] = Mode[l]

(* "The file is only unlocked and closed once the acquire count returns to *)
(* zero" (docs/lock-types.rst:84-85), unless the process dies.             *)
KeptWhileNested ==
    [][\A l \in Reentrant :
          count[l] > 1 /\ count'[l] > 0 =>
              pc'[l] = "held" /\ fd'[l] = fd[l] /\ granted'[l] = granted[l]]_countedVars
=============================================================================
