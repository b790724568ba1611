----------------------------- MODULE MCTempLock -----------------------------
(* Model checking TempLock: three lock objects with the default flags.     *)
EXTENDS TempLock, TLC

CONSTANTS a, b, c

MCLocks == {a, b, c}
AllExclusive == [l \in MCLocks |-> "exclusive"]
Nobody == {}
MCFailFast == {a}
AllFaults == {"flock", "prepare", "unlock", "unlink", "stat", "crash", "cleanup"}
=============================================================================
