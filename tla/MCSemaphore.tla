----------------------------- MODULE MCSemaphore ----------------------------
(* Model checking Semaphore: four instances and two slots.                 *)
EXTENDS Semaphore

CONSTANTS a, b, c, d

MCInstances == {a, b, c, d}
AllFaults == {"flock", "open", "unlock", "crash"}
=============================================================================
