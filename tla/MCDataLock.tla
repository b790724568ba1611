----------------------------- MODULE MCDataLock -----------------------------
(* Model checking FileLock, DataLock and ReentrantLock: a truncating       *)
(* writer and a reader with RLocks, and a blocking writer with a Lock.     *)
EXTENDS ReentrantLock, TLC

CONSTANTS a, b, c

MCLocks == {a, b, c}
MCMode == (a :> "exclusive") @@ (b :> "exclusive") @@ (c :> "shared")
MCBlocking == {b}
MCTruncating == {a}
MCFailFast == {b}
MCReentrant == {a, c}
MCFlushing == {b}
AllFaults == {"flock", "prepare", "unlock", "crash"}
=============================================================================
