----------------------------- MODULE MCPidLock -----------------------------
(* Model checking PidLock and PidBlocks: three processes, one of which     *)
(* fails fast and asks who holds the lock, while two use fail_closed().    *)
EXTENDS PidBlocks, TLC

CONSTANTS a, b, c, i1, i2, i3

MCLocks == {a, b, c}
AllExclusive == [l \in MCLocks |-> "exclusive"]
Nobody == {}
MCFailFast == {a}
HarmlessFaults == {"publish", "stat", "unlink", "crash", "cleanup"}
MCFailClosed == {b, c}

(* b and c are alike, and so are all inodes.                               *)
MCInodes == {i1, i2, i3}
Alike == Permutations({b, c}) \cup Permutations(MCInodes)
=============================================================================
