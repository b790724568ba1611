--------------------------- MODULE MCPidInterrupt ---------------------------
(* Model checking PidLock when an acquire that waits is interrupted: three *)
(* processes, one of which fails fast; nothing else goes wrong.            *)
EXTENDS PidLock

CONSTANTS a, b, c, i1, i2, i3

MCLocks == {a, b, c}
MCInodes == {i1, i2, i3}
AllExclusive == [l \in MCLocks |-> "exclusive"]
Nobody == {}
MCFailFast == {a}
=============================================================================
