---------------------------- MODULE MCAtomicFile ----------------------------
(* Model checking AtomicFile: two calls on POSIX, the second with a        *)
(* temporary file that cannot be removed, and one on Windows.              *)
EXTENDS AtomicFile

CONSTANTS a, b, c

MCWriters == {a, b, c}
MCRenaming == {c}
MCUnremovable == {b}
AllFaults == {"body", "sync", "publish", "crash", "power"}
=============================================================================
