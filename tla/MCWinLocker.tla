----------------------------- MODULE MCWinLocker ----------------------------
(* Model checking WinLocker in units of 32 KiB: two writers that lock with *)
(* msvcrt, the first without pywin32 and waiting in LK_LOCK, a reader that *)
(* waits in LockFileEx, and a reader that comes to it through msvcrt.      *)
EXTENDS WinLocker

CONSTANTS a, b, c, d

MCHandles == {a, b, c, d}
MCLOCKER == [h \in MCHandles |-> IF h = c THEN "Win32Locker" ELSE "MsvcrtLocker"]
MCMode == [h \in MCHandles |-> IF h \in {a, b} THEN "exclusive" ELSE "shared"]
MCBlocking == {a, c}
MCPywin32 == {b, c, d}
MCPositions == {0, 3}
AllFaults == {"lock", "unlock", "crash"}
=============================================================================
