------------------------------ MODULE WinLocker ------------------------------
(***************************************************************************)
(* The lockers of Windows (portalocker.py:187-735).  Windows locks ranges  *)
(* of bytes: msvcrt.locking an exclusive one of 64 KiB from the position   *)
(* the handle happens to have, LockFileEx one of nearly 2^64 bytes from    *)
(* the start, shared or exclusive.  MsvcrtLocker and Win32Locker make them *)
(* agree by moving the position to 0 around each call, and MsvcrtLocker    *)
(* unlocks through Win32Locker what it locked through it.  The position is *)
(* the descriptor's: file objects with data read ahead are left out.       *)
(***************************************************************************)
EXTENDS Integers

CONSTANTS Handles,     \* open files, one per process that locks the file
          LOCKER,      \* the class each process has in LOCKER
          Pywin32,     \* the handles of processes with pywin32 installed
          Mode,        \* the type bit of the flags each is locked with
          Blocking,    \* the handles whose flags lack NON_BLOCKING
          Length,      \* _msvcrt_lock_length, in units of the model
          Size,        \* what _lock_bytes_low stands for, in the same units
          Positions,   \* bound: where a caller may leave the position
          Faults       \* what may fail: "lock", "unlock", "crash"

ASSUME LockerAssumption == LOCKER \in [Handles -> {"MsvcrtLocker", "Win32Locker"}]
ASSUME ModeAssumption == Mode \in [Handles -> {"shared", "exclusive"}]
ASSUME LengthAssumption == Length \in Nat \ {0} /\ Size \in Nat /\ Length < Size
ASSUME PositionsAssumption == Positions \subseteq Nat /\ 0 \in Positions

VARIABLES pc,        \* where each handle is in lock or unlock
          where,     \* the position its caller left it at
          pos,       \* the position it has
          saved,     \* original_pos of the call that runs
          region,    \* the bytes Windows has locked for it
          mode       \* how: "none", "shared" or "exclusive"

osVars == <<region, mode>>
posVars == <<where, pos, saved>>
winVars == <<pc, posVars, osVars>>

(* "locking", "unlocking" and "fallback": the position is 0, the system is *)
(* about to be asked; "locked", "refused", "unlocked" and "kept": it has   *)
(* answered, the position is not restored yet; "retrying": LK_UNLCK said   *)
(* EACCES; "failed": unlock has raised.                                    *)
PCs == {"idle", "locking", "locked", "refused", "held",
        "unlocking", "retrying", "fallback", "unlocked", "kept", "failed"}

(* The bytes of msvcrt.locking at position p, and those of LockFileEx.     *)
Bytes(p) == p .. p + Length - 1
Whole == 0 .. Size - 1

WinTypeOK ==
    /\ pc \in [Handles -> PCs]
    /\ where \in [Handles -> Positions]
    /\ pos \in [Handles -> Positions]
    /\ saved \in [Handles -> Positions]
    /\ mode \in [Handles -> {"none", "shared", "exclusive"}]
    /\ region \in [Handles -> {{}, Whole} \cup {Bytes(p) : p \in Positions}]

WinInit ==
    /\ pc = [h \in Handles |-> "idle"]
    /\ where \in [Handles -> Positions]
    /\ pos = where
    /\ saved = [h \in Handles |-> 0]
    /\ region = [h \in Handles |-> {}]
    /\ mode = [h \in Handles |-> "none"]

Goto(h, from, to) == pc[h] = from /\ pc' = [pc EXCEPT ![h] = to]

-----------------------------------------------------------------------------
(* What Windows does (external): ranges that overlap exclude each other    *)
(* unless both are shared, and only the very range that was locked can be  *)
(* unlocked.                                                               *)
CanLock(h, bytes, m) == \A g \in Handles \ {h} :
    region[g] \cap bytes = {} \/ (m = "shared" /\ mode[g] = "shared")

OsLock(h, bytes, m) ==
    /\ CanLock(h, bytes, m)
    /\ region' = [region EXCEPT ![h] = bytes]
    /\ mode' = [mode EXCEPT ![h] = m]

OsUnlock(h) ==
    /\ region' = [region EXCEPT ![h] = {}]
    /\ mode' = [mode EXCEPT ![h] = "none"]

-----------------------------------------------------------------------------
(* _resolve_locker_pair(LOCKER) picks the class; MsvcrtLocker hands shared *)
(* locks to its Win32Locker.  Without pywin32 either raises ImportError    *)
(* before anything has happened.                                           *)
ByWin32(h) == LOCKER[h] = "Win32Locker" \/ Mode[h] = "shared"
Range(h) == IF ByWin32(h) THEN Whole ELSE Bytes(pos[h])

(* Mutation: a descriptor is locked from where it is, as before 4.0.0.     *)
PrepareInPlace(h) == saved' = [saved EXCEPT ![h] = pos[h]] /\ UNCHANGED <<where, pos>>

(* Mutation: the seek is relative to the end of the file.                  *)
PrepareAtEnd(h) ==
    /\ saved' = [saved EXCEPT ![h] = pos[h]]
    /\ pos' = [pos EXCEPT ![h] = Size]
    /\ UNCHANGED where

(* _prepare_windows_file: remember the position and go to 0.               *)
Prepare(h) ==
    /\ saved' = [saved EXCEPT ![h] = pos[h]]
    /\ pos' = [pos EXCEPT ![h] = 0]
    /\ UNCHANGED where

(* _restore_windows_file_pos, which has nothing to do for position 0.      *)
Restore(h) ==
    /\ pos' = [pos EXCEPT ![h] = IF saved[h] = 0 THEN @ ELSE saved[h]]
    /\ UNCHANGED <<where, saved>>

Lock(h) ==
    /\ ByWin32(h) => h \in Pywin32
    /\ Goto(h, "idle", "locking")
    /\ Prepare(h)
    /\ UNCHANGED osVars

(* msvcrt.locking or LockFileEx is granted the range.                      *)
Granted(h) ==
    /\ Goto(h, "locking", "locked")
    /\ OsLock(h, Range(h), Mode[h])
    /\ UNCHANGED posVars

(* Mutation: a lock that nobody releases is waited for.                    *)
RefusedNever(h) == FALSE /\ Goto(h, "locking", "refused") /\ UNCHANGED <<posVars, osVars>>

(* AlreadyLocked: at once with NON_BLOCKING, and LK_LOCK gives up after    *)
(* ten tries, while LockFileEx waits; or any other error.                  *)
Refused(h) ==
    /\ \/ ~CanLock(h, Range(h), Mode[h]) /\ (h \in Blocking => ~ByWin32(h))
       \/ "lock" \in Faults
    /\ Goto(h, "locking", "refused")
    /\ UNCHANGED <<posVars, osVars>>

LockReturns(h) ==
    /\ Goto(h, "locked", "held") \/ Goto(h, "refused", "idle")
    /\ Restore(h)
    /\ UNCHANGED osVars

-----------------------------------------------------------------------------
Unlock(h) ==
    /\ Goto(h, "held", "unlocking")
    /\ Prepare(h)
    /\ UNCHANGED osVars

(* The range that the locker's own unlock call names.                      *)
OwnRange(h) == IF LOCKER[h] = "Win32Locker" THEN Whole ELSE Bytes(pos[h])

Unlocked(h) ==
    /\ Goto(h, "unlocking", "unlocked")
    /\ region[h] = OwnRange(h)
    /\ OsUnlock(h)
    /\ UNCHANGED posVars

(* Mutation: the position is not restored before the file is prepared anew.*)
DeniedUnrestored(h) ==
    /\ Goto(h, "unlocking", "retrying")
    /\ LOCKER[h] = "MsvcrtLocker" /\ region[h] # OwnRange(h)
    /\ UNCHANGED <<posVars, osVars>>

(* Mutation: what LK_UNLCK does not find is taken for unlocked.            *)
DeniedIgnored(h) ==
    /\ Goto(h, "unlocking", "unlocked")
    /\ LOCKER[h] = "MsvcrtLocker" /\ region[h] # OwnRange(h)
    /\ UNCHANGED <<posVars, osVars>>

(* EACCES: the range was not locked by msvcrt but, with pywin32, by        *)
(* Win32Locker, whose unlock is tried next.                                *)
Denied(h) ==
    /\ Goto(h, "unlocking", "retrying")
    /\ LOCKER[h] = "MsvcrtLocker" /\ region[h] # OwnRange(h)
    /\ h \in Pywin32
    /\ Restore(h)
    /\ UNCHANGED osVars

Fallback(h) ==
    /\ Goto(h, "retrying", "fallback")
    /\ Prepare(h)
    /\ UNCHANGED osVars

(* UnlockFileEx, which finds what LockFileEx locked.                       *)
FallbackUnlocks(h) ==
    /\ Goto(h, "fallback", "unlocked")
    /\ region[h] = Whole
    /\ OsUnlock(h)
    /\ UNCHANGED posVars

(* Any other error of msvcrt or Win32 ends as a LockException.             *)
UnlockFails(h) ==
    /\ "unlock" \in Faults
    /\ Goto(h, "unlocking", "kept") \/ Goto(h, "fallback", "kept")
    /\ UNCHANGED <<posVars, osVars>>

UnlockReturns(h) ==
    /\ Goto(h, "unlocked", "idle") \/ Goto(h, "kept", "failed")
    /\ Restore(h)
    /\ UNCHANGED osVars

-----------------------------------------------------------------------------
(* The caller moves between its calls.                                     *)
Seek(h) ==
    /\ pc[h] \in {"idle", "held"}
    /\ \E p \in Positions :
          /\ where' = [where EXCEPT ![h] = p]
          /\ pos' = [pos EXCEPT ![h] = p]
    /\ UNCHANGED <<pc, saved, osVars>>

(* The handle is closed, as Lock.release does when unlock raised, or its   *)
(* process has died: Windows unlocks the rest; the file is opened again.   *)
Close(h) ==
    /\ pc[h] = "failed" \/ ("crash" \in Faults /\ pc[h] # "idle")
    /\ pc' = [pc EXCEPT ![h] = "idle"]
    /\ where' = [where EXCEPT ![h] = 0]
    /\ pos' = [pos EXCEPT ![h] = 0]
    /\ OsUnlock(h)
    /\ UNCHANGED saved

LockStep(h) == Lock(h) \/ Granted(h) \/ Refused(h) \/ LockReturns(h)

UnlockStep(h) ==
    \/ Unlock(h) \/ Unlocked(h) \/ Denied(h) \/ Fallback(h)
    \/ FallbackUnlocks(h) \/ UnlockFails(h) \/ UnlockReturns(h)

WinNext == \E h \in Handles : LockStep(h) \/ UnlockStep(h) \/ Seek(h) \/ Close(h)

WinSpec == WinInit /\ [][WinNext]_winVars

(* A call that was started runs on and is answered: LK_NBLCK and           *)
(* LOCKFILE_FAIL_IMMEDIATELY at once, LK_LOCK after ten tries at most.     *)
WinFairness == \A h \in Handles : WF_winVars(Granted(h) \/ Refused(h) \/ LockReturns(h))

FairWinSpec == WinSpec /\ WinFairness

-----------------------------------------------------------------------------
(* Two processes never hold the file in conflicting modes, wherever their  *)
(* positions are and whichever lockers they use (portalocker.py:192-199,   *)
(* docs/platforms.rst:300-306).                                            *)
WinHeld == [h \in Handles |-> IF pc[h] = "held" THEN Mode[h] ELSE "none"]
Abstract == INSTANCE RWLock WITH Clients <- Handles, grant <- WinHeld
WinImplementsRWLock == Abstract!Spec

(* A handle whose unlock returned has nothing locked any more, whichever   *)
(* of the two interfaces locked it (portalocker.py:586-661).               *)
UnlockFrees == \A h \in Handles :
    pc[h] \in {"idle", "unlocked"} => region[h] = {} /\ mode[h] = "none"

(* lock and unlock leave the position as they found it, on every path out: *)
(* the fallback prepares the file a second time (portalocker.py:627-661).  *)
PositionKept == \A h \in Handles : pc[h] \in {"idle", "held", "failed"} => pos[h] = where[h]

(* A lock call that may not wait forever returns, though the range is      *)
(* never free when it asks: LK_LOCK gives up by itself.                    *)
WinLockEnds == \A h \in Handles :
    h \notin Blocking \/ ~ByWin32(h) => (pc[h] = "locking" ~> pc[h] \in {"held", "idle"})
=============================================================================
