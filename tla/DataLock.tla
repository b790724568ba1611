------------------------------ MODULE DataLock ------------------------------
(***************************************************************************)
(* portalocker.Lock on a file whose contents matter.  Adds to FileLock     *)
(* what is in the file and what the handle of each lock still buffers:     *)
(* writes go to Python's buffer, a flush or the closing of the handle      *)
(* appends them to the file, a mode with "w" empties the file when the     *)
(* lock has been taken.  The path of a Lock is never unlinked, so the file *)
(* is one file throughout.                                                 *)
(***************************************************************************)
EXTENDS FileLock

CONSTANT Flushing   \* the locks whose callers flush before they release

VARIABLES content,  \* the locks whose writes are in the file
          dirty     \* whether a lock's handle buffers writes

dataVars == <<content, dirty>>
allVars == <<lockVars, dataVars>>

DataTypeOK ==
    /\ TypeOK
    /\ content \subseteq Locks
    /\ dirty \in [Locks -> BOOLEAN]

DataInit == Init /\ content = {} /\ dirty = [l \in Locks |-> FALSE]

Clean(l) == dirty' = [dirty EXCEPT ![l] = FALSE]

(* The handle's buffer reaches the file.                                   *)
WriteOut(l) ==
    /\ content' = IF dirty[l] THEN content \cup {l} ELSE content
    /\ Clean(l)

(* Mutation: the mode is passed to open as it is, and open truncates.      *)
AcquireTruncating(l) ==
    /\ Acquire(l)
    /\ content' = IF l \in Truncating THEN {} ELSE content
    /\ UNCHANGED dirty

(* __init__ rewrites "w" to "a", so opening the file leaves it as it is.   *)
DataAcquire(l) == Acquire(l) /\ UNCHANGED dataVars

(* Mutation: truncated past the end, leaving a hole that nobody wrote.     *)
DataPrepareHole(l) ==
    /\ Prepare(l)
    /\ content' = IF l \in Truncating THEN {None} ELSE content
    /\ UNCHANGED dirty

DataPrepare(l) ==
    /\ Prepare(l)
    /\ content' = IF l \in Truncating THEN {} ELSE content
    /\ UNCHANGED dirty

(* The holder writes; only an exclusive holder's handle is writable.       *)
Write(l) ==
    /\ Held(l)
    /\ Mode[l] = "exclusive"
    /\ dirty' = [dirty EXCEPT ![l] = TRUE]
    /\ UNCHANGED <<lockVars, content>>

(* fh.flush(), or the buffer is full.                                      *)
Flush(l) == Held(l) /\ dirty[l] /\ WriteOut(l) /\ UNCHANGED lockVars

DataRelease(l) ==
    /\ l \in Flushing => ~dirty[l]
    /\ Unlock(l) \/ UnlockFails(l)
    /\ UNCHANGED dataVars

(* fh.close() flushes, after the flock is gone.                            *)
DataClose(l) == Close(l) /\ WriteOut(l)

(* What a dead process buffered is lost.                                   *)
DataCrash(l) == Crash(l) /\ Clean(l) /\ UNCHANGED content

DataNext == \E l \in Locks :
    \/ DataAcquire(l)
    \/ (Attempt(l) \/ Retry(l) \/ Expire(l)) /\ UNCHANGED dataVars
    \/ DataPrepare(l)
    \/ (PrepareRaises(l) \/ Collect(l)) /\ UNCHANGED dataVars
    \/ Write(l) \/ Flush(l)
    \/ DataRelease(l) \/ DataClose(l)
    \/ DataCrash(l)

DataSpec == DataInit /\ [][DataNext]_allVars
FairDataSpec == DataSpec /\ Fairness

-----------------------------------------------------------------------------
(* l's buffer is written.                                                  *)
Writes(l) == dirty[l] /\ ~dirty'[l]

(* While a caller holds the lock the file changes in two ways only: the    *)
(* holder writes, or a lock that was released with writes in its buffer    *)
(* adds them as its handle is closed, which is after the flock is gone     *)
(* (utils.py:726-736).  The late write is the fault of a caller that did   *)
(* not flush, it never removes what the file contains, and nothing else    *)
(* disturbs a holder: in particular not the opening of another lock with a *)
(* mode with "w" (utils.py:506-508, 771-789).                              *)
LateWrite(k) ==
    /\ k \notin Flushing
    /\ pc[k] = "closing"
    /\ Writes(k)
    /\ content' = content \cup {k}

OwnOrLate == \A l \in Locks :
    Held(l) /\ Held(l)' /\ content' # content => Writes(l) \/ \E k \in Locks : LateWrite(k)

Undisturbed == [][OwnOrLate]_allVars

-----------------------------------------------------------------------------
(* Undisturbed supposes that nobody opens a lock with shared flags and a   *)
(* mode with "w", which would truncate under another shared holder.        *)
TruncatingIsExclusive == \A l \in Truncating : Mode[l] = "exclusive"

(* A buffer has writes under an exclusive lock, and afterwards until the   *)
(* handle is closed if the caller has not flushed it.                      *)
DirtyIsHeldOrLate == \A l \in Locks : dirty[l] =>
    /\ Mode[l] = "exclusive"
    /\ Held(l) \/ (pc[l] = "closing" /\ l \notin Flushing)

DataInv == FileInv /\ DataTypeOK /\ DirtyIsHeldOrLate
=============================================================================
