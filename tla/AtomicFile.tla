------------------------------ MODULE AtomicFile -----------------------------
(***************************************************************************)
(* open_atomic (utils.py:99-163): several calls for one destination.  Each *)
(* writes a temporary file beside it, brings the contents to the disk and  *)
(* gives the file the destination's name, which must be free both at the   *)
(* start and at the end.  The contents of a file are counted in chunks: a  *)
(* chunk is in the handle's buffer, then in the system's cache, then on    *)
(* the disk, and only there does it survive a loss of power.               *)
(***************************************************************************)
EXTENDS Naturals

CONSTANTS Writers,      \* the calls of open_atomic
          Renaming,     \* the calls that run on Windows, on the same share
          Unremovable,  \* the calls whose temporary file cannot be removed
          Others,       \* files of the same name that others may create
          None,         \* no file has the name
          Chunks,       \* bound: how much a caller writes
          Faults        \* what may fail: "body", "sync", "publish", "crash", "power"

ASSUME NamesAssumption == None \notin Writers \cup Others /\ Writers \cap Others = {}
ASSUME ChunksAssumption == Chunks \in Nat

VARIABLES pc,        \* where each call is
          dest,      \* the file that has the name: a call's, another, or None
          temps,     \* the calls whose temporary file has its own name
          written,   \* what the caller of each has written
          cached,    \* how much of it the system has, and a reader sees
          disk       \* how much of it is on the disk

dataVars == <<written, cached, disk>>
atomicVars == <<pc, dest, temps, dataVars>>

(* "published" and "unpublished": os.link or os.rename has returned or     *)
(* raised; "refused": so the call has raised; "failed": it raised before.  *)
Running == {"checked", "writing", "flushed", "closed", "published", "unpublished"}
PCs == Running \cup {"idle", "done", "refused", "failed", "dead"}

AtomicTypeOK ==
    /\ pc \in [Writers -> PCs]
    /\ dest \in Writers \cup Others \cup {None}
    /\ temps \subseteq Writers
    /\ {written, cached, disk} \subseteq [Writers -> 0..Chunks]
    /\ \A w \in Writers : disk[w] <= cached[w] /\ cached[w] <= written[w]

AtomicInit ==
    /\ pc = [w \in Writers |-> "idle"]
    /\ dest \in Others \cup {None}
    /\ temps = {}
    /\ written = [w \in Writers |-> 0]
    /\ cached = written
    /\ disk = written

Move(w, from, to) == pc[w] = from /\ pc' = [pc EXCEPT ![w] = to]
Raise(w, from, fault) == fault \in Faults /\ Move(w, from, "failed")

(* path.exists(): the explicit check at the start of the call.             *)
Check(w) ==
    /\ Move(w, "idle", IF dest = None THEN "checked" ELSE "failed")
    /\ UNCHANGED <<dest, temps, dataVars>>

(* The parent directory and NamedTemporaryFile(dir=parent, delete=False).  *)
CreateTemp(w) ==
    /\ Move(w, "checked", "writing")
    /\ temps' = temps \cup {w}
    /\ UNCHANGED <<dest, dataVars>>

Write(w) ==
    /\ pc[w] = "writing" /\ written[w] < Chunks
    /\ written' = [written EXCEPT ![w] = @ + 1]
    /\ UNCHANGED <<pc, dest, temps, cached, disk>>

(* A full buffer goes to the system, and the system writes when it likes.  *)
Spill(w) ==
    /\ pc[w] = "writing"
    /\ cached' = [cached EXCEPT ![w] = written[w]]
    /\ UNCHANGED <<pc, dest, temps, written, disk>>

WriteBack(w) ==
    /\ disk[w] < cached[w]
    /\ disk' = [disk EXCEPT ![w] = @ + 1]
    /\ UNCHANGED <<pc, dest, temps, written, cached>>

(* Mutation: newlines are translated on the way, and more arrives.         *)
FlushLonger(w) ==
    /\ Move(w, "writing", "flushed")
    /\ cached' = [cached EXCEPT ![w] = written[w] + 1]
    /\ UNCHANGED <<dest, temps, written, disk>>

(* The body has ended: temp_fh.flush().                                    *)
Flush(w) ==
    /\ Move(w, "writing", "flushed")
    /\ cached' = [cached EXCEPT ![w] = written[w]]
    /\ UNCHANGED <<dest, temps, written, disk>>

(* Mutation: flushed and closed, but not synchronized.                     *)
CloseUnsynced(w) ==
    /\ Move(w, "flushed", "closed")
    /\ UNCHANGED <<dest, temps, dataVars>>

(* os.fsync, and the with statement closes the file.                       *)
SyncAndClose(w) ==
    /\ Move(w, "flushed", "closed")
    /\ disk' = [disk EXCEPT ![w] = cached[w]]
    /\ UNCHANGED <<dest, temps, written, cached>>

(* The body raises, or the flush or fsync does: the file is closed, which  *)
(* flushes it, and its temporary name stays (delete=False).                *)
BodyFails(w) ==
    /\ Raise(w, "writing", "body") \/ Raise(w, "flushed", "sync")
    /\ cached' = [cached EXCEPT ![w] = written[w]]
    /\ UNCHANGED <<dest, temps, written, disk>>

(* Mutation: the name is given over whatever has it.                       *)
PublishReplacing(w) ==
    /\ Move(w, "closed", "published")
    /\ dest' = w
    /\ temps' = IF w \in Renaming THEN temps \ {w} ELSE temps
    /\ UNCHANGED dataVars

(* os.link, or os.rename on Windows: both refuse a destination that exists *)
(* and a rename takes the temporary name away.                             *)
Publish(w) ==
    /\ dest = None
    /\ Move(w, "closed", "published")
    /\ dest' = w
    /\ temps' = IF w \in Renaming THEN temps \ {w} ELSE temps
    /\ UNCHANGED dataVars

(* FileExistsError, or any other OSError.                                  *)
PublishFails(w) ==
    /\ dest # None \/ "publish" \in Faults
    /\ Move(w, "closed", "unpublished")
    /\ UNCHANGED <<dest, temps, dataVars>>

(* Mutation: the temporary name is removed after a success only.           *)
RemovePublished(w) ==
    /\ \/ Move(w, "published", "done") /\ temps' = temps \ ({w} \ Unremovable)
       \/ Move(w, "unpublished", "refused") /\ UNCHANGED temps
    /\ UNCHANGED <<dest, dataVars>>

(* finally: os.remove, whose own exceptions are suppressed.                *)
RemoveTemp(w) ==
    /\ Move(w, "published", "done") \/ Move(w, "unpublished", "refused")
    /\ temps' = temps \ ({w} \ Unremovable)
    /\ UNCHANGED <<dest, dataVars>>

-----------------------------------------------------------------------------
Crash(w) ==
    /\ "crash" \in Faults /\ pc[w] \in Running
    /\ pc' = [pc EXCEPT ![w] = "dead"]
    /\ UNCHANGED <<dest, temps, dataVars>>

(* The machine stops: what was not on the disk may be lost, and so may     *)
(* names, since open_atomic does not synchronize the directory.            *)
PowerLoss ==
    /\ "power" \in Faults /\ \E w \in Writers : pc[w] \in Running
    /\ pc' = [w \in Writers |-> IF pc[w] \in Running THEN "dead" ELSE pc[w]]
    /\ cached' = disk
    /\ dest' \in {dest, None}
    /\ temps' \in SUBSET temps
    /\ UNCHANGED <<written, disk>>

(* Others create the file that has the name, or remove it.                 *)
Interfere ==
    /\ \/ dest = None /\ dest' \in Others
       \/ dest # None /\ dest' = None
    /\ UNCHANGED <<pc, temps, dataVars>>

Prepare(w) == Check(w) \/ CreateTemp(w) \/ Write(w) \/ Spill(w) \/ WriteBack(w) \/ Flush(w)

Step(w) ==
    \/ Prepare(w) \/ SyncAndClose(w) \/ BodyFails(w)
    \/ Publish(w) \/ PublishFails(w) \/ RemoveTemp(w)

AtomicNext == PowerLoss \/ Interfere \/ \E w \in Writers : Step(w) \/ Crash(w)

AtomicSpec == AtomicInit /\ [][AtomicNext]_atomicVars

-----------------------------------------------------------------------------
(* open_atomic never takes a name from a file that has it, and a call that *)
(* raised never had it: the destination may appear at any time between the *)
(* check and the publication (utils.py:106-114, 141-160).                  *)
Outcome(w) ==
    IF pc[w] \in {"published", "done"} THEN "published"
    ELSE IF pc[w] \in {"unpublished", "refused", "failed"} THEN "failed"
    ELSE IF pc[w] = "dead" THEN "dead" ELSE "open"

outcomes == [w \in Writers |-> Outcome(w)]

Abstract == INSTANCE WriteOnce WITH Calls <- Writers, outcome <- outcomes
ImplementsWriteOnce == Abstract!Spec

(* Whoever opens a published file finds all that its caller wrote, even    *)
(* when the machine stopped right after the publication: the contents are  *)
(* synchronized before the name is given (utils.py:152-160).               *)
PublishedWhole == dest \in Writers => cached[dest] = written[dest]

(* "All publication outcomes: best-effort removal of the temporary         *)
(* filename" (the design document of open_atomic, and utils.py:161-163):   *)
(* only a body that raised, a crash or a failing removal leaves the name.  *)
NoTempLeft == \A w \in Writers \ Unremovable : pc[w] \in {"done", "refused"} => w \notin temps

=============================================================================
