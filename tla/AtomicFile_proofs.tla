-------------------------- MODULE AtomicFile_proofs --------------------------
(***************************************************************************)
(* Proofs about AtomicFile: published files are whole, temporary names go, *)
(* and open_atomic implements WriteOnce.                                   *)
(***************************************************************************)
EXTENDS AtomicFile, TLAPS

(* What PublishedWhole rests on: past the flush the system has everything, *)
(* past the fsync the disk has, and only calls past it have the name.      *)
Synced(w) ==
    /\ pc[w] \in {"idle", "checked"} => written[w] = 0
    /\ pc[w] = "flushed" => cached[w] = written[w]
    /\ pc[w] \in {"closed", "published", "unpublished", "done", "refused"}
          => disk[w] = written[w]
    /\ dest = w => disk[w] = written[w] /\ pc[w] \in {"published", "done", "dead"}

AtomicInv == AtomicTypeOK /\ (\A w \in Writers : Synced(w)) /\ NoTempLeft

LEMMA InitAtomicInv == AtomicInit => AtomicInv
  BY NamesAssumption, ChunksAssumption
  DEF AtomicInit, AtomicInv, AtomicTypeOK, Synced, NoTempLeft, PCs, Running

(* Up to the fsync the contents move, but no name does.                    *)
LEMMA ContentsAtomicInv ==
    ASSUME AtomicInv, NEW w \in Writers,
           Write(w) \/ Spill(w) \/ WriteBack(w) \/ Flush(w) \/ SyncAndClose(w) \/ BodyFails(w)
    PROVE  AtomicInv'
<1> USE DEF AtomicInv, AtomicTypeOK
<1>1. /\ dest' = dest /\ temps' = temps
      /\ \A v \in Writers \ {w} :
            /\ pc'[v] = pc[v] /\ written'[v] = written[v]
            /\ cached'[v] = cached[v] /\ disk'[v] = disk[v]
  BY DEF Write, Spill, WriteBack, Flush, SyncAndClose, BodyFails, Raise, Move, dataVars
<1>2. AtomicTypeOK' /\ Synced(w)' /\ (pc'[w] \notin {"done", "refused"} \/ pc'[w] = pc[w])
  <2>1. CASE Write(w)
    BY <2>1, ChunksAssumption DEF Write, Synced
  <2>2. CASE Spill(w)
    BY <2>2, ChunksAssumption DEF Spill, Synced
  <2>3. CASE WriteBack(w)
    BY <2>3, ChunksAssumption DEF WriteBack, Synced
  <2>4. CASE Flush(w)
    BY <2>4, ChunksAssumption DEF Flush, Move, Synced, PCs, Running, dataVars
  <2>5. CASE SyncAndClose(w)
    BY <2>5, ChunksAssumption DEF SyncAndClose, Move, Synced, PCs, Running
  <2>6. CASE BodyFails(w)
    BY <2>6, ChunksAssumption DEF BodyFails, Raise, Move, Synced, PCs, Running
  <2> QED
    BY <2>1, <2>2, <2>3, <2>4, <2>5, <2>6
<1>3. \A v \in Writers : Synced(v)'
  BY <1>1, <1>2 DEF Synced
<1>4. NoTempLeft'
  BY <1>1, <1>2 DEF NoTempLeft
<1> QED
  BY <1>2, <1>3, <1>4

(* The other steps leave the contents alone and move one call.             *)
LEMMA NamesAtomicInv ==
    ASSUME AtomicInv, NEW w \in Writers,
           \/ Check(w) \/ CreateTemp(w) \/ Publish(w) \/ PublishFails(w)
           \/ RemoveTemp(w) \/ Crash(w)
    PROVE  AtomicInv'
<1> USE NamesAssumption DEF AtomicInv, AtomicTypeOK
<1>1. UNCHANGED dataVars /\ \A v \in Writers \ {w} : pc'[v] = pc[v]
  BY DEF Check, CreateTemp, Publish, PublishFails, RemoveTemp, Crash, Move
<1>2. /\ AtomicTypeOK'
      /\ dest' = dest \/ (dest = None /\ dest' = w)
      /\ Synced(w)'
      /\ \A v \in Writers \ {w} : v \in temps' => v \in temps
      /\ pc'[w] \in {"done", "refused"} /\ w \notin Unremovable => w \notin temps'
  <2>1. CASE Check(w)
    BY <2>1 DEF Check, Move, Synced, PCs, Running, dataVars
  <2>2. CASE CreateTemp(w)
    BY <2>2 DEF CreateTemp, Move, Synced, PCs, Running, dataVars
  <2>3. CASE Publish(w)
    BY <2>3 DEF Publish, Move, Synced, PCs, Running, dataVars
  <2>4. CASE PublishFails(w)
    BY <2>4 DEF PublishFails, Move, Synced, PCs, Running, dataVars
  <2>5. CASE RemoveTemp(w)
    BY <2>5 DEF RemoveTemp, Move, Synced, PCs, Running, dataVars
  <2>6. CASE Crash(w)
    BY <2>6 DEF Crash, Synced, PCs, Running, dataVars
  <2> QED
    BY <2>1, <2>2, <2>3, <2>4, <2>5, <2>6
<1>3. \A v \in Writers : Synced(v)'
  BY <1>1, <1>2 DEF Synced, dataVars
<1>4. NoTempLeft'
  BY <1>1, <1>2 DEF NoTempLeft
<1> QED
  BY <1>2, <1>3, <1>4

(* A loss of power ends the calls that run and undoes what is not on disk. *)
LEMMA PowerLossAtomicInv == ASSUME AtomicInv, PowerLoss PROVE AtomicInv'
<1> USE NamesAssumption DEF AtomicInv, AtomicTypeOK, PowerLoss
<1>1. AtomicTypeOK'
  BY DEF PCs
<1>2. \A v \in Writers : Synced(v)'
  BY DEF Synced, Running
<1>3. NoTempLeft'
  BY DEF NoTempLeft, Running
<1> QED
  BY <1>1, <1>2, <1>3

LEMMA InterfereAtomicInv == ASSUME AtomicInv, Interfere PROVE AtomicInv'
  BY NamesAssumption
  DEF AtomicInv, AtomicTypeOK, Interfere, Synced, NoTempLeft, dataVars

LEMMA StepAtomicInv == AtomicInv /\ [AtomicNext]_atomicVars => AtomicInv'
<1> SUFFICES ASSUME AtomicInv, [AtomicNext]_atomicVars PROVE AtomicInv'
  OBVIOUS
<1>1. CASE UNCHANGED atomicVars
  BY <1>1 DEF atomicVars, dataVars, AtomicInv, AtomicTypeOK, Synced, NoTempLeft
<1>2. ASSUME NEW w \in Writers, Step(w) \/ Crash(w) PROVE AtomicInv'
  BY <1>2, ContentsAtomicInv, NamesAtomicInv DEF Step, Prepare
<1> QED
  BY <1>1, <1>2, PowerLossAtomicInv, InterfereAtomicInv DEF AtomicNext

(* The inductive invariant of open_atomic.                                 *)
THEOREM AtomicInvariant == AtomicSpec => []AtomicInv
  BY InitAtomicInv, StepAtomicInv, PTL DEF AtomicSpec

(* Types, for any number of calls and any amount of data.                  *)
THEOREM AtomicTypes == AtomicSpec => []AtomicTypeOK
<1>1. AtomicInv => AtomicTypeOK
  BY DEF AtomicInv
<1> QED
  BY <1>1, AtomicInvariant, PTL

(* Whoever opens a published file finds all that its caller wrote.         *)
THEOREM AtomicPublishedWhole == AtomicSpec => []PublishedWhole
<1>1. AtomicInv => PublishedWhole
  BY DEF AtomicInv, AtomicTypeOK, Synced, PublishedWhole
<1> QED
  BY <1>1, AtomicInvariant, PTL

(* Whatever became of the publication, the temporary name is gone.         *)
THEOREM AtomicNoTempLeft == AtomicSpec => []NoTempLeft
<1>1. AtomicInv => NoTempLeft
  BY DEF AtomicInv
<1> QED
  BY <1>1, AtomicInvariant, PTL

-----------------------------------------------------------------------------
(* The refinement: what a call has come to, before and after a step.       *)
LEMMA InitAtomicImplements == AtomicInit => Abstract!Init
  BY DEF AtomicInit, Abstract!Init, Outcome, outcomes

(* One call moves from outcome to outcome as WriteOnce lets it.            *)
LEMMA CallImplements ==
    ASSUME AtomicInv, NEW w \in Writers, Step(w) \/ Crash(w)
    PROVE  [Abstract!Next]_<<dest, outcomes>>
<1> USE DEF AtomicInv, AtomicTypeOK
<1>1. \A v \in Writers \ {w} : Outcome(v)' = Outcome(v)
  BY DEF Step, Prepare, Check, CreateTemp, Write, Spill, WriteBack, Flush, SyncAndClose,
         BodyFails, Publish, PublishFails, RemoveTemp, Crash, Raise, Move, Outcome
<1>2. \/ dest' = dest /\ Outcome(w)' = Outcome(w)
      \/ dest' = dest /\ Outcome(w) = "open" /\ Outcome(w)' = "failed"
      \/ dest = None /\ dest' = w /\ Outcome(w) = "open" /\ Outcome(w)' = "published"
      \/ dest' = dest /\ Outcome(w)' = "dead"
  <2>1. CASE Prepare(w) \/ SyncAndClose(w)
    BY <2>1 DEF Prepare, Check, CreateTemp, Write, Spill, WriteBack, Flush, SyncAndClose,
                Move, Outcome, PCs, Running
  <2>2. CASE BodyFails(w) \/ PublishFails(w) \/ RemoveTemp(w)
    BY <2>2 DEF BodyFails, PublishFails, RemoveTemp, Raise, Move, Outcome
  <2>3. CASE Publish(w)
    BY <2>3 DEF Publish, Move, Outcome
  <2>4. CASE Crash(w)
    BY <2>4 DEF Crash, Outcome
  <2> QED
    BY <2>1, <2>2, <2>3, <2>4 DEF Step
<1>3. CASE dest' = dest /\ Outcome(w)' = Outcome(w)
  BY <1>1, <1>3 DEF outcomes
<1>4. CASE dest' = dest /\ Outcome(w) = "open" /\ Outcome(w)' = "failed"
  <2>1. Abstract!Fail(w)
    BY <1>1, <1>4 DEF outcomes, Abstract!Fail, Abstract!Become
  <2> QED
    BY <2>1 DEF Abstract!Next
<1>5. CASE dest = None /\ dest' = w /\ Outcome(w) = "open" /\ Outcome(w)' = "published"
  <2>1. Abstract!Publish(w)
    BY <1>1, <1>5 DEF outcomes, Abstract!Publish, Abstract!Become
  <2> QED
    BY <2>1 DEF Abstract!Next
<1>6. CASE dest' = dest /\ Outcome(w)' = "dead"
  <2>1. outcomes' = [v \in Writers |-> IF v \in {w} THEN "dead" ELSE outcomes[v]]
    BY <1>1, <1>6 DEF outcomes
  <2>2. Abstract!Die
    BY <2>1, <1>6 DEF Abstract!Die
  <2> QED
    BY <2>2 DEF Abstract!Next
<1> QED
  BY <1>2, <1>3, <1>4, <1>5, <1>6

(* The calls that run die at once, or somebody else uses the name.         *)
LEMMA WorldImplements ==
    ASSUME AtomicInv, PowerLoss \/ Interfere
    PROVE  [Abstract!Next]_<<dest, outcomes>>
<1>1. CASE PowerLoss
  <2> DEFINE S == {v \in Writers : pc[v] \in Running}
  <2>1. outcomes' = [v \in Writers |-> IF v \in S THEN "dead" ELSE outcomes[v]]
    BY <1>1 DEF PowerLoss, Outcome, outcomes
  <2>2. Abstract!Die
    BY <2>1, <1>1 DEF Abstract!Die, PowerLoss
  <2> QED
    BY <2>2 DEF Abstract!Next
<1>2. CASE Interfere
  <2>1. outcomes' = outcomes
    BY <1>2 DEF Interfere, Outcome, outcomes
  <2>2. Abstract!Remove \/ \E o \in Others : Abstract!Create(o)
    BY <1>2, <2>1 DEF Interfere, Abstract!Remove, Abstract!Create
  <2> QED
    BY <2>2 DEF Abstract!Next
<1> QED
  BY <1>1, <1>2

(* open_atomic never takes a name over, and a call that raised never had   *)
(* the name.                                                               *)
THEOREM AtomicImplements == AtomicSpec => ImplementsWriteOnce
<1>1. AtomicInv /\ [AtomicNext]_atomicVars
          => [Abstract!Next]_<<dest, outcomes>>
  <2> SUFFICES ASSUME AtomicInv, [AtomicNext]_atomicVars
               PROVE  [Abstract!Next]_<<dest, outcomes>>
    OBVIOUS
  <2>1. CASE UNCHANGED atomicVars
    BY <2>1 DEF atomicVars, Outcome, outcomes
  <2>2. ASSUME NEW v \in Writers, Step(v) \/ Crash(v)
        PROVE  [Abstract!Next]_<<dest, outcomes>>
    BY <2>2, CallImplements
  <2> QED
    BY <2>1, <2>2, WorldImplements DEF AtomicNext
<1> QED
  BY <1>1, InitAtomicImplements, AtomicInvariant, PTL
  DEF AtomicSpec, ImplementsWriteOnce, Abstract!Spec
=============================================================================
