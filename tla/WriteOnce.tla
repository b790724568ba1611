------------------------------ MODULE WriteOnce ------------------------------
(***************************************************************************)
(* What open_atomic promises: a name that is free is given to one call's   *)
(* file, a name that is taken is never given to another, and a call that   *)
(* fails has never had it.                                                 *)
(***************************************************************************)
CONSTANTS Calls, Others, None

VARIABLES dest,      \* whose file the name leads to, or None
          outcome    \* what each call has come to

Outcomes == {"open", "published", "failed", "dead"}

Init == dest \in Others \cup {None} /\ outcome = [c \in Calls |-> "open"]

Become(c, o) == outcome' = [outcome EXCEPT ![c] = o]

Publish(c) == outcome[c] = "open" /\ dest = None /\ dest' = c /\ Become(c, "published")

Fail(c) == outcome[c] = "open" /\ UNCHANGED dest /\ Become(c, "failed")

(* The callers' process dies, or all of them do; a name may go with them.  *)
Die == \E S \in SUBSET Calls :
    /\ dest' \in {dest, None}
    /\ outcome' = [c \in Calls |-> IF c \in S THEN "dead" ELSE outcome[c]]

(* Somebody else uses the name.                                            *)
Create(o) == dest = None /\ dest' = o /\ UNCHANGED outcome
Remove == dest' = None /\ UNCHANGED outcome

Next ==
    \/ \E c \in Calls : Publish(c) \/ Fail(c)
    \/ \E o \in Others : Create(o)
    \/ Die \/ Remove

Spec == Init /\ [][Next]_<<dest, outcome>>
=============================================================================
