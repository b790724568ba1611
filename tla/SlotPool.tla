------------------------------ MODULE SlotPool ------------------------------
(***************************************************************************)
(* What BoundedSemaphore promises: at most Maximum holders at a time.      *)
(***************************************************************************)
EXTENDS Naturals, FiniteSets

CONSTANTS Clients, Maximum

VARIABLE holders     \* the clients that believe they hold a slot

Init == holders = {}

Take(c) ==
    /\ c \notin holders
    /\ Cardinality(holders) < Maximum
    /\ holders' = holders \cup {c}

Put(c) == c \in holders /\ holders' = holders \ {c}

Next == \E c \in Clients : Take(c) \/ Put(c)

Spec == Init /\ [][Next]_holders
=============================================================================
