------------------------------- MODULE RWLock -------------------------------
(***************************************************************************)
(* What every lock of portalocker promises, whatever it is built on: each  *)
(* client is granted the lock shared, exclusively or not at all, and a     *)
(* grant never conflicts with another client's.  The detailed modules      *)
(* (FileLock, TempLock, PidLock, RedisLock, WinLocker, and Semaphore slot  *)
(* by slot) are shown to implement it.                                     *)
(***************************************************************************)
CONSTANT Clients

VARIABLE grant       \* the mode each client believes it holds

Modes == {"none", "shared", "exclusive"}

(* Two grants conflict when both are real and one of them is exclusive.    *)
Conflict(m, n) == m # "none" /\ n # "none" /\ "exclusive" \in {m, n}

Init == grant = [c \in Clients |-> "none"]

Grant(c, m) ==
    /\ grant[c] = "none"
    /\ \A d \in Clients \ {c} : ~Conflict(m, grant[d])
    /\ grant' = [grant EXCEPT ![c] = m]

Drop(c) ==
    /\ grant[c] # "none"
    /\ grant' = [grant EXCEPT ![c] = "none"]

(* Several grants are taken away at once, as Redis does with clients whose *)
(* connections it kills.                                                   *)
Revoke(S) == grant' = [c \in Clients |-> IF c \in S THEN "none" ELSE grant[c]]

Next ==
    \/ \E S \in SUBSET Clients : Revoke(S)
    \/ \E c \in Clients : Drop(c) \/ \E m \in {"shared", "exclusive"} : Grant(c, m)

Spec == Init /\ [][Next]_grant

(* The abstract lock is typed: nobody is granted a mode that is not one.   *)
TypeOK == grant \in [Clients -> Modes]

(* An exclusive grant is the only grant.                                   *)
Exclusion == \A c, d \in Clients : c # d => ~Conflict(grant[c], grant[d])
=============================================================================
