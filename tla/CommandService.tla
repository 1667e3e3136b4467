--------------------------- MODULE CommandService ---------------------------
(***************************************************************************)
(* What a block device promises its host: every request that was issued is *)
(* executed once, is answered only after it was executed, and is answered  *)
(* exactly once, in any order.                                             *)
(***************************************************************************)
EXTENDS Naturals

CONSTANT Requests
VARIABLE status      \* "idle", "issued", "executed" or "answered"

Init == status = [r \in Requests |-> "idle"]

Move(R, from, to) ==
    /\ R # {}
    /\ \A r \in R : status[r] = from
    /\ status' = [r \in Requests |-> IF r \in R THEN to ELSE status[r]]

Issue(r) == Move({r}, "idle", "issued")
Execute(r) == Move({r}, "issued", "executed")

\* One interrupt may announce several answers.
Answer(R) == Move(R, "executed", "answered")

Next == \/ \E r \in Requests : Issue(r) \/ Execute(r)
        \/ \E R \in SUBSET Requests : Answer(R)

\* Every request of the host is eventually answered.
Answered == <>(\A r \in Requests : status[r] = "answered")

Spec == Init /\ [][Next]_status /\ Answered
=============================================================================
