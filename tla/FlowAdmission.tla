--------------------------- MODULE FlowAdmission ---------------------------
(***************************************************************************)
(* What one worker of the privacy proxy promises the clients redirected to *)
(* it, without slots, event batches or pipes: a connection is served, ends *)
(* once and for ever, and is turned away for lack of room only while the   *)
(* worker really serves Capacity others.                                   *)
(***************************************************************************)
EXTENDS FiniteSets, Naturals

CONSTANTS Conns,     \* client connections
          Capacity   \* flows one worker may serve at a time

VARIABLE status

Status == {"new", "queued", "served", "refused", "ended"}

Served == {c \in Conns : status[c] = "served"}

Init == status = [c \in Conns |-> "new"]

Arrive(c) ==
    /\ status[c] = "new"
    /\ status' = [status EXCEPT ![c] = "queued"]

Admit(c) ==
    /\ status[c] = "queued"
    /\ Cardinality(Served) < Capacity
    /\ status' = [status EXCEPT ![c] = "served"]

\* A prelude or a rule can end a connection inside the very step that takes it,
\* and one that was never redirected is dropped without being served.
End(c) ==
    /\ status[c] \in {"queued", "served"}
    /\ status' = [status EXCEPT ![c] = "ended"]

Refuse(c) ==
    /\ status[c] = "queued"
    /\ Cardinality(Served) = Capacity
    /\ status' = [status EXCEPT ![c] = "refused"]

Next == \E c \in Conns : Arrive(c) \/ Admit(c) \/ End(c) \/ Refuse(c)

Spec == Init /\ [][Next]_status
=============================================================================
