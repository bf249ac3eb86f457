------------------------------ MODULE GateFlag ------------------------------
(***************************************************************************)
(* What a Gate promises the Guard: set_queued() and set_dequeued() are     *)
(* atomic on the queue flag, and set_queued() answers TRUE to exactly one  *)
(* caller until the next set_dequeued().                                   *)
(***************************************************************************)
CONSTANT CPU

VARIABLES queued,  \* the flag
          call     \* call[c]: the pending call of c, or its answer

vars == <<queued, call>>

Init == queued = FALSE /\ call = [c \in CPU |-> "none"]

Invoke(c, op) == /\ call[c] = "none"
                 /\ call' = [call EXCEPT ![c] = op]
                 /\ UNCHANGED queued

SetQueued(c) == /\ call[c] = "set_queued"
                /\ call' = [call EXCEPT ![c] = IF queued THEN "no" ELSE "yes"]
                /\ queued' = TRUE

SetDequeued(c) == /\ call[c] = "set_dequeued"
                  /\ call' = [call EXCEPT ![c] = "done"]
                  /\ queued' = FALSE

Return(c) == /\ call[c] \in {"yes", "no", "done"}
             /\ call' = [call EXCEPT ![c] = "none"]
             /\ UNCHANGED queued

Next == \E c \in CPU : \/ \E op \in {"set_queued", "set_dequeued"} : Invoke(c, op)
                       \/ SetQueued(c) \/ SetDequeued(c) \/ Return(c)

Spec == Init /\ [][Next]_vars
=============================================================================
