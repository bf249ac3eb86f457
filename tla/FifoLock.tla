------------------------------ MODULE FifoLock ------------------------------
(***************************************************************************)
(* What a lock promises its clients: every client is served, in the order  *)
(* in which the requests were made, and one client at a time.  This is the *)
(* contract that Guard relies on and that TicketLock implements.           *)
(***************************************************************************)
EXTENDS Naturals, Sequences

CONSTANT Client

VARIABLES queue,  \* the clients that requested and did not release, in order
          mode    \* mode[c]: what client c is doing

vars == <<queue, mode>>

Init == /\ queue = << >>
        /\ mode = [c \in Client |-> "idle"]

Request(c) == /\ mode[c] = "idle"
              /\ mode' = [mode EXCEPT ![c] = "waiting"]
              /\ queue' = Append(queue, c)

Grant(c) == /\ mode[c] = "waiting"
            /\ Head(queue) = c
            /\ mode' = [mode EXCEPT ![c] = "holding"]
            /\ UNCHANGED queue

Release(c) == /\ mode[c] = "holding"
              /\ mode' = [mode EXCEPT ![c] = "idle"]
              /\ queue' = Tail(queue)

Next == \E c \in Client : Request(c) \/ Grant(c) \/ Release(c)

Spec == Init /\ [][Next]_vars
=============================================================================
