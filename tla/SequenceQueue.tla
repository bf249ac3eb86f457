--------------------------- MODULE SequenceQueue ----------------------------
(***************************************************************************)
(* What a Queue promises: lists whose operations take effect at once and   *)
(* answer with an element or with nothing.  An element is in one list at   *)
(* most.                                                                   *)
(***************************************************************************)
EXTENDS Naturals, Sequences

CONSTANTS Element, Queue, Null

VARIABLES contents,  \* contents[q]: the elements of q, the first one first
          result     \* result[q]: the last answer of an operation on q

vars == <<contents, result>>

Init == /\ contents = [q \in Queue |-> <<>>]
        /\ result = [q \in Queue |-> Null]

Members(q) == {contents[q][i] : i \in 1..Len(contents[q])}
Listed(e) == \E q \in Queue : e \in Members(q)

Change(q, list) == contents' = [contents EXCEPT ![q] = list]
Answer(q, e) == result' = [result EXCEPT ![q] = e]

Enqueue(q, e) == ~Listed(e) /\ Change(q, Append(contents[q], e)) /\ UNCHANGED result

InsertFirst(q, e) == ~Listed(e) /\ Change(q, <<e>> \o contents[q]) /\ UNCHANGED result

InsertAfter(q, old, e) ==
  /\ ~Listed(e)
  /\ \E i \in 1..Len(contents[q]) : /\ contents[q][i] = old
                                    /\ Change(q, SubSeq(contents[q], 1, i) \o <<e>>
                                         \o SubSeq(contents[q], i + 1, Len(contents[q])))
  /\ UNCHANGED result

Dequeue(q) == \/ /\ contents[q] # <<>>
                 /\ Answer(q, Head(contents[q]))
                 /\ Change(q, Tail(contents[q]))
              \/ /\ contents[q] = <<>>
                 /\ Answer(q, Null)
                 /\ UNCHANGED contents

Remove(q, e) == \/ /\ \E i \in 1..Len(contents[q]) :
                        /\ contents[q][i] = e
                        /\ Change(q, SubSeq(contents[q], 1, i - 1)
                                       \o SubSeq(contents[q], i + 1, Len(contents[q])))
                   /\ Answer(q, e)
                \/ /\ e \notin Members(q)
                   /\ Answer(q, Null)
                   /\ UNCHANGED contents

Next == \E q \in Queue :
          \/ Dequeue(q)
          \/ \E e \in Element : \/ Enqueue(q, e) \/ InsertFirst(q, e) \/ Remove(q, e)
                                \/ \E old \in Element : InsertAfter(q, old, e)

Spec == Init /\ [][Next]_vars
=============================================================================
