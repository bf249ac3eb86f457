---------------------------- MODULE LinkedQueue -----------------------------
(***************************************************************************)
(* object/queue.h: lists that are linked through a field of their          *)
(* elements.  tail points to a pointer: to the head of its queue or to the *)
(* next field of an element.  Such a field is named by its owner o, and    *)
(* next[o] is what it holds.                                               *)
(*                                                                         *)
(* Several queues share their elements (queues[cpu] of the guard), and     *)
(* their operations run on different CPUs.  remove() is modelled turn by   *)
(* turn of its loop, the other operations, which have none, as one step.   *)
(***************************************************************************)
EXTENDS Integers, Sequences

CONSTANTS Element, Queue, Null

ASSUME ElementAssumption == /\ Element \intersect Queue = {}
                            /\ Null \notin Element \union Queue

VARIABLES next,     \* next[o]: the head of queue o, or the link of element o
          tail,     \* tail[q]: the owner of the field that tail points to
          item,     \* item[q]: the argument of remove() on q, Null if it is not called
          prev,     \* prev[q], current[q]: the local variables of remove() on q
          current,
          result,   \* result[q]: the last answer of dequeue() or remove() on q
          contents  \* contents[q]: what has been entered in q and not taken out,
                    \* in its order.  A history variable: no action looks at the
                    \* order, and callers know what they have entered.

loop == <<item, prev, current>>
vars == <<next, tail, loop, result, contents>>

Owner == Queue \union Element

Init == /\ next = [o \in Owner |-> Null]
        /\ tail = [q \in Queue |-> q]
        /\ item = [q \in Queue |-> Null]
        /\ prev = [q \in Queue |-> q]
        /\ current = [q \in Queue |-> Null]
        /\ result = [q \in Queue |-> Null]
        /\ contents = [q \in Queue |-> <<>>]

\* Callers enter what is in no queue (a gate that set_queued() allowed to be
\* queued, a thread that is not ready yet), and operations on one queue exclude
\* each other (E1/2, disabled interrupts).
Fresh(e) == \A q \in Queue : \A i \in 1..Len(contents[q]) : contents[q][i] # e
Idle(q) == item[q] = Null

\* node->next = 0; *tail = item; tail = &node->next
Enqueue(q, e) ==
  /\ Idle(q) /\ Fresh(e)
  /\ next' = [next EXCEPT ![e] = Null, ![tail[q]] = e]
  /\ tail' = [tail EXCEPT ![q] = e]
  /\ contents' = [contents EXCEPT ![q] = Append(@, e)]
  /\ UNCHANGED <<loop, result>>

\* The first element leaves, and the tail is the head again if it was the last.
Dequeue(q) ==
  LET out == next[q]
  IN  /\ Idle(q)
      /\ result' = [result EXCEPT ![q] = out]
      /\ IF out = Null
         THEN UNCHANGED <<next, tail, contents>>
         ELSE /\ next' = [next EXCEPT ![q] = next[out], ![out] = Null]
              /\ tail' = [tail EXCEPT ![q] = IF next[out] = Null THEN q ELSE @]
              /\ contents' = [contents EXCEPT ![q] = Tail(@)]
      /\ UNCHANGED loop

\* remove(e) begins: prev = &head, and the iterator is at the first element.
Remove(q, e) == /\ Idle(q)
                /\ item' = [item EXCEPT ![q] = e]
                /\ prev' = [prev EXCEPT ![q] = q]
                /\ current' = [current EXCEPT ![q] = next[q]]
                /\ UNCHANGED <<next, tail, result, contents>>

\* remove() answers, and its local variables are gone.
Return(q, e) == /\ result' = [result EXCEPT ![q] = e]
                /\ item' = [item EXCEPT ![q] = Null]
                /\ prev' = [prev EXCEPT ![q] = q]
                /\ current' = [current EXCEPT ![q] = Null]

\* Mutant: the iterator stays at its element.
MutantAdvance(q) == /\ ~Idle(q) /\ current[q] \notin {Null, item[q]}
                    /\ prev' = [prev EXCEPT ![q] = current[q]]
                    /\ UNCHANGED <<next, tail, item, current, result, contents>>

\* Not the one: prev = &current->next, and on to the next element.
Advance(q) == /\ ~Idle(q) /\ current[q] \notin {Null, item[q]}
              /\ prev' = [prev EXCEPT ![q] = current[q]]
              /\ current' = [current EXCEPT ![q] = next[current[q]]]
              /\ UNCHANGED <<next, tail, item, result, contents>>

\* The list without the element, as the caller of remove() knows it.
Without(s, e) == LET i == CHOOSE j \in 1..Len(s) : s[j] = e
                 IN  SubSeq(s, 1, i - 1) \o SubSeq(s, i + 1, Len(s))

\* Mutant: tail points into the element that has left.
MutantUnlink(q) ==
  /\ ~Idle(q) /\ current[q] = item[q]
  /\ next' = [next EXCEPT ![prev[q]] = next[current[q]]]
  /\ contents' = [contents EXCEPT ![q] = Without(@, current[q])]
  /\ Return(q, current[q])
  /\ UNCHANGED tail

\* Found: its predecessor is linked to its successor.  Its own link stays.
Unlink(q) ==
  /\ ~Idle(q) /\ current[q] = item[q]
  /\ next' = [next EXCEPT ![prev[q]] = next[current[q]]]
  /\ tail' = [tail EXCEPT ![q] = IF @ = current[q] THEN prev[q] ELSE @]
  /\ contents' = [contents EXCEPT ![q] = Without(@, current[q])]
  /\ Return(q, current[q])

\* The iterator is at the end: nothing is removed.
NotFound(q) == /\ ~Idle(q) /\ current[q] = Null
               /\ Return(q, Null)
               /\ UNCHANGED <<next, tail, contents>>

\* Mutant: the tail of an empty queue stays at the head.
MutantInsertFirst(q, e) ==
  /\ Idle(q) /\ Fresh(e)
  /\ next' = [next EXCEPT ![e] = next[q], ![q] = e]
  /\ contents' = [contents EXCEPT ![q] = <<e>> \o @]
  /\ UNCHANGED <<tail, loop, result>>

InsertFirst(q, e) ==
  /\ Idle(q) /\ Fresh(e)
  /\ next' = [next EXCEPT ![e] = next[q], ![q] = e]
  /\ tail' = [tail EXCEPT ![q] = IF @ = q THEN e ELSE @]
  /\ contents' = [contents EXCEPT ![q] = <<e>> \o @]
  /\ UNCHANGED <<loop, result>>

\* *tail is read after old's link is set: it is the new element if old was last.
InsertAfter(q, i, e) ==
  LET old == contents[q][i]
  IN  /\ Idle(q) /\ Fresh(e)
      /\ next' = [next EXCEPT ![e] = next[old], ![old] = e]
      /\ tail' = [tail EXCEPT ![q] = IF next'[@] = e THEN e ELSE @]
      /\ contents' = [contents EXCEPT ![q] = SubSeq(@, 1, i) \o <<e>>
                                               \o SubSeq(@, i + 1, Len(@))]
      /\ UNCHANGED <<loop, result>>

Next == \E q \in Queue :
          \/ Dequeue(q) \/ Advance(q) \/ Unlink(q) \/ NotFound(q)
          \/ \E e \in Element :
               \/ Enqueue(q, e) \/ InsertFirst(q, e) \/ Remove(q, e)
               \/ \E i \in 1..Len(contents[q]) : InsertAfter(q, i, e)

Spec == Init /\ [][Next]_vars

\* A loop that has begun goes on: it has no conditions to wait for.
FairSpec == Spec /\ \A q \in Queue : WF_vars(Advance(q) \/ Unlink(q) \/ NotFound(q))

-----------------------------------------------------------------------------
\* Types of the fields (queue.h 70-71, queuelink.h 29) and local variables.
TypeOK == /\ next \in [Owner -> Element \union {Null}]
          /\ tail \in [Queue -> Owner]
          /\ item \in [Queue -> Element \union {Null}]
          /\ prev \in [Queue -> Owner]
          /\ current \in [Queue -> Element \union {Null}]
          /\ result \in [Queue -> Element \union {Null}]
          /\ contents \in [Queue -> Seq(Element)]

\* The field that holds element i + 1 of a queue: its head, or the link of
\* element i.
Field(q, i) == IF i = 0 THEN q ELSE contents[q][i]

\* The links lead from the head through the elements in their order to a null
\* pointer, which is the field that tail points to (queue.h 45-53).
LinksInOrder ==
  \A q \in Queue : /\ \A i \in 1..Len(contents[q]) : next[Field(q, i - 1)] = contents[q][i]
                   /\ next[Field(q, Len(contents[q]))] = Null
                   /\ tail[q] = Field(q, Len(contents[q]))

\* No element is entered twice, in one queue or in two that share its link.
NoSharing ==
  \A q, r \in Queue : \A i \in 1..Len(contents[q]), j \in 1..Len(contents[r]) :
    contents[q][i] = contents[r][j] => q = r /\ i = j

\* While remove() looks for its item, prev is the field that led to current, and
\* the elements before are not the one (queue.h 179-193).
LoopInList ==
  \A q \in Queue : ~Idle(q) =>
    \E k \in 0..Len(contents[q]) : /\ prev[q] = Field(q, k)
                                   /\ current[q] = next[prev[q]]
                                   /\ \A i \in 1..k : contents[q][i] # item[q]

\* The pointers represent the lists at all times, in the middle of a removal and
\* whatever stale links removed elements have (queue.h 60-239).
Represents == LinksInOrder /\ NoSharing /\ LoopInList

\* dequeue() takes the first element, remove() its argument from where it is, and
\* they answer 0 exactly if there is none: the lists that the guard and the
\* scheduler are modelled with (queue.h 93-222).
List == INSTANCE SequenceQueue
ImplementsSequenceQueue == List!Spec

\* The loop of remove() ends: it never meets a circle of stale links (queue.h
\* 176-196).
RemoveEnds == \A q \in Queue : ~Idle(q) ~> Idle(q)
=============================================================================
