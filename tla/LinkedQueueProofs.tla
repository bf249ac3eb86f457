------------------------- MODULE LinkedQueueProofs --------------------------
(***************************************************************************)
(* The pointers of object/queue.h represent sequences, for any queues and  *)
(* any elements, during a removal too.                                     *)
(***************************************************************************)
EXTENDS LinkedQueue, SequenceTheorems, TLAPS

IInv == TypeOK /\ Represents

(***************************************************************************)
(* The queue q and what is not in another queue may change.                *)
(***************************************************************************)
OthersKept(q) ==
  \A r \in Queue \ {q} :
    /\ contents'[r] = contents[r] /\ tail'[r] = tail[r] /\ next'[r] = next[r]
    /\ item'[r] = item[r] /\ prev'[r] = prev[r] /\ current'[r] = current[r]
    /\ \A i \in 1..Len(contents[r]) : next'[contents[r][i]] = next[contents[r][i]]

\* The elements of a list are different, and in no other list.
Unshared(q, list) ==
  /\ \A i, j \in 1..Len(list) : list[i] = list[j] => i = j
  /\ \A i \in 1..Len(list) : \A r \in Queue \ {q} :
       \A j \in 1..Len(contents[r]) : list[i] # contents[r][j]

\* The pointers of a queue after a step represent a list.
Linked(q, list) ==
  /\ \A i \in 1..Len(list) :
       next'[IF i - 1 = 0 THEN q ELSE list[i - 1]] = list[i]
  /\ next'[IF Len(list) = 0 THEN q ELSE list[Len(list)]] = Null
  /\ tail'[q] = IF Len(list) = 0 THEN q ELSE list[Len(list)]

\* An operation that leaves one queue linked and the others alone preserves the
\* invariant: its elements are in no other queue, whose links stay.
LEMMA ListChanged ==
  ASSUME IInv, TypeOK', NEW q \in Queue,
         OthersKept(q), Unshared(q, contents'[q]), Linked(q, contents'[q]), Idle(q)'
  PROVE  IInv'
<1> USE DEF IInv, Represents
<1>1. LinksInOrder'
  <2> SUFFICES ASSUME NEW r \in Queue
               PROVE  /\ \A i \in 1..Len(contents'[r]) :
                           next'[IF i - 1 = 0 THEN r ELSE contents'[r][i - 1]] = contents'[r][i]
                      /\ next'[IF Len(contents'[r]) = 0 THEN r ELSE contents'[r][Len(contents'[r])]] = Null
                      /\ tail'[r] = IF Len(contents'[r]) = 0 THEN r ELSE contents'[r][Len(contents'[r])]
    BY DEF LinksInOrder, Field
  <2>1. CASE r = q
    BY <2>1 DEF Linked
  <2>2. CASE r # q
    <3>1. Len(contents[r]) \in Nat
      BY DEF TypeOK
    <3> QED BY <2>2, <3>1 DEF OthersKept, LinksInOrder, Field
  <2> QED BY <2>1, <2>2
<1>2. NoSharing'
  BY DEF NoSharing, OthersKept, Unshared
<1>3. LoopInList'
  <2> SUFFICES ASSUME NEW r \in Queue, ~Idle(r)'
               PROVE  \E k \in 0..Len(contents'[r]) :
                        /\ prev'[r] = IF k = 0 THEN r ELSE contents'[r][k]
                        /\ current'[r] = next'[prev'[r]]
                        /\ \A i \in 1..k : contents'[r][i] # item'[r]
    BY DEF LoopInList, Field
  <2>1. r # q /\ ~Idle(r)
    BY DEF OthersKept, Idle
  <2>2. PICK k \in 0..Len(contents[r]) :
          /\ prev[r] = IF k = 0 THEN r ELSE contents[r][k]
          /\ current[r] = next[prev[r]]
          /\ \A i \in 1..k : contents[r][i] # item[r]
    BY <2>1 DEF LoopInList, Field
  <2>3. Len(contents[r]) \in Nat
    BY DEF TypeOK
  <2>4. next'[prev[r]] = next[prev[r]]
    BY <2>1, <2>2, <2>3 DEF OthersKept
  <2> QED BY <2>1, <2>2, <2>4 DEF OthersKept
<1> QED BY <1>1, <1>2, <1>3

LEMMA InitInvariant == Init => IInv
<1> SUFFICES ASSUME Init PROVE IInv
  OBVIOUS
<1>1. \A q \in Queue : contents[q] = <<>> /\ Len(contents[q]) = 0
  BY DEF Init
<1>2. TypeOK
  BY DEF Init, TypeOK, Owner
<1>3. Represents
  BY <1>1 DEF Init, Owner, Represents, LinksInOrder, NoSharing, LoopInList, Field, Idle
<1> QED BY <1>2, <1>3 DEF IInv

\* What a queue has when it is linked: an element that is not in it is none of
\* its fields, and the last field is the only one that is null.
LEMMA ListFacts ==
  ASSUME IInv, NEW q \in Queue
  PROVE  /\ Len(contents[q]) \in Nat
         /\ \A i \in 1..Len(contents[q]) : contents[q][i] \in Element
         /\ Unshared(q, contents[q])
         /\ \A r \in Queue : r \notin Element
         /\ Null \notin Element
         /\ next[q] = Null <=> Len(contents[q]) = 0
         /\ \A i \in 1..Len(contents[q]) :
              next[contents[q][i]] = IF i = Len(contents[q]) THEN Null ELSE contents[q][i + 1]
<1> USE DEF IInv, Represents, TypeOK
<1>1. /\ contents[q] \in Seq(Element) /\ Len(contents[q]) \in Nat
      /\ \A i \in 1..Len(contents[q]) : contents[q][i] \in Element
  OBVIOUS
<1>2. Unshared(q, contents[q])
  BY DEF NoSharing, Unshared
<1>3. Null \notin Element /\ \A r \in Queue : r \notin Element
  BY ElementAssumption
<1>4. next[q] = Null <=> Len(contents[q]) = 0
  <2>1. CASE Len(contents[q]) = 0
    BY <2>1 DEF LinksInOrder, Field
  <2>2. CASE Len(contents[q]) # 0
    <3>1. 1 \in 1..Len(contents[q]) /\ 1 - 1 = 0
      BY <1>1, <2>2
    <3>2. next[q] = contents[q][1]
      BY <3>1 DEF LinksInOrder, Field
    <3> QED BY <1>1, <1>3, <2>2, <3>1, <3>2
  <2> QED BY <2>1, <2>2
<1>5. ASSUME NEW i \in 1..Len(contents[q])
      PROVE  next[contents[q][i]] = IF i = Len(contents[q]) THEN Null ELSE contents[q][i + 1]
  <2>1. CASE i = Len(contents[q])
    <3>1. Len(contents[q]) # 0
      BY <1>1, <2>1
    <3>2. next[contents[q][Len(contents[q])]] = Null
      BY <3>1 DEF LinksInOrder, Field
    <3> QED BY <2>1, <3>2
  <2>2. CASE i # Len(contents[q])
    <3>1. i + 1 \in 1..Len(contents[q]) /\ i + 1 - 1 = i /\ i # 0
      BY <1>1, <2>2
    <3> QED BY <2>2, <3>1 DEF LinksInOrder, Field
  <2> QED BY <2>1, <2>2
<1> QED BY <1>1, <1>2, <1>3, <1>4, <1>5

LEMMA EnqueueInvariant ==
  ASSUME IInv, NEW q \in Queue, NEW e \in Element, Enqueue(q, e)
  PROVE  IInv'
<1> DEFINE s == contents[q]
<1> USE DEF Enqueue, loop
<1>1. /\ s \in Seq(Element) /\ Len(s) \in Nat /\ Unshared(q, s)
      /\ Null \notin Element /\ \A r \in Queue : r \notin Element
      /\ \A i \in 1..Len(s) : s[i] \in Element /\ s[i] # e
  BY ListFacts DEF IInv, TypeOK, Fresh
<1>2. tail[q] = (IF Len(s) = 0 THEN q ELSE s[Len(s)]) /\ tail[q] # e
  BY <1>1 DEF IInv, Represents, LinksInOrder, Field
<1>3. /\ contents'[q] \in Seq(Element) /\ Len(contents'[q]) = Len(s) + 1
      /\ \A i \in 1..Len(s) : contents'[q][i] = s[i]
      /\ contents'[q][Len(s) + 1] = e
  BY <1>1, AppendProperties DEF IInv, TypeOK
<1>4. \A o \in Owner : next'[o] = IF o = tail[q] THEN e ELSE IF o = e THEN Null ELSE next[o]
  BY <1>2 DEF IInv, TypeOK, Owner
<1>5. TypeOK'
  BY <1>3 DEF IInv, TypeOK, Owner
<1>6. OthersKept(q)
  <2> SUFFICES ASSUME NEW r \in Queue \ {q}
               PROVE  /\ contents'[r] = contents[r] /\ tail'[r] = tail[r] /\ next'[r] = next[r]
                      /\ item'[r] = item[r] /\ prev'[r] = prev[r] /\ current'[r] = current[r]
                      /\ \A i \in 1..Len(contents[r]) : next'[contents[r][i]] = next[contents[r][i]]
    BY DEF OthersKept
  <2>0. /\ contents'[r] = contents[r] /\ tail'[r] = tail[r]
        /\ item'[r] = item[r] /\ prev'[r] = prev[r] /\ current'[r] = current[r]
    BY DEF IInv, TypeOK
  <2>1. r # tail[q] /\ r # e /\ r \in Owner
    BY <1>1, <1>2 DEF Owner
  <2>2. ASSUME NEW i \in 1..Len(contents[r])
        PROVE  /\ contents[r][i] \in Owner
               /\ contents[r][i] # e /\ contents[r][i] # tail[q]
    <3>1. contents[r][i] \in Element /\ contents[r][i] # e
      BY ListFacts DEF Fresh
    <3> QED BY <3>1, <1>1, <1>2 DEF Unshared, Owner
  <2> QED BY <1>4, <2>0, <2>1, <2>2
<1>7. Unshared(q, contents'[q])
  <2>1. ASSUME NEW i \in 1..Len(contents'[q])
        PROVE  i \in 1..Len(s) \/ i = Len(s) + 1
    BY <1>1, <1>3
  <2>2. \A i, j \in 1..Len(contents'[q]) : contents'[q][i] = contents'[q][j] => i = j
    BY <1>1, <1>3, <2>1 DEF Unshared
  <2>3. \A i \in 1..Len(contents'[q]) : \A r \in Queue \ {q} :
          \A j \in 1..Len(contents[r]) : contents'[q][i] # contents[r][j]
    BY <1>1, <1>3, <2>1 DEF Unshared, Fresh
  <2> QED BY <2>2, <2>3 DEF Unshared
<1>8. Linked(q, contents'[q])
  <2> DEFINE t == contents'[q]
  <2>1. ASSUME NEW i \in 1..Len(t)
        PROVE  next'[IF i - 1 = 0 THEN q ELSE t[i - 1]] = t[i]
    <3>1. CASE i = Len(s) + 1
      <4>1. tail[q] = IF i - 1 = 0 THEN q ELSE t[i - 1]
        BY <1>1, <1>2, <1>3, <3>1
      <4> QED BY <1>3, <1>4, <3>1, <4>1 DEF IInv, TypeOK
    <3>2. CASE i \in 1..Len(s)
      <4>1. next[IF i - 1 = 0 THEN q ELSE s[i - 1]] = s[i]
        BY <3>2 DEF IInv, Represents, LinksInOrder, Field
      <4> DEFINE o == IF i - 1 = 0 THEN q ELSE s[i - 1]
      <4>2. o \in Owner /\ o # e
        BY <1>1, <3>2 DEF Owner
      <4>3. o # tail[q]
        <5>1. Len(s) # 0 /\ tail[q] = s[Len(s)] /\ Len(s) \in 1..Len(s)
          BY <1>1, <1>2, <3>2
        <5>2. i - 1 # 0 => i - 1 \in 1..Len(s) /\ i - 1 # Len(s)
          BY <1>1, <3>2
        <5> QED BY <1>1, <5>1, <5>2 DEF Unshared
      <4>4. o = IF i - 1 = 0 THEN q ELSE t[i - 1]
        BY <1>1, <1>3, <3>2
      <4>5. next'[o] = s[i]
        BY <1>4, <4>1, <4>2, <4>3
      <4> QED BY <1>3, <3>2, <4>4, <4>5
    <3> QED BY <1>1, <1>3, <3>1, <3>2
  <2>2. t[Len(t)] = e /\ Len(t) # 0
    BY <1>1, <1>3
  <2>3. next'[e] = Null /\ tail'[q] = e
    BY <1>2, <1>4 DEF Owner, IInv, TypeOK
  <2> HIDE DEF t
  <2> QED BY <2>1, <2>2, <2>3 DEF Linked, t
<1>9. Idle(q)'
  BY DEF Idle
<1> QED BY <1>5, <1>6, <1>7, <1>8, <1>9, ListChanged

\* A step that writes only fields of q and of elements that are not in another
\* queue keeps the others.
LEMMA OwnFieldsOnly ==
  ASSUME IInv, NEW q \in Queue,
         \A r \in Queue \ {q} :
           /\ contents'[r] = contents[r] /\ tail'[r] = tail[r]
           /\ item'[r] = item[r] /\ prev'[r] = prev[r] /\ current'[r] = current[r],
         \A o \in Owner : next'[o] # next[o] =>
           \/ o = q
           \/ o \in Element /\ \A r \in Queue \ {q} : \A i \in 1..Len(contents[r]) : contents[r][i] # o
  PROVE  OthersKept(q)
<1> SUFFICES ASSUME NEW r \in Queue \ {q}
             PROVE  /\ next'[r] = next[r]
                    /\ \A i \in 1..Len(contents[r]) : next'[contents[r][i]] = next[contents[r][i]]
  BY DEF OthersKept
<1>1. r \in Owner /\ r \notin Element
  BY ListFacts DEF Owner
<1>2. \A i \in 1..Len(contents[r]) : contents[r][i] \in Element /\ contents[r][i] # q
  BY ListFacts
<1> QED BY <1>1, <1>2 DEF Owner

LEMMA InsertFirstInvariant ==
  ASSUME IInv, NEW q \in Queue, NEW e \in Element, InsertFirst(q, e)
  PROVE  IInv'
<1> DEFINE s == contents[q]
<1> DEFINE t == contents'[q]
<1>1. /\ s \in Seq(Element) /\ Len(s) \in Nat /\ Unshared(q, s)
      /\ Null \notin Element /\ \A r \in Queue : r \notin Element
      /\ \A i \in 1..Len(s) : s[i] \in Element /\ s[i] # e
  BY ListFacts DEF IInv, TypeOK, Fresh, InsertFirst
<1>2. /\ t \in Seq(Element) /\ Len(t) = Len(s) + 1 /\ t[1] = e
      /\ \A i \in 1..Len(t) : i # 1 => t[i] = s[i - 1]
  <2>1. t = <<e>> \o s
    BY DEF IInv, TypeOK, InsertFirst
  <2>2. <<e>> \in Seq(Element) /\ Len(<<e>>) = 1 /\ <<e>>[1] = e
    OBVIOUS
  <2> QED BY <1>1, <2>1, <2>2, ConcatProperties
<1>3. \A o \in Owner : next'[o] = IF o = q THEN e ELSE IF o = e THEN next[q] ELSE next[o]
  BY <1>1 DEF IInv, TypeOK, Owner, InsertFirst
<1>4. TypeOK'
  BY <1>2 DEF IInv, TypeOK, Owner, InsertFirst, loop
<1>5. OthersKept(q)
  <2>1. \A r \in Queue : \A i \in 1..Len(contents[r]) : contents[r][i] # e
    BY DEF Fresh, InsertFirst
  <2>2. \A r \in Queue \ {q} :
          /\ contents'[r] = contents[r] /\ tail'[r] = tail[r]
          /\ item'[r] = item[r] /\ prev'[r] = prev[r] /\ current'[r] = current[r]
    BY DEF IInv, TypeOK, InsertFirst, loop
  <2>3. \A o \in Owner : next'[o] # next[o] => o = q \/ o = e
    BY <1>3
  <2> QED BY <2>1, <2>2, <2>3, OwnFieldsOnly
<1>a. \A r \in Queue : \A i \in 1..Len(contents[r]) : contents[r][i] # e
  BY DEF Fresh, InsertFirst
<1> HIDE DEF t
<1>6. Unshared(q, t)
  <2>1. ASSUME NEW i \in 1..Len(t)
        PROVE  \/ i = 1 /\ t[i] = e
               \/ i - 1 \in 1..Len(s) /\ t[i] = s[i - 1]
    BY <1>1, <1>2
  <2>2. ASSUME NEW i \in 1..Len(t), NEW j \in 1..Len(t), t[i] = t[j]
        PROVE  i = j
    <3>1. i = 1 <=> j = 1
      BY <1>1, <2>1, <2>2
    <3>2. CASE i # 1 /\ j # 1
      <4>1. i - 1 \in 1..Len(s) /\ j - 1 \in 1..Len(s) /\ s[i - 1] = s[j - 1]
        BY <2>1, <2>2, <3>2
      <4>2. i - 1 = j - 1
        BY <1>1, <4>1 DEF Unshared
      <4> QED BY <4>2
    <3> QED BY <3>1, <3>2
  <2>3. ASSUME NEW i \in 1..Len(t), NEW r \in Queue \ {q}, NEW j \in 1..Len(contents[r])
        PROVE  t[i] # contents[r][j]
    <3>1. contents[r][j] # e
      BY <1>a
    <3>2. \A k \in 1..Len(s) : s[k] # contents[r][j]
      BY <1>1 DEF Unshared
    <3> QED BY <2>1, <3>1, <3>2
  <2> QED BY <2>2, <2>3 DEF Unshared
<1>7. Linked(q, t)
  <2>1. ASSUME NEW i \in 1..Len(t)
        PROVE  next'[IF i - 1 = 0 THEN q ELSE t[i - 1]] = t[i]
    <3>1. CASE i = 1
      BY <1>2, <1>3, <3>1 DEF Owner
    <3>2. CASE i = 2
      <4>1. t[1] = e /\ t[2] = s[1] /\ 1 \in 1..Len(s)
        BY <1>1, <1>2, <3>2
      <4>2. next[q] = s[1]
        BY <4>1 DEF IInv, Represents, LinksInOrder, Field
      <4> QED BY <1>1, <1>3, <3>2, <4>1, <4>2 DEF Owner
    <3>3. CASE i # 1 /\ i # 2
      <4>1. i - 2 \in 1..Len(s) /\ i - 1 \in 1..Len(s) /\ i - 2 + 1 = i - 1 /\ i - 2 # Len(s)
        BY <1>1, <1>2, <3>3
      <4>2. t[i] = s[i - 1] /\ t[i - 1] = s[i - 2]
        BY <1>1, <1>2, <3>3, <4>1
      <4>3. next[s[i - 2]] = s[i - 1]
        BY <4>1, ListFacts
      <4>4. s[i - 2] \in Element /\ s[i - 2] # e /\ s[i - 2] # q
        BY <1>1, <4>1
      <4>5. next'[s[i - 2]] = s[i - 1]
        BY <1>3, <4>3, <4>4 DEF Owner
      <4> QED BY <3>3, <4>2, <4>5
    <3> QED BY <3>1, <3>2, <3>3
  <2>2. Len(t) # 0
    BY <1>1, <1>2
  <2>3. next'[t[Len(t)]] = Null /\ tail'[q] = t[Len(t)]
    <3>1. CASE Len(s) = 0
      <4>1. next[q] = Null /\ tail[q] = q
        BY <3>1 DEF IInv, Represents, LinksInOrder, Field
      <4> QED BY <1>1, <1>2, <1>3, <3>1, <4>1 DEF Owner, IInv, TypeOK, InsertFirst
    <3>2. CASE Len(s) # 0
      <4>1. next[s[Len(s)]] = Null /\ tail[q] = s[Len(s)]
        BY <3>2 DEF IInv, Represents, LinksInOrder, Field
      <4>2. t[Len(t)] = s[Len(s)] /\ Len(s) \in 1..Len(s)
        BY <1>1, <1>2, <3>2
      <4>3. s[Len(s)] \in Element /\ s[Len(s)] # e /\ s[Len(s)] # q
        BY <1>1, <4>2
      <4>4. next'[s[Len(s)]] = Null
        BY <1>3, <4>1, <4>3 DEF Owner
      <4>5. tail'[q] = s[Len(s)]
        BY <4>1, <4>3 DEF IInv, TypeOK, InsertFirst
      <4> QED BY <4>2, <4>4, <4>5
    <3> QED BY <3>1, <3>2
  <2> QED BY <2>1, <2>2, <2>3 DEF Linked
<1>8. Idle(q)'
  BY DEF Idle, InsertFirst, loop
<1> QED BY <1>4, <1>5, <1>6, <1>7, <1>8, ListChanged DEF t

\* A step that only begins, continues or ends a loop leaves the lists alone.
LEMMA ListsUnchanged ==
  ASSUME IInv, TypeOK', NEW q \in Queue, UNCHANGED <<next, tail, contents>>,
         \A r \in Queue \ {q} :
           item'[r] = item[r] /\ prev'[r] = prev[r] /\ current'[r] = current[r],
         ~Idle(q)' =>
           \E k \in 0..Len(contents[q]) : /\ prev'[q] = Field(q, k)
                                          /\ current'[q] = next[prev'[q]]
                                          /\ \A i \in 1..k : contents[q][i] # item'[q]
  PROVE  IInv'
<1>1. LinksInOrder' /\ NoSharing'
  BY DEF IInv, Represents, LinksInOrder, NoSharing, Field
<1>2. LoopInList'
  <2> SUFFICES ASSUME NEW r \in Queue, ~Idle(r)'
               PROVE  \E k \in 0..Len(contents[r]) :
                        /\ prev'[r] = Field(r, k)
                        /\ current'[r] = next[prev'[r]]
                        /\ \A i \in 1..k : contents[r][i] # item'[r]
    BY DEF LoopInList, Field
  <2>1. CASE r = q
    BY <2>1
  <2>2. CASE r # q
    BY <2>2 DEF Idle, IInv, Represents, LoopInList
  <2> QED BY <2>1, <2>2
<1> QED BY <1>1, <1>2 DEF IInv, Represents

LEMMA RemoveInvariant ==
  ASSUME IInv, NEW q \in Queue, NEW e \in Element, Remove(q, e)
  PROVE  IInv'
<1>1. TypeOK'
  BY DEF IInv, TypeOK, Remove, Owner
<1>2. prev'[q] = Field(q, 0) /\ current'[q] = next[prev'[q]]
  BY DEF IInv, TypeOK, Remove, Field
<1>3. \A r \in Queue \ {q} :
        item'[r] = item[r] /\ prev'[r] = prev[r] /\ current'[r] = current[r]
  BY DEF IInv, TypeOK, Remove
<1>4. 0 \in 0..Len(contents[q]) /\ UNCHANGED <<next, tail, contents>>
  BY ListFacts DEF Remove
<1> QED BY <1>1, <1>2, <1>3, <1>4, ListsUnchanged

\* Where the loop is, if it is not at the end of the list.
LEMMA LoopPosition ==
  ASSUME IInv, NEW q \in Queue, ~Idle(q), current[q] # Null
  PROVE  \E k \in 0..Len(contents[q]) - 1 :
           /\ prev[q] = Field(q, k) /\ current[q] = contents[q][k + 1]
           /\ next[prev[q]] = current[q]
           /\ \A i \in 1..k : contents[q][i] # item[q]
<1>1. PICK k \in 0..Len(contents[q]) : /\ prev[q] = Field(q, k)
                                       /\ current[q] = next[prev[q]]
                                       /\ \A i \in 1..k : contents[q][i] # item[q]
  BY DEF IInv, Represents, LoopInList
<1>2. Len(contents[q]) \in Nat /\ next[Field(q, Len(contents[q]))] = Null
  BY ListFacts DEF IInv, Represents, LinksInOrder
<1>3. k # Len(contents[q])
  BY <1>1, <1>2
<1>4. k + 1 \in 1..Len(contents[q]) /\ k + 1 - 1 = k /\ k \in 0..Len(contents[q]) - 1
  BY <1>2, <1>3
<1>5. next[Field(q, k)] = contents[q][k + 1]
  BY <1>4 DEF IInv, Represents, LinksInOrder
<1> QED BY <1>1, <1>4, <1>5

LEMMA AdvanceInvariant ==
  ASSUME IInv, NEW q \in Queue, Advance(q)
  PROVE  IInv'
<1>1. PICK k \in 0..Len(contents[q]) - 1 :
        /\ current[q] = contents[q][k + 1]
        /\ \A i \in 1..k : contents[q][i] # item[q]
  BY LoopPosition DEF Advance
<1>2. current[q] \in Element
  BY DEF Advance, IInv, TypeOK
<1>3. TypeOK'
  BY <1>2 DEF IInv, TypeOK, Advance, Owner
<1>4. \A r \in Queue \ {q} :
        item'[r] = item[r] /\ prev'[r] = prev[r] /\ current'[r] = current[r]
  BY DEF IInv, TypeOK, Advance
<1>5. k + 1 \in 0..Len(contents[q]) /\ k + 1 # 0 /\ \A i \in 1..k + 1 : i \in 1..k \/ i = k + 1
  BY ListFacts
<1>6. prev'[q] = Field(q, k + 1) /\ current'[q] = next[prev'[q]] /\ item'[q] = item[q]
  BY <1>1, <1>5 DEF Advance, IInv, TypeOK, Field
<1>7. \A i \in 1..k + 1 : contents[q][i] # item'[q]
  BY <1>1, <1>5, <1>6 DEF Advance
<1>8. UNCHANGED <<next, tail, contents>>
  BY DEF Advance
<1> QED BY <1>3, <1>4, <1>5, <1>6, <1>7, <1>8, ListsUnchanged

LEMMA NotFoundInvariant ==
  ASSUME IInv, NEW q \in Queue, NotFound(q)
  PROVE  IInv'
<1> USE DEF NotFound, Return
<1>1. TypeOK' /\ Idle(q)'
  BY DEF IInv, TypeOK, Owner, Idle
<1>2. \A r \in Queue \ {q} :
        item'[r] = item[r] /\ prev'[r] = prev[r] /\ current'[r] = current[r]
  BY DEF IInv, TypeOK
<1> QED BY <1>1, <1>2, ListsUnchanged

\* A list that only loses an element shares nothing.
LEMMA SublistUnshared ==
  ASSUME IInv, NEW q \in Queue, NEW k \in 1..Len(contents[q]), NEW t \in Seq(Element),
         Len(t) = Len(contents[q]) - 1,
         \A i \in 1..Len(t) : t[i] = contents[q][IF i < k THEN i ELSE i + 1]
  PROVE  Unshared(q, t)
<1> DEFINE s == contents[q]
           At(i) == IF i < k THEN i ELSE i + 1
<1>1. Len(s) \in Nat /\ Unshared(q, s)
  BY ListFacts
<1>2. \A i \in 1..Len(t) : At(i) \in 1..Len(s) /\ t[i] = s[At(i)]
  BY <1>1
<1>3. \A i, j \in 1..Len(t) : At(i) = At(j) => i = j
  BY <1>1
<1> HIDE DEF At
<1>4. ASSUME NEW i \in 1..Len(t), NEW j \in 1..Len(t), t[i] = t[j]
      PROVE  i = j
  <2>1. At(i) = At(j)
    BY <1>1, <1>2, <1>4 DEF Unshared
  <2> QED BY <1>3, <2>1
<1>5. ASSUME NEW i \in 1..Len(t), NEW r \in Queue \ {q}, NEW j \in 1..Len(contents[r])
      PROVE  t[i] # contents[r][j]
  <2>1. \A m \in 1..Len(s) : s[m] # contents[r][j]
    BY <1>1 DEF Unshared
  <2> QED BY <1>2, <2>1
<1> QED BY <1>4, <1>5 DEF Unshared

\* The field before element k is linked to the one after it: the list without
\* element k is linked.
LEMMA UnlinkedLinked ==
  ASSUME IInv, NEW q \in Queue, NEW k \in 1..Len(contents[q]), NEW t \in Seq(Element),
         Len(t) = Len(contents[q]) - 1,
         \A i \in 1..Len(t) : t[i] = contents[q][IF i < k THEN i ELSE i + 1],
         next'[Field(q, k - 1)] = next[contents[q][k]],
         \A i \in 0..Len(contents[q]) : i # k /\ i # k - 1 => next'[Field(q, i)] = next[Field(q, i)],
         tail'[q] = IF k = Len(contents[q]) THEN Field(q, k - 1) ELSE tail[q]
  PROVE  Linked(q, t)
<1> DEFINE s == contents[q]
           F(i) == IF i = 0 THEN q ELSE t[i]
<1>1. /\ Len(s) \in Nat /\ Len(t) = Len(s) - 1 /\ Len(t) \in Nat
      /\ \A i \in 1..Len(s) : next[s[i]] = IF i = Len(s) THEN Null ELSE s[i + 1]
  BY ListFacts
<1>2. \A i \in 0..Len(t) : F(i) = IF i < k THEN Field(q, i) ELSE s[i + 1]
  BY <1>1 DEF Field
<1>3. \A i \in 1..Len(s) : next[Field(q, i - 1)] = s[i]
  BY DEF IInv, Represents, LinksInOrder
<1>4. ASSUME NEW i \in 1..Len(t)
      PROVE  next'[F(i - 1)] = t[i]
  <2>1. CASE i < k
    <3>1. i - 1 \in 0..Len(s) /\ i - 1 < k /\ i - 1 # k - 1 /\ i - 1 # k /\ i \in 1..Len(s) /\ i - 1 \in 0..Len(t)
      BY <1>1, <2>1
    <3>2. F(i - 1) = Field(q, i - 1)
      BY <1>2, <3>1
    <3>3. t[i] = s[i]
      BY <2>1
    <3> HIDE DEF F
    <3> QED BY <1>3, <3>1, <3>2, <3>3
  <2>2. CASE i = k
    <3>1. i - 1 \in 0..Len(t) /\ i - 1 < k /\ k # Len(s)
      BY <1>1, <2>2
    <3>2. F(i - 1) = Field(q, k - 1)
      BY <1>2, <2>2, <3>1
    <3>3. t[i] = s[k + 1]
      BY <2>2
    <3> HIDE DEF F
    <3> QED BY <1>1, <3>1, <3>2, <3>3
  <2>3. CASE i > k
    <3>1. i - 1 \in 0..Len(t) /\ ~(i - 1 < k) /\ i - 1 + 1 = i /\ i \in 1..Len(s)
          /\ i # Len(s) /\ i # k /\ i # k - 1 /\ i \in 0..Len(s) /\ i # 0
      BY <1>1, <2>3
    <3>2. F(i - 1) = s[i]
      BY <1>2, <3>1
    <3>3. t[i] = s[i + 1]
      BY <2>3
    <3>4. Field(q, i) = s[i]
      BY <3>1 DEF Field
    <3>5. next'[s[i]] = next[s[i]]
      BY <3>1, <3>4
    <3> HIDE DEF F
    <3> QED BY <1>1, <3>1, <3>2, <3>3, <3>5
  <2> QED BY <1>1, <2>1, <2>2, <2>3
<1>5. next'[F(Len(t))] = Null /\ tail'[q] = F(Len(t))
  <2>0. Len(t) \in 0..Len(t)
    BY <1>1
  <2>1. CASE k = Len(s)
    <3>1. Len(t) < k /\ Len(t) = k - 1
      BY <1>1, <2>1
    <3>2. F(Len(t)) = Field(q, k - 1)
      BY <1>2, <2>0, <3>1
    <3> HIDE DEF F
    <3> QED BY <1>1, <2>1, <3>2
  <2>2. CASE k # Len(s)
    <3>1. ~(Len(t) < k) /\ Len(t) + 1 = Len(s) /\ Len(s) # k - 1 /\ Len(s) \in 0..Len(s)
      BY <1>1, <2>2
    <3>2. F(Len(t)) = s[Len(s)]
      BY <1>2, <2>0, <3>1
    <3>3. Field(q, Len(s)) = s[Len(s)]
      BY <1>1, <2>2 DEF Field
    <3>4. next[s[Len(s)]] = Null /\ tail[q] = s[Len(s)]
      BY <3>3 DEF IInv, Represents, LinksInOrder
    <3>5. next'[s[Len(s)]] = next[s[Len(s)]]
      BY <2>2, <3>1, <3>3
    <3> HIDE DEF F
    <3> QED BY <2>2, <3>2, <3>4, <3>5
  <2> QED BY <2>1, <2>2
<1> QED BY <1>4, <1>5 DEF Linked

LEMMA DequeueInvariant ==
  ASSUME IInv, NEW q \in Queue, Dequeue(q)
  PROVE  IInv'
<1> DEFINE s == contents[q]
           t == contents'[q]
           out == next[q]
<1>1. /\ s \in Seq(Element) /\ Len(s) \in Nat
      /\ Null \notin Element /\ \A r \in Queue : r \notin Element
      /\ \A i \in 1..Len(s) : s[i] \in Element /\ s[i] # q
      /\ next[q] = Null <=> Len(s) = 0
  BY ListFacts DEF IInv, TypeOK
<1>2. CASE out = Null
  <2>1. TypeOK' /\ Idle(q)'
    BY <1>2 DEF Dequeue, loop, IInv, TypeOK, Owner, Idle
  <2> QED BY <1>2, <2>1, ListsUnchanged DEF Dequeue, loop
<1>3. CASE out # Null
  <2>1. Len(s) # 0 /\ 1 \in 1..Len(s) /\ 1 - 1 = 0 /\ s # <<>>
    BY <1>1, <1>3
  <2>2. out = s[1] /\ out \in Element /\ out # q
    BY <1>1, <2>1 DEF IInv, Represents, LinksInOrder, Field
  <2>3. /\ t \in Seq(Element) /\ Len(t) = Len(s) - 1
        /\ \A i \in 1..Len(t) : t[i] = s[i + 1]
    <3>1. t = Tail(s)
      BY <1>3 DEF Dequeue, IInv, TypeOK
    <3> QED BY <1>1, <2>1, <3>1, HeadTailProperties
  <2>4. \A o \in Owner : next'[o] = IF o = out THEN Null ELSE IF o = q THEN next[out] ELSE next[o]
    BY <1>3, <2>2 DEF Dequeue, IInv, TypeOK, Owner
  <2>5. TypeOK'
    <3>1. contents' \in [Queue -> Seq(Element)]
      BY <1>3, <2>3 DEF Dequeue, IInv, TypeOK
    <3>2. next' \in [Owner -> Element \union {Null}]
      <4>1. next[out] \in Element \union {Null} /\ q \in Owner /\ out \in Owner
        BY <2>2 DEF IInv, TypeOK, Owner
      <4>2. next' = [next EXCEPT ![q] = next[out], ![out] = Null]
        BY <1>3 DEF Dequeue
      <4> QED BY <4>1, <4>2 DEF IInv, TypeOK
    <3>3. tail' \in [Queue -> Owner]
      <4>1. tail' = [tail EXCEPT ![q] = IF next[out] = Null THEN q ELSE @]
        BY <1>3 DEF Dequeue
      <4> HIDE DEF out
      <4> QED BY <4>1 DEF IInv, TypeOK, Owner
    <3> QED BY <1>3, <2>2, <3>1, <3>2, <3>3 DEF Dequeue, loop, IInv, TypeOK
  <2>6. OthersKept(q)
    <3>1. \A r \in Queue \ {q} :
            /\ contents'[r] = contents[r] /\ tail'[r] = tail[r]
            /\ item'[r] = item[r] /\ prev'[r] = prev[r] /\ current'[r] = current[r]
      BY <1>3 DEF Dequeue, loop, IInv, TypeOK
    <3>2. \A r \in Queue \ {q} : \A i \in 1..Len(contents[r]) : contents[r][i] # out
      BY <2>1, <2>2 DEF IInv, Represents, NoSharing
    <3>3. \A o \in Owner : next'[o] # next[o] => o = q \/ o = out
      BY <2>4
    <3> QED BY <2>2, <3>1, <3>2, <3>3, OwnFieldsOnly
  <2>7. tail'[q] = IF 1 = Len(s) THEN Field(q, 1 - 1) ELSE tail[q]
    <3>1. next[out] = IF 1 = Len(s) THEN Null ELSE s[1 + 1]
      <4>1. \A i \in 1..Len(s) : next[s[i]] = IF i = Len(s) THEN Null ELSE s[i + 1]
        BY ListFacts
      <4>2. next[s[1]] = IF 1 = Len(s) THEN Null ELSE s[1 + 1]
        BY <2>1, <4>1
      <4> HIDE DEF s, out
      <4> QED BY <2>2, <4>2, Zenon
    <3>2. 1 # Len(s) => s[1 + 1] \in Element
      <4>1. 1 # Len(s) => 1 + 1 \in 1..Len(s)
        <5>1. Len(s) \in Nat /\ Len(s) # 0
          BY <1>1, <2>1
        <5>2. \A n \in Nat : n # 0 /\ n # 1 => 1 + 1 \in 1..n
          OBVIOUS
        <5> QED BY <5>1, <5>2
      <4> QED BY <1>1, <4>1
    <3> QED BY <1>1, <1>3, <2>1, <3>1, <3>2 DEF Dequeue, IInv, TypeOK, Field
  <2>8. next'[Field(q, 1 - 1)] = next[s[1]]
    BY <2>1, <2>2, <2>4 DEF Field, Owner
  <2>9. \A i \in 0..Len(s) : i # 1 /\ i # 1 - 1 => next'[Field(q, i)] = next[Field(q, i)]
    <3> SUFFICES ASSUME NEW i \in 0..Len(s), i # 1, i # 1 - 1
                 PROVE  next'[s[i]] = next[s[i]]
      BY DEF Field
    <3>1. i \in 1..Len(s) /\ s[i] \in Element /\ s[i] # q
      BY <1>1, <2>1
    <3>2. s[i] # s[1]
      BY <2>1, <3>1, ListFacts DEF Unshared
    <3> QED BY <2>2, <2>4, <3>1, <3>2 DEF Owner
  <2>10. \A i \in 1..Len(t) : t[i] = s[IF i < 1 THEN i ELSE i + 1]
    BY <2>3
  <2> HIDE DEF t
  <2>11. Unshared(q, t) /\ Linked(q, t)
    BY <2>1, <2>3, <2>7, <2>8, <2>9, <2>10, SublistUnshared, UnlinkedLinked
  <2>12. Idle(q)'
    BY DEF Dequeue, loop, Idle
  <2> QED BY <2>5, <2>6, <2>11, <2>12, ListChanged DEF t
<1> QED BY <1>2, <1>3

LEMMA UnlinkInvariant ==
  ASSUME IInv, NEW q \in Queue, Unlink(q)
  PROVE  IInv'
<1> DEFINE s == contents[q]
           t == contents'[q]
           x == current[q]
<1>1. /\ s \in Seq(Element) /\ Len(s) \in Nat
      /\ Null \notin Element /\ \A r \in Queue : r \notin Element
      /\ \A i \in 1..Len(s) : s[i] \in Element /\ s[i] # q
  BY ListFacts DEF IInv, TypeOK
<1>2. x # Null /\ ~Idle(q)
  BY DEF Unlink, Idle
<1>3. PICK m \in 0..Len(s) - 1 : prev[q] = Field(q, m) /\ x = s[m + 1] /\ next[prev[q]] = x
  BY <1>2, LoopPosition
<1> DEFINE k == m + 1
<1>4. k \in 1..Len(s) /\ k - 1 = m /\ x = s[k] /\ x \in Element
  BY <1>1, <1>3
<1> HIDE DEF k
<1>5. /\ t \in Seq(Element) /\ Len(t) = Len(s) - 1
      /\ \A i \in 1..Len(t) : t[i] = s[IF i < k THEN i ELSE i + 1]
  <2>1. (CHOOSE j \in 1..Len(s) : s[j] = x) = k
    BY <1>4, ListFacts DEF Unshared
  <2>2. t = SubSeq(s, 1, k - 1) \o SubSeq(s, k + 1, Len(s))
    BY <2>1 DEF Unlink, Without, IInv, TypeOK
  <2> DEFINE a == SubSeq(s, 1, k - 1)
             b == SubSeq(s, k + 1, Len(s))
  <2>3. a \in Seq(Element) /\ Len(a) = k - 1 /\ \A i \in 1..k - 1 : a[i] = s[i]
    BY <1>1, <1>4, SubSeqProperties
  <2>4. /\ b \in Seq(Element) /\ Len(b) = Len(s) - k
        /\ \A i \in 1..Len(s) - k : b[i] = s[i + k]
    BY <1>1, <1>4, SubSeqProperties
  <2>5. t = a \o b
    BY <2>2
  <2> HIDE DEF a, b, t
  <2>6. /\ t \in Seq(Element) /\ Len(t) = Len(a) + Len(b)
        /\ \A i \in 1..Len(a) + Len(b) : t[i] = IF i <= Len(a) THEN a[i] ELSE b[i - Len(a)]
    BY <2>3, <2>4, <2>5, ConcatProperties
  <2>7. Len(t) = Len(s) - 1
    BY <1>1, <1>4, <2>3, <2>4, <2>6
  <2>8. ASSUME NEW i \in 1..Len(t)
        PROVE  t[i] = s[IF i < k THEN i ELSE i + 1]
    <3>1. CASE i < k
      <4>1. i \in 1..k - 1 /\ i \in 1..Len(a) + Len(b) /\ i <= Len(a)
        BY <1>1, <1>4, <2>3, <2>4, <2>7, <3>1
      <4> QED BY <2>3, <2>6, <3>1, <4>1
    <3>2. CASE ~(i < k)
      <4>1. /\ i - Len(a) \in 1..Len(s) - k /\ i \in 1..Len(a) + Len(b)
            /\ ~(i <= Len(a)) /\ i - Len(a) + k = i + 1
        BY <1>1, <1>4, <2>3, <2>4, <2>7, <3>2
      <4>2. b[i - Len(a)] = s[i + 1]
        BY <2>4, <4>1
      <4> QED BY <2>6, <3>2, <4>1, <4>2
    <3> QED BY <3>1, <3>2
  <2> QED BY <2>6, <2>7, <2>8
<1>6. prev[q] \in Owner /\ \A o \in Owner : next'[o] = IF o = prev[q] THEN next[x] ELSE next[o]
  BY DEF Unlink, IInv, TypeOK
<1>7. TypeOK'
  BY <1>4, <1>5, <1>6 DEF Unlink, Return, IInv, TypeOK, Owner
<1>8. OthersKept(q)
  <2>1. \A r \in Queue \ {q} :
          /\ contents'[r] = contents[r] /\ tail'[r] = tail[r]
          /\ item'[r] = item[r] /\ prev'[r] = prev[r] /\ current'[r] = current[r]
    BY DEF Unlink, Return, IInv, TypeOK
  <2>2. prev[q] = q \/ (prev[q] \in Element /\ \A r \in Queue \ {q} :
                          \A i \in 1..Len(contents[r]) : contents[r][i] # prev[q])
    <3>1. m = 0 \/ m \in 1..Len(s)
      BY <1>1
    <3> QED BY <1>1, <1>3, <3>1 DEF Field, IInv, Represents, NoSharing
  <2> QED BY <1>6, <2>1, <2>2, OwnFieldsOnly
<1>9. \A i, j \in 0..Len(s) : Field(q, i) = Field(q, j) => i = j
  BY <1>1, ListFacts DEF Field, Unshared
<1>10. next'[Field(q, k - 1)] = next[s[k]]
  BY <1>3, <1>4, <1>6
<1>11. ASSUME NEW i \in 0..Len(s), i # k, i # k - 1
       PROVE  next'[Field(q, i)] = next[Field(q, i)]
  <2>1. Field(q, i) # prev[q]
    BY <1>1, <1>3, <1>4, <1>9, <1>11
  <2>2. Field(q, i) \in Owner
    BY <1>1 DEF Field, Owner
  <2> QED BY <1>6, <2>1, <2>2
<1>12. tail'[q] = IF k = Len(s) THEN Field(q, k - 1) ELSE tail[q]
  <2>1. tail[q] = Field(q, Len(s)) /\ x = Field(q, k)
    BY <1>4 DEF IInv, Represents, LinksInOrder, Field
  <2>2. tail[q] = x <=> k = Len(s)
    BY <1>1, <1>4, <1>9, <2>1
  <2> QED BY <1>3, <1>4, <2>2 DEF Unlink, IInv, TypeOK
<1> HIDE DEF t
<1>13. Unshared(q, t) /\ Linked(q, t)
  BY <1>4, <1>5, <1>10, <1>11, <1>12, SublistUnshared, UnlinkedLinked
<1>14. Idle(q)'
  BY DEF Unlink, Return, Idle, IInv, TypeOK
<1> QED BY <1>7, <1>8, <1>13, <1>14, ListChanged DEF t

LEMMA InsertAfterInvariant ==
  ASSUME IInv, NEW q \in Queue, NEW k \in 1..Len(contents[q]), NEW e \in Element,
         InsertAfter(q, k, e)
  PROVE  IInv'
<1> DEFINE s == contents[q]
           t == contents'[q]
           old == contents[q][k]
<1>1. /\ s \in Seq(Element) /\ Len(s) \in Nat
      /\ Null \notin Element /\ \A r \in Queue : r \notin Element
      /\ \A i \in 1..Len(s) : s[i] \in Element /\ s[i] # e /\ s[i] # q
  BY ListFacts DEF IInv, TypeOK, Fresh, InsertAfter
<1>2. \A i, j \in 1..Len(s) : s[i] = s[j] => i = j
  BY ListFacts DEF Unshared
<1>3. \A i \in 1..Len(s) : next[s[i]] = IF i = Len(s) THEN Null ELSE s[i + 1]
  BY ListFacts
<1>4. old = s[k] /\ old \in Element /\ old # e /\ old # q
  BY <1>1
<1>5. /\ t \in Seq(Element) /\ Len(t) = Len(s) + 1
      /\ \A i \in 1..Len(t) : t[i] = IF i <= k THEN s[i] ELSE IF i = k + 1 THEN e ELSE s[i - 1]
  <2> DEFINE a == SubSeq(s, 1, k)
             b == SubSeq(s, k + 1, Len(s))
             c == a \o <<e>>
  <2>1. a \in Seq(Element) /\ Len(a) = k /\ \A i \in 1..k : a[i] = s[i]
    BY <1>1, SubSeqProperties
  <2>2. /\ b \in Seq(Element) /\ Len(b) = Len(s) - k
        /\ \A i \in 1..Len(s) - k : b[i] = s[i + k]
    BY <1>1, SubSeqProperties
  <2>3. t = c \o b
    BY DEF InsertAfter, IInv, TypeOK
  <2>4. <<e>> \in Seq(Element) /\ Len(<<e>>) = 1 /\ <<e>>[1] = e
    OBVIOUS
  <2> HIDE DEF a, b, t
  <2>5. c \in Seq(Element) /\ Len(c) = k + 1
    BY <2>1, <2>4, ConcatProperties
  <2>6. \A i \in 1..k + 1 : c[i] = IF i <= k THEN s[i] ELSE e
    BY <2>1, <2>4, ConcatProperties
  <2>0. k \in Nat /\ 1 <= k /\ k <= Len(s) /\ Len(s) \in Nat
    BY <1>1
  <2> HIDE DEF c, s
  <2>7. /\ t \in Seq(Element) /\ Len(t) = Len(c) + Len(b)
        /\ \A i \in 1..Len(c) + Len(b) : t[i] = IF i <= Len(c) THEN c[i] ELSE b[i - Len(c)]
    BY <2>2, <2>3, <2>5, ConcatProperties
  <2>8. Len(t) = Len(s) + 1
    BY <2>0, <2>2, <2>5, <2>7
  <2>9. ASSUME NEW i \in 1..Len(t)
        PROVE  t[i] = IF i <= k THEN s[i] ELSE IF i = k + 1 THEN e ELSE s[i - 1]
    <3>1. CASE i <= k + 1
      <4>1. i \in 1..k + 1 /\ i \in 1..Len(c) + Len(b) /\ i <= Len(c)
        BY <2>0, <2>2, <2>5, <2>8, <3>1
      <4>2. t[i] = c[i] /\ (~(i <= k) => i = k + 1)
        BY <2>7, <4>1
      <4> QED BY <2>6, <4>1, <4>2
    <3>2. CASE ~(i <= k + 1)
      <4>1. /\ i - Len(c) \in 1..Len(s) - k /\ i \in 1..Len(c) + Len(b)
            /\ ~(i <= Len(c)) /\ i - Len(c) + k = i - 1 /\ ~(i <= k) /\ i # k + 1
        BY <2>0, <2>2, <2>5, <2>8, <3>2
      <4>2. b[i - Len(c)] = s[i - 1]
        BY <2>2, <4>1
      <4> QED BY <2>7, <4>1, <4>2
    <3> QED BY <3>1, <3>2
  <2> QED BY <2>7, <2>8, <2>9
<1>6. \A o \in Owner : next'[o] = IF o = old THEN e ELSE IF o = e THEN next[old] ELSE next[o]
  BY <1>4 DEF InsertAfter, IInv, TypeOK, Owner
<1>7. TypeOK'
  <2>1. contents' \in [Queue -> Seq(Element)]
    BY <1>5 DEF InsertAfter, IInv, TypeOK
  <2>2. next' \in [Owner -> Element \union {Null}] /\ tail' \in [Queue -> Owner]
    BY <1>4 DEF InsertAfter, IInv, TypeOK, Owner
  <2> QED BY <2>1, <2>2 DEF InsertAfter, loop, IInv, TypeOK
<1>8. OthersKept(q)
  <2>1. \A r \in Queue \ {q} :
          /\ contents'[r] = contents[r] /\ tail'[r] = tail[r]
          /\ item'[r] = item[r] /\ prev'[r] = prev[r] /\ current'[r] = current[r]
    BY DEF InsertAfter, loop, IInv, TypeOK
  <2>2. \A r \in Queue \ {q} : \A i \in 1..Len(contents[r]) :
          contents[r][i] # e /\ contents[r][i] # old
    BY DEF InsertAfter, Fresh, IInv, Represents, NoSharing
  <2>3. \A o \in Owner : next'[o] # next[o] => o = old \/ o = e
    BY <1>6
  <2> QED BY <1>4, <2>1, <2>2, <2>3, OwnFieldsOnly
<1>9. tail'[q] = IF k = Len(s) THEN e ELSE tail[q]
  <2>1. Len(s) # 0 /\ Len(s) \in 1..Len(s)
    BY <1>1
  <2>2. tail[q] = s[Len(s)] /\ tail[q] \in Owner /\ next[tail[q]] = Null /\ tail[q] # e
    BY <1>1, <2>1 DEF IInv, TypeOK, Represents, LinksInOrder, Field
  <2>3. next'[tail[q]] = e <=> k = Len(s)
    <3>1. tail[q] = old <=> k = Len(s)
      BY <1>2, <2>1, <2>2
    <3> QED BY <1>1, <1>6, <2>2, <3>1
  <2> QED BY <2>2, <2>3 DEF InsertAfter, IInv, TypeOK
<1>10. \A i \in 1..Len(contents[q]) : \A r \in Queue \ {q} :
         \A j \in 1..Len(contents[r]) : contents[r][j] # e /\ contents[r][j] # contents[q][i]
  BY DEF InsertAfter, Fresh, IInv, Represents, NoSharing
<1>11. next[q] = s[1] /\ tail[q] = s[Len(s)] /\ 1 \in 1..Len(s) /\ Len(s) \in 1..Len(s)
  <2>1. 1 \in 1..Len(s) /\ Len(s) \in 1..Len(s) /\ 1 - 1 = 0 /\ Len(s) # 0
    BY <1>1
  <2> QED BY <2>1 DEF IInv, Represents, LinksInOrder, Field
<1> HIDE DEF t, s, old
<1>12. Unshared(q, t)
  <2>1. ASSUME NEW i \in 1..Len(t)
        PROVE  \/ i = k + 1 /\ t[i] = e
               \/ i <= k /\ i \in 1..Len(s) /\ t[i] = s[i]
               \/ i > k + 1 /\ i - 1 \in 1..Len(s) /\ t[i] = s[i - 1]
    BY <1>1, <1>5 DEF s
  <2>2. ASSUME NEW i \in 1..Len(t), NEW j \in 1..Len(t), t[i] = t[j]
        PROVE  i = j
    <3>1. i = k + 1 <=> j = k + 1
      BY <1>1, <2>1, <2>2
    <3>2. CASE i # k + 1
      <4> DEFINE x == IF i <= k THEN i ELSE i - 1
                 y == IF j <= k THEN j ELSE j - 1
      <4>1. x \in 1..Len(s) /\ t[i] = s[x] /\ y \in 1..Len(s) /\ t[j] = s[y]
        BY <2>1, <3>1, <3>2
      <4>2. x = y => i = j
        BY <3>1, <3>2
      <4> HIDE DEF x, y
      <4>3. x = y
        BY <1>2, <2>2, <4>1
      <4> QED BY <4>2, <4>3
    <3> QED BY <3>1, <3>2
  <2>3. ASSUME NEW i \in 1..Len(t), NEW r \in Queue \ {q}, NEW j \in 1..Len(contents[r])
        PROVE  t[i] # contents[r][j]
    <3>1. contents[r][j] # e /\ \A m \in 1..Len(s) : contents[r][j] # s[m]
      BY <1>10, <1>11 DEF s
    <3> QED BY <2>1, <3>1
  <2> QED BY <2>2, <2>3 DEF Unshared
<1>13. Linked(q, t)
  <2>1. ASSUME NEW i \in 1..Len(t)
        PROVE  next'[IF i - 1 = 0 THEN q ELSE t[i - 1]] = t[i]
    <3>1. CASE i = 1
      <4>1. t[1] = s[1]
        BY <1>5, <1>11, <3>1
      <4>2. next'[q] = next[q]
        BY <1>1, <1>4, <1>6 DEF Owner
      <4> QED BY <1>11, <3>1, <4>1, <4>2
    <3>2. CASE i # 1 /\ i <= k
      <4>1. i - 1 \in 1..Len(s) /\ i - 1 # k /\ i - 1 # Len(s) /\ i - 1 + 1 = i
            /\ i - 1 \in 1..Len(t) /\ i - 1 <= k /\ i - 1 # 0
        BY <1>1, <1>5, <3>2 DEF s
      <4>2. t[i] = s[i] /\ t[i - 1] = s[i - 1]
        BY <1>5, <3>2, <4>1
      <4>3. s[i - 1] \in Owner /\ s[i - 1] # old /\ s[i - 1] # e
        BY <1>1, <1>2, <1>4, <4>1 DEF Owner, s
      <4>4. next'[s[i - 1]] = s[i]
        BY <1>3, <1>6, <4>1, <4>3
      <4> QED BY <4>1, <4>2, <4>4
    <3>3. CASE i = k + 1
      <4>1. i - 1 = k /\ k \in 1..Len(t) /\ k <= k /\ k # 0 /\ ~(k + 1 <= k)
        BY <1>1, <1>5, <3>3 DEF s
      <4>2. t[i] = e /\ t[k] = s[k]
        BY <1>5, <3>3, <4>1
      <4>3. next'[old] = e
        BY <1>4, <1>6 DEF Owner
      <4> QED BY <1>4, <4>1, <4>2, <4>3
    <3>4. CASE i = k + 2
      <4>1. i - 1 = k + 1 /\ k + 1 \in 1..Len(t) /\ ~(k + 1 <= k) /\ k + 1 # 0 /\ ~(i <= k)
            /\ k # Len(s) /\ i # k + 1
        BY <1>1, <1>5, <3>4 DEF s
      <4>2. t[i] = s[k + 1] /\ t[i - 1] = e
        BY <1>5, <4>1
      <4>3. next'[e] = next[old] /\ next[s[k]] = s[k + 1]
        BY <1>3, <1>4, <1>6, <4>1 DEF Owner, s
      <4> QED BY <1>4, <4>1, <4>2, <4>3
    <3>5. CASE i > k + 2
      <4>1. i - 2 \in 1..Len(s) /\ i - 2 # k /\ i - 2 # Len(s) /\ i - 2 + 1 = i - 1
            /\ i - 1 \in 1..Len(t) /\ ~(i - 1 <= k) /\ i - 1 # k + 1 /\ i - 1 - 1 = i - 2
            /\ ~(i <= k) /\ i # k + 1 /\ i - 1 # 0
        BY <1>1, <1>5, <3>5 DEF s
      <4>2. t[i] = s[i - 1] /\ t[i - 1] = s[i - 2]
        BY <1>5, <4>1
      <4>3. s[i - 2] \in Owner /\ s[i - 2] # old /\ s[i - 2] # e
        BY <1>1, <1>2, <1>4, <4>1 DEF Owner, s
      <4>4. next'[s[i - 2]] = s[i - 1]
        BY <1>3, <1>6, <4>1, <4>3
      <4> QED BY <4>1, <4>2, <4>4
    <3>6. i = 1 \/ (i # 1 /\ i <= k) \/ i = k + 1 \/ i = k + 2 \/ i > k + 2
      BY <1>1, <1>5
    <3> QED BY <3>1, <3>2, <3>3, <3>4, <3>5, <3>6
  <2>2. Len(t) # 0 /\ Len(t) \in 1..Len(t)
    BY <1>1, <1>5
  <2>3. next'[t[Len(t)]] = Null /\ tail'[q] = t[Len(t)]
    <3>1. CASE k = Len(s)
      <4>1. ~(Len(t) <= k) /\ Len(t) = k + 1
        BY <1>1, <1>5, <3>1
      <4>2. t[Len(t)] = e
        BY <1>5, <2>2, <4>1
      <4>3. next'[e] = next[old] /\ next[s[k]] = Null
        BY <1>3, <1>4, <1>6, <1>11, <3>1 DEF Owner
      <4> QED BY <1>4, <1>9, <3>1, <4>2, <4>3
    <3>2. CASE k # Len(s)
      <4>1. ~(Len(t) <= k) /\ Len(t) # k + 1 /\ Len(t) - 1 = Len(s)
        BY <1>1, <1>5, <3>2 DEF s
      <4>2. t[Len(t)] = s[Len(s)]
        BY <1>5, <2>2, <4>1
      <4>3. s[Len(s)] \in Owner /\ s[Len(s)] # old /\ s[Len(s)] # e
        BY <1>1, <1>2, <1>4, <1>11, <3>2 DEF Owner, s
      <4>4. next'[s[Len(s)]] = Null
        BY <1>3, <1>6, <1>11, <4>3
      <4> QED BY <1>9, <1>11, <3>2, <4>2, <4>4
    <3> QED BY <3>1, <3>2
  <2> QED BY <2>1, <2>2, <2>3 DEF Linked
<1>14. Idle(q)'
  BY DEF InsertAfter, loop, Idle
<1> QED BY <1>7, <1>8, <1>12, <1>13, <1>14, ListChanged DEF t

LEMMA StepInvariant == IInv /\ [Next]_vars => IInv'
<1> SUFFICES ASSUME IInv, [Next]_vars PROVE IInv'
  OBVIOUS
<1>1. ASSUME NEW q \in Queue, NEW e \in Element,
             \/ Enqueue(q, e) \/ InsertFirst(q, e) \/ Remove(q, e)
             \/ \E i \in 1..Len(contents[q]) : InsertAfter(q, i, e)
      PROVE  IInv'
  BY <1>1, EnqueueInvariant, InsertFirstInvariant, RemoveInvariant, InsertAfterInvariant
<1>2. ASSUME NEW q \in Queue, Dequeue(q) \/ Advance(q) \/ Unlink(q) \/ NotFound(q)
      PROVE  IInv'
  BY <1>2, DequeueInvariant, AdvanceInvariant, UnlinkInvariant, NotFoundInvariant
<1>3. CASE UNCHANGED vars
  BY <1>3 DEF vars, loop, IInv, TypeOK, Represents, LinksInOrder, NoSharing, LoopInList,
              Field, Idle
<1> QED BY <1>1, <1>2, <1>3 DEF Next

\* The pointers of the queues represent the lists that their callers have made,
\* during a removal too, for any number of queues and elements (queue.h 60-239).
THEOREM QueuesRepresentLists == Spec => []Represents
<1>1. IInv => Represents
  BY DEF IInv
<1> QED BY <1>1, InitInvariant, StepInvariant, PTL DEF Spec

\* No field of a queue ever holds anything but an element or a null pointer, and
\* tail always points to a field (queue.h 70-71, queuelink.h 29).
THEOREM QueueTypes == Spec => []TypeOK
<1>1. IInv => TypeOK
  BY DEF IInv
<1> QED BY <1>1, InitInvariant, StepInvariant, PTL DEF Spec
-----------------------------------------------------------------------------
(* The abstract lists                                                      *)

\* remove() finds what is in the list, and nothing else.
LEMMA LoopFinds ==
  ASSUME IInv, NEW q \in Queue, ~Idle(q)
  PROVE  /\ item[q] \in Element
         /\ current[q] = item[q] => \E i \in 1..Len(contents[q]) : contents[q][i] = item[q]
         /\ current[q] = Null => \A i \in 1..Len(contents[q]) : contents[q][i] # item[q]
<1>1. item[q] \in Element /\ item[q] # Null
  BY DEF IInv, TypeOK, Idle
<1>2. Len(contents[q]) \in Nat
  BY ListFacts
<1>3. CASE current[q] # Null
  <2>1. PICK k \in 0..Len(contents[q]) - 1 : current[q] = contents[q][k + 1]
    BY <1>3, LoopPosition
  <2>2. k + 1 \in 1..Len(contents[q])
    BY <1>2
  <2> QED BY <1>1, <1>3, <2>1, <2>2
<1>4. CASE current[q] = Null
  <2>1. PICK k \in 0..Len(contents[q]) : /\ prev[q] = Field(q, k)
                                         /\ current[q] = next[prev[q]]
                                         /\ \A i \in 1..k : contents[q][i] # item[q]
    BY DEF IInv, Represents, LoopInList
  <2>2. k = Len(contents[q])
    <3>1. CASE k # Len(contents[q])
      <4>1. k + 1 \in 1..Len(contents[q]) /\ (k + 1) - 1 = k
        BY <1>2, <3>1
      <4>2. next[Field(q, k)] = contents[q][k + 1]
        BY <4>1 DEF IInv, Represents, LinksInOrder
      <4>3. contents[q][k + 1] \in Element /\ Null \notin Element
        BY <4>1, ListFacts
      <4> QED BY <1>4, <2>1, <4>2, <4>3
    <3> QED BY <3>1
  <2> QED BY <1>1, <1>4, <2>1, <2>2
<1> QED BY <1>3, <1>4

LEMMA FreshIsUnlisted == \A e : Fresh(e) => ~List!Listed(e)
  BY DEF Fresh, List!Listed, List!Members

LEMMA ListStep ==
  ASSUME IInv, [Next]_vars
  PROVE  [List!Next]_(List!vars)
<1>1. CASE UNCHANGED vars
  BY <1>1 DEF vars, List!vars
<1>2. ASSUME NEW q \in Queue, NEW e \in Element, Enqueue(q, e) PROVE List!Next
  <2>1. List!Enqueue(q, e)
    BY <1>2, FreshIsUnlisted DEF Enqueue, List!Enqueue, List!Change, IInv, TypeOK
  <2> QED BY <2>1 DEF List!Next
<1>3. ASSUME NEW q \in Queue, NEW e \in Element, InsertFirst(q, e) PROVE List!Next
  <2>1. List!InsertFirst(q, e)
    BY <1>3, FreshIsUnlisted DEF InsertFirst, List!InsertFirst, List!Change, IInv, TypeOK
  <2> QED BY <2>1 DEF List!Next
<1>4. ASSUME NEW q \in Queue, NEW e \in Element, NEW i \in 1..Len(contents[q]),
             InsertAfter(q, i, e)
      PROVE  List!Next
  <2> DEFINE old == contents[q][i]
             t == SubSeq(contents[q], 1, i) \o <<e>> \o SubSeq(contents[q], i + 1, Len(contents[q]))
  <2>1. old \in Element
    BY ListFacts
  <2>2. contents' = [contents EXCEPT ![q] = t] /\ result' = result
    BY <1>4 DEF InsertAfter
  <2>3. ~List!Listed(e)
    BY <1>4, FreshIsUnlisted DEF InsertAfter
  <2>4. List!InsertAfter(q, old, e)
    BY <2>2, <2>3 DEF List!InsertAfter, List!Change
  <2> QED BY <2>1, <2>4 DEF List!Next
<1>5. ASSUME NEW q \in Queue, Dequeue(q) PROVE List!Next
  <2>1. next[q] = Null <=> contents[q] = <<>>
    <3>1. contents[q] \in Seq(Element)
      BY DEF IInv, TypeOK
    <3> QED BY <3>1, ListFacts, EmptySeq
  <2>2. List!Dequeue(q)
    <3>1. CASE next[q] = Null
      BY <1>5, <2>1, <3>1 DEF Dequeue, List!Dequeue, List!Answer
    <3>2. CASE next[q] # Null
      <4>1. contents' = [contents EXCEPT ![q] = Tail(contents[q])]
        BY <1>5, <3>2 DEF Dequeue
      <4>2. next[q] = Head(contents[q])
        <5>1. contents[q] \in Seq(Element) /\ Len(contents[q]) \in Nat /\ Len(contents[q]) # 0
          BY <3>2, ListFacts DEF IInv, TypeOK
        <5>2. 1 \in 1..Len(contents[q]) /\ 1 - 1 = 0
          BY <5>1
        <5>3. next[q] = contents[q][1]
          BY <5>2 DEF IInv, Represents, LinksInOrder, Field
        <5> QED BY <2>1, <3>2, <5>1, <5>3
      <4>3. result' = [result EXCEPT ![q] = Head(contents[q])]
        BY <1>5, <4>2 DEF Dequeue
      <4> QED BY <2>1, <3>2, <4>1, <4>3 DEF List!Dequeue, List!Answer, List!Change
    <3> QED BY <3>1, <3>2
  <2> QED BY <2>2 DEF List!Next
<1>6. ASSUME NEW q \in Queue, Unlink(q) PROVE List!Next
  <2> DEFINE s == contents[q]
             e == item[q]
  <2>1. e \in Element /\ \E i \in 1..Len(s) : s[i] = e
    BY <1>6, LoopFinds DEF Unlink
  <2>2. PICK i \in 1..Len(s) : s[i] = e /\ Without(s, e) = SubSeq(s, 1, i - 1) \o SubSeq(s, i + 1, Len(s))
    BY <2>1 DEF Without
  <2>3. contents' = [contents EXCEPT ![q] = Without(s, e)] /\ result' = [result EXCEPT ![q] = e]
    BY <1>6 DEF Unlink, Return
  <2>4. List!Remove(q, e)
    BY <2>2, <2>3 DEF List!Remove, List!Change, List!Answer
  <2> QED BY <2>1, <2>4 DEF List!Next
<1>7. ASSUME NEW q \in Queue, NotFound(q) PROVE List!Next
  <2>1. item[q] \in Element /\ \A i \in 1..Len(contents[q]) : contents[q][i] # item[q]
    BY <1>7, LoopFinds DEF NotFound
  <2>2. List!Remove(q, item[q])
    BY <1>7, <2>1 DEF NotFound, Return, List!Remove, List!Members, List!Answer
  <2> QED BY <2>1, <2>2 DEF List!Next
<1>8. ASSUME NEW q \in Queue, Advance(q) \/ \E e \in Element : Remove(q, e)
      PROVE  UNCHANGED List!vars
  BY <1>8 DEF Advance, Remove, List!vars
<1> QED BY <1>1, <1>2, <1>3, <1>4, <1>5, <1>6, <1>7, <1>8 DEF Next

\* The links, walked through step by step by remove(), give the answers of lists
\* whose operations take effect at once (queue.h 93-222).
THEOREM QueueRefinement == Spec => ImplementsSequenceQueue
<1>1. Init => List!Init
  BY DEF Init, List!Init
<1>2. IInv /\ [Next]_vars => [List!Next]_(List!vars)
  BY ListStep
<1> QED BY <1>1, <1>2, InitInvariant, StepInvariant, PTL
        DEF Spec, ImplementsSequenceQueue, List!Spec
=============================================================================
