---------------------------- MODULE UsbLinkProofs ----------------------------
(***************************************************************************)
(* Proofs about UsbLink, for every initial capacity, bound on its growth,   *)
(* depth, packet and FIFO size, and any number of calls and failures: what   *)
(* is in flight is queued; the link opens all or nothing; what was awaited   *)
(* has left; and the buffer that is being filled is nobody else's.  The ring *)
(* of the wrappers comes first.                                              *)
(***************************************************************************)
EXTENDS UsbLink, NaturalsInduction, WellFoundedInduction, SequenceTheorems, TLAPS

-----------------------------------------------------------------------------
(* The ring of UnboundedQueue is a first-in first-out queue of distinct      *)
(* items, for every capacity and through every growth.                       *)

Indices(q) == 0 .. q.capacity - 1

Arrays == UNION {[0 .. n - 1 -> Nat] : n \in Nat}
Rings == [itemArray : Arrays, capacity : Nat, putIndex : Nat, takeIndex : Nat, numItems : Nat]

\* The registers of a ring are in range and agree on how much it holds.
IsRing(q) ==
    /\ q \in Rings
    /\ q.capacity > 0
    /\ q.numItems <= q.capacity
    /\ q.takeIndex \in Indices(q)
    /\ q.itemArray \in [Indices(q) -> Nat]
    /\ q.putIndex \in Indices(q)
    /\ \/ q.putIndex = q.takeIndex + q.numItems
       \/ q.putIndex = q.takeIndex + q.numItems - q.capacity

\* The ring holds each of the first items that were made once.
Distinct(q) ==
    /\ \A i \in Indices(q) : q.itemArray[i] < q.capacity
    /\ \A i, j \in Indices(q) : q.itemArray[i] = q.itemArray[j] => i = j

RingOK(q) == IsRing(q) /\ Distinct(q)

\* The place in the array of the n-th committed item.
PlaceOf(q, n) ==
    LET i == q.takeIndex + n - 1 IN IF i < q.capacity THEN i ELSE i - q.capacity

LEMMA PlaceType ==
    ASSUME NEW q, IsRing(q), NEW n \in 1 .. q.capacity
    PROVE  PlaceOf(q, n) \in Indices(q)
  BY DEF IsRing, Rings, Indices, PlaceOf

LEMMA CommittedType ==
    ASSUME NEW q, IsRing(q)
    PROVE  /\ Committed(q) \in Seq(Nat)
           /\ Len(Committed(q)) = q.numItems
           /\ \A n \in 1 .. q.numItems : Committed(q)[n] = q.itemArray[PlaceOf(q, n)]
  <1>1. \A n \in 1 .. q.numItems : PlaceOf(q, n) \in Indices(q)
    BY PlaceType DEF IsRing, Rings
  <1>2. Committed(q) = [n \in 1 .. q.numItems |-> q.itemArray[PlaceOf(q, n)]]
    BY DEF Committed, PlaceOf
  <1>3. \A n \in 1 .. q.numItems : q.itemArray[PlaceOf(q, n)] \in Nat
    BY <1>1 DEF IsRing
  <1>4. q.numItems \in Nat
    BY DEF IsRing, Rings
  <1> QED
    BY <1>2, <1>3, <1>4

\* Two sequences of numbers are equal when their lengths and elements are.
LEMMA SameSequence ==
    ASSUME NEW s \in Seq(Nat), NEW t \in Seq(Nat), Len(s) = Len(t),
           \A n \in 1 .. Len(s) : s[n] = t[n]
    PROVE  s = t
  OBVIOUS

\* Rings with the same items at their places hold the same queue.
LEMMA SameQueue ==
    ASSUME NEW p, IsRing(p), NEW q, IsRing(q), p.numItems = q.numItems,
           \A n \in 1 .. p.numItems : p.itemArray[PlaceOf(p, n)] = q.itemArray[PlaceOf(q, n)]
    PROVE  Committed(p) = Committed(q)
  <1>1. \A n \in 1 .. p.numItems : Committed(p)[n] = Committed(q)[n]
    BY CommittedType
  <1>2. Committed(p) \in Seq(Nat) /\ Committed(q) \in Seq(Nat)
    BY CommittedType
  <1>3. Len(Committed(p)) = p.numItems /\ Len(Committed(q)) = p.numItems
    BY CommittedType
  <1> QED
    BY <1>1, <1>2, <1>3, SameSequence

\* unbounded_queue.c:51: doubling the ring loses no item, keeps their order,
\* and adds as many new ones as there were.
THEOREM GrowthKeepsQueue ==
    ASSUME NEW q, RingOK(q), IsFull(q)
    PROVE  RingOK(Grown(q)) /\ Committed(Grown(q)) = Committed(q)
  <1> DEFINE g == Grown(q)
             first == q.capacity - q.takeIndex
             old(i) == IF i < first THEN q.takeIndex + i ELSE i - first
             item(i) == IF i < q.capacity THEN q.itemArray[old(i)] ELSE i
  <1>1. /\ q \in Rings /\ q.capacity \in Nat /\ q.capacity > 0
        /\ q.takeIndex \in 0 .. q.capacity - 1
        /\ q.numItems = q.capacity /\ first \in 1 .. q.capacity
        /\ q.itemArray \in [0 .. q.capacity - 1 -> Nat]
    BY DEF RingOK, IsRing, IsFull, Indices, Rings
  <1>2. /\ \A i \in 0 .. q.capacity - 1 : old(i) \in 0 .. q.capacity - 1
        /\ \A i, j \in 0 .. q.capacity - 1 : old(i) = old(j) => i = j
        /\ \A n \in 1 .. q.capacity : old(n - 1) = PlaceOf(q, n)
    <2> HIDE DEF g
    <2>1. \A i \in 0 .. q.capacity - 1 : old(i) \in 0 .. q.capacity - 1
      BY <1>1
    <2>2. \A i, j \in 0 .. q.capacity - 1 : old(i) = old(j) => i = j
      BY <1>1
    <2>3. \A n \in 1 .. q.capacity : old(n - 1) = PlaceOf(q, n)
      BY <1>1 DEF PlaceOf
    <2> QED
      BY <2>1, <2>2, <2>3
  <1>3. /\ g.capacity = 2 * q.capacity /\ g.putIndex = q.capacity
        /\ g.takeIndex = 0 /\ g.numItems = q.numItems
        /\ g = [itemArray |-> g.itemArray, capacity |-> g.capacity, putIndex |-> g.putIndex,
                takeIndex |-> g.takeIndex, numItems |-> g.numItems]
    BY DEF Grown
  <1>4. g.itemArray = [i \in 0 .. 2 * q.capacity - 1 |-> item(i)]
    BY <1>1 DEF Grown
  <1> HIDE DEF g, old, first
  <1>5. /\ \A i \in 0 .. q.capacity - 1 : item(i) = q.itemArray[old(i)]
        /\ \A i \in q.capacity .. 2 * q.capacity - 1 : item(i) = i
    BY <1>1
  <1>6. \A i \in 0 .. q.capacity - 1 : q.itemArray[old(i)] \in Nat
    BY <1>1, <1>2
  <1>7. \A i \in 0 .. 2 * q.capacity - 1 : item(i) \in Nat
    BY <1>1, <1>6
  <1>8. g.itemArray \in [0 .. 2 * q.capacity - 1 -> Nat]
    BY <1>4, <1>7
  <1>9. g.itemArray \in Arrays
    <2>1. 2 * q.capacity \in Nat
      BY <1>1
    <2> QED
      BY <1>8, <2>1 DEF Arrays
  <1>10. g \in Rings
    BY <1>1, <1>3, <1>9 DEF Rings
  <1>11. IsRing(g)
    BY <1>1, <1>3, <1>8, <1>10 DEF IsRing, Indices
  <1>12. Distinct(g)
    <2>1. \A i \in 0 .. q.capacity - 1 : q.itemArray[old(i)] < q.capacity
      BY <1>2 DEF RingOK, Distinct, Indices
    <2>2. \A i, j \in 0 .. q.capacity - 1 : q.itemArray[old(i)] = q.itemArray[old(j)] => i = j
      BY <1>2 DEF RingOK, Distinct, Indices
    <2>3. \A i \in 0 .. 2 * q.capacity - 1 : item(i) < 2 * q.capacity
      BY <1>1, <1>6, <2>1
    <2>4. \A i, j \in 0 .. 2 * q.capacity - 1 : item(i) = item(j) => i = j
      BY <1>1, <1>6, <2>1, <2>2
    <2> HIDE DEF item
    <2> QED
      BY <1>3, <1>4, <2>3, <2>4 DEF Distinct, Indices
  <1>13. Committed(g) = Committed(q)
    <2>1. ASSUME NEW n \in 1 .. q.capacity
          PROVE  g.itemArray[PlaceOf(g, n)] = q.itemArray[PlaceOf(q, n)]
      <3>1. PlaceOf(g, n) = n - 1
        BY <1>1, <1>3 DEF PlaceOf
      <3>2. n - 1 \in 0 .. q.capacity - 1
        BY <1>1
      <3>3. old(n - 1) = PlaceOf(q, n)
        BY <1>2
      <3>4. item(n - 1) = q.itemArray[old(n - 1)]
        BY <1>5, <3>2
      <3>5. n - 1 \in 0 .. 2 * q.capacity - 1
        BY <1>1, <3>2
      <3> HIDE DEF item
      <3>6. g.itemArray[n - 1] = item(n - 1)
        BY <1>4, <3>5
      <3> QED
        BY <3>1, <3>3, <3>4, <3>6
    <2> QED
      BY <1>1, <1>3, <1>11, <2>1, SameQueue DEF RingOK
  <1> QED
    BY <1>11, <1>12, <1>13 DEF RingOK, g

\* unbounded_queue.c:49, queuePut: the item that a put hands out is free: none that is
\* committed, and the queue is otherwise as it was.
THEOREM PutHandsOutFree ==
    ASSUME NEW q, RingOK(q)
    PROVE  LET p == queuePut(q)
           IN  /\ RingOK(p) /\ ~IsFull(p)
               /\ Committed(p) = Committed(q)
               /\ \A n \in 1 .. p.numItems : Committed(p)[n] # ItemToPut(p)
  <1> DEFINE p == queuePut(q)
  <1>1. RingOK(p) /\ Committed(p) = Committed(q)
    BY GrowthKeepsQueue DEF queuePut
  <1>2. ~IsFull(p)
    <2>1. q.capacity \in Nat /\ q.capacity > 0
      BY DEF RingOK, IsRing, Rings
    <2> QED
      BY <2>1 DEF queuePut, IsFull, Grown
  <1> HIDE DEF p
  <1>3. IsRing(p) /\ Distinct(p)
    BY <1>1 DEF RingOK
  <1>4. ASSUME NEW n \in 1 .. p.numItems PROVE Committed(p)[n] # ItemToPut(p)
    <2>1. p.putIndex \in Indices(p)
      BY <1>3 DEF IsRing, Indices
    <2>2. n \in 1 .. p.capacity
      BY <1>3 DEF IsRing, Rings
    <2>3. PlaceOf(p, n) \in Indices(p)
      BY <1>3, <2>2, PlaceType
    <2>4. PlaceOf(p, n) # p.putIndex
      BY <1>2, <1>3, <2>2 DEF IsRing, Rings, Indices, PlaceOf, IsFull
    <2>5. Committed(p)[n] = p.itemArray[PlaceOf(p, n)]
      BY <1>3, CommittedType
    <2> QED
      BY <1>3, <2>1, <2>3, <2>4, <2>5 DEF Distinct, ItemToPut
  <1> QED
    BY <1>1, <1>2, <1>4 DEF p

\* unbounded_queue.c:84, queueCommitPut: a commit after a put appends the item.
THEOREM CommitAppends ==
    ASSUME NEW q, RingOK(q), ~IsFull(q)
    PROVE  /\ RingOK(queueCommitPut(q))
           /\ Committed(queueCommitPut(q)) = Append(Committed(q), ItemToPut(q))
  <1> DEFINE c == queueCommitPut(q)
  <1>0. c \in Rings
    <2>1. q \in Rings /\ q.numItems + 1 \in Nat /\ After(q, q.putIndex) \in Nat
      BY DEF RingOK, IsRing, Rings, After, queueSize
    <2> QED
      BY <2>1 DEF queueCommitPut, Rings
  <1>1. /\ c.capacity = q.capacity /\ c.takeIndex = q.takeIndex /\ c.itemArray = q.itemArray
        /\ c.numItems = q.numItems + 1 /\ c.putIndex = After(q, q.putIndex)
    <2>1. q \in Rings
      BY DEF RingOK, IsRing
    <2> QED
      BY <2>1 DEF queueCommitPut, Rings
  <1> HIDE DEF c
  <1>2. IsRing(q) /\ Distinct(q)
    BY DEF RingOK
  <1>3. IsRing(c)
    <2>1. /\ q.capacity \in Nat /\ q.putIndex \in Nat /\ q.numItems \in Nat
          /\ q.takeIndex \in Nat /\ q.itemArray \in Arrays
      BY <1>2 DEF IsRing, Rings
    <2>2. /\ q.capacity > 0 /\ q.numItems <= q.capacity
          /\ q.takeIndex \in 0 .. q.capacity - 1 /\ q.putIndex \in 0 .. q.capacity - 1
          /\ \/ q.putIndex = q.takeIndex + q.numItems
             \/ q.putIndex = q.takeIndex + q.numItems - q.capacity
      BY <1>2 DEF IsRing, Indices
    <2>3. q.numItems < q.capacity
      <3>1. q.numItems # q.capacity
        BY DEF IsFull
      <3>2. \A a, b \in Nat : a <= b /\ a # b => a < b
        OBVIOUS
      <3> QED
        BY <2>1, <2>2, <3>1, <3>2
    <2>4. /\ c.capacity > 0 /\ c.numItems <= c.capacity
          /\ c.takeIndex \in 0 .. q.capacity - 1 /\ c.putIndex \in 0 .. q.capacity - 1
      BY <1>1, <2>1, <2>2, <2>3 DEF After
    <2>5. \/ c.putIndex = c.takeIndex + c.numItems
          \/ c.putIndex = c.takeIndex + c.numItems - c.capacity
      BY <1>1, <2>1, <2>2, <2>3 DEF After
    <2>6. c.itemArray \in [Indices(c) -> Nat]
      BY <1>1, <1>2 DEF IsRing, Indices
    <2> QED
      BY <1>0, <1>1, <2>4, <2>5, <2>6 DEF IsRing, Indices
  <1>4. Distinct(c)
    BY <1>1, <1>2 DEF Distinct, Indices
  <1>5. \A n \in 1 .. q.numItems : Committed(c)[n] = Committed(q)[n]
    <2>1. \A n \in 1 .. q.numItems : PlaceOf(c, n) = PlaceOf(q, n)
      BY <1>1 DEF PlaceOf
    <2>2. \A n \in 1 .. q.numItems : n \in 1 .. c.numItems
      BY <1>1, <1>2 DEF IsRing, Rings
    <2> QED
      BY <1>1, <1>2, <1>3, <2>1, <2>2, CommittedType
  <1>6. Committed(c)[q.numItems + 1] = ItemToPut(q)
    <2>1. PlaceOf(c, q.numItems + 1) = q.putIndex
      BY <1>1, <1>2 DEF PlaceOf, IsRing, Rings, Indices, IsFull
    <2> QED
      <3>1. q.numItems + 1 \in 1 .. c.numItems
        BY <1>1, <1>2 DEF IsRing, Rings
      <3> QED
        BY <1>1, <1>3, <2>1, <3>1, CommittedType DEF ItemToPut
  <1>7. ItemToPut(q) \in Nat
    BY <1>2 DEF ItemToPut, IsRing, Indices
  <1>8. Committed(c) = Append(Committed(q), ItemToPut(q))
    <2>1. /\ Committed(q) \in Seq(Nat) /\ Len(Committed(q)) = q.numItems
          /\ Committed(c) \in Seq(Nat) /\ Len(Committed(c)) = q.numItems + 1
      BY <1>1, <1>2, <1>3, CommittedType
    <2> QED
      BY <2>1, <1>5, <1>6, <1>7, SameSequence
  <1> QED
    BY <1>3, <1>4, <1>8 DEF RingOK, c

\* unbounded_queue.c:92, queueTake and queueCommitTake: a take hands out the
\* oldest item, and its commit removes that one.
THEOREM TakeRemovesOldest ==
    ASSUME NEW q, RingOK(q), queueSize(q) # 0
    PROVE  /\ ItemToTake(q) = Head(Committed(q))
           /\ RingOK(queueCommitTake(q))
           /\ Committed(queueCommitTake(q)) = Tail(Committed(q))
  <1> DEFINE c == queueCommitTake(q)
  <1>0. c \in Rings
    <2>1. q \in Rings /\ q.numItems - 1 \in Nat /\ After(q, q.takeIndex) \in Nat
      BY DEF RingOK, IsRing, Rings, After, queueSize
    <2> QED
      BY <2>1 DEF queueCommitTake, Rings
  <1>1. /\ c.capacity = q.capacity /\ c.putIndex = q.putIndex /\ c.itemArray = q.itemArray
        /\ c.numItems = q.numItems - 1 /\ c.takeIndex = After(q, q.takeIndex)
    <2>1. q \in Rings
      BY DEF RingOK, IsRing
    <2> QED
      BY <2>1 DEF queueCommitTake, Rings
  <1> HIDE DEF c
  <1>2. IsRing(q) /\ Distinct(q) /\ q.numItems \in 1 .. q.capacity
    BY DEF RingOK, IsRing, Rings, queueSize
  <1>3. IsRing(c)
    <2>1. /\ q.capacity \in Nat /\ q.putIndex \in Nat /\ q.numItems \in Nat
          /\ q.takeIndex \in Nat /\ q.itemArray \in Arrays
      BY <1>2 DEF IsRing, Rings
    <2>2. /\ q.capacity > 0 /\ q.numItems <= q.capacity
          /\ q.takeIndex \in 0 .. q.capacity - 1 /\ q.putIndex \in 0 .. q.capacity - 1
          /\ \/ q.putIndex = q.takeIndex + q.numItems
             \/ q.putIndex = q.takeIndex + q.numItems - q.capacity
      BY <1>2 DEF IsRing, Indices
    <2>3. q.numItems > 0
      BY <1>2
    <2>4. /\ c.capacity > 0 /\ c.numItems <= c.capacity
          /\ c.takeIndex \in 0 .. q.capacity - 1 /\ c.putIndex \in 0 .. q.capacity - 1
      BY <1>1, <2>1, <2>2, <2>3 DEF After
    <2>5. \/ c.putIndex = c.takeIndex + c.numItems
          \/ c.putIndex = c.takeIndex + c.numItems - c.capacity
      BY <1>1, <2>1, <2>2, <2>3 DEF After
    <2>6. c.itemArray \in [Indices(c) -> Nat]
      BY <1>1, <1>2 DEF IsRing, Indices
    <2> QED
      BY <1>0, <1>1, <2>4, <2>5, <2>6 DEF IsRing, Indices
  <1>4. Distinct(c)
    BY <1>1, <1>2 DEF Distinct, Indices
  <1>5. ItemToTake(q) = Head(Committed(q))
    <2>1. PlaceOf(q, 1) = q.takeIndex
      BY <1>2 DEF PlaceOf, IsRing, Rings, Indices
    <2> QED
      BY <1>2, <2>1, CommittedType DEF ItemToTake
  <1>6. \A n \in 1 .. c.numItems : PlaceOf(c, n) = PlaceOf(q, n + 1)
    BY <1>1, <1>2 DEF PlaceOf, IsRing, Rings, Indices, After
  <1>7. \A n \in 1 .. c.numItems : Committed(c)[n] = Committed(q)[n + 1]
    <2>1. \A n \in 1 .. c.numItems : n + 1 \in 1 .. q.numItems
      BY <1>1, <1>2
    <2> QED
      BY <1>1, <1>2, <1>3, <1>6, <2>1, CommittedType
  <1>8. Committed(c) = Tail(Committed(q))
    <2>1. /\ Committed(q) \in Seq(Nat) /\ Len(Committed(q)) = q.numItems
          /\ Committed(c) \in Seq(Nat) /\ Len(Committed(c)) = q.numItems - 1
      BY <1>1, <1>2, <1>3, CommittedType
    <2>2. /\ Tail(Committed(q)) \in Seq(Nat) /\ Len(Tail(Committed(q))) = q.numItems - 1
          /\ \A n \in 1 .. q.numItems - 1 : Tail(Committed(q))[n] = Committed(q)[n + 1]
      BY <1>2, <2>1
    <2> QED
      BY <2>1, <2>2, <1>1, <1>7, SameSequence
  <1> QED
    BY <1>3, <1>4, <1>5, <1>8 DEF RingOK, c

\* unbounded_queue.c:7, queueInit: a new queue is a ring, of any capacity but
\* zero, and empty.
THEOREM InitIsRing ==
    ASSUME NEW n \in Nat, n > 0
    PROVE  RingOK(queueInit(n)) /\ Committed(queueInit(n)) = <<>>
  <1> DEFINE q == queueInit(n)
  <1>1. q.itemArray = [i \in 0 .. n - 1 |-> i]
    BY DEF queueInit
  <1>2. q.itemArray \in Arrays
    BY <1>1 DEF Arrays
  <1>3. /\ q.capacity = n /\ q.putIndex = 0 /\ q.takeIndex = 0 /\ q.numItems = 0
        /\ q = [itemArray |-> q.itemArray, capacity |-> q.capacity, putIndex |-> q.putIndex,
                takeIndex |-> q.takeIndex, numItems |-> q.numItems]
    BY DEF queueInit
  <1> HIDE DEF q
  <1>4. q \in Rings
    BY <1>2, <1>3 DEF Rings
  <1>5. IsRing(q)
    BY <1>1, <1>3, <1>4 DEF IsRing, Indices
  <1>6. Distinct(q)
    BY <1>1, <1>3 DEF Distinct, Indices
  <1>7. Committed(q) = <<>>
    BY <1>3, <1>5, CommittedType
  <1> QED
    BY <1>5, <1>6, <1>7 DEF RingOK, q

-----------------------------------------------------------------------------
(* The wrappers that an endpoint still uses, each once.                     *)

Once(s) == s \in Seq(Wrappers) /\ \A i, j \in 1 .. Len(s) : s[i] = s[j] => i = j

\* The first transfer of an endpoint ends.
LEMMA TailDropsHead ==
    ASSUME NEW s, Once(s), s # <<>>
    PROVE  Once(Tail(s)) /\ ToSet(Tail(s)) = ToSet(s) \ {Head(s)} /\ Head(s) \in ToSet(s)
  <1>1. /\ s \in Seq(Wrappers) /\ Len(s) \in Nat /\ Len(s) > 0
        /\ Tail(s) \in Seq(Wrappers) /\ Len(Tail(s)) = Len(s) - 1
        /\ \A i \in 1 .. Len(s) - 1 : Tail(s)[i] = s[i + 1]
        /\ Head(s) = s[1]
    BY DEF Once
  <1>2. DOMAIN s = 1 .. Len(s) /\ DOMAIN Tail(s) = 1 .. Len(s) - 1
    BY <1>1
  <1>3. Once(Tail(s))
    BY <1>1 DEF Once
  <1>4. ASSUME NEW w \in ToSet(Tail(s)) PROVE w \in ToSet(s) \ {Head(s)}
    BY <1>1, <1>2, <1>4 DEF ToSet, Once
  <1>5. ASSUME NEW w \in ToSet(s) \ {Head(s)} PROVE w \in ToSet(Tail(s))
    <2>1. PICK i \in 1 .. Len(s) : s[i] = w
      BY <1>2 DEF ToSet
    <2>2. i - 1 \in 1 .. Len(s) - 1
      BY <1>1, <2>1
    <2>3. Tail(s)[i - 1] = w
      BY <1>1, <2>1, <2>2
    <2> QED
      BY <1>2, <2>2, <2>3 DEF ToSet
  <1>6. Head(s) \in ToSet(s)
    BY <1>1, <1>2 DEF ToSet
  <1> QED
    BY <1>3, <1>4, <1>5, <1>6

\* A transfer is submitted to an endpoint.
LEMMA SubmitAdds ==
    ASSUME NEW s, Once(s), NEW w \in Wrappers, w \notin ToSet(s)
    PROVE  Once(s \o <<w>>) /\ ToSet(s \o <<w>>) = ToSet(s) \cup {w}
  <1> DEFINE t == s \o <<w>>
  <1>1. /\ s \in Seq(Wrappers) /\ Len(s) \in Nat
        /\ t \in Seq(Wrappers) /\ Len(t) = Len(s) + 1
        /\ \A i \in 1 .. Len(s) : t[i] = s[i]
        /\ t[Len(s) + 1] = w
    BY DEF Once
  <1> HIDE DEF t
  <1>2. DOMAIN s = 1 .. Len(s) /\ DOMAIN t = 1 .. Len(s) + 1
    BY <1>1
  <1>3. \A i \in 1 .. Len(s) : s[i] # w
    BY <1>2 DEF ToSet
  <1>4. \A i, j \in 1 .. Len(s) + 1 : t[i] = t[j] => i = j
    BY <1>1, <1>3 DEF Once
  <1>5. ToSet(t) = ToSet(s) \cup {w}
    <2>1. ASSUME NEW v \in ToSet(t) PROVE v \in ToSet(s) \cup {w}
      BY <1>1, <1>2, <2>1 DEF ToSet
    <2>2. ASSUME NEW v \in ToSet(s) PROVE v \in ToSet(t)
      BY <1>1, <1>2, <2>2 DEF ToSet
    <2>3. w \in ToSet(t)
      BY <1>1, <1>2 DEF ToSet
    <2> QED
      BY <2>1, <2>2, <2>3
  <1> QED
    BY <1>1, <1>4, <1>5 DEF Once, t

\* A sequence without its k-th element.
LEMMA CutOut ==
    ASSUME NEW s \in Seq(Wrappers), NEW k \in 1 .. Len(s)
    PROVE  /\ RemoveAt(s, k) \in Seq(Wrappers) /\ Len(RemoveAt(s, k)) = Len(s) - 1
           /\ \A i \in 1 .. Len(s) - 1 : RemoveAt(s, k)[i] = IF i < k THEN s[i] ELSE s[i + 1]
  <1> DEFINE front == SubSeq(s, 1, k - 1)
             back == SubSeq(s, k + 1, Len(s))
  <1>1. Len(s) \in Nat /\ k \in Nat /\ k >= 1 /\ k <= Len(s)
    OBVIOUS
  <1>2. /\ front \in Seq(Wrappers) /\ Len(front) = k - 1
        /\ \A i \in 1 .. k - 1 : front[i] = s[i]
    BY <1>1
  <1>3. back \in Seq(Wrappers) /\ Len(back) = Len(s) - k
    BY <1>1
  <1>4. \A i \in 1 .. Len(s) - k : back[i] = s[k + i]
    BY <1>1
  <1> HIDE DEF front, back
  <1>5. /\ front \o back \in Seq(Wrappers) /\ Len(front \o back) = Len(s) - 1
        /\ \A i \in 1 .. Len(s) - 1 : (front \o back)[i] = IF i < k THEN front[i] ELSE back[i - (k - 1)]
    BY <1>1, <1>2, <1>3
  <1>6. \A i \in 1 .. Len(s) - 1 : i >= k => back[i - (k - 1)] = s[i + 1]
    BY <1>1, <1>4
  <1>7. RemoveAt(s, k) = front \o back
    BY DEF RemoveAt, front, back
  <1>8. \A i \in 1 .. Len(s) - 1 : i < k => front[i] = s[i]
    BY <1>1, <1>2
  <1>9. \A i \in 1 .. Len(s) - 1 : (front \o back)[i] = IF i < k THEN s[i] ELSE s[i + 1]
    <2> SUFFICES ASSUME NEW i \in 1 .. Len(s) - 1
                 PROVE  (front \o back)[i] = IF i < k THEN s[i] ELSE s[i + 1]
      OBVIOUS
    <2>1. CASE i < k
      BY <1>5, <1>8, <2>1
    <2>2. CASE ~(i < k)
      <3>1. i >= k
        BY <1>1, <2>2
      <3> QED
        BY <1>5, <1>6, <2>2, <3>1
    <2> QED
      BY <2>1, <2>2
  <1> QED
    BY <1>5, <1>7, <1>9

\* A transfer is cancelled.
LEMMA WithoutDrops ==
    ASSUME NEW s, Once(s), NEW w
    PROVE  Once(Without(s, w)) /\ ToSet(Without(s, w)) = ToSet(s) \ {w}
  <1>1. CASE w \notin ToSet(s)
    BY <1>1 DEF Without
  <1>2. CASE w \in ToSet(s)
    <2> DEFINE k == CHOOSE i \in DOMAIN s : s[i] = w
               t == RemoveAt(s, k)
    <2>1. s \in Seq(Wrappers) /\ Len(s) \in Nat /\ DOMAIN s = 1 .. Len(s)
      BY DEF Once
    <2>2. k \in 1 .. Len(s) /\ s[k] = w
      BY <1>2, <2>1 DEF ToSet
    <2>3. Without(s, w) = t
      BY <1>2 DEF Without
    <2> HIDE DEF k
    <2>4. /\ t \in Seq(Wrappers) /\ Len(t) = Len(s) - 1
          /\ \A i \in 1 .. Len(s) - 1 : t[i] = IF i < k THEN s[i] ELSE s[i + 1]
      BY <2>1, <2>2, CutOut
    <2>5. DOMAIN t = 1 .. Len(s) - 1
      BY <2>1, <2>4
    <2> HIDE DEF t
    <2>6. Once(t)
      <3> DEFINE from(i) == IF i < k THEN i ELSE i + 1
      <3>1. \A i \in 1 .. Len(s) - 1 : from(i) \in 1 .. Len(s) /\ t[i] = s[from(i)]
        BY <2>1, <2>2, <2>4
      <3>2. \A i, j \in 1 .. Len(s) - 1 : from(i) = from(j) => i = j
        BY <2>1, <2>2
      <3>3. \A i, j \in 1 .. Len(s) : s[i] = s[j] => i = j
        BY DEF Once
      <3> HIDE DEF from
      <3> QED
        BY <2>4, <3>1, <3>2, <3>3 DEF Once
    <2>7. ASSUME NEW v \in ToSet(t) PROVE v \in ToSet(s) \ {w}
      <3>1. PICK i \in 1 .. Len(s) - 1 : t[i] = v
        BY <2>5 DEF ToSet
      <3> QED
        BY <2>1, <2>2, <2>4, <3>1 DEF ToSet, Once
    <2>8. ASSUME NEW v \in ToSet(s) \ {w} PROVE v \in ToSet(t)
      <3>1. PICK i \in 1 .. Len(s) : s[i] = v
        BY <2>1 DEF ToSet
      <3>2. CASE i < k
        BY <2>1, <2>2, <2>4, <2>5, <3>1, <3>2 DEF ToSet
      <3>3. CASE i > k
        <4>1. i - 1 \in 1 .. Len(s) - 1 /\ t[i - 1] = v
          BY <2>1, <2>2, <2>4, <3>1, <3>3
        <4> QED
          BY <2>5, <4>1 DEF ToSet
      <3> QED
        BY <2>2, <3>1, <3>2, <3>3
    <2> QED
      BY <2>3, <2>6, <2>7, <2>8
  <1> QED
    BY <1>1, <1>2

-----------------------------------------------------------------------------
(* The invariant.                                                           *)

\* What a transfer is: its status can be set.
IsTransfer(t) ==
    \E r, b, l, a, e : t = [isRead |-> r, buffer |-> b, length |-> l, actual |-> a, state |-> e]

\* The queue is a ring of no more wrappers than there are, and every wrapper that
\* an endpoint uses is there once, at one endpoint, pending and in the queue.
RingInv == RingOK(queue) /\ queue.capacity <= MaxCapacity
EndpointsInv == Once(outbound) /\ Once(inbound) /\ ToSet(outbound) \cap ToSet(inbound) = {}
TransferInv ==
    /\ DOMAIN transfer = Wrappers
    /\ \A w \in Wrappers : IsTransfer(transfer[w])
    /\ \A w \in InFlight : transfer[w].state = "pending"
FlightInv == RingInv /\ EndpointsInv /\ TransferInv /\ InFlight \subseteq ToSet(Committed(queue))

LEMMA StateSet ==
    ASSUME NEW t, IsTransfer(t), NEW n, NEW e
    PROVE  IsTransfer(Moved(t, n, e)) /\ Moved(t, n, e).state = e
  <1>1. PICK r, b, l, a, f :
            t = [isRead |-> r, buffer |-> b, length |-> l, actual |-> a, state |-> f]
    BY DEF IsTransfer
  <1> DEFINE c == [isRead |-> r, buffer |-> b, length |-> l, actual |-> n, state |-> f]
             d == [isRead |-> r, buffer |-> b, length |-> l, actual |-> n, state |-> e]
  <1>2. [t EXCEPT !.actual = n] = c
    BY <1>1
  <1>3. [c EXCEPT !.state = e] = d
    OBVIOUS
  <1>4. Moved(t, n, e) = [[t EXCEPT !.actual = n] EXCEPT !.state = e]
    BY DEF Moved
  <1>5. Moved(t, n, e) = d
    <2> HIDE DEF c, d
    <2> QED
      BY <1>2, <1>3, <1>4
  <1>6. IsTransfer(d)
    BY DEF IsTransfer
  <1>7. d.state = e
    OBVIOUS
  <1> QED
    BY <1>5, <1>6, <1>7

LEMMA NewTransfer ==
    ASSUME NEW r, NEW b, NEW l
    PROVE  /\ IsTransfer(Filled(r, b, l)) /\ Filled(r, b, l).state = "pending"
           /\ IsTransfer(NoTransfer)
  BY DEF IsTransfer, Filled, NoTransfer

\* The items of a ring are wrappers.
LEMMA RingTypes ==
    ASSUME NEW q, RingOK(q), q.capacity <= MaxCapacity
    PROVE  /\ \A i \in 0 .. q.capacity - 1 : q.itemArray[i] \in Wrappers
           /\ ItemToPut(q) \in Wrappers /\ ItemToTake(q) \in Wrappers
           /\ q.capacity \in Nat /\ q.numItems \in Nat
           /\ Committed(q) \in Seq(Nat) /\ Len(Committed(q)) = q.numItems
           /\ DOMAIN Committed(q) = 1 .. q.numItems
  <1>1. q.capacity \in Nat /\ q.numItems \in Nat
    BY DEF RingOK, IsRing, Rings
  <1>2. /\ \A i \in 0 .. q.capacity - 1 : q.itemArray[i] \in Nat /\ q.itemArray[i] < q.capacity
        /\ q.putIndex \in 0 .. q.capacity - 1 /\ q.takeIndex \in 0 .. q.capacity - 1
    BY DEF RingOK, IsRing, Distinct, Indices
  <1>3. \A i \in 0 .. q.capacity - 1 : q.itemArray[i] \in Wrappers
    BY <1>1, <1>2, LinkAssumption DEF Wrappers
  <1>4. Committed(q) \in Seq(Nat) /\ Len(Committed(q)) = q.numItems
    BY CommittedType DEF RingOK
  <1> QED
    BY <1>1, <1>2, <1>3, <1>4 DEF ItemToPut, ItemToTake

\* A put within the bound: the ring stays one, the item it hands out is free.
LEMMA PutStep ==
    ASSUME NEW q, RingOK(q), q.capacity <= MaxCapacity, CanGrow(q)
    PROVE  /\ RingOK(queuePut(q)) /\ queuePut(q).capacity <= MaxCapacity
           /\ ~IsFull(queuePut(q))
           /\ Committed(queuePut(q)) = Committed(q)
           /\ ItemToPut(queuePut(q)) \in Wrappers
           /\ ItemToPut(queuePut(q)) \notin ToSet(Committed(q))
  <1> DEFINE p == queuePut(q)
  <1>1. /\ RingOK(p) /\ ~IsFull(p) /\ Committed(p) = Committed(q)
        /\ \A n \in 1 .. p.numItems : Committed(p)[n] # ItemToPut(p)
    BY PutHandsOutFree
  <1>2. p.capacity <= MaxCapacity
    BY DEF queuePut, Grown, CanGrow
  <1> HIDE DEF p
  <1>3. ItemToPut(p) \in Wrappers /\ DOMAIN Committed(p) = 1 .. p.numItems
    BY <1>1, <1>2, RingTypes
  <1> QED
    BY <1>1, <1>2, <1>3 DEF ToSet, p

\* A committed put adds its item to the queue.
LEMMA CommitStep ==
    ASSUME NEW q, RingOK(q), q.capacity <= MaxCapacity, ~IsFull(q)
    PROVE  /\ RingOK(queueCommitPut(q)) /\ queueCommitPut(q).capacity <= MaxCapacity
           /\ ToSet(Committed(queueCommitPut(q))) = ToSet(Committed(q)) \cup {ItemToPut(q)}
  <1> DEFINE s == Committed(q)
             w == ItemToPut(q)
             t == Append(s, w)
  <1>1. RingOK(queueCommitPut(q)) /\ Committed(queueCommitPut(q)) = t
    BY CommitAppends
  <1>2. queueCommitPut(q).capacity = q.capacity
    BY DEF queueCommitPut, RingOK, IsRing, Rings
  <1>3. s \in Seq(Nat) /\ DOMAIN s = 1 .. Len(s) /\ Len(s) \in Nat /\ w \in Nat
    BY RingTypes, LinkAssumption DEF Wrappers
  <1> HIDE DEF s, w
  <1>4. /\ DOMAIN t = 1 .. Len(s) + 1
        /\ \A i \in 1 .. Len(s) : t[i] = s[i]
        /\ t[Len(s) + 1] = w
    BY <1>3
  <1> HIDE DEF t
  <1>5. ASSUME NEW v \in ToSet(t) PROVE v \in ToSet(s) \cup {w}
    BY <1>3, <1>4, <1>5 DEF ToSet
  <1>6. ASSUME NEW v \in ToSet(s) PROVE v \in ToSet(t)
    BY <1>3, <1>4, <1>6 DEF ToSet
  <1>7. w \in ToSet(t)
    BY <1>3, <1>4 DEF ToSet
  <1>8. ToSet(t) = ToSet(s) \cup {w}
    BY <1>5, <1>6, <1>7
  <1> QED
    BY <1>1, <1>2, <1>8 DEF s, w

\* A committed take removes no more than its item from the queue.
LEMMA TakeStep ==
    ASSUME NEW q, RingOK(q), q.capacity <= MaxCapacity, queueSize(q) > 0
    PROVE  /\ RingOK(queueCommitTake(q)) /\ queueCommitTake(q).capacity <= MaxCapacity
           /\ ToSet(Committed(q)) \ {ItemToTake(q)} \subseteq ToSet(Committed(queueCommitTake(q)))
  <1> DEFINE s == Committed(q)
             w == ItemToTake(q)
  <1>1. /\ RingOK(queueCommitTake(q)) /\ Committed(queueCommitTake(q)) = Tail(s) /\ w = Head(s)
    BY TakeRemovesOldest, RingTypes DEF queueSize
  <1>2. queueCommitTake(q).capacity = q.capacity
    BY DEF queueCommitTake, RingOK, IsRing, Rings
  <1>3. s \in Seq(Nat) /\ DOMAIN s = 1 .. Len(s) /\ Len(s) \in Nat /\ Len(s) > 0
    BY RingTypes DEF queueSize
  <1> HIDE DEF s
  <1>4. /\ DOMAIN Tail(s) = 1 .. Len(s) - 1
        /\ \A i \in 1 .. Len(s) - 1 : Tail(s)[i] = s[i + 1]
        /\ Head(s) = s[1]
    BY <1>3
  <1>5. ASSUME NEW v \in ToSet(s) \ {Head(s)} PROVE v \in ToSet(Tail(s))
    <2>1. PICK i \in 1 .. Len(s) : s[i] = v
      BY <1>3 DEF ToSet
    <2>2. i - 1 \in 1 .. Len(s) - 1 /\ Tail(s)[i - 1] = v
      BY <1>3, <1>4, <1>5, <2>1
    <2> QED
      BY <1>4, <2>2 DEF ToSet
  <1> QED
    BY <1>1, <1>2, <1>5 DEF s

-----------------------------------------------------------------------------
(* What the steps do to the queue, the transfers and the endpoints.         *)

flight == <<queue, transfer, outbound, inbound>>

\* FlightInv reads these four variables and no more.
LEMMA FlightUnchanged ==
    ASSUME FlightInv, UNCHANGED flight
    PROVE  FlightInv'
  BY DEF FlightInv, RingInv, EndpointsInv, TransferInv, InFlight, flight

\* The oldest transfer leaves the queue when no endpoint uses it any more.
LEMMA TakeKeeps ==
    ASSUME FlightInv, TakeOldest, queueSize(queue) > 0,
           Once(outbound'), Once(inbound'),
           ToSet(outbound') \subseteq ToSet(outbound) \ {ItemToTake(queue)},
           ToSet(inbound') \subseteq ToSet(inbound) \ {ItemToTake(queue)}
    PROVE  FlightInv'
  <1> DEFINE x == ItemToTake(queue)
  <1>1. /\ RingInv' /\ ToSet(Committed(queue)) \ {x} \subseteq ToSet(Committed(queue'))
    BY TakeStep DEF FlightInv, RingInv, TakeOldest
  <1>2. InFlight' \subseteq InFlight \ {x}
    BY DEF InFlight
  <1>3. EndpointsInv'
    BY DEF FlightInv, EndpointsInv
  <1>4. transfer' = [transfer EXCEPT ![x] = NoTransfer]
    BY DEF TakeOldest
  <1> HIDE DEF x
  <1>5. /\ DOMAIN transfer = Wrappers /\ \A w \in Wrappers : IsTransfer(transfer[w])
        /\ \A w \in InFlight : transfer[w].state = "pending"
        /\ InFlight \subseteq Wrappers
    <2>1. /\ DOMAIN transfer = Wrappers /\ \A w \in Wrappers : IsTransfer(transfer[w])
          /\ \A w \in InFlight : transfer[w].state = "pending"
      BY DEF FlightInv, TransferInv
    <2>2. InFlight \subseteq Wrappers
      BY DEF FlightInv, EndpointsInv, Once, InFlight, ToSet
    <2> QED
      BY <2>1, <2>2
  <1>6. /\ DOMAIN transfer' = Wrappers
        /\ \A w \in Wrappers : w # x => transfer'[w] = transfer[w]
        /\ x \in Wrappers => transfer'[x] = NoTransfer
    BY <1>4, <1>5
  <1>7. TransferInv'
    <2>1. \A w \in Wrappers : IsTransfer(transfer'[w])
      BY <1>5, <1>6, NewTransfer
    <2>2. \A w \in InFlight' : transfer'[w].state = "pending"
      BY <1>2, <1>5, <1>6
    <2> QED
      BY <1>6, <2>1, <2>2 DEF TransferInv, Wrappers
  <1>8. InFlight' \subseteq ToSet(Committed(queue'))
    BY <1>1, <1>2 DEF FlightInv
  <1> QED
    BY <1>1, <1>3, <1>7, <1>8 DEF FlightInv

\* A put that is not committed changes the ring at most.
LEMMA PutKeeps ==
    ASSUME FlightInv, UNCHANGED <<transfer, outbound, inbound>>,
           queue' = queue \/ (CanGrow(queue) /\ queue' = queuePut(queue))
    PROVE  FlightInv'
  <1>1. CASE queue' = queue
    BY <1>1, FlightUnchanged DEF flight
  <1>2. CASE CanGrow(queue) /\ queue' = queuePut(queue)
    <2>1. RingInv' /\ Committed(queue') = Committed(queue)
      BY <1>2, PutStep DEF FlightInv, RingInv
    <2>2. InFlight' = InFlight
      BY DEF InFlight
    <2> QED
      BY <2>1, <2>2 DEF FlightInv, EndpointsInv, TransferInv
  <1> QED
    BY <1>1, <1>2

\* A submitted transfer is in the queue and at one endpoint.
LEMMA SubmitKeeps ==
    ASSUME FlightInv, CanGrow(queue), NEW w, w = ItemToPut(queuePut(queue)),
           NEW r, NEW b, NEW l, transfer' = [transfer EXCEPT ![w] = Filled(r, b, l)],
           \/ outbound' = outbound \o <<w>> /\ inbound' = inbound
           \/ outbound' = outbound /\ inbound' = inbound \o <<w>>,
           LET next == queueCommitPut(queuePut(queue))
           IN  queue' = next \/ (CanGrow(next) /\ queue' = queuePut(next))
    PROVE  FlightInv'
  <1> DEFINE q == queuePut(queue)
             next == queueCommitPut(q)
  <1>1. /\ RingOK(q) /\ q.capacity <= MaxCapacity /\ ~IsFull(q)
        /\ Committed(q) = Committed(queue)
        /\ w \in Wrappers /\ w \notin ToSet(Committed(queue))
    BY PutStep DEF FlightInv, RingInv
  <1>2. /\ RingOK(next) /\ next.capacity <= MaxCapacity
        /\ ToSet(Committed(next)) = ToSet(Committed(queue)) \cup {w}
    <2> HIDE DEF q
    <2>1. ItemToPut(q) = w
      BY DEF q
    <2> QED
      BY <1>1, <2>1, CommitStep
  <1>3. RingInv' /\ ToSet(Committed(queue')) = ToSet(Committed(queue)) \cup {w}
    <2> HIDE DEF q, next
    <2>1. queue' = next \/ (CanGrow(next) /\ queue' = queuePut(next))
      BY DEF q, next
    <2> QED
      BY <1>2, <2>1, PutStep DEF RingInv
  <1>4. w \notin ToSet(outbound) /\ w \notin ToSet(inbound)
    BY <1>1 DEF FlightInv, InFlight
  <1>5. EndpointsInv' /\ InFlight' = InFlight \cup {w}
    <2>1. /\ Once(outbound) /\ Once(inbound)
          /\ ToSet(outbound) \cap ToSet(inbound) = {}
      BY DEF FlightInv, EndpointsInv
    <2>2. CASE outbound' = outbound \o <<w>> /\ inbound' = inbound
      <3>1. Once(outbound') /\ ToSet(outbound') = ToSet(outbound) \cup {w}
        BY <1>1, <1>4, <2>1, <2>2, SubmitAdds
      <3>2. Once(inbound') /\ ToSet(inbound') = ToSet(inbound)
        BY <2>1, <2>2
      <3> QED
        BY <1>4, <2>1, <3>1, <3>2 DEF EndpointsInv, InFlight
    <2>3. CASE outbound' = outbound /\ inbound' = inbound \o <<w>>
      <3>1. Once(inbound') /\ ToSet(inbound') = ToSet(inbound) \cup {w}
        BY <1>1, <1>4, <2>1, <2>3, SubmitAdds
      <3>2. Once(outbound') /\ ToSet(outbound') = ToSet(outbound)
        BY <2>1, <2>3
      <3> QED
        BY <1>4, <2>1, <3>1, <3>2 DEF EndpointsInv, InFlight
    <2> QED
      BY <2>2, <2>3
  <1>6. /\ DOMAIN transfer = Wrappers /\ \A v \in Wrappers : IsTransfer(transfer[v])
        /\ \A v \in InFlight : transfer[v].state = "pending"
        /\ InFlight \subseteq Wrappers
    <2>1. /\ DOMAIN transfer = Wrappers /\ \A v \in Wrappers : IsTransfer(transfer[v])
          /\ \A v \in InFlight : transfer[v].state = "pending"
      BY DEF FlightInv, TransferInv
    <2>2. InFlight \subseteq Wrappers
      BY DEF FlightInv, EndpointsInv, Once, InFlight, ToSet
    <2> QED
      BY <2>1, <2>2
  <1>7. /\ DOMAIN transfer' = Wrappers
        /\ \A v \in Wrappers : v # w => transfer'[v] = transfer[v]
        /\ transfer'[w] = Filled(r, b, l)
    BY <1>1, <1>6
  <1>8. TransferInv'
    <2>1. \A v \in Wrappers : IsTransfer(transfer'[v])
      BY <1>6, <1>7, NewTransfer
    <2>2. \A v \in InFlight' : transfer'[v].state = "pending"
      BY <1>5, <1>6, <1>7, NewTransfer
    <2> QED
      BY <1>7, <2>1, <2>2 DEF TransferInv, Wrappers
  <1>9. InFlight' \subseteq ToSet(Committed(queue'))
    BY <1>3, <1>5 DEF FlightInv
  <1> QED
    BY <1>3, <1>5, <1>8, <1>9 DEF FlightInv

\* A packet moves, or a transfer ends: an endpoint keeps its oldest transfer,
\* still pending, or loses it.
LEMMA PacketKeeps ==
    ASSUME FlightInv, UNCHANGED queue,
           NEW w \in InFlight, NEW n, NEW e, Over(w, n, e),
           Once(outbound'), Once(inbound'),
           ToSet(outbound') \subseteq ToSet(outbound), ToSet(inbound') \subseteq ToSet(inbound),
           e = "pending" \/ w \notin InFlight'
    PROVE  FlightInv'
  <1>1. RingInv' /\ Committed(queue') = Committed(queue)
    BY DEF FlightInv, RingInv
  <1>2. EndpointsInv' /\ InFlight' \subseteq InFlight
    BY DEF FlightInv, EndpointsInv, InFlight
  <1>3. /\ DOMAIN transfer = Wrappers /\ \A v \in Wrappers : IsTransfer(transfer[v])
        /\ \A v \in InFlight : transfer[v].state = "pending"
    BY DEF FlightInv, TransferInv
  <1>4. InFlight \subseteq Wrappers
    BY DEF FlightInv, EndpointsInv, Once, InFlight, ToSet
  <1>5. w \in Wrappers
    BY <1>4
  <1>6. /\ DOMAIN transfer' = Wrappers
        /\ \A v \in Wrappers : v # w => transfer'[v] = transfer[v]
        /\ transfer'[w] = Moved(transfer[w], n, e)
    BY <1>3, <1>5 DEF Over
  <1>7. IsTransfer(transfer'[w]) /\ transfer'[w].state = e
    BY <1>3, <1>5, <1>6, StateSet
  <1>8. \A v \in Wrappers : IsTransfer(transfer'[v])
    BY <1>3, <1>6, <1>7
  <1>9. \A v \in InFlight' : transfer'[v].state = "pending"
    BY <1>2, <1>3, <1>4, <1>6, <1>7
  <1>10. TransferInv'
    BY <1>6, <1>8, <1>9 DEF TransferInv, Wrappers
  <1> QED
    BY <1>1, <1>2, <1>10 DEF FlightInv

-----------------------------------------------------------------------------
(* The steps of a call.                                                     *)

\* usbBulkAwaitCompletion: the oldest transfer is over, so that no endpoint has it.
LEMMA AwaitOldestKeeps == ASSUME FlightInv, AwaitOldest PROVE FlightInv'
  <1>1. /\ queueSize(queue) > 0 /\ transfer[ItemToTake(queue)].state # "pending"
        /\ TakeOldest /\ outbound' = outbound /\ inbound' = inbound
    BY DEF AwaitOldest
  <1>2. ItemToTake(queue) \notin InFlight
    BY <1>1 DEF FlightInv, TransferInv
  <1>3. Once(outbound) /\ Once(inbound)
    BY DEF FlightInv, EndpointsInv
  <1> QED
    BY <1>1, <1>2, <1>3, TakeKeeps DEF InFlight

\* A transfer that is waited for in vain is cancelled before it is taken.
LEMMA CancelKeeps ==
    ASSUME FlightInv, TakeOldest, queueSize(queue) > 0,
           outbound' = Without(outbound, ItemToTake(queue)),
           inbound' = Without(inbound, ItemToTake(queue))
    PROVE  FlightInv'
  <1>1. Once(outbound) /\ Once(inbound)
    BY DEF FlightInv, EndpointsInv
  <1>2. /\ Once(outbound') /\ ToSet(outbound') = ToSet(outbound) \ {ItemToTake(queue)}
        /\ Once(inbound') /\ ToSet(inbound') = ToSet(inbound) \ {ItemToTake(queue)}
    BY <1>1, WithoutDrops
  <1> QED
    BY <1>2, TakeKeeps

LEMMA AwaitKeeps == ASSUME FlightInv, Await PROVE FlightInv'
  <1>1. CASE AwaitOldest
    BY <1>1, AwaitOldestKeeps
  <1>2. CASE EventLoopFails
    BY <1>2, CancelKeeps DEF EventLoopFails
  <1> QED
    BY <1>1, <1>2 DEF Await

\* flClose takes every transfer, over or cancelled.
LEMMA DrainKeeps == ASSUME FlightInv, Drain PROVE FlightInv'
  <1>1. queueSize(queue) > 0 /\ TakeOldest
    BY DEF Drain
  <1>2. CASE transfer[ItemToTake(queue)].state # "pending" /\ UNCHANGED <<outbound, inbound>>
    <2>1. ItemToTake(queue) \notin InFlight
      BY <1>2 DEF FlightInv, TransferInv
    <2>2. Once(outbound) /\ Once(inbound)
      BY DEF FlightInv, EndpointsInv
    <2> QED
      BY <1>1, <1>2, <2>1, <2>2, TakeKeeps DEF InFlight
  <1>3. CASE /\ outbound' = Without(outbound, ItemToTake(queue))
             /\ inbound' = Without(inbound, ItemToTake(queue))
    BY <1>1, <1>3, CancelKeeps
  <1> QED
    BY <1>2, <1>3 DEF Drain

LEMMA SubmitFailsKeeps == ASSUME FlightInv, SubmitFails PROVE FlightInv'
  BY PutKeeps DEF SubmitFails, PutFails

LEMMA SubmitWriteKeeps ==
    ASSUME FlightInv, NEW n, SubmitWrite(n),
           LET next == queueCommitPut(queuePut(queue))
           IN  queue' = next \/ (CanGrow(next) /\ queue' = queuePut(next))
    PROVE  FlightInv'
  <1> DEFINE w == ItemToPut(queuePut(queue))
  <1>1. /\ CanGrow(queue) /\ transfer' = [transfer EXCEPT ![w] = Filled(FALSE, w, n)]
        /\ outbound' = outbound \o <<w>> /\ inbound' = inbound
    BY DEF SubmitWrite
  <1> HIDE DEF w
  <1>2. w = ItemToPut(queuePut(queue))
    BY DEF w
  <1> QED
    BY <1>1, <1>2, SubmitKeeps

\* bufferAppend.
LEMMA AppendKeeps == ASSUME FlightInv, bufferAppend PROVE FlightInv'
  <1>1. CASE PrepareBuffer
    BY <1>1, PutKeeps DEF PrepareBuffer
  <1>2. CASE AppendBalances
    BY <1>2, AwaitKeeps DEF AppendBalances
  <1>3. CASE FillAndSubmit
    <2>1. \/ SubmitFails
          \/ /\ SubmitWrite(chunkSize)
             /\ LET next == queueCommitPut(queuePut(queue))
                IN  queue' = next \/ (CanGrow(next) /\ queue' = queuePut(next))
      BY <1>3 DEF FillAndSubmit
    <2> QED
      BY <2>1, SubmitFailsKeeps, SubmitWriteKeeps
  <1>4. CASE AppendRest
    BY <1>4, FlightUnchanged DEF AppendRest, flight
  <1> QED
    BY <1>1, <1>2, <1>3, <1>4 DEF bufferAppend

\* flFlushAsyncWrites.
LEMMA FlushKeeps == ASSUME FlightInv, Flush PROVE FlightInv'
  <1>1. \/ SubmitFails
        \/ SubmitWrite(fill) /\ queue' = queueCommitPut(queuePut(queue))
        \/ UNCHANGED flight
    BY DEF Flush, flight
  <1> QED
    BY <1>1, SubmitFailsKeeps, SubmitWriteKeeps, FlightUnchanged

\* usbBulkReadAsync.
LEMMA ReadAsyncKeeps == ASSUME FlightInv, ReadAsync PROVE FlightInv'
  <1> DEFINE w == ItemToPut(queuePut(queue))
             b == IF Head(todo).buffer = None THEN w ELSE Head(todo).buffer
  <1>1. \/ /\ CanGrow(queue) /\ queue' = queueCommitPut(queuePut(queue))
           /\ transfer' = [transfer EXCEPT ![w] = Filled(TRUE, b, Head(todo).length)]
           /\ outbound' = outbound /\ inbound' = inbound \o <<w>>
        \/ PutFails /\ UNCHANGED <<transfer, outbound, inbound>>
    BY DEF ReadAsync
  <1>2. CASE PutFails /\ UNCHANGED <<transfer, outbound, inbound>>
    BY <1>2, PutKeeps DEF PutFails
  <1>3. CASE /\ CanGrow(queue) /\ queue' = queueCommitPut(queuePut(queue))
             /\ transfer' = [transfer EXCEPT ![w] = Filled(TRUE, b, Head(todo).length)]
             /\ outbound' = outbound /\ inbound' = inbound \o <<w>>
    <2> HIDE DEF b
    <2>1. w = ItemToPut(queuePut(queue))
      OBVIOUS
    <2> HIDE DEF w
    <2> QED
      BY <1>3, <2>1, SubmitKeeps
  <1> QED
    BY <1>1, <1>2, <1>3

LEMMA HostStepKeeps == ASSUME FlightInv, HostStep PROVE FlightInv'
  <1>1. CASE AwaitWrites \/ Balance \/ AwaitRead
    <2>1. Await \/ UNCHANGED flight
      BY <1>1 DEF AwaitWrites, Balance, AwaitRead, usbVars, flight
    <2> QED
      BY <2>1, AwaitKeeps, FlightUnchanged
  <1>2. CASE CloseDevice \/ OpenStep \/ GetStatus
    BY <1>2, FlightUnchanged DEF CloseDevice, OpenStep, GetStatus, usbVars, flight
  <1> QED
    BY <1>1, <1>2, AppendKeeps, FlushKeeps, ReadAsyncKeeps, DrainKeeps DEF HostStep

-----------------------------------------------------------------------------
(* The steps of the USB controllers.                                        *)

\* The first transfer of the OUT endpoint moves a packet or ends.
LEMMA OutboundKeeps ==
    ASSUME FlightInv, outbound # <<>>, UNCHANGED <<queue, inbound>>, NEW n, NEW e,
           Over(Head(outbound), n, e),
           (e = "pending" /\ outbound' = outbound) \/ outbound' = Tail(outbound)
    PROVE  FlightInv'
  <1> DEFINE w == Head(outbound)
  <1>1. /\ Once(outbound) /\ Once(inbound)
        /\ ToSet(inbound) \cap ToSet(outbound) = {}
    BY DEF FlightInv, EndpointsInv
  <1>2. /\ Once(Tail(outbound)) /\ ToSet(Tail(outbound)) = ToSet(outbound) \ {w}
        /\ w \in ToSet(outbound)
    BY <1>1, TailDropsHead
  <1>3. Over(w, n, e)
    OBVIOUS
  <1> HIDE DEF w
  <1>4. /\ w \in InFlight /\ Once(inbound') /\ Once(outbound')
        /\ ToSet(inbound') \subseteq ToSet(inbound) /\ ToSet(outbound') \subseteq ToSet(outbound)
        /\ e = "pending" \/ w \notin InFlight'
    BY <1>1, <1>2 DEF InFlight
  <1> QED
    BY <1>3, <1>4, PacketKeeps

\* The first transfer of the IN endpoint gets a packet or ends.
LEMMA InboundKeeps ==
    ASSUME FlightInv, inbound # <<>>, UNCHANGED <<queue, outbound>>, NEW n, NEW e,
           Over(Head(inbound), n, e),
           (e = "pending" /\ inbound' = inbound) \/ inbound' = Tail(inbound)
    PROVE  FlightInv'
  <1> DEFINE w == Head(inbound)
  <1>1. /\ Once(outbound) /\ Once(inbound)
        /\ ToSet(outbound) \cap ToSet(inbound) = {}
    BY DEF FlightInv, EndpointsInv
  <1>2. /\ Once(Tail(inbound)) /\ ToSet(Tail(inbound)) = ToSet(inbound) \ {w}
        /\ w \in ToSet(inbound)
    BY <1>1, TailDropsHead
  <1>3. Over(w, n, e)
    OBVIOUS
  <1> HIDE DEF w
  <1>4. /\ w \in InFlight /\ Once(outbound') /\ Once(inbound')
        /\ ToSet(outbound') \subseteq ToSet(outbound) /\ ToSet(inbound') \subseteq ToSet(inbound)
        /\ e = "pending" \/ w \notin InFlight'
    BY <1>1, <1>2 DEF InFlight
  <1> QED
    BY <1>3, <1>4, PacketKeeps

LEMMA MoveOutKeeps == ASSUME FlightInv, MoveOut PROVE FlightInv'
  <1>1. /\ outbound # <<>> /\ UNCHANGED <<queue, inbound>>
        /\ \E n, e : /\ Over(Head(outbound), n, e)
                     /\ \/ e = "pending" /\ outbound' = outbound
                        \/ outbound' = Tail(outbound)
    BY DEF MoveOut
  <1> QED
    BY <1>1, OutboundKeeps

LEMMA MoveInKeeps == ASSUME FlightInv, MoveIn PROVE FlightInv'
  <1>1. /\ inbound # <<>> /\ UNCHANGED <<queue, outbound>>
        /\ \E n, e : /\ Over(Head(inbound), n, e)
                     /\ \/ e = "pending" /\ inbound' = inbound
                        \/ inbound' = Tail(inbound)
    BY DEF MoveIn
  <1> QED
    BY <1>1, InboundKeeps

LEMMA TransferFailsKeeps == ASSUME FlightInv, TransferFails PROVE FlightInv'
  <1>1. UNCHANGED queue
    BY DEF TransferFails
  <1>2. CASE /\ outbound # <<>> /\ inbound' = inbound /\ outbound' = Tail(outbound)
             /\ Over(Head(outbound), transfer[Head(outbound)].actual, "error")
    BY <1>1, <1>2, OutboundKeeps
  <1>3. CASE /\ inbound # <<>> /\ outbound' = outbound /\ inbound' = Tail(inbound)
             /\ Over(Head(inbound), transfer[Head(inbound)].actual, "error")
    BY <1>1, <1>3, InboundKeeps
  <1> QED
    BY <1>2, <1>3 DEF TransferFails

-----------------------------------------------------------------------------
(* The theorem.                                                             *)

\* Nothing is in flight when the link is made, and the ring is a new one.
LEMMA InitFlight == Init => FlightInv
  <1> SUFFICES ASSUME Init PROVE FlightInv
    OBVIOUS
  <1>1. /\ queue = queueInit(InitialCapacity) /\ outbound = <<>> /\ inbound = <<>>
        /\ transfer = [w \in Wrappers |-> NoTransfer]
    BY DEF Init, LinkInit
  <1>2. RingInv
    BY <1>1, InitIsRing, LinkAssumption DEF RingInv, queueInit
  <1>3. Once(outbound) /\ Once(inbound) /\ InFlight = {}
    BY <1>1 DEF Once, InFlight, ToSet
  <1>4. EndpointsInv
    BY <1>3 DEF EndpointsInv, InFlight
  <1>5. TransferInv
    BY <1>1, <1>3, NewTransfer DEF TransferInv
  <1> QED
    BY <1>2, <1>3, <1>4, <1>5 DEF FlightInv

\* A call only sets its steps, and the FPGA's clock does not reach the host.
LEMMA CallsKeep == ASSUME FlightInv, Calling \/ Managing \/ Clocking PROVE FlightInv'
  <1>1. UNCHANGED flight
    <2>1. CASE Clocking
      BY <2>1 DEF Clocking, linkVars, usbVars, flight
    <2>2. CASE Managing
      BY <2>2 DEF Managing, flOpen, flClose, flSetAsyncWriteChunkSize, Refuse, Call, usbVars, flight
    <2>3. CASE Calling
      <3>1. Call
        BY <2>3 DEF Calling, Transferring, flWriteChannelAsync, flWriteChannel, WriteThen,
                    flFlushAsyncWrites, flAwaitAsyncWrites, flReadChannel,
                    flReadChannelAsyncSubmit, Read, flReadChannelAsyncAwait
      <3> QED
        BY <3>1 DEF Call, usbVars, flight
    <2> QED
      BY <2>1, <2>2, <2>3
  <1> QED
    BY <1>1, FlightUnchanged

\* Any step.
LEMMA NextFlight == FlightInv /\ [Next]_vars => FlightInv'
  <1> SUFFICES ASSUME FlightInv, [Next]_vars PROVE FlightInv'
    OBVIOUS
  <1>1. CASE UNCHANGED vars
    BY <1>1, FlightUnchanged DEF vars, linkVars, usbVars, flight
  <1>2. CASE Calling \/ Managing \/ Clocking
    BY <1>2, CallsKeep
  <1>3. CASE Working
    BY <1>3, HostStepKeeps DEF Working
  <1>4. CASE MoveOut \/ MoveIn \/ TransferFails
    BY <1>4, MoveOutKeeps, MoveInKeeps, TransferFailsKeeps
  <1> QED
    BY <1>1, <1>2, <1>3, <1>4 DEF Next

\* For every capacity, depth and number of calls and failures, the wrappers that
\* the USB stack uses are in the queue, so that queuePut (unbounded_queue.c:49)
\* never hands one of them out, and the ring holds no wrapper twice, also after
\* it has grown (:51) and when a transfer was cancelled (libusbwrap.c:530).
THEOREM FlightIsQueued == Spec => []QueueHoldsInFlight
  <1>1. FlightInv => QueueHoldsInFlight
    BY DEF FlightInv, RingInv, RingOK, Distinct, Indices, QueueHoldsInFlight
  <1> QED
    BY <1>1, InitFlight, NextFlight, PTL DEF Spec

-----------------------------------------------------------------------------
(* Sequences that are put together, and induction for them.                 *)

\* A set of numbers has a least one: what an induction rests on.
LEMMA Least ==
    ASSUME NEW T, T \subseteq Nat, T # {}
    PROVE  \E x \in T : \A y \in T : ~(y < x)
  <1> DEFINE below == OpToRel(<, Nat)
  <1>1. IsWellFoundedOn(below, Nat)
    BY NatLessThanWellFounded
  <1>2. \A x, y \in Nat : y < x => <<y, x>> \in below
    BY DEF OpToRel
  <1> HIDE DEF below
  <1>3. PICK x \in T : \A y \in T : <<y, x>> \notin below
    BY <1>1, WFMin
  <1> QED
    BY <1>2, <1>3

\* A set that has 1 and the successors of its members has all up to n.
LEMMA Counting ==
    ASSUME NEW n \in Nat, NEW T, 1 \in T, \A i \in 2 .. n : i - 1 \in T => i \in T
    PROVE  1 .. n \subseteq T
  <1> DEFINE missed == (1 .. n) \ T
  <1>1. SUFFICES ASSUME missed # {} PROVE FALSE
    OBVIOUS
  <1>2. PICK x \in missed : \A y \in missed : ~(y < x)
    <2>1. missed \subseteq Nat
      OBVIOUS
    <2> HIDE DEF missed
    <2> QED
      BY <1>1, <2>1, Least
  <1>3. x \in 2 .. n /\ x - 1 \in 1 .. n /\ x - 1 < x
    BY <1>2
  <1> QED
    BY <1>2, <1>3

\* The sequences that FlattenSeq goes through on its way.
Flattens(f, s, n) == \A i \in 1 .. n : f[i] = IF i = 1 THEN s[1] ELSE f[i - 1] \o s[i]

\* There are such sequences, all in a set that concatenation does not leave.
LEMMA FlattensExists ==
    ASSUME NEW T, \A a, b \in T : a \o b \in T, NEW s \in Seq(T), s # <<>>
    PROVE  \E f \in [1 .. Len(s) -> T] : Flattens(f, s, Len(s))
  <1> DEFINE Reached == {n \in 1 .. Len(s) : \E f \in [1 .. n -> T] : Flattens(f, s, n)}
  <1>1. Len(s) \in Nat /\ Len(s) > 0 /\ \A i \in 1 .. Len(s) : s[i] \in T
    OBVIOUS
  <1>2. 1 \in Reached
    <2>1. [i \in 1 .. 1 |-> s[1]] \in [1 .. 1 -> T]
      BY <1>1
    <2>2. Flattens([i \in 1 .. 1 |-> s[1]], s, 1)
      BY DEF Flattens
    <2> QED BY <1>1, <2>1, <2>2
  <1>3. ASSUME NEW n \in 2 .. Len(s), n - 1 \in Reached PROVE n \in Reached
    <2>1. PICK f \in [1 .. n - 1 -> T] : Flattens(f, s, n - 1)
      BY <1>3
    <2> DEFINE g == [i \in 1 .. n |-> IF i = n THEN f[n - 1] \o s[n] ELSE f[i]]
    <2>2. f[n - 1] \o s[n] \in T
      BY <1>1, <2>1
    <2>3. g \in [1 .. n -> T]
      BY <2>1, <2>2
    <2>4. Flattens(g, s, n)
      <3> SUFFICES ASSUME NEW i \in 1 .. n PROVE g[i] = IF i = 1 THEN s[1] ELSE g[i - 1] \o s[i]
        BY DEF Flattens
      <3>1. CASE i = n
        <4>1. n \in Int /\ n # 1 /\ n # n - 1 /\ n - 1 \in 1 .. n /\ n \in 1 .. n
          BY <1>1
        <4>2. \A j \in 1 .. n : g[j] = IF j = n THEN f[n - 1] \o s[n] ELSE f[j]
          OBVIOUS
        <4> HIDE DEF g
        <4>3. g[n - 1] = f[n - 1]
          BY <4>1, <4>2
        <4>4. g[n] = f[n - 1] \o s[n]
          BY <4>1, <4>2
        <4> QED BY <3>1, <4>1, <4>3, <4>4
      <3>2. CASE i # n
        <4>1. i \in 1 .. n - 1 /\ g[i] = f[i] /\ (i # 1 => g[i - 1] = f[i - 1])
          BY <3>2
        <4>2. \A j \in 1 .. n - 1 : f[j] = IF j = 1 THEN s[1] ELSE f[j - 1] \o s[j]
          BY <2>1 DEF Flattens
        <4> HIDE DEF g
        <4>3. f[i] = IF i = 1 THEN s[1] ELSE f[i - 1] \o s[i]
          BY <4>1, <4>2
        <4>4. CASE i = 1
          BY <4>1, <4>3, <4>4
        <4>5. CASE i # 1
          <5>1. f[i] = f[i - 1] \o s[i]
            BY <4>3, <4>5
          <5> QED BY <4>1, <4>5, <5>1
        <4> QED BY <4>4, <4>5
      <3> QED BY <3>1, <3>2
    <2>5. n \in 1 .. Len(s)
      BY <1>1
    <2> HIDE DEF g
    <2> QED BY <2>3, <2>4, <2>5
  <1>4. Len(s) \in Reached
    <2>0. \A n \in 2 .. Len(s) : n - 1 \in Reached => n \in Reached
      BY <1>3
    <2> HIDE DEF Reached
    <2>1. 1 .. Len(s) \subseteq Reached
      BY <1>1, <1>2, <2>0, Counting
    <2> QED BY <1>1, <2>1
  <1> QED BY <1>4

\* FlattenSeq does not leave such a set.
LEMMA FlattenStays ==
    ASSUME NEW T, \A a, b \in T : a \o b \in T, NEW s \in Seq(T), s # <<>>
    PROVE  FlattenSeq(s) \in T
  <1> DEFINE n == Len(s)
             Sums(f) == f = [i \in 1 .. n |-> IF i = 1 THEN s[i] ELSE f[i - 1] \o s[i]]
             sums == CHOOSE f : Sums(f)
  <1>1. n \in Nat /\ n > 0
    OBVIOUS
  <1>2. PICK f \in [1 .. n -> T] : Flattens(f, s, n)
    BY FlattensExists
  <1>3. Sums(f)
    <2> DEFINE g == [i \in 1 .. n |-> IF i = 1 THEN s[i] ELSE f[i - 1] \o s[i]]
    <2>1. \A i \in 1 .. n : f[i] = g[i]
      BY <1>2 DEF Flattens
    <2>2. DOMAIN g = 1 .. n /\ DOMAIN f = 1 .. n /\ f = [i \in 1 .. n |-> f[i]]
      BY <1>2
    <2>3. f = g
      BY <2>1, <2>2
    <2> QED BY <2>3
  <1>4. Sums(sums)
    <2> HIDE DEF Sums
    <2> QED BY <1>3
  <1>5. FlattenSeq(s) = sums[n]
    BY <1>1 DEF FlattenSeq
  <1> HIDE DEF sums
  <1>6. \A i \in 1 .. n : sums[i] = IF i = 1 THEN s[i] ELSE sums[i - 1] \o s[i]
    BY <1>4
  <1> DEFINE In == {i \in 1 .. n : sums[i] \in T}
  <1>7. 1 \in In
    BY <1>1, <1>6
  <1>8. ASSUME NEW i \in 2 .. n, i - 1 \in In PROVE i \in In
    <2>1. s[i] \in T /\ sums[i - 1] \in T /\ i # 1 /\ i \in 1 .. n
      BY <1>8
    <2>2. sums[i] = sums[i - 1] \o s[i]
      BY <1>6, <2>1
    <2>3. sums[i - 1] \o s[i] \in T
      BY <2>1
    <2> QED BY <2>1, <2>2, <2>3
  <1> HIDE DEF In
  <1>9. n \in In
    <2>1. 1 .. n \subseteq In
      BY <1>1, <1>7, <1>8, Counting
    <2> QED BY <1>1, <2>1
  <1> QED BY <1>5, <1>9 DEF In

-----------------------------------------------------------------------------
(* The steps that the calls are made of.                                    *)

\* The steps that calls are made of.
CallersBuffers == MaxCapacity .. None - 1
Steps == [do : {"append"}, bytes : Seq(Nat) \ {<<>>}]
         \cup [do : {"flush", "awaitWrites", "balance", "drain", "getStatus"}]
         \cup [do : {"readAsync"}, buffer : CallersBuffers \cup {None}, length : Nat]
         \cup [do : {"awaitRead"}, whole : BOOLEAN]
         \cup [do : {"open"}, get : SUBSET Everything, drop : SUBSET Everything]

\* The steps of the calls that transfer: a read is queued after the command for it
\* was flushed and the depth balanced.
Routines(lends) ==
    {t \in Seq(Steps) : \A i \in 1 .. Len(t) :
        /\ t[i].do \notin {"open", "getStatus", "drain"}
        /\ t[i].do \in {"balance", "awaitWrites"} => i > 1 /\ t[i - 1].do = "flush"
        /\ t[i].do = "readAsync" => i > 1 /\ t[i - 1].do = "balance"
        /\ t[i].do = "readAsync" /\ ~lends => t[i].buffer # None}

\* A message can have a byte.
LEMMA MaxLengthType == MaxLength \in Nat \ {0}
  BY FormatAssumption DEF MaxLength

\* What the steps carry.
LEMMA StepTypes ==
    ASSUME NEW s \in Steps
    PROVE  /\ s.do = "append" => s.bytes \in Seq(Nat) /\ s.bytes # <<>>
           /\ s.do = "readAsync" => s.buffer \in CallersBuffers \cup {None}
  BY DEF Steps

\* One routine after another is one.
LEMMA RoutinesConcat ==
    ASSUME NEW lends, NEW a \in Routines(lends), NEW b \in Routines(lends)
    PROVE  a \o b \in Routines(lends)
  <1> DEFINE t == a \o b
             InOrder(s, i) ==
                /\ s[i].do \notin {"open", "getStatus", "drain"}
                /\ s[i].do \in {"balance", "awaitWrites"} => i > 1 /\ s[i - 1].do = "flush"
                /\ s[i].do = "readAsync" => i > 1 /\ s[i - 1].do = "balance"
                /\ s[i].do = "readAsync" /\ ~lends => s[i].buffer # None
  <1>1. /\ a \in Seq(Steps) /\ \A i \in 1 .. Len(a) : InOrder(a, i)
        /\ b \in Seq(Steps) /\ \A i \in 1 .. Len(b) : InOrder(b, i)
    BY DEF Routines
  <1>2. /\ t \in Seq(Steps) /\ Len(t) = Len(a) + Len(b)
        /\ \A i \in 1 .. Len(a) : t[i] = a[i]
        /\ \A i \in 1 .. Len(b) : t[Len(a) + i] = b[i]
    BY <1>1
  <1>3. Len(a) \in Nat /\ Len(b) \in Nat
    BY <1>1
  <1> HIDE DEF t
  <1>4. \A i \in 1 .. Len(t) : InOrder(t, i)
    <2> SUFFICES ASSUME NEW i \in 1 .. Len(t) PROVE InOrder(t, i)
      OBVIOUS
    <2>1. CASE i <= Len(a)
      <3>1. i \in 1 .. Len(a) /\ t[i] = a[i] /\ (i > 1 => t[i - 1] = a[i - 1])
        BY <1>2, <1>3, <2>1
      <3>2. InOrder(a, i)
        BY <1>1, <3>1
      <3> QED BY <3>1, <3>2
    <2>2. CASE i > Len(a)
      <3> DEFINE j == i - Len(a)
      <3>1. j \in 1 .. Len(b) /\ i = Len(a) + j /\ i \in Int
        BY <1>2, <1>3, <2>2
      <3>2. t[i] = b[j]
        BY <1>2, <3>1
      <3>3. j > 1 => j - 1 \in 1 .. Len(b) /\ i - 1 = Len(a) + (j - 1) /\ i > 1
        BY <1>3, <3>1
      <3>4. j > 1 => t[i - 1] = b[j - 1]
        BY <1>2, <3>3
      <3> HIDE DEF j
      <3>5. InOrder(b, j)
        BY <1>1, <3>1
      <3> QED BY <3>2, <3>3, <3>4, <3>5
    <2> QED BY <1>2, <1>3, <2>1, <2>2
  <1> QED BY <1>2, <1>4 DEF Routines, t

\* The messages that a transfer is cut into, none of them empty.
LEMMA PiecesType ==
    ASSUME NEW n \in Nat, n # 0
    PROVE  Pieces(n) \in Seq(Nat \ {0}) /\ Pieces(n) # <<>>
  <1> DEFINE whole == [i \in 1 .. n \div MaxLength |-> MaxLength]
             rest == IF n % MaxLength = 0 THEN <<>> ELSE <<n % MaxLength>>
             d == n \div MaxLength
             r == n % MaxLength
  <1>1. MaxLength \in Nat /\ MaxLength > 0
    BY MaxLengthType
  <1>2. d \in Nat /\ r \in Nat /\ (d = 0 => r = n)
    <2>1. n \div MaxLength \in Nat /\ n % MaxLength \in Nat
      BY <1>1
    <2>2. n \div MaxLength = 0 => n % MaxLength = n
      BY <1>1
    <2> QED BY <2>1, <2>2
  <1>3. whole = [i \in 1 .. d |-> MaxLength] /\ rest = IF r = 0 THEN <<>> ELSE <<r>>
    OBVIOUS
  <1>4. Pieces(n) = whole \o rest
    BY DEF Pieces
  <1> HIDE DEF d, r, whole, rest
  <1> DEFINE Sizes == Nat \ {0}
  <1>10. MaxLength \in Sizes /\ (r # 0 => r \in Sizes)
    BY <1>1, <1>2
  <1> HIDE DEF Sizes
  <1>5. whole \in Seq(Sizes) /\ Len(whole) = d
    BY <1>10, <1>2, <1>3
  <1>6. rest \in Seq(Sizes) /\ (r # 0 => Len(rest) = 1) /\ Len(rest) \in Nat
    <2>1. CASE r = 0
      BY <1>3, <2>1
    <2>2. CASE r # 0
      BY <1>3, <1>10, <2>2
    <2> QED BY <2>1, <2>2
  <1>7. whole \o rest \in Seq(Sizes) /\ Len(whole \o rest) = Len(whole) + Len(rest)
    BY <1>5, <1>6
  <1>8. Len(whole) + Len(rest) > 0
    BY <1>2, <1>5, <1>6
  <1>9. whole \o rest # <<>>
    BY <1>7, <1>8
  <1> QED BY <1>4, <1>7, <1>9 DEF Sizes

\* What starts with something is not empty.
LEMMA ConcatNotEmpty ==
    ASSUME NEW S, NEW a \in Seq(S), a # <<>>, NEW b \in Seq(S)
    PROVE  a \o b \in Seq(S) /\ a \o b # <<>>
  <1>1. /\ a \o b \in Seq(S) /\ Len(a \o b) = Len(a) + Len(b)
        /\ Len(b) \in Nat /\ Len(a) \in Nat /\ Len(a) # 0
    OBVIOUS
  <1>2. Len(a \o b) # 0
    BY <1>1
  <1> QED BY <1>1, <1>2

\* The command of a message.
LEMMA CommandType ==
    ASSUME NEW chan \in Nat, NEW read \in BOOLEAN, NEW n \in Nat
    PROVE  Command(chan, read, n) \in Steps /\ Command(chan, read, n).do = "append"
  <1> DEFINE first == chan + (IF read THEN Channels ELSE 0)
             high == (n \div Radix) % Radix
             low == n % Radix
             bytes == <<first>> \o LengthBytes(n)
  <1>1. first \in Nat
    BY FormatAssumption
  <1>2. Radix \in Nat /\ Radix > 0
    BY FormatAssumption
  <1>3. n \div Radix \in Nat /\ low \in Nat
    BY <1>2
  <1>4. high \in Nat
    <2> DEFINE d == n \div Radix
    <2>1. d \in Nat
      BY <1>3
    <2> HIDE DEF d
    <2>2. d % Radix \in Nat
      BY <1>2, <2>1
    <2> QED BY <2>2 DEF d
  <1>5. LengthBytes(n) = <<high, low>>
    BY DEF LengthBytes
  <1> HIDE DEF first, high, low
  <1>6. <<first>> \in Seq(Nat) /\ <<high, low>> \in Seq(Nat) /\ <<first>> # <<>>
    BY <1>1, <1>3, <1>4
  <1>7. bytes \in Seq(Nat) /\ bytes # <<>>
    <2>1. <<first>> \o <<high, low>> \in Seq(Nat) /\ <<first>> \o <<high, low>> # <<>>
      BY <1>6, ConcatNotEmpty
    <2> QED BY <1>5, <2>1
  <1>8. Command(chan, read, n) = [do |-> "append", bytes |-> bytes]
    BY DEF Command, Collect, first
  <1> HIDE DEF bytes
  <1> QED BY <1>7, <1>8 DEF Steps

\* The places of the bytes and the reads of the calls.
HistoryTypes ==
    /\ asked \in Seq([chan : Nat, read : BOOLEAN, byte : Nat])
    /\ reads \in Seq([first : Nat, count : Nat, borrowed : BOOLEAN])

\* They are finite.
LEMMA HistoryLengths == HistoryTypes => Len(asked) \in Nat /\ Len(reads) \in Nat
  BY DEF HistoryTypes

\* The data of a message.
LEMMA DataType ==
    ASSUME HistoryTypes, NEW at \in Nat, NEW p \in Nat \ {0}
    PROVE  LET s == Collect([k \in 1 .. p |-> Len(asked) + at + k])
           IN  s \in Steps /\ s.do = "append"
  <1> DEFINE bytes == [k \in 1 .. p |-> Len(asked) + at + k]
  <1>1. \A k \in 1 .. p : Len(asked) + at + k \in Nat
    BY HistoryLengths
  <1>2. bytes \in Seq(Nat) /\ Len(bytes) = p
    BY <1>1
  <1>3. Collect(bytes) = [do |-> "append", bytes |-> bytes]
    BY DEF Collect
  <1> HIDE DEF bytes
  <1>4. bytes # <<>>
    BY <1>2
  <1>5. Collect(bytes) \in Steps /\ Collect(bytes).do = "append"
    BY <1>2, <1>3, <1>4 DEF Steps
  <1> QED BY <1>5 DEF bytes

\* The short routines.
LEMMA AppendsRoutine ==
    ASSUME NEW lends, NEW s \in Steps, NEW t \in Steps, s.do = "append", t.do = "append"
    PROVE  <<s, t>> \in Routines(lends)
  <1> DEFINE r == <<s, t>>
  <1>1. r \in Seq(Steps) /\ Len(r) = 2 /\ r[1].do = "append" /\ r[2].do = "append"
    OBVIOUS
  <1> HIDE DEF r
  <1>2. \A i \in 1 .. Len(r) : r[i].do = "append"
    BY <1>1
  <1> QED BY <1>1, <1>2 DEF Routines, r

\* flReadChannelAsyncSubmit.
LEMMA SubmitRoutine ==
    ASSUME NEW lends, NEW chan \in Nat, NEW n \in Nat, NEW b \in CallersBuffers \cup {None},
           lends \/ b # None
    PROVE  SubmitSteps(chan, n, b) \in Routines(lends)
  <1> DEFINE c == Command(chan, TRUE, n)
             f == [do |-> "flush"]
             l == [do |-> "balance"]
             a == [do |-> "readAsync", buffer |-> b, length |-> n]
             r == <<c, f, l, a>>
  <1>1. c \in Steps /\ c.do = "append"
    BY CommandType
  <1>2. f \in Steps /\ l \in Steps /\ a \in Steps
    BY DEF Steps
  <1>3. f.do = "flush" /\ l.do = "balance" /\ a.do = "readAsync" /\ a.buffer = b
    OBVIOUS
  <1>4. SubmitSteps(chan, n, b) = r
    BY DEF SubmitSteps
  <1> HIDE DEF c, f, l, a
  <1>5. /\ r \in Seq(Steps) /\ Len(r) = 4
        /\ r[1] = c /\ r[2] = f /\ r[3] = l /\ r[4] = a
    BY <1>1, <1>2
  <1> HIDE DEF r
  <1>6. \A i \in 1 .. Len(r) :
            /\ r[i].do \notin {"open", "getStatus", "drain"}
            /\ r[i].do \in {"balance", "awaitWrites"} => i > 1 /\ r[i - 1].do = "flush"
            /\ r[i].do = "readAsync" => i > 1 /\ r[i - 1].do = "balance"
            /\ r[i].do = "readAsync" /\ ~lends => r[i].buffer # None
    <2> SUFFICES ASSUME NEW i \in 1 .. 4
                 PROVE  /\ r[i].do \notin {"open", "getStatus", "drain"}
                        /\ r[i].do \in {"balance", "awaitWrites"} => i > 1 /\ r[i - 1].do = "flush"
                        /\ r[i].do = "readAsync" => i > 1 /\ r[i - 1].do = "balance"
                        /\ r[i].do = "readAsync" /\ ~lends => r[i].buffer # None
      BY <1>5
    <2>1. CASE i = 1
      BY <1>1, <1>5, <2>1
    <2>2. CASE i = 2
      BY <1>3, <1>5, <2>2
    <2>3. CASE i = 3
      <3>1. r[i] = l /\ r[i - 1] = f /\ i > 1
        BY <1>5, <2>3
      <3> QED BY <1>3, <3>1
    <2>4. CASE i = 4
      <3>1. r[i] = a /\ r[i - 1] = l /\ i > 1
        BY <1>5, <2>4
      <3> QED BY <1>3, <3>1
    <2> QED BY <2>1, <2>2, <2>3, <2>4
  <1> QED BY <1>4, <1>5, <1>6 DEF Routines

\* Nothing to do.
LEMMA EmptyRoutine ==
    ASSUME NEW lends
    PROVE  <<>> \in Routines(lends)
  BY DEF Routines

\* A step that needs none before it.
LEMMA OneRoutine ==
    ASSUME NEW lends, NEW s \in Steps, s.do \in {"append", "flush", "awaitRead"}
    PROVE  <<s>> \in Routines(lends)
  <1> DEFINE r == <<s>>
  <1>1. r \in Seq(Steps) /\ Len(r) = 1 /\ r[1] = s
    OBVIOUS
  <1> HIDE DEF r
  <1>2. \A i \in 1 .. Len(r) : r[i].do \in {"append", "flush", "awaitRead"}
    BY <1>1
  <1> QED BY <1>1, <1>2 DEF Routines, r

\* flReadChannelAsyncAwait.
LEMMA AwaitRoutine ==
    ASSUME NEW lends, NEW whole \in BOOLEAN
    PROVE  AwaitStep(whole) \in Routines(lends)
  <1> DEFINE s == [do |-> "awaitRead", whole |-> whole]
  <1>1. s \in Steps /\ s.do = "awaitRead" /\ AwaitStep(whole) = <<s>>
    BY DEF Steps, AwaitStep
  <1> HIDE DEF s
  <1> QED BY <1>1, OneRoutine

\* flFlushAsyncWrites.
LEMMA FlushRoutine == ASSUME NEW lends PROVE <<[do |-> "flush"]>> \in Routines(lends)
  <1> DEFINE s == [do |-> "flush"]
  <1>1. s \in Steps /\ s.do = "flush"
    BY DEF Steps
  <1> HIDE DEF s
  <1>2. <<s>> \in Routines(lends)
    BY <1>1, OneRoutine
  <1> QED BY <1>2 DEF s

\* flAwaitAsyncWrites.
LEMMA SettleRoutine == ASSUME NEW lends PROVE Settle \in Routines(lends)
  <1> DEFINE f == [do |-> "flush"]
             a == [do |-> "awaitWrites"]
             r == <<f, a>>
  <1>1. f \in Steps /\ f.do = "flush" /\ a \in Steps /\ a.do = "awaitWrites"
    BY DEF Steps
  <1>2. Settle = r
    BY DEF Settle
  <1> HIDE DEF f, a
  <1>3. r \in Seq(Steps) /\ Len(r) = 2 /\ r[1] = f /\ r[2] = a
    BY <1>1
  <1> HIDE DEF r
  <1>4. \A i \in 1 .. 2 : i = 1 \/ (i = 2 /\ i > 1 /\ i - 1 = 1)
    OBVIOUS
  <1>5. \A i \in 1 .. Len(r) :
            r[i].do = "flush" \/ (r[i].do = "awaitWrites" /\ i > 1 /\ r[i - 1].do = "flush")
    BY <1>1, <1>3, <1>4
  <1> QED BY <1>2, <1>3, <1>5 DEF Routines

\* flWriteChannelAsync.
LEMMA WriteRoutine ==
    ASSUME NEW lends, HistoryTypes, NEW chan \in Nat, NEW n \in Nat, n # 0
    PROVE  WriteSteps(chan, n) \in Routines(lends)
  <1> DEFINE p == Pieces(n)
             data(i) == Collect([k \in 1 .. p[i] |-> Len(asked) + (i - 1) * MaxLength + k])
             message(i) == <<Command(chan, FALSE, p[i]), data(i)>>
             messages == [i \in DOMAIN p |-> message(i)]
             R == Routines(lends)
  <1>1. p \in Seq(Nat \ {0}) /\ p # <<>>
    BY PiecesType
  <1>2. WriteSteps(chan, n) = FlattenSeq(messages)
    BY DEF WriteSteps
  <1> HIDE DEF p
  <1>3. DOMAIN p = 1 .. Len(p) /\ Len(p) \in Nat /\ Len(p) > 0
    BY <1>1
  <1>4. ASSUME NEW i \in 1 .. Len(p) PROVE message(i) \in R
    <2>1. p[i] \in Nat \ {0} /\ i \in Nat /\ i >= 1
      BY <1>1, <1>3
    <2>2. (i - 1) * MaxLength \in Nat
      <3> DEFINE j == i - 1
      <3>1. j \in Nat /\ MaxLength \in Nat
        BY <2>1, MaxLengthType
      <3> HIDE DEF j
      <3>2. j * MaxLength \in Nat
        BY <3>1
      <3> QED BY <3>2 DEF j
    <2>3. data(i) \in Steps /\ data(i).do = "append"
      BY <2>1, <2>2, DataType
    <2>4. Command(chan, FALSE, p[i]) \in Steps /\ Command(chan, FALSE, p[i]).do = "append"
      BY <2>1, CommandType
    <2> HIDE DEF data
    <2> QED BY <2>3, <2>4, AppendsRoutine
  <1> HIDE DEF message, R
  <1>5. messages \in Seq(R) /\ Len(messages) = Len(p)
    BY <1>3, <1>4
  <1> HIDE DEF messages
  <1>6. messages # <<>>
    BY <1>3, <1>5
  <1>7. \A a, b \in R : a \o b \in R
    BY RoutinesConcat DEF R
  <1>8. FlattenSeq(messages) \in R
    BY <1>5, <1>6, <1>7, FlattenStays
  <1> QED BY <1>2, <1>8 DEF R

\* flReadChannel.
LEMMA ReadRoutine ==
    ASSUME NEW lends, HistoryTypes, NEW chan \in Nat, NEW n \in Nat, n # 0,
           Len(reads) + Len(Pieces(n)) <= MaxReads
    PROVE  ReadSteps(chan, n) \in Routines(lends)
  <1> DEFINE p == Pieces(n)
             queues(i) == SubmitSteps(chan, p[i], CallersBuffer(Len(reads) + i))
             waits(i) == IF i > 1 THEN AwaitStep(TRUE) ELSE <<>>
             message(i) == queues(i) \o waits(i)
             messages == [i \in DOMAIN p |-> message(i)]
             R == Routines(lends)
  <1>1. p \in Seq(Nat \ {0}) /\ p # <<>>
    BY PiecesType
  <1>2. ReadSteps(chan, n) = FlattenSeq(messages) \o AwaitStep(TRUE)
    BY DEF ReadSteps
  <1>0. Len(reads) + Len(p) <= MaxReads
    OBVIOUS
  <1> HIDE DEF p
  <1>3. DOMAIN p = 1 .. Len(p) /\ Len(p) \in Nat /\ Len(p) > 0
    BY <1>1
  <1>4. ASSUME NEW i \in 1 .. Len(p) PROVE message(i) \in R
    <2>1. p[i] \in Nat /\ i \in Nat /\ i >= 1 /\ i <= Len(p)
      BY <1>1, <1>3
    <2>2. CallersBuffer(Len(reads) + i) \in CallersBuffers /\ CallersBuffer(Len(reads) + i) # None
      BY <1>0, <1>3, <2>1, HistoryLengths, LinkAssumption DEF CallersBuffer, CallersBuffers, None
    <2>3. queues(i) \in R
      BY <2>1, <2>2, SubmitRoutine
    <2>4. waits(i) \in R
      BY AwaitRoutine, EmptyRoutine
    <2> HIDE DEF queues, waits, R
    <2>5. \A a, b \in R : a \o b \in R
      BY RoutinesConcat DEF R
    <2> QED BY <2>3, <2>4, <2>5
  <1> HIDE DEF message, R
  <1>5. messages \in Seq(R) /\ Len(messages) = Len(p)
    BY <1>3, <1>4
  <1> HIDE DEF messages
  <1>6. messages # <<>>
    BY <1>3, <1>5
  <1>7. \A a, b \in R : a \o b \in R
    BY RoutinesConcat DEF R
  <1>8. FlattenSeq(messages) \in R
    BY <1>5, <1>6, <1>7, FlattenStays
  <1>9. AwaitStep(TRUE) \in R
    BY AwaitRoutine DEF R
  <1> QED BY <1>2, <1>7, <1>8, <1>9 DEF R

-----------------------------------------------------------------------------
(* The inductive invariant.                                                 *)

\* What usbOpenDevice and flOpen hold when the k-th of their steps is next.
Acquired == <<{}, {"context"}, {"context", "device"}, {"context", "device", "queue"},
              {"context", "device", "queue", "handle"}, {"context", "device", "queue", "handle"},
              Everything, Everything>>

\* The types of what the calls leave behind.
CallTypes ==
    /\ calls \in Nat /\ faults \in Nat
    /\ HistoryTypes
    /\ todo \in Seq(Steps)
    /\ chunkSize \in Nat \ {0} /\ fill \in Nat /\ (writeBuf # None => fill < chunkSize)

\* A call on an open link; flClose drains it last.
Serving ==
    /\ held = Everything
    /\ \A i \in 1 .. Len(todo) : /\ todo[i].do \notin {"open", "getStatus"}
                                 /\ todo[i].do = "drain" => i = Len(todo)
Opening ==
    /\ asked = <<>> /\ InFlight = {}
    /\ \E k \in 1 .. 8 : todo = SubSeq(OpenSteps, k, 8) /\ held = Acquired[k]
Closed == held = {} /\ todo = <<>> /\ InFlight = {}

OpenInv == Serving \/ Opening \/ Closed

\* Nothing more is submitted on this link: a call has failed, or flClose runs.
Closing == <<[do |-> "flush"], [do |-> "drain"]>>
Stopped ==
    \/ todo = <<>> /\ ~Healthy
    \/ todo = Closing \/ todo = Tail(Closing)
    \/ held # Everything

\* A read is queued after the command for it was flushed and the depth balanced, and
\* what was collected is flushed before it is awaited.
InOrder(i) ==
    /\ todo[i].do \in {"balance", "awaitWrites"} =>
          (i = 1 /\ writeBuf = None) \/ (i > 1 /\ todo[i - 1].do = "flush")
    /\ todo[i].do = "readAsync" =>
          (i = 1 /\ writeBuf = None) \/ (i > 1 /\ todo[i - 1].do = "balance")

\* The prepared buffer is the next item of the ring.
PreparedInv ==
    writeBuf # None => ~IsFull(queue) /\ ItemToPut(queue) = writeBuf

\* Between calls a prepared buffer has data in it, so that a flush submits it.  That it
\* is the next item of the ring does not outlive a failed put.
FlushInv ==
    /\ asked = <<>> => writeBuf = None /\ \A i \in 1 .. Len(todo) : todo[i].do # "append"
    /\ writeBuf # None /\ fill = 0 => Doing("append") \/ Stopped
    /\ \A i \in 1 .. Len(todo) : InOrder(i)

WriterInv == (faults = 0 => PreparedInv) /\ FlushInv

\* A transfer uses its own wrapper's buffer or one of a caller's, and a read uses a
\* wrapper's only when it was borrowed; so does what is reported of it.
NoneBorrowed == \A r \in DOMAIN reads : ~reads[r].borrowed
TransfersPrivate ==
    \A w \in Wrappers :
        /\ transfer[w].buffer \notin Wrappers \ {w}
        /\ NoneBorrowed /\ transfer[w].isRead => transfer[w].buffer \notin Wrappers
NoneLent ==
    NoneBorrowed => \A i \in 1 .. Len(todo) : todo[i].do = "readAsync" => todo[i].buffer # None
ReportPrivate == NoneBorrowed => report.buffer \notin Wrappers

BufferInv == TransfersPrivate /\ NoneLent /\ ReportPrivate

LinkInv == FlightInv /\ CallTypes /\ OpenInv /\ WriterInv /\ BufferInv

-----------------------------------------------------------------------------
\* The steps that are left after the first one.
LEMMA TailSteps ==
    ASSUME NEW s \in Seq(Steps), s # <<>>
    PROVE  /\ Head(s) = s[1] /\ s[1] \in Steps /\ Len(s) \in Nat /\ Len(s) >= 1
           /\ Tail(s) \in Seq(Steps) /\ Len(Tail(s)) = Len(s) - 1
           /\ \A i \in 1 .. Len(s) - 1 : Tail(s)[i] = s[i + 1]
  OBVIOUS

\* The first step is replaced by another.
LEMMA AgainSteps ==
    ASSUME NEW s \in Seq(Steps), s # <<>>, NEW t \in Steps
    PROVE  LET r == <<t>> \o Tail(s)
           IN  /\ r \in Seq(Steps) /\ Len(r) = Len(s) /\ r[1] = t
               /\ \A i \in 2 .. Len(s) : r[i] = s[i]
  <1> DEFINE a == Tail(s)
             r == <<t>> \o a
  <1>1. /\ Len(s) \in Nat /\ Len(s) >= 1 /\ a \in Seq(Steps) /\ Len(a) = Len(s) - 1
        /\ \A i \in 1 .. Len(s) - 1 : a[i] = s[i + 1]
    BY TailSteps
  <1> HIDE DEF a
  <1>2. <<t>> \in Seq(Steps)
    OBVIOUS
  <1>3. /\ r \in Seq(Steps) /\ Len(r) = Len(a) + 1 /\ r[1] = t
        /\ \A i \in 2 .. Len(a) + 1 : r[i] = a[i - 1]
    BY <1>1, <1>2
  <1> HIDE DEF r
  <1>4. \A i \in 2 .. Len(s) : i - 1 \in 1 .. Len(s) - 1 /\ (i - 1) + 1 = i
    BY <1>1
  <1>5. \A i \in 2 .. Len(s) : r[i] = s[i]
    BY <1>1, <1>3, <1>4
  <1> QED BY <1>1, <1>3, <1>5 DEF r, a

\* The rest of a sequence of steps.
LEMMA RestSteps ==
    ASSUME NEW s \in Seq(Steps), NEW k \in 1 .. Len(s)
    PROVE  LET t == SubSeq(s, k, Len(s))
           IN  /\ t \in Seq(Steps) /\ t # <<>> /\ Head(t) = s[k]
               /\ Tail(t) = IF k = Len(s) THEN <<>> ELSE SubSeq(s, k + 1, Len(s))
  <1> DEFINE n == Len(s)
             t == SubSeq(s, k, n)
             u == SubSeq(s, k + 1, n)
  <1>0. n \in Nat /\ k \in 1 .. n
    OBVIOUS
  <1>1. t \in Seq(Steps) /\ Len(t) = n - k + 1 /\ \A i \in 1 .. n - k + 1 : t[i] = s[k + i - 1]
    BY <1>0, SubSeqProperties
  <1>2. /\ u \in Seq(Steps) /\ Len(u) = n - k
        /\ \A i \in 1 .. n - k : u[i] = s[k + i]
    BY <1>0, SubSeqProperties
  <1> HIDE DEF t, u, n
  <1>3. t # <<>>
    BY <1>0, <1>1
  <1>4. Head(t) = s[k]
    BY <1>0, <1>1, <1>3, TailSteps
  <1>5. /\ Tail(t) \in Seq(Steps) /\ Len(Tail(t)) = n - k
        /\ \A i \in 1 .. n - k : Tail(t)[i] = t[i + 1]
    BY <1>0, <1>1, <1>3, TailSteps
  <1>6. \A i \in 1 .. n - k : i + 1 \in 1 .. n - k + 1 /\ k + (i + 1) - 1 = k + i
    BY <1>0
  <1>7. \A i \in 1 .. n - k : Tail(t)[i] = u[i]
    BY <1>1, <1>2, <1>5, <1>6
  <1>8. Tail(t) = u
    BY <1>2, <1>5, <1>7, SeqEqual
  <1>9. k = n => u = <<>>
    BY <1>0, <1>2
  <1> QED BY <1>1, <1>3, <1>4, <1>8, <1>9 DEF t, u, n

\* The steps of flOpen.
LEMMA OpeningSteps ==
    /\ OpenSteps \in Seq(Steps) /\ Len(OpenSteps) = 8
    /\ \A k \in 1 .. 8 :
          LET t == SubSeq(OpenSteps, k, 8)
          IN  /\ t \in Seq(Steps) /\ t # <<>> /\ Head(t) = OpenSteps[k]
              /\ Tail(t) = IF k = 8 THEN <<>> ELSE SubSeq(OpenSteps, k + 1, 8)
  <1>1. OpenSteps \in Seq(Steps) /\ Len(OpenSteps) = 8
    <2> DEFINE S(g, d) == [do |-> "open", get |-> g, drop |-> d]
               G == [do |-> "getStatus"]
    <2>1. \A g, d \in SUBSET Everything : S(g, d) \in Steps
      BY DEF Steps
    <2>2. G \in Steps
      BY DEF Steps
    <2>3. OpenSteps = <<S({"context"}, {}), S({"device"}, {"context"}),
                        S({"queue"}, {"context", "device"}),
                        S({"handle"}, {"context", "device", "queue"}),
                        S({}, {"context", "device", "queue", "handle"}),
                        S({"interface"}, {"context", "device", "queue", "handle"}),
                        S({}, {"context", "device", "queue", "handle", "interface"}), G>>
      BY DEF OpenSteps
    <2>4. /\ {"context"} \in SUBSET Everything /\ {"device"} \in SUBSET Everything
          /\ {"queue"} \in SUBSET Everything /\ {"handle"} \in SUBSET Everything
          /\ {"interface"} \in SUBSET Everything /\ {} \in SUBSET Everything
          /\ {"context", "device"} \in SUBSET Everything
          /\ {"context", "device", "queue"} \in SUBSET Everything
          /\ {"context", "device", "queue", "handle"} \in SUBSET Everything
          /\ {"context", "device", "queue", "handle", "interface"} \in SUBSET Everything
      BY DEF Everything
    <2> HIDE DEF S, G
    <2> QED BY <2>1, <2>2, <2>3, <2>4
  <1> HIDE DEF OpenSteps
  <1>2. \A k \in 1 .. 8 :
          LET t == SubSeq(OpenSteps, k, 8)
          IN  /\ t \in Seq(Steps) /\ t # <<>> /\ Head(t) = OpenSteps[k]
              /\ Tail(t) = IF k = 8 THEN <<>> ELSE SubSeq(OpenSteps, k + 1, 8)
    <2> DEFINE s == OpenSteps
    <2>1. s \in Seq(Steps) /\ Len(s) = 8
      BY <1>1
    <2> HIDE DEF s
    <2>2. ASSUME NEW k \in 1 .. Len(s)
          PROVE  LET t == SubSeq(s, k, Len(s))
                 IN  /\ t \in Seq(Steps) /\ t # <<>> /\ Head(t) = s[k]
                     /\ Tail(t) = IF k = Len(s) THEN <<>> ELSE SubSeq(s, k + 1, Len(s))
      BY <2>1, RestSteps
    <2> QED BY <2>1, <2>2 DEF s
  <1> QED BY <1>1, <1>2

-----------------------------------------------------------------------------
(* The types of the calls, and what flOpen holds, after every step.         *)

\* What the steps of flOpen acquire, and release when they fail.
LEMMA OpeningHolds ==
    /\ \A k \in 1 .. 7 : /\ OpenSteps[k].do = "open"
                         /\ Acquired[k] \cup OpenSteps[k].get = Acquired[k + 1]
                         /\ Acquired[k] \ OpenSteps[k].drop = {}
    /\ OpenSteps[8].do = "getStatus" /\ Acquired[8] = Everything /\ Acquired[1] = {}
  <1> DEFINE Holds(k) == /\ OpenSteps[k].do = "open"
                         /\ Acquired[k] \cup OpenSteps[k].get = Acquired[k + 1]
                         /\ Acquired[k] \ OpenSteps[k].drop = {}
  <1>1. Holds(1)
    BY DEF OpenSteps, Acquired
  <1>2. Holds(2)
    BY DEF OpenSteps, Acquired
  <1>3. Holds(3)
    BY DEF OpenSteps, Acquired
  <1>4. Holds(4)
    BY DEF OpenSteps, Acquired
  <1>5. Holds(5)
    BY DEF OpenSteps, Acquired
  <1>6. Holds(6)
    BY DEF OpenSteps, Acquired, Everything
  <1>7. Holds(7)
    BY DEF OpenSteps, Acquired, Everything
  <1>8. OpenSteps[8].do = "getStatus" /\ Acquired[8] = Everything /\ Acquired[1] = {}
    BY DEF OpenSteps, Acquired
  <1>9. \A k \in 1 .. 7 : k = 1 \/ k = 2 \/ k = 3 \/ k = 4 \/ k = 5 \/ k = 6 \/ k = 7
    OBVIOUS
  <1> HIDE DEF Holds
  <1>10. \A k \in 1 .. 7 : Holds(k)
    BY <1>1, <1>2, <1>3, <1>4, <1>5, <1>6, <1>7, <1>9
  <1> QED BY <1>8, <1>10 DEF Holds

\* Where flOpen is.
LEMMA OpeningAt ==
    ASSUME Opening
    PROVE  \E k \in 1 .. 8 :
              /\ todo # <<>> /\ Head(todo) = OpenSteps[k] /\ held = Acquired[k]
              /\ Tail(todo) = IF k = 8 THEN <<>> ELSE SubSeq(OpenSteps, k + 1, 8)
              /\ Head(todo).do \in {"open", "getStatus"}
              /\ Head(todo).do = "open" <=> k # 8
  <1>1. PICK k \in 1 .. 8 : todo = SubSeq(OpenSteps, k, 8) /\ held = Acquired[k]
    BY DEF Opening
  <1>2. /\ todo # <<>> /\ Head(todo) = OpenSteps[k]
        /\ Tail(todo) = IF k = 8 THEN <<>> ELSE SubSeq(OpenSteps, k + 1, 8)
    BY <1>1, OpeningSteps
  <1>3. k \in 1 .. 7 \/ k = 8
    OBVIOUS
  <1>4. Head(todo).do \in {"open", "getStatus"} /\ (Head(todo).do = "open" <=> k # 8)
    BY <1>2, <1>3, OpeningHolds
  <1> QED BY <1>1, <1>2, <1>4

\* A call that is not flOpen runs on an open link.
LEMMA CallServes ==
    ASSUME OpenInv, todo # <<>>, Head(todo).do \notin {"open", "getStatus"}
    PROVE  Serving
  BY OpeningAt DEF OpenInv, Closed

\* A step of a call that has no more to release than itself.
LEMMA StepServes ==
    ASSUME CallTypes, Serving, UNCHANGED held,
           \/ todo' = todo
           \/ todo' = <<>>
           \/ todo # <<>> /\ todo' = Tail(todo)
           \/ /\ todo # <<>>
              /\ \E s \in Steps : s.do = "append" /\ todo' = <<s>> \o Tail(todo)
    PROVE  Serving' /\ todo' \in Seq(Steps)
  <1>0. todo \in Seq(Steps)
    BY DEF CallTypes
  <1>1. CASE todo' = todo
    BY <1>0, <1>1 DEF Serving
  <1>2. CASE todo' = <<>>
    BY <1>2 DEF Serving
  <1>3. CASE todo # <<>> /\ todo' = Tail(todo)
    <2>1. /\ todo' \in Seq(Steps) /\ Len(todo') = Len(todo) - 1 /\ Len(todo) \in Nat
          /\ \A i \in 1 .. Len(todo) - 1 : todo'[i] = todo[i + 1]
      BY <1>0, <1>3, TailSteps
    <2>2. ASSUME NEW i \in 1 .. Len(todo')
          PROVE  /\ todo'[i].do \notin {"open", "getStatus"}
                 /\ todo'[i].do = "drain" => i = Len(todo')
      <3>1. i + 1 \in 1 .. Len(todo) /\ i \in 1 .. Len(todo) - 1
        BY <2>1
      <3>2. todo'[i] = todo[i + 1]
        BY <2>1, <3>1
      <3>3. /\ todo[i + 1].do \notin {"open", "getStatus"}
            /\ todo[i + 1].do = "drain" => i + 1 = Len(todo)
        BY <3>1 DEF Serving
      <3>4. i + 1 = Len(todo) => i = Len(todo')
        BY <2>1
      <3> QED BY <3>2, <3>3, <3>4
    <2> QED BY <2>1, <2>2 DEF Serving
  <1>4. CASE /\ todo # <<>>
             /\ \E s \in Steps : s.do = "append" /\ todo' = <<s>> \o Tail(todo)
    <2>1. PICK s \in Steps : s.do = "append" /\ todo' = <<s>> \o Tail(todo)
      BY <1>4
    <2>2. /\ todo' \in Seq(Steps) /\ Len(todo') = Len(todo) /\ todo'[1] = s /\ Len(todo) \in Nat
          /\ \A i \in 2 .. Len(todo) : todo'[i] = todo[i]
      BY <1>0, <1>4, <2>1, AgainSteps
    <2>3. ASSUME NEW i \in 1 .. Len(todo')
          PROVE  /\ todo'[i].do \notin {"open", "getStatus"}
                 /\ todo'[i].do = "drain" => i = Len(todo')
      <3>1. CASE i = 1
        BY <2>1, <2>2, <3>1
      <3>2. CASE i # 1
        <4>1. i \in 2 .. Len(todo) /\ i \in 1 .. Len(todo)
          BY <2>2, <3>2
        <4> QED BY <2>2, <4>1 DEF Serving
      <3> QED BY <3>1, <3>2
    <2> QED BY <2>2, <2>3 DEF Serving
  <1> QED BY <1>1, <1>2, <1>3, <1>4

\* What the awaits of a call change.
LEMMA AwaitEffect ==
    ASSUME Await
    PROVE  /\ UNCHANGED <<deviceVars, writeBuf, fill, chunkSize, history>>
           /\ TakeOldest /\ queueSize(queue) > 0
           /\ \/ todo' = todo /\ status' = status
              \/ todo' = <<>> /\ status' = "FL_USB_ERR"
           /\ \/ report' = ReportOf(transfer[ItemToTake(queue)]) /\ faults' = faults
              \/ report' = report /\ faults' = faults + 1
  BY DEF Await, AwaitOldest, EventLoopFails, Fail, CanFail, Return, handleVars

\* The types of the calls after a step of one.
LEMMA StepTypesHold ==
    ASSUME CallTypes, OpenInv, UNCHANGED <<held, asked, reads, chunkSize, calls>>,
           faults' = faults \/ faults' = faults + 1, fill' \in Nat, writeBuf' # None => fill' < chunkSize,
           todo # <<>>, Head(todo).do \notin {"open", "getStatus"},
           \/ todo' = todo
           \/ todo' = <<>>
           \/ todo' = Tail(todo)
           \/ \E s \in Steps : s.do = "append" /\ todo' = <<s>> \o Tail(todo)
    PROVE  CallTypes' /\ OpenInv'
  <1>1. Serving
    BY CallServes
  <1>2. Serving' /\ todo' \in Seq(Steps)
    BY <1>1, StepServes
  <1>3. faults' \in Nat
    BY DEF CallTypes
  <1>4. HistoryTypes'
    BY DEF CallTypes, HistoryTypes
  <1> QED BY <1>2, <1>3, <1>4 DEF OpenInv, CallTypes

\* The data of an append, and what is left of it when the buffer is full.
LEMMA RestOfData ==
    ASSUME NEW bytes \in Seq(Nat), NEW n \in Nat, Len(bytes) >= n
    PROVE  LET rest == SubSeq(bytes, n + 1, Len(bytes))
           IN  /\ rest \in Seq(Nat) /\ (rest = <<>> <=> Len(bytes) = n)
               /\ rest # <<>> => Collect(rest) \in Steps /\ Collect(rest).do = "append"
  <1> DEFINE m == Len(bytes)
             rest == SubSeq(bytes, n + 1, m)
  <1>1. m \in Nat /\ \A i \in n + 1 .. m : bytes[i] \in Nat
    OBVIOUS
  <1>2. rest \in Seq(Nat) /\ Len(rest) = IF n + 1 <= m THEN m - (n + 1) + 1 ELSE 0
    BY <1>1, SubSeqProperties
  <1>3. m >= n
    OBVIOUS
  <1> HIDE DEF rest, m
  <1>4. Len(rest) = m - n
    BY <1>1, <1>2, <1>3
  <1>5. rest = <<>> <=> m = n
    BY <1>1, <1>2, <1>4
  <1>6. rest # <<>> => Collect(rest) \in Steps /\ Collect(rest).do = "append"
    BY <1>2 DEF Collect, Steps
  <1> QED BY <1>2, <1>5, <1>6 DEF rest, m

\* The step that an append is at.
LEMMA AppendData ==
    ASSUME CallTypes, Doing("append")
    PROVE  /\ todo # <<>> /\ Head(todo).do \notin {"open", "getStatus"}
           /\ Head(todo).bytes \in Seq(Nat) /\ Head(todo).bytes # <<>>
           /\ Len(Head(todo).bytes) \in Nat /\ Len(Head(todo).bytes) > 0
  <1>1. todo # <<>> /\ Head(todo).do = "append" /\ Head(todo) \in Steps
    BY TailSteps DEF Doing, CallTypes
  <1>2. Head(todo).bytes \in Seq(Nat) /\ Head(todo).bytes # <<>>
    BY <1>1, StepTypes
  <1> QED BY <1>1, <1>2

\* There is room in a prepared buffer.
LEMMA SpaceType ==
    ASSUME CallTypes, writeBuf # None
    PROVE  Space \in Nat /\ Space > 0
  BY DEF CallTypes, Space

\* bufferAppend.
LEMMA AppendTypes ==
    ASSUME CallTypes, OpenInv, bufferAppend, UNCHANGED calls
    PROVE  CallTypes' /\ OpenInv'
  <1>0. Doing("append")
    BY DEF bufferAppend, PrepareBuffer, AppendBalances, FillAndSubmit, AppendRest
  <1>1. /\ todo # <<>> /\ Head(todo).do \notin {"open", "getStatus"}
        /\ Head(todo).bytes \in Seq(Nat) /\ Len(Head(todo).bytes) \in Nat
    BY <1>0, AppendData
  <1>2. fill \in Nat /\ chunkSize \in Nat \ {0} /\ (writeBuf # None => fill < chunkSize)
    BY DEF CallTypes
  <1>3. CASE PrepareBuffer
    <2>1. /\ UNCHANGED <<held, asked, reads, chunkSize>> /\ (faults' = faults \/ faults' = faults + 1)
          /\ todo' = todo \/ todo' = <<>>
          /\ fill' = 0 \/ (fill' = fill /\ writeBuf' = writeBuf)
      BY <1>3 DEF PrepareBuffer, deviceVars, history, Fail, CanFail, Return
    <2>2. fill' \in Nat /\ (writeBuf' # None => fill' < chunkSize)
      BY <1>2, <2>1
    <2> QED BY <1>1, <2>1, <2>2, StepTypesHold
  <1>4. CASE AppendBalances
    <2>1. /\ UNCHANGED <<held, asked, reads, chunkSize, fill, writeBuf>>
          /\ (faults' = faults \/ faults' = faults + 1)
          /\ todo' = todo \/ todo' = <<>>
      BY <1>4, AwaitEffect DEF AppendBalances, deviceVars, history
    <2> QED BY <1>1, <1>2, <2>1, StepTypesHold
  <1>5. CASE FillAndSubmit
    <2> DEFINE bytes == Head(todo).bytes
               rest == SubSeq(bytes, Space + 1, Len(bytes))
    <2>1. UNCHANGED <<held, asked, reads, chunkSize>> /\ writeBuf # None /\ Len(bytes) >= Space
      BY <1>5 DEF FillAndSubmit, deviceVars, history
    <2>2. \/ faults' = faults + 1 /\ todo' = <<>> /\ UNCHANGED <<fill, writeBuf>>
          \/ faults' = faults /\ todo' = Tail(todo) /\ fill' = 0
          \/ faults' = faults /\ rest # <<>> /\ todo' = <<Collect(rest)>> \o Tail(todo) /\ fill' = 0
      BY <1>5 DEF FillAndSubmit, SubmitFails, Fail, CanFail, Return, Proceed, Done, Again
    <2>3. rest # <<>> => Collect(rest) \in Steps /\ Collect(rest).do = "append"
      <3>1. Space \in Nat
        BY <2>1, SpaceType
      <3> QED BY <1>1, <2>1, <3>1, RestOfData
    <2> HIDE DEF rest
    <2>4. \/ todo' = <<>>
          \/ todo' = Tail(todo)
          \/ \E s \in Steps : s.do = "append" /\ todo' = <<s>> \o Tail(todo)
      BY <2>2, <2>3
    <2>5. fill' \in Nat /\ (writeBuf' # None => fill' < chunkSize)
      BY <1>2, <2>2
    <2>6. faults' = faults \/ faults' = faults + 1
      BY <2>2
    <2> QED BY <1>1, <2>1, <2>4, <2>5, <2>6, StepTypesHold
  <1>6. CASE AppendRest
    <2>1. /\ UNCHANGED <<held, asked, reads, chunkSize, writeBuf, faults>>
          /\ todo' = Tail(todo) /\ fill' = fill + Len(Head(todo).bytes)
          /\ writeBuf # None /\ Len(Head(todo).bytes) < Space
      BY <1>6 DEF AppendRest, deviceVars, history, Proceed, Done
    <2>2. fill' \in Nat /\ fill' < chunkSize
      BY <1>1, <1>2, <2>1 DEF Space
    <2> QED BY <1>1, <2>1, <2>2, StepTypesHold
  <1> QED BY <1>3, <1>4, <1>5, <1>6 DEF bufferAppend

\* The steps that the calls share.
LEMMA OtherTypes ==
    ASSUME CallTypes, OpenInv, Flush \/ AwaitWrites \/ Balance \/ ReadAsync \/ AwaitRead \/ Drain,
           UNCHANGED calls
    PROVE  CallTypes' /\ OpenInv'
  <1>1. todo # <<>> /\ Head(todo).do \notin {"open", "getStatus"}
    BY DEF Flush, AwaitWrites, Balance, ReadAsync, AwaitRead, Drain, Doing
  <1>2. fill \in Nat /\ chunkSize \in Nat \ {0} /\ (writeBuf # None => fill < chunkSize)
    BY DEF CallTypes
  <1>3. /\ UNCHANGED <<held, asked, reads, chunkSize>> /\ (faults' = faults \/ faults' = faults + 1)
        /\ todo' = todo \/ todo' = <<>> \/ todo' = Tail(todo)
        /\ fill' = 0 \/ (fill' = fill /\ writeBuf' = writeBuf)
    <2>1. CASE Flush
      BY <2>1 DEF Flush, deviceVars, history, SubmitFails, Fail, CanFail, Return, Proceed, Done
    <2>2. CASE AwaitWrites \/ Balance
      BY <2>2, AwaitEffect DEF AwaitWrites, Balance, deviceVars, history, handleVars, Return, Proceed, Done
    <2>3. CASE ReadAsync
      BY <2>3 DEF ReadAsync, deviceVars, history, handleVars, Fail, CanFail, Return, Proceed, Done
    <2>4. CASE AwaitRead
      BY <2>4, AwaitEffect DEF AwaitRead, deviceVars, history, handleVars, Return, Proceed, Done
    <2>5. CASE Drain
      BY <2>5 DEF Drain, deviceVars, history, handleVars, CanFail
    <2> QED BY <2>1, <2>2, <2>3, <2>4, <2>5
  <1>4. fill' \in Nat /\ (writeBuf' # None => fill' < chunkSize)
    BY <1>2, <1>3
  <1> QED BY <1>1, <1>3, <1>4, StepTypesHold

\* The device is closed when the queue is empty.
LEMMA NothingInFlight ==
    ASSUME FlightInv, queueSize(queue) = 0
    PROVE  InFlight = {}
  <1>1. DOMAIN Committed(queue) = 1 .. queue.numItems /\ queue.numItems = 0
    BY RingTypes DEF FlightInv, RingInv, queueSize
  <1> QED BY <1>1 DEF FlightInv, ToSet

\* usbCloseDevice.
LEMMA CloseTypes ==
    ASSUME FlightInv, CallTypes, OpenInv, CloseDevice, UNCHANGED calls
    PROVE  CallTypes' /\ OpenInv'
  <1>1. /\ Doing("drain") /\ queueSize(queue) = 0 /\ held' = {} /\ todo' = Tail(todo)
        /\ UNCHANGED <<handleVars, usbVars, history, faults>>
    BY DEF CloseDevice, Proceed, Done
  <1>2. todo # <<>> /\ Head(todo).do = "drain" /\ Serving
    BY <1>1, CallServes DEF Doing
  <1>3. /\ Head(todo) = todo[1] /\ Len(todo) \in Nat /\ Len(todo) >= 1
        /\ Tail(todo) \in Seq(Steps) /\ Len(Tail(todo)) = Len(todo) - 1
    BY <1>2, TailSteps DEF CallTypes
  <1>4. Len(todo) = 1
    <2>1. 1 \in 1 .. Len(todo) /\ todo[1].do = "drain"
      BY <1>2, <1>3
    <2> QED BY <1>2, <2>1 DEF Serving
  <1>5. todo' = <<>>
    <2>1. Len(Tail(todo)) = 0
      BY <1>3, <1>4
    <2> QED BY <1>1, <1>3, <2>1
  <1>6. InFlight' = {}
    BY <1>1, NothingInFlight DEF InFlight, usbVars
  <1>7. Closed'
    BY <1>1, <1>5, <1>6 DEF Closed
  <1>8. CallTypes'
    <2>1. UNCHANGED <<calls, faults, asked, reads, chunkSize, fill, writeBuf>>
      BY <1>1 DEF handleVars, history
    <2>2. HistoryTypes'
      BY <2>1 DEF CallTypes, HistoryTypes
    <2>3. todo' \in Seq(Steps)
      BY <1>5
    <2> QED BY <2>1, <2>2, <2>3 DEF CallTypes
  <1> QED BY <1>7, <1>8 DEF OpenInv

\* flOpen acquires, or releases what it has.
LEMMA OpenTypes ==
    ASSUME CallTypes, OpenInv, OpenStep \/ GetStatus, UNCHANGED calls
    PROVE  CallTypes' /\ OpenInv'
  <1>1. /\ todo # <<>> /\ Head(todo).do \in {"open", "getStatus"}
        /\ UNCHANGED <<handleVars, usbVars, history>>
        /\ (faults' = faults \/ faults' = faults + 1)
    BY DEF OpenStep, GetStatus, Doing, Fail, CanFail
  <1>2. Head(todo) = todo[1] /\ 1 \in 1 .. Len(todo)
    BY <1>1, TailSteps DEF CallTypes
  <1>3. Opening
    BY <1>1, <1>2 DEF OpenInv, Serving, Closed
  <1>4. PICK k \in 1 .. 8 :
              /\ Head(todo) = OpenSteps[k] /\ held = Acquired[k]
              /\ Tail(todo) = IF k = 8 THEN <<>> ELSE SubSeq(OpenSteps, k + 1, 8)
              /\ Head(todo).do = "open" <=> k # 8
    BY <1>3, OpeningAt
  <1>5. asked' = <<>> /\ InFlight' = {}
    BY <1>1, <1>3 DEF Opening, history, usbVars, InFlight
  <1>6. CASE OpenStep
    <2>1. k \in 1 .. 7
      BY <1>4, <1>6 DEF OpenStep, Doing
    <2>2. CASE held' = held \cup Head(todo).get /\ todo' = Tail(todo)
      <3>1. held' = Acquired[k + 1] /\ todo' = SubSeq(OpenSteps, k + 1, 8) /\ k + 1 \in 1 .. 8
        <4>1. k # 8 /\ k + 1 \in 1 .. 8
          BY <2>1
        <4>2. Acquired[k] \cup OpenSteps[k].get = Acquired[k + 1]
          BY <2>1, OpeningHolds
        <4> QED BY <1>4, <2>2, <4>1, <4>2
      <3>2. todo' \in Seq(Steps)
        BY <3>1, OpeningSteps
      <3>3. Opening'
        <4>1. \E j \in 1 .. 8 : todo' = SubSeq(OpenSteps, j, 8) /\ held' = Acquired[j]
          BY <3>1
        <4> QED BY <1>5, <4>1 DEF Opening
      <3> QED BY <1>1, <3>2, <3>3 DEF OpenInv, CallTypes, HistoryTypes, handleVars, history
    <2>3. CASE held' = held \ Head(todo).drop /\ todo' = <<>>
      <3>1. held' = {}
        BY <1>4, <2>1, <2>3, OpeningHolds
      <3> QED BY <1>1, <1>5, <2>3, <3>1 DEF OpenInv, Closed, CallTypes, HistoryTypes, handleVars, history
    <2> QED BY <1>6, <2>2, <2>3 DEF OpenStep, Proceed, Done, Fail, Return
  <1>7. CASE GetStatus
    <2>1. k = 8
      BY <1>4, <1>7 DEF GetStatus, Doing
    <2>2. \/ todo' = Tail(todo) /\ held' = held
          \/ todo' = <<>> /\ held' = {}
      BY <1>7 DEF GetStatus, Proceed, Done, Fail, Return
    <2>3. todo' = <<>> /\ (held' = Everything \/ held' = {})
      BY <1>4, <2>1, <2>2, OpeningHolds
    <2>4. Serving' \/ Closed'
      BY <1>5, <2>3 DEF Serving, Closed
    <2> QED BY <1>1, <2>3, <2>4 DEF OpenInv, CallTypes, HistoryTypes, handleVars, history
  <1> QED BY <1>6, <1>7

\* Any step of a call.
LEMMA HostTypes ==
    ASSUME FlightInv, CallTypes, OpenInv, HostStep, UNCHANGED calls
    PROVE  CallTypes' /\ OpenInv'
  BY AppendTypes, OtherTypes, CloseTypes, OpenTypes DEF HostStep

\* Bytes are asked for, in either direction.
LEMMA AskTypes ==
    ASSUME HistoryTypes, NEW chan \in Nat, NEW read \in BOOLEAN, NEW n \in Nat, n # 0, Ask(chan, read, n)
    PROVE  /\ asked' \in Seq([chan : Nat, read : BOOLEAN, byte : Nat])
           /\ asked' # <<>>
  <1> DEFINE S == [chan : Nat, read : BOOLEAN, byte : Nat]
             new == [i \in 1 .. n |-> Transfer(chan, read, Len(asked) + i)]
  <1>1. \A i \in 1 .. n : Transfer(chan, read, Len(asked) + i) \in S
    BY HistoryLengths DEF Transfer
  <1>2. new \in Seq(S) /\ new # <<>>
    <2> HIDE DEF S
    <2> QED BY <1>1
  <1>3. asked \in Seq(S) /\ asked' = asked \o new
    BY DEF HistoryTypes, Ask
  <1> HIDE DEF S, new
  <1>4. asked' \in Seq(S) /\ Len(asked') = Len(asked) + Len(new)
    BY <1>2, <1>3
  <1>5. asked' # <<>>
    <2>1. Len(asked) \in Nat /\ Len(new) \in Nat /\ Len(new) # 0
      BY <1>2, <1>3
    <2>2. Len(asked') # 0
      BY <1>4, <2>1
    <2> QED BY <2>2
  <1> QED BY <1>4, <1>5 DEF S

\* Reads are added to those submitted.
LEMMA ReadsTypes ==
    ASSUME HistoryTypes, NEW n \in Nat, n # 0, NEW borrowed \in BOOLEAN,
           reads' = reads \o NewReads(n, borrowed)
    PROVE  /\ reads' \in Seq([first : Nat, count : Nat, borrowed : BOOLEAN])
           /\ NoneBorrowed' => NoneBorrowed /\ ~borrowed
  <1> DEFINE S == [first : Nat, count : Nat, borrowed : BOOLEAN]
             p == Pieces(n)
             new == NewReads(n, borrowed)
             read(i) == [first |-> Len(asked) + (i - 1) * MaxLength + 1,
                         count |-> p[i], borrowed |-> borrowed]
  <1>1. p \in Seq(Nat \ {0}) /\ p # <<>>
    BY PiecesType
  <1>2. new = [i \in DOMAIN p |-> read(i)]
    BY DEF NewReads
  <1> HIDE DEF p
  <1>3. DOMAIN p = 1 .. Len(p) /\ Len(p) \in Nat /\ Len(p) > 0
    BY <1>1
  <1>4. ASSUME NEW i \in 1 .. Len(p) PROVE read(i) \in S /\ read(i).borrowed = borrowed
    <2>1. p[i] \in Nat
      BY <1>1
    <2>2. (i - 1) * MaxLength \in Nat
      <3> DEFINE j == i - 1
      <3>1. j \in Nat /\ MaxLength \in Nat
        BY <1>3, MaxLengthType
      <3> HIDE DEF j
      <3>2. j * MaxLength \in Nat
        BY <3>1
      <3> QED BY <3>2 DEF j
    <2>3. Len(asked) + (i - 1) * MaxLength + 1 \in Nat
      <3> DEFINE m == (i - 1) * MaxLength
      <3>1. m \in Nat
        BY <2>2
      <3> HIDE DEF m
      <3>2. Len(asked) + m + 1 \in Nat
        BY <3>1, HistoryLengths
      <3> QED BY <3>2 DEF m
    <2> QED BY <2>1, <2>3
  <1> HIDE DEF read, S, new
  <1>5. new \in Seq(S) /\ Len(new) = Len(p) /\ \A i \in 1 .. Len(p) : new[i] = read(i)
    BY <1>2, <1>3, <1>4
  <1>6. reads \in Seq(S) /\ reads' = reads \o new
    BY DEF HistoryTypes, S, new
  <1>7. /\ reads' \in Seq(S) /\ Len(reads') = Len(reads) + Len(p) /\ Len(reads) \in Nat
        /\ DOMAIN reads' = 1 .. Len(reads') /\ DOMAIN reads = 1 .. Len(reads)
        /\ \A i \in 1 .. Len(reads) : reads'[i] = reads[i]
        /\ reads'[Len(reads) + 1] = new[1]
    <2>1. new \in Seq(S) /\ Len(new) \in Nat /\ Len(new) > 0 /\ Len(reads) \in Nat
      BY <1>3, <1>5, <1>6
    <2>2. /\ reads' \in Seq(S) /\ Len(reads') = Len(reads) + Len(new)
          /\ \A i \in 1 .. Len(reads) + Len(new) :
                reads'[i] = IF i <= Len(reads) THEN reads[i] ELSE new[i - Len(reads)]
      BY <1>6, <2>1, ConcatProperties
    <2>3. DOMAIN reads' = 1 .. Len(reads') /\ DOMAIN reads = 1 .. Len(reads)
      BY <1>6, <2>2
    <2>4. \A i \in 1 .. Len(reads) : reads'[i] = reads[i]
      BY <2>1, <2>2
    <2>5. reads'[Len(reads) + 1] = new[1]
      <3>1. Len(reads) + 1 \in 1 .. Len(reads) + Len(new) /\ (Len(reads) + 1) - Len(reads) = 1
        BY <2>1
      <3>2. ~(Len(reads) + 1 <= Len(reads))
        BY <2>1
      <3> QED BY <2>2, <3>1, <3>2
    <2> QED BY <1>5, <2>1, <2>2, <2>3, <2>4, <2>5
  <1>8. ASSUME NoneBorrowed' PROVE NoneBorrowed /\ ~borrowed
    <2>1. \A i \in 1 .. Len(reads') : ~reads'[i].borrowed
      BY <1>7, <1>8 DEF NoneBorrowed
    <2>2. \A i \in 1 .. Len(reads) : i \in 1 .. Len(reads')
      BY <1>3, <1>7
    <2>3. NoneBorrowed
      BY <1>7, <2>1, <2>2 DEF NoneBorrowed
    <2>4. Len(reads) + 1 \in 1 .. Len(reads') /\ 1 \in 1 .. Len(p)
      BY <1>3, <1>7
    <2>5. ~new[1].borrowed /\ new[1] = read(1) /\ read(1).borrowed = borrowed
      BY <1>4, <1>5, <1>7, <2>1, <2>4
    <2> QED BY <2>3, <2>5
  <1> QED BY <1>7, <1>8 DEF S

\* What a call that transfers starts.
Starts(lends) ==
    /\ Ready /\ todo' \in Routines(lends) /\ UNCHANGED <<deviceVars, handleVars, usbVars, faults>>
    /\ HistoryTypes'
    /\ asked' = <<>> => asked = <<>> /\ \A i \in 1 .. Len(todo') : todo'[i].do # "append"

\* A call that transfers begins with its steps, and its reads are added.
LEMMA CallStarts ==
    ASSUME CallTypes, NEW chan \in Nat, Transferring(chan)
    PROVE  /\ Starts(TRUE) /\ Healthy
           /\ NoneBorrowed' => NoneBorrowed /\ Starts(FALSE)
  <1>0. HistoryTypes
    BY DEF CallTypes
  <1>1. ASSUME NEW n \in WriteSizes, flWriteChannelAsync(chan, n) \/ flWriteChannel(chan, n)
        PROVE  Starts(TRUE) /\ Starts(FALSE) /\ reads' = reads
    <2>1. PICK steps \in {<<>>, Settle} : WriteThen(chan, n, steps)
      BY <1>1 DEF flWriteChannelAsync, flWriteChannel
    <2>2. n \in Nat /\ n # 0
      BY <2>1, ClientAssumption DEF WriteThen, Refused
    <2>3. /\ asked' \in Seq([chan : Nat, read : BOOLEAN, byte : Nat]) /\ asked' # <<>>
      BY <1>0, <2>1, <2>2, AskTypes DEF WriteThen
    <2>4. /\ Ready /\ todo' = WriteSteps(chan, n) \o steps /\ reads' = reads
          /\ UNCHANGED <<deviceVars, handleVars, usbVars, faults>>
      BY <2>1 DEF WriteThen, Begin, Call
    <2>5. \A lends : todo' \in Routines(lends)
      <3> SUFFICES ASSUME NEW lends PROVE todo' \in Routines(lends)
        OBVIOUS
      <3>1. WriteSteps(chan, n) \in Routines(lends)
        BY <1>0, <2>2, WriteRoutine
      <3>2. steps \in Routines(lends)
        BY SettleRoutine, EmptyRoutine
      <3> QED BY <2>4, <3>1, <3>2, RoutinesConcat
    <2>6. HistoryTypes'
      BY <1>0, <2>3, <2>4 DEF HistoryTypes
    <2> QED BY <2>3, <2>4, <2>5, <2>6 DEF Starts
  <1>2. ASSUME flFlushAsyncWrites \/ flAwaitAsyncWrites \/ flReadChannelAsyncAwait
        PROVE  Starts(TRUE) /\ Starts(FALSE) /\ reads' = reads
    <2>1. /\ Ready /\ todo' \in {<<[do |-> "flush"]>>, Settle, AwaitStep(FALSE)}
          /\ UNCHANGED <<deviceVars, handleVars, usbVars, faults, asked, reads>>
      BY <1>2 DEF flFlushAsyncWrites, flAwaitAsyncWrites, flReadChannelAsyncAwait, Begin, Call
    <2>2. \A lends : todo' \in Routines(lends)
      BY <2>1, FlushRoutine, SettleRoutine, AwaitRoutine
    <2>3. \A i \in 1 .. Len(todo') : todo'[i].do # "append"
      <3>1. CASE todo' = <<[do |-> "flush"]>>
        BY <3>1
      <3>2. CASE todo' = Settle
        <4>1. Len(todo') = 2 /\ todo'[1].do = "flush" /\ todo'[2].do = "awaitWrites"
          BY <3>2 DEF Settle
        <4>2. \A i \in 1 .. 2 : i = 1 \/ i = 2
          OBVIOUS
        <4> QED BY <4>1, <4>2
      <3>3. CASE todo' = AwaitStep(FALSE)
        BY <3>3 DEF AwaitStep
      <3> QED BY <2>1, <3>1, <3>2, <3>3
    <2>4. HistoryTypes'
      BY <1>0, <2>1 DEF HistoryTypes
    <2> QED BY <2>1, <2>2, <2>3, <2>4 DEF Starts
  <1>3. ASSUME NEW n \in ReadSizes, NEW borrowed \in BOOLEAN,
               \/ flReadChannel(chan, n) /\ ~borrowed
               \/ flReadChannelAsyncSubmit(chan, n, borrowed)
        PROVE  Starts(TRUE) /\ (NoneBorrowed' => NoneBorrowed /\ Starts(FALSE))
    <2> DEFINE b == IF borrowed THEN None ELSE CallersBuffer(Len(reads) + 1)
    <2>1. PICK steps \in {ReadSteps(chan, n), SubmitSteps(chan, n, b)} :
              Read(chan, n, borrowed, steps)
      BY <1>3 DEF flReadChannel, flReadChannelAsyncSubmit
    <2>2. n \in Nat /\ n # 0 /\ Len(reads) + Len(Pieces(n)) <= MaxReads
      BY <2>1, ClientAssumption DEF Read, Refused
    <2>3. asked' \in Seq([chan : Nat, read : BOOLEAN, byte : Nat]) /\ asked' # <<>>
      BY <1>0, <2>1, <2>2, AskTypes DEF Read
    <2>4. /\ Ready /\ todo' = steps /\ reads' = reads \o NewReads(n, borrowed)
          /\ UNCHANGED <<deviceVars, handleVars, usbVars, faults>>
      BY <2>1 DEF Read, Begin, Call
    <2>5. /\ reads' \in Seq([first : Nat, count : Nat, borrowed : BOOLEAN])
          /\ NoneBorrowed' => NoneBorrowed /\ ~borrowed
      BY <1>0, <2>2, <2>4, ReadsTypes
    <2>6. b \in CallersBuffers \cup {None} /\ (~borrowed => b # None)
      <3>1. Len(reads) \in Nat /\ Len(Pieces(n)) \in Nat /\ Len(Pieces(n)) > 0
        <4> DEFINE p == Pieces(n)
        <4>1. p \in Seq(Nat \ {0}) /\ p # <<>>
          BY <2>2, PiecesType
        <4> HIDE DEF p
        <4>2. Len(p) \in Nat /\ Len(p) > 0
          BY <4>1
        <4> QED BY <1>0, <4>2, HistoryLengths DEF p
      <3> HIDE DEF b
      <3>2. /\ CallersBuffer(Len(reads) + 1) \in CallersBuffers
            /\ CallersBuffer(Len(reads) + 1) # None
        BY <2>2, <3>1, LinkAssumption DEF CallersBuffer, CallersBuffers, None
      <3> QED BY <3>2 DEF b
    <2>7. \A lends : lends \/ ~borrowed => todo' \in Routines(lends)
      <3> SUFFICES ASSUME NEW lends, lends \/ ~borrowed PROVE todo' \in Routines(lends)
        OBVIOUS
      <3>1. ReadSteps(chan, n) \in Routines(lends)
        BY <1>0, <2>2, ReadRoutine
      <3> HIDE DEF b
      <3>2. SubmitSteps(chan, n, b) \in Routines(lends)
        BY <2>2, <2>6, SubmitRoutine
      <3> QED BY <2>1, <2>4, <3>1, <3>2
    <2>8. HistoryTypes'
      BY <2>3, <2>5 DEF HistoryTypes
    <2> QED BY <2>3, <2>4, <2>5, <2>7, <2>8 DEF Starts
  <1>4. Healthy
    BY DEF Transferring, MayWrite, MaySync, MayRead
  <1>5. reads' = reads => (NoneBorrowed' => NoneBorrowed)
    BY DEF NoneBorrowed
  <1> QED BY <1>1, <1>2, <1>3, <1>4, <1>5 DEF Transferring

\* A call that starts on an open link.
LEMMA StartsTypes ==
    ASSUME CallTypes, Starts(TRUE), calls' \in Nat
    PROVE  CallTypes' /\ OpenInv'
  <1>1. /\ held' = Everything /\ todo' \in Routines(TRUE) /\ HistoryTypes'
        /\ UNCHANGED <<chunkSize, fill, writeBuf, faults>>
    BY DEF Starts, Ready, IsOpen, deviceVars, handleVars
  <1>2. /\ todo' \in Seq(Steps)
        /\ \A i \in 1 .. Len(todo') : todo'[i].do \notin {"open", "getStatus", "drain"}
    BY <1>1 DEF Routines
  <1>3. Serving'
    BY <1>1, <1>2 DEF Serving
  <1> QED BY <1>1, <1>2, <1>3 DEF OpenInv, CallTypes

\* Any call that transfers.
LEMMA CallingTypes ==
    ASSUME CallTypes, Calling
    PROVE  CallTypes' /\ OpenInv'
  <1>1. calls % Channels \in Nat /\ calls' \in Nat
    <2>1. calls \in Nat /\ calls' = calls + 1 /\ Channels \in Nat /\ Channels > 0
      BY FormatAssumption DEF CallTypes, Calling
    <2> QED BY <2>1
  <1>2. Starts(TRUE)
    BY <1>1, CallStarts DEF Calling
  <1> QED BY <1>1, <1>2, StartsTypes

\* flClose.
LEMMA ClosingSteps ==
    /\ Closing \in Seq(Steps) /\ Len(Closing) = 2 /\ Closing # <<>>
    /\ Closing[1].do = "flush" /\ Closing[2].do = "drain"
  <1> DEFINE f == [do |-> "flush"]
             d == [do |-> "drain"]
  <1>1. f \in Steps /\ f.do = "flush" /\ d \in Steps /\ d.do = "drain"
    BY DEF Steps
  <1>2. Closing = <<f, d>>
    BY DEF Closing
  <1> HIDE DEF f, d
  <1> QED BY <1>1, <1>2

\* Any other call.
LEMMA ManagingTypes ==
    ASSUME CallTypes, OpenInv, Managing
    PROVE  CallTypes' /\ OpenInv'
  <1>0. calls' = calls
    BY DEF Managing
  <1>1. CASE flOpen
    <2>1. /\ held = {} /\ todo = <<>> /\ asked = <<>> /\ todo' = OpenSteps
          /\ UNCHANGED <<deviceVars, handleVars, usbVars, faults, asked, reads>>
      BY <1>1 DEF flOpen, Begin, Call
    <2>2. InFlight = {}
      BY <2>1, OpeningAt DEF OpenInv, Serving, Everything, Closed
    <2>3. todo' = SubSeq(OpenSteps, 1, 8) /\ todo' \in Seq(Steps) /\ held' = Acquired[1]
      <3>1. OpenSteps \in Seq(Steps) /\ Len(OpenSteps) = 8
        BY OpeningSteps
      <3>2. SubSeq(OpenSteps, 1, Len(OpenSteps)) = OpenSteps
        BY <3>1
      <3> QED BY <2>1, <3>1, <3>2, OpeningHolds DEF deviceVars
    <2>4. Opening'
      <3>1. asked' = <<>> /\ InFlight' = {}
        BY <2>1, <2>2 DEF InFlight, usbVars
      <3>2. 1 \in 1 .. 8
        OBVIOUS
      <3> QED BY <2>3, <3>1, <3>2 DEF Opening
    <2> QED BY <1>0, <2>1, <2>3, <2>4 DEF OpenInv, CallTypes, HistoryTypes, handleVars
  <1>2. CASE flClose
    <2>1. /\ todo' = Closing /\ held = Everything
          /\ UNCHANGED <<deviceVars, handleVars, usbVars, faults, asked, reads>>
      BY <1>2 DEF flClose, Ready, IsOpen, Begin, Call, Closing
    <2>2. todo' \in Seq(Steps) /\ Len(todo') = 2 /\ todo'[1].do = "flush" /\ todo'[2].do = "drain"
      BY <2>1, ClosingSteps
    <2>3. \A i \in 1 .. 2 : i = 1 \/ i = 2
      OBVIOUS
    <2>4. Serving'
      BY <2>1, <2>2, <2>3 DEF Serving, deviceVars
    <2> QED BY <1>0, <2>1, <2>2, <2>4 DEF OpenInv, CallTypes, HistoryTypes, handleVars
  <1>3. CASE \E size \in ChunkSizes : flSetAsyncWriteChunkSize(size)
    <2>1. PICK size \in ChunkSizes : flSetAsyncWriteChunkSize(size)
      BY <1>3
    <2>2. /\ todo' = <<>> /\ held' = Everything
          /\ UNCHANGED <<writeBuf, fill, faults, asked, reads>>
          /\ chunkSize' = chunkSize \/ (writeBuf = None /\ chunkSize' = IF size = 0 THEN MaxLength ELSE size)
      BY <2>1 DEF flSetAsyncWriteChunkSize, Ready, IsOpen, deviceVars, history
    <2>3. size \in Nat
      BY ClientAssumption
    <2>4. chunkSize' \in Nat \ {0} /\ (writeBuf' # None => fill' < chunkSize')
      BY <2>2, <2>3, MaxLengthType DEF CallTypes
    <2>5. Serving'
      BY <2>2 DEF Serving
    <2> QED BY <1>0, <2>2, <2>4, <2>5 DEF OpenInv, CallTypes, HistoryTypes
  <1>4. CASE \E n \in {0, 1} : Refuse(n)
    <2>1. /\ todo' = <<>> /\ held' = Everything
          /\ UNCHANGED <<deviceVars, handleVars, usbVars, faults, asked, reads>>
      BY <1>4 DEF Refuse, Ready, IsOpen, Call, deviceVars
    <2>2. Serving'
      BY <2>1 DEF Serving
    <2> QED BY <1>0, <2>1, <2>2 DEF OpenInv, CallTypes, HistoryTypes, handleVars
  <1> QED BY <1>1, <1>2, <1>3, <1>4 DEF Managing

\* The controllers put nothing in flight.
LEMMA DeviceTypes ==
    ASSUME FlightInv, CallTypes, OpenInv, MoveOut \/ MoveIn \/ TransferFails \/ Clocking
    PROVE  CallTypes' /\ OpenInv'
  <1>1. /\ UNCHANGED <<held, asked, reads, chunkSize, fill, writeBuf, todo, calls>>
        /\ (faults' = faults \/ faults' = faults + 1)
    BY DEF MoveOut, MoveIn, TransferFails, Clocking, CanFail, deviceVars, handleVars, history, linkVars
  <1>2. InFlight = {} => InFlight' = {}
    <2> SUFFICES ASSUME InFlight = {} PROVE InFlight' = {}
      OBVIOUS
    <2>1. outbound = <<>> /\ inbound = <<>>
      <3>1. Once(outbound) /\ Once(inbound)
        BY DEF FlightInv, EndpointsInv
      <3>2. outbound # <<>> => Head(outbound) \in ToSet(outbound)
        BY <3>1, TailDropsHead
      <3>3. inbound # <<>> => Head(inbound) \in ToSet(inbound)
        BY <3>1, TailDropsHead
      <3> QED BY <3>2, <3>3 DEF InFlight
    <2>2. outbound' = outbound /\ inbound' = inbound
      BY <2>1 DEF MoveOut, MoveIn, TransferFails, Clocking, linkVars, usbVars
    <2> QED BY <2>2 DEF InFlight
  <1>3. CallTypes'
    BY <1>1 DEF CallTypes, HistoryTypes
  <1>4. OpenInv'
    <2>1. CASE Serving
      BY <1>1, <2>1 DEF Serving, OpenInv
    <2>2. CASE Opening
      BY <1>1, <1>2, <2>2 DEF Opening, OpenInv
    <2>3. CASE Closed
      BY <1>1, <1>2, <2>3 DEF Closed, OpenInv
    <2> QED BY <2>1, <2>2, <2>3 DEF OpenInv
  <1> QED BY <1>3, <1>4

\* The link is made closed, with nothing to do.
LEMMA InitTypes == Init => CallTypes /\ OpenInv
  <1> SUFFICES ASSUME Init PROVE CallTypes /\ OpenInv
    OBVIOUS
  <1>1. /\ calls = 0 /\ faults = 0 /\ asked = <<>> /\ reads = <<>> /\ todo = <<>>
        /\ chunkSize = MaxLength /\ fill = 0 /\ writeBuf = None /\ held = {}
        /\ outbound = <<>> /\ inbound = <<>>
    BY DEF Init, LinkInit
  <1>2. CallTypes
    BY <1>1, MaxLengthType DEF CallTypes, HistoryTypes
  <1>3. InFlight = {}
    BY <1>1 DEF InFlight, ToSet
  <1> QED BY <1>1, <1>2, <1>3 DEF OpenInv, Closed

\* Any step.
LEMMA NextTypes ==
    FlightInv /\ CallTypes /\ OpenInv /\ [Next]_vars => CallTypes' /\ OpenInv'
  <1> SUFFICES ASSUME FlightInv, CallTypes, OpenInv, [Next]_vars PROVE CallTypes' /\ OpenInv'
    OBVIOUS
  <1>1. CASE UNCHANGED vars
    <2>1. UNCHANGED <<calls, faults, asked, reads, todo, chunkSize, fill, writeBuf, held,
                      outbound, inbound>>
      BY <1>1 DEF vars, linkVars, deviceVars, handleVars, usbVars, history
    <2>2. CallTypes'
      BY <2>1 DEF CallTypes, HistoryTypes
    <2>3. OpenInv'
      BY <2>1 DEF OpenInv, Serving, Opening, Closed, InFlight
    <2> QED BY <2>2, <2>3
  <1>2. CASE Calling
    BY <1>2, CallingTypes
  <1>3. CASE Managing
    BY <1>3, ManagingTypes
  <1>4. CASE Working
    BY <1>4, HostTypes DEF Working
  <1>5. CASE Clocking \/ MoveOut \/ MoveIn \/ TransferFails
    BY <1>5, DeviceTypes
  <1> QED BY <1>1, <1>2, <1>3, <1>4, <1>5 DEF Next

\* flOpen's steps are left to take while it has not acquired everything.
LEMMA OpenImplies == CallTypes /\ OpenInv => OpenAllOrNothing
  <1> SUFFICES ASSUME CallTypes, OpenInv PROVE OpenAllOrNothing
    OBVIOUS
  <1>1. CASE Serving
    BY <1>1 DEF Serving, OpenAllOrNothing, Everything
  <1>2. CASE Opening
    <2>1. InFlight = {} /\ todo # <<>>
      BY <1>2, OpeningAt DEF Opening
    <2> QED BY <2>1 DEF OpenAllOrNothing
  <1>3. CASE Closed
    BY <1>3 DEF Closed, OpenAllOrNothing
  <1> QED BY <1>1, <1>2, <1>3 DEF OpenInv

-----------------------------------------------------------------------------
(* flOpen: all or nothing.                                                  *)

\* flOpen acquires all five resources or releases what it has (libusbwrap.c's and
\* libfpgalink.c's cleanup labels), whichever of its steps fails, and the device is
\* only freed once no transfer is in flight (flClose awaits them all first).
THEOREM OpensAllOrNothing == Spec => []OpenAllOrNothing
  <1> DEFINE Inv == FlightInv /\ CallTypes /\ OpenInv
  <1>1. Init => Inv
    BY InitFlight, InitTypes
  <1>2. Inv /\ [Next]_vars => Inv'
    BY NextFlight, NextTypes
  <1>3. Inv => OpenAllOrNothing
    BY OpenImplies
  <1> QED
    BY <1>1, <1>2, <1>3, PTL DEF Spec

-----------------------------------------------------------------------------
(* The prepared buffer.                                                     *)

\* The order of the steps that are left, after a step of a call.
LEMMA OrderKept ==
    ASSUME CallTypes, todo # <<>>, \A i \in 1 .. Len(todo) : InOrder(i),
           \/ todo' = <<>>
           \/ todo' = todo /\ (writeBuf' = writeBuf \/ Head(todo).do = "append")
           \/ todo' = Tail(todo) /\ (Head(todo).do \in {"flush", "balance"} => writeBuf' = None)
           \/ /\ Head(todo).do = "append"
              /\ \E s \in Steps : s.do = "append" /\ todo' = <<s>> \o Tail(todo)
    PROVE  \A i \in 1 .. Len(todo') : InOrder(i)'
  <1>0. /\ todo \in Seq(Steps) /\ Head(todo) = todo[1] /\ Len(todo) \in Nat /\ Len(todo) >= 1
    BY TailSteps DEF CallTypes
  <1>1. CASE todo' = <<>>
    BY <1>1
  <1>2. CASE todo' = todo /\ (writeBuf' = writeBuf \/ Head(todo).do = "append")
    BY <1>0, <1>2 DEF InOrder
  <1>3. CASE todo' = Tail(todo) /\ (Head(todo).do \in {"flush", "balance"} => writeBuf' = None)
    <2>1. /\ Len(todo') = Len(todo) - 1
          /\ \A i \in 1 .. Len(todo) - 1 : todo'[i] = todo[i + 1]
      BY <1>0, <1>3, TailSteps
    <2>2. ASSUME NEW i \in 1 .. Len(todo') PROVE InOrder(i)'
      <3>1. /\ i + 1 \in 1 .. Len(todo) /\ i + 1 # 1 /\ (i + 1) - 1 = i
            /\ i \in 1 .. Len(todo) - 1 /\ i \in Nat
        BY <1>0, <2>1
      <3>2. todo'[i] = todo[i + 1]
        BY <2>1, <3>1
      <3>3. /\ todo[i + 1].do \in {"balance", "awaitWrites"} => todo[i].do = "flush"
            /\ todo[i + 1].do = "readAsync" => todo[i].do = "balance"
        <4>1. InOrder(i + 1)
          BY <3>1
        <4> QED BY <3>1, <4>1 DEF InOrder
      <3>4. CASE i = 1
        BY <1>0, <1>3, <3>2, <3>3, <3>4 DEF InOrder
      <3>5. CASE i # 1
        <4>1. i - 1 \in 1 .. Len(todo) - 1 /\ (i - 1) + 1 = i /\ i > 1
          BY <3>1, <3>5
        <4>2. todo'[i - 1] = todo[i]
          BY <2>1, <4>1
        <4> QED BY <3>2, <3>3, <4>1, <4>2 DEF InOrder
      <3> QED BY <3>4, <3>5
    <2> QED BY <2>2
  <1>4. CASE /\ Head(todo).do = "append"
             /\ \E s \in Steps : s.do = "append" /\ todo' = <<s>> \o Tail(todo)
    <2>1. PICK s \in Steps : s.do = "append" /\ todo' = <<s>> \o Tail(todo)
      BY <1>4
    <2>2. /\ Len(todo') = Len(todo) /\ todo'[1] = s
          /\ \A i \in 2 .. Len(todo) : todo'[i] = todo[i]
      BY <1>0, <2>1, AgainSteps
    <2>3. \A i \in 1 .. Len(todo) : todo'[i].do = todo[i].do
      <3> SUFFICES ASSUME NEW i \in 1 .. Len(todo) PROVE todo'[i].do = todo[i].do
        OBVIOUS
      <3>1. i = 1 \/ i \in 2 .. Len(todo)
        BY <1>0
      <3> QED BY <1>0, <1>4, <2>1, <2>2, <3>1
    <2>4. ASSUME NEW i \in 1 .. Len(todo') PROVE InOrder(i)'
      <3>1. i \in 1 .. Len(todo) /\ InOrder(i)
        BY <2>2
      <3>2. i = 1 => todo'[i].do = "append"
        BY <2>1, <2>2
      <3>3. i # 1 => i - 1 \in 1 .. Len(todo) /\ i > 1
        BY <1>0, <3>1
      <3>4. todo'[i].do = todo[i].do /\ (i # 1 => todo'[i - 1].do = todo[i - 1].do)
        BY <2>3, <3>1, <3>3
      <3> QED BY <3>1, <3>2, <3>3, <3>4 DEF InOrder
    <2> QED BY <2>4
  <1> QED BY <1>1, <1>2, <1>3, <1>4

\* Nothing is appended before something has been asked for.
LEMMA AppendsKept ==
    ASSUME CallTypes, todo # <<>>, \A i \in 1 .. Len(todo) : todo[i].do # "append",
           \/ todo' = <<>>
           \/ todo' = todo
           \/ todo' = Tail(todo)
    PROVE  \A i \in 1 .. Len(todo') : todo'[i].do # "append"
  <1>1. CASE todo' = Tail(todo)
    <2>1. /\ Len(todo') = Len(todo) - 1 /\ Len(todo) \in Nat
          /\ \A i \in 1 .. Len(todo) - 1 : todo'[i] = todo[i + 1]
      BY <1>1, TailSteps DEF CallTypes
    <2>2. ASSUME NEW i \in 1 .. Len(todo') PROVE todo'[i].do # "append"
      <3>1. i \in 1 .. Len(todo) - 1 /\ i + 1 \in 1 .. Len(todo)
        BY <2>1
      <3> QED BY <2>1, <3>1
    <2> QED BY <2>2
  <1> QED BY <1>1

\* What a step of a call leaves of FlushInv.
LEMMA FlushKept ==
    ASSUME CallTypes, FlushInv, todo # <<>>, asked' = asked,
           writeBuf' = writeBuf \/ writeBuf' = None \/ Head(todo).do = "append",
           \/ todo' = <<>>
           \/ todo' = todo
           \/ todo' = Tail(todo) /\ (Head(todo).do \in {"flush", "balance"} => writeBuf' = None)
           \/ /\ Head(todo).do = "append"
              /\ \E s \in Steps : s.do = "append" /\ todo' = <<s>> \o Tail(todo),
           writeBuf' # None /\ fill' = 0 => Doing("append")' \/ Stopped'
    PROVE  FlushInv'
  <1>1. Head(todo) = todo[1] /\ Len(todo) \in Nat /\ Len(todo) >= 1
    BY TailSteps DEF CallTypes
  <1>2. asked = <<>> => /\ writeBuf = None /\ Head(todo).do # "append"
                        /\ \A i \in 1 .. Len(todo) : todo[i].do # "append"
    <2>1. 1 \in 1 .. Len(todo)
      BY <1>1
    <2> QED BY <1>1, <2>1 DEF FlushInv
  <1>3. \A i \in 1 .. Len(todo) : InOrder(i)
    BY DEF FlushInv
  <1>4. todo' = todo => writeBuf' = writeBuf \/ Head(todo).do = "append" \/ writeBuf' = None
    OBVIOUS
  <1>5. CASE todo' = todo /\ writeBuf' # writeBuf /\ Head(todo).do # "append"
    <2>1. \A i \in 1 .. Len(todo') : InOrder(i)'
      BY <1>3, <1>5 DEF InOrder
    <2> QED BY <1>2, <1>5, <2>1 DEF FlushInv
  <1>6. CASE ~(todo' = todo /\ writeBuf' # writeBuf /\ Head(todo).do # "append")
    <2>1. \A i \in 1 .. Len(todo') : InOrder(i)'
      BY <1>3, <1>6, OrderKept
    <2>2. asked = <<>> => writeBuf' = None /\ \A i \in 1 .. Len(todo') : todo'[i].do # "append"
      BY <1>2, AppendsKept
    <2> QED BY <2>1, <2>2 DEF FlushInv
  <1> QED BY <1>5, <1>6

\* A take leaves the item that the next put hands out.
LEMMA TakePrepared ==
    ASSUME FlightInv, queueSize(queue) > 0
    PROVE  /\ ~IsFull(queueCommitTake(queue))
           /\ ItemToPut(queueCommitTake(queue)) = ItemToPut(queue)
  <1>1. /\ queue.numItems \in Nat /\ queue.capacity \in Nat
        /\ queue.numItems <= queue.capacity /\ queue.numItems > 0
        /\ queue \in Rings
    BY DEF FlightInv, RingInv, RingOK, IsRing, Rings, queueSize
  <1> DEFINE q == queueCommitTake(queue)
  <1>2. /\ q.numItems = queue.numItems - 1 /\ q.capacity = queue.capacity
        /\ q.putIndex = queue.putIndex /\ q.itemArray = queue.itemArray
    BY <1>1 DEF queueCommitTake, Rings
  <1> HIDE DEF q
  <1>3. q.numItems # q.capacity
    BY <1>1, <1>2
  <1> QED BY <1>2, <1>3 DEF q, IsFull, ItemToPut

\* Nothing had failed before a step after which nothing has.
LEMMA NoneHadFailed ==
    ASSUME CallTypes, WriterInv, faults' = 0, faults' = faults \/ faults' = faults + 1
    PROVE  faults' = faults /\ PreparedInv
  <1>1. faults = 0
    BY DEF CallTypes
  <1> QED BY <1>1 DEF WriterInv

\* A call that runs has not been stopped, unless it is flClose.
LEMMA RunningCall ==
    ASSUME CallTypes, OpenInv, FlushInv, todo # <<>>,
           Head(todo).do \notin {"open", "getStatus", "append", "flush", "drain"}
    PROVE  writeBuf = None \/ fill # 0
  <1>1. held = Everything
    BY CallServes DEF Serving
  <1>2. Closing[1].do = "flush" /\ Head(Closing) = Closing[1]
        /\ Len(Tail(Closing)) = 1 /\ Head(Tail(Closing)).do = "drain"
    BY ClosingSteps, TailSteps DEF Closing
  <1> QED BY <1>1, <1>2 DEF FlushInv, Stopped, Doing

\* An await leaves the prepared buffer alone, or stops the call.
LEMMA AwaitWriter ==
    ASSUME FlightInv, CallTypes, WriterInv, Await, todo # <<>>
    PROVE  WriterInv'
  <1>1. /\ UNCHANGED <<held, asked, writeBuf, fill>> /\ TakeOldest /\ queueSize(queue) > 0
        /\ \/ todo' = todo /\ status' = status
           \/ todo' = <<>> /\ status' = "FL_USB_ERR"
        /\ faults' = faults \/ faults' = faults + 1
    BY AwaitEffect DEF deviceVars, history
  <1>2. FlushInv
    BY DEF WriterInv
  <1>3. faults' = 0 => PreparedInv'
    <2>1. queue' = queueCommitTake(queue)
      BY <1>1 DEF TakeOldest
    <2> QED BY <1>1, <2>1, NoneHadFailed, TakePrepared DEF PreparedInv
  <1>4. writeBuf' # None /\ fill' = 0 => Doing("append")' \/ Stopped'
    <2>1. CASE todo' = todo
      BY <1>1, <1>2, <2>1 DEF FlushInv, Doing, Stopped
    <2>2. CASE todo' = <<>> /\ status' = "FL_USB_ERR"
      BY <2>2 DEF Stopped, Healthy
    <2> QED BY <1>1, <2>1, <2>2
  <1>5. FlushInv'
    BY <1>1, <1>2, <1>4, FlushKept
  <1> QED BY <1>3, <1>5 DEF WriterInv

\* bufferAppend.
LEMMA PrepareWriter ==
    ASSUME FlightInv, CallTypes, WriterInv, PrepareBuffer
    PROVE  WriterInv'
  <1>1. /\ todo # <<>> /\ Head(todo).do = "append" /\ asked' = asked
        /\ faults \in Nat /\ FlushInv
    BY DEF PrepareBuffer, Doing, history, CallTypes, WriterInv
  <1>2. CASE /\ CanGrow(queue) /\ queue' = queuePut(queue) /\ writeBuf' = ItemToPut(queue')
             /\ todo' = todo
    <2>1. PreparedInv'
      BY <1>2, PutStep DEF PreparedInv, FlightInv, RingInv
    <2>2. Doing("append")'
      BY <1>1, <1>2 DEF Doing
    <2>3. FlushInv'
      BY <1>1, <1>2, <2>2, FlushKept
    <2> QED BY <2>1, <2>3 DEF WriterInv
  <1>3. CASE faults' = faults + 1 /\ todo' = <<>> /\ status' = "FL_ALLOC_ERR" /\ writeBuf' = writeBuf
    <2>1. Stopped'
      BY <1>3 DEF Stopped, Healthy
    <2>2. FlushInv'
      BY <1>1, <1>3, <2>1, FlushKept
    <2>3. faults' # 0
      BY <1>1, <1>3
    <2> QED BY <2>2, <2>3 DEF WriterInv
  <1> QED BY <1>2, <1>3 DEF PrepareBuffer, Fail, CanFail, Return

\* A full buffer is submitted, and a new one prepared for the rest.
LEMMA FillWriter ==
    ASSUME FlightInv, CallTypes, WriterInv, FillAndSubmit
    PROVE  WriterInv'
  <1> DEFINE bytes == Head(todo).bytes
             rest == SubSeq(bytes, Space + 1, Len(bytes))
             q == queuePut(queue)
             next == queueCommitPut(q)
  <1>1. /\ todo # <<>> /\ Head(todo).do = "append" /\ asked' = asked /\ writeBuf # None
        /\ Len(bytes) >= Space
        /\ faults \in Nat /\ FlushInv
    BY DEF FillAndSubmit, Doing, history, CallTypes, WriterInv
  <1>2. \/ faults' = faults + 1 /\ todo' = <<>> /\ status' = "FL_USB_ERR" /\ writeBuf' = writeBuf
        \/ writeBuf' = None /\ todo' = Tail(todo)
        \/ /\ CanGrow(queue) /\ rest # <<>> /\ CanGrow(next) /\ queue' = queuePut(next)
           /\ writeBuf' = ItemToPut(queue') /\ todo' = <<Collect(rest)>> \o Tail(todo)
    BY DEF FillAndSubmit, SubmitFails, SubmitWrite, Fail, CanFail, Return, Proceed, Done, Again
  <1>3. CASE faults' = faults + 1 /\ todo' = <<>> /\ status' = "FL_USB_ERR" /\ writeBuf' = writeBuf
    <2>1. Stopped'
      BY <1>3 DEF Stopped, Healthy
    <2>2. FlushInv'
      BY <1>1, <1>3, <2>1, FlushKept
    <2>3. faults' # 0
      BY <1>1, <1>3
    <2> QED BY <2>2, <2>3 DEF WriterInv
  <1>4. rest # <<>> => Collect(rest) \in Steps /\ Collect(rest).do = "append"
    <2>1. Space \in Nat /\ Head(todo).bytes \in Seq(Nat) /\ Doing("append")
      BY <1>1, SpaceType, AppendData DEF Doing
    <2> QED BY <1>1, <2>1, RestOfData
  <1> HIDE DEF rest
  <1>5. CASE writeBuf' = None /\ todo' = Tail(todo)
    <2>1. FlushInv'
      BY <1>1, <1>5, FlushKept
    <2> QED BY <1>5, <2>1 DEF PreparedInv, WriterInv
  <1>6. CASE /\ CanGrow(queue) /\ rest # <<>> /\ CanGrow(next) /\ queue' = queuePut(next)
             /\ writeBuf' = ItemToPut(queue') /\ todo' = <<Collect(rest)>> \o Tail(todo)
    <2>1. RingOK(q) /\ q.capacity <= MaxCapacity /\ ~IsFull(q)
      BY <1>6, PutStep DEF FlightInv, RingInv
    <2>2. RingOK(next) /\ next.capacity <= MaxCapacity
      <3> HIDE DEF q
      <3> QED BY <2>1, CommitStep
    <2> HIDE DEF next
    <2>3. PreparedInv'
      BY <1>6, <2>2, PutStep DEF PreparedInv
    <2>4. \E s \in Steps : s.do = "append" /\ todo' = <<s>> \o Tail(todo)
      BY <1>4, <1>6
    <2>5. Doing("append")'
      <3>1. PICK s \in Steps : s.do = "append" /\ todo' = <<s>> \o Tail(todo)
        BY <2>4
      <3>2. todo' \in Seq(Steps) /\ Len(todo') = Len(todo) /\ todo'[1] = s /\ Len(todo) \in Nat /\ Len(todo) >= 1
        BY <1>1, <3>1, AgainSteps, TailSteps DEF CallTypes
      <3>3. todo' # <<>>
        <4>1. Len(todo') # 0
          BY <3>2
        <4> QED BY <4>1
      <3>4. Head(todo') = s
        BY <3>2, <3>3, TailSteps
      <3> QED BY <3>1, <3>3, <3>4 DEF Doing
    <2>6. FlushInv'
      BY <1>1, <2>4, <2>5, FlushKept
    <2> QED BY <2>3, <2>6 DEF WriterInv
  <1> QED BY <1>2, <1>3, <1>5, <1>6

\* The rest does not fill it.
LEMMA AppendRestWriter ==
    ASSUME CallTypes, WriterInv, AppendRest
    PROVE  WriterInv'
  <1>1. /\ todo # <<>> /\ Head(todo).do = "append" /\ todo' = Tail(todo)
        /\ fill' = fill + Len(Head(todo).bytes)
        /\ UNCHANGED <<asked, writeBuf, queue, faults>> /\ FlushInv
    BY DEF AppendRest, Doing, Proceed, Done, history, WriterInv
  <1>2. fill' # 0
    <2>1. Len(Head(todo).bytes) \in Nat /\ Len(Head(todo).bytes) > 0
      BY <1>1, AppendData DEF Doing
    <2> QED BY <1>1, <2>1 DEF CallTypes
  <1>3. FlushInv'
    BY <1>1, <1>2, FlushKept
  <1> QED BY <1>1, <1>3 DEF WriterInv, PreparedInv

\* bufferAppend.
LEMMA AppendWriter ==
    ASSUME FlightInv, CallTypes, WriterInv, bufferAppend
    PROVE  WriterInv'
  <1>1. CASE AppendBalances
    BY <1>1, AwaitWriter DEF AppendBalances, Doing
  <1> QED BY <1>1, PrepareWriter, FillWriter, AppendRestWriter DEF bufferAppend

\* flFlushAsyncWrites.
LEMMA FlushWriter ==
    ASSUME FlightInv, CallTypes, OpenInv, WriterInv, Flush
    PROVE  WriterInv'
  <1>1. /\ todo # <<>> /\ Head(todo).do = "flush" /\ UNCHANGED <<asked, held>>
        /\ faults \in Nat /\ FlushInv
    BY DEF Flush, Doing, history, deviceVars, CallTypes, WriterInv
  <1>2. \/ faults' = faults + 1 /\ todo' = <<>> /\ status' = "FL_USB_ERR" /\ writeBuf' = writeBuf
        \/ todo' = Tail(todo) /\ writeBuf' = None
        \/ /\ todo' = Tail(todo) /\ UNCHANGED <<queue, writeBuf, fill, faults>>
           /\ fill = 0 /\ writeBuf # None
    BY DEF Flush, SubmitFails, Fail, CanFail, Return, Proceed, Done
  <1>3. CASE faults' = faults + 1 /\ todo' = <<>> /\ status' = "FL_USB_ERR" /\ writeBuf' = writeBuf
    <2>1. Stopped'
      BY <1>3 DEF Stopped, Healthy
    <2>2. FlushInv'
      BY <1>1, <1>3, <2>1, FlushKept
    <2>3. faults' # 0
      BY <1>1, <1>3
    <2> QED BY <2>2, <2>3 DEF WriterInv
  <1>4. CASE todo' = Tail(todo) /\ writeBuf' = None
    <2>1. FlushInv'
      BY <1>1, <1>4, FlushKept
    <2> QED BY <1>4, <2>1 DEF PreparedInv, WriterInv
  <1>5. CASE /\ todo' = Tail(todo) /\ UNCHANGED <<queue, writeBuf, fill, faults>>
             /\ fill = 0 /\ writeBuf # None
    <2>1. held = Everything
      BY <1>1, CallServes DEF Serving
    <2>2. /\ Tail(Closing) = <<[do |-> "drain"]>> /\ Tail(Closing) # <<>>
          /\ Head(Tail(Closing)).do = "drain"
      BY DEF Closing
    <2>3. todo = Closing
      <3>1. ~Doing("append") /\ todo # Tail(Closing)
        BY <1>1, <2>2 DEF Doing
      <3>2. Stopped
        <4>1. writeBuf # None /\ fill = 0 => Doing("append") \/ Stopped
          BY <1>1 DEF FlushInv
        <4> QED BY <1>5, <3>1, <4>1
      <3> QED BY <1>1, <2>1, <3>1, <3>2 DEF Stopped
    <2>4. todo' = Tail(Closing) /\ Len(todo') = 1 /\ todo'[1].do = "drain"
      <3>1. /\ Len(<<[do |-> "drain"]>>) = 1 /\ <<[do |-> "drain"]>>[1].do = "drain"
        OBVIOUS
      <3>2. todo' = Tail(Closing)
        BY <1>5, <2>3
      <3> QED BY <2>2, <3>1, <3>2
    <2>5. \A i \in 1 .. Len(todo') : todo'[i].do = "drain"
      BY <2>4
    <2>6. FlushInv'
      <3>1. Stopped'
        BY <2>4 DEF Stopped
      <3>2. \A i \in 1 .. Len(todo') : InOrder(i)'
        BY <2>5 DEF InOrder
      <3>3. asked' # <<>>
        BY <1>1, <1>5 DEF FlushInv
      <3> QED BY <3>1, <3>2, <3>3 DEF FlushInv
    <2> QED BY <1>5, <2>6 DEF PreparedInv, WriterInv
  <1> QED BY <1>2, <1>3, <1>4, <1>5

\* The waits of flAwaitAsyncWrites, of a read's balance and of a read.
LEMMA WaitWriter ==
    ASSUME FlightInv, CallTypes, OpenInv, WriterInv, AwaitWrites \/ Balance \/ AwaitRead
    PROVE  WriterInv'
  <1>1. todo # <<>> /\ Head(todo).do \in {"awaitWrites", "balance", "awaitRead"}
    BY DEF AwaitWrites, Balance, AwaitRead, Doing
  <1>2. CASE Await
    BY <1>1, <1>2, AwaitWriter
  <1>3. CASE /\ UNCHANGED <<held, asked, writeBuf, fill, queue, faults>>
             /\ todo' = <<>> /\ status' \in {"FL_BAD_STATE", "FL_USB_ERR", "FL_EARLY_TERM"}
    <2>1. FlushInv
      BY DEF WriterInv
    <2>2. Stopped'
      BY <1>3 DEF Stopped, Healthy
    <2>3. FlushInv'
      BY <1>1, <1>3, <2>1, <2>2, FlushKept
    <2> QED BY <1>3, <2>3 DEF WriterInv, PreparedInv
  <1>4. CASE UNCHANGED <<held, asked, writeBuf, fill, queue, faults>> /\ todo' = Tail(todo)
    <2>1. FlushInv
      BY DEF WriterInv
    <2>2. writeBuf = None \/ fill # 0
      BY <1>1, <2>1, RunningCall
    <2>3. Head(todo).do = "balance" => writeBuf = None
      <3>1. 1 \in 1 .. Len(todo) /\ Head(todo) = todo[1]
        BY <1>1, TailSteps DEF CallTypes
      <3>2. InOrder(1)
        BY <2>1, <3>1 DEF FlushInv
      <3> QED BY <3>1, <3>2 DEF InOrder
    <2>4. FlushInv'
      BY <1>1, <1>4, <2>1, <2>2, <2>3, FlushKept
    <2> QED BY <1>4, <2>4 DEF WriterInv, PreparedInv
  <1>5. CASE AwaitWrites
    BY <1>2, <1>3, <1>4, <1>5 DEF AwaitWrites, Return, Proceed, Done, deviceVars, handleVars, usbVars, history
  <1>6. CASE Balance
    BY <1>2, <1>4, <1>6 DEF Balance, Proceed, Done, deviceVars, handleVars, usbVars, history
  <1>7. CASE AwaitRead
    BY <1>2, <1>3, <1>4, <1>7 DEF AwaitRead, Return, Proceed, Done, deviceVars, handleVars, usbVars, history
  <1> QED BY <1>5, <1>6, <1>7

\* A read is queued when nothing is left to submit.
LEMMA ReadAsyncWriter ==
    ASSUME CallTypes, WriterInv, ReadAsync
    PROVE  WriterInv'
  <1>1. /\ todo # <<>> /\ Head(todo).do = "readAsync" /\ UNCHANGED <<asked, writeBuf>>
        /\ todo' = Tail(todo) \/ todo' = <<>>
    BY DEF ReadAsync, Doing, history, handleVars, Fail, CanFail, Return, Proceed, Done
  <1>2. FlushInv
    BY DEF WriterInv
  <1>3. writeBuf = None
    <2>1. 1 \in 1 .. Len(todo) /\ Head(todo) = todo[1]
      BY <1>1, TailSteps DEF CallTypes
    <2>2. InOrder(1)
      BY <1>2, <2>1 DEF FlushInv
    <2> QED BY <1>1, <2>1, <2>2 DEF InOrder
  <1>4. None' = None
    BY DEF None
  <1>5. FlushInv'
    BY <1>1, <1>2, <1>3, <1>4, FlushKept
  <1> QED BY <1>1, <1>3, <1>4, <1>5 DEF WriterInv, PreparedInv

\* flClose: it drains the queue, and frees the device.
LEMMA CloseWriter ==
    ASSUME FlightInv, CallTypes, WriterInv, Drain \/ CloseDevice
    PROVE  WriterInv'
  <1>1. /\ todo # <<>> /\ Head(todo).do = "drain" /\ UNCHANGED <<asked, writeBuf, fill>>
        /\ faults' = faults \/ faults' = faults + 1
    BY DEF Drain, CloseDevice, Doing, history, handleVars, CanFail
  <1>2. FlushInv
    BY DEF WriterInv
  <1>3. CASE Drain
    <2>1. queue' = queueCommitTake(queue) /\ queueSize(queue) > 0 /\ UNCHANGED <<todo, status, held>>
      BY <1>3 DEF Drain, TakeOldest, deviceVars
    <2>2. faults' = 0 => PreparedInv'
      BY <1>1, <2>1, NoneHadFailed, TakePrepared DEF PreparedInv
    <2>3. writeBuf' # None /\ fill' = 0 => Doing("append")' \/ Stopped'
      BY <1>1, <1>2, <2>1 DEF FlushInv, Doing, Stopped, Healthy
    <2>4. FlushInv'
      BY <1>1, <1>2, <2>1, <2>3, FlushKept
    <2> QED BY <2>2, <2>4 DEF WriterInv
  <1>4. CASE CloseDevice
    <2>1. todo' = Tail(todo) /\ held' = {} /\ queue' = queue
      BY <1>4 DEF CloseDevice, Proceed, Done, usbVars
    <2>2. Stopped'
      BY <2>1 DEF Stopped, Everything
    <2>3. FlushInv'
      BY <1>1, <1>2, <2>1, <2>2, FlushKept
    <2> QED BY <1>1, <2>1, <2>3, NoneHadFailed DEF WriterInv, PreparedInv
  <1> QED BY <1>3, <1>4

\* flOpen: nothing has been written yet.
LEMMA OpenWriter ==
    ASSUME CallTypes, OpenInv, WriterInv, OpenStep \/ GetStatus
    PROVE  WriterInv'
  <1>1. /\ todo # <<>> /\ Head(todo).do \in {"open", "getStatus"} /\ UNCHANGED <<asked, writeBuf>>
        /\ todo' = <<>> \/ todo' = Tail(todo)
    BY DEF OpenStep, GetStatus, Doing, history, handleVars, Fail, CanFail, Return, Proceed, Done
  <1>2. FlushInv
    BY DEF WriterInv
  <1>3. asked = <<>>
    <2>1. ~Serving
      <3>1. 1 \in 1 .. Len(todo) /\ Head(todo) = todo[1]
        BY <1>1, TailSteps DEF CallTypes
      <3> QED BY <1>1, <3>1 DEF Serving
    <2> QED BY <1>1, <2>1 DEF OpenInv, Opening, Closed
  <1>4. writeBuf = None
    BY <1>2, <1>3 DEF FlushInv
  <1>5. FlushInv'
    BY <1>1, <1>2, <1>4, FlushKept
  <1> QED BY <1>1, <1>4, <1>5 DEF WriterInv, PreparedInv, None

\* Any step of a call.
LEMMA HostWriter ==
    ASSUME FlightInv, CallTypes, OpenInv, WriterInv, HostStep
    PROVE  WriterInv'
  BY AppendWriter, FlushWriter, WaitWriter, ReadAsyncWriter, CloseWriter, OpenWriter DEF HostStep

\* A call starts with data in the prepared buffer, if there is one.
LEMMA StartsWriter ==
    ASSUME WriterInv, Starts(TRUE), Healthy
    PROVE  WriterInv'
  <1>1. /\ todo = <<>> /\ held = Everything /\ todo' \in Routines(TRUE)
        /\ UNCHANGED <<writeBuf, fill, queue, faults>>
        /\ asked' = <<>> => asked = <<>> /\ \A i \in 1 .. Len(todo') : todo'[i].do # "append"
    BY DEF Starts, Ready, IsOpen, handleVars, usbVars
  <1>2. FlushInv
    BY DEF WriterInv
  <1>3. writeBuf = None \/ fill # 0
    BY <1>1, <1>2 DEF FlushInv, Stopped, Doing, Closing
  <1>4. \A i \in 1 .. Len(todo') : InOrder(i)'
    BY <1>1 DEF Routines, InOrder
  <1>5. FlushInv'
    BY <1>1, <1>2, <1>3, <1>4 DEF FlushInv
  <1> QED BY <1>1, <1>5 DEF WriterInv, PreparedInv

\* Any call that transfers.
LEMMA CallingWriter ==
    ASSUME CallTypes, WriterInv, Calling
    PROVE  WriterInv'
  <1>1. calls % Channels \in Nat
    <2>1. calls \in Nat /\ Channels \in Nat /\ Channels > 0
      BY FormatAssumption DEF CallTypes
    <2> QED BY <2>1
  <1>2. Starts(TRUE) /\ Healthy
    BY <1>1, CallStarts DEF Calling
  <1> QED BY <1>2, StartsWriter

\* Any other call.
LEMMA ManagingWriter ==
    ASSUME CallTypes, WriterInv, Managing
    PROVE  WriterInv'
  <1>1. \/ UNCHANGED <<writeBuf, fill, queue, faults, asked>> /\ todo = <<>>
        \/ \E n \in {0, 1} : Refuse(n)
    BY DEF Managing, flOpen, flClose, Ready, flSetAsyncWriteChunkSize, Call, handleVars, usbVars, history
  <1>2. UNCHANGED <<writeBuf, fill, queue, faults, asked>> /\ todo = <<>>
    BY <1>1 DEF Refuse, Ready, Call, handleVars, usbVars
  <1>3. FlushInv
    BY DEF WriterInv
  <1>4. faults' = 0 => PreparedInv'
    BY <1>2 DEF WriterInv, PreparedInv
  <1>5. CASE flOpen
    <2>1. asked = <<>> /\ todo' = OpenSteps
      BY <1>5 DEF flOpen, Begin
    <2>2. \A i \in 1 .. Len(todo') : todo'[i].do \in {"open", "getStatus"}
      <3>1. Len(OpenSteps) = 8
        BY OpeningSteps
      <3>2. \A i \in 1 .. 8 : i \in 1 .. 7 \/ i = 8
        OBVIOUS
      <3> QED BY <2>1, <3>1, <3>2, OpeningHolds
    <2> QED BY <1>2, <1>3, <1>4, <2>1, <2>2 DEF WriterInv, FlushInv, InOrder
  <1>6. CASE flClose
    <2>1. todo' = Closing
      BY <1>6 DEF flClose, Begin, Closing
    <2>2. Len(todo') = 2 /\ todo'[1].do = "flush" /\ todo'[2].do = "drain"
      BY <2>1, ClosingSteps
    <2>3. \A i \in 1 .. 2 : i = 1 \/ i = 2
      OBVIOUS
    <2>4. \A i \in 1 .. Len(todo') : todo'[i].do \in {"flush", "drain"}
      BY <2>2, <2>3
    <2>5. Stopped'
      BY <2>1 DEF Stopped
    <2> QED BY <1>2, <1>3, <1>4, <2>4, <2>5 DEF WriterInv, FlushInv, InOrder
  <1>7. CASE \E size \in ChunkSizes : MaySync /\ flSetAsyncWriteChunkSize(size)
    <2>1. Healthy /\ held = Everything /\ todo' = todo
      BY <1>7 DEF MaySync, flSetAsyncWriteChunkSize, Ready, IsOpen
    <2>2. writeBuf = None \/ fill # 0
      BY <1>2, <1>3, <2>1 DEF FlushInv, Stopped, Doing, Closing
    <2> QED BY <1>2, <1>3, <1>4, <2>1, <2>2 DEF WriterInv, FlushInv
  <1>8. CASE \E n \in {0, 1} : Refuse(n)
    <2>1. todo' = todo /\ status' = "FL_PROTOCOL_ERR"
      BY <1>8 DEF Refuse
    <2>2. Stopped'
      BY <1>2, <2>1 DEF Stopped, Healthy
    <2> QED BY <1>2, <1>3, <1>4, <2>1, <2>2 DEF WriterInv, FlushInv
  <1> QED BY <1>5, <1>6, <1>7, <1>8 DEF Managing

\* The controllers and the clock do not touch what the host prepares.
LEMMA StillWriter ==
    ASSUME CallTypes, WriterInv, faults' = faults \/ faults' = faults + 1,
           UNCHANGED <<held, asked, writeBuf, fill, todo, status, queue>>
    PROVE  WriterInv'
  <1>1. faults' = 0 => PreparedInv'
    BY NoneHadFailed DEF PreparedInv
  <1>2. FlushInv'
    BY DEF WriterInv, FlushInv, InOrder, Doing, Stopped, Healthy
  <1> QED BY <1>1, <1>2 DEF WriterInv

\* Any step.
LEMMA NextWriter ==
    FlightInv /\ CallTypes /\ OpenInv /\ WriterInv /\ [Next]_vars => WriterInv'
  <1> SUFFICES ASSUME FlightInv, CallTypes, OpenInv, WriterInv, [Next]_vars PROVE WriterInv'
    OBVIOUS
  <1>1. CASE UNCHANGED vars
    BY <1>1, StillWriter DEF vars, linkVars, deviceVars, handleVars, usbVars, history
  <1>2. CASE Clocking \/ MoveOut \/ MoveIn \/ TransferFails
    BY <1>2, StillWriter DEF Clocking, MoveOut, MoveIn, TransferFails, CanFail, linkVars,
                             deviceVars, handleVars, usbVars, history
  <1>3. CASE Working
    BY <1>3, HostWriter DEF Working
  <1> QED BY <1>1, <1>2, <1>3, CallingWriter, ManagingWriter DEF Next

-----------------------------------------------------------------------------
(* The buffers of the transfers.                                            *)

\* None is no wrapper, and neither is a caller's buffer.
LEMMA OutsideWrappers ==
    /\ None \notin Wrappers
    /\ \A b \in CallersBuffers : b \notin Wrappers
  BY LinkAssumption DEF None, Wrappers, CallersBuffers

\* What is neither a read nor in a wrapper's buffer.
LEMMA IdleBuffers ==
    /\ NoTransfer.buffer \notin Wrappers /\ ~NoTransfer.isRead
    /\ NoReport.buffer \notin Wrappers
  BY OutsideWrappers DEF NoTransfer, NoReport

\* The controllers move the bytes of a transfer, and leave it where it is.
LEMMA MovedStays ==
    ASSUME NEW t, IsTransfer(t), NEW n, NEW e
    PROVE  Moved(t, n, e).buffer = t.buffer /\ Moved(t, n, e).isRead = t.isRead
  <1>1. PICK r, b, l, a, f :
            t = [isRead |-> r, buffer |-> b, length |-> l, actual |-> a, state |-> f]
    BY DEF IsTransfer
  <1> DEFINE c == [isRead |-> r, buffer |-> b, length |-> l, actual |-> n, state |-> f]
             d == [isRead |-> r, buffer |-> b, length |-> l, actual |-> n, state |-> e]
  <1>2. [t EXCEPT !.actual = n] = c
    BY <1>1
  <1>3. [c EXCEPT !.state = e] = d
    OBVIOUS
  <1>4. Moved(t, n, e) = [[t EXCEPT !.actual = n] EXCEPT !.state = e]
    BY DEF Moved
  <1>5. d.buffer = b /\ d.isRead = r /\ t.buffer = b /\ t.isRead = r
    BY <1>1
  <1> HIDE DEF c, d
  <1>6. Moved(t, n, e) = d
    BY <1>2, <1>3, <1>4
  <1> QED BY <1>5, <1>6

\* One transfer is set.
LEMMA SetPrivate ==
    ASSUME FlightInv, TransfersPrivate, NoneBorrowed' => NoneBorrowed,
           NEW w \in Wrappers, NEW t, transfer' = [transfer EXCEPT ![w] = t],
           t.buffer \notin Wrappers \ {w}, NoneBorrowed /\ t.isRead => t.buffer \notin Wrappers
    PROVE  TransfersPrivate'
  <1>1. DOMAIN transfer = Wrappers
    BY DEF FlightInv, TransferInv
  <1>2. \A v \in Wrappers : transfer'[v] = IF v = w THEN t ELSE transfer[v]
    BY <1>1
  <1>3. ASSUME NEW v \in Wrappers
        PROVE  /\ transfer'[v].buffer \notin Wrappers \ {v}
               /\ NoneBorrowed' /\ transfer'[v].isRead => transfer'[v].buffer \notin Wrappers
    <2>1. CASE v = w
      BY <1>2, <2>1
    <2>2. CASE v # w
      BY <1>2, <2>2 DEF TransfersPrivate
    <2> QED BY <2>1, <2>2
  <1>4. UNCHANGED Wrappers
    BY DEF Wrappers
  <1> QED BY <1>3, <1>4 DEF TransfersPrivate

\* The oldest transfer leaves the queue.
LEMMA TakePrivate ==
    ASSUME FlightInv, TransfersPrivate, TakeOldest, UNCHANGED reads
    PROVE  TransfersPrivate'
  <1>1. ItemToTake(queue) \in Wrappers
    BY RingTypes DEF FlightInv, RingInv
  <1>2. transfer' = [transfer EXCEPT ![ItemToTake(queue)] = NoTransfer]
    BY DEF TakeOldest
  <1>3. NoneBorrowed' = NoneBorrowed
    BY DEF NoneBorrowed
  <1> QED BY <1>1, <1>2, <1>3, IdleBuffers, SetPrivate

\* A write is submitted from its own wrapper's buffer.
LEMMA SubmitPrivate ==
    ASSUME FlightInv, TransfersPrivate, NEW n, SubmitWrite(n), UNCHANGED reads
    PROVE  TransfersPrivate'
  <1> DEFINE w == ItemToPut(queuePut(queue))
             t == Filled(FALSE, w, n)
  <1>1. CanGrow(queue) /\ transfer' = [transfer EXCEPT ![w] = t]
    BY DEF SubmitWrite
  <1>2. w \in Wrappers
    BY <1>1, PutStep DEF FlightInv, RingInv
  <1> HIDE DEF w
  <1>3. t.buffer = w /\ ~t.isRead
    BY DEF Filled
  <1>4. NoneBorrowed' = NoneBorrowed
    BY DEF NoneBorrowed
  <1> HIDE DEF t
  <1> QED BY <1>1, <1>2, <1>3, <1>4, SetPrivate

\* A read is submitted, into the buffer that its caller gave or its own.
LEMMA ReadPrivate ==
    ASSUME FlightInv, CallTypes, TransfersPrivate, NoneLent, ReadAsync
    PROVE  TransfersPrivate'
  <1> DEFINE w == ItemToPut(queuePut(queue))
             b == IF Head(todo).buffer = None THEN w ELSE Head(todo).buffer
             t == Filled(TRUE, b, Head(todo).length)
  <1>1. /\ todo # <<>> /\ Head(todo).do = "readAsync" /\ reads' = reads
        /\ \/ CanGrow(queue) /\ transfer' = [transfer EXCEPT ![w] = t]
           \/ transfer' = transfer
    BY DEF ReadAsync, Doing, history
  <1>2. NoneBorrowed' = NoneBorrowed
    BY <1>1 DEF NoneBorrowed
  <1>3. CASE transfer' = transfer
    BY <1>2, <1>3 DEF TransfersPrivate, Wrappers
  <1>4. CASE CanGrow(queue) /\ transfer' = [transfer EXCEPT ![w] = t]
    <2>1. w \in Wrappers
      BY <1>4, PutStep DEF FlightInv, RingInv
    <2>2. /\ 1 \in 1 .. Len(todo) /\ Head(todo) = todo[1]
          /\ Head(todo).buffer \in CallersBuffers \cup {None}
      BY <1>1, TailSteps, StepTypes DEF CallTypes
    <2>3. NoneBorrowed => Head(todo).buffer # None
      BY <1>1, <2>2 DEF NoneLent
    <2> HIDE DEF w
    <2>4. b \notin Wrappers \ {w} /\ (NoneBorrowed => b \notin Wrappers)
      BY <2>1, <2>2, <2>3, OutsideWrappers
    <2> HIDE DEF b
    <2>5. t.buffer = b
      BY DEF Filled
    <2> HIDE DEF t
    <2> QED BY <1>2, <1>4, <2>1, <2>4, <2>5, SetPrivate
  <1> QED BY <1>1, <1>3, <1>4

\* A packet moves, or a transfer ends.
LEMMA MovePrivate ==
    ASSUME FlightInv, TransfersPrivate, UNCHANGED reads,
           NEW w \in Wrappers, NEW n, NEW e, Over(w, n, e)
    PROVE  TransfersPrivate'
  <1> DEFINE t == Moved(transfer[w], n, e)
  <1>1. transfer' = [transfer EXCEPT ![w] = t]
    BY DEF Over
  <1>2. t.buffer = transfer[w].buffer /\ t.isRead = transfer[w].isRead
    BY MovedStays DEF FlightInv, TransferInv
  <1>3. NoneBorrowed' = NoneBorrowed
    BY DEF NoneBorrowed
  <1> HIDE DEF t
  <1>4. t.buffer \notin Wrappers \ {w} /\ (NoneBorrowed /\ t.isRead => t.buffer \notin Wrappers)
    BY <1>2 DEF TransfersPrivate
  <1> QED BY <1>1, <1>3, <1>4, SetPrivate

\* The steps that are left of a call.
LEMMA LentKept ==
    ASSUME CallTypes, NoneLent, UNCHANGED reads,
           \/ todo' = todo
           \/ todo' = <<>>
           \/ todo # <<>> /\ todo' = Tail(todo)
           \/ /\ todo # <<>>
              /\ \E s \in Steps : s.do = "append" /\ todo' = <<s>> \o Tail(todo)
    PROVE  NoneLent'
  <1> SUFFICES ASSUME NoneBorrowed'
               PROVE  \A i \in 1 .. Len(todo') : todo'[i].do = "readAsync" => todo'[i].buffer # None'
    BY DEF NoneLent
  <1>1. \A i \in 1 .. Len(todo) : todo[i].do = "readAsync" => todo[i].buffer # None
    BY DEF NoneLent, NoneBorrowed
  <1>2. None' = None
    BY DEF None
  <1>3. CASE todo # <<>> /\ todo' = Tail(todo)
    <2>1. /\ Len(todo') = Len(todo) - 1 /\ Len(todo) \in Nat
          /\ \A i \in 1 .. Len(todo) - 1 : todo'[i] = todo[i + 1]
      BY <1>3, TailSteps DEF CallTypes
    <2>2. ASSUME NEW i \in 1 .. Len(todo')
          PROVE  todo'[i].do = "readAsync" => todo'[i].buffer # None
      <3>1. i \in 1 .. Len(todo) - 1 /\ i + 1 \in 1 .. Len(todo)
        BY <2>1
      <3> QED BY <1>1, <2>1, <3>1
    <2> QED BY <1>2, <2>2
  <1>4. CASE /\ todo # <<>>
             /\ \E s \in Steps : s.do = "append" /\ todo' = <<s>> \o Tail(todo)
    <2>1. PICK s \in Steps : s.do = "append" /\ todo' = <<s>> \o Tail(todo)
      BY <1>4
    <2>2. /\ Len(todo') = Len(todo) /\ todo'[1] = s /\ Len(todo) \in Nat
          /\ \A i \in 2 .. Len(todo) : todo'[i] = todo[i]
      BY <1>4, <2>1, AgainSteps DEF CallTypes
    <2>3. ASSUME NEW i \in 1 .. Len(todo')
          PROVE  todo'[i].do = "readAsync" => todo'[i].buffer # None
      <3>1. i \in 1 .. Len(todo) /\ (i = 1 \/ i \in 2 .. Len(todo))
        BY <2>2
      <3> QED BY <1>1, <2>1, <2>2, <3>1
    <2> QED BY <1>2, <2>3
  <1>5. CASE todo' = todo \/ todo' = <<>>
    BY <1>1, <1>2, <1>5
  <1> QED BY <1>3, <1>4, <1>5

\* Reads that no caller has seen the start of are those there were.
LEMMA SameLoans == UNCHANGED reads => NoneBorrowed' = NoneBorrowed
  BY DEF NoneBorrowed

\* A step that sets no transfer and makes no report.
LEMMA BuffersKept ==
    ASSUME CallTypes, BufferInv, UNCHANGED <<transfer, report, reads>>,
           \/ todo' = todo
           \/ todo' = <<>>
           \/ todo # <<>> /\ todo' = Tail(todo)
           \/ /\ todo # <<>>
              /\ \E s \in Steps : s.do = "append" /\ todo' = <<s>> \o Tail(todo)
    PROVE  BufferInv'
  <1>1. NoneLent'
    BY LentKept DEF BufferInv
  <1>2. TransfersPrivate' /\ ReportPrivate'
    BY SameLoans DEF BufferInv, TransfersPrivate, ReportPrivate, Wrappers
  <1> QED BY <1>1, <1>2 DEF BufferInv

\* A report of a read that was not borrowed has the caller's buffer.
LEMMA AwaitBuffers ==
    ASSUME FlightInv, CallTypes, BufferInv, Await
    PROVE  BufferInv'
  <1>1. /\ UNCHANGED reads /\ TakeOldest /\ (todo' = todo \/ todo' = <<>>)
        /\ report' = ReportOf(transfer[ItemToTake(queue)]) \/ report' = report
    BY AwaitEffect DEF history
  <1>2. TransfersPrivate' /\ NoneLent'
    BY <1>1, TakePrivate, LentKept DEF BufferInv
  <1>3. NoneBorrowed /\ ReportPrivate => report'.buffer \notin Wrappers
    <2> SUFFICES ASSUME NoneBorrowed, ReportPrivate PROVE report'.buffer \notin Wrappers
      OBVIOUS
    <2> DEFINE t == transfer[ItemToTake(queue)]
    <2>1. ItemToTake(queue) \in Wrappers
      BY RingTypes DEF FlightInv, RingInv
    <2>2. t.isRead => t.buffer \notin Wrappers
      BY <2>1 DEF BufferInv, TransfersPrivate
    <2> HIDE DEF t
    <2>3. ReportOf(t).buffer \notin Wrappers
      BY <2>2, IdleBuffers DEF ReportOf
    <2> QED BY <1>1, <2>3 DEF ReportPrivate, t
  <1>4. ReportPrivate'
    <2>1. Wrappers' = Wrappers
      BY DEF Wrappers
    <2> QED BY <1>1, <1>3, <2>1, SameLoans DEF BufferInv, ReportPrivate
  <1> QED BY <1>2, <1>4 DEF BufferInv

\* A transfer is submitted, or not.
LEMMA WriteBuffers ==
    ASSUME FlightInv, CallTypes, BufferInv, FillAndSubmit \/ Flush
    PROVE  BufferInv'
  <1>1. /\ todo # <<>> /\ UNCHANGED <<reads, report>>
        /\ SubmitWrite(chunkSize) \/ SubmitWrite(fill) \/ transfer' = transfer
    BY DEF FillAndSubmit, Flush, Doing, history, SubmitFails
  <1>2. \/ todo' = todo
        \/ todo' = <<>>
        \/ todo # <<>> /\ todo' = Tail(todo)
        \/ /\ todo # <<>>
           /\ \E s \in Steps : s.do = "append" /\ todo' = <<s>> \o Tail(todo)
    <2>1. CASE Flush
      BY <1>1, <2>1 DEF Flush, SubmitFails, Fail, Return, Proceed, Done
    <2>2. CASE FillAndSubmit
      <3> DEFINE bytes == Head(todo).bytes
                 rest == SubSeq(bytes, Space + 1, Len(bytes))
      <3>1. /\ Doing("append") /\ writeBuf # None /\ Len(bytes) >= Space
            /\ \/ todo' = <<>>
               \/ todo' = Tail(todo)
               \/ rest # <<>> /\ todo' = <<Collect(rest)>> \o Tail(todo)
        BY <2>2 DEF FillAndSubmit, SubmitFails, Fail, Return, Proceed, Done, Again
      <3>2. rest # <<>> => Collect(rest) \in Steps /\ Collect(rest).do = "append"
        BY <3>1, SpaceType, AppendData, RestOfData
      <3> HIDE DEF rest
      <3> QED BY <1>1, <3>1, <3>2
    <2> QED BY <2>1, <2>2
  <1>3. NoneLent'
    BY <1>1, <1>2, LentKept DEF BufferInv
  <1>4. TransfersPrivate'
    <2>1. CASE transfer' = transfer
      BY <1>1, <2>1, SameLoans DEF BufferInv, TransfersPrivate, Wrappers
    <2> QED BY <1>1, <2>1, SubmitPrivate DEF BufferInv
  <1>5. ReportPrivate'
    BY <1>1, SameLoans DEF BufferInv, ReportPrivate, Wrappers
  <1> QED BY <1>3, <1>4, <1>5 DEF BufferInv

\* bufferAppend.
LEMMA AppendBuffers ==
    ASSUME FlightInv, CallTypes, BufferInv, bufferAppend
    PROVE  BufferInv'
  <1>1. CASE PrepareBuffer
    BY <1>1, BuffersKept DEF PrepareBuffer, Doing, history, Fail, Return
  <1>2. CASE AppendBalances
    BY <1>2, AwaitBuffers DEF AppendBalances
  <1>3. CASE FillAndSubmit
    BY <1>3, WriteBuffers
  <1>4. CASE AppendRest
    BY <1>4, BuffersKept DEF AppendRest, Doing, history, Proceed, Done
  <1> QED BY <1>1, <1>2, <1>3, <1>4 DEF bufferAppend

\* usbBulkReadAsync.
LEMMA ReadBuffers ==
    ASSUME FlightInv, CallTypes, BufferInv, ReadAsync
    PROVE  BufferInv'
  <1>1. /\ todo # <<>> /\ UNCHANGED <<reads, report>> /\ (todo' = <<>> \/ todo' = Tail(todo))
    BY DEF ReadAsync, Doing, handleVars, history, Fail, Return, Proceed, Done
  <1>2. TransfersPrivate' /\ NoneLent'
    BY <1>1, ReadPrivate, LentKept DEF BufferInv
  <1>3. ReportPrivate'
    BY <1>1, SameLoans DEF BufferInv, ReportPrivate, Wrappers
  <1> QED BY <1>2, <1>3 DEF BufferInv

\* The waits.  A report that has been fetched is forgotten.
LEMMA WaitBuffers ==
    ASSUME FlightInv, CallTypes, BufferInv, AwaitWrites \/ Balance \/ AwaitRead
    PROVE  BufferInv'
  <1>1. CASE Await
    BY <1>1, AwaitBuffers
  <1>2. CASE AwaitWrites \/ Balance
    BY <1>1, <1>2, BuffersKept
       DEF AwaitWrites, Balance, Doing, handleVars, usbVars, history, Return, Proceed, Done
  <1>3. CASE AwaitRead
    <2>1. CASE UNCHANGED <<handleVars, usbVars, history>> /\ todo' = <<>>
      BY <2>1, BuffersKept DEF handleVars, usbVars, history
    <2>2. CASE /\ todo # <<>> /\ (todo' = <<>> \/ todo' = Tail(todo))
               /\ report' = NoReport /\ UNCHANGED <<transfer, reads>>
      <3>1. NoneLent'
        BY <2>2, LentKept DEF BufferInv
      <3>2. TransfersPrivate'
        BY <2>2, SameLoans DEF BufferInv, TransfersPrivate, Wrappers
      <3>3. ReportPrivate'
        BY <2>2, IdleBuffers DEF ReportPrivate, Wrappers
      <3> QED BY <3>1, <3>2, <3>3 DEF BufferInv
    <2> QED BY <1>1, <1>3, <2>1, <2>2 DEF AwaitRead, Doing, usbVars, Return, Proceed, Done
  <1> QED BY <1>2, <1>3

\* flClose and flOpen.
LEMMA CloseBuffers ==
    ASSUME FlightInv, CallTypes, BufferInv, Drain \/ CloseDevice \/ OpenStep \/ GetStatus
    PROVE  BufferInv'
  <1>1. CASE Drain
    <2>1. TakeOldest /\ UNCHANGED <<reads, report, todo>>
      BY <1>1 DEF Drain, handleVars, history
    <2>2. TransfersPrivate' /\ NoneLent'
      BY <2>1, TakePrivate, LentKept DEF BufferInv
    <2>3. ReportPrivate'
      BY <2>1, SameLoans DEF BufferInv, ReportPrivate, Wrappers
    <2> QED BY <2>2, <2>3 DEF BufferInv
  <1>2. CASE CloseDevice \/ OpenStep \/ GetStatus
    BY <1>2, BuffersKept DEF CloseDevice, OpenStep, GetStatus, Doing, handleVars, usbVars, history,
                             Fail, Return, Proceed, Done
  <1> QED BY <1>1, <1>2

\* A call lends a buffer only to a read that says so.
LEMMA CallingBuffers ==
    ASSUME CallTypes, BufferInv, Calling
    PROVE  BufferInv'
  <1>1. calls % Channels \in Nat
    <2>1. calls \in Nat /\ Channels \in Nat /\ Channels > 0
      BY FormatAssumption DEF CallTypes
    <2> QED BY <2>1
  <1>2. Starts(TRUE) /\ (NoneBorrowed' => NoneBorrowed /\ Starts(FALSE))
    BY <1>1, CallStarts DEF Calling
  <1>3. UNCHANGED <<transfer, report>>
    BY <1>2 DEF Starts, handleVars, usbVars
  <1>4. NoneLent'
    BY <1>2 DEF NoneLent, Starts, Routines, None
  <1>5. TransfersPrivate' /\ ReportPrivate'
    BY <1>2, <1>3 DEF BufferInv, TransfersPrivate, ReportPrivate, Wrappers
  <1> QED BY <1>4, <1>5 DEF BufferInv

\* The calls that transfer nothing.
LEMMA ManagingBuffers ==
    ASSUME CallTypes, BufferInv, Managing
    PROVE  BufferInv'
  <1>1. CASE (\E size \in ChunkSizes : flSetAsyncWriteChunkSize(size)) \/ \E n \in {0, 1} : Refuse(n)
    <2>1. UNCHANGED <<transfer, report, reads, todo>>
      BY <1>1 DEF flSetAsyncWriteChunkSize, Refuse, Call, handleVars, usbVars, history
    <2> QED BY <2>1, BuffersKept
  <1>2. CASE flOpen \/ flClose
    <2>1. UNCHANGED <<transfer, report, reads>> /\ (todo' = OpenSteps \/ todo' = Closing)
      BY <1>2 DEF flOpen, flClose, Begin, Call, Closing, handleVars, usbVars
    <2>2. \A i \in 1 .. Len(todo') : todo'[i].do # "readAsync"
      <3>1. CASE todo' = OpenSteps
        <4>1. Len(OpenSteps) = 8
          BY OpeningSteps
        <4>2. \A i \in 1 .. 8 : i \in 1 .. 7 \/ i = 8
          OBVIOUS
        <4> QED BY <3>1, <4>1, <4>2, OpeningHolds
      <3>2. CASE todo' = Closing
        <4>1. \A i \in 1 .. 2 : i = 1 \/ i = 2
          OBVIOUS
        <4> QED BY <3>2, <4>1, ClosingSteps
      <3> QED BY <2>1, <3>1, <3>2
    <2>3. NoneLent'
      BY <2>2 DEF NoneLent
    <2>4. TransfersPrivate' /\ ReportPrivate'
      BY <2>1, SameLoans DEF BufferInv, TransfersPrivate, ReportPrivate, Wrappers
    <2> QED BY <2>3, <2>4 DEF BufferInv
  <1> QED BY <1>1, <1>2 DEF Managing

\* The controllers.
LEMMA DeviceBuffers ==
    ASSUME FlightInv, CallTypes, BufferInv, MoveOut \/ MoveIn \/ TransferFails
    PROVE  BufferInv'
  <1>1. /\ UNCHANGED <<reads, report, todo>>
        /\ \/ outbound # <<>> /\ \E n, e : Over(Head(outbound), n, e)
           \/ inbound # <<>> /\ \E n, e : Over(Head(inbound), n, e)
    BY DEF MoveOut, MoveIn, TransferFails, handleVars, history
  <1>2. /\ outbound # <<>> => Head(outbound) \in Wrappers
        /\ inbound # <<>> => Head(inbound) \in Wrappers
    BY DEF FlightInv, EndpointsInv, Once
  <1>3. \E w \in Wrappers : \E n, e : Over(w, n, e)
    BY <1>1, <1>2
  <1>4. TransfersPrivate'
    BY <1>1, <1>3, MovePrivate DEF BufferInv
  <1>5. NoneLent' /\ ReportPrivate'
    BY <1>1, SameLoans, LentKept DEF BufferInv, ReportPrivate, Wrappers
  <1> QED BY <1>4, <1>5 DEF BufferInv

\* Any step.
LEMMA NextBuffers == FlightInv /\ CallTypes /\ BufferInv /\ [Next]_vars => BufferInv'
  <1> SUFFICES ASSUME FlightInv, CallTypes, BufferInv, [Next]_vars PROVE BufferInv'
    OBVIOUS
  <1>1. CASE UNCHANGED vars \/ Clocking
    BY <1>1, BuffersKept DEF vars, Clocking, linkVars, handleVars, usbVars, history
  <1>2. CASE Working
    BY <1>2, AppendBuffers, WriteBuffers, ReadBuffers, WaitBuffers, CloseBuffers DEF Working, HostStep
  <1> QED BY <1>1, <1>2, CallingBuffers, ManagingBuffers, DeviceBuffers DEF Next

\* Nothing is prepared when the link is made.
LEMMA InitWriter == Init => WriterInv /\ BufferInv
  <1> SUFFICES ASSUME Init PROVE WriterInv /\ BufferInv
    OBVIOUS
  <1>1. /\ asked = <<>> /\ todo = <<>> /\ writeBuf = None /\ report = NoReport
        /\ transfer = [w \in Wrappers |-> NoTransfer]
    BY DEF Init, LinkInit
  <1>2. WriterInv
    BY <1>1 DEF WriterInv, PreparedInv, FlushInv
  <1>3. BufferInv
    BY <1>1, IdleBuffers DEF BufferInv, TransfersPrivate, NoneLent, ReportPrivate
  <1> QED BY <1>2, <1>3

-----------------------------------------------------------------------------
(* The theorems.                                                            *)

\* The prepared buffer is not one that the queue holds.
PreparedIsFree ==
    faults = 0 /\ writeBuf # None =>
        /\ fill < chunkSize
        /\ ~IsFull(queue) /\ ItemToPut(queue) = writeBuf
        /\ \A w \in InFlight : transfer[w].buffer # writeBuf

\* What the invariant says of the prepared buffer: the ring would hand it out next,
\* so no wrapper in flight has it, and no transfer uses the buffer of another.
LEMMA LinkImplies ==
    ASSUME LinkInv
    PROVE  PreparedIsFree /\ (NoneBorrowed => BuffersArePrivate)
  <1> SUFFICES ASSUME faults = 0, writeBuf # None
               PROVE  PreparedIsFree /\ (NoneBorrowed => BuffersArePrivate)
    BY DEF PreparedIsFree, BuffersArePrivate
  <1>1. fill < chunkSize /\ ~IsFull(queue) /\ ItemToPut(queue) = writeBuf
    BY DEF LinkInv, CallTypes, WriterInv, PreparedInv
  <1>2. writeBuf \in Wrappers /\ writeBuf \notin ToSet(Committed(queue))
    <2>1. RingOK(queue) /\ queue.capacity <= MaxCapacity
      BY DEF LinkInv, FlightInv, RingInv
    <2>2. CanGrow(queue) /\ queuePut(queue) = queue
      BY <1>1 DEF CanGrow, queuePut
    <2> QED BY <1>1, <2>1, <2>2, PutStep
  <1>3. ASSUME NEW w \in InFlight PROVE transfer[w].buffer # writeBuf
    <2>1. w \in ToSet(Committed(queue)) /\ w \in Wrappers
      <3>1. outbound \in Seq(Wrappers) /\ inbound \in Seq(Wrappers)
        BY DEF LinkInv, FlightInv, EndpointsInv, Once
      <3>2. w \in Wrappers
        BY <3>1 DEF InFlight, ToSet
      <3> QED BY <3>2 DEF LinkInv, FlightInv
    <2>2. transfer[w].buffer \notin Wrappers \ {w}
      BY <2>1 DEF LinkInv, BufferInv, TransfersPrivate
    <2> QED BY <1>2, <2>1, <2>2
  <1>4. NoneBorrowed => report.buffer # writeBuf
    BY <1>2 DEF LinkInv, BufferInv, ReportPrivate
  <1> QED BY <1>1, <1>3, <1>4 DEF PreparedIsFree, BuffersArePrivate

\* The inductive invariant holds.
LEMMA LinkInvariant == Spec => []LinkInv
  <1>1. Init => LinkInv
    BY InitFlight, InitTypes, InitWriter DEF LinkInv
  <1>2. LinkInv /\ [Next]_vars => LinkInv'
    BY NextFlight, NextTypes, NextWriter, NextBuffers DEF LinkInv
  <1> QED
    BY <1>1, <1>2, PTL DEF Spec

\* flAwaitAsyncWrites returns success only when every byte written has been taken
\* from the host: nothing is in flight, queued or still in the prepared buffer
\* (libfpgalink.c), also when transfers have failed before.
THEOREM AwaitedHaveLeft == Spec => AwaitedWritesHaveLeft
  <1>1. LinkInv /\ [Next]_vars /\ Doing("awaitWrites") /\ todo' = <<>> /\ status' = "FL_SUCCESS"
        => InFlight = {} /\ writeBuf = None /\ queueSize(queue) = 0
    <2> SUFFICES ASSUME LinkInv, [Next]_vars, Doing("awaitWrites"), todo' = <<>>,
                        status' = "FL_SUCCESS"
                 PROVE  InFlight = {} /\ writeBuf = None /\ queueSize(queue) = 0
      OBVIOUS
    <2>1. todo # <<>> /\ Head(todo).do = "awaitWrites"
      BY DEF Doing
    <2>2. AwaitWrites
      <3>1. ~UNCHANGED vars
        BY <2>1 DEF vars, linkVars
      <3>2. ~(Calling \/ Managing)
        <4>1. Calling => todo = <<>>
          <5> SUFFICES ASSUME Calling PROVE todo = <<>>
            OBVIOUS
          <5>1. calls % Channels \in Nat
            <6>1. calls \in Nat /\ Channels \in Nat /\ Channels > 0
              BY FormatAssumption DEF CallTypes, LinkInv
            <6> QED BY <6>1
          <5> QED BY <5>1, CallStarts DEF Calling, Starts, Ready, LinkInv
        <4>2. Managing => todo = <<>>
          BY DEF Managing, flOpen, flClose, flSetAsyncWriteChunkSize, Refuse, Ready
        <4> QED BY <2>1, <4>1, <4>2
      <3>3. ~(Clocking \/ MoveOut \/ MoveIn \/ TransferFails)
        BY <2>1 DEF Clocking, MoveOut, MoveIn, TransferFails, linkVars
      <3>4. HostStep
        BY <3>1, <3>2, <3>3 DEF Next, Working
      <3> QED
        BY <2>1, <3>4 DEF HostStep, bufferAppend, PrepareBuffer, AppendBalances, FillAndSubmit,
                          AppendRest, Flush, Balance, ReadAsync, AwaitRead, Drain, CloseDevice,
                          OpenStep, GetStatus, Doing
    <2>3. ~Await
      BY <2>1, AwaitEffect
    <2>4. queueSize(queue) = 0
      <3>1. queueSize(queue) \in Nat
        BY RingTypes DEF LinkInv, FlightInv, RingInv, queueSize
      <3> QED BY <2>2, <2>3, <3>1 DEF AwaitWrites, Return
    <2>5. writeBuf = None
      <3>1. 1 \in 1 .. Len(todo) /\ Head(todo) = todo[1]
        BY <2>1, TailSteps DEF LinkInv, CallTypes
      <3>2. InOrder(1)
        BY <3>1 DEF LinkInv, WriterInv, FlushInv
      <3> QED BY <2>1, <3>1, <3>2 DEF InOrder
    <2> QED BY <2>4, <2>5, NothingInFlight DEF LinkInv
  <1> QED
    BY <1>1, LinkInvariant, PTL DEF Spec, AwaitedWritesHaveLeft

\* For every client, the buffer that the library writes to is the one that the next
\* submit sends, it has room, and no transfer in flight uses it (libusbwrap.c hands out
\* the item at putIndex, and libfpgalink.c keeps the pointer across calls).
THEOREM PreparedStaysFree == Spec => []PreparedIsFree
  <1>1. LinkInv => PreparedIsFree
    BY LinkImplies
  <1> QED
    BY <1>1, LinkInvariant, PTL

\* For a client that lends its own buffers, as the bank does (only flReadChannel), no
\* completed read that is still to be fetched is in that buffer either.
THEOREM BuffersPrivate == Spec => [](NoneBorrowed => BuffersArePrivate)
  <1>1. LinkInv => (NoneBorrowed => BuffersArePrivate)
    BY LinkImplies
  <1> QED
    BY <1>1, LinkInvariant, PTL
=============================================================================
