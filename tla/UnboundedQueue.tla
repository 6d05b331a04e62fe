--------------------------- MODULE UnboundedQueue ---------------------------
(***************************************************************************)
(* The work queue of the USB wrapper (libusbwrap/unbounded_queue.c): a ring *)
(* of items that the queue itself owns.  A put hands out the item at        *)
(* putIndex, which the caller fills and then commits; a take hands out the  *)
(* item at takeIndex, which stays in the ring and is handed out again by a  *)
(* later put.  A put on a full ring first doubles it, unrolled so that the  *)
(* oldest item is first.  Items are numbered in the order createFunc makes  *)
(* them, which is also the index they are first stored at.                  *)
(***************************************************************************)
EXTENDS Naturals, Sequences

\* queueInit: a ring of `capacity' new items.
queueInit(capacity) ==
    [itemArray |-> [i \in 0 .. capacity - 1 |-> i],
     capacity  |-> capacity, putIndex |-> 0, takeIndex |-> 0, numItems |-> 0]

queueSize(q) == q.numItems
IsFull(q)    == q.numItems = q.capacity

\* The index after i, back at 0 at the end of the array.
After(q, i) == IF i + 1 = q.capacity THEN 0 ELSE i + 1

\* Mutant of Grown: the items before takeIndex are not copied.
GrownHalfCopied(q) ==
    [itemArray |-> [i \in 0 .. 2 * q.capacity - 1 |->
                       IF i < q.capacity - q.takeIndex THEN q.itemArray[q.takeIndex + i] ELSE i],
     capacity  |-> 2 * q.capacity, putIndex |-> q.capacity, takeIndex |-> 0,
     numItems  |-> q.numItems]

\* The ring of twice the size: the items from takeIndex to the end, those
\* before takeIndex, and as many new ones.
Grown(q) ==
    LET firstHalfLength == q.capacity - q.takeIndex IN
    [itemArray |-> [i \in 0 .. 2 * q.capacity - 1 |->
                       IF i < firstHalfLength THEN q.itemArray[q.takeIndex + i]
                       ELSE IF i < q.capacity THEN q.itemArray[i - firstHalfLength]
                       ELSE i],
     capacity  |-> 2 * q.capacity, putIndex |-> q.capacity, takeIndex |-> 0,
     numItems  |-> q.numItems]

\* queuePut when its allocations succeed: the ring it leaves, whose item at
\* putIndex is handed out.
queuePut(q)  == IF IsFull(q) THEN Grown(q) ELSE q
ItemToPut(q) == q.itemArray[q.putIndex]

queueCommitPut(q) == [q EXCEPT !.numItems = @ + 1, !.putIndex = After(q, @)]

\* queueTake hands this item out when the queue is not empty.
ItemToTake(q) == q.itemArray[q.takeIndex]

queueCommitTake(q) == [q EXCEPT !.numItems = @ - 1, !.takeIndex = After(q, @)]

-----------------------------------------------------------------------------
\* The committed items, oldest first: what the ring stands for.
Committed(q) ==
    [n \in 1 .. q.numItems |->
        LET i == q.takeIndex + n - 1
        IN q.itemArray[IF i < q.capacity THEN i ELSE i - q.capacity]]
=============================================================================
