--------------------------- MODULE CircularQueue ---------------------------
(***************************************************************************)
(* circular_q<T> (circular_q.h): a ring of max_items_ = MaxItems + 1       *)
(* slots, one of which is always free and marks the full queue.  A queue   *)
(* is the record of the object's fields; the operations are operators on   *)
(* it, because mpmc_blocking_queue calls every one of them under a lock.   *)
(***************************************************************************)
EXTENDS Integers, Sequences

CONSTANT MaxItems   \* the room of the queue
ASSUME MaxItemsAssumption == MaxItems \in Nat \ {0}

Slots == 0..MaxItems

(* (i + 1) % max_items_, for an index that is below max_items_. *)
After(i) == IF i = MaxItems THEN 0 ELSE i + 1

(* The i-th slot after the head, past the end of the vector or not. *)
Wrap(i) == IF i > MaxItems THEN i - (MaxItems + 1) ELSE i

EmptyQueue(nothing) ==
  [v |-> [i \in Slots |-> nothing], head |-> 0, tail |-> 0, overrun |-> 0]

empty(q) == q.tail = q.head
full(q) == After(q.tail) = q.head

(* A full ring is overwritten and its head stays: the new item is lost to   *)
(* an empty queue, and so are all the others.                               *)
push_back_keeps_head(q, item) ==
  [q EXCEPT !.v[q.tail] = item, !.tail = After(q.tail)]

(* The new item goes to the tail; when the tail meets the head the oldest   *)
(* item is given up and counted.                                            *)
push_back(q, item) ==
  LET tail == After(q.tail)
      over == tail = q.head IN
  [v |-> [q.v EXCEPT ![q.tail] = item],
   head |-> IF over THEN After(q.head) ELSE q.head,
   tail |-> tail,
   overrun |-> IF over THEN q.overrun + 1 ELSE q.overrun]

(* The item is moved out of its slot, which is left with nothing. *)
front(q) == q.v[q.head]
pop_front(q, nothing) == [q EXCEPT !.v[q.head] = nothing, !.head = After(q.head)]

-----------------------------------------------------------------------------
(* What the queue holds, oldest first. *)
Size(q) == IF q.tail >= q.head THEN q.tail - q.head ELSE q.tail - q.head + MaxItems + 1
Contents(q) == [k \in 1..Size(q) |-> q.v[Wrap(q.head + k - 1)]]

(* The queues of these items. *)
QueueOf(Item) ==
  [v : [Slots -> Item], head : Slots, tail : Slots, overrun : Nat]
=============================================================================
