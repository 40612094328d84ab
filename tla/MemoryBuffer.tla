---------------------------- MODULE MemoryBuffer ----------------------------
(***************************************************************************)
(* fmt::basic_memory_buffer above basic_buffer: a text that grows, with    *)
(* its first characters inside the object itself.  Messages are formatted  *)
(* into one, copied into the one of an async_msg, and moved through the    *)
(* slots of the queue.                                                     *)
(*                                                                         *)
(* A buffer is a record: what its storage holds, as long as its capacity,  *)
(* how much of that is the text, whether the storage is on the heap, and   *)
(* how much there is inside the object.                                    *)
(***************************************************************************)
EXTENDS Integers, Sequences

Unset == "?"    \* a character that nothing has written

NewBuffer(inline) ==
  [store |-> [k \in 1..inline |-> Unset], size |-> 0, heap |-> FALSE, inline |-> inline]

capacity(b) == Len(b.store)
data(b) == SubSeq(b.store, 1, b.size)

(* Half as much again, or as much as is asked for, on the heap; the text is *)
(* copied.                                                                  *)
grow(b, size) ==
  LET more == capacity(b) + capacity(b) \div 2
      new == IF size > more THEN size ELSE more IN
  [b EXCEPT !.store = [k \in 1..new |-> IF k <= b.size THEN @[k] ELSE Unset], !.heap = TRUE]

reserve(b, size) == IF size > capacity(b) THEN grow(b, size) ELSE b
resize(b, size) == [reserve(b, size) EXCEPT !.size = size]

(* The text is copied into the storage from this place, as far as it goes.  *)
CopyTo(b, from, text) ==
  [b EXCEPT !.store = [k \in DOMAIN @ |->
     IF k > from /\ k <= from + Len(text) THEN text[k - from] ELSE @[k]]]
append(b, text) ==
  LET new == reserve(b, b.size + Len(text)) IN
  [CopyTo(new, b.size, text) EXCEPT !.size = b.size + Len(text)]

(* move: what is inside the other object is copied; what is on the heap     *)
(* changes hands, and the other object keeps its size but has no capacity.  *)
Moved(b, other) ==
  resize([b EXCEPT !.store = IF other.heap THEN other.store
                             ELSE [k \in 1..capacity(other) |-> IF k <= other.size THEN other.store[k] ELSE Unset],
                   !.heap = other.heap],
         other.size)
MovedFrom(other) == IF other.heap THEN [other EXCEPT !.store = <<>>, !.heap = FALSE] ELSE other
=============================================================================
