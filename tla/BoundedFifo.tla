---------------------------- MODULE BoundedFifo ----------------------------
(***************************************************************************)
(* What the queue of the thread pool promises: items leave in the order in *)
(* which they came, at most Room of them are kept, and the only item that  *)
(* is ever given up is the oldest one of a full queue, which is counted.   *)
(***************************************************************************)
EXTENDS Naturals, Sequences

CONSTANTS Item, Room

VARIABLES
  queue,    \* what is kept, oldest first
  dropped   \* how many items have been given up

FifoInit == queue = <<>> /\ dropped = 0

Put(item) ==
  /\ Len(queue) < Room
  /\ queue' = Append(queue, item)
  /\ UNCHANGED dropped

PutOver(item) ==
  /\ Len(queue) = Room
  /\ queue' = Append(Tail(queue), item)
  /\ dropped' = dropped + 1

Take ==
  /\ queue # <<>>
  /\ queue' = Tail(queue)
  /\ UNCHANGED dropped

FifoNext == Take \/ \E item \in Item : Put(item) \/ PutOver(item)

FifoSpec == FifoInit /\ [][FifoNext]_<<queue, dropped>>
=============================================================================
