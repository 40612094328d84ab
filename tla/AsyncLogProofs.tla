--------------------------- MODULE AsyncLogProofs ---------------------------
(***************************************************************************)
(* Proofs about asynchronous logging, for any number of threads, workers,  *)
(* loggers and sinks and any room of the queue: the ring is a first-in     *)
(* first-out queue, the pool outlives whoever uses it, and no message is   *)
(* lost at shutdown or written twice.                                      *)
(***************************************************************************)
EXTENDS AsyncLog, FiniteSetTheorems, TLAPS

(* A thread in a call that posts. *)
Posting(t) == pc[t] \in {"post", "full", "notify"}

(* A thread that runs the destructor of the pool. *)
Destroying(t) == pc[t] = "destroy" \/ (Posting(t) /\ todo[t] = Terminate)

(* What is in the queue are messages, and so is what a thread posts. *)
QueueOK ==
  /\ Held \in Seq(Messages)
  /\ \A t \in Threads : Posting(t) => todo[t] \in Messages

(* What a worker has in hand, at each of its labels. *)
HandOK ==
  \A w \in Workers :
    /\ wpc[w] \in {"get", "wait"} => hand[w] = Nil
    /\ wpc[w] = "notify" => hand[w] \in Messages
    /\ wpc[w] = "log" => hand[w] \in LogMsgs
    /\ wpc[w] = "flush" => hand[w] = FlushMsg
    /\ wpc[w] = "done" => hand[w] = Terminate

(* Who owns the pool: the threads between lock() and the end of the scope   *)
(* of pool_ptr, and the registry until shutdown resets it.  Only one thread *)
(* runs the destructor, after everybody has given the pool up.              *)
OwnersOK ==
  /\ \A t \in Threads : pc[t] = "release" \/ (Posting(t) /\ todo[t] # Terminate) => t \in owners
  /\ pc[Main] \in {"idle", "joinFlusher", "dropAll", "resetPool"} => Registry \in owners
  /\ \A t \in Threads : Destroying(t) => owners = {} /\ ~gone
  /\ \A t, u \in Threads : Destroying(t) /\ Destroying(u) => t = u
  /\ \A t \in Threads : Posting(t) /\ todo[t] = Terminate => term # 0
  /\ owners # {} => ~gone /\ term = 0
  /\ gone => \A w \in Workers : wpc[w] = "done"

(* Terminate messages come last: behind one there are only others, and a    *)
(* worker that has taken one has left nothing else behind.                  *)
LastOK ==
  /\ term = 0 => \A k \in 1..Len(Held) : Held[k] # Terminate
  /\ term = 0 => \A w \in Workers : hand[w] # Terminate
  /\ \A i, j \in 1..Len(Held) : i < j /\ Held[i] = Terminate => Held[j] = Terminate
  /\ \A w \in Workers, k \in 1..Len(Held) : hand[w] = Terminate => Held[k] = Terminate

(* A message that was posted is in the queue or in somebody's hand, or has  *)
(* been given up, or has been given to every sink of its level.             *)
Somewhere(m) ==
  \/ \E k \in 1..Len(Held) : Held[k] = m
  \/ \E w \in Workers : hand[w] = m
  \/ m \in dropped \cup failed
  \/ \A s \in Sinks : m.level >= SinkLevels[s] => written[s][m] # 0
NothingLost == \A m \in posted : Somewhere(m)

(* The n-th call of a caller posts its n-th message. *)
CountedOK ==
  /\ \A m \in posted : m.n <= calls[m.from]
  /\ \A t \in Threads : pc[t] \in {"post", "full"} /\ todo[t] \in LogMsgs =>
       todo[t].from = t /\ todo[t] \notin posted /\ todo[t].n <= calls[t]

(* A message that is still to be written. *)
Pending(m) == m \in posted \ dropped /\ \A s \in Sinks : written[s][m] = 0

(* A message is in one place: once in the queue or in one hand. *)
OnePlace ==
  /\ dropped \subseteq posted
  /\ \A k \in 1..Len(Held) : Held[k] \in LogMsgs => Pending(Held[k])
  /\ \A w \in Workers : hand[w] \in LogMsgs => Pending(hand[w])
  /\ \A i, j \in 1..Len(Held) : i # j /\ Held[i] \in LogMsgs => Held[i] # Held[j]
  /\ \A w \in Workers, k \in 1..Len(Held) : hand[w] \in LogMsgs => hand[w] # Held[k]
  /\ \A v, w \in Workers : v # w /\ hand[v] \in LogMsgs => hand[v] # hand[w]

TypeInv == TypeOK /\ QueueOK /\ HandOK

-----------------------------------------------------------------------------
(* The ring. *)

(* How far the slot t is ahead of the slot h. *)
Between(h, t) == IF t >= h THEN t - h ELSE t - h + MaxItems + 1

(* An index of the ring stays in the ring. *)
LEMMA AfterInSlots ==
  ASSUME NEW i \in Slots
  PROVE  After(i) \in Slots
BY MaxItemsAssumption DEF Slots, After

(* The distance of two slots, and what it is when they are the same and     *)
(* when the one is just behind the other.                                   *)
LEMMA BetweenType ==
  ASSUME NEW h \in Slots, NEW t \in Slots
  PROVE  /\ Between(h, t) \in 0..MaxItems
         /\ Between(h, t) = 0 <=> t = h
         /\ Between(h, t) = MaxItems <=> After(t) = h
<1>1. /\ MaxItems \in Nat /\ h \in Nat /\ t \in Nat
      /\ h <= MaxItems /\ t <= MaxItems /\ MaxItems >= 1
  BY MaxItemsAssumption DEF Slots
<1>2. CASE t >= h
  BY <1>1, <1>2 DEF Between, After
<1>3. CASE t < h
  BY <1>1, <1>3 DEF Between, After
<1> QED BY <1>1, <1>2, <1>3

(* The distance grows with the tail and shrinks with the head. *)
LEMMA BetweenMoves ==
  ASSUME NEW h \in Slots, NEW t \in Slots
  PROVE  /\ After(t) # h => Between(h, After(t)) = Between(h, t) + 1
         /\ h # t => Between(After(h), t) = Between(h, t) - 1
         /\ After(t) = h => Between(After(h), After(t)) = MaxItems
<1>1. /\ MaxItems \in Nat /\ h \in Nat /\ t \in Nat
      /\ h <= MaxItems /\ t <= MaxItems /\ MaxItems >= 1
  BY MaxItemsAssumption DEF Slots
<1>2. CASE t >= h
  BY <1>1, <1>2 DEF Between, After
<1>3. CASE t < h
  BY <1>1, <1>3 DEF Between, After
<1> QED BY <1>1, <1>2, <1>3

(* The k-th slot after h is t just when k is their distance. *)
LEMMA WrapMeets ==
  ASSUME NEW h \in Slots, NEW t \in Slots, NEW k \in 0..MaxItems
  PROVE  /\ Wrap(h + k) \in Slots
         /\ Wrap(h + k) = t <=> k = Between(h, t)
         /\ k < MaxItems => Wrap(After(h) + k) = Wrap(h + k + 1)
<1>1. /\ MaxItems \in Nat /\ h \in Nat /\ t \in Nat /\ k \in Nat
      /\ h <= MaxItems /\ t <= MaxItems /\ k <= MaxItems /\ MaxItems >= 1
  BY MaxItemsAssumption DEF Slots
<1>2. Wrap(h + k) \in Slots
  BY <1>1 DEF Wrap, Slots
<1>3. Wrap(h + k) = t <=> k = Between(h, t)
  BY <1>1 DEF Wrap, Between
<1>4. k < MaxItems => Wrap(After(h) + k) = Wrap(h + k + 1)
  BY <1>1 DEF Wrap, After
<1> QED BY <1>2, <1>3, <1>4

(* The queue holds what is between its head and its tail, as a sequence.    *)
LEMMA ContentsType ==
  ASSUME NEW Item, NEW r \in QueueOf(Item)
  PROVE  /\ Size(r) = Between(r.head, r.tail)
         /\ Size(r) \in 0..MaxItems
         /\ Contents(r) \in Seq(Item)
         /\ Len(Contents(r)) = Size(r)
         /\ \A k \in 1..Size(r) : Contents(r)[k] = r.v[Wrap(r.head + (k - 1))]
<1>1. r.head \in Slots /\ r.tail \in Slots /\ r.v \in [Slots -> Item]
  BY DEF QueueOf
<1>2. Size(r) = Between(r.head, r.tail)
  BY DEF Size, Between
<1>3. Size(r) \in 0..MaxItems
  BY <1>1, <1>2, BetweenType
<1>4. \A k \in 1..Size(r) : Wrap(r.head + (k - 1)) \in Slots
  <2> SUFFICES ASSUME NEW k \in 1..Size(r) PROVE Wrap(r.head + (k - 1)) \in Slots
    OBVIOUS
  <2>1. k - 1 \in 0..MaxItems
    BY <1>3, MaxItemsAssumption
  <2> QED BY <1>1, <2>1, WrapMeets
<1>5. \A k \in 1..Size(r) : r.head + k - 1 = r.head + (k - 1)
  BY <1>1, <1>3 DEF Slots
<1>6. Contents(r) = [k \in 1..Size(r) |-> r.v[Wrap(r.head + (k - 1))]]
  BY <1>5 DEF Contents
<1>7. Contents(r) \in [1..Size(r) -> Item]
  BY <1>1, <1>4, <1>6
<1> QED BY <1>2, <1>3, <1>6, <1>7

(* empty() and full() of circular_q are what they say of the contents.      *)
LEMMA EmptyAndFull ==
  ASSUME NEW Item, NEW r \in QueueOf(Item)
  PROVE  /\ empty(r) <=> Size(r) = 0
         /\ full(r) <=> Size(r) = MaxItems
<1>1. r.head \in Slots /\ r.tail \in Slots
  BY DEF QueueOf
<1> QED BY <1>1, ContentsType, BetweenType DEF empty, full

(* push_back of circular_q appends, and gives up the oldest item of a full  *)
(* queue.                                                                   *)
LEMMA PushAppends ==
  ASSUME NEW Item, NEW r \in QueueOf(Item), NEW x \in Item
  PROVE  /\ push_back(r, x) \in QueueOf(Item)
         /\ ~full(r) => /\ Contents(push_back(r, x)) = Append(Contents(r), x)
                        /\ push_back(r, x).overrun = r.overrun
         /\ full(r) => /\ Contents(push_back(r, x)) = Append(Tail(Contents(r)), x)
                       /\ push_back(r, x).overrun = r.overrun + 1
<1> DEFINE s == push_back(r, x)
<1>1. /\ r.head \in Slots /\ r.tail \in Slots /\ r.v \in [Slots -> Item]
      /\ r.overrun \in Nat
  BY DEF QueueOf
<1>2. /\ s.v = [r.v EXCEPT ![r.tail] = x]
      /\ s.tail = After(r.tail)
      /\ s.head = IF full(r) THEN After(r.head) ELSE r.head
      /\ s.overrun = IF full(r) THEN r.overrun + 1 ELSE r.overrun
  BY DEF push_back, full
<1>3. s \in QueueOf(Item)
  <2>1. After(r.tail) \in Slots /\ After(r.head) \in Slots
    BY <1>1, AfterInSlots
  <2> QED BY <1>1, <2>1 DEF QueueOf, push_back
<1> HIDE DEF s
<1>4. /\ Contents(s) \in Seq(Item) /\ Len(Contents(s)) = Size(s)
      /\ Size(s) = Between(s.head, s.tail)
      /\ \A k \in 1..Size(s) : Contents(s)[k] = s.v[Wrap(s.head + (k - 1))]
  BY <1>3, ContentsType
<1>5. /\ Contents(r) \in Seq(Item) /\ Len(Contents(r)) = Size(r)
      /\ Size(r) = Between(r.head, r.tail) /\ Size(r) \in 0..MaxItems
      /\ \A k \in 1..Size(r) : Contents(r)[k] = r.v[Wrap(r.head + (k - 1))]
  BY ContentsType
<1>6. ASSUME ~full(r)
      PROVE  Contents(s) = Append(Contents(r), x)
  <2>1. s.head = r.head /\ After(r.tail) # r.head
    BY <1>2, <1>6 DEF full
  <2>2. Size(s) = Size(r) + 1
    BY <1>1, <1>2, <1>4, <1>5, <2>1, BetweenMoves
  <2>3. ASSUME NEW k \in 1..Size(r)
        PROVE  Contents(s)[k] = Contents(r)[k]
    <3>1. k - 1 \in 0..MaxItems /\ k - 1 # Size(r) /\ k \in 1..Size(s)
      BY <1>5, <2>2, MaxItemsAssumption
    <3>2. Wrap(r.head + (k - 1)) \in Slots /\ Wrap(r.head + (k - 1)) # r.tail
      BY <1>1, <1>5, <3>1, WrapMeets
    <3> QED BY <1>1, <1>2, <1>4, <1>5, <2>1, <3>1, <3>2
  <2>4. Contents(s)[Size(r) + 1] = x
    <3>1. Size(r) + 1 \in 1..Size(s) /\ (Size(r) + 1) - 1 = Size(r)
      BY <1>5, <2>2
    <3>2. Wrap(r.head + Size(r)) = r.tail
      BY <1>1, <1>5, WrapMeets
    <3> QED BY <1>1, <1>2, <1>4, <2>1, <3>1, <3>2
  <2> QED BY <1>4, <1>5, <2>2, <2>3, <2>4
<1>7. ASSUME full(r)
      PROVE  Contents(s) = Append(Tail(Contents(r)), x)
  <2>1. s.head = After(r.head) /\ After(r.tail) = r.head
    BY <1>2, <1>7 DEF full
  <2>2. Size(s) = MaxItems /\ Size(r) = MaxItems
    BY <1>1, <1>2, <1>4, <1>5, <2>1, BetweenMoves, BetweenType
  <2>3. ASSUME NEW k \in 1..MaxItems - 1
        PROVE  Contents(s)[k] = Contents(r)[k + 1]
    <3>1. /\ k - 1 \in 0..MaxItems /\ k - 1 < MaxItems /\ k \in 0..MaxItems
          /\ k # Size(r) /\ k \in 1..Size(s) /\ k + 1 \in 1..Size(r)
      BY <2>2, MaxItemsAssumption
    <3>2. Wrap(r.head + k) \in Slots /\ Wrap(r.head + k) # r.tail
      BY <1>1, <1>5, <3>1, WrapMeets
    <3>3. Wrap(After(r.head) + (k - 1)) = Wrap(r.head + (k - 1) + 1)
      BY <1>1, <3>1, WrapMeets
    <3>4. r.head + (k - 1) + 1 = r.head + k /\ (k + 1) - 1 = k
      BY <1>1, <3>1 DEF Slots
    <3>5. Contents(s)[k] = s.v[Wrap(r.head + k)]
      BY <1>4, <2>1, <3>1, <3>3, <3>4
    <3>6. Contents(r)[k + 1] = r.v[Wrap(r.head + k)]
      BY <1>5, <3>1, <3>4
    <3> QED BY <1>1, <1>2, <3>2, <3>5, <3>6
  <2>4. Contents(s)[MaxItems] = x
    <3>1. MaxItems - 1 \in 0..MaxItems /\ MaxItems - 1 < MaxItems /\ MaxItems \in 1..Size(s)
      BY <2>2, MaxItemsAssumption
    <3>2. Wrap(After(r.head) + (MaxItems - 1)) = Wrap(r.head + (MaxItems - 1) + 1)
      BY <1>1, <3>1, WrapMeets
    <3>3. r.head + (MaxItems - 1) + 1 = r.head + MaxItems /\ MaxItems \in 0..MaxItems
      BY <1>1, MaxItemsAssumption DEF Slots
    <3>4. Wrap(r.head + MaxItems) = r.tail
      <4> DEFINE k == MaxItems
      <4>1. k \in 0..MaxItems /\ k = Between(r.head, r.tail)
        BY <1>5, <2>2, <3>3
      <4> HIDE DEF k
      <4>2. Wrap(r.head + k) = r.tail
        BY <1>1, <4>1, WrapMeets
      <4> QED BY <4>2 DEF k
    <3> QED BY <1>1, <1>2, <1>4, <2>1, <3>1, <3>2, <3>3, <3>4
  <2> QED BY <1>4, <1>5, <2>2, <2>3, <2>4, MaxItemsAssumption
<1> QED BY <1>2, <1>3, <1>6, <1>7 DEF s

(* pop_front of circular_q takes the oldest item. *)
LEMMA PopTakesFirst ==
  ASSUME NEW Item, NEW r \in QueueOf(Item), NEW nothing \in Item, ~empty(r)
  PROVE  /\ pop_front(r, nothing) \in QueueOf(Item)
         /\ Contents(r) # <<>>
         /\ front(r) = Head(Contents(r))
         /\ Contents(pop_front(r, nothing)) = Tail(Contents(r))
         /\ pop_front(r, nothing).overrun = r.overrun
<1> DEFINE s == pop_front(r, nothing)
<1>1. /\ r.head \in Slots /\ r.tail \in Slots /\ r.v \in [Slots -> Item]
      /\ r.overrun \in Nat
  BY DEF QueueOf
<1>2. /\ s.v = [r.v EXCEPT ![r.head] = nothing]
      /\ s.tail = r.tail /\ s.head = After(r.head) /\ s.overrun = r.overrun
  BY DEF pop_front, QueueOf
<1>3. s \in QueueOf(Item)
  BY <1>1, AfterInSlots DEF QueueOf, pop_front
<1> HIDE DEF s
<1>4. /\ Contents(s) \in Seq(Item) /\ Len(Contents(s)) = Size(s)
      /\ Size(s) = Between(s.head, s.tail)
      /\ \A k \in 1..Size(s) : Contents(s)[k] = s.v[Wrap(s.head + (k - 1))]
  BY <1>3, ContentsType
<1>5. /\ Contents(r) \in Seq(Item) /\ Len(Contents(r)) = Size(r)
      /\ Size(r) = Between(r.head, r.tail) /\ Size(r) \in 0..MaxItems
      /\ \A k \in 1..Size(r) : Contents(r)[k] = r.v[Wrap(r.head + (k - 1))]
  BY ContentsType
<1>6. Size(s) = Size(r) - 1 /\ Size(r) # 0
  <2>1. r.head # r.tail
    BY DEF empty
  <2> QED BY <1>1, <1>2, <1>4, <1>5, <2>1, BetweenMoves, BetweenType
<1>7. Size(r) \in 1..MaxItems /\ Size(s) \in 0..MaxItems - 1
  BY <1>5, <1>6, MaxItemsAssumption
<1>8. ASSUME NEW k \in 1..Size(s)
      PROVE  Contents(s)[k] = Contents(r)[k + 1]
  <2>1. /\ k \in 0..MaxItems /\ k # 0 /\ k - 1 \in 0..MaxItems /\ k - 1 < MaxItems
        /\ k + 1 \in 1..Size(r) /\ (k + 1) - 1 = k
    BY <1>6, <1>7, MaxItemsAssumption
  <2>2. Wrap(r.head + k) \in Slots /\ Wrap(r.head + k) # r.head
    <3>1. Between(r.head, r.head) = 0
      BY <1>1, BetweenType
    <3>2. Wrap(r.head + k) = r.head <=> k = Between(r.head, r.head)
      BY <1>1, <2>1, WrapMeets
    <3> QED BY <1>1, <2>1, <3>1, <3>2, WrapMeets
  <2>3. Wrap(After(r.head) + (k - 1)) = Wrap(r.head + (k - 1) + 1)
    BY <1>1, <2>1, WrapMeets
  <2>4. r.head + (k - 1) + 1 = r.head + k
    BY <1>1, <2>1 DEF Slots
  <2>5. Contents(s)[k] = s.v[Wrap(r.head + k)]
    BY <1>2, <1>4, <2>3, <2>4
  <2>6. Contents(r)[k + 1] = r.v[Wrap(r.head + k)]
    BY <1>5, <2>1
  <2> QED BY <1>1, <1>2, <2>2, <2>5, <2>6
<1>9. front(r) = Contents(r)[1]
  <2>1. Wrap(r.head + 0) = r.head
    BY <1>1, MaxItemsAssumption DEF Wrap, Slots
  <2>2. 1 \in 1..Size(r) /\ 1 - 1 = 0
    BY <1>7
  <2> QED BY <1>5, <2>1, <2>2 DEF front
<1>10. Contents(s) = Tail(Contents(r))
  BY <1>4, <1>5, <1>6, <1>7, <1>8
<1>11. front(r) = Head(Contents(r)) /\ Contents(r) # <<>>
  BY <1>5, <1>7, <1>9
<1> QED BY <1>2, <1>3, <1>10, <1>11 DEF s

-----------------------------------------------------------------------------
(* Messages and types. *)

(* The three kinds of messages are different, and none is Nil. *)
LEMMA MessageFacts ==
  /\ Terminate \notin LogMsgs /\ FlushMsg \notin LogMsgs /\ Terminate # FlushMsg
  /\ Terminate \in Messages /\ FlushMsg \in Messages /\ LogMsgs \subseteq Messages
  /\ Nil \notin Messages
BY ThreadsAssumption DEF Terminate, FlushMsg, LogMsgs, Messages

(* The queue as a sequence, before and after. *)
LEMMA HeldFacts ==
  ASSUME TypeOK, QueueOK
  PROVE  /\ Held \in Seq(Messages)
         /\ empty(q) <=> Held = <<>>
         /\ full(q) <=> Len(Held) = MaxItems
<1>1. q \in QueueOf(Messages \cup {Nil})
  BY DEF TypeOK
<1>2. Len(Held) = Size(q)
  BY <1>1, ContentsType DEF Held
<1>3. (empty(q) <=> Size(q) = 0) /\ (full(q) <=> Size(q) = MaxItems)
  BY <1>1, EmptyAndFull
<1>4. Held \in Seq(Messages)
  BY DEF QueueOK
<1>5. Held = <<>> <=> Len(Held) = 0
  BY <1>4
<1> QED BY <1>2, <1>3, <1>4, <1>5

(* What enqueue does to the queue, and to posted and dropped. *)
LEMMA EnqueueHeld ==
  ASSUME TypeOK, QueueOK, NEW t \in Threads, Enqueue(t)
  PROVE  /\ q' \in QueueOf(Messages \cup {Nil})
         /\ todo[t] \in Messages
         /\ \/ /\ Len(Held) < MaxItems
               /\ Held' = Append(Held, todo[t])
               /\ q'.overrun = q.overrun
               /\ dropped' = dropped
            \/ /\ Len(Held) = MaxItems
               /\ Held # <<>>
               /\ Held' = Append(Tail(Held), todo[t])
               /\ q'.overrun = q.overrun + 1
               /\ dropped' = dropped \cup ({Held[1]} \cap LogMsgs)
         /\ Held' \in Seq(Messages)
<1>1. q \in QueueOf(Messages \cup {Nil}) /\ Held \in Seq(Messages)
  BY DEF TypeOK, QueueOK
<1>2. todo[t] \in Messages
  BY DEF Enqueue, QueueOK, Posting
<1>3. q' = push_back(q, todo[t]) /\ Held' = Contents(push_back(q, todo[t]))
  BY DEF Enqueue, Held
<1>4. q' \in QueueOf(Messages \cup {Nil})
  BY <1>1, <1>2, <1>3, PushAppends
<1>5. Len(Held) = Size(q) /\ Size(q) \in 0..MaxItems /\ (full(q) <=> Size(q) = MaxItems)
  BY <1>1, ContentsType, EmptyAndFull DEF Held
<1>6. CASE ~full(q)
  <2>1. Held' = Append(Held, todo[t]) /\ q'.overrun = q.overrun
    BY <1>1, <1>2, <1>3, <1>6, PushAppends DEF Held
  <2>2. Len(Held) < MaxItems
    BY <1>5, <1>6, MaxItemsAssumption
  <2>3. dropped' = dropped
    BY <1>6 DEF Enqueue
  <2>4. Held' \in Seq(Messages)
    BY <1>1, <1>2, <2>1
  <2> QED BY <1>2, <1>4, <2>1, <2>2, <2>3, <2>4
<1>7. CASE full(q)
  <2>1. Held' = Append(Tail(Held), todo[t]) /\ q'.overrun = q.overrun + 1
    BY <1>1, <1>2, <1>3, <1>7, PushAppends DEF Held
  <2>2. Len(Held) = MaxItems /\ Held # <<>>
    BY <1>1, <1>5, <1>7, MaxItemsAssumption
  <2>3. ~empty(q)
    BY <1>1, <1>5, <1>7, EmptyAndFull, MaxItemsAssumption
  <2>4. front(q) = Held[1]
    <3>1. Nil \in Messages \cup {Nil}
      OBVIOUS
    <3>2. front(q) = Head(Held) /\ Held # <<>>
      BY <1>1, <2>3, <3>1, PopTakesFirst DEF Held
    <3> QED BY <1>1, <3>2
  <2>5. dropped' = dropped \cup ({Held[1]} \cap LogMsgs)
    BY <1>7, <2>4 DEF Enqueue
  <2>6. Held' \in Seq(Messages)
    BY <1>1, <1>2, <2>1, <2>2
  <2> QED BY <1>2, <1>4, <2>1, <2>2, <2>5, <2>6
<1> QED BY <1>6, <1>7

(* What dequeue_for does to the queue and to the worker's hand. *)
LEMMA DequeueHeld ==
  ASSUME TypeOK, QueueOK, NEW w \in Workers, Dequeue(w)
  PROVE  /\ q' \in QueueOf(Messages \cup {Nil})
         /\ Held # <<>>
         /\ Held' = Tail(Held)
         /\ Held' \in Seq(Messages)
         /\ Held[1] \in Messages
         /\ hand' = [hand EXCEPT ![w] = Held[1]]
         /\ q'.overrun = q.overrun
<1>1. q \in QueueOf(Messages \cup {Nil}) /\ Held \in Seq(Messages)
  BY DEF TypeOK, QueueOK
<1>2. ~empty(q) /\ q' = pop_front(q, Nil) /\ hand' = [hand EXCEPT ![w] = front(q)]
  BY DEF Dequeue
<1>3. /\ q' \in QueueOf(Messages \cup {Nil})
      /\ Contents(q) # <<>>
      /\ front(q) = Head(Contents(q))
      /\ Contents(q') = Tail(Contents(q))
      /\ q'.overrun = q.overrun
  BY <1>1, <1>2, PopTakesFirst
<1>4. Held' = Contents(q')
  BY DEF Held
<1>5. front(q) = Held[1] /\ Held' = Tail(Held) /\ Held # <<>>
  BY <1>3, <1>4 DEF Held
<1>6. Held' \in Seq(Messages) /\ Held[1] \in Messages
  BY <1>1, <1>5
<1> QED BY <1>2, <1>3, <1>5, <1>6

(* No step but these four touches what the messages are kept in. *)
Quiet == /\ UNCHANGED <<q, posted, dropped, hand, written, failed>>
         /\ term' = term \/ term' = term + 1
LEMMA Effects ==
  ASSUME [Next]_vars
  PROVE  \/ Quiet
         \/ \E t \in Threads : Enqueue(t)
         \/ \E w \in Workers : Dequeue(w) \/ BackendLog(w) \/ BackendFlush(w)
<1>1. CASE \E c \in Callers : \/ \E l \in Loggers : \/ CallFlush(c, l)
                                                   \/ \E level \in Levels : CallLog(c, l, level)
                              \/ CallGetLogger(c)
  BY <1>1 DEF CallFlush, CallLog, CallGetLogger, Call, queueVars, workerVars, Quiet
<1>2. CASE \E t \in Threads : ThreadStep(t) \/ SpuriousWakeup(t)
  BY <1>2 DEF ThreadStep, EnqueueWaits, NotifyPush, Release, PostTerminate, JoinWorkers,
              SpuriousWakeup, queueVars, workerVars, Quiet
<1>3. CASE \E w \in Workers : WorkerStep(w) \/ Timeout(w)
  BY <1>3 DEF WorkerStep, DequeueWaits, NotifyPop, Timeout, queueVars, threadVars, Quiet
<1>4. CASE Tick \/ FlusherStep
  BY <1>4 DEF Tick, FlusherStep, FlushAll, FlushAllReturns, FlusherExits, queueVars, workerVars, Quiet
<1>5. CASE Shutdown
  BY <1>5 DEF Shutdown, StopFlusher, JoinFlusher, DropAll, ResetPool, queueVars, workerVars, Quiet
<1>6. CASE Over \/ UNCHANGED vars
  BY <1>6 DEF Over, vars, queueVars, threadVars, workerVars, Quiet
<1> QED BY <1>1, <1>2, <1>3, <1>4, <1>5, <1>6 DEF Next

(* The call of a thread gives it a message or leaves it where it was. *)
LEMMA LockTypes ==
  ASSUME TypeOK, NEW t \in Threads, NEW l, NEW msg \in Messages, NEW label \in {"idle", "flushAll"},
         LockPool(t, l, msg) \/ NoPool(t, label)
  PROVE  /\ owners' \subseteq Threads \cup {Registry}
         /\ pc' \in [Threads -> {"idle", "post", "full", "notify", "release", "destroy", "flushAll",
                                 "joinFlusher", "dropAll", "resetPool", "done"}]
         /\ todo' \in [Threads -> Messages \cup {Nil}]
         /\ policy' \in [Threads -> {"block", "overrun_oldest"}]
BY DEF LockPool, NoPool, PolicyOf, Goto, TypeOK

(* A message that a caller logs is one of LogMsgs. *)
LEMMA LoggedIsMessage ==
  ASSUME TypeOK, NEW c \in Callers, NEW l, NEW level \in Levels, CallLog(c, l, level)
  PROVE  /\ calls' \in [Callers -> 0..MaxCalls]
         /\ calls'[c] = calls[c] + 1
         /\ [type |-> "log", from |-> c, n |-> calls'[c], level |-> level] \in LogMsgs
<1>1. calls \in [Callers -> 0..MaxCalls] /\ calls[c] < MaxCalls
      /\ calls' = [calls EXCEPT ![c] = @ + 1]
  BY DEF CallLog, Call, TypeOK
<1> QED BY <1>1, BoundsAssumption DEF LogMsgs

(* Every step keeps the types. *)
LEMMA TypeStep ==
  ASSUME TypeOK, QueueOK, HandOK, [Next]_vars
  PROVE  TypeOK'
<1> USE DEF Goto, WGoto
<1>1. ASSUME NEW c \in Callers, NEW l \in Loggers, CallFlush(c, l) PROVE TypeOK'
  <2>1. c \in Threads /\ FlushMsg \in Messages
    BY MessageFacts DEF Threads
  <2>2. LockPool(c, l, FlushMsg) \/ NoPool(c, "idle")
    BY <1>1 DEF CallFlush
  <2>3. calls' \in [Callers -> 0..MaxCalls]
    BY <1>1, BoundsAssumption DEF CallFlush, Call, TypeOK
  <2>4. UNCHANGED <<queueVars, workerVars, flusherVars, term, gone>>
    BY <1>1 DEF CallFlush, Call
  <2> QED BY <2>1, <2>2, <2>3, <2>4, LockTypes DEF TypeOK, queueVars, workerVars, flusherVars
<1>2. ASSUME NEW c \in Callers, NEW l \in Loggers, NEW level \in Levels, CallLog(c, l, level)
      PROVE  TypeOK'
  <2> DEFINE m == [type |-> "log", from |-> c, n |-> calls'[c], level |-> level]
  <2>1. c \in Threads /\ m \in Messages
    BY <1>2, LoggedIsMessage, MessageFacts DEF Threads
  <2>2. LockPool(c, l, m) \/ NoPool(c, "idle")
    BY <1>2 DEF CallLog
  <2>3. calls' \in [Callers -> 0..MaxCalls]
    BY <1>2, LoggedIsMessage
  <2>4. UNCHANGED <<queueVars, workerVars, flusherVars, term, gone>>
    BY <1>2 DEF CallLog, Call
  <2> HIDE DEF m
  <2> QED BY <2>1, <2>2, <2>3, <2>4, LockTypes DEF TypeOK, queueVars, workerVars, flusherVars
<1>3. ASSUME NEW c \in Callers, CallGetLogger(c) PROVE TypeOK'
  BY <1>3, BoundsAssumption DEF CallGetLogger, Call, Threads, TypeOK, queueVars, workerVars, flusherVars
<1>4. ASSUME NEW t \in Threads, EnqueueWaits(t) \/ SpuriousWakeup(t) PROVE TypeOK'
  BY <1>4 DEF EnqueueWaits, SpuriousWakeup, TypeOK, queueVars, workerVars, flusherVars
<1>5. ASSUME NEW t \in Threads, Enqueue(t) PROVE TypeOK'
  <2>1. q' \in QueueOf(Messages \cup {Nil})
    BY <1>5, EnqueueHeld
  <2>2. posted' \subseteq LogMsgs /\ dropped' \subseteq LogMsgs
    BY <1>5 DEF Enqueue, TypeOK
  <2>3. /\ pc' = [pc EXCEPT ![t] = "notify"]
        /\ UNCHANGED <<owners, todo, policy, term, gone, workerVars, flusherVars, calls>>
    BY <1>5 DEF Enqueue
  <2> QED BY <2>1, <2>2, <2>3 DEF TypeOK, workerVars, flusherVars
<1>6. ASSUME NEW t \in Threads, NotifyPush(t) PROVE TypeOK'
  BY <1>6 DEF NotifyPush, NotifyOne, TypeOK, queueVars, workerVars, flusherVars
<1>7. ASSUME NEW t \in Threads, Release(t) PROVE TypeOK'
  BY <1>7 DEF Release, Returns, TypeOK, queueVars, workerVars, flusherVars
<1>8. ASSUME NEW t \in Threads, PostTerminate(t) PROVE TypeOK'
  <2>1. Cardinality(Workers) \in Nat
    BY WorkersAssumption, FS_CardinalityType
  <2> QED BY <1>8, <2>1, MessageFacts DEF PostTerminate, TypeOK, queueVars, workerVars, flusherVars
<1>9. ASSUME NEW t \in Threads, JoinWorkers(t) PROVE TypeOK'
  BY <1>9 DEF JoinWorkers, Returns, TypeOK, queueVars, workerVars, flusherVars
<1>10. ASSUME NEW w \in Workers, DequeueWaits(w) \/ Timeout(w) PROVE TypeOK'
  BY <1>10 DEF DequeueWaits, Timeout, TypeOK, queueVars, threadVars, flusherVars
<1>11. ASSUME NEW w \in Workers, Dequeue(w) PROVE TypeOK'
  <2>1. q' \in QueueOf(Messages \cup {Nil}) /\ Held[1] \in Messages
        /\ hand' = [hand EXCEPT ![w] = Held[1]]
    BY <1>11, DequeueHeld
  <2>2. /\ wpc' = [wpc EXCEPT ![w] = "notify"]
        /\ UNCHANGED <<posted, dropped, threadVars, written, failed, flusherVars, calls>>
    BY <1>11 DEF Dequeue
  <2> QED BY <2>1, <2>2 DEF TypeOK, threadVars, flusherVars
<1>12. ASSUME NEW w \in Workers, NotifyPop(w) PROVE TypeOK'
  BY <1>12 DEF NotifyPop, TypeOK, queueVars, flusherVars
<1>13. ASSUME NEW w \in Workers, BackendLog(w) PROVE TypeOK'
  <2>1. hand[w] \in LogMsgs
    BY <1>13 DEF BackendLog, HandOK
  <2>2. written' \in [Sinks -> [LogMsgs -> Nat]]
    BY <1>13, <2>1 DEF BackendLog, TypeOK
  <2>3. failed' \subseteq LogMsgs
    BY <1>13, <2>1 DEF BackendLog, TypeOK
  <2>4. /\ hand' = [hand EXCEPT ![w] = Nil] /\ wpc' = [wpc EXCEPT ![w] = "get"]
        /\ UNCHANGED <<queueVars, threadVars, flusherVars, calls>>
    BY <1>13 DEF BackendLog
  <2> QED BY <2>2, <2>3, <2>4 DEF TypeOK, queueVars, threadVars, flusherVars
<1>14. ASSUME NEW w \in Workers, BackendFlush(w) PROVE TypeOK'
  BY <1>14 DEF BackendFlush, TypeOK, queueVars, threadVars, flusherVars
<1>15. CASE Tick
  BY <1>15, BoundsAssumption DEF Tick, TypeOK, Threads, queueVars, workerVars
<1>16. ASSUME NEW l \in Loggers, FlushAll(l) PROVE TypeOK'
  <2>1. Flusher \in Threads /\ FlushMsg \in Messages
    BY MessageFacts DEF Threads
  <2>2. LockPool(Flusher, l, FlushMsg) \/ NoPool(Flusher, "flushAll")
    BY <1>16 DEF FlushAll
  <2>3. toFlush' = toFlush \ {l}
        /\ UNCHANGED <<queueVars, term, gone, workerVars, active, listed, ticks, calls>>
    BY <1>16 DEF FlushAll
  <2> QED BY <2>1, <2>2, <2>3, LockTypes DEF TypeOK, queueVars, workerVars
<1>17. CASE FlushAllReturns \/ FlusherExits
  BY <1>17 DEF FlushAllReturns, FlusherExits, TypeOK, Threads, queueVars, workerVars, flusherVars
<1>18. CASE Shutdown
  BY <1>18 DEF Shutdown, StopFlusher, JoinFlusher, DropAll, ResetPool, TypeOK, Threads,
               queueVars, workerVars, flusherVars
<1>19. CASE Over \/ UNCHANGED vars
  BY <1>19 DEF Over, vars, TypeOK, queueVars, threadVars, workerVars, flusherVars
<1> QED
  BY <1>1, <1>2, <1>3, <1>4, <1>5, <1>6, <1>7, <1>8, <1>9, <1>10, <1>11, <1>12, <1>13, <1>14, <1>15,
     <1>16, <1>17, <1>18, <1>19 DEF Next, ThreadStep, WorkerStep, FlusherStep

(* The queue and what is posted to it are messages. *)
LEMMA QueueStep ==
  ASSUME TypeOK, QueueOK, HandOK, [Next]_vars
  PROVE  QueueOK'
<1>1. Held' \in Seq(Messages)
  <2>1. CASE Quiet
    BY <2>1 DEF Quiet, Held, QueueOK
  <2>2. ASSUME NEW t \in Threads, Enqueue(t) PROVE Held' \in Seq(Messages)
    BY <2>2, EnqueueHeld
  <2>3. ASSUME NEW w \in Workers, Dequeue(w) PROVE Held' \in Seq(Messages)
    BY <2>3, DequeueHeld
  <2>4. ASSUME NEW w \in Workers, BackendLog(w) \/ BackendFlush(w) PROVE Held' \in Seq(Messages)
    BY <2>4 DEF BackendLog, BackendFlush, queueVars, Held, QueueOK
  <2> QED BY <2>1, <2>2, <2>3, <2>4, Effects
<1>2. \A t \in Threads : Posting(t)' => todo'[t] \in Messages
  <2> DEFINE P == \A t \in Threads : Posting(t)' => todo'[t] \in Messages
  <2> USE DEF Goto, Posting
  <2>1. ASSUME NEW u \in Threads, NEW l, NEW msg \in Messages, NEW label \in {"idle", "flushAll"},
               LockPool(u, l, msg) \/ NoPool(u, label)
        PROVE  P
    BY <2>1 DEF LockPool, NoPool, QueueOK, TypeOK
  <2>2. ASSUME NEW c \in Callers, NEW l \in Loggers, CallFlush(c, l) PROVE P
    <3>1. c \in Threads /\ FlushMsg \in Messages /\ (LockPool(c, l, FlushMsg) \/ NoPool(c, "idle"))
      BY <2>2, MessageFacts DEF CallFlush, Threads
    <3> QED BY <3>1, <2>1
  <2>3. ASSUME NEW c \in Callers, NEW l \in Loggers, NEW level \in Levels, CallLog(c, l, level) PROVE P
    <3> DEFINE m == [type |-> "log", from |-> c, n |-> calls'[c], level |-> level]
    <3>1. c \in Threads /\ m \in Messages /\ (LockPool(c, l, m) \/ NoPool(c, "idle"))
      BY <2>3, LoggedIsMessage, MessageFacts DEF CallLog, Threads
    <3> HIDE DEF m
    <3> QED BY <3>1, <2>1
  <2>4. ASSUME NEW l \in Loggers, FlushAll(l) PROVE P
    <3>1. Flusher \in Threads /\ FlushMsg \in Messages
          /\ (LockPool(Flusher, l, FlushMsg) \/ NoPool(Flusher, "flushAll"))
      BY <2>4, MessageFacts DEF FlushAll, Threads
    <3> QED BY <3>1, <2>1
  <2>5. ASSUME NEW c \in Callers, CallGetLogger(c) PROVE P
    BY <2>5 DEF CallGetLogger, QueueOK, TypeOK, Threads
  <2>6. ASSUME NEW t \in Threads, ThreadStep(t) \/ SpuriousWakeup(t) PROVE P
    <3>1. CASE EnqueueWaits(t) \/ SpuriousWakeup(t) \/ Enqueue(t)
      BY <3>1 DEF EnqueueWaits, SpuriousWakeup, Enqueue, QueueOK, TypeOK
    <3>2. CASE NotifyPush(t)
      BY <3>2 DEF NotifyPush, QueueOK, TypeOK
    <3>3. CASE Release(t) \/ JoinWorkers(t)
      BY <3>3 DEF Release, JoinWorkers, Returns, QueueOK, TypeOK
    <3>4. CASE PostTerminate(t)
      BY <3>4, MessageFacts DEF PostTerminate, QueueOK, TypeOK
    <3> QED BY <2>6, <3>1, <3>2, <3>3, <3>4 DEF ThreadStep
  <2>7. ASSUME NEW w \in Workers, WorkerStep(w) \/ Timeout(w) PROVE P
    <3>1. CASE NotifyPop(w)
      BY <3>1 DEF NotifyPop, QueueOK, TypeOK
    <3> QED BY <2>7, <3>1 DEF WorkerStep, Timeout, DequeueWaits, Dequeue, BackendLog, BackendFlush,
                              threadVars, QueueOK
  <2>8. CASE Tick \/ FlushAllReturns \/ FlusherExits
    BY <2>8 DEF Tick, FlushAllReturns, FlusherExits, QueueOK, TypeOK, Threads
  <2>9. CASE Shutdown
    BY <2>9 DEF Shutdown, StopFlusher, JoinFlusher, DropAll, ResetPool, QueueOK, TypeOK, Threads
  <2>10. CASE Over \/ UNCHANGED vars
    BY <2>10 DEF Over, vars, threadVars, QueueOK
  <2> QED BY <2>2, <2>3, <2>4, <2>5, <2>6, <2>7, <2>8, <2>9, <2>10 DEF Next, FlusherStep
<1> QED BY <1>1, <1>2 DEF QueueOK, Posting

(* What a worker holds suits its label. *)
LEMMA HandStep ==
  ASSUME TypeOK, QueueOK, HandOK, [Next]_vars
  PROVE  HandOK'
<1> USE DEF WGoto
<1>1. ASSUME NEW c \in Callers, NEW l \in Loggers, CallFlush(c, l) PROVE HandOK'
  BY <1>1 DEF CallFlush, Call, workerVars, HandOK
<1>2. ASSUME NEW c \in Callers, NEW l \in Loggers, NEW level \in Levels, CallLog(c, l, level)
      PROVE  HandOK'
  BY <1>2 DEF CallLog, Call, workerVars, HandOK
<1>3. ASSUME NEW c \in Callers, CallGetLogger(c) PROVE HandOK'
  BY <1>3 DEF CallGetLogger, Call, workerVars, HandOK
<1>4. ASSUME NEW t \in Threads, ThreadStep(t) \/ SpuriousWakeup(t) PROVE HandOK'
  <2>1. CASE NotifyPush(t)
    BY <2>1 DEF NotifyPush, NotifyOne, HandOK, TypeOK
  <2> QED BY <1>4, <2>1 DEF ThreadStep, EnqueueWaits, Enqueue, Release, PostTerminate, JoinWorkers,
                            SpuriousWakeup, workerVars, HandOK
<1>5. ASSUME NEW w \in Workers, DequeueWaits(w) \/ Timeout(w) PROVE HandOK'
  BY <1>5 DEF DequeueWaits, Timeout, HandOK, TypeOK
<1>6. ASSUME NEW w \in Workers, Dequeue(w) PROVE HandOK'
  <2>1. Held[1] \in Messages /\ hand' = [hand EXCEPT ![w] = Held[1]]
    BY <1>6, DequeueHeld
  <2> QED BY <1>6, <2>1 DEF Dequeue, HandOK, TypeOK
<1>7. ASSUME NEW w \in Workers, NotifyPop(w) PROVE HandOK'
  BY <1>7, MessageFacts DEF NotifyPop, HandOK, TypeOK, Messages
<1>8. ASSUME NEW w \in Workers, BackendLog(w) \/ BackendFlush(w) PROVE HandOK'
  BY <1>8 DEF BackendLog, BackendFlush, HandOK, TypeOK
<1>9. CASE Tick \/ FlusherStep
  BY <1>9 DEF Tick, FlusherStep, FlushAll, FlushAllReturns, FlusherExits, workerVars, HandOK
<1>10. CASE Shutdown
  BY <1>10 DEF Shutdown, StopFlusher, JoinFlusher, DropAll, ResetPool, workerVars, HandOK
<1>11. CASE Over \/ UNCHANGED vars
  BY <1>11 DEF Over, vars, workerVars, HandOK
<1> QED BY <1>1, <1>2, <1>3, <1>4, <1>5, <1>6, <1>7, <1>8, <1>9, <1>10, <1>11 DEF Next, WorkerStep

(* The empty queue holds nothing. *)
LEMMA InitHeld ==
  ASSUME Init
  PROVE  q \in QueueOf(Messages \cup {Nil}) /\ Held = <<>> /\ q.overrun = 0
<1>1. q = EmptyQueue(Nil) /\ q \in QueueOf(Messages \cup {Nil})
  BY MaxItemsAssumption DEF Init, EmptyQueue, QueueOf, Slots
<1>2. Size(q) = 0
  BY <1>1 DEF EmptyQueue, Size
<1>3. Held \in Seq(Messages \cup {Nil}) /\ Len(Held) = 0
  BY <1>1, <1>2, ContentsType DEF Held
<1>4. Held = <<>>
  BY <1>3
<1> QED BY <1>1, <1>4 DEF EmptyQueue

(* The first state has the types. *)
LEMMA InitTypes ==
  ASSUME Init
  PROVE  TypeInv
<1>1. TypeOK
  <2>1. Cardinality(Workers) \in Nat
    BY WorkersAssumption, FS_CardinalityType
  <2>2. q \in QueueOf(Messages \cup {Nil})
    BY InitHeld
  <2>3. written \in [Sinks -> [LogMsgs -> Nat]]
    BY DEF Init
  <2>4. /\ pc \in [Threads -> {"idle", "post", "full", "notify", "release", "destroy", "flushAll",
                                "joinFlusher", "dropAll", "resetPool", "done"}]
        /\ todo \in [Threads -> Messages \cup {Nil}]
        /\ policy \in [Threads -> {"block", "overrun_oldest"}]
        /\ wpc \in [Workers -> {"get", "wait", "notify", "log", "flush", "done"}]
        /\ hand \in [Workers -> Messages \cup {Nil}]
    BY DEF Init
  <2>5. gone \in BOOLEAN /\ active \in BOOLEAN
    BY DEF Init
  <2>6. /\ owners \subseteq Threads \cup {Registry}
        /\ toFlush \subseteq Loggers /\ listed \subseteq Loggers
        /\ posted \subseteq LogMsgs /\ dropped \subseteq LogMsgs /\ failed \subseteq LogMsgs
    BY DEF Init
  <2>7. term \in 0..Cardinality(Workers) /\ ticks \in 0..MaxTicks /\ calls \in [Callers -> 0..MaxCalls]
    BY <2>1, BoundsAssumption DEF Init
  <2> QED BY <2>2, <2>3, <2>4, <2>5, <2>6, <2>7 DEF TypeOK
<1>2. QueueOK
  <2>1. Held \in Seq(Messages)
    BY InitHeld
  <2>2. \A t \in Threads : ~Posting(t)
    BY DEF Init, Posting
  <2> QED BY <2>1, <2>2 DEF QueueOK
<1>3. HandOK
  BY DEF Init, HandOK
<1> QED BY <1>1, <1>2, <1>3 DEF TypeInv

(* Every variable keeps its type; the queue holds messages only, and what a *)
(* worker has in hand is of the kind that its next step expects.            *)
THEOREM AsyncTypes == Spec => []TypeInv
<1>1. Init => TypeInv
  BY InitTypes
<1>2. TypeInv /\ [Next]_vars => TypeInv'
  BY TypeStep, QueueStep, HandStep DEF TypeInv
<1> QED BY <1>1, <1>2, PTL DEF Spec

-----------------------------------------------------------------------------
(* The ring of the pool implements a bounded first-in first-out queue: each *)
(* step of any thread is a step of BoundedFifo on the contents of the ring, *)
(* or leaves them alone.                                                    *)
THEOREM QueueIsFifo == Spec => FifoQueue
<1>1. Init => Fifo!FifoInit
  BY InitHeld DEF Fifo!FifoInit
<1>2. TypeInv /\ [Next]_vars => [Fifo!FifoNext]_<<Held, q.overrun>>
  <2> SUFFICES ASSUME TypeOK, QueueOK, [Next]_vars
               PROVE  Fifo!FifoNext \/ UNCHANGED <<Held, q.overrun>>
    BY DEF TypeInv
  <2>1. CASE Quiet
    BY <2>1 DEF Quiet, Held
  <2>2. ASSUME NEW t \in Threads, Enqueue(t)
        PROVE  Fifo!FifoNext
    <3>1. Fifo!Put(todo[t]) \/ Fifo!PutOver(todo[t])
      BY <2>2, EnqueueHeld DEF Fifo!Put, Fifo!PutOver
    <3>2. todo[t] \in Messages
      BY <2>2, EnqueueHeld
    <3> QED BY <3>1, <3>2 DEF Fifo!FifoNext
  <2>3. ASSUME NEW w \in Workers, Dequeue(w)
        PROVE  Fifo!FifoNext
    BY <2>3, DequeueHeld DEF Fifo!FifoNext, Fifo!Take
  <2>4. ASSUME NEW w \in Workers, BackendLog(w) \/ BackendFlush(w)
        PROVE  UNCHANGED <<Held, q.overrun>>
    BY <2>4 DEF BackendLog, BackendFlush, queueVars, Held
  <2> QED BY <2>1, <2>2, <2>3, <2>4, Effects
<1> QED BY <1>1, <1>2, AsyncTypes, PTL DEF Spec, FifoQueue, Fifo!FifoSpec

-----------------------------------------------------------------------------
(* Who owns the pool. *)

(* The destructor counts its terminate messages: there are finitely many    *)
(* workers.                                                                 *)
LEMMA TermIsNat ==
  ASSUME TypeOK
  PROVE  term \in Nat
<1>1. Cardinality(Workers) \in Nat
  BY WorkersAssumption, FS_CardinalityType
<1> QED BY <1>1 DEF TypeOK

(* lock() of the weak pointer keeps the invariant: it makes an owner only   *)
(* while there is one.                                                      *)
LEMMA LockOwners ==
  ASSUME TypeOK, OwnersOK, NEW t \in Threads \ {Main}, NEW l, NEW msg, msg # Terminate,
         NEW label \in {"idle", "flushAll"}, pc[t] \in {"idle", "flushAll"},
         LockPool(t, l, msg) \/ NoPool(t, label), UNCHANGED <<term, gone, wpc>>
  PROVE  OwnersOK'
<1> USE DEF Goto, Posting, Destroying
<1>1. CASE LockPool(t, l, msg)
  BY <1>1 DEF LockPool, OwnersOK, TypeOK
<1>2. CASE NoPool(t, label)
  BY <1>2 DEF NoPool, OwnersOK, TypeOK
<1> QED BY <1>1, <1>2

(* A thread that moves inside a call neither takes nor gives up the pool. *)
LEMMA MoveOwners ==
  ASSUME TypeOK, OwnersOK, NEW t \in Threads, pc[t] \in {"post", "full", "notify"},
         NEW label \in {"post", "full", "notify"}, pc' = [pc EXCEPT ![t] = label],
         UNCHANGED <<owners, todo, term, gone>>,
         \A w \in Workers : wpc[w] = "done" => wpc'[w] = "done"
  PROVE  OwnersOK'
BY DEF Posting, Destroying, OwnersOK, TypeOK

(* Every step keeps the owners. *)
LEMMA OwnersStep ==
  ASSUME TypeOK, QueueOK, HandOK, OwnersOK, [Next]_vars
  PROVE  OwnersOK'
<1> USE DEF Goto, WGoto
<1>0. Main \in Threads /\ Flusher \in Threads /\ Flusher # Main /\ Registry \notin Threads
      /\ \A c \in Callers : c \in Threads /\ c # Main
  BY ThreadsAssumption DEF Threads
<1>1. ASSUME NEW c \in Callers, NEW l \in Loggers, CallFlush(c, l) PROVE OwnersOK'
  <2>1. (LockPool(c, l, FlushMsg) \/ NoPool(c, "idle")) /\ pc[c] = "idle" /\ UNCHANGED <<term, gone, wpc>>
    BY <1>1 DEF CallFlush, Call, workerVars
  <2> QED BY <1>0, <2>1, LockOwners, MessageFacts
<1>2. ASSUME NEW c \in Callers, NEW l \in Loggers, NEW level \in Levels, CallLog(c, l, level)
      PROVE  OwnersOK'
  <2> DEFINE m == [type |-> "log", from |-> c, n |-> calls'[c], level |-> level]
  <2>1. (LockPool(c, l, m) \/ NoPool(c, "idle")) /\ pc[c] = "idle" /\ UNCHANGED <<term, gone, wpc>>
    BY <1>2 DEF CallLog, Call, workerVars
  <2>2. m # Terminate
    BY <1>2, LoggedIsMessage, MessageFacts
  <2> HIDE DEF m
  <2> QED BY <1>0, <2>1, <2>2, LockOwners
<1>3. ASSUME NEW c \in Callers, CallGetLogger(c) PROVE OwnersOK'
  BY <1>0, <1>3 DEF CallGetLogger, Call, workerVars, Posting, Destroying, OwnersOK, TypeOK
<1>4. ASSUME NEW t \in Threads, EnqueueWaits(t) \/ SpuriousWakeup(t) \/ Enqueue(t) PROVE OwnersOK'
  <2>1. /\ pc[t] \in {"post", "full", "notify"}
        /\ \E label \in {"post", "full", "notify"} : pc' = [pc EXCEPT ![t] = label]
        /\ UNCHANGED <<owners, todo, term, gone, wpc>>
    BY <1>4 DEF EnqueueWaits, SpuriousWakeup, Enqueue, workerVars
  <2> QED BY <2>1, MoveOwners
<1>5. ASSUME NEW t \in Threads, NotifyPush(t) PROVE OwnersOK'
  <2>1. \A w \in Workers : wpc[w] = "done" => wpc'[w] = "done"
    BY <1>5 DEF NotifyPush, NotifyOne, TypeOK
  <2>2. /\ pc[t] = "notify" /\ UNCHANGED <<owners, term, gone>>
        /\ pc' = [pc EXCEPT ![t] = IF todo[t] = Terminate THEN "destroy" ELSE "release"]
        /\ todo' = [todo EXCEPT ![t] = Nil]
    BY <1>5 DEF NotifyPush
  <2> QED BY <2>1, <2>2 DEF Posting, Destroying, OwnersOK, TypeOK
<1>6. ASSUME NEW t \in Threads, Release(t) PROVE OwnersOK'
  BY <1>0, <1>6 DEF Release, Returns, workerVars, Posting, Destroying, OwnersOK, TypeOK
<1>7. ASSUME NEW t \in Threads, PostTerminate(t) PROVE OwnersOK'
  BY <1>0, <1>7, TermIsNat DEF PostTerminate, workerVars, Posting, Destroying, OwnersOK, TypeOK
<1>8. ASSUME NEW t \in Threads, JoinWorkers(t) PROVE OwnersOK'
  BY <1>0, <1>8 DEF JoinWorkers, Returns, workerVars, Posting, Destroying, OwnersOK, TypeOK
<1>9. ASSUME NEW w \in Workers, WorkerStep(w) \/ Timeout(w) PROVE OwnersOK'
  <2>1. \A v \in Workers : wpc[v] = "done" => wpc'[v] = "done"
    BY <1>9 DEF WorkerStep, Timeout, DequeueWaits, Dequeue, NotifyPop, BackendLog, BackendFlush, TypeOK
  <2>2. CASE NotifyPop(w) /\ pc' # pc
    <3>1. \E t \in Threads : pc[t] = "full" /\ pc' = [pc EXCEPT ![t] = "post"]
      BY <2>2 DEF NotifyPop
    <3> QED BY <2>1, <2>2, <3>1, MoveOwners DEF NotifyPop
  <2>3. CASE UNCHANGED threadVars
    BY <2>1, <2>3 DEF threadVars, Posting, Destroying, OwnersOK
  <2> QED BY <1>9, <2>2, <2>3 DEF WorkerStep, Timeout, DequeueWaits, Dequeue, NotifyPop, BackendLog,
                                 BackendFlush, threadVars
<1>10. ASSUME NEW l \in Loggers, FlushAll(l) PROVE OwnersOK'
  <2>1. (LockPool(Flusher, l, FlushMsg) \/ NoPool(Flusher, "flushAll")) /\ pc[Flusher] = "flushAll"
        /\ UNCHANGED <<term, gone, wpc>>
    BY <1>10 DEF FlushAll, workerVars
  <2> QED BY <1>0, <2>1, LockOwners, MessageFacts
<1>11. CASE Tick \/ FlushAllReturns \/ FlusherExits
  BY <1>0, <1>11 DEF Tick, FlushAllReturns, FlusherExits, workerVars, Posting, Destroying, OwnersOK, TypeOK
<1>12. CASE StopFlusher \/ JoinFlusher \/ DropAll
  BY <1>0, <1>12 DEF StopFlusher, JoinFlusher, DropAll, workerVars, Posting, Destroying, OwnersOK, TypeOK
<1>13. CASE ResetPool
  BY <1>0, <1>13 DEF ResetPool, workerVars, Posting, Destroying, OwnersOK, TypeOK
<1>14. CASE Over \/ UNCHANGED vars
  BY <1>14 DEF Over, vars, threadVars, workerVars, Posting, Destroying, OwnersOK
<1> QED
  BY <1>1, <1>2, <1>3, <1>4, <1>5, <1>6, <1>7, <1>8, <1>9, <1>10, <1>11, <1>12, <1>13, <1>14
  DEF Next, ThreadStep, FlusherStep, Shutdown

(* At first the registry alone owns the pool. *)
LEMMA InitOwners ==
  ASSUME Init
  PROVE  OwnersOK
BY DEF Init, OwnersOK, Posting, Destroying

(* Nobody uses a pool that is gone: a thread that posts owns the pool or    *)
(* destroys it itself, nobody makes a pool that has lost its last owner     *)
(* come back, and the workers end before the queue does.                    *)
THEOREM PoolIsAlive == Spec => []PoolOutlivesItsUsers
<1>1. Init => OwnersOK
  BY InitOwners
<1>2. TypeInv /\ OwnersOK /\ [Next]_vars => OwnersOK'
  BY OwnersStep DEF TypeInv
<1>3. OwnersOK => PoolOutlivesItsUsers
  BY DEF OwnersOK, PoolOutlivesItsUsers, Posting
<1> QED BY <1>1, <1>2, <1>3, AsyncTypes, PTL DEF Spec

-----------------------------------------------------------------------------
(* Nothing is lost. *)

(* What Append does, place by place. *)
LEMMA AppendPlaces ==
  ASSUME NEW S, NEW h \in Seq(S), NEW x \in S
  PROVE  /\ Len(Append(h, x)) = Len(h) + 1
         /\ Append(h, x)[Len(h) + 1] = x
         /\ \A k \in 1..Len(h) : Append(h, x)[k] = h[k]
OBVIOUS

(* The places of the queue after enqueue: one item is new and last, the     *)
(* others are where they were or, when the oldest was given up, one place   *)
(* further on.                                                              *)
LEMMA EnqueuePlaces ==
  ASSUME TypeOK, QueueOK, NEW t \in Threads, Enqueue(t)
  PROVE  \E d \in {0, 1} :
           /\ Len(Held) \in Nat /\ Len(Held') = Len(Held) + 1 - d
           /\ Len(Held') \in Nat \ {0}
           /\ Held'[Len(Held')] = todo[t]
           /\ \A k \in 1..Len(Held') : k # Len(Held') =>
                k + d \in 1..Len(Held) /\ Held'[k] = Held[k + d]
           /\ d = 0 => dropped' = dropped
           /\ d = 1 => Held # <<>> /\ dropped' = dropped \cup ({Held[1]} \cap LogMsgs)
<1>1. Held \in Seq(Messages) /\ todo[t] \in Messages
  BY EnqueueHeld DEF QueueOK
<1>2. CASE Held' = Append(Held, todo[t]) /\ dropped' = dropped
  <2>1. /\ Len(Held) \in Nat /\ Len(Held') = Len(Held) + 1
        /\ Held'[Len(Held')] = todo[t]
        /\ \A k \in 1..Len(Held) : Held'[k] = Held[k]
    BY <1>1, <1>2
  <2> QED BY <1>2, <2>1
<1>3. CASE /\ Held # <<>> /\ Held' = Append(Tail(Held), todo[t])
           /\ dropped' = dropped \cup ({Held[1]} \cap LogMsgs)
  <2>1. /\ Tail(Held) \in Seq(Messages) /\ Len(Held) \in Nat \ {0} /\ Len(Tail(Held)) = Len(Held) - 1
        /\ \A k \in 1..Len(Held) - 1 : Tail(Held)[k] = Held[k + 1]
    BY <1>1, <1>3
  <2>2. /\ Len(Held') = Len(Tail(Held)) + 1
        /\ Held'[Len(Tail(Held)) + 1] = todo[t]
        /\ \A k \in 1..Len(Tail(Held)) : Held'[k] = Tail(Held)[k]
    <3>1. /\ Len(Append(Tail(Held), todo[t])) = Len(Tail(Held)) + 1
          /\ Append(Tail(Held), todo[t])[Len(Tail(Held)) + 1] = todo[t]
          /\ \A k \in 1..Len(Tail(Held)) : Append(Tail(Held), todo[t])[k] = Tail(Held)[k]
      BY <1>1, <2>1, AppendPlaces
    <3> QED BY <1>3, <3>1
  <2>3. Len(Held') = Len(Held) /\ Held'[Len(Held')] = todo[t]
    BY <2>1, <2>2
  <2>4. \A k \in 1..Len(Held') : k # Len(Held') =>
           k + 1 \in 1..Len(Held) /\ Held'[k] = Held[k + 1]
    <3> SUFFICES ASSUME NEW k \in 1..Len(Held'), k # Len(Held')
                 PROVE  k + 1 \in 1..Len(Held) /\ Held'[k] = Held[k + 1]
      OBVIOUS
    <3>1. k \in 1..Len(Held) - 1 /\ k + 1 \in 1..Len(Held)
      <4>1. Len(Held) \in Nat /\ Len(Held') = Len(Held)
        BY <2>1, <2>3
      <4> QED BY <4>1
    <3>2. Held'[k] = Tail(Held)[k]
      BY <2>1, <2>2, <3>1
    <3>3. Tail(Held)[k] = Held[k + 1]
      BY <2>1, <3>1
    <3> QED BY <3>1, <3>2, <3>3
  <2>5. Held # <<>> /\ dropped' = dropped \cup ({Held[1]} \cap LogMsgs)
    BY <1>3
  <2>6. Len(Held) \in Nat /\ Len(Held') = Len(Held) + 1 - 1 /\ Len(Held') \in Nat \ {0}
    BY <2>1, <2>3
  <2> WITNESS 1 \in {0, 1}
  <2> QED BY <2>3, <2>4, <2>5, <2>6
<1> QED BY <1>2, <1>3, EnqueueHeld

(* The places of the queue after dequeue_for: each item is one further on.  *)
LEMMA DequeuePlaces ==
  ASSUME TypeOK, QueueOK, HandOK, NEW w \in Workers, Dequeue(w)
  PROVE  /\ Len(Held) \in Nat \ {0} /\ Len(Held') = Len(Held) - 1
         /\ \A k \in 1..Len(Held') : k + 1 \in 1..Len(Held) /\ Held'[k] = Held[k + 1]
         /\ Held[1] \in Messages /\ 1 \in 1..Len(Held)
         /\ hand' = [hand EXCEPT ![w] = Held[1]]
         /\ hand \in [Workers -> Messages \cup {Nil}]
         /\ hand[w] = Nil
         /\ UNCHANGED <<posted, dropped, written, failed, term>>
<1>1. Held \in Seq(Messages) /\ Held # <<>> /\ Held' = Tail(Held)
      /\ hand' = [hand EXCEPT ![w] = Held[1]]
  BY DequeueHeld DEF QueueOK
<1>2. Len(Held) \in Nat \ {0} /\ Len(Held') = Len(Held) - 1
  BY <1>1
<1>3. \A k \in 1..Len(Held') : k + 1 \in 1..Len(Held) /\ Held'[k] = Held[k + 1]
  BY <1>1, <1>2
<1>4. Held[1] \in Messages /\ 1 \in 1..Len(Held)
  BY <1>1, <1>2
<1>5. /\ hand \in [Workers -> Messages \cup {Nil}] /\ hand[w] = Nil
      /\ UNCHANGED <<posted, dropped, written, failed, term>>
  BY DEF Dequeue, threadVars, TypeOK, HandOK
<1> QED BY <1>1, <1>2, <1>3, <1>4, <1>5

(* A thread that posts anything but a terminate message owns the pool, so   *)
(* the destructor has not posted any yet.                                   *)
LEMMA LastStep ==
  ASSUME TypeOK, QueueOK, HandOK, OwnersOK, LastOK, [Next]_vars
  PROVE  LastOK'
<1>0. term \in Nat
  BY TermIsNat
<1>1. CASE Quiet
  <2>1. Held' = Held /\ hand' = hand /\ (term' = 0 => term = 0)
    BY <1>0, <1>1 DEF Quiet, Held
  <2> QED BY <2>1 DEF LastOK
<1>2. ASSUME NEW t \in Threads, Enqueue(t) PROVE LastOK'
  <2>1. Held \in Seq(Messages) /\ Held' \in Seq(Messages) /\ UNCHANGED <<term, hand>>
    BY <1>2, EnqueueHeld DEF QueueOK, Enqueue, workerVars
  <2>2. todo[t] # Terminate => term = 0
    BY <1>2 DEF Enqueue, OwnersOK, Posting
  <2>3. \/ Held' = Append(Held, todo[t])
        \/ Held # <<>> /\ Held' = Append(Tail(Held), todo[t])
    BY <1>2, EnqueueHeld
  <2>4. todo[t] = Terminate => term # 0
    BY <1>2 DEF Enqueue, OwnersOK, Posting
  <2>5. CASE todo[t] = Terminate
    <3>1. PICK d \in {0, 1} :
            /\ Len(Held) \in Nat /\ Len(Held') \in Nat \ {0}
            /\ Held'[Len(Held')] = Terminate
            /\ \A k \in 1..Len(Held') : k # Len(Held') =>
                 k + d \in 1..Len(Held) /\ Held'[k] = Held[k + d]
      BY <1>2, <2>5, EnqueuePlaces
    <3>2. ASSUME NEW i \in 1..Len(Held'), NEW j \in 1..Len(Held'), i < j, Held'[i] = Terminate
          PROVE  Held'[j] = Terminate
      <4>1. CASE j = Len(Held')
        BY <3>1, <4>1
      <4>2. CASE j # Len(Held')
        <5>1. /\ i + d \in 1..Len(Held) /\ j + d \in 1..Len(Held) /\ i + d < j + d
              /\ Held'[i] = Held[i + d] /\ Held'[j] = Held[j + d]
          BY <3>1, <3>2, <4>2
        <5> QED BY <3>2, <5>1 DEF LastOK
      <4> QED BY <4>1, <4>2
    <3>3. \A w \in Workers, k \in 1..Len(Held') : hand'[w] = Terminate => Held'[k] = Terminate
      BY <2>1, <3>1 DEF LastOK
    <3> QED BY <2>1, <2>4, <2>5, <3>2, <3>3 DEF LastOK
  <2>6. CASE todo[t] # Terminate
    <3>1. /\ \A k \in 1..Len(Held) : Held[k] # Terminate
          /\ \A w \in Workers : hand[w] # Terminate
      BY <2>2, <2>6 DEF LastOK
    <3>2. \A k \in 1..Len(Held') : Held'[k] # Terminate
      BY <2>1, <2>3, <2>6, <3>1
    <3> QED BY <2>1, <3>1, <3>2 DEF LastOK
  <2> QED BY <2>5, <2>6
<1>3. ASSUME NEW w \in Workers, Dequeue(w) PROVE LastOK'
  <2>1. /\ Held \in Seq(Messages) /\ Held' = Tail(Held) /\ Held # <<>>
        /\ hand' = [hand EXCEPT ![w] = Held[1]] /\ term' = term
    BY <1>3, DequeueHeld DEF QueueOK, Dequeue, threadVars
  <2>2. hand \in [Workers -> Messages \cup {Nil}]
    BY DEF TypeOK
  <2> QED BY <2>1, <2>2 DEF LastOK
<1>4. ASSUME NEW w \in Workers, BackendLog(w) \/ BackendFlush(w) PROVE LastOK'
  <2>1. /\ q' = q /\ term' = term /\ hand' = [hand EXCEPT ![w] = Nil]
        /\ hand \in [Workers -> Messages \cup {Nil}]
    BY <1>4 DEF BackendLog, BackendFlush, queueVars, threadVars, TypeOK
  <2>2. Held' = Held
    BY <2>1 DEF Held
  <2> QED BY <2>1, <2>2, MessageFacts DEF LastOK
<1> QED BY <1>1, <1>2, <1>3, <1>4, Effects

(* A message that was posted does not disappear: an enqueue into a full     *)
(* queue counts the oldest as given up, a worker takes what it removes into *)
(* its hand, and the sinks get what the worker had.                         *)
LEMMA NothingLostStep ==
  ASSUME TypeOK, QueueOK, HandOK, NothingLost, [Next]_vars
  PROVE  NothingLost'
<1>0. posted \subseteq LogMsgs /\ Nil \notin LogMsgs /\ FlushMsg \notin LogMsgs
  BY MessageFacts DEF TypeOK
<1>1. CASE Quiet
  BY <1>1 DEF Quiet, Held, NothingLost, Somewhere
<1>2. ASSUME NEW t \in Threads, Enqueue(t) PROVE NothingLost'
  <2> SUFFICES ASSUME NEW m \in posted' PROVE Somewhere(m)'
    BY DEF NothingLost
  <2>1. PICK d \in {0, 1} :
          /\ Len(Held) \in Nat /\ Len(Held') = Len(Held) + 1 - d
          /\ Len(Held') \in Nat \ {0}
          /\ Held'[Len(Held')] = todo[t]
          /\ \A k \in 1..Len(Held') : k # Len(Held') =>
               k + d \in 1..Len(Held) /\ Held'[k] = Held[k + d]
          /\ d = 0 => dropped' = dropped
          /\ d = 1 => Held # <<>> /\ dropped' = dropped \cup ({Held[1]} \cap LogMsgs)
    BY <1>2, EnqueuePlaces
  <2>2. UNCHANGED <<hand, written, failed>> /\ posted' = posted \cup ({todo[t]} \cap LogMsgs)
    BY <1>2 DEF Enqueue, workerVars
  <2>3. CASE m \notin posted
    <3>1. Len(Held') \in 1..Len(Held') /\ Held'[Len(Held')] = m
      BY <2>1, <2>2, <2>3
    <3> QED BY <3>1 DEF Somewhere
  <2>4. CASE m \in posted /\ \E k \in 1..Len(Held) : Held[k] = m
    <3>1. PICK k \in 1..Len(Held) : Held[k] = m
      BY <2>4
    <3>2. CASE d = 1 /\ k = 1
      BY <1>0, <2>1, <2>4, <3>1, <3>2 DEF Somewhere
    <3>3. CASE d = 0 \/ k # 1
      <4>1. k - d \in 1..Len(Held') /\ k - d # Len(Held') /\ (k - d) + d = k
        BY <2>1, <3>3
      <4>2. Held'[k - d] = m
        BY <2>1, <3>1, <4>1
      <4> QED BY <4>1, <4>2 DEF Somewhere
    <3> QED BY <3>2, <3>3
  <2>5. CASE m \in posted /\ ~\E k \in 1..Len(Held) : Held[k] = m
    <3>1. \/ \E w \in Workers : hand[w] = m
          \/ m \in dropped \cup failed
          \/ \A s \in Sinks : m.level >= SinkLevels[s] => written[s][m] # 0
      BY <2>5 DEF NothingLost, Somewhere
    <3>2. dropped \subseteq dropped'
      BY <2>1
    <3> QED BY <2>2, <3>1, <3>2 DEF Somewhere
  <2> QED BY <2>3, <2>4, <2>5
<1>3. ASSUME NEW w \in Workers, Dequeue(w) PROVE NothingLost'
  <2> SUFFICES ASSUME NEW m \in posted' PROVE Somewhere(m)'
    BY DEF NothingLost
  <2>1. /\ Len(Held) \in Nat \ {0} /\ Len(Held') = Len(Held) - 1
        /\ \A k \in 1..Len(Held') : k + 1 \in 1..Len(Held) /\ Held'[k] = Held[k + 1]
        /\ hand' = [hand EXCEPT ![w] = Held[1]]
        /\ hand \in [Workers -> Messages \cup {Nil}]
        /\ hand[w] = Nil
        /\ UNCHANGED <<posted, dropped, written, failed>>
    BY <1>3, DequeuePlaces
  <2>2. CASE \E k \in 1..Len(Held) : Held[k] = m
    <3>1. PICK k \in 1..Len(Held) : Held[k] = m
      BY <2>2
    <3>2. CASE k = 1
      BY <2>1, <3>1, <3>2 DEF Somewhere
    <3>3. CASE k # 1
      <4>1. k - 1 \in 1..Len(Held') /\ (k - 1) + 1 = k
        BY <2>1, <3>3
      <4>2. Held'[k - 1] = m
        BY <2>1, <3>1, <4>1
      <4> QED BY <4>1, <4>2 DEF Somewhere
    <3> QED BY <3>2, <3>3
  <2>3. CASE \E v \in Workers : hand[v] = m
    BY <1>0, <2>1, <2>3 DEF Somewhere
  <2>4. CASE \/ m \in dropped \cup failed
             \/ \A s \in Sinks : m.level >= SinkLevels[s] => written[s][m] # 0
    BY <2>1, <2>4 DEF Somewhere
  <2> QED BY <2>1, <2>2, <2>3, <2>4 DEF NothingLost, Somewhere
<1>4. ASSUME NEW w \in Workers, BackendLog(w) PROVE NothingLost'
  <2> SUFFICES ASSUME NEW m \in posted' PROVE Somewhere(m)'
    BY DEF NothingLost
  <2>1. /\ Held' = Held /\ UNCHANGED <<posted, dropped>>
        /\ hand' = [hand EXCEPT ![w] = Nil] /\ hand \in [Workers -> Messages \cup {Nil}]
        /\ failed \subseteq failed' /\ hand[w] \in LogMsgs /\ m \in LogMsgs
    BY <1>0, <1>4 DEF BackendLog, queueVars, Held, TypeOK, HandOK
  <2>2. PICK n \in 0..Len(SinkLevels) :
          /\ written' = [s \in Sinks |->
               IF s <= n /\ hand[w].level >= SinkLevels[s]
               THEN [written[s] EXCEPT ![hand[w]] = @ + 1] ELSE written[s]]
          /\ n = Len(SinkLevels) \/ failed' = failed \cup {hand[w]}
    BY <1>4 DEF BackendLog
  <2>3. ASSUME NEW s \in Sinks
        PROVE  /\ written[s] \in [LogMsgs -> Nat]
               /\ written[s][m] # 0 => written'[s][m] # 0
               /\ m = hand[w] /\ s <= n /\ m.level >= SinkLevels[s] => written'[s][m] # 0
    <3>1. written[s] \in [LogMsgs -> Nat]
      BY DEF TypeOK
    <3>2. written'[s] = IF s <= n /\ hand[w].level >= SinkLevels[s]
                        THEN [written[s] EXCEPT ![hand[w]] = @ + 1] ELSE written[s]
      BY <2>2
    <3>3. written[s][m] \in Nat
      BY <2>1, <3>1
    <3> QED BY <2>1, <3>1, <3>2, <3>3
  <2>4. CASE m = hand[w]
    <3>1. CASE n = Len(SinkLevels)
      <4>1. \A s \in Sinks : s <= n
        BY <3>1 DEF Sinks
      <4> QED BY <2>3, <2>4, <4>1 DEF Somewhere
    <3>2. CASE failed' = failed \cup {hand[w]}
      BY <2>4, <3>2 DEF Somewhere
    <3> QED BY <2>2, <3>1, <3>2
  <2>5. CASE m # hand[w]
    <3>1. Somewhere(m)
      BY <2>1 DEF NothingLost
    <3> QED BY <2>1, <2>3, <2>5, <3>1 DEF Somewhere
  <2> QED BY <2>4, <2>5
<1>5. ASSUME NEW w \in Workers, BackendFlush(w) PROVE NothingLost'
  <2>1. /\ Held' = Held /\ UNCHANGED <<posted, dropped, written, failed>>
        /\ hand' = [hand EXCEPT ![w] = Nil] /\ hand \in [Workers -> Messages \cup {Nil}]
        /\ hand[w] = FlushMsg
    BY <1>5 DEF BackendFlush, queueVars, Held, TypeOK, HandOK
  <2> QED BY <1>0, <2>1 DEF NothingLost, Somewhere
<1> QED BY <1>1, <1>2, <1>3, <1>4, <1>5, Effects

(* "Upon destruction, logs all remaining messages in the queue before       *)
(* destructing": the workers have ended, each at a terminate message; there *)
(* is one at least, so nothing but terminate messages is left in the queue, *)
(* and what was posted has been given to the sinks.                         *)
THEOREM AllIsLogged == Spec => []RemainingLogged
<1> DEFINE Kept == LastOK /\ NothingLost
<1>1. Init => OwnersOK /\ Kept
  <2> SUFFICES ASSUME Init PROVE OwnersOK /\ LastOK /\ NothingLost
    OBVIOUS
  <2>1. Held = <<>> /\ posted = {} /\ hand = [w \in Workers |-> Nil]
    BY InitHeld DEF Init
  <2>2. LastOK
    BY <2>1, MessageFacts DEF LastOK
  <2>3. NothingLost
    BY <2>1 DEF NothingLost
  <2> QED BY <2>2, <2>3, InitOwners
<1>2. TypeInv /\ OwnersOK /\ Kept /\ [Next]_vars => OwnersOK' /\ Kept'
  BY OwnersStep, LastStep, NothingLostStep DEF TypeInv
<1>3. TypeInv /\ OwnersOK /\ Kept => RemainingLogged
  <2> SUFFICES ASSUME TypeOK, QueueOK, HandOK, OwnersOK, LastOK, NothingLost, gone,
                      NEW m \in posted \ (dropped \cup failed), NEW s \in Sinks,
                      m.level >= SinkLevels[s]
               PROVE  written[s][m] # 0
    BY DEF TypeInv, RemainingLogged
  <2>1. \A w \in Workers : hand[w] = Terminate
    BY DEF OwnersOK, HandOK
  <2>2. \A k \in 1..Len(Held) : Held[k] = Terminate
    BY <2>1, WorkersAssumption DEF LastOK
  <2>3. m \in LogMsgs /\ m # Terminate
    BY MessageFacts DEF TypeOK
  <2> QED BY <2>1, <2>2, <2>3 DEF NothingLost, Somewhere
<1> HIDE DEF Kept
<1> QED BY <1>1, <1>2, <1>3, AsyncTypes, PTL DEF Spec

-----------------------------------------------------------------------------
(* Nothing is written twice. *)

(* A step that posts nothing, and gives no thread a log message, keeps the  *)
(* numbers of the messages.                                                 *)
LEMMA CountedKept ==
  ASSUME CountedOK, UNCHANGED <<posted, calls>>,
         \A t \in Threads : pc'[t] \in {"post", "full"} /\ todo'[t] \in LogMsgs =>
           pc[t] \in {"post", "full"} /\ todo'[t] = todo[t]
  PROVE  CountedOK'
BY DEF CountedOK

(* The call that a caller is in is its last one so far, and its message has *)
(* the number of the call: nobody posts a message that was posted before.   *)
LEMMA CountedStep ==
  ASSUME TypeOK, QueueOK, HandOK, CountedOK, [Next]_vars
  PROVE  CountedOK'
<1> USE DEF Goto
<1>0. /\ calls \in [Callers -> 0..MaxCalls] /\ posted \subseteq LogMsgs
      /\ pc \in [Threads -> {"idle", "post", "full", "notify", "release", "destroy", "flushAll",
                              "joinFlusher", "dropAll", "resetPool", "done"}]
      /\ todo \in [Threads -> Messages \cup {Nil}]
      /\ MaxCalls \in Nat
      /\ \A m \in LogMsgs : m.from \in Callers /\ m.n \in Nat
  BY BoundsAssumption DEF TypeOK, LogMsgs
<1>1. ASSUME NEW c \in Callers, NEW l \in Loggers, CallFlush(c, l) PROVE CountedOK'
  <2>1. /\ calls' = [calls EXCEPT ![c] = @ + 1] /\ posted' = posted /\ c \in Threads
    BY <1>1 DEF CallFlush, Call, queueVars, Threads
  <2>2. \A b \in Callers : calls[b] \in Nat /\ calls[b] <= calls'[b] /\ calls'[b] \in Nat
    BY <1>0, <2>1
  <2>3. \A t \in Threads : pc'[t] \in {"post", "full"} /\ todo'[t] \in LogMsgs =>
           pc[t] \in {"post", "full"} /\ todo'[t] = todo[t]
    BY <1>0, <1>1, <2>1, MessageFacts DEF CallFlush, LockPool, NoPool
  <2> QED BY <1>0, <2>1, <2>2, <2>3 DEF CountedOK
<1>2. ASSUME NEW c \in Callers, NEW l \in Loggers, NEW level \in Levels, CallLog(c, l, level)
      PROVE  CountedOK'
  <2> DEFINE m == [type |-> "log", from |-> c, n |-> calls'[c], level |-> level]
  <2>1. /\ calls' = [calls EXCEPT ![c] = @ + 1] /\ posted' = posted /\ c \in Threads
        /\ LockPool(c, l, m) \/ NoPool(c, "idle")
        /\ m \in LogMsgs /\ m.from = c /\ m.n = calls[c] + 1 /\ calls'[c] = calls[c] + 1
    BY <1>2, LoggedIsMessage DEF CallLog, Call, queueVars, Threads
  <2> HIDE DEF m
  <2>2. \A b \in Callers : calls[b] \in Nat /\ calls[b] <= calls'[b] /\ calls'[b] \in Nat
    BY <1>0, <2>1
  <2>3. m \notin posted
    BY <2>1, <2>2 DEF CountedOK
  <2>4. \A t \in Threads : pc'[t] \in {"post", "full"} /\ todo'[t] \in LogMsgs =>
           \/ pc[t] \in {"post", "full"} /\ todo'[t] = todo[t]
           \/ t = c /\ todo'[t] = m
    BY <1>0, <2>1 DEF LockPool, NoPool
  <2>5. \A k \in posted' : k.n <= calls'[k.from]
    BY <1>0, <2>1, <2>2 DEF CountedOK
  <2>6. ASSUME NEW t \in Threads, pc'[t] \in {"post", "full"}, todo'[t] \in LogMsgs
        PROVE  todo'[t].from = t /\ todo'[t] \notin posted' /\ todo'[t].n <= calls'[t]
    <3>1. CASE pc[t] \in {"post", "full"} /\ todo'[t] = todo[t]
      BY <1>0, <2>1, <2>2, <2>6, <3>1 DEF CountedOK
    <3>2. CASE t = c /\ todo'[t] = m
      BY <2>1, <2>2, <2>3, <3>2
    <3> QED BY <2>4, <2>6, <3>1, <3>2
  <2> QED BY <2>5, <2>6 DEF CountedOK
<1>3. ASSUME NEW c \in Callers, CallGetLogger(c) PROVE CountedOK'
  <2>1. /\ calls' = [calls EXCEPT ![c] = @ + 1] /\ posted' = posted /\ c \in Threads
        /\ todo' = todo /\ pc' = [pc EXCEPT ![c] = "release"]
    BY <1>3 DEF CallGetLogger, Call, queueVars, Threads
  <2>2. \A b \in Callers : calls[b] \in Nat /\ calls[b] <= calls'[b] /\ calls'[b] \in Nat
    BY <1>0, <2>1
  <2> QED BY <1>0, <2>1, <2>2 DEF CountedOK
<1>4. ASSUME NEW t \in Threads, Enqueue(t) PROVE CountedOK'
  <2>1. /\ posted' = posted \cup ({todo[t]} \cap LogMsgs) /\ UNCHANGED <<calls, todo>>
        /\ pc' = [pc EXCEPT ![t] = "notify"] /\ pc[t] = "post"
    BY <1>4 DEF Enqueue
  <2>2. todo[t] \in LogMsgs => todo[t].from = t /\ todo[t].n <= calls[t]
    BY <2>1 DEF CountedOK
  <2>3. \A m \in posted' : m.n <= calls'[m.from]
    BY <2>1, <2>2 DEF CountedOK
  <2>4. ASSUME NEW u \in Threads, pc'[u] \in {"post", "full"}, todo'[u] \in LogMsgs
        PROVE  todo'[u].from = u /\ todo'[u] \notin posted' /\ todo'[u].n <= calls'[u]
    <3>1. u # t /\ pc[u] \in {"post", "full"} /\ todo[u] \in LogMsgs
      BY <1>0, <2>1, <2>4
    <3>2. todo[u].from = u /\ todo[u] \notin posted /\ todo[u].n <= calls[u]
      BY <3>1 DEF CountedOK
    <3> QED BY <2>1, <2>2, <3>1, <3>2
  <2> QED BY <2>3, <2>4 DEF CountedOK
<1>5. ASSUME NEW t \in Threads, EnqueueWaits(t) \/ SpuriousWakeup(t) PROVE CountedOK'
  BY <1>0, <1>5, CountedKept DEF EnqueueWaits, SpuriousWakeup, queueVars
<1>6. ASSUME NEW t \in Threads, NotifyPush(t) PROVE CountedOK'
  BY <1>0, <1>6, CountedKept DEF NotifyPush, queueVars
<1>7. ASSUME NEW t \in Threads, Release(t) \/ JoinWorkers(t) PROVE CountedOK'
  BY <1>0, <1>7, CountedKept DEF Release, JoinWorkers, Returns, queueVars
<1>8. ASSUME NEW t \in Threads, PostTerminate(t) PROVE CountedOK'
  BY <1>0, <1>8, CountedKept, MessageFacts DEF PostTerminate, queueVars
<1>9. ASSUME NEW w \in Workers, NotifyPop(w) PROVE CountedOK'
  BY <1>0, <1>9, CountedKept DEF NotifyPop, queueVars
<1>10. ASSUME NEW w \in Workers, Timeout(w) \/ DequeueWaits(w) \/ Dequeue(w) \/ BackendLog(w) \/ BackendFlush(w)
       PROVE  CountedOK'
  BY <1>10, CountedKept DEF Timeout, DequeueWaits, Dequeue, BackendLog, BackendFlush, queueVars, threadVars
<1>11. ASSUME NEW l \in Loggers, FlushAll(l) PROVE CountedOK'
  BY <1>0, <1>11, CountedKept, MessageFacts DEF FlushAll, LockPool, NoPool, queueVars
<1>12. CASE Tick \/ FlushAllReturns \/ FlusherExits
  BY <1>0, <1>12, CountedKept DEF Tick, FlushAllReturns, FlusherExits, queueVars
<1>13. CASE Shutdown
  BY <1>0, <1>13, CountedKept DEF Shutdown, StopFlusher, JoinFlusher, DropAll, ResetPool, queueVars
<1>14. CASE Over \/ UNCHANGED vars
  BY <1>14, CountedKept DEF Over, vars, queueVars, threadVars
<1> QED
  BY <1>1, <1>2, <1>3, <1>4, <1>5, <1>6, <1>7, <1>8, <1>9, <1>10, <1>11, <1>12, <1>13, <1>14
  DEF Next, ThreadStep, WorkerStep, FlusherStep

(* A message moves from the thread that posts it into the queue, from there *)
(* into one hand, and from the hand to the sinks.                           *)
LEMMA OnePlaceStep ==
  ASSUME TypeOK, QueueOK, HandOK, CountedOK, OnePlace, WrittenOnce, [Next]_vars
  PROVE  OnePlace' /\ WrittenOnce'
<1> DEFINE Still(m) == m \in posted' \ dropped' /\ \A s \in Sinks : written'[s][m] = 0
<1>0. /\ posted \subseteq LogMsgs /\ Nil \notin LogMsgs /\ FlushMsg \notin LogMsgs
      /\ \A s \in Sinks : written[s] \in [LogMsgs -> Nat]
      /\ hand \in [Workers -> Messages \cup {Nil}]
  BY MessageFacts DEF TypeOK
<1>1. CASE Quiet
  <2>1. Held' = Held /\ UNCHANGED <<posted, dropped, hand, written>>
    BY <1>1 DEF Quiet, Held
  <2> QED BY <2>1 DEF OnePlace, WrittenOnce, Pending
<1>2. ASSUME NEW t \in Threads, Enqueue(t) PROVE OnePlace' /\ WrittenOnce'
  <2>1. PICK d \in {0, 1} :
          /\ Len(Held) \in Nat /\ Len(Held') = Len(Held) + 1 - d
          /\ Len(Held') \in Nat \ {0}
          /\ Held'[Len(Held')] = todo[t]
          /\ \A k \in 1..Len(Held') : k # Len(Held') =>
               k + d \in 1..Len(Held) /\ Held'[k] = Held[k + d]
          /\ d = 0 => dropped' = dropped
          /\ d = 1 => Held # <<>> /\ dropped' = dropped \cup ({Held[1]} \cap LogMsgs)
    BY <1>2, EnqueuePlaces
  <2>2. UNCHANGED <<hand, written>> /\ posted' = posted \cup ({todo[t]} \cap LogMsgs)
    BY <1>2 DEF Enqueue, workerVars
  <2>3. d = 1 => 1 \in 1..Len(Held)
    BY <2>1 DEF QueueOK
  <2>4. todo[t] \in LogMsgs => todo[t] \notin posted
    BY <1>2 DEF Enqueue, CountedOK
  <2>5. /\ dropped \subseteq posted
        /\ \A k \in 1..Len(Held) : Held[k] \in LogMsgs => Held[k] \in posted \ dropped
        /\ \A w \in Workers : hand[w] \in LogMsgs => hand[w] \in posted \ dropped
    BY DEF OnePlace, Pending
  <2>6. dropped' \subseteq posted /\ dropped' \subseteq posted'
    BY <2>1, <2>2, <2>3, <2>5
  <2>7. ASSUME NEW m \in LogMsgs, m \in posted \ dropped, d = 1 => m # Held[1],
               \A s \in Sinks : written[s][m] = 0
        PROVE  Still(m)
    BY <2>1, <2>2, <2>7 DEF Pending
  <2>8. todo[t] \in LogMsgs => Still(todo[t])
    <3>1. \A s \in Sinks : todo[t] \in LogMsgs => written[s][todo[t]] = 0
      BY <1>0, <2>4 DEF WrittenOnce
    <3> QED BY <2>2, <2>4, <2>6, <3>1 DEF Pending
  <2>9. ASSUME NEW k \in 1..Len(Held'), Held'[k] \in LogMsgs PROVE Still(Held'[k])
    <3>1. CASE k = Len(Held')
      BY <2>1, <2>2, <2>8, <2>9, <3>1 DEF Pending
    <3>2. CASE k # Len(Held')
      <4>1. k + d \in 1..Len(Held) /\ Held'[k] = Held[k + d] /\ (d = 1 => k + d # 1)
        BY <2>1, <3>2
      <4>2. Held[k + d] \in LogMsgs /\ Pending(Held[k + d])
        BY <2>9, <4>1 DEF OnePlace
      <4>3. d = 1 => Held[k + d] # Held[1]
        BY <2>3, <4>1, <4>2 DEF OnePlace
      <4> QED BY <2>7, <4>1, <4>2, <4>3 DEF Pending
    <3> QED BY <3>1, <3>2
  <2>10. ASSUME NEW w \in Workers, hand'[w] \in LogMsgs PROVE Still(hand'[w])
    <3>1. hand[w] \in LogMsgs /\ Pending(hand[w]) /\ (d = 1 => hand[w] # Held[1])
      BY <2>2, <2>3, <2>10 DEF OnePlace
    <3> QED BY <2>2, <2>7, <3>1 DEF Pending
  <2>11. ASSUME NEW i \in 1..Len(Held'), NEW j \in 1..Len(Held'), i # j, Held'[i] \in LogMsgs
         PROVE  Held'[i] # Held'[j]
    <3>1. CASE i # Len(Held') /\ j # Len(Held')
      <4>1. /\ i + d \in 1..Len(Held) /\ j + d \in 1..Len(Held) /\ i + d # j + d
            /\ Held'[i] = Held[i + d] /\ Held'[j] = Held[j + d]
        BY <2>1, <2>11, <3>1
      <4> QED BY <2>11, <4>1 DEF OnePlace
    <3>2. ASSUME NEW k \in 1..Len(Held'), k # Len(Held'), Held'[k] \in LogMsgs
          PROVE  Held'[k] # todo[t]
      <4>1. k + d \in 1..Len(Held) /\ Held'[k] = Held[k + d]
        BY <2>1, <3>2
      <4> QED BY <2>4, <2>5, <3>2, <4>1
    <3>3. CASE i = Len(Held')
      BY <2>1, <2>11, <3>2, <3>3
    <3>4. CASE j = Len(Held') /\ i # Len(Held')
      BY <2>1, <2>11, <3>2, <3>4
    <3> QED BY <3>1, <3>3, <3>4
  <2>12. ASSUME NEW w \in Workers, NEW k \in 1..Len(Held'), hand'[w] \in LogMsgs
         PROVE  hand'[w] # Held'[k]
    <3>1. CASE k = Len(Held')
      BY <2>1, <2>2, <2>4, <2>5, <2>12, <3>1
    <3>2. CASE k # Len(Held')
      <4>1. k + d \in 1..Len(Held) /\ Held'[k] = Held[k + d]
        BY <2>1, <3>2
      <4> QED BY <2>2, <2>12, <4>1 DEF OnePlace
    <3> QED BY <3>1, <3>2
  <2>13. OnePlace'
    <3>1. \A v, w \in Workers : v # w /\ hand'[v] \in LogMsgs => hand'[v] # hand'[w]
      BY <2>2 DEF OnePlace
    <3> QED BY <2>6, <2>9, <2>10, <2>11, <2>12, <3>1 DEF OnePlace, Pending
  <2>14. ASSUME NEW s \in Sinks, NEW m \in LogMsgs
         PROVE  written'[s][m] <= IF m \in posted' \ dropped' THEN 1 ELSE 0
    <3>1. written'[s][m] = written[s][m] /\ written[s][m] \in Nat
          /\ written[s][m] <= IF m \in posted \ dropped THEN 1 ELSE 0
      BY <1>0, <2>2 DEF WrittenOnce
    <3>2. CASE m \in posted \ dropped /\ m \notin posted' \ dropped'
      <4>1. d = 1 /\ m = Held[1]
        BY <2>1, <2>2, <3>2
      <4>2. written[s][m] = 0
        BY <2>3, <4>1 DEF OnePlace, Pending
      <4> QED BY <3>1, <4>2
    <3>3. CASE m \notin posted \ dropped \/ m \in posted' \ dropped'
      BY <3>1, <3>3
    <3> QED BY <3>2, <3>3
  <2> QED BY <2>13, <2>14 DEF WrittenOnce
<1>3. ASSUME NEW w \in Workers, Dequeue(w) PROVE OnePlace' /\ WrittenOnce'
  <2>1. /\ Len(Held) \in Nat \ {0} /\ Len(Held') = Len(Held) - 1
        /\ \A k \in 1..Len(Held') : k + 1 \in 1..Len(Held) /\ Held'[k] = Held[k + 1]
        /\ 1 \in 1..Len(Held)
        /\ hand' = [hand EXCEPT ![w] = Held[1]]
        /\ UNCHANGED <<posted, dropped, written>>
    BY <1>3, DequeuePlaces
  <2>2. WrittenOnce'
    BY <2>1 DEF WrittenOnce
  <2>3. \A k \in 1..Len(Held') : Held'[k] \in LogMsgs => Still(Held'[k])
    BY <2>1 DEF OnePlace, Pending
  <2>4. \A v \in Workers : hand'[v] \in LogMsgs => Still(hand'[v])
    BY <1>0, <2>1 DEF OnePlace, Pending
  <2>5. \A i, j \in 1..Len(Held') : i # j /\ Held'[i] \in LogMsgs => Held'[i] # Held'[j]
    BY <2>1 DEF OnePlace
  <2>6. ASSUME NEW v \in Workers, NEW k \in 1..Len(Held'), hand'[v] \in LogMsgs
        PROVE  hand'[v] # Held'[k]
    <3>1. k + 1 \in 1..Len(Held) /\ Held'[k] = Held[k + 1] /\ k + 1 # 1
      BY <2>1
    <3>2. CASE v = w
      BY <1>0, <2>1, <2>6, <3>1, <3>2 DEF OnePlace
    <3>3. CASE v # w
      BY <1>0, <2>1, <2>6, <3>1, <3>3 DEF OnePlace
    <3> QED BY <3>2, <3>3
  <2>7. \A u, v \in Workers : u # v /\ hand'[u] \in LogMsgs => hand'[u] # hand'[v]
    BY <1>0, <2>1 DEF OnePlace
  <2>8. OnePlace'
    BY <2>1, <2>3, <2>4, <2>5, <2>6, <2>7 DEF OnePlace, Pending
  <2> QED BY <2>2, <2>8
<1>4. ASSUME NEW w \in Workers, BackendLog(w) PROVE OnePlace' /\ WrittenOnce'
  <2>1. /\ Held' = Held /\ UNCHANGED <<posted, dropped>>
        /\ hand' = [hand EXCEPT ![w] = Nil] /\ hand[w] \in LogMsgs
    BY <1>4 DEF BackendLog, queueVars, Held, HandOK
  <2>2. Pending(hand[w])
    BY <2>1 DEF OnePlace
  <2>3. ASSUME NEW s \in Sinks
        PROVE  /\ \A m \in LogMsgs : m # hand[w] => written'[s][m] = written[s][m]
               /\ written'[s][hand[w]] <= 1
    <3>1. written'[s] = [written[s] EXCEPT ![hand[w]] = @ + 1] \/ written'[s] = written[s]
      BY <1>4 DEF BackendLog
    <3>2. written[s][hand[w]] = 0 /\ written[s] \in [LogMsgs -> Nat]
      BY <1>0, <2>2 DEF Pending
    <3> QED BY <2>1, <3>1, <3>2
  <2>4. WrittenOnce'
    <3>1. hand[w] \in posted \ dropped
      BY <2>2 DEF Pending
    <3> QED BY <2>1, <2>3, <3>1 DEF WrittenOnce
  <2>5. \A m \in LogMsgs : Pending(m) /\ m # hand[w] => Still(m)
    BY <2>1, <2>3 DEF Pending
  <2>6. \A k \in 1..Len(Held') : Held'[k] \in LogMsgs => Still(Held'[k])
    <3>1. \A k \in 1..Len(Held) : Held[k] \in LogMsgs => Pending(Held[k]) /\ Held[k] # hand[w]
      BY <2>1 DEF OnePlace
    <3> QED BY <2>1, <2>5, <3>1 DEF Pending
  <2>7. \A v \in Workers : hand'[v] \in LogMsgs => Still(hand'[v])
    <3>1. \A v \in Workers : hand'[v] \in LogMsgs =>
             hand'[v] = hand[v] /\ Pending(hand[v]) /\ hand[v] # hand[w]
      BY <1>0, <2>1 DEF OnePlace
    <3> QED BY <2>5, <3>1 DEF Pending
  <2>8. OnePlace'
    BY <1>0, <2>1, <2>6, <2>7 DEF OnePlace, Pending
  <2> QED BY <2>4, <2>8
<1>5. ASSUME NEW w \in Workers, BackendFlush(w) PROVE OnePlace' /\ WrittenOnce'
  <2>1. /\ Held' = Held /\ UNCHANGED <<posted, dropped, written>>
        /\ hand' = [hand EXCEPT ![w] = Nil]
    BY <1>5 DEF BackendFlush, queueVars, Held
  <2> QED BY <1>0, <2>1 DEF OnePlace, WrittenOnce, Pending
<1> QED BY <1>1, <1>2, <1>3, <1>4, <1>5, Effects

(* No sink writes a message twice, or one that nobody posted or that an     *)
(* overrun gave up: a message has a number of its own, is in one place, and *)
(* has not been written while it is in the queue or in a hand.              *)
THEOREM NothingTwice == Spec => []WrittenOnce
<1>1. Init => CountedOK /\ OnePlace /\ WrittenOnce
  <2> SUFFICES ASSUME Init PROVE CountedOK /\ OnePlace /\ WrittenOnce
    OBVIOUS
  <2>1. /\ Held = <<>> /\ posted = {} /\ dropped = {} /\ hand = [w \in Workers |-> Nil]
        /\ pc = [t \in Threads |-> "idle"]
        /\ written = [s \in Sinks |-> [m \in LogMsgs |-> 0]]
    BY InitHeld DEF Init
  <2>2. CountedOK
    BY <2>1 DEF CountedOK
  <2>3. OnePlace
    BY <2>1, MessageFacts DEF OnePlace
  <2>4. WrittenOnce
    BY <2>1 DEF WrittenOnce
  <2> QED BY <2>2, <2>3, <2>4
<1>2. TypeInv /\ CountedOK /\ OnePlace /\ WrittenOnce /\ [Next]_vars
        => CountedOK' /\ OnePlace' /\ WrittenOnce'
  BY CountedStep, OnePlaceStep DEF TypeInv
<1> QED BY <1>1, <1>2, AsyncTypes, PTL DEF Spec

-----------------------------------------------------------------------------
(* The notifications, counted. *)

(* Only a blocking logger, or the destructor, waits for room. *)
FullBlocks == \A t \in Threads : pc[t] = "full" => policy[t] = "block"

(* A set that has lost one element at most, and one that has grown. *)
LEMMA OneFewer ==
  ASSUME NEW S, NEW T, NEW x, IsFiniteSet(T), S \ {x} \subseteq T
  PROVE  /\ Cardinality(S) \in Nat /\ Cardinality(T) \in Nat
         /\ Cardinality(S) <= Cardinality(T) + 1
<1>a. Cardinality(T) \in Nat
  BY FS_CardinalityType
<1>b. /\ IsFiniteSet(T \cup {x})
      /\ Cardinality(T \cup {x}) = IF x \in T THEN Cardinality(T) ELSE Cardinality(T) + 1
  BY FS_AddElement
<1>1. IsFiniteSet(T \cup {x}) /\ Cardinality(T \cup {x}) <= Cardinality(T) + 1
  BY <1>a, <1>b
<1>2. S \in SUBSET (T \cup {x})
  OBVIOUS
<1>3. IsFiniteSet(S) /\ Cardinality(S) <= Cardinality(T \cup {x})
  BY <1>1, <1>2, FS_Subset
<1>4. Cardinality(S) \in Nat /\ Cardinality(T \cup {x}) \in Nat
  BY <1>1, <1>3, FS_CardinalityType
<1> QED BY <1>1, <1>3, <1>4, <1>a

LEMMA OneMore ==
  ASSUME NEW S, NEW T, NEW x, IsFiniteSet(T), S \subseteq T, x \in T, x \notin S
  PROVE  /\ Cardinality(S) \in Nat /\ Cardinality(T) \in Nat
         /\ Cardinality(S) + 1 <= Cardinality(T)
<1>1. IsFiniteSet(T \ {x}) /\ Cardinality(T \ {x}) = Cardinality(T) - 1
  BY FS_RemoveElement
<1>2. S \in SUBSET (T \ {x})
  OBVIOUS
<1>3. IsFiniteSet(S) /\ Cardinality(S) <= Cardinality(T \ {x})
  BY <1>1, <1>2, FS_Subset
<1> QED BY <1>1, <1>3, FS_CardinalityType

LEMMA NoFewer ==
  ASSUME NEW S, NEW T, IsFiniteSet(T), S \subseteq T
  PROVE  /\ Cardinality(S) \in Nat /\ Cardinality(T) \in Nat
         /\ Cardinality(S) <= Cardinality(T)
<1>1. S \in SUBSET T
  OBVIOUS
<1> QED BY <1>1, FS_Subset, FS_CardinalityType

(* There are finitely many of those who notify and of those who are awake.  *)
LEMMA Finite ==
  /\ IsFiniteSet(Popped) /\ IsFiniteSet(Pushed)
  /\ IsFiniteSet(WillPush) /\ IsFiniteSet(WillPop)
  /\ IsFiniteSet(Popped') /\ IsFiniteSet(Pushed')
  /\ IsFiniteSet(WillPush') /\ IsFiniteSet(WillPop')
<1>1. IsFiniteSet(Callers \cup {Main}) /\ IsFiniteSet((Callers \cup {Main}) \cup {Flusher})
  BY ThreadsAssumption, FS_AddElement
<1>2. Threads = (Callers \cup {Main}) \cup {Flusher}
  BY DEF Threads
<1>3. IsFiniteSet(Threads) /\ IsFiniteSet(Workers)
  BY <1>1, <1>2, WorkersAssumption
<1>4. /\ Popped \in SUBSET Workers /\ WillPop \in SUBSET Workers
      /\ Pushed \in SUBSET Threads /\ WillPush \in SUBSET Threads
  BY DEF Popped, Pushed, WillPush, WillPop
<1>5. /\ Popped' \in SUBSET Workers /\ WillPop' \in SUBSET Workers
      /\ Pushed' \in SUBSET Threads /\ WillPush' \in SUBSET Threads
  BY DEF Popped, Pushed, WillPush, WillPop
<1> QED BY <1>3, <1>4, <1>5, FS_Subset

(* How many messages the queue holds after a push and after a pop. *)
LEMMA SizeMoves ==
  ASSUME TypeOK, QueueOK
  PROVE  /\ Size(q) \in 0..MaxItems
         /\ empty(q) <=> Size(q) = 0
         /\ full(q) <=> Size(q) = MaxItems
         /\ \A t \in Threads : Enqueue(t) =>
              IF full(q) THEN Size(q)' = Size(q) ELSE Size(q)' = Size(q) + 1
         /\ \A w \in Workers : Dequeue(w) => Size(q)' = Size(q) - 1
<1>1. q \in QueueOf(Messages \cup {Nil}) /\ Held \in Seq(Messages)
  BY DEF TypeOK, QueueOK
<1>2. /\ Size(q) \in 0..MaxItems /\ Len(Held) = Size(q)
      /\ empty(q) <=> Size(q) = 0
      /\ full(q) <=> Size(q) = MaxItems
  BY <1>1, ContentsType, EmptyAndFull DEF Held
<1>3. ASSUME NEW t \in Threads, Enqueue(t)
      PROVE  IF full(q) THEN Size(q)' = Size(q) ELSE Size(q)' = Size(q) + 1
  <2>1. q' \in QueueOf(Messages \cup {Nil}) /\ Held' \in Seq(Messages)
    BY <1>3, EnqueueHeld
  <2>2. Len(Held') = Size(q')
    BY <2>1, ContentsType DEF Held
  <2>3. Len(Held') = IF Len(Held) < MaxItems THEN Len(Held) + 1 ELSE Len(Held)
    BY <1>1, <1>3, EnqueueHeld, MaxItemsAssumption
  <2> QED BY <1>2, <2>2, <2>3, MaxItemsAssumption
<1>4. ASSUME NEW w \in Workers, Dequeue(w) PROVE Size(q)' = Size(q) - 1
  <2>1. q' \in QueueOf(Messages \cup {Nil}) /\ Held # <<>> /\ Held' = Tail(Held)
    BY <1>4, DequeueHeld
  <2>2. Len(Held') = Size(q')
    BY <2>1, ContentsType DEF Held
  <2> QED BY <1>1, <1>2, <2>1, <2>2
<1> QED BY <1>2, <1>3, <1>4

(* The labels that a thread leaves and reaches in its other steps. *)
Calm ==
  /\ q' = q
  /\ \A t \in Threads :
       /\ pc[t] \in {"post", "notify"} => pc'[t] = pc[t] /\ policy'[t] = policy[t]
       /\ pc'[t] = "full" => pc[t] = "full" /\ policy'[t] = policy[t]
  /\ \A w \in Workers :
       /\ wpc[w] \in {"get", "notify"} => wpc'[w] = wpc[w]
       /\ wpc'[w] = "wait" => wpc[w] = "wait"

(* No step but these six moves a message, begins to wait or notifies. *)
LEMMA CalmStep ==
  ASSUME TypeOK, [Next]_vars
  PROVE  \/ Calm
         \/ \E t \in Threads : EnqueueWaits(t) \/ Enqueue(t) \/ NotifyPush(t)
         \/ \E w \in Workers : DequeueWaits(w) \/ Dequeue(w) \/ NotifyPop(w)
<1> USE DEF Goto, WGoto
<1>0. /\ pc \in [Threads -> {"idle", "post", "full", "notify", "release", "destroy", "flushAll",
                              "joinFlusher", "dropAll", "resetPool", "done"}]
      /\ policy \in [Threads -> {"block", "overrun_oldest"}]
      /\ wpc \in [Workers -> {"get", "wait", "notify", "log", "flush", "done"}]
      /\ Callers \subseteq Threads /\ Main \in Threads /\ Flusher \in Threads
  BY DEF TypeOK, Threads
<1>1. ASSUME NEW t \in Threads, NEW l, NEW msg, NEW label \in {"idle", "flushAll"},
             pc[t] \in {"idle", "flushAll"}, LockPool(t, l, msg) \/ NoPool(t, label),
             UNCHANGED <<q, wpc>>
      PROVE  Calm
  BY <1>0, <1>1 DEF LockPool, NoPool, Calm
<1>2. ASSUME NEW c \in Callers, NEW l \in Loggers, CallFlush(c, l) PROVE Calm
  <2>1. /\ pc[c] = "idle" /\ UNCHANGED <<q, wpc>>
        /\ LockPool(c, l, FlushMsg) \/ NoPool(c, "idle")
    BY <1>2 DEF CallFlush, Call, queueVars, workerVars
  <2> QED BY <1>0, <1>1, <2>1
<1>3. ASSUME NEW c \in Callers, NEW l \in Loggers, NEW level \in Levels, CallLog(c, l, level)
      PROVE  Calm
  <2>1. /\ pc[c] = "idle" /\ UNCHANGED <<q, wpc>>
        /\ \/ LockPool(c, l, [type |-> "log", from |-> c, n |-> calls'[c], level |-> level])
           \/ NoPool(c, "idle")
    BY <1>3 DEF CallLog, Call, queueVars, workerVars
  <2> QED BY <1>0, <1>1, <2>1
<1>4. ASSUME NEW c \in Callers, CallGetLogger(c) PROVE Calm
  BY <1>0, <1>4 DEF CallGetLogger, Call, Calm, queueVars, workerVars
<1>5. ASSUME NEW t \in Threads, Release(t) \/ PostTerminate(t) \/ JoinWorkers(t) \/ SpuriousWakeup(t)
      PROVE  Calm
  BY <1>0, <1>5 DEF Release, PostTerminate, JoinWorkers, SpuriousWakeup, Returns, Calm,
                    queueVars, workerVars
<1>6. ASSUME NEW w \in Workers, BackendLog(w) \/ BackendFlush(w) \/ Timeout(w) PROVE Calm
  BY <1>0, <1>6 DEF BackendLog, BackendFlush, Timeout, Calm, queueVars, threadVars
<1>7. ASSUME NEW l \in Loggers, FlushAll(l) PROVE Calm
  <2>1. /\ pc[Flusher] = "flushAll" /\ UNCHANGED <<q, wpc>>
        /\ LockPool(Flusher, l, FlushMsg) \/ NoPool(Flusher, "flushAll")
    BY <1>7 DEF FlushAll, queueVars, workerVars
  <2> QED BY <1>0, <1>1, <2>1
<1>8. CASE Tick \/ FlushAllReturns \/ FlusherExits
  BY <1>0, <1>8 DEF Tick, FlushAllReturns, FlusherExits, Calm, queueVars, workerVars
<1>9. CASE Shutdown
  BY <1>0, <1>9 DEF Shutdown, StopFlusher, JoinFlusher, DropAll, ResetPool, Calm, queueVars, workerVars
<1>10. CASE Over \/ UNCHANGED vars
  BY <1>0, <1>10 DEF Over, Calm, vars, queueVars, threadVars, workerVars
<1> QED
  BY <1>2, <1>3, <1>4, <1>5, <1>6, <1>7, <1>8, <1>9, <1>10
  DEF Next, ThreadStep, WorkerStep, FlusherStep

(* The types of the counters. *)
LEMMA CountTypes ==
  /\ Cardinality(Popped) \in Nat /\ Cardinality(Pushed) \in Nat
  /\ Cardinality(WillPush) \in Nat /\ Cardinality(WillPop) \in Nat
  /\ Cardinality(Popped') \in Nat /\ Cardinality(Pushed') \in Nat
  /\ Cardinality(WillPush') \in Nat /\ Cardinality(WillPop') \in Nat
BY Finite, FS_CardinalityType

(* A slot becomes free when a worker takes a message, who will notify; and  *)
(* the notification, or a wait that ends, makes a thread that will push.    *)
LEMMA RoomStep ==
  ASSUME TypeOK, QueueOK, FullBlocks, RoomIsTold, [Next]_vars
  PROVE  FullBlocks' /\ RoomIsTold'
<1> USE DEF Goto, WGoto
<1>0. /\ pc \in [Threads -> {"idle", "post", "full", "notify", "release", "destroy", "flushAll",
                              "joinFlusher", "dropAll", "resetPool", "done"}]
      /\ policy \in [Threads -> {"block", "overrun_oldest"}]
      /\ wpc \in [Workers -> {"get", "wait", "notify", "log", "flush", "done"}]
  BY DEF TypeOK
<1>s. Size(q) \in 0..MaxItems /\ MaxItems \in Nat
  BY SizeMoves, MaxItemsAssumption
(* Nobody who will see to a slot stops doing so, and nobody begins to wait. *)
<1>k. ASSUME Size(q)' = Size(q), Popped \subseteq Popped', WillPush \subseteq WillPush',
             \A t \in Threads : pc'[t] = "full" => pc[t] = "full"
      PROVE  RoomIsTold'
  <2>1. /\ Cardinality(Popped) <= Cardinality(Popped')
        /\ Cardinality(WillPush) <= Cardinality(WillPush')
    BY <1>k, Finite, NoFewer
  <2> QED BY <1>s, <1>k, <2>1, CountTypes DEF RoomIsTold
<1>1. CASE Calm
  <2>1. FullBlocks'
    BY <1>1 DEF Calm, FullBlocks
  <2>2. Popped \subseteq Popped' /\ WillPush \subseteq WillPush' /\ Size(q)' = Size(q)
    BY <1>1 DEF Calm, Popped, WillPush
  <2>3. \A t \in Threads : pc'[t] = "full" => pc[t] = "full"
    BY <1>1 DEF Calm
  <2> QED BY <1>k, <2>1, <2>2, <2>3
<1>2. ASSUME NEW t \in Threads, EnqueueWaits(t) PROVE FullBlocks' /\ RoomIsTold'
  <2>1. /\ pc' = [pc EXCEPT ![t] = "full"] /\ policy' = policy /\ policy[t] = "block"
        /\ q' = q /\ full(q)
    BY <1>2 DEF EnqueueWaits, queueVars
  <2>2. FullBlocks'
    BY <1>0, <2>1 DEF FullBlocks
  <2>3. Size(q)' = MaxItems
    BY <2>1, SizeMoves
  <2> QED BY <1>s, <2>2, <2>3, CountTypes DEF RoomIsTold
<1>3. ASSUME NEW t \in Threads, Enqueue(t) PROVE FullBlocks' /\ RoomIsTold'
  <2>1. /\ pc' = [pc EXCEPT ![t] = "notify"] /\ policy' = policy /\ wpc' = wpc /\ pc[t] = "post"
        /\ policy[t] = "block" => ~full(q)
    BY <1>3 DEF Enqueue, workerVars
  <2>2. FullBlocks' /\ \A u \in Threads : pc'[u] = "full" => pc[u] = "full"
    BY <1>0, <2>1 DEF FullBlocks
  <2>3. Popped' = Popped /\ WillPush \ {t} \subseteq WillPush'
    BY <1>0, <2>1 DEF Popped, WillPush
  <2>4. CASE full(q)
    <3>1. t \notin WillPush
      BY <2>1, <2>4 DEF WillPush
    <3>2. Size(q)' = Size(q)
      BY <1>3, <2>4, SizeMoves
    <3> QED BY <1>k, <2>2, <2>3, <3>1, <3>2
  <2>5. CASE ~full(q)
    <3>1. Size(q)' = Size(q) + 1
      BY <1>3, <2>5, SizeMoves
    <3>2. Cardinality(WillPush) <= Cardinality(WillPush') + 1
      BY <2>3, Finite, OneFewer
    <3> QED BY <1>s, <2>2, <2>3, <3>1, <3>2, CountTypes DEF RoomIsTold
  <2> QED BY <2>4, <2>5
<1>4. ASSUME NEW t \in Threads, NotifyPush(t) PROVE FullBlocks' /\ RoomIsTold'
  <2>1. /\ pc[t] = "notify" /\ q' = q
        /\ pc' = [pc EXCEPT ![t] = IF todo[t] = Terminate THEN "destroy" ELSE "release"]
        /\ policy' = [policy EXCEPT ![t] = "block"]
    BY <1>4 DEF NotifyPush, queueVars
  <2>2. \A w \in Workers : wpc[w] = "notify" => wpc'[w] = "notify"
    BY <1>0, <1>4 DEF NotifyPush, NotifyOne
  <2>3. FullBlocks' /\ \A u \in Threads : pc'[u] = "full" => pc[u] = "full"
    BY <1>0, <2>1 DEF FullBlocks
  <2>4. Popped \subseteq Popped' /\ WillPush \subseteq WillPush' /\ Size(q)' = Size(q)
    BY <1>0, <2>1, <2>2 DEF Popped, WillPush
  <2> QED BY <1>k, <2>3, <2>4
<1>5. ASSUME NEW w \in Workers, DequeueWaits(w) PROVE FullBlocks' /\ RoomIsTold'
  <2>1. /\ wpc[w] = "get" /\ wpc' = [wpc EXCEPT ![w] = "wait"]
        /\ UNCHANGED <<q, pc, policy>>
    BY <1>5 DEF DequeueWaits, queueVars, threadVars
  <2>2. Popped \subseteq Popped' /\ WillPush \subseteq WillPush' /\ Size(q)' = Size(q)
    BY <1>0, <2>1 DEF Popped, WillPush
  <2> QED BY <1>k, <2>1, <2>2 DEF FullBlocks
<1>6. ASSUME NEW w \in Workers, Dequeue(w) PROVE FullBlocks' /\ RoomIsTold'
  <2>1. /\ wpc[w] = "get" /\ wpc' = [wpc EXCEPT ![w] = "notify"]
        /\ UNCHANGED <<pc, policy>>
    BY <1>6 DEF Dequeue, threadVars
  <2>2. FullBlocks' /\ WillPush' = WillPush
    BY <2>1 DEF FullBlocks, WillPush
  <2>3. Popped \subseteq Popped' /\ w \in Popped' /\ w \notin Popped
    BY <1>0, <2>1 DEF Popped
  <2>4. Cardinality(Popped) + 1 <= Cardinality(Popped')
    BY <2>3, Finite, OneMore
  <2>5. Size(q)' = Size(q) - 1
    BY <1>6, SizeMoves
  <2> QED BY <1>s, <2>1, <2>2, <2>4, <2>5, CountTypes DEF RoomIsTold
<1>7. ASSUME NEW w \in Workers, NotifyPop(w) PROVE FullBlocks' /\ RoomIsTold'
  <2>1. /\ wpc[w] = "notify" /\ UNCHANGED <<q, policy>>
        /\ \A v \in Workers \ {w} : wpc'[v] = wpc[v]
        /\ IF \E t \in Threads : pc[t] = "full"
           THEN \E t \in Threads : pc[t] = "full" /\ pc' = [pc EXCEPT ![t] = "post"]
           ELSE pc' = pc
    BY <1>0, <1>7 DEF NotifyPop, queueVars
  <2>2. Popped \ {w} \subseteq Popped'
    BY <2>1 DEF Popped
  <2>3. Cardinality(Popped) <= Cardinality(Popped') + 1
    BY <2>2, Finite, OneFewer
  <2>4. ASSUME NEW t \in Threads, pc[t] = "full", pc' = [pc EXCEPT ![t] = "post"]
        PROVE  FullBlocks' /\ RoomIsTold'
    <3>1. FullBlocks'
      BY <1>0, <2>1, <2>4 DEF FullBlocks
    <3>2. WillPush \subseteq WillPush' /\ t \in WillPush' /\ t \notin WillPush
      BY <1>0, <2>1, <2>4 DEF FullBlocks, WillPush
    <3>3. Cardinality(WillPush) + 1 <= Cardinality(WillPush')
      BY <3>2, Finite, OneMore
    <3>4. Size(q)' = Size(q)
      BY <2>1
    <3> QED BY <1>s, <2>3, <2>4, <3>1, <3>3, <3>4, CountTypes DEF RoomIsTold
  <2>5. CASE ~\E t \in Threads : pc[t] = "full"
    BY <2>1, <2>5 DEF FullBlocks, RoomIsTold
  <2> QED BY <2>1, <2>4, <2>5
<1> QED BY <1>1, <1>2, <1>3, <1>4, <1>5, <1>6, <1>7, CalmStep

(* A message comes from a thread that will notify; and the notification, or *)
(* a wait that times out, makes a worker that will pop.                     *)
LEMMA MessagesStep ==
  ASSUME TypeOK, QueueOK, MessagesAreTold, [Next]_vars
  PROVE  MessagesAreTold'
<1> USE DEF Goto, WGoto
<1>0. /\ pc \in [Threads -> {"idle", "post", "full", "notify", "release", "destroy", "flushAll",
                              "joinFlusher", "dropAll", "resetPool", "done"}]
      /\ wpc \in [Workers -> {"get", "wait", "notify", "log", "flush", "done"}]
  BY DEF TypeOK
<1>s. Size(q) \in Nat
  BY SizeMoves, MaxItemsAssumption
(* Nobody who will see to a message stops doing so, and nobody begins to    *)
(* wait.                                                                    *)
<1>k. ASSUME Size(q)' = Size(q), Pushed \subseteq Pushed', WillPop \subseteq WillPop',
             \A w \in Workers : wpc'[w] = "wait" => wpc[w] = "wait"
      PROVE  MessagesAreTold'
  <2>1. /\ Cardinality(Pushed) <= Cardinality(Pushed')
        /\ Cardinality(WillPop) <= Cardinality(WillPop')
    BY <1>k, Finite, NoFewer
  <2> QED BY <1>s, <1>k, <2>1, CountTypes DEF MessagesAreTold
<1>1. CASE Calm
  <2>1. Pushed \subseteq Pushed' /\ WillPop \subseteq WillPop' /\ Size(q)' = Size(q)
    BY <1>1 DEF Calm, Pushed, WillPop
  <2>2. \A w \in Workers : wpc'[w] = "wait" => wpc[w] = "wait"
    BY <1>1 DEF Calm
  <2> QED BY <1>k, <2>1, <2>2
<1>2. ASSUME NEW t \in Threads, EnqueueWaits(t) PROVE MessagesAreTold'
  <2>1. /\ pc[t] = "post" /\ pc' = [pc EXCEPT ![t] = "full"] /\ UNCHANGED <<q, wpc>>
    BY <1>2 DEF EnqueueWaits, queueVars, workerVars
  <2>2. Pushed \subseteq Pushed' /\ WillPop \subseteq WillPop' /\ Size(q)' = Size(q)
    BY <1>0, <2>1 DEF Pushed, WillPop
  <2> QED BY <1>k, <2>1, <2>2
<1>3. ASSUME NEW t \in Threads, Enqueue(t) PROVE MessagesAreTold'
  <2>1. pc[t] = "post" /\ pc' = [pc EXCEPT ![t] = "notify"] /\ wpc' = wpc
    BY <1>3 DEF Enqueue, workerVars
  <2>2. Pushed \subseteq Pushed' /\ t \in Pushed' /\ t \notin Pushed /\ WillPop' = WillPop
    BY <1>0, <2>1 DEF Pushed, WillPop
  <2>3. Cardinality(Pushed) + 1 <= Cardinality(Pushed')
    BY <2>2, Finite, OneMore
  <2>4. Size(q)' = Size(q) \/ Size(q)' = Size(q) + 1
    BY <1>3, SizeMoves
  <2> QED BY <1>s, <2>1, <2>2, <2>3, <2>4, CountTypes DEF MessagesAreTold
<1>4. ASSUME NEW t \in Threads, NotifyPush(t) PROVE MessagesAreTold'
  <2>1. /\ \A u \in Threads \ {t} : pc'[u] = pc[u]
        /\ Size(q)' = Size(q)
        /\ IF \E w \in Workers : wpc[w] = "wait"
           THEN \E w \in Workers : wpc[w] = "wait" /\ wpc' = [wpc EXCEPT ![w] = "get"]
           ELSE wpc' = wpc
    BY <1>0, <1>4 DEF NotifyPush, NotifyOne, queueVars
  <2>2. Pushed \ {t} \subseteq Pushed'
    BY <2>1 DEF Pushed
  <2>3. Cardinality(Pushed) <= Cardinality(Pushed') + 1
    BY <2>2, Finite, OneFewer
  <2>4. ASSUME NEW w \in Workers, wpc[w] = "wait", wpc' = [wpc EXCEPT ![w] = "get"]
        PROVE  MessagesAreTold'
    <3>1. WillPop \subseteq WillPop' /\ w \in WillPop' /\ w \notin WillPop
      BY <1>0, <2>4 DEF WillPop
    <3>2. Cardinality(WillPop) + 1 <= Cardinality(WillPop')
      BY <3>1, Finite, OneMore
    <3> QED BY <1>s, <2>1, <2>3, <2>4, <3>2, CountTypes DEF MessagesAreTold
  <2>5. CASE ~\E w \in Workers : wpc[w] = "wait"
    BY <2>1, <2>5 DEF MessagesAreTold
  <2> QED BY <2>1, <2>4, <2>5
<1>5. ASSUME NEW w \in Workers, DequeueWaits(w) PROVE MessagesAreTold'
  <2>1. q' = q /\ empty(q)
    BY <1>5 DEF DequeueWaits, queueVars
  <2>2. Size(q)' = 0
    BY <2>1, SizeMoves
  <2> QED BY <2>2, CountTypes DEF MessagesAreTold
<1>6. ASSUME NEW w \in Workers, Dequeue(w) PROVE MessagesAreTold'
  <2>1. wpc' = [wpc EXCEPT ![w] = "notify"] /\ pc' = pc
    BY <1>6 DEF Dequeue, threadVars
  <2>2. /\ WillPop \ {w} \subseteq WillPop' /\ Pushed' = Pushed
        /\ \A v \in Workers : wpc'[v] = "wait" => wpc[v] = "wait"
    BY <1>0, <2>1 DEF WillPop, Pushed
  <2>3. Cardinality(WillPop) <= Cardinality(WillPop') + 1
    BY <2>2, Finite, OneFewer
  <2>4. Size(q)' = Size(q) - 1
    BY <1>6, SizeMoves
  <2> QED BY <1>s, <2>2, <2>3, <2>4, CountTypes DEF MessagesAreTold
<1>7. ASSUME NEW w \in Workers, NotifyPop(w) PROVE MessagesAreTold'
  <2>1. /\ wpc[w] = "notify" /\ Size(q)' = Size(q)
        /\ wpc'[w] # "wait" /\ \A v \in Workers \ {w} : wpc'[v] = wpc[v]
        /\ \A t \in Threads : pc[t] = "notify" => pc'[t] = "notify"
    BY <1>0, <1>7 DEF NotifyPop, queueVars
  <2>2. Pushed \subseteq Pushed' /\ WillPop \subseteq WillPop'
    BY <2>1 DEF Pushed, WillPop
  <2>3. \A v \in Workers : wpc'[v] = "wait" => wpc[v] = "wait"
    BY <2>1
  <2> QED BY <1>k, <2>1, <2>2, <2>3
<1> QED BY <1>1, <1>2, <1>3, <1>4, <1>5, <1>6, <1>7, CalmStep

(* No notification is lost, although each is sent after the mutex has been  *)
(* given up, and wakes one thread only: while anybody waits, each free slot *)
(* and each message has somebody awake who will see to it.                  *)
THEOREM WakeupsSuffice == Spec => []NoLostWakeup
<1>1. Init => FullBlocks /\ NoLostWakeup
  <2> SUFFICES ASSUME Init PROVE FullBlocks /\ NoLostWakeup
    OBVIOUS
  <2>1. pc = [t \in Threads |-> "idle"] /\ wpc = [w \in Workers |-> "get"]
    BY DEF Init
  <2> QED BY <2>1 DEF FullBlocks, NoLostWakeup, RoomIsTold, MessagesAreTold
<1>2. TypeInv /\ FullBlocks /\ NoLostWakeup /\ [Next]_vars => FullBlocks' /\ NoLostWakeup'
  BY RoomStep, MessagesStep DEF TypeInv, NoLostWakeup
<1> QED BY <1>1, <1>2, AsyncTypes, PTL DEF Spec

-----------------------------------------------------------------------------
(* The terminate messages, counted. *)

(* The workers that have taken one, and the thread that is posting one. *)
Told == {w \in Workers : hand[w] = Terminate}
BeingPosted == {t \in Threads : pc[t] \in {"post", "full"} /\ todo[t] = Terminate}

(* The last n messages of the queue are the terminate messages that are     *)
(* still to be taken.                                                       *)
LeftToTake(n) ==
  /\ \A k \in 1..Len(Held) : Held[k] = Terminate <=> k > Len(Held) - n
  /\ term = n + Cardinality(Told) + Cardinality(BeingPosted)

(* Every terminate message that the destructor has begun to post is being   *)
(* posted, in the queue or in the hand of a worker of its own: none is      *)
(* overrun, and none is taken by a worker that has one.                     *)
TermsAreKept ==
  /\ \E n \in 0..Len(Held) : LeftToTake(n)
  /\ \A t \in BeingPosted : policy[t] = "block"

(* The destructor's join waits for no worker that nobody will tell: when    *)
(* all terminate messages have been posted, as many of them are left in the *)
(* queue as there are workers that have not taken one, whoever else posted, *)
(* waited or overran before.                                                *)
EveryWorkerIsTold ==
  \A t \in Threads : pc[t] = "destroy" /\ term = Cardinality(Workers) =>
    Cardinality({k \in 1..Len(Held) : Held[k] = Terminate}) =
      Cardinality({w \in Workers : hand[w] # Terminate})

(* There are finitely many of them. *)
LEMMA FiniteTerms ==
  /\ IsFiniteSet(Told) /\ IsFiniteSet(BeingPosted)
  /\ Cardinality(Told) \in Nat /\ Cardinality(BeingPosted) \in Nat
<1>1. IsFiniteSet(Callers \cup {Main}) /\ IsFiniteSet((Callers \cup {Main}) \cup {Flusher})
  BY ThreadsAssumption, FS_AddElement
<1>2. Threads = (Callers \cup {Main}) \cup {Flusher}
  BY DEF Threads
<1>3. Told \in SUBSET Workers /\ BeingPosted \in SUBSET Threads
  BY DEF Told, BeingPosted
<1>4. IsFiniteSet(Told) /\ IsFiniteSet(BeingPosted)
  BY <1>1, <1>2, <1>3, WorkersAssumption, FS_Subset
<1> QED BY <1>4, FS_CardinalityType

(* No step but these three moves a terminate message. *)
Unmoved ==
  /\ UNCHANGED <<q, term>>
  /\ Told' = Told /\ BeingPosted' = BeingPosted
  /\ \A t \in BeingPosted : policy'[t] = policy[t]
LEMMA TermMoves ==
  ASSUME TypeOK, HandOK, [Next]_vars
  PROVE  \/ Unmoved
         \/ \E t \in Threads : Enqueue(t) \/ PostTerminate(t)
         \/ \E w \in Workers : Dequeue(w)
<1> USE DEF Goto, WGoto
<1>0. /\ pc \in [Threads -> {"idle", "post", "full", "notify", "release", "destroy", "flushAll",
                              "joinFlusher", "dropAll", "resetPool", "done"}]
      /\ todo \in [Threads -> Messages \cup {Nil}]
      /\ policy \in [Threads -> {"block", "overrun_oldest"}]
      /\ hand \in [Workers -> Messages \cup {Nil}]
      /\ Callers \subseteq Threads /\ Main \in Threads /\ Flusher \in Threads
  BY DEF TypeOK, Threads
(* A step that gives no thread another message, and no worker a message. *)
<1>k. ASSUME UNCHANGED <<q, term, hand, todo, policy>>,
             \A t \in Threads : pc'[t] \in {"post", "full"} <=> pc[t] \in {"post", "full"}
      PROVE  Unmoved
  BY <1>k DEF Unmoved, Told, BeingPosted
<1>1. ASSUME NEW t \in Threads, NEW l, NEW msg, NEW label \in {"idle", "flushAll"}, msg # Terminate,
             pc[t] \in {"idle", "flushAll"}, LockPool(t, l, msg) \/ NoPool(t, label),
             UNCHANGED <<q, term, hand>>
      PROVE  Unmoved
  BY <1>0, <1>1 DEF LockPool, NoPool, Unmoved, Told, BeingPosted
<1>2. ASSUME NEW c \in Callers, NEW l \in Loggers, CallFlush(c, l) PROVE Unmoved
  <2>1. /\ pc[c] = "idle" /\ UNCHANGED <<q, term, hand>>
        /\ LockPool(c, l, FlushMsg) \/ NoPool(c, "idle")
    BY <1>2 DEF CallFlush, Call, queueVars, workerVars
  <2> QED BY <1>0, <1>1, <2>1, MessageFacts
<1>3. ASSUME NEW c \in Callers, NEW l \in Loggers, NEW level \in Levels, CallLog(c, l, level)
      PROVE  Unmoved
  <2> DEFINE m == [type |-> "log", from |-> c, n |-> calls'[c], level |-> level]
  <2>1. /\ pc[c] = "idle" /\ UNCHANGED <<q, term, hand>>
        /\ LockPool(c, l, m) \/ NoPool(c, "idle")
    BY <1>3 DEF CallLog, Call, queueVars, workerVars
  <2>2. m # Terminate
    BY <1>3, LoggedIsMessage, MessageFacts
  <2> HIDE DEF m
  <2> QED BY <1>0, <1>1, <2>1, <2>2
<1>4. ASSUME NEW c \in Callers, CallGetLogger(c) PROVE Unmoved
  BY <1>0, <1>4, <1>k DEF CallGetLogger, Call, queueVars, workerVars
<1>5. ASSUME NEW t \in Threads, EnqueueWaits(t) \/ SpuriousWakeup(t) PROVE Unmoved
  BY <1>0, <1>5, <1>k DEF EnqueueWaits, SpuriousWakeup, queueVars, workerVars
<1>6. ASSUME NEW t \in Threads, Release(t) \/ JoinWorkers(t) PROVE Unmoved
  BY <1>0, <1>6, <1>k DEF Release, JoinWorkers, Returns, queueVars, workerVars
<1>7. ASSUME NEW t \in Threads, NotifyPush(t) PROVE Unmoved
  BY <1>0, <1>7 DEF NotifyPush, Unmoved, Told, BeingPosted, queueVars
<1>8. ASSUME NEW w \in Workers, NotifyPop(w) PROVE Unmoved
  BY <1>0, <1>8, <1>k DEF NotifyPop, queueVars
<1>9. ASSUME NEW w \in Workers, DequeueWaits(w) \/ Timeout(w) PROVE Unmoved
  BY <1>9, <1>k DEF DequeueWaits, Timeout, queueVars, threadVars
<1>10. ASSUME NEW w \in Workers, BackendLog(w) \/ BackendFlush(w) PROVE Unmoved
  <2>1. /\ hand' = [hand EXCEPT ![w] = Nil] /\ UNCHANGED <<q, term, todo, policy, pc>>
        /\ wpc[w] \in {"log", "flush"}
    BY <1>10 DEF BackendLog, BackendFlush, queueVars, threadVars
  <2>2. hand[w] # Terminate
    BY <2>1, MessageFacts DEF HandOK
  <2>3. Told' = Told
    BY <1>0, <2>1, <2>2, MessageFacts DEF Told
  <2> QED BY <2>1, <2>3 DEF Unmoved, BeingPosted
<1>11. ASSUME NEW l \in Loggers, FlushAll(l) PROVE Unmoved
  <2>1. /\ pc[Flusher] = "flushAll" /\ UNCHANGED <<q, term, hand>>
        /\ LockPool(Flusher, l, FlushMsg) \/ NoPool(Flusher, "flushAll")
    BY <1>11 DEF FlushAll, queueVars, workerVars
  <2> QED BY <1>0, <1>1, <2>1, MessageFacts
<1>12. CASE Tick \/ FlushAllReturns \/ FlusherExits
  BY <1>0, <1>12, <1>k DEF Tick, FlushAllReturns, FlusherExits, queueVars, workerVars
<1>13. CASE Shutdown
  BY <1>0, <1>13, <1>k DEF Shutdown, StopFlusher, JoinFlusher, DropAll, ResetPool, queueVars, workerVars
<1>14. CASE Over \/ UNCHANGED vars
  BY <1>14, <1>k DEF Over, vars, queueVars, threadVars, workerVars
<1> QED
  BY <1>2, <1>3, <1>4, <1>5, <1>6, <1>7, <1>8, <1>9, <1>10, <1>11, <1>12, <1>13, <1>14
  DEF Next, ThreadStep, WorkerStep, FlusherStep

(* The destructor posts behind everything else and waits for room; a worker *)
(* that takes a terminate message had nothing in its hand.                  *)
LEMMA TermStep ==
  ASSUME TypeOK, QueueOK, HandOK, OwnersOK, TermsAreKept, [Next]_vars
  PROVE  TermsAreKept'
<1>0. /\ Len(Held) \in Nat /\ term \in Nat
      /\ pc \in [Threads -> {"idle", "post", "full", "notify", "release", "destroy", "flushAll",
                              "joinFlusher", "dropAll", "resetPool", "done"}]
      /\ todo \in [Threads -> Messages \cup {Nil}]
      /\ policy \in [Threads -> {"block", "overrun_oldest"}]
  BY TermIsNat DEF TypeOK, QueueOK
<1>1. PICK n \in 0..Len(Held) : LeftToTake(n)
  BY DEF TermsAreKept
<1>2. CASE Unmoved
  <2>1. Held' = Held /\ LeftToTake(n)'
    BY <1>1, <1>2 DEF Unmoved, Held, LeftToTake
  <2>2. \A t \in BeingPosted' : policy'[t] = "block"
    BY <1>2 DEF Unmoved, TermsAreKept
  <2> QED BY <2>1, <2>2 DEF TermsAreKept
<1>3. ASSUME NEW t \in Threads, Enqueue(t) PROVE TermsAreKept'
  <2>1. /\ pc[t] = "post" /\ pc' = [pc EXCEPT ![t] = "notify"]
        /\ UNCHANGED <<todo, policy, hand, term>> /\ (policy[t] = "block" => ~full(q))
    BY <1>3 DEF Enqueue, Goto, workerVars
  <2>2. BeingPosted' = BeingPosted \ {t} /\ Told' = Told
    BY <1>0, <2>1 DEF BeingPosted, Told
  <2>3. \A u \in BeingPosted' : policy'[u] = "block"
    BY <2>1, <2>2 DEF TermsAreKept
  <2>4. CASE todo[t] = Terminate
    <3>1. t \in BeingPosted /\ ~full(q)
      BY <2>1, <2>4 DEF BeingPosted, TermsAreKept
    <3>2. Cardinality(BeingPosted') = Cardinality(BeingPosted) - 1
      BY <2>2, <3>1, FiniteTerms, FS_RemoveElement
    <3>3. Held \in Seq(Messages) /\ Terminate \in Messages /\ Held' = Append(Held, Terminate)
      BY <1>3, <2>4, <3>1, EnqueueHeld, HeldFacts, MessageFacts
    <3>4. /\ Len(Held') = Len(Held) + 1 /\ Held'[Len(Held) + 1] = Terminate
          /\ \A k \in 1..Len(Held) : Held'[k] = Held[k]
      BY <3>3, AppendPlaces
    <3>5. \A k \in 1..Len(Held') : Held'[k] = Terminate <=> k > Len(Held') - (n + 1)
      BY <1>0, <1>1, <3>4 DEF LeftToTake
    <3>6. term' = (n + 1) + Cardinality(Told') + Cardinality(BeingPosted')
      BY <1>0, <1>1, <2>1, <2>2, <3>2, FiniteTerms DEF LeftToTake
    <3>7. n + 1 \in 0..Len(Held')
      BY <1>0, <3>4
    <3> QED BY <2>3, <3>5, <3>6, <3>7 DEF TermsAreKept, LeftToTake
  <2>5. CASE todo[t] # Terminate
    <3>1. term = 0
      BY <2>1, <2>5 DEF OwnersOK, Posting
    <3>2. n = 0 /\ Cardinality(Told) = 0 /\ Cardinality(BeingPosted) = 0
      BY <1>0, <1>1, <3>1, FiniteTerms DEF LeftToTake
    <3>3. t \notin BeingPosted
      BY <2>5 DEF BeingPosted
    <3>4. \A k \in 1..Len(Held) : Held[k] # Terminate
      BY <1>0, <1>1, <3>2 DEF LeftToTake
    <3>5. PICK d \in {0, 1} :
            /\ Len(Held') \in Nat \ {0} /\ Held'[Len(Held')] = todo[t]
            /\ \A k \in 1..Len(Held') : k # Len(Held') =>
                 k + d \in 1..Len(Held) /\ Held'[k] = Held[k + d]
      BY <1>3, EnqueuePlaces
    <3>6. \A k \in 1..Len(Held') : Held'[k] # Terminate
      BY <2>5, <3>4, <3>5
    <3>7. BeingPosted' = BeingPosted /\ Told' = Told /\ term' = term
      BY <2>1, <2>2, <3>3
    <3>8. term' = 0 + Cardinality(Told') + Cardinality(BeingPosted')
      BY <3>1, <3>2, <3>7
    <3>9. \A k \in 1..Len(Held') : Held'[k] = Terminate <=> k > Len(Held') - 0
      BY <3>5, <3>6
    <3>10. 0 \in 0..Len(Held')
      BY <3>5
    <3> QED BY <2>3, <3>8, <3>9, <3>10 DEF TermsAreKept, LeftToTake
  <2> QED BY <2>4, <2>5
<1>4. ASSUME NEW t \in Threads, PostTerminate(t) PROVE TermsAreKept'
  <2>1. /\ pc[t] = "destroy" /\ pc' = [pc EXCEPT ![t] = "post"]
        /\ todo' = [todo EXCEPT ![t] = Terminate] /\ policy' = [policy EXCEPT ![t] = "block"]
        /\ UNCHANGED <<q, hand>> /\ term' = term + 1
    BY <1>4 DEF PostTerminate, Goto, queueVars, workerVars
  <2>2. BeingPosted' = BeingPosted \cup {t} /\ Told' = Told /\ t \notin BeingPosted /\ Held' = Held
    BY <1>0, <2>1 DEF BeingPosted, Told, Held
  <2>3. \A u \in BeingPosted' : policy'[u] = "block"
    BY <1>0, <2>1, <2>2 DEF TermsAreKept, BeingPosted
  <2>4. Cardinality(BeingPosted') = Cardinality(BeingPosted) + 1
    BY <2>2, FiniteTerms, FS_AddElement
  <2>5. LeftToTake(n)'
    BY <1>0, <1>1, <2>1, <2>2, <2>4, FiniteTerms DEF LeftToTake
  <2> QED BY <2>2, <2>3, <2>5 DEF TermsAreKept
<1>5. ASSUME NEW w \in Workers, Dequeue(w) PROVE TermsAreKept'
  <2>1. /\ Len(Held) \in Nat \ {0} /\ Len(Held') = Len(Held) - 1
        /\ \A k \in 1..Len(Held') : k + 1 \in 1..Len(Held) /\ Held'[k] = Held[k + 1]
        /\ hand' = [hand EXCEPT ![w] = Held[1]]
        /\ hand \in [Workers -> Messages \cup {Nil}] /\ hand[w] = Nil /\ term' = term
    BY <1>5, DequeuePlaces
  <2>2. BeingPosted' = BeingPosted /\ \A t \in BeingPosted' : policy'[t] = "block"
    BY <1>5 DEF Dequeue, threadVars, BeingPosted, TermsAreKept
  <2>3. Held[1] = Terminate <=> 1 > Len(Held) - n
    BY <1>1, <2>1 DEF LeftToTake
  <2>4. CASE Held[1] = Terminate
    <3>1. Told' = Told \cup {w} /\ w \notin Told
      BY <2>1, <2>4, MessageFacts DEF Told
    <3>2. Cardinality(Told') = Cardinality(Told) + 1
      BY <3>1, FiniteTerms, FS_AddElement
    <3>3. n = Len(Held) /\ n - 1 \in 0..Len(Held')
      BY <2>1, <2>3, <2>4
    <3>4. \A k \in 1..Len(Held') : Held'[k] = Terminate <=> k > Len(Held') - (n - 1)
      BY <1>1, <2>1, <3>3 DEF LeftToTake
    <3>5. term' = (n - 1) + Cardinality(Told') + Cardinality(BeingPosted')
      BY <1>0, <1>1, <2>1, <2>2, <3>2, FiniteTerms DEF LeftToTake
    <3> QED BY <2>2, <3>3, <3>4, <3>5 DEF TermsAreKept, LeftToTake
  <2>5. CASE Held[1] # Terminate
    <3>1. Told' = Told
      BY <2>1, <2>5, MessageFacts DEF Told
    <3>2. n \in 0..Len(Held')
      BY <2>1, <2>3, <2>5
    <3>3. \A k \in 1..Len(Held') : Held'[k] = Terminate <=> k > Len(Held') - n
      BY <1>1, <2>1 DEF LeftToTake
    <3>4. term' = n + Cardinality(Told') + Cardinality(BeingPosted')
      BY <1>1, <2>1, <2>2, <3>1 DEF LeftToTake
    <3> QED BY <2>2, <3>2, <3>3, <3>4 DEF TermsAreKept, LeftToTake
  <2> QED BY <2>4, <2>5
<1> QED BY <1>2, <1>3, <1>4, <1>5, TermMoves

(* The destructor's join waits for no worker that nobody will tell: no      *)
(* overrun gives up a terminate message, since whoever overruns owns the    *)
(* pool, and no worker takes a second one.                                  *)
THEOREM NobodyIsForgotten == Spec => []EveryWorkerIsTold
<1>1. Init => OwnersOK /\ TermsAreKept
  <2> SUFFICES ASSUME Init PROVE TermsAreKept
    BY InitOwners
  <2>1. /\ pc = [t \in Threads |-> "idle"] /\ hand = [w \in Workers |-> Nil] /\ term = 0
        /\ Held = <<>>
    BY InitHeld DEF Init
  <2>2. BeingPosted = {} /\ Told = {}
    BY <2>1, MessageFacts DEF BeingPosted, Told
  <2>3. LeftToTake(0) /\ 0 \in 0..Len(Held)
    BY <2>1, <2>2, FS_EmptySet DEF LeftToTake
  <2> QED BY <2>2, <2>3 DEF TermsAreKept
<1>2. TypeInv /\ OwnersOK /\ TermsAreKept /\ [Next]_vars => OwnersOK' /\ TermsAreKept'
  BY OwnersStep, TermStep DEF TypeInv
<1>3. TypeInv /\ OwnersOK /\ TermsAreKept => EveryWorkerIsTold
  <2> SUFFICES ASSUME TypeInv, OwnersOK, TermsAreKept,
                      NEW t \in Threads, pc[t] = "destroy", term = Cardinality(Workers)
               PROVE  Cardinality({k \in 1..Len(Held) : Held[k] = Terminate}) =
                        Cardinality({w \in Workers : hand[w] # Terminate})
    BY DEF EveryWorkerIsTold
  <2>0. Len(Held) \in Nat
    BY DEF TypeInv, QueueOK
  <2>1. PICK n \in 0..Len(Held) : LeftToTake(n)
    BY DEF TermsAreKept
  <2>2. BeingPosted = {}
    <3> SUFFICES ASSUME NEW u \in BeingPosted PROVE FALSE
      OBVIOUS
    <3>1. u \in Threads /\ Destroying(u) /\ Destroying(t)
      BY DEF BeingPosted, Destroying, Posting
    <3>2. u = t
      BY <3>1 DEF OwnersOK
    <3> QED BY <3>2 DEF BeingPosted
  <2>3. term = n + Cardinality(Told)
    BY <2>1, <2>2, FS_EmptySet, FiniteTerms DEF LeftToTake
  <2>4. Cardinality({w \in Workers : hand[w] # Terminate}) = Cardinality(Workers) - Cardinality(Told)
    <3>1. /\ {w \in Workers : hand[w] # Terminate} = Workers \ Told
          /\ Workers \cap Told = Told
      BY DEF Told
    <3>2. Cardinality(Workers \ Told) = Cardinality(Workers) - Cardinality(Workers \cap Told)
      BY WorkersAssumption, FS_Difference
    <3> QED BY <3>1, <3>2
  <2>5. {k \in 1..Len(Held) : Held[k] = Terminate} = (Len(Held) - n + 1)..Len(Held)
    BY <2>0, <2>1 DEF LeftToTake
  <2>6. Cardinality((Len(Held) - n + 1)..Len(Held)) = n
    <3> DEFINE a == Len(Held) - n + 1
    <3>1. /\ a \in Int /\ Len(Held) \in Int
          /\ a > Len(Held) <=> n = 0
          /\ Len(Held) - a + 1 = n
      BY <2>0
    <3> HIDE DEF a
    <3>2. Cardinality(a..Len(Held)) = IF a > Len(Held) THEN 0 ELSE Len(Held) - a + 1
      BY <3>1, FS_Interval
    <3>3. Cardinality(a..Len(Held)) = n
      BY <3>1, <3>2
    <3> QED BY <3>3 DEF a
  <2>7. Cardinality({k \in 1..Len(Held) : Held[k] = Terminate}) = n
    BY <2>5, <2>6
  <2>8. n = Cardinality(Workers) - Cardinality(Told)
    <3>1. n \in Nat /\ Cardinality(Told) \in Nat
      BY <2>0, FiniteTerms
    <3> QED BY <2>3, <3>1
  <2> QED BY <2>4, <2>7, <2>8
<1> QED BY <1>1, <1>2, <1>3, AsyncTypes, PTL DEF Spec
=============================================================================
