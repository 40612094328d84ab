----------------------------- MODULE EventLoop -----------------------------
(***************************************************************************)
(* EventLoop (eventloop.h, eventloop.cpp) and EPollPoller::poll: one       *)
(* thread per loop that waits in epoll_wait and runs the handlers of the   *)
(* channels it returned, until another thread sets quit_ and writes to the *)
(* loop's eventfd.                                                         *)
(*                                                                         *)
(* A loop is a number; it also names the loop's own wakeupChannel_ in a    *)
(* batch of active channels.  The eventfd is never read, so once written   *)
(* it keeps epoll_wait from blocking for good.  Steps that run a handler   *)
(* belong to the modules that own the channels.                            *)
(***************************************************************************)
EXTENDS Channel

CONSTANTS
  NumLoops,    \* number of event loops
  Main,        \* the thread that starts and stops the loops
  InitEvents   \* EPOLL_EVENT_INIT_SIZE, what one epoll_wait can return

Loops   == 0 .. NumLoops - 1
Threads == Loops \cup {Main}

ASSUME LoopAssumption ==
  /\ NumLoops \in Nat \ {0}
  /\ InitEvents \in Nat \ {0}
  /\ Main \notin Loops
  /\ Channels \cap Threads = {}

VARIABLES
  pc,        \* where each thread is
  loopOf,    \* Channel::loop_
  quit,      \* EventLoop::quit_
  wakeups,   \* whether the loop's eventfd is readable
  active,    \* EventLoop::activeChannels_ still to be handled
  events,    \* Channel::events_, what epoll_wait reported
  capacity   \* EPollPoller::events_.size()

loopVars == <<quit, wakeups, active, events, capacity>>

LoopTypeOK ==
  /\ quit \in [Loops -> BOOLEAN]
  /\ wakeups \in [Loops -> BOOLEAN]
  /\ active \in [Loops -> SUBSET (Channels \cup Loops)]
  /\ events \in [Channels -> SUBSET Flags]
  /\ capacity \in [Loops -> Nat]

(* The EventLoop constructor; wakeupChannel_ is registered for reading from *)
(* here until the loop is destroyed.                                        *)
LoopInit ==
  /\ loopOf \in [Channels -> Loops]
  /\ quit = [l \in Loops |-> TRUE]
  /\ wakeups = [l \in Loops |-> FALSE]
  /\ active = [l \in Loops |-> {}]
  /\ events = [ch \in Channels |-> {}]
  /\ capacity = [l \in Loops |-> InitEvents]

Goto(t, label) == pc' = [pc EXCEPT ![t] = label]

-----------------------------------------------------------------------------
(* The loop thread. *)

(* while (!quit_) *)
CheckQuit(l) ==
  /\ pc[l] = "while"
  /\ Goto(l, IF quit[l] THEN "end" ELSE "poll")
  /\ UNCHANGED loopVars

(* The channels of loop l that epoll_wait can return, level-triggered, when *)
(* pending[ch] are the conditions of ch's descriptor.                       *)
Ready(l, pending) ==
  {ch \in registered : loopOf[ch] = l /\ Reported(ch, pending[ch]) # {}}
    \cup {w \in {l} : wakeups[w]}

(* The size of the event array after a poll that filled n of its entries:   *)
(* a full array is doubled.                                                 *)
ResizeForgotten(size, n) == size
Resize(size, n) == IF n = size THEN 2 * size ELSE size

(* EPollPoller::poll: epoll_wait fills at most capacity entries (which ones *)
(* is the kernel's choice when more are ready), every reported channel gets *)
(* its events_, and a full array is doubled.                                *)
Poll(l, pending) ==
  /\ pc[l] = "poll"
  /\ \E batch \in SUBSET Ready(l, pending) :
       /\ batch # {}
       /\ Cardinality(batch) <= capacity[l]
       /\ batch = Ready(l, pending) \/ Cardinality(batch) = capacity[l]
       /\ active' = [active EXCEPT ![l] = batch]
       /\ events' = [ch \in Channels |-> IF ch \in batch
                                         THEN Reported(ch, pending[ch])
                                         ELSE events[ch]]
       /\ capacity' = [capacity EXCEPT ![l] = Resize(@, Cardinality(batch))]
  /\ Goto(l, "for")
  /\ UNCHANGED <<quit, wakeups>>

(* epoll_wait returns -1 with EINTR, or 0 after INT32_MAX milliseconds:     *)
(* activeChannels_ has been cleared.                                        *)
PollInterrupted(l) ==
  /\ pc[l] = "poll"
  /\ Goto(l, "while")
  /\ active' = [active EXCEPT ![l] = {}]
  /\ UNCHANGED <<quit, wakeups, events, capacity>>

(* The for loop takes channel ch, whose handler comes next. *)
Take(l, ch) ==
  /\ pc[l] = "for"
  /\ ch \in active[l]
  /\ active' = [active EXCEPT ![l] = @ \ {ch}]
  /\ UNCHANGED <<quit, wakeups, events, capacity>>

(* handleEvent of wakeupChannel_: it has no readHandler_, nothing happens. *)
HandleWakeup(l) ==
  /\ Take(l, l)
  /\ UNCHANGED pc

(* The batch is done. *)
EndBatch(l) ==
  /\ pc[l] = "for"
  /\ active[l] = {}
  /\ Goto(l, "while")
  /\ UNCHANGED loopVars

-----------------------------------------------------------------------------
(* What the owner's thread does to a loop. *)

(* EventLoop::start: quit_ = false, then the thread runs. *)
StartLoop(l) == quit' = [quit EXCEPT ![l] = FALSE]

(* EventLoop::stop, in its two steps. *)
SetQuit(l) == quit' = [quit EXCEPT ![l] = TRUE]

WakeupForgotten(l) == UNCHANGED wakeups
Wakeup(l) == wakeups' = [wakeups EXCEPT ![l] = TRUE]

(* EventLoop::waitForEnd: join returns at once if the thread never ran. *)
Joinable(l) == pc[l] \in {"none", "end"}
=============================================================================
