------------------------------ MODULE AsyncLog ------------------------------
(***************************************************************************)
(* Asynchronous logging: spdlog's async_logger, thread_pool, blocking      *)
(* queue, periodic flusher and registry::shutdown, which is what every     *)
(* class of librapid logs through (Logger::Logger makes a pool of two      *)
(* workers, getLogger makes async loggers, Logger::~Logger shuts down).    *)
(*                                                                         *)
(* A thread that logs turns its weak pointer to the pool into an owner,    *)
(* posts its message and gives the pool up again; the thread that gives it *)
(* up last runs the destructor, which posts one terminate message for each *)
(* worker and joins them.  A step is one critical section of a mutex, one  *)
(* notification, or one atomic operation on a reference count.             *)
(***************************************************************************)
EXTENDS CircularQueue, FiniteSets

CONSTANTS
  Callers,      \* threads that log
  Main,         \* the thread that runs spdlog::shutdown
  Flusher,      \* the thread of periodic_worker
  Registry,     \* not a thread: registry::tp_ as an owner of the pool
  Workers,      \* threads of the pool
  Blocking,     \* loggers whose overflow policy is block
  Overrunning,  \* loggers whose overflow policy is overrun_oldest
  Levels,       \* levels that callers log at
  LogLevel,     \* level_ of the loggers
  SinkLevels,   \* level_ of each of the sinks, which all loggers share
  Nil,          \* no message
  MaxCalls,     \* bound: calls of one caller
  MaxTicks      \* bound: times that the flusher's interval ends

Threads == Callers \cup {Main, Flusher}
Loggers == Blocking \cup Overrunning
Sinks == 1..Len(SinkLevels)

Terminate == [type |-> "terminate"]
FlushMsg == [type |-> "flush"]
LogMsgs == [type : {"log"}, from : Callers, n : 1..MaxCalls, level : Levels]
Messages == LogMsgs \cup {FlushMsg, Terminate}

ASSUME ThreadsAssumption ==
  /\ Main \notin Callers /\ Flusher \notin Callers /\ Main # Flusher
  /\ Registry \notin Threads
  /\ Nil \notin Messages
  /\ IsFiniteSet(Callers)
ASSUME WorkersAssumption == IsFiniteSet(Workers) /\ Workers # {}
ASSUME LevelsAssumption ==
  /\ Levels \subseteq Nat /\ LogLevel \in Nat
  /\ SinkLevels \in Seq(Nat)
ASSUME BoundsAssumption == MaxCalls \in Nat /\ MaxTicks \in Nat
ASSUME PoliciesAssumption == Blocking \cap Overrunning = {}

VARIABLES
  q,        \* thread_pool::q_
  owners,   \* who holds a shared_ptr to the pool
  pc,       \* where each thread is
  todo,     \* the message that each thread is posting
  policy,   \* the overflow policy it is posting with
  wpc,      \* where each worker is
  hand,     \* the message that each worker has taken
  term,     \* terminate messages posted by the destructor
  gone,     \* the pool has been destroyed
  active,   \* periodic_worker::active_
  toFlush,  \* loggers that flush_all has still to flush
  listed,   \* loggers_ of the registry
  ticks,    \* how often the flusher has woken up
  calls,    \* how many calls each caller has made
  posted,   \* log messages put into the queue
  dropped,  \* log messages given up by an overrun
  written,  \* how often each sink has written each message
  failed    \* messages for which a sink threw

queueVars == <<q, posted, dropped>>
threadVars == <<owners, pc, todo, policy, term, gone>>
workerVars == <<wpc, hand, written, failed>>
flusherVars == <<active, toFlush, listed, ticks>>
vars == <<queueVars, threadVars, workerVars, flusherVars, calls>>

Init ==
  /\ q = EmptyQueue(Nil)
  /\ owners = {Registry}
  /\ pc = [t \in Threads |-> "idle"]
  /\ todo = [t \in Threads |-> Nil]
  /\ policy = [t \in Threads |-> "block"]
  /\ wpc = [w \in Workers |-> "get"]
  /\ hand = [w \in Workers |-> Nil]
  /\ term = 0
  /\ gone = FALSE
  /\ active = TRUE
  /\ toFlush = {}
  /\ listed = Loggers
  /\ ticks = 0
  /\ calls = [c \in Callers |-> 0]
  /\ posted = {} /\ dropped = {}
  /\ written = [s \in Sinks |-> [m \in LogMsgs |-> 0]]
  /\ failed = {}

Goto(t, label) == pc' = [pc EXCEPT ![t] = label]
WGoto(w, label) == wpc' = [wpc EXCEPT ![w] = label]

PolicyOf(l) == IF l \in Blocking THEN "block" ELSE "overrun_oldest"

-----------------------------------------------------------------------------
(* The caller keeps a bare pointer to the pool instead. *)
UsePool(t, l, msg) ==
  /\ owners # {}
  /\ todo' = [todo EXCEPT ![t] = msg]
  /\ policy' = [policy EXCEPT ![t] = PolicyOf(l)]
  /\ Goto(t, "post")
  /\ UNCHANGED owners

(* thread_pool_.lock() makes t an owner of the pool, if there is one, and t *)
(* goes on to post the message ...                                          *)
LockPool(t, l, msg) ==
  /\ owners # {}
  /\ owners' = owners \cup {t}
  /\ todo' = [todo EXCEPT ![t] = msg]
  /\ policy' = [policy EXCEPT ![t] = PolicyOf(l)]
  /\ Goto(t, "post")

(* ... or fails, and the spdlog_ex ends in the logger's error handler.      *)
NoPool(t, label) ==
  /\ owners = {}
  /\ Goto(t, label)
  /\ UNCHANGED <<owners, todo, policy>>

Call(c) ==
  /\ pc[c] = "idle"
  /\ calls[c] < MaxCalls
  /\ calls' = [calls EXCEPT ![c] = @ + 1]
  /\ UNCHANGED <<queueVars, workerVars, flusherVars, term, gone>>

(* logger::log, enabled by its level; a call that is filtered, or whose     *)
(* format throws, leaves no trace.                                          *)
CallLog(c, l, level) ==
  /\ Call(c)
  /\ level >= LogLevel
  /\ \/ LockPool(c, l, [type |-> "log", from |-> c, n |-> calls'[c], level |-> level])
     \/ NoPool(c, "idle")

(* logger::flush. *)
CallFlush(c, l) == Call(c) /\ (LockPool(c, l, FlushMsg) \/ NoPool(c, "idle"))

(* getLogger makes a logger: spdlog::thread_pool() is an owner until the    *)
(* logger's weak pointer has been made from it.                             *)
CallGetLogger(c) ==
  /\ Call(c)
  /\ Registry \in owners
  /\ owners' = owners \cup {c}
  /\ Goto(c, "release")
  /\ UNCHANGED <<todo, policy>>

-----------------------------------------------------------------------------
(* post_async_msg_: enqueue waits on pop_cv_ while the queue is full ...    *)
EnqueueWaits(t) ==
  /\ pc[t] = "post"
  /\ policy[t] = "block" /\ full(q)
  /\ Goto(t, "full")
  /\ UNCHANGED <<queueVars, owners, todo, policy, term, gone, workerVars, flusherVars, calls>>

(* ... and then pushes; enqueue_nowait pushes at once. *)
Enqueue(t) ==
  /\ pc[t] = "post"
  /\ policy[t] = "block" => ~full(q)
  /\ q' = push_back(q, todo[t])
  /\ posted' = posted \cup ({todo[t]} \cap LogMsgs)
  /\ dropped' = IF full(q) THEN dropped \cup ({front(q)} \cap LogMsgs) ELSE dropped
  /\ Goto(t, "notify")
  /\ UNCHANGED <<owners, todo, policy, term, gone, workerVars, flusherVars, calls>>

(* A wait that ends though nobody has notified. *)
SpuriousWakeup(t) ==
  /\ pc[t] = "full"
  /\ Goto(t, "post")
  /\ UNCHANGED <<queueVars, owners, todo, policy, term, gone, workerVars, flusherVars, calls>>

(* push_cv_.notify_one() wakes one waiting worker, if there is one.         *)
NotifyOne(waiting) ==
  IF \E w \in Workers : wpc[w] = waiting
  THEN \E w \in Workers : wpc[w] = waiting /\ WGoto(w, "get")
  ELSE UNCHANGED wpc

(* The notification is forgotten. *)
NotifyPushForgotten(t) ==
  /\ pc[t] = "notify"
  /\ Goto(t, IF todo[t] = Terminate THEN "destroy" ELSE "release")
  /\ todo' = [todo EXCEPT ![t] = Nil]
  /\ policy' = [policy EXCEPT ![t] = "block"]
  /\ UNCHANGED <<queueVars, owners, term, gone, workerVars, flusherVars, calls>>

(* Only the first message of an empty queue is notified. *)
NotifyPushIfFirst(t) ==
  /\ pc[t] = "notify"
  /\ IF Size(q) > 1 THEN UNCHANGED wpc ELSE NotifyOne("wait")
  /\ Goto(t, IF todo[t] = Terminate THEN "destroy" ELSE "release")
  /\ todo' = [todo EXCEPT ![t] = Nil]
  /\ policy' = [policy EXCEPT ![t] = "block"]
  /\ UNCHANGED <<queueVars, owners, term, gone, hand, written, failed, flusherVars, calls>>

NotifyPush(t) ==
  /\ pc[t] = "notify"
  /\ NotifyOne("wait")
  /\ Goto(t, IF todo[t] = Terminate THEN "destroy" ELSE "release")
  /\ todo' = [todo EXCEPT ![t] = Nil]
  /\ policy' = [policy EXCEPT ![t] = "block"]
  /\ UNCHANGED <<queueVars, owners, term, gone, hand, written, failed, flusherVars, calls>>

(* Where a thread goes on when it has given up the pool. *)
Returns(t) == CASE t = Main -> "done"
                [] t = Flusher -> "flushAll"
                [] OTHER -> "idle"

(* pool_ptr goes out of scope; the last owner destroys the pool. *)
Release(t) ==
  /\ pc[t] = "release"
  /\ owners' = owners \ {t}
  /\ Goto(t, IF owners' = {} THEN "destroy" ELSE Returns(t))
  /\ UNCHANGED <<queueVars, todo, policy, term, gone, workerVars, flusherVars, calls>>

(* ~thread_pool: a terminate message for each worker, with policy block ... *)
PostTerminate(t) ==
  /\ pc[t] = "destroy"
  /\ term < Cardinality(Workers)
  /\ term' = term + 1
  /\ todo' = [todo EXCEPT ![t] = Terminate]
  /\ policy' = [policy EXCEPT ![t] = "block"]
  /\ Goto(t, "post")
  /\ UNCHANGED <<queueVars, owners, gone, workerVars, flusherVars, calls>>

(* ... then every worker is joined.                                         *)
JoinWorkers(t) ==
  /\ pc[t] = "destroy"
  /\ term = Cardinality(Workers)
  /\ \A w \in Workers : wpc[w] = "done"
  /\ gone' = TRUE
  /\ Goto(t, Returns(t))
  /\ UNCHANGED <<queueVars, owners, todo, policy, term, workerVars, flusherVars, calls>>

-----------------------------------------------------------------------------
(* dequeue_for: an empty queue is waited for on push_cv_ ... *)
DequeueWaits(w) ==
  /\ wpc[w] = "get"
  /\ empty(q)
  /\ WGoto(w, "wait")
  /\ UNCHANGED <<queueVars, threadVars, hand, written, failed, flusherVars, calls>>

(* ... for ten seconds at most. *)
Timeout(w) ==
  /\ wpc[w] = "wait"
  /\ WGoto(w, "get")
  /\ UNCHANGED <<queueVars, threadVars, hand, written, failed, flusherVars, calls>>

(* The message is taken and stays in the queue until the worker is back. *)
DequeueCopies(w) ==
  /\ wpc[w] = "get"
  /\ ~empty(q)
  /\ hand' = [hand EXCEPT ![w] = front(q)]
  /\ q' = IF front(q) = Terminate THEN pop_front(q, Nil) ELSE q
  /\ WGoto(w, "notify")
  /\ UNCHANGED <<posted, dropped, threadVars, written, failed, flusherVars, calls>>

Dequeue(w) ==
  /\ wpc[w] = "get"
  /\ ~empty(q)
  /\ hand' = [hand EXCEPT ![w] = front(q)]
  /\ q' = pop_front(q, Nil)
  /\ WGoto(w, "notify")
  /\ UNCHANGED <<posted, dropped, threadVars, written, failed, flusherVars, calls>>

(* The notification is forgotten. *)
NotifyPopForgotten(w) ==
  /\ wpc[w] = "notify"
  /\ WGoto(w, CASE hand[w] = FlushMsg -> "flush"
                [] hand[w] = Terminate -> "done"
                [] OTHER -> "log")
  /\ UNCHANGED <<queueVars, threadVars, hand, written, failed, flusherVars, calls>>

(* A worker stops at the first message that it takes after the destructor   *)
(* has begun.                                                               *)
NotifyPopStops(w) ==
  /\ wpc[w] = "notify"
  /\ IF \E t \in Threads : pc[t] = "full"
     THEN \E t \in Threads : pc[t] = "full" /\ Goto(t, "post")
     ELSE UNCHANGED pc
  /\ WGoto(w, CASE term > 0 -> "done"
                [] term = 0 /\ hand[w] = FlushMsg -> "flush"
                [] OTHER -> "log")
  /\ UNCHANGED <<queueVars, owners, todo, policy, term, gone, hand, written, failed,
                 flusherVars, calls>>

(* pop_cv_.notify_one() wakes one waiting thread; then process_next_msg_    *)
(* looks at the type of the message.                                        *)
NotifyPop(w) ==
  /\ wpc[w] = "notify"
  /\ IF \E t \in Threads : pc[t] = "full"
     THEN \E t \in Threads : pc[t] = "full" /\ Goto(t, "post")
     ELSE UNCHANGED pc
  /\ WGoto(w, CASE hand[w] = FlushMsg -> "flush"
                [] hand[w] = Terminate -> "done"
                [] OTHER -> "log")
  /\ UNCHANGED <<queueVars, owners, todo, policy, term, gone, hand, written, failed,
                 flusherVars, calls>>

(* backend_log_: the message goes to one sink after the other, each of      *)
(* which takes the messages of its level; one that throws takes it from     *)
(* those after it, and the error handler is called.  The sinks have locks   *)
(* of their own and nothing here depends on how far the other worker is:    *)
(* the calls are one step.  The flush that may follow writes nothing new.   *)
BackendLog(w) ==
  LET m == hand[w] IN
  /\ wpc[w] = "log"
  /\ \E n \in 0..Len(SinkLevels) :
       /\ written' = [s \in Sinks |->
            IF s <= n /\ m.level >= SinkLevels[s]
            THEN [written[s] EXCEPT ![m] = @ + 1] ELSE written[s]]
       /\ \/ n = Len(SinkLevels) /\ UNCHANGED failed
          \/ n + 1 \in Sinks /\ m.level >= SinkLevels[n + 1] /\ failed' = failed \cup {m}
  /\ hand' = [hand EXCEPT ![w] = Nil]
  /\ WGoto(w, "get")
  /\ UNCHANGED <<queueVars, threadVars, flusherVars, calls>>

(* backend_flush_: every sink is flushed, or one throws and the error       *)
(* handler is called.                                                       *)
BackendFlush(w) ==
  /\ wpc[w] = "flush"
  /\ hand' = [hand EXCEPT ![w] = Nil]
  /\ WGoto(w, "get")
  /\ UNCHANGED <<queueVars, threadVars, written, failed, flusherVars, calls>>

-----------------------------------------------------------------------------
(* periodic_worker: the interval ends while active_ is set, and flush_all   *)
(* runs; mutex_ and logger_map_mutex_ are held until it returns.            *)
Tick ==
  /\ pc[Flusher] = "idle"
  /\ active /\ ticks < MaxTicks
  /\ ticks' = ticks + 1
  /\ toFlush' = listed
  /\ Goto(Flusher, "flushAll")
  /\ UNCHANGED <<queueVars, owners, todo, policy, term, gone, workerVars, active, listed, calls>>

(* registry::flush_all flushes one logger after the other. *)
FlushAll(l) ==
  /\ pc[Flusher] = "flushAll"
  /\ l \in toFlush
  /\ toFlush' = toFlush \ {l}
  /\ LockPool(Flusher, l, FlushMsg) \/ NoPool(Flusher, "flushAll")
  /\ UNCHANGED <<queueVars, term, gone, workerVars, active, listed, ticks, calls>>

FlushAllReturns ==
  /\ pc[Flusher] = "flushAll"
  /\ toFlush = {}
  /\ Goto(Flusher, "idle")
  /\ UNCHANGED <<queueVars, owners, todo, policy, term, gone, workerVars, flusherVars, calls>>

(* The thread sees that active_ is not set and ends. *)
FlusherExits ==
  /\ pc[Flusher] = "idle"
  /\ ~active
  /\ Goto(Flusher, "done")
  /\ UNCHANGED <<queueVars, owners, todo, policy, term, gone, workerVars, flusherVars, calls>>

-----------------------------------------------------------------------------
(* spdlog::shutdown: ~periodic_worker takes mutex_, which flush_all may be  *)
(* holding, and clears active_ ...                                          *)
StopFlusher ==
  /\ pc[Main] = "idle"
  /\ pc[Flusher] = "idle"
  /\ active' = FALSE
  /\ Goto(Main, "joinFlusher")
  /\ UNCHANGED <<queueVars, owners, todo, policy, term, gone, workerVars, toFlush, listed, ticks, calls>>

JoinFlusher ==
  /\ pc[Main] = "joinFlusher"
  /\ pc[Flusher] = "done"
  /\ Goto(Main, "dropAll")
  /\ UNCHANGED <<queueVars, owners, todo, policy, term, gone, workerVars, flusherVars, calls>>

(* ... drop_all forgets the loggers ... *)
DropAll ==
  /\ pc[Main] = "dropAll"
  /\ listed' = {}
  /\ Goto(Main, "resetPool")
  /\ UNCHANGED <<queueVars, owners, todo, policy, term, gone, workerVars, active, toFlush, ticks, calls>>

(* ... and tp_.reset() gives up the pool. *)
ResetPool ==
  /\ pc[Main] = "resetPool"
  /\ owners' = owners \ {Registry}
  /\ Goto(Main, IF owners' = {} THEN "destroy" ELSE "done")
  /\ UNCHANGED <<queueVars, todo, policy, term, gone, workerVars, flusherVars, calls>>

-----------------------------------------------------------------------------
(* What a thread does by itself once it is in a call. *)
ThreadStep(t) ==
  \/ EnqueueWaits(t) \/ Enqueue(t) \/ NotifyPush(t) \/ Release(t)
  \/ PostTerminate(t) \/ JoinWorkers(t)

WorkerStep(w) ==
  \/ DequeueWaits(w) \/ Dequeue(w) \/ NotifyPop(w)
  \/ BackendLog(w) \/ BackendFlush(w)

FlusherStep == (\E l \in Loggers : FlushAll(l)) \/ FlushAllReturns \/ FlusherExits
Shutdown == StopFlusher \/ JoinFlusher \/ DropAll \/ ResetPool

(* The threads have ended that end, and the others have nothing to do.      *)
Over ==
  /\ gone /\ pc[Main] = "done"
  /\ \A c \in Callers : pc[c] = "idle" /\ calls[c] = MaxCalls
  /\ UNCHANGED vars

Next ==
  \/ \E c \in Callers : \/ \E l \in Loggers : CallFlush(c, l) \/ \E level \in Levels : CallLog(c, l, level)
                        \/ CallGetLogger(c)
  \/ \E t \in Threads : ThreadStep(t) \/ SpuriousWakeup(t)
  \/ \E w \in Workers : WorkerStep(w) \/ Timeout(w)
  \/ Tick \/ FlusherStep
  \/ Shutdown
  \/ Over

(* Threads that can run do run.  Nobody is obliged to call, no wait has to  *)
(* time out, and nothing depends on the flusher's interval.                 *)
Fairness ==
  /\ \A t \in Threads : WF_vars(ThreadStep(t))
  /\ \A w \in Workers : WF_vars(WorkerStep(w))
  /\ WF_vars(FlusherStep) /\ WF_vars(JoinFlusher \/ DropAll \/ ResetPool)

Spec == Init /\ [][Next]_vars
FairSpec == Spec /\ Fairness

-----------------------------------------------------------------------------
(* Every variable has its type. *)
TypeOK ==
  /\ q \in QueueOf(Messages \cup {Nil})
  /\ owners \subseteq Threads \cup {Registry}
  /\ pc \in [Threads -> {"idle", "post", "full", "notify", "release", "destroy", "flushAll",
                          "joinFlusher", "dropAll", "resetPool", "done"}]
  /\ todo \in [Threads -> Messages \cup {Nil}]
  /\ policy \in [Threads -> {"block", "overrun_oldest"}]
  /\ wpc \in [Workers -> {"get", "wait", "notify", "log", "flush", "done"}]
  /\ hand \in [Workers -> Messages \cup {Nil}]
  /\ term \in 0..Cardinality(Workers)
  /\ gone \in BOOLEAN /\ active \in BOOLEAN
  /\ toFlush \subseteq Loggers /\ listed \subseteq Loggers
  /\ ticks \in 0..MaxTicks
  /\ calls \in [Callers -> 0..MaxCalls]
  /\ posted \subseteq LogMsgs /\ dropped \subseteq LogMsgs /\ failed \subseteq LogMsgs
  /\ written \in [Sinks -> [LogMsgs -> Nat]]

Held == Contents(q)

(* Nobody touches the pool that does not keep it alive: a thread that is    *)
(* about to lock the queue's mutex or to notify is an owner or runs the     *)
(* destructor, and the workers have ended before the queue is destroyed.    *)
PoolOutlivesItsUsers ==
  /\ \A t \in Threads : pc[t] \in {"post", "full", "notify", "release"} =>
       t \in owners \/ todo[t] = Terminate
  /\ owners # {} => ~gone /\ term = 0
  /\ gone => \A w \in Workers : wpc[w] = "done"

(* "Upon destruction, logs all remaining messages in the queue before       *)
(* destructing": when the pool is gone each message that was posted has     *)
(* been given to every sink of its level, unless an overrun gave it up or a *)
(* sink threw.                                                              *)
RemainingLogged ==
  gone => \A m \in posted \ (dropped \cup failed), s \in Sinks :
            m.level >= SinkLevels[s] => written[s][m] # 0

(* No sink writes a message twice, or one that nobody posted or that an     *)
(* overrun gave up.                                                         *)
WrittenOnce ==
  \A s \in Sinks, m \in LogMsgs :
    written[s][m] <= IF m \in posted \ dropped THEN 1 ELSE 0

(* The queue of the pool is a bounded first-in first-out queue. *)
Fifo == INSTANCE BoundedFifo
          WITH Item <- Messages, Room <- MaxItems, queue <- Held, dropped <- q.overrun
FifoQueue == Fifo!FifoSpec

(* No notification is lost.  While a thread waits for room, every free slot *)
(* has somebody who will see to it: a worker that has taken a message and   *)
(* not notified yet, or a thread awake that is about to push.  While a      *)
(* worker waits, so has every message: a thread that has not notified yet,  *)
(* or a worker awake that is about to pop.                                  *)
Popped == {w \in Workers : wpc[w] = "notify"}
Pushed == {t \in Threads : pc[t] = "notify"}
WillPush == {t \in Threads : pc[t] = "post" /\ policy[t] = "block"}
WillPop == {w \in Workers : wpc[w] = "get"}
RoomIsTold ==
  (\E t \in Threads : pc[t] = "full") =>
    MaxItems - Size(q) <= Cardinality(Popped) + Cardinality(WillPush)
MessagesAreTold ==
  (\E w \in Workers : wpc[w] = "wait") =>
    Size(q) <= Cardinality(Pushed) + Cardinality(WillPop)
NoLostWakeup == RoomIsTold /\ MessagesAreTold

(* The wakeups are enough: shutdown, once begun, ends with all workers      *)
(* joined and the pool destroyed, and a call that waits for room returns.   *)
ShutdownCompletes == pc[Main] # "idle" ~> gone
CallsReturn == \A c \in Callers : pc[c] = "full" ~> pc[c] = "idle"
=============================================================================
