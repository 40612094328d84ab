--------------------------- MODULE EventLoopPool ---------------------------
(***************************************************************************)
(* EventLoopPool (eventlooppool.h, eventlooppool.cpp): the loops a server   *)
(* spreads its connections over, started, stopped, joined and destroyed by *)
(* one thread while the loops run.                                         *)
(*                                                                         *)
(* The module has the pool's steps; PoolSystem and TcpServer put them      *)
(* under an environment.                                                   *)
(***************************************************************************)
EXTENDS EventLoop

CONSTANT CountModulus           \* count_ is a uint32_t: 2^32 in the code

ASSUME CountAssumption == CountModulus \in Nat \ {0}

VARIABLES
  it,       \* the loop that the owner's for loop has reached
  alive     \* loops_ holds the loops; FALSE after loops_.clear()

ownerVars == <<it, alive>>

(* Where a loop's thread is between handlers, and the owner in start() and  *)
(* stop(); "serving" is between the two, "cleared" after them.              *)
LoopLabels  == {"none", "while", "poll", "for", "end"}
OwnerLabels == {"starting", "serving", "quitting", "waking", "joining", "cleared"}

OwnerTypeOK ==
  /\ it \in 0 .. NumLoops
  /\ alive \in BOOLEAN

PoolTypeOK ==
  /\ ChannelTypeOK
  /\ loopOf \in [Channels -> Loops]
  /\ LoopTypeOK
  /\ OwnerTypeOK

(* nextLoop(): the loop it returns when count_ is n, and the count_ it     *)
(* leaves behind.                                                          *)
NextLoop(n) == n % NumLoops

NextCount(n) == (n + 1) % CountModulus

-----------------------------------------------------------------------------
(* start(): every loop in turn. *)
PoolStart ==
  /\ pc[Main] = "starting"
  /\ it < NumLoops
  /\ StartLoop(it)
  /\ Goto(it, "while")
  /\ it' = it + 1
  /\ UNCHANGED <<wakeups, active, events, capacity, alive>>

PoolStarted ==
  /\ pc[Main] = "starting"
  /\ it = NumLoops
  /\ Goto(Main, "serving")
  /\ UNCHANGED <<loopVars, ownerVars>>

(* stop(): every loop is told to quit and woken, then every loop is joined, *)
(* then the loops are destroyed, their epoll descriptors with them.  On a   *)
(* pool that has been stopped before all three loops have nothing to do.    *)
PoolQuit ==
  /\ pc[Main] = "quitting"
  /\ alive /\ it < NumLoops
  /\ SetQuit(it)
  /\ Goto(Main, "waking")
  /\ UNCHANGED <<wakeups, active, events, capacity, ownerVars>>

PoolWakeup ==
  /\ pc[Main] = "waking"
  /\ Wakeup(it)
  /\ Goto(Main, "quitting")
  /\ it' = it + 1
  /\ UNCHANGED <<quit, active, events, capacity, alive>>

PoolStopped ==
  /\ pc[Main] = "quitting"
  /\ alive => it = NumLoops
  /\ Goto(Main, "joining")
  /\ it' = 0
  /\ UNCHANGED <<loopVars, alive>>

PoolJoin ==
  /\ pc[Main] = "joining"
  /\ alive /\ it < NumLoops
  /\ Joinable(it)
  /\ it' = it + 1
  /\ UNCHANGED <<pc, loopVars, alive>>

PoolClear ==
  /\ pc[Main] = "joining"
  /\ alive => it = NumLoops
  /\ Goto(Main, "cleared")
  /\ alive' = FALSE
  /\ registered' = {}
  /\ UNCHANGED <<loopVars, it, state, channelEvent, mask>>

PoolStep == PoolStart \/ PoolStarted \/ PoolQuit \/ PoolWakeup \/ PoolStopped
              \/ PoolJoin

LoopStep(l) == CheckQuit(l) \/ PollInterrupted(l) \/ HandleWakeup(l)
                 \/ EndBatch(l)

-----------------------------------------------------------------------------
(* loops_.clear() never destroys a loop whose thread still runs: join has   *)
(* seen every thread out, whatever the loops were doing when stop() came.   *)
NoLoopOutlivesPool == ~alive => \A l \in Loops : pc[l] \in {"none", "end"}
=============================================================================
