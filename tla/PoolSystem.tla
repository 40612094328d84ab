----------------------------- MODULE PoolSystem -----------------------------
(***************************************************************************)
(* EventLoopPool closed with an environment of its own: channels that were *)
(* registered before the start, whose descriptors become ready at any time *)
(* and whose handlers run to completion.                                   *)
(***************************************************************************)
EXTENDS EventLoopPool

VARIABLE pending   \* environment: the conditions of the channels' descriptors

poolVars == <<channelVars, pc, loopOf, loopVars, ownerVars, pending>>

PoolInit ==
  /\ LoopInit
  /\ pc = [t \in Threads |-> IF t = Main THEN "starting" ELSE "none"]
  /\ registered \in SUBSET Channels
  /\ state = [ch \in Channels |-> IF ch \in registered THEN "ADD" ELSE "NEW"]
  /\ channelEvent = [ch \in Channels |-> IF ch \in registered THEN READ ELSE NONE]
  /\ mask = channelEvent
  /\ it = 0
  /\ alive = TRUE
  /\ pending = [ch \in Channels |-> {}]

(* The owner decides to stop. *)
PoolBeginStop ==
  /\ pc[Main] = "serving"
  /\ Goto(Main, "quitting")
  /\ it' = 0
  /\ UNCHANGED <<loopVars, alive>>

(* A descriptor becomes readable. *)
BecomeReady(ch) ==
  /\ pending' = [pending EXCEPT ![ch] = {"IN"}]
  /\ UNCHANGED <<channelVars, pc, loopOf, loopVars, ownerVars>>

(* A handler drains its descriptor; the loop goes on to the next channel   *)
(* whether the handler returns or throws.                                  *)
RunHandler(l, ch) ==
  /\ Take(l, ch)
  /\ pending' = [pending EXCEPT ![ch] = {}]
  /\ UNCHANGED <<channelVars, pc, loopOf, ownerVars>>

PoolOwner ==
  /\ \/ (PoolStep \/ PoolBeginStop) /\ UNCHANGED channelVars
     \/ PoolClear
  /\ UNCHANGED <<loopOf, pending>>

PoolLoop(l) ==
  \/ /\ LoopStep(l) \/ Poll(l, pending)
     /\ UNCHANGED <<channelVars, loopOf, ownerVars, pending>>
  \/ \E ch \in Channels : RunHandler(l, ch)

PoolNext ==
  \/ PoolOwner
  \/ \E l \in Loops : PoolLoop(l)
  \/ \E ch \in Channels : BecomeReady(ch)

(* Every loop thread is scheduled, and so is the owner once it runs start() *)
(* or stop(); nothing makes the owner stop a pool that serves, and a signal *)
(* may interrupt epoll_wait but not every time.                             *)
PoolFairness ==
  /\ WF_poolVars(PoolOwner /\ pc[Main] # "serving")
  /\ \A l \in Loops : /\ WF_poolVars(PoolLoop(l) /\ pc[l] # "poll")
                      /\ SF_poolVars(Poll(l, pending)
                           /\ UNCHANGED <<channelVars, loopOf, ownerVars, pending>>)

PoolSpec == PoolInit /\ [][PoolNext]_poolVars /\ PoolFairness

-----------------------------------------------------------------------------
(* Properties. *)

(* EventLoopPool::stop returns: quit_ and the eventfd together get every    *)
(* loop out of epoll_wait, out of a batch and past the while test.          *)
StopCompletes == (pc[Main] = "quitting") ~> (pc[Main] = "cleared")

(* A channel that is ready in a loop that runs is handled, even if others   *)
(* are ready all the time and epoll_wait returns fewer than are ready: the  *)
(* array grows until it holds them all.                                     *)
ReadyIsHandled ==
  \A ch \in Channels :
    (ch \in registered /\ pending[ch] # {}) ~>
       (pending[ch] = {} \/ quit[loopOf[ch]])
=============================================================================
