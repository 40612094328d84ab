--------------------------- MODULE TcpServerProofs ---------------------------
(***************************************************************************)
(* IInv is an inductive invariant of TcpServer, for any number of loops    *)
(* and connections, and what follows from it.                              *)
(***************************************************************************)
EXTENDS TcpServerInvariant, TLAPS

-----------------------------------------------------------------------------
(* Types: what the operators keep. *)

(* nextLoop() always finds a loop, and count_ stays in its width. *)
LEMMA NextLoopType ==
  ASSUME NEW n \in Nat
  PROVE  NextLoop(n) \in Loops /\ NextCount(n) \in 0 .. CountModulus - 1
  BY LoopAssumption, CountAssumption DEF NextLoop, NextCount, Loops

(* Variables that do not change keep their types. *)
LEMMA Frames ==
  /\ ChannelTypeOK /\ UNCHANGED channelVars => ChannelTypeOK'
  /\ LoopTypeOK /\ UNCHANGED loopVars => LoopTypeOK'
  /\ OwnerTypeOK /\ UNCHANGED ownerVars => OwnerTypeOK'
  /\ TableTypeOK /\ UNCHANGED tableVars => TableTypeOK'
  /\ ConnTypeOK /\ UNCHANGED connVars => ConnTypeOK'
  /\ MainTypeOK /\ UNCHANGED mainVars => MainTypeOK'
  /\ NetTypeOK /\ UNCHANGED netVars => NetTypeOK'
  /\ PcTypeOK /\ UNCHANGED pc => PcTypeOK'
<1>1. ChannelTypeOK /\ UNCHANGED channelVars => ChannelTypeOK'
  BY DEF ChannelTypeOK, channelVars
<1>2. LoopTypeOK /\ UNCHANGED loopVars => LoopTypeOK'
  BY DEF LoopTypeOK, loopVars
<1>3. OwnerTypeOK /\ UNCHANGED ownerVars => OwnerTypeOK'
  BY DEF OwnerTypeOK, ownerVars
<1>4. TableTypeOK /\ UNCHANGED tableVars => TableTypeOK'
  BY DEF TableTypeOK, tableVars
<1>5. ConnTypeOK /\ UNCHANGED connVars => ConnTypeOK'
  BY DEF ConnTypeOK, connVars
<1>6. MainTypeOK /\ UNCHANGED mainVars => MainTypeOK'
  BY DEF MainTypeOK, mainVars
<1>7. NetTypeOK /\ UNCHANGED netVars => NetTypeOK'
  BY DEF NetTypeOK, netVars
<1>8. PcTypeOK /\ UNCHANGED pc => PcTypeOK'
  BY DEF PcTypeOK
<1> QED
  BY <1>1, <1>2, <1>3, <1>4, <1>5, <1>6, <1>7, <1>8

(* The channel operations keep the channels' types. *)
LEMMA ChannelOps ==
  ASSUME ChannelTypeOK, NEW ch \in Channels, NEW opt
  PROVE  /\ AskFor(ch, READ) => ChannelTypeOK'
         /\ AskFor(ch, NONE) => ChannelTypeOK'
         /\ CtlSucceeds(opt, ch) => ChannelTypeOK'
         /\ CtlThrows(opt, ch) => ChannelTypeOK'
         /\ SetStateAdd(ch) => ChannelTypeOK'
<1> USE DEF ChannelTypeOK
<1>1. AskFor(ch, READ) => ChannelTypeOK'
  BY DEF AskFor, READ, Flags
<1>2. AskFor(ch, NONE) => ChannelTypeOK'
  BY DEF AskFor, NONE
<1>3. CtlSucceeds(opt, ch) => ChannelTypeOK'
  BY DEF CtlSucceeds, NONE
<1>4. CtlThrows(opt, ch) => ChannelTypeOK'
  BY DEF CtlThrows, channelVars
<1>5. SetStateAdd(ch) => ChannelTypeOK'
  BY DEF SetStateAdd, ChannelStates
<1> QED
  BY <1>1, <1>2, <1>3, <1>4, <1>5

(* A thread that goes to a label of its own stays well typed. *)
LEMMA GotoMain ==
  ASSUME PcTypeOK, NEW x \in MainThreadLabels, Goto(Main, x)
  PROVE  PcTypeOK'
  BY LoopAssumption DEF PcTypeOK, Goto, Threads

(* The same for a loop's thread.                                            *)
LEMMA GotoLoop ==
  ASSUME PcTypeOK, NEW l \in Loops, NEW x \in LoopThreadLabels, Goto(l, x)
  PROVE  PcTypeOK'
  BY LoopAssumption DEF PcTypeOK, Goto, Threads

-----------------------------------------------------------------------------
(* TypeOK is kept, one lemma per group of actions. *)

(* start() and stop(), outside handleClose, keep the types.                 *)
LEMMA TypeMain ==
  ASSUME TypeOK, JoinOK, MainThread
  PROVE  TypeOK'
<1> USE Frames DEF TypeOK, PoolTypeOK
<1>a. Listener \in Channels /\ count \in Nat /\ Main \in Threads
  BY ServerAssumption, CountAssumption DEF Threads
<1>b. /\ MainLabels \cup OwnerLabels \cup {"cl_disable"} \subseteq MainThreadLabels
      /\ "while" \in LoopThreadLabels
  BY DEF MainThreadLabels, LoopThreadLabels, CloseLabels, LoopLabels
<1>1. CASE Start
  <2>1. ChannelTypeOK'
    BY <1>a, <1>1, ChannelOps DEF Start
  <2>2. PcTypeOK'
    BY <1>b, <1>1, GotoMain DEF Start, MainLabels
  <2>3. MainTypeOK'
    BY <1>1 DEF Start, MainTypeOK
  <2>4. loopOf' \in [Channels -> Loops] /\ count' \in 0 .. CountModulus - 1
    BY <1>a, <1>1, NextLoopType DEF Start
  <2> QED
    BY <1>1, <2>1, <2>2, <2>3, <2>4 DEF Start
<1>2. CASE BindFails
  BY <1>a, <1>b, <1>2, GotoMain, NextLoopType DEF BindFails, MainLabels
<1>3. CASE StartListen
  <2> USE DEF StartListen
  <2>1. ChannelTypeOK'
    BY <1>a, <1>3, ChannelOps DEF Listen, ListenSetState
  <2>2. PcTypeOK'
    BY <1>b, <1>3, GotoMain DEF Listen, ListenSetState, MainLabels, OwnerLabels
  <2>3. MainTypeOK'
    BY <1>3 DEF Listen, ListenSetState, MainTypeOK
  <2>4. OwnerTypeOK'
    BY <1>3, LoopAssumption DEF Listen, ListenSetState, OwnerTypeOK
  <2> QED
    BY <1>3, <2>1, <2>2, <2>3, <2>4
<1>4. CASE StartOrStopPool
  <2> USE LoopAssumption DEF StartOrStopPool
  <2>1. ChannelTypeOK'
    BY <1>4 DEF PoolClear, ChannelTypeOK
  <2>2. PcTypeOK'
    <3>1. CASE PoolStart
      BY <1>b, <3>1, GotoLoop DEF PoolStart, OwnerTypeOK, Loops
    <3>2. CASE PoolStarted \/ PoolQuit \/ PoolWakeup \/ PoolStopped \/ PoolJoin \/ PoolClear
      BY <1>b, <3>2, GotoMain DEF PoolStarted, PoolQuit, PoolWakeup, PoolStopped,
           PoolJoin, PoolClear, OwnerLabels
    <3> QED
      BY <1>4, <3>1, <3>2 DEF PoolStep
  <2>3. LoopTypeOK'
    BY <1>4 DEF PoolStep, PoolStart, PoolStarted, PoolQuit, PoolWakeup, PoolStopped,
         PoolJoin, PoolClear, LoopTypeOK, loopVars, StartLoop, SetQuit, Wakeup
  <2>4. OwnerTypeOK'
    <3>1. pc[Main] = "waking" => it < NumLoops
      BY DEF JoinOK
    <3>2. CASE PoolStart \/ PoolWakeup \/ PoolJoin
      BY <3>1, <3>2 DEF PoolStart, PoolWakeup, PoolJoin, OwnerTypeOK
    <3>3. CASE PoolStarted \/ PoolQuit
      BY <3>3 DEF PoolStarted, PoolQuit
    <3>4. CASE PoolStopped
      BY <3>4 DEF PoolStopped, OwnerTypeOK
    <3>5. CASE PoolClear
      BY <3>5, Zenon DEF PoolClear, OwnerTypeOK
    <3> QED
      BY <1>4, <3>2, <3>3, <3>4, <3>5 DEF PoolStep
  <2> QED
    BY <1>4, <2>1, <2>2, <2>3, <2>4
<1>5. CASE StopClients
  <2> USE DEF StopClients
  <2>1. PcTypeOK'
    BY <1>b, <1>5, GotoMain DEF StopLock, StopClient, StopClear, Enter, MainLabels,
         OwnerLabels
  <2>2. TableTypeOK'
    BY <1>a, <1>5 DEF StopLock, StopClient, StopClear, TableTypeOK, tableVars
  <2>3. ConnTypeOK'
    BY <1>a, <1>5 DEF StopLock, StopClient, StopClear, Enter, ConnTypeOK, TableTypeOK
  <2>4. OwnerTypeOK'
    BY <1>5, LoopAssumption DEF StopLock, StopClient, StopClear, OwnerTypeOK
  <2> QED
    BY <1>5, <2>1, <2>2, <2>3, <2>4
<1>6. CASE StopAcceptor
  BY <1>b, <1>6, GotoMain DEF StopAcceptor, MainLabels, MainTypeOK, NetTypeOK
<1> QED
  BY <1>1, <1>2, <1>3, <1>4, <1>5, <1>6 DEF MainThread

(* The program's decisions keep the types.                                  *)
LEMMA TypeProgram ==
  ASSUME TypeOK, Program
  PROVE  TypeOK'
  BY Frames, GotoMain
  DEF TypeOK, PoolTypeOK, Program, BeginStop, Destroy, Restart, MainTypeOK,
      MainThreadLabels, MainLabels

(* The kernel and the peers keep the types.                                 *)
LEMMA TypeNet ==
  ASSUME TypeOK, Net
  PROVE  TypeOK'
<1>1. NetTypeOK'
  BY DEF TypeOK, Net, Dial, PeerSend, PeerClose, PeerReset, NetTypeOK
<1> QED
  BY <1>1, Frames DEF TypeOK, PoolTypeOK, Net

(* Every handler that a loop's thread runs, up to handleClose, keeps the    *)
(* types.                                                                   *)
LEMMA TypeLoop ==
  ASSUME TypeOK, CurOK, NEW l \in Loops, LoopThread(l)
  PROVE  TypeOK'
<1> USE Frames DEF TypeOK, PoolTypeOK
<1>a. Listener \in Channels /\ count \in Nat /\ l \in Threads
  BY ServerAssumption, CountAssumption DEF Threads
<1>b. LoopLabels \cup AcceptLabels \cup {"rd_read"} \cup CloseLabels \subseteq LoopThreadLabels
  BY DEF LoopThreadLabels
<1>c. ASSUME pc[l] \in BusyLabels PROVE cur[l] \in Conns /\ cur[l] \in Channels
  BY <1>a, <1>c DEF CurOK, ConnTypeOK, Conns
<1>t. ASSUME NEW ch, Take(l, ch) PROVE LoopTypeOK'
  BY <1>t DEF Take, LoopTypeOK
<1>1. CASE WalkConns(l)
  <2> USE DEF WalkConns
  <2>1. PcTypeOK'
    BY <1>b, <1>1, GotoLoop DEF LoopStep, CheckQuit, PollInterrupted, HandleWakeup,
         EndBatch, LoopLabels
  <2>2. LoopTypeOK'
    BY <1>t, <1>1 DEF LoopStep, CheckQuit, PollInterrupted, HandleWakeup, EndBatch,
         LoopTypeOK
  <2> QED
    BY <1>1, <2>1, <2>2
<1>2. CASE PollConns(l)
  <2>1. PcTypeOK'
    BY <1>b, <1>2, GotoLoop DEF PollConns, Poll, LoopLabels
  <2>2. LoopTypeOK'
    <3> DEFINE conds == [ch \in Channels |-> Conditions(ch)]
    <3> USE DEF LoopTypeOK
    <3>1. PICK batch \in SUBSET Ready(l, conds) :
            /\ active' = [active EXCEPT ![l] = batch]
            /\ events' = [ch \in Channels |-> IF ch \in batch
                                              THEN Reported(ch, conds[ch])
                                              ELSE events[ch]]
            /\ capacity' = [capacity EXCEPT ![l] = Resize(@, Cardinality(batch))]
      BY <1>2 DEF PollConns, Poll
    <3>2. Ready(l, conds) \subseteq Channels \cup Loops
      BY DEF Ready, ChannelTypeOK
    <3>3. \A ch \in Channels : Reported(ch, conds[ch]) \subseteq Flags
      BY DEF Reported, ChannelTypeOK, Flags
    <3>4. active' \in [Loops -> SUBSET (Channels \cup Loops)]
      BY <3>1, <3>2
    <3>5. events' \in [Channels -> SUBSET Flags]
      BY <3>1, <3>3
    <3>6. capacity' \in [Loops -> Nat]
      BY <3>1 DEF Resize
    <3> QED
      BY <1>2, <3>4, <3>5, <3>6 DEF PollConns, Poll
  <2> QED
    BY <1>2, <2>1, <2>2 DEF PollConns
<1>3. CASE Accept(l)
  <2>1. PICK c \in backlog : /\ backlog' = backlog \ {c}
                             /\ loopOf' = [loopOf EXCEPT ![c] = NextLoop(count)]
                             /\ Enter(l, c, "acc_lock")
    BY <1>3 DEF Accept
  <2>2. PcTypeOK'
    BY <1>b, <2>1, GotoLoop DEF Enter, AcceptLabels
  <2>3. NetTypeOK' /\ ConnTypeOK'
    BY <1>3, <2>1 DEF Accept, Enter, NetTypeOK, ConnTypeOK
  <2>4. loopOf' \in [Channels -> Loops] /\ count' \in 0 .. CountModulus - 1
    BY <1>a, <1>3, <2>1, NextLoopType DEF Accept
  <2> QED
    BY <1>t, <1>3, <2>2, <2>3, <2>4 DEF Accept
<1>4. CASE AcceptFails(l)
  BY <1>t, <1>4 DEF AcceptFails
<1>5. CASE HandleNewConnection(l)
  <2> USE DEF HandleNewConnection
  <2>1. CASE AcceptInsert(l)
    <3>1. cur[l] \in Conns /\ cur[l] \in Channels
      BY <1>c, <2>1 DEF AcceptInsert, BusyLabels, AcceptLabels
    <3>2. ChannelTypeOK' /\ PcTypeOK'
      BY <1>b, <2>1, <3>1, ChannelOps, GotoLoop DEF AcceptInsert, AcceptLabels
    <3>3. TableTypeOK' /\ ConnTypeOK'
      BY <1>a, <2>1, <3>1 DEF AcceptInsert, TableTypeOK, ConnTypeOK
    <3> QED
      BY <1>5, <2>1, <3>2, <3>3 DEF AcceptInsert
  <2>2. CASE AcceptAdd(l)
    <3>1. cur[l] \in Conns /\ cur[l] \in Channels
      BY <1>c, <2>2 DEF AcceptAdd, BusyLabels, AcceptLabels
    <3>2. ChannelTypeOK'
      BY <2>2, <3>1, ChannelOps DEF AcceptAdd
    <3>3. PcTypeOK'
      BY <1>b, <2>2, GotoLoop, LoopAssumption DEF AcceptAdd, AcceptLabels, Throw, Enter,
           LoopLabels
    <3>4. TableTypeOK' /\ ConnTypeOK' /\ MainTypeOK'
      BY <2>2 DEF AcceptAdd, Throw, Enter, TableTypeOK, ConnTypeOK, MainTypeOK, tableVars,
           connVars, mainVars
    <3> QED
      BY <1>5, <3>2, <3>3, <3>4
  <2>3. CASE AcceptSetState(l)
    <3>1. cur[l] \in Channels
      BY <1>c, <2>3 DEF AcceptSetState, BusyLabels, AcceptLabels
    <3> QED
      BY <1>b, <1>5, <2>3, <3>1, ChannelOps, GotoLoop DEF AcceptSetState, AcceptLabels
  <2>4. CASE AcceptConnected(l)
    <3>1. PcTypeOK'
      BY <1>b, <2>4, GotoLoop DEF AcceptConnected, Enter, LoopLabels
    <3>2. TableTypeOK' /\ ConnTypeOK'
      BY <2>4 DEF AcceptConnected, Enter, TableTypeOK, ConnTypeOK
    <3> QED
      BY <1>5, <2>4, <3>1, <3>2 DEF AcceptConnected
  <2> QED
    BY <1>5, <2>1, <2>2, <2>3, <2>4
<1>6. CASE \E c \in Conns : Dispatch(l, c)
  <2>1. PcTypeOK'
    BY <1>b, <1>6, GotoLoop DEF Dispatch, Enter, CloseLabels
  <2>2. ConnTypeOK'
    BY <1>6 DEF Dispatch, Enter, ConnTypeOK
  <2> QED
    BY <1>t, <1>6, <2>1, <2>2 DEF Dispatch
<1>7. CASE HandleRead(l)
  <2>1. PcTypeOK'
    BY <1>b, <1>7, GotoLoop DEF HandleRead, ReadData, ReadEof, ReadFails, Enter, LoopLabels,
         CloseLabels
  <2>2. ConnTypeOK' /\ NetTypeOK'
    BY <1>7 DEF HandleRead, ReadData, ReadEof, ReadFails, Enter, ConnTypeOK, NetTypeOK
  <2> QED
    BY <1>7, <2>1, <2>2 DEF HandleRead
<1> QED
  BY <1>1, <1>2, <1>3, <1>4, <1>5, <1>6, <1>7 DEF LoopThread

(* handleClose keeps the types, on whichever thread and however it ends.    *)
LEMMA TypeClose ==
  ASSUME TypeOK, CurOK, NEW t \in Threads, HandleClose(t)
  PROVE  TypeOK'
<1> USE Frames DEF TypeOK, PoolTypeOK, HandleClose
<1>a. pc[t] \in CloseLabels
  BY DEF CloseDisable, CloseDangling, CloseAdd, CloseMod, CloseSetState, CloseRemove,
         CloseCtl, CloseNotify, CloseErase, CloseLabels
<1>b. cur[t] \in Conns /\ cur[t] \in Channels
  BY <1>a DEF CurOK, BusyLabels, ConnTypeOK, Conns
<1>g. ASSUME NEW x \in CloseLabels, Goto(t, x) PROVE PcTypeOK'
  BY <1>g, GotoMain, GotoLoop DEF Threads, LoopThreadLabels, MainThreadLabels
<1>e. ASSUME NEW c, NEW x, NEW y, x \in MainThreadLabels, y \in LoopThreadLabels,
             Enter(t, c, IF t = Main THEN x ELSE y)
      PROVE  PcTypeOK'
  BY <1>e, GotoMain, GotoLoop, LoopAssumption DEF Threads, Enter
<1>h. ASSUME Throw(t)
      PROVE  /\ PcTypeOK' /\ TableTypeOK' /\ MainTypeOK'
             /\ cur' \in [Threads -> Conns \cup {Nil}]
  <2>1. PcTypeOK'
    BY <1>e, <1>h DEF Throw, MainThreadLabels, MainLabels, LoopThreadLabels, LoopLabels
  <2>2. TableTypeOK'
    BY <1>h DEF Throw, TableTypeOK
  <2>3. MainTypeOK'
    BY <1>h DEF Throw, MainTypeOK
  <2>4. cur' \in [Threads -> Conns \cup {Nil}]
    BY <1>h DEF Throw, Enter, ConnTypeOK
  <2> QED
    BY <2>1, <2>2, <2>3, <2>4
<1>1. CASE CloseDisable(t)
  BY <1>b, <1>g, <1>1, ChannelOps DEF CloseDisable, CloseLabels
<1>2. CASE CloseDangling(t)
  BY <1>2 DEF CloseDangling, MainTypeOK
<1>3. CASE CloseAdd(t) \/ CloseMod(t) \/ CloseRemove(t)
  <2>1. PICK label \in CloseLabels, opt \in {"ADD", "MOD", "DEL"}, next \in CloseLabels :
          CloseCtl(t, label, opt, next)
    BY <1>3 DEF CloseAdd, CloseMod, CloseRemove, CloseLabels
  <2>2. CASE CtlSucceeds(opt, cur[t]) /\ Goto(t, next)
               /\ UNCHANGED <<tableVars, connVars, mainVars>>
    BY <1>b, <1>g, <2>2, ChannelOps
  <2>3. CASE CtlThrows(opt, cur[t]) /\ Throw(t) /\ UNCHANGED <<connState, notified>>
    BY <1>b, <1>h, <2>3, ChannelOps DEF ConnTypeOK
  <2> QED
    BY <2>1, <2>2, <2>3 DEF CloseCtl
<1>4. CASE CloseSetState(t)
  BY <1>b, <1>g, <1>4, ChannelOps DEF CloseSetState, CloseLabels
<1>5. CASE CloseNotify(t)
  <2>1. /\ connState' \in [Conns -> {"Disconnected", "Connected"}]
        /\ notified' \in [Conns -> Nat]
    BY <1>b, <1>5 DEF CloseNotify, ConnTypeOK
  <2>2. CASE Goto(t, "cl_erase") /\ UNCHANGED <<cur, tableVars, mainVars>>
    BY <1>g, <1>5, <2>1, <2>2 DEF CloseNotify, ConnTypeOK, CloseLabels
  <2>3. CASE Throw(t)
    BY <1>h, <1>5, <2>1, <2>3 DEF CloseNotify, ConnTypeOK
  <2> QED
    BY <1>5, <2>2, <2>3 DEF CloseNotify
<1>6. CASE CloseErase(t)
  <2>1. PcTypeOK'
    BY <1>e, <1>6 DEF CloseErase, MainThreadLabels, MainLabels, LoopThreadLabels, LoopLabels
  <2>2. TableTypeOK' /\ ConnTypeOK'
    BY <1>6 DEF CloseErase, Enter, TableTypeOK, ConnTypeOK
  <2> QED
    BY <1>6, <2>1, <2>2 DEF CloseErase
<1> QED
  BY <1>1, <1>2, <1>3, <1>4, <1>5, <1>6

(* Every step keeps the types.                                              *)
LEMMA TypeNext ==
  ASSUME TypeOK, CurOK, JoinOK, [Next]_vars
  PROVE  TypeOK'
<1>1. CASE Next
  BY <1>1, TypeMain, TypeProgram, TypeLoop, TypeClose, TypeNet DEF Next
<1>2. CASE UNCHANGED vars
  BY <1>2, Frames DEF vars, TypeOK, PoolTypeOK
<1> QED
  BY <1>1, <1>2

-----------------------------------------------------------------------------
(* CurOK. *)

(* A thread that goes on inside, or outside, a connection's method keeps    *)
(* CurOK.                                                                   *)
LEMMA CurGoto ==
  ASSUME PcTypeOK, ConnTypeOK, CurOK, NEW t \in Threads, NEW x, Goto(t, x),
         UNCHANGED cur, pc[t] \in BusyLabels <=> x \in BusyLabels
  PROVE  CurOK'
  BY DEF PcTypeOK, ConnTypeOK, CurOK, Goto

(* A thread that enters a method with a connection, or leaves one without,  *)
(* keeps CurOK.                                                             *)
LEMMA CurEnter ==
  ASSUME PcTypeOK, ConnTypeOK, CurOK, NEW t \in Threads, NEW c, NEW x, Enter(t, c, x),
         c # Nil <=> x \in BusyLabels
  PROVE  CurOK'
  BY DEF PcTypeOK, ConnTypeOK, CurOK, Goto, Enter

(* A step that moves no thread keeps CurOK.                                 *)
LEMMA CurSame ==
  ASSUME CurOK, UNCHANGED <<pc, cur>>
  PROVE  CurOK'
  BY DEF CurOK

(* Every step keeps CurOK: no exception or return leaves a thread with a    *)
(* connection it no longer works on.                                        *)
LEMMA CurNext ==
  ASSUME TypeOK, CurOK, JoinOK, [Next]_vars
  PROVE  CurOK'
<1> USE DEF TypeOK, connVars
<1>a. Main \in Threads /\ Loops \subseteq Threads /\ Main \notin Loops /\ Nil \notin Conns
  BY LoopAssumption, ServerAssumption DEF Threads, Conns
<1>b. /\ (LoopLabels \cup OwnerLabels \cup MainLabels) \cap BusyLabels = {}
      /\ AcceptLabels \cup CloseLabels \cup {"rd_read"} = BusyLabels
  BY DEF LoopLabels, OwnerLabels, MainLabels, BusyLabels, AcceptLabels, CloseLabels
<1>1. CASE MainThread
  <2>1. CASE Start \/ BindFails \/ StartListen \/ StopAcceptor
    BY <1>a, <1>b, <2>1, CurGoto
    DEF Start, BindFails, StartListen, Listen, ListenSetState, StopAcceptor, MainLabels,
        OwnerLabels
  <2>2. CASE StartOrStopPool
    <3>1. CASE PoolStart
      <4>1. it \in Loops /\ pc[it] = "none"
        BY <3>1, LoopAssumption DEF PoolStart, JoinOK, PoolTypeOK, OwnerTypeOK, Loops
      <4> QED
        BY <1>a, <1>b, <2>2, <3>1, <4>1, CurGoto DEF StartOrStopPool, PoolStart, LoopLabels
    <3>2. CASE PoolStarted \/ PoolQuit \/ PoolWakeup \/ PoolStopped \/ PoolClear
      BY <1>a, <1>b, <2>2, <3>2, CurGoto
      DEF StartOrStopPool, PoolStarted, PoolQuit, PoolWakeup, PoolStopped, PoolClear,
          OwnerLabels
    <3>3. CASE PoolJoin
      BY <2>2, <3>3, CurSame DEF StartOrStopPool, PoolJoin
    <3> QED
      BY <2>2, <3>1, <3>2, <3>3 DEF StartOrStopPool, PoolStep
  <2>3. CASE StopClients
    <3>1. CASE StopLock \/ StopClear
      BY <1>a, <1>b, <3>1, CurGoto DEF StopLock, StopClear, MainLabels, OwnerLabels
    <3>2. CASE StopClient
      BY <1>a, <1>b, <3>2, CurEnter DEF StopClient, TableTypeOK, CloseLabels
    <3> QED
      BY <2>3, <3>1, <3>2 DEF StopClients
  <2> QED
    BY <1>1, <2>1, <2>2, <2>3 DEF MainThread
<1>2. CASE Program
  BY <1>2, <1>a, <1>b, CurGoto, CurSame DEF Program, BeginStop, Destroy, Restart, MainLabels,
     OwnerLabels
<1>3. CASE Net
  BY <1>3, CurSame DEF Net
<1>4. ASSUME NEW l \in Loops, LoopThread(l) PROVE CurOK'
  <2>1. CASE WalkConns(l)
    BY <1>a, <1>b, <2>1, CurGoto, CurSame DEF WalkConns, LoopStep, CheckQuit, PollInterrupted,
       HandleWakeup, EndBatch, LoopLabels
  <2>2. CASE PollConns(l) \/ AcceptFails(l)
    BY <1>a, <1>b, <2>2, CurGoto, CurSame DEF PollConns, Poll, AcceptFails, LoopLabels
  <2>3. CASE Accept(l)
    BY <1>a, <1>b, <2>3, CurEnter DEF Accept, AcceptLabels, NetTypeOK
  <2>4. CASE HandleNewConnection(l)
    BY <1>a, <1>b, <2>4, CurGoto, CurEnter DEF HandleNewConnection, AcceptInsert, AcceptAdd,
       AcceptSetState, AcceptConnected, Throw, AcceptLabels, LoopLabels
  <2>5. CASE \E c \in Conns : Dispatch(l, c)
    BY <1>a, <1>b, <2>5, CurEnter, CurSame DEF Dispatch, CloseLabels
  <2>6. CASE HandleRead(l)
    BY <1>a, <1>b, <2>6, CurGoto, CurEnter DEF HandleRead, ReadData, ReadEof, ReadFails,
       LoopLabels, CloseLabels
  <2> QED
    BY <1>4, <2>1, <2>2, <2>3, <2>4, <2>5, <2>6 DEF LoopThread
<1>5. ASSUME NEW t \in Threads, HandleClose(t) PROVE CurOK'
  <2> USE DEF CloseLabels
  <2>1. CASE CloseDisable(t) \/ CloseSetState(t)
    BY <1>b, <2>1, CurGoto DEF CloseDisable, CloseSetState
  <2>2. CASE CloseDangling(t)
    BY <2>2, CurSame DEF CloseDangling
  <2>3. ASSUME Throw(t) PROVE CurOK'
    BY <1>b, <2>3, CurEnter DEF Throw, LoopLabels, MainLabels
  <2>4. CASE CloseAdd(t) \/ CloseMod(t) \/ CloseRemove(t)
    BY <1>b, <2>3, <2>4, CurGoto DEF CloseAdd, CloseMod, CloseRemove, CloseCtl
  <2>5. CASE CloseNotify(t)
    BY <1>b, <2>3, <2>5, CurGoto DEF CloseNotify
  <2>6. CASE CloseErase(t)
    BY <1>b, <2>6, CurEnter DEF CloseErase, LoopLabels, MainLabels
  <2> QED
    BY <1>5, <2>1, <2>2, <2>4, <2>5, <2>6 DEF HandleClose
<1>6. CASE UNCHANGED vars
  BY <1>6, CurSame DEF vars
<1> QED
  BY <1>1, <1>2, <1>3, <1>4, <1>5, <1>6 DEF Next

-----------------------------------------------------------------------------
(* Where the threads go. *)

(* A step of a loop's thread moves that thread only, which is neither       *)
(* before its start nor at its end.                                         *)
LEMMA LoopMoves ==
  ASSUME PcTypeOK, ConnTypeOK, NEW l \in Loops, LoopThread(l)
  PROVE  /\ pc[l] \notin {"none", "end"}
         /\ \A t \in Threads \ {l} : pc'[t] = pc[t] /\ cur'[t] = cur[t]
         /\ UNCHANGED <<ownerVars, acceptor, dtor>>
<1> USE LoopAssumption DEF connVars, mainVars, PcTypeOK, ConnTypeOK, Goto, Enter
<1>1. CASE WalkConns(l)
  BY <1>1 DEF WalkConns, LoopStep, CheckQuit, PollInterrupted, HandleWakeup, EndBatch, Take
<1>2. CASE PollConns(l)
  BY <1>2 DEF PollConns, Poll
<1>3. CASE Accept(l) \/ AcceptFails(l)
  BY <1>3 DEF Accept, AcceptFails, Take
<1>4. CASE HandleNewConnection(l)
  BY <1>4 DEF HandleNewConnection, AcceptInsert, AcceptAdd, AcceptSetState, AcceptConnected,
     Throw
<1>5. CASE \E c \in Conns : Dispatch(l, c)
  BY <1>5 DEF Dispatch, Take
<1>6. CASE HandleRead(l)
  BY <1>6 DEF HandleRead, ReadData, ReadEof, ReadFails
<1> QED
  BY <1>1, <1>2, <1>3, <1>4, <1>5, <1>6 DEF LoopThread

(* handleClose moves the thread that runs it, from one of its labels to     *)
(* another, to where an exception leads or to where it returns.             *)
LEMMA CloseMoves ==
  ASSUME PcTypeOK, ConnTypeOK, NEW t \in Threads, HandleClose(t)
  PROVE  /\ pc[t] \in CloseLabels
         /\ pc'[t] \in CloseLabels \cup (IF t = Main THEN {"threw", "st_each"} ELSE {"for"})
         /\ \A u \in Threads \ {t} : pc'[u] = pc[u] /\ cur'[u] = cur[u]
         /\ UNCHANGED <<loopOf, loopVars, ownerVars, count, netVars>>
<1> USE DEF connVars, PcTypeOK, ConnTypeOK, Goto, Enter, CloseLabels, Throw
<1>1. CASE CloseDisable(t) \/ CloseDangling(t) \/ CloseSetState(t)
  BY <1>1 DEF HandleClose, CloseDisable, CloseDangling, CloseSetState
<1>2. CASE CloseAdd(t) \/ CloseMod(t) \/ CloseRemove(t)
  BY <1>2 DEF HandleClose, CloseAdd, CloseMod, CloseRemove, CloseCtl
<1>3. CASE CloseNotify(t) \/ CloseErase(t)
  BY <1>3 DEF HandleClose, CloseNotify, CloseErase
<1> QED
  BY <1>1, <1>2, <1>3 DEF HandleClose

(* Every step keeps JoinOK: waitForEnd() lets stop() past a loop only when  *)
(* its thread has ended, and no thread comes back.                          *)
LEMMA JoinNext ==
  ASSUME TypeOK, JoinOK, [Next]_vars
  PROVE  JoinOK'
<1> USE LoopAssumption DEF TypeOK, PoolTypeOK, OwnerTypeOK, JoinOK, NoLoopOutlivesPool
<1>a. Main \in Threads /\ Loops \subseteq Threads /\ Main \notin Loops /\ Loops \subseteq Nat
  BY DEF Threads, Loops
<1>b. ASSUME NEW x, Goto(Main, x)
      PROVE  pc'[Main] = x /\ \A l \in Loops : pc'[l] = pc[l]
  BY <1>a, <1>b DEF Goto, PcTypeOK
<1>1. CASE MainThread
  <2>1. CASE Start \/ BindFails \/ StopAcceptor
    BY <1>b, <2>1 DEF Start, BindFails, StopAcceptor, ownerVars
  <2>2. CASE StartListen
    BY <1>a, <1>b, <2>2 DEF StartListen, Listen, ListenSetState
  <2>3. CASE StartOrStopPool
    <3>1. CASE PoolStart
      BY <1>a, <2>3, <3>1 DEF PoolStart, Goto, PcTypeOK, Loops
    <3>2. CASE PoolStarted \/ PoolQuit
      BY <1>b, <3>2 DEF PoolStarted, PoolQuit, ownerVars
    <3>3. CASE PoolWakeup \/ PoolStopped
      BY <1>a, <1>b, <3>3 DEF PoolWakeup, PoolStopped, Loops
    <3>4. CASE PoolJoin
      BY <1>a, <3>4 DEF PoolJoin, Joinable
    <3>5. CASE PoolClear
      BY <1>a, <1>b, <3>5 DEF PoolClear, Loops
    <3> QED
      BY <2>3, <3>1, <3>2, <3>3, <3>4, <3>5 DEF StartOrStopPool, PoolStep
  <2>4. CASE StopClients
    BY <1>b, <2>4 DEF StopClients, StopLock, StopClient, StopClear, Enter
  <2> QED
    BY <1>1, <2>1, <2>2, <2>3, <2>4 DEF MainThread
<1>2. CASE Program
  <2>1. it' = it /\ alive' = alive
    BY <1>2 DEF Program, ownerVars
  <2>2. CASE BeginStop \/ Destroy
    BY <1>b, <2>1, <2>2 DEF BeginStop, Destroy
  <2>3. CASE Restart
    BY <2>1, <2>3 DEF Restart
  <2> QED
    BY <1>2, <2>2, <2>3 DEF Program
<1>3. CASE Net
  BY <1>3 DEF Net, ownerVars
<1>4. ASSUME NEW l \in Loops, LoopThread(l) PROVE JoinOK'
  <2>1. /\ \A k \in Loops : pc[k] \in {"none", "end"} => pc'[k] = pc[k]
        /\ pc'[Main] = pc[Main] /\ it' = it /\ alive' = alive
    BY <1>a, <1>4, LoopMoves DEF ownerVars
  <2> QED
    BY <2>1
<1>5. ASSUME NEW t \in Threads, HandleClose(t) PROVE JoinOK'
  <2>1. /\ pc[t] \in CloseLabels
        /\ pc'[t] \in CloseLabels \cup {"threw", "st_each", "for"}
        /\ \A u \in Threads \ {t} : pc'[u] = pc[u]
        /\ it' = it /\ alive' = alive
    BY <1>5, CloseMoves DEF ownerVars
  <2>2. \A k \in Loops : pc[k] \in {"none", "end"} => pc'[k] = pc[k]
    BY <1>a, <2>1 DEF CloseLabels
  <2>3. pc'[Main] = pc[Main] \/ pc'[Main] \in CloseLabels \cup {"threw", "st_each", "for"}
    BY <1>a, <2>1
  <2> QED
    BY <2>1, <2>2, <2>3 DEF CloseLabels
<1>6. CASE UNCHANGED vars
  BY <1>6 DEF vars, ownerVars
<1> QED
  BY <1>1, <1>2, <1>3, <1>4, <1>5, <1>6 DEF Next

(* The main thread, outside handleClose, starts loops and enters            *)
(* handleClose for a client; it leaves the connections' other state alone.  *)
LEMMA MainMoves ==
  ASSUME TypeOK, JoinOK, MainThread \/ Program
  PROVE  /\ pc[Main] \notin CloseLabels
         /\ pc'[Main] \in CloseLabels => /\ pc[Main] = "st_each"
                                         /\ pc'[Main] = "cl_disable"
                                         /\ cur'[Main] \in clients
         /\ pc'[Main] \notin CloseLabels => cur'[Main] = cur[Main]
         /\ \A l \in Loops : /\ cur'[l] = cur[l]
                             /\ pc'[l] = pc[l] \/ (pc[l] = "none" /\ pc'[l] = "while")
         /\ \A c \in Conns : loopOf'[c] = loopOf[c]
         /\ registered' \cap Conns \subseteq registered
         /\ backlog' \subseteq backlog
         /\ UNCHANGED <<active, clients, peer>>
<1> USE LoopAssumption DEF TypeOK, PoolTypeOK, PcTypeOK, ConnTypeOK
<1>a. Main \in Threads /\ Loops \subseteq Threads /\ Main \notin Loops
  BY DEF Threads
<1>1. CASE Start \/ BindFails \/ StartListen \/ StopAcceptor
  <2>1. /\ pc[Main] \notin CloseLabels /\ pc'[Main] \notin CloseLabels
        /\ \A l \in Loops : pc'[l] = pc[l]
    BY <1>a, <1>1 DEF Start, BindFails, StartListen, Listen, ListenSetState, StopAcceptor, Goto,
       CloseLabels
  <2>2. /\ \A c \in Conns : loopOf'[c] = loopOf[c]
        /\ registered' \cap Conns \subseteq registered
    BY <1>1 DEF Start, BindFails, StartListen, Listen, ListenSetState, StopAcceptor, AskFor,
       CtlSucceeds, CtlThrows, SetStateAdd, channelVars, Conns
  <2>3. UNCHANGED <<active, clients, peer, cur>> /\ backlog' \subseteq backlog
    BY <1>1 DEF Start, BindFails, StartListen, Listen, ListenSetState, StopAcceptor, loopVars,
       tableVars, connVars, netVars
  <2> QED
    BY <2>1, <2>2, <2>3
<1>2. CASE StartOrStopPool
  <2>1. UNCHANGED <<active, clients, peer, cur, loopOf, backlog>>
    BY <1>2 DEF StartOrStopPool, PoolStep, PoolStart, PoolStarted, PoolQuit, PoolWakeup,
       PoolStopped, PoolJoin, PoolClear, loopVars, tableVars, connVars, netVars
  <2>2. registered' \subseteq registered
    BY <1>2 DEF StartOrStopPool, PoolClear, channelVars
  <2>3. CASE PoolStart
    <3>1. it \in Loops /\ pc[it] = "none"
      BY <2>3 DEF PoolStart, JoinOK, OwnerTypeOK, Loops
    <3> QED
      BY <1>a, <2>1, <2>2, <2>3, <3>1 DEF PoolStart, Goto, CloseLabels
  <2>4. CASE PoolStarted \/ PoolQuit \/ PoolWakeup \/ PoolStopped \/ PoolJoin \/ PoolClear
    BY <1>a, <2>1, <2>2, <2>4 DEF PoolStarted, PoolQuit, PoolWakeup, PoolStopped, PoolJoin,
       PoolClear, Goto, CloseLabels
  <2> QED
    BY <1>2, <2>3, <2>4 DEF StartOrStopPool, PoolStep
<1>3. CASE StopClients
  BY <1>a, <1>3 DEF StopClients, StopLock, StopClient, StopClear, Goto, Enter, CloseLabels,
     channelVars, loopVars, tableVars, netVars
<1>4. CASE Program
  BY <1>a, <1>4 DEF Program, BeginStop, Destroy, Restart, Goto, CloseLabels, channelVars,
     loopVars, tableVars, connVars, netVars
<1> QED
  BY <1>1, <1>2, <1>3, <1>4 DEF MainThread

-----------------------------------------------------------------------------
(* MutexOK. *)

(* Every step keeps MutexOK: the lock_guards of stop() and                  *)
(* handleNewConnection release mutex_ on every way out, exceptions included. *)
LEMMA MutexNext ==
  ASSUME TypeOK, MutexOK, JoinOK, [Next]_vars
  PROVE  MutexOK'
<1> USE LoopAssumption, ServerAssumption DEF TypeOK, MutexOK
<1>a. /\ Main \in Threads /\ Loops \subseteq Threads /\ Main \notin Loops
      /\ Nil # Main /\ Nil \notin Loops
  BY DEF Threads
<1>1. CASE MainThread \/ Program
  <2>1. \A l \in Loops : pc'[l] = pc[l] \/ (pc[l] = "none" /\ pc'[l] = "while")
    BY <1>1, MainMoves
  <2>2. CASE StopLock \/ StopClient \/ StopClear
    BY <1>a, <2>1, <2>2 DEF StopLock, StopClient, StopClear, Goto, Enter, PcTypeOK, CloseLabels,
       tableVars
  <2>3. CASE UNCHANGED mutex /\ pc[Main] \notin {"st_each"} \cup CloseLabels
               /\ pc'[Main] \notin {"st_each"} \cup CloseLabels
    BY <2>1, <2>3
  <2>4. CASE Start \/ BindFails \/ StartListen \/ StopAcceptor \/ Program
    BY <1>a, <2>3, <2>4 DEF Start, BindFails, StartListen, Listen, ListenSetState, StopAcceptor,
       Program, BeginStop, Destroy, Restart, Goto, PcTypeOK, CloseLabels, tableVars
  <2>5. CASE StartOrStopPool
    BY <1>a, <2>3, <2>5 DEF StartOrStopPool, PoolStep, PoolStart, PoolStarted, PoolQuit,
       PoolWakeup, PoolStopped, PoolJoin, PoolClear, Goto, PcTypeOK, CloseLabels, tableVars,
       PoolTypeOK, OwnerTypeOK, Loops
  <2> QED
    BY <1>1, <2>2, <2>4, <2>5 DEF MainThread, StopClients
<1>2. CASE Net
  BY <1>2 DEF Net, tableVars
<1>3. ASSUME NEW l \in Loops, LoopThread(l) PROVE MutexOK'
  <2>1. \A t \in Threads \ {l} : pc'[t] = pc[t]
    BY <1>3, LoopMoves
  <2>2. CASE HandleNewConnection(l)
    BY <1>a, <2>1, <2>2 DEF HandleNewConnection, AcceptInsert, AcceptAdd, AcceptSetState,
       AcceptConnected, Throw, Goto, Enter, PcTypeOK, tableVars
  <2>3. /\ UNCHANGED mutex
        /\ pc[l] \notin {"acc_add", "acc_setstate", "acc_connected"}
        /\ pc'[l] \notin {"acc_add", "acc_setstate", "acc_connected"}
        => MutexOK'
    BY <1>a, <2>1
  <2>4. CASE WalkConns(l) \/ PollConns(l) \/ Accept(l) \/ AcceptFails(l)
    BY <1>a, <2>3, <2>4 DEF WalkConns, LoopStep, CheckQuit, PollInterrupted, HandleWakeup,
       EndBatch, PollConns, Poll, Accept, AcceptFails, Take, Goto, Enter, PcTypeOK, tableVars
  <2>5. CASE (\E c \in Conns : Dispatch(l, c)) \/ HandleRead(l)
    BY <1>a, <2>3, <2>5 DEF Dispatch, HandleRead, ReadData, ReadEof, ReadFails, Take, Goto,
       Enter, PcTypeOK, tableVars
  <2> QED
    BY <1>3, <2>2, <2>4, <2>5 DEF LoopThread
<1>4. ASSUME NEW t \in Threads, HandleClose(t) PROVE MutexOK'
  <2>1. /\ pc[t] \in CloseLabels
        /\ pc'[t] \in CloseLabels \cup (IF t = Main THEN {"threw", "st_each"} ELSE {"for"})
        /\ \A u \in Threads \ {t} : pc'[u] = pc[u]
    BY <1>4, CloseMoves
  <2>2. CASE UNCHANGED mutex /\ pc'[t] \in CloseLabels
    BY <1>a, <2>1, <2>2 DEF CloseLabels
  <2>3. CASE Throw(t)
    BY <1>a, <2>1, <2>3 DEF Throw, Enter, Goto, PcTypeOK, CloseLabels
  <2>4. CASE CloseErase(t)
    BY <1>a, <2>1, <2>4 DEF CloseErase, Enter, Goto, PcTypeOK, CloseLabels
  <2>5. CASE CloseDisable(t) \/ CloseDangling(t) \/ CloseSetState(t)
    BY <2>1, <2>2, <2>5 DEF CloseDisable, CloseDangling, CloseSetState, Goto, PcTypeOK, tableVars,
       CloseLabels
  <2>6. CASE CloseAdd(t) \/ CloseMod(t) \/ CloseRemove(t) \/ CloseNotify(t)
    BY <2>1, <2>2, <2>3, <2>6 DEF CloseAdd, CloseMod, CloseRemove, CloseCtl, CloseNotify, Goto,
       PcTypeOK, tableVars, CloseLabels
  <2> QED
    BY <1>4, <2>4, <2>5, <2>6 DEF HandleClose
<1>5. CASE UNCHANGED vars
  BY <1>5 DEF vars, tableVars
<1> QED
  BY <1>1, <1>2, <1>3, <1>4, <1>5 DEF Next

-----------------------------------------------------------------------------
(* OwnerOK, RegisteredClient, FreshOK and RemovedOK. *)

(* The threads are distinct, and a connection is not nobody. *)
LEMMA Distinct ==
  /\ Main \in Threads /\ Loops \subseteq Threads /\ Main \notin Loops
  /\ Threads = Loops \cup {Main}
  /\ Nil # Main /\ Nil \notin Loops /\ Nil \notin Channels
  /\ Conns \subseteq Channels /\ Listener \notin Conns
  BY LoopAssumption, ServerAssumption DEF Threads, Conns

(* handleClose erases the connection it runs on, in its last step and with  *)
(* mutex_ free, and changes no other membership of clients_.                *)
LEMMA CloseTable ==
  ASSUME TypeOK, NEW t \in Threads, HandleClose(t)
  PROVE  \/ UNCHANGED clients /\ pc'[t] # "st_each"
         \/ CloseErase(t)
  BY CloseMoves, Distinct
  DEF HandleClose, CloseDisable, CloseDangling, CloseAdd, CloseMod, CloseRemove, CloseCtl,
      CloseSetState, CloseNotify, Throw, tableVars, Goto, Enter, TypeOK, PcTypeOK

(* While handleClose goes on, its connection stays the same. *)
LEMMA CloseCur ==
  ASSUME TypeOK, NEW t \in Threads, HandleClose(t)
  PROVE  pc'[t] \in CloseLabels => cur'[t] = cur[t]
  BY Distinct
  DEF HandleClose, CloseDisable, CloseDangling, CloseAdd, CloseMod, CloseRemove, CloseCtl,
      CloseSetState, CloseNotify, CloseErase, Throw, connVars, Goto, Enter, TypeOK, PcTypeOK,
      CloseLabels

(* Every step keeps OwnerOK: a connection is erased by its own loop only,   *)
(* which holds it in no batch then, or under stop()'s lock.                 *)
LEMMA OwnerNext ==
  ASSUME IInv, [Next]_vars
  PROVE  OwnerOK'
<1> USE Distinct DEF IInv, OwnerOK
<1>a. CurOK'
  BY CurNext
<1>b. /\ cur \in [Threads -> Conns \cup {Nil}]
      /\ \A l \in Loops : cur[l] \in Conns \/ pc[l] \notin BusyLabels
      /\ CloseLabels \cup AcceptLabels \cup {"rd_read"} = BusyLabels
  BY DEF CurOK, TypeOK, ConnTypeOK, BusyLabels
<1>1. CASE MainThread \/ Program
  <2>1. TypeOK /\ JoinOK
    OBVIOUS
  <2>2. "none" \notin BusyLabels /\ "while" \notin BusyLabels
    BY DEF BusyLabels, AcceptLabels, CloseLabels
  <2> QED
    BY <1>1, <1>b, <2>1, <2>2, MainMoves
<1>2. CASE Net
  BY <1>2 DEF Net, connVars, tableVars, loopVars
<1>c. \A l \in Loops : Nil \notin active[l] /\ active[l] \subseteq Channels \cup Loops
  BY DEF TypeOK, PoolTypeOK, LoopTypeOK
<1>d. /\ "for" \notin BusyLabels /\ "while" \notin BusyLabels /\ "end" \notin BusyLabels
      /\ "poll" \notin BusyLabels
      /\ "threw" \notin CloseLabels /\ "st_each" \notin CloseLabels
  BY DEF BusyLabels, AcceptLabels, CloseLabels
<1>3. ASSUME NEW l \in Loops, LoopThread(l) PROVE OwnerOK'
  <2>1. /\ \A t \in Threads \ {l} : pc'[t] = pc[t] /\ cur'[t] = cur[t]
        /\ l \in Threads /\ cur' \in [Threads -> Conns \cup {Nil}]
    BY <1>3, LoopMoves, TypeNext DEF TypeOK, ConnTypeOK
  <2>2. ASSUME NEW c, Take(l, c)
        PROVE  /\ \A k \in Loops \ {l} : active'[k] = active[k]
               /\ active'[l] = active[l] \ {c} /\ c \in active[l]
    BY <2>2 DEF Take, TypeOK, PoolTypeOK, LoopTypeOK
  <2>3. ASSUME pc'[l] \notin BusyLabels PROVE cur'[l] = Nil
    BY <1>a, <2>1, <2>3 DEF CurOK
  <2>4. CASE WalkConns(l)
    <3>1. /\ \A k \in Loops : active'[k] \subseteq active[k]
          /\ pc'[l] \notin BusyLabels /\ UNCHANGED <<clients, loopOf>>
      BY <1>d, <2>2, <2>4 DEF WalkConns, LoopStep, CheckQuit, PollInterrupted, HandleWakeup,
         EndBatch, Take, Goto, TypeOK, PcTypeOK, PoolTypeOK, LoopTypeOK, loopVars, tableVars
    <3> QED
      BY <1>b, <1>c, <2>1, <2>3, <3>1
  <2>5. CASE PollConns(l)
    <3>1. /\ \A k \in Loops \ {l} : active'[k] = active[k]
          /\ \A c \in active'[l] \cap Conns : c \in registered /\ loopOf[c] = l
          /\ active'[l] \subseteq Channels \cup Loops
      <4> DEFINE conds == [ch \in Channels |-> Conditions(ch)]
      <4>1. PICK batch \in SUBSET Ready(l, conds) : active' = [active EXCEPT ![l] = batch]
        BY <2>5 DEF PollConns, Poll
      <4>2. /\ \A c \in Ready(l, conds) \cap Conns : c \in registered /\ loopOf[c] = l
            /\ Ready(l, conds) \subseteq Channels \cup Loops
        BY LoopAssumption DEF Ready, TypeOK, PoolTypeOK, ChannelTypeOK, Threads
      <4> QED
        BY <4>1, <4>2 DEF TypeOK, PoolTypeOK, LoopTypeOK
    <3>2. pc'[l] \notin BusyLabels /\ UNCHANGED <<clients, loopOf>>
      BY <1>d, <2>5 DEF PollConns, Poll, Goto, TypeOK, PcTypeOK, tableVars
    <3> QED
      BY <1>b, <1>c, <2>1, <2>3, <3>1, <3>2 DEF RegisteredClient
  <2>6. CASE Accept(l)
    <3>1. PICK c \in backlog : /\ loopOf' = [loopOf EXCEPT ![c] = NextLoop(count)]
                               /\ Enter(l, c, "acc_lock")
      BY <2>6 DEF Accept
    <3>2. /\ c \in Conns /\ c \notin clients
          /\ cur'[l] = c /\ pc'[l] = "acc_lock" /\ UNCHANGED clients
          /\ \A d \in Conns \ {c} : loopOf'[d] = loopOf[d]
      BY <2>6, <3>1 DEF Accept, Enter, Goto, TypeOK, PcTypeOK, ConnTypeOK, NetTypeOK, PoolTypeOK,
         FreshOK, tableVars
    <3>3. Take(l, Listener)
      BY <2>6 DEF Accept
    <3>4. "acc_lock" \notin CloseLabels \cup {"rd_read"}
      BY DEF CloseLabels
    <3> QED
      BY <1>b, <1>c, <2>1, <2>2, <3>2, <3>3, <3>4
  <2>7. CASE AcceptFails(l)
    <3>1. Take(l, Listener) /\ UNCHANGED <<pc, cur, loopOf, clients>>
      BY <2>7 DEF AcceptFails, connVars, tableVars
    <3> QED
      BY <2>2, <3>1
  <2>8. CASE HandleNewConnection(l)
    <3>1. UNCHANGED <<loopOf, active>>
      BY <2>8 DEF HandleNewConnection, loopVars
    <3>2. pc'[l] \in AcceptLabels => cur'[l] = cur[l] /\ cur[l] \in clients'
      BY <2>8 DEF HandleNewConnection, AcceptInsert, AcceptAdd, AcceptSetState, AcceptConnected,
         AcceptLabels, BusyLabels, Throw, Goto, Enter, TypeOK, PcTypeOK, tableVars, connVars
    <3>3. pc'[l] \in AcceptLabels \cup {"for"} /\ clients \subseteq clients'
      BY <2>8 DEF HandleNewConnection, AcceptInsert, AcceptAdd, AcceptSetState, AcceptConnected,
         AcceptLabels, Throw, Goto, Enter, TypeOK, PcTypeOK, tableVars
    <3>4. AcceptLabels \cap (CloseLabels \cup {"rd_read"}) = {}
      BY DEF AcceptLabels, CloseLabels
    <3> QED
      BY <1>b, <1>c, <1>d, <2>1, <2>3, <3>1, <3>2, <3>3, <3>4
  <2>9. CASE \E c \in Conns : Dispatch(l, c)
    <3>1. PICK c \in Conns : Dispatch(l, c)
      BY <2>9
    <3>2. Take(l, c) /\ UNCHANGED <<clients, loopOf>>
      BY <3>1 DEF Dispatch, tableVars
    <3>3. CASE UNCHANGED <<pc, cur>>
      BY <2>2, <3>2, <3>3
    <3>4. CASE \E x \in {"cl_disable", "rd_read"} : Enter(l, c, x)
      <4>1. cur'[l] = c
        BY <3>4 DEF Enter, TypeOK, ConnTypeOK
      <4> QED
        BY <1>b, <1>c, <2>1, <2>2, <3>2, <4>1
    <3> QED
      BY <3>1, <3>3, <3>4 DEF Dispatch
  <2>10. CASE HandleRead(l)
    <3>1. /\ pc[l] = "rd_read" /\ UNCHANGED <<clients, loopOf, active>>
          /\ cur'[l] = cur[l] \/ pc'[l] \notin BusyLabels
          /\ pc'[l] \in CloseLabels \cup {"for"}
      BY <1>d, <2>10 DEF HandleRead, ReadData, ReadEof, ReadFails, Goto, Enter, TypeOK, PcTypeOK,
         ConnTypeOK, CloseLabels, loopVars, tableVars
    <3> QED
      BY <1>b, <1>c, <1>d, <2>1, <2>3, <3>1
  <2> QED
    BY <1>3, <2>4, <2>5, <2>6, <2>7, <2>8, <2>9, <2>10 DEF LoopThread
<1>4. ASSUME NEW t \in Threads, HandleClose(t) PROVE OwnerOK'
  <2>1. /\ pc[t] \in CloseLabels
        /\ pc'[t] \in CloseLabels \cup (IF t = Main THEN {"threw", "st_each"} ELSE {"for"})
        /\ \A u \in Threads \ {t} : pc'[u] = pc[u] /\ cur'[u] = cur[u]
        /\ loopOf' = loopOf /\ active' = active
    BY <1>4, CloseMoves DEF TypeOK, loopVars
  <2>2. pc'[t] \in CloseLabels => cur'[t] = cur[t]
    BY <1>4, CloseCur
  <2>3. t \in Loops /\ pc'[t] \notin CloseLabels => cur'[t] = Nil
    BY <1>a, <1>d, <2>1 DEF CurOK
  <2>4. CASE UNCHANGED clients
    <3>1. CASE t = Main
      BY <1>d, <2>1, <2>2, <2>4, <3>1
    <3>2. CASE t \in Loops
      <4>1. /\ pc'[t] \in BusyLabels => pc'[t] \in CloseLabels
            /\ pc[t] \in BusyLabels \ {"acc_lock"}
        BY <1>d, <2>1, <3>2 DEF BusyLabels, CloseLabels
      <4> QED
        BY <1>c, <2>1, <2>2, <2>3, <2>4, <3>2, <4>1
    <3> QED
      BY <3>1, <3>2
  <2>5. CASE CloseErase(t)
    <3>1. mutex = Nil /\ clients' = clients \ {cur[t]}
      BY <2>5 DEF CloseErase
    <3>2. t \in Loops /\ pc[Main] \notin CloseLabels
      BY <2>1, <3>1 DEF MutexOK
    <3>3. \A l \in Loops : pc[l] \notin {"acc_add", "acc_setstate", "acc_connected"}
      BY <3>1 DEF MutexOK
    <3>4. pc'[t] = "for"
      BY <2>5, <3>2 DEF CloseErase, Enter, Goto, TypeOK, PcTypeOK
    <3>5. \A l \in Loops \ {t} :
            /\ cur[t] \notin active[l]
            /\ pc[l] \in BusyLabels \ {"acc_lock"} => cur[l] # cur[t]
      BY <1>b, <2>1, <3>2, <3>3 DEF AcceptLabels
    <3> QED
      BY <1>b, <1>c, <1>d, <2>1, <2>3, <3>1, <3>2, <3>4, <3>5
  <2> QED
    BY <1>4, <2>4, <2>5, CloseTable
<1>5. CASE UNCHANGED vars
  BY <1>5 DEF vars, connVars, tableVars, loopVars
<1> QED
  BY <1>1, <1>2, <1>3, <1>4, <1>5 DEF Next

(* What a step does to the interest lists: the accepting thread adds its    *)
(* connection, handleClose adds or removes its own, and nobody else adds.   *)
LEMMA Registrations ==
  ASSUME IInv, Next
  PROVE  \/ registered' \cap Conns \subseteq registered
         \/ \E l \in Loops : pc[l] = "acc_add" /\ pc'[l] = "acc_setstate"
                             /\ registered' = registered \cup {cur[l]}
         \/ \E t \in Threads : pc[t] = "cl_add" /\ pc'[t] = "cl_setstate"
                               /\ HandleClose(t) /\ registered' = registered \cup {cur[t]}
<1> USE Distinct DEF IInv, TypeOK, PcTypeOK
<1>1. CASE MainThread \/ Program
  BY <1>1, MainMoves DEF TypeOK
<1>2. CASE Net
  BY <1>2 DEF Net, channelVars
<1>3. ASSUME NEW l \in Loops, LoopThread(l),
             ~(registered' \cap Conns \subseteq registered)
      PROVE  pc[l] = "acc_add" /\ pc'[l] = "acc_setstate" /\ registered' = registered \cup {cur[l]}
  <2>1. HandleNewConnection(l)
    BY <1>3 DEF LoopThread, WalkConns, PollConns, Accept, AcceptFails, Dispatch, HandleRead, channelVars
  <2>2. AcceptAdd(l)
    BY <1>3, <2>1 DEF HandleNewConnection, AcceptInsert, AcceptSetState, AcceptConnected, AskFor,
       SetStateAdd, channelVars
  <2>3. pc[l] = "acc_add" /\ CtlSucceeds("ADD", cur[l]) /\ Goto(l, "acc_setstate")
    BY <1>3, <2>2 DEF AcceptAdd, CtlThrows, channelVars
  <2> QED BY <2>3 DEF CtlSucceeds, Goto, Threads
<1>4. ASSUME NEW t \in Threads, HandleClose(t),
             ~(registered' \cap Conns \subseteq registered)
      PROVE  pc[t] = "cl_add" /\ pc'[t] = "cl_setstate" /\ registered' = registered \cup {cur[t]}
  <2>1. CloseAdd(t) \/ CloseMod(t) \/ CloseRemove(t)
    BY <1>4 DEF HandleClose, CloseDisable, CloseDangling, CloseSetState, CloseNotify, CloseErase,
       AskFor, SetStateAdd, channelVars
  <2>2. ~CloseMod(t) /\ ~CloseRemove(t)
    BY <1>4 DEF CloseMod, CloseRemove, CloseCtl, CtlSucceeds, CtlThrows, EpollAccepts, channelVars
  <2>3. pc[t] = "cl_add" /\ CtlSucceeds("ADD", cur[t]) /\ Goto(t, "cl_setstate")
    BY <1>4, <2>1, <2>2 DEF CloseAdd, CloseCtl, CtlThrows, channelVars
  <2> QED BY <2>3 DEF CtlSucceeds, Goto
<1> QED
  BY <1>1, <1>2, <1>3, <1>4 DEF Next

(* What a step does to clients_: the accepting thread inserts, handleClose  *)
(* on a loop's thread erases with mutex_ free, and nobody else changes it.  *)
LEMMA Membership ==
  ASSUME IInv, Next
  PROVE  \/ clients' = clients
         \/ \E l \in Loops : pc[l] = "acc_lock" /\ pc'[l] = "acc_add" /\ cur'[l] = cur[l]
                             /\ clients' = clients \cup {cur[l]} /\ mutex = Nil
                             /\ LoopThread(l)
         \/ \E l \in Loops : CloseErase(l) /\ HandleClose(l)
<1> USE Distinct DEF IInv
<1>1. CASE MainThread \/ Program
  BY <1>1, MainMoves
<1>2. CASE Net
  BY <1>2 DEF Net, tableVars
<1>3. ASSUME NEW l \in Loops, LoopThread(l), clients' # clients
      PROVE  /\ pc[l] = "acc_lock" /\ pc'[l] = "acc_add" /\ cur'[l] = cur[l]
             /\ clients' = clients \cup {cur[l]} /\ mutex = Nil
  BY <1>3 DEF LoopThread, WalkConns, PollConns, Accept, AcceptFails, HandleNewConnection, AcceptInsert,
     AcceptAdd, AcceptSetState, AcceptConnected, Dispatch, HandleRead, Throw, tableVars, Goto,
     TypeOK, PcTypeOK
<1>4. ASSUME NEW t \in Threads, HandleClose(t), clients' # clients
      PROVE  t \in Loops /\ CloseErase(t)
  <2>1. CloseErase(t)
    BY <1>4, CloseTable
  <2>2. t # Main
    BY <2>1 DEF CloseErase, MutexOK, CloseLabels
  <2> QED
    BY <2>1, <2>2
<1> QED
  BY <1>1, <1>2, <1>3, <1>4 DEF Next

(* Every step keeps RegisteredClient: an ADD is made for a client, and an   *)
(* erase comes after the remove(), with nobody left who could add it back.  *)
LEMMA RegisteredNext ==
  ASSUME IInv, [Next]_vars
  PROVE  RegisteredClient'
<1> USE Distinct DEF IInv, RegisteredClient
<1>1. CASE Next
  <2>1. CASE clients' = clients
    <3>1. CASE registered' \cap Conns \subseteq registered
      BY <2>1, <3>1
    <3>2. CASE \E l \in Loops : pc[l] = "acc_add" /\ registered' = registered \cup {cur[l]}
      BY <2>1, <3>2 DEF OwnerOK, BusyLabels, AcceptLabels
    <3>3. CASE \E t \in Threads : pc[t] = "cl_add" /\ registered' = registered \cup {cur[t]}
      BY <2>1, <3>3 DEF OwnerOK, BusyLabels, CloseLabels
    <3> QED
      BY <1>1, <3>1, <3>2, <3>3, Registrations
  <2>2. ASSUME NEW l \in Loops, pc[l] = "acc_lock", pc'[l] = "acc_add", LoopThread(l),
               clients' = clients \cup {cur[l]}
        PROVE  RegisteredClient'
    <3>1. UNCHANGED registered
      BY <2>2 DEF LoopThread, WalkConns, PollConns, Accept, AcceptFails, HandleNewConnection,
         AcceptInsert, AcceptAdd, AcceptSetState, AcceptConnected, Dispatch, HandleRead, AskFor,
         channelVars
    <3> QED
      BY <2>2, <3>1
  <2>3. ASSUME NEW l \in Loops, CloseErase(l), HandleClose(l)
        PROVE  RegisteredClient'
    <3>1. pc[l] = "cl_erase" /\ mutex = Nil /\ clients' = clients \ {cur[l]} /\ UNCHANGED registered
      BY <2>3 DEF CloseErase, channelVars
    <3>2. cur[l] \notin registered
      BY <3>1 DEF RemovedOK, MutexOK, CloseLabels
    <3> QED
      BY <3>1, <3>2
  <2> QED
    BY <1>1, <2>1, <2>2, <2>3, Membership
<1>2. CASE UNCHANGED vars
  BY <1>2 DEF vars, channelVars, tableVars
<1> QED
  BY <1>1, <1>2

(* Every step keeps RemovedOK: after a loop's remove() only stop() can      *)
(* register the connection again.                                           *)
LEMMA RemovedNext ==
  ASSUME IInv, [Next]_vars
  PROVE  RemovedOK'
<1> USE Distinct DEF IInv
<1>1. CASE UNCHANGED vars
  BY <1>1 DEF vars, channelVars, connVars, RemovedOK
<1>2. CASE Next
  <2> SUFFICES ASSUME NEW l \in Loops, pc'[l] \in {"cl_notify", "cl_erase"}
               PROVE  \/ cur'[l] \notin registered'
                      \/ cur'[Main] = cur'[l] /\ pc'[Main] \in {"cl_setstate", "cl_remove"}
    BY DEF RemovedOK
  <2>1. CASE HandleClose(l)
    <3>1. pc'[Main] = pc[Main] /\ cur'[Main] = cur[Main] /\ cur'[l] = cur[l]
      BY <2>1, CloseMoves, CloseCur DEF TypeOK, CloseLabels
    <3>2. CASE CloseRemove(l)
      BY <3>1, <3>2 DEF CloseRemove, CloseCtl, CtlSucceeds, Throw, Enter, Goto, TypeOK, PcTypeOK
    <3>3. CASE CloseNotify(l)
      BY <3>1, <3>3 DEF CloseNotify, channelVars, RemovedOK
    <3> QED
      BY <2>1, <3>2, <3>3 DEF HandleClose, CloseDisable, CloseDangling, CloseAdd, CloseMod,
         CloseCtl, CloseSetState, CloseErase, Throw, Enter, Goto, TypeOK, PcTypeOK
  <2>2. CASE ~HandleClose(l)
    <3>1. pc'[l] = pc[l] /\ cur'[l] = cur[l]
      <4>1. CASE MainThread \/ Program
        BY <4>1, MainMoves
      <4>2. CASE Net
        BY <4>2 DEF Net, connVars
      <4>3. ASSUME NEW k \in Loops, LoopThread(k) PROVE pc'[l] = pc[l] /\ cur'[l] = cur[l]
        <5>1. CASE k # l
          BY <4>3, <5>1, LoopMoves DEF TypeOK
        <5>2. CASE k = l
          BY <4>3, <5>2 DEF LoopThread, WalkConns, LoopStep, CheckQuit, PollInterrupted,
             HandleWakeup, EndBatch, PollConns, Poll, Accept, AcceptFails, HandleNewConnection,
             AcceptInsert, AcceptAdd, AcceptSetState, AcceptConnected, Dispatch, HandleRead,
             ReadData, ReadEof, ReadFails, Throw, Take, Enter, Goto, TypeOK, PcTypeOK, connVars
        <5> QED
          BY <5>1, <5>2
      <4>4. ASSUME NEW t \in Threads, HandleClose(t) PROVE pc'[l] = pc[l] /\ cur'[l] = cur[l]
        BY <2>2, <4>4, CloseMoves DEF TypeOK
      <4> QED
        BY <1>2, <4>1, <4>2, <4>3, <4>4 DEF Next
    <3>2. pc[l] \in CloseLabels /\ cur[l] \in Conns /\ loopOf[cur[l]] = l
      BY <3>1 DEF CloseLabels, OwnerOK, CurOK, BusyLabels, TypeOK, ConnTypeOK
    <3>3. CASE cur[l] \notin registered
      <4>1. ASSUME NEW k \in Loops, pc[k] = "acc_add" PROVE cur[k] # cur[l]
        BY <3>1, <4>1 DEF FreshOK
      <4>2. ASSUME NEW k \in Loops, pc[k] = "cl_add" PROVE cur[k] # cur[l]
        BY <3>1, <3>2, <4>2 DEF OwnerOK, CloseLabels
      <4>3. ASSUME pc[Main] = "cl_add", pc'[Main] = "cl_setstate", HandleClose(Main)
            PROVE  cur'[Main] = cur[Main]
        BY <4>3, CloseCur DEF TypeOK, CloseLabels
      <4> QED
        BY <1>2, <3>1, <3>2, <3>3, <4>1, <4>2, <4>3, Registrations
    <3>4. CASE cur[Main] = cur[l] /\ pc[Main] \in {"cl_setstate", "cl_remove"}
      <4>1. CASE HandleClose(Main)
        <5>1. CASE CloseSetState(Main)
          BY <3>1, <3>4, <5>1 DEF CloseSetState, Goto, TypeOK, PcTypeOK, connVars
        <5>2. CASE CloseRemove(Main)
          BY <3>1, <3>4, <5>2 DEF CloseRemove, CloseCtl, CtlSucceeds, CtlThrows, EpollAccepts,
             channelVars
        <5> QED
          BY <3>4, <4>1, <5>1, <5>2 DEF HandleClose, CloseDisable, CloseDangling, CloseAdd,
             CloseMod, CloseCtl, CloseNotify, CloseErase
      <4>2. CASE ~HandleClose(Main)
        <5>1. ASSUME NEW k \in Loops, LoopThread(k) \/ HandleClose(k)
              PROVE  pc'[Main] = pc[Main] /\ cur'[Main] = cur[Main]
          BY <5>1, LoopMoves, CloseMoves DEF TypeOK
        <5>2. ~(MainThread \/ Program)
          BY <3>4, MainMoves DEF CloseLabels
        <5>3. Net => pc'[Main] = pc[Main] /\ cur'[Main] = cur[Main]
          BY DEF Net, connVars
        <5> QED
          BY <1>2, <3>1, <3>4, <4>2, <5>1, <5>2, <5>3 DEF Next
      <4> QED
        BY <4>1, <4>2
    <3> QED
      BY <3>1, <3>3, <3>4 DEF RemovedOK
  <2> QED
    BY <2>1, <2>2
<1> QED
  BY <1>1, <1>2

(* What a step does to the kernel's side of a connection: only a peer that  *)
(* has never dialled enters the backlog, and a peer never comes back.       *)
LEMMA PeerMoves ==
  ASSUME IInv, Next, NEW c \in Conns
  PROVE  /\ peer'[c] = "none" => peer[c] = "none"
         /\ c \in backlog' => c \in backlog \/ (peer[c] = "none" /\ peer'[c] # "none")
<1> USE Distinct DEF IInv, TypeOK, NetTypeOK
<1>1. CASE MainThread \/ Program
  BY <1>1, MainMoves DEF TypeOK
<1>2. CASE Net
  BY <1>2 DEF Net, Dial, PeerSend, PeerClose, PeerReset
<1>3. ASSUME NEW l \in Loops, LoopThread(l)
      PROVE  (peer'[c] = "none" => peer[c] = "none") /\ backlog' \subseteq backlog
  BY <1>3 DEF LoopThread, WalkConns, PollConns, Accept, AcceptFails, HandleNewConnection, Dispatch,
     HandleRead, ReadData, ReadEof, ReadFails, netVars
<1>4. ASSUME NEW t \in Threads, HandleClose(t) PROVE UNCHANGED <<peer, backlog>>
  BY <1>4 DEF HandleClose, netVars
<1> QED
  BY <1>1, <1>2, <1>3, <1>4 DEF Next

(* How a thread comes to work on a connection: from the backlog in          *)
(* Acceptor::handleRead, from its batch, or from clients_ inside stop().    *)
LEMMA CurMoves ==
  ASSUME IInv, Next, NEW t \in Threads, cur'[t] # cur[t], cur'[t] # Nil
  PROVE  \/ t \in Loops /\ Accept(t)
         \/ t \in Loops /\ cur'[t] \in active[t] \cap Conns
         \/ t = Main /\ pc[Main] = "st_each" /\ cur'[t] \in clients
<1> USE Distinct DEF IInv, TypeOK, ConnTypeOK
<1>1. CASE MainThread \/ Program
  BY <1>1, MainMoves DEF TypeOK
<1>2. CASE Net
  BY <1>2 DEF Net, connVars
<1>3. ASSUME NEW l \in Loops, LoopThread(l), ~Accept(l)
      PROVE  t = l /\ cur'[t] \in active[t] \cap Conns
  <2>1. t = l
    BY <1>3, LoopMoves DEF TypeOK
  <2>2. ASSUME NEW c \in Conns, Dispatch(l, c) PROVE cur'[l] = c /\ c \in active[l]
    BY <2>1, <2>2 DEF Dispatch, Take, Enter
  <2> QED
    BY <1>3, <2>1, <2>2 DEF LoopThread, WalkConns, PollConns, AcceptFails, HandleNewConnection,
       AcceptInsert, AcceptAdd, AcceptSetState, AcceptConnected, HandleRead, ReadData, ReadEof,
       ReadFails, Throw, Enter, connVars
<1>4. ASSUME NEW l \in Loops, LoopThread(l), Accept(l) PROVE t = l
  BY <1>4, LoopMoves DEF TypeOK
<1>5. ASSUME NEW u \in Threads, HandleClose(u) PROVE FALSE
  <2>1. t = u /\ pc'[t] \notin CloseLabels
    BY <1>5, CloseMoves, CloseCur DEF TypeOK
  <2>2. pc'[t] \notin BusyLabels
    BY <1>5, <2>1, CloseMoves DEF TypeOK, BusyLabels, AcceptLabels, CloseLabels
  <2> QED
    BY <2>2, CurNext DEF CurOK
<1> QED
  BY <1>1, <1>2, <1>3, <1>4, <1>5 DEF Next

(* A batch only ever takes in registered connections. *)
LEMMA BatchMoves ==
  ASSUME IInv, Next, NEW k \in Loops, NEW c \in active'[k] \cap Conns
  PROVE  c \in active[k] \cup registered
<1> USE Distinct DEF IInv, TypeOK, PoolTypeOK, LoopTypeOK
<1>1. CASE MainThread \/ Program
  BY <1>1, MainMoves DEF TypeOK
<1>2. CASE Net
  BY <1>2 DEF Net, loopVars
<1>3. ASSUME NEW l \in Loops, LoopThread(l) PROVE c \in active[k] \cup registered
  <2>1. CASE PollConns(l)
    <3> DEFINE conds == [ch \in Channels |-> Conditions(ch)]
    <3>1. PICK batch \in SUBSET Ready(l, conds) : active' = [active EXCEPT ![l] = batch]
      BY <2>1 DEF PollConns, Poll
    <3>2. Ready(l, conds) \cap Conns \subseteq registered
      BY LoopAssumption DEF Ready
    <3> QED
      BY <3>1, <3>2
  <2>2. CASE ~PollConns(l)
    BY <1>3, <2>2 DEF LoopThread, WalkConns, LoopStep, CheckQuit, PollInterrupted, HandleWakeup,
       EndBatch, Accept, AcceptFails, HandleNewConnection, Dispatch, HandleRead, Take, loopVars
  <2> QED
    BY <2>1, <2>2
<1>4. ASSUME NEW t \in Threads, HandleClose(t) PROVE UNCHANGED active
  BY <1>4 DEF HandleClose, loopVars
<1> QED
  BY <1>1, <1>2, <1>3, <1>4 DEF Next

(* How a thread comes to be setting up a connection that is not registered  *)
(* yet: it has just accepted it, or it was at it already.                   *)
LEMMA SetupMoves ==
  ASSUME IInv, Next, NEW l \in Loops, pc'[l] \in {"acc_lock", "acc_add"}
  PROVE  \/ Accept(l)
         \/ /\ cur'[l] = cur[l]
            /\ pc[l] \in {"acc_lock", "acc_add"}
            /\ pc'[l] = "acc_lock" => pc[l] = "acc_lock"
<1> USE Distinct DEF IInv
<1>1. CASE MainThread \/ Program
  BY <1>1, MainMoves
<1>2. CASE Net
  BY <1>2 DEF Net, connVars
<1>3. ASSUME NEW k \in Loops, LoopThread(k), k # l
      PROVE  pc'[l] = pc[l] /\ cur'[l] = cur[l]
  BY <1>3, LoopMoves DEF TypeOK
<1>4. CASE LoopThread(l)
  BY <1>4 DEF LoopThread, WalkConns, LoopStep, CheckQuit, PollInterrupted, HandleWakeup, EndBatch,
     PollConns, Poll, AcceptFails, HandleNewConnection, AcceptInsert, AcceptAdd, AcceptSetState,
     AcceptConnected, Dispatch, HandleRead, ReadData, ReadEof, ReadFails, Throw, Take, Enter,
     Goto, TypeOK, PcTypeOK, connVars
<1>5. ASSUME NEW t \in Threads, HandleClose(t) PROVE pc'[l] = pc[l] /\ cur'[l] = cur[l]
  BY <1>5, CloseMoves DEF TypeOK, CloseLabels
<1> QED
  BY <1>1, <1>2, <1>3, <1>4, <1>5 DEF Next

(* Nobody but the accepting thread learns of a connection before it is      *)
(* registered: the others get theirs from the backlog, from the interest    *)
(* lists or, under mutex_, from clients_.                                   *)
LEMMA FreshNext ==
  ASSUME IInv, [Next]_vars
  PROVE  FreshOK'
<1> USE Distinct DEF IInv
<1>1. CASE UNCHANGED vars
  BY <1>1 DEF vars, channelVars, connVars, tableVars, netVars, loopVars, FreshOK
<1>2. CASE Next
  <2>a. cur' \in [Threads -> Conns \cup {Nil}] /\ backlog' \subseteq Conns /\ backlog \subseteq Conns
        /\ cur \in [Threads -> Conns \cup {Nil}]
    BY TypeNext DEF TypeOK, ConnTypeOK, NetTypeOK
  <2>b. \A c \in clients' \ clients : \E l \in Loops : c = cur[l] /\ c # Nil /\ pc[l] = "acc_lock"
                                                       /\ pc'[l] = "acc_add"
    BY <1>2, Membership DEF CloseErase, CurOK, BusyLabels, AcceptLabels
  <2>c. \A l \in Loops : active[l] \cap Conns \subseteq clients
    BY DEF OwnerOK
  <2>1. \A c \in Conns : peer'[c] = "none" => c \notin backlog' \cup clients'
    BY <1>2, <2>b, PeerMoves DEF FreshOK
  <2>2. backlog' \cap clients' = {}
    BY <1>2, <2>a, <2>b, PeerMoves DEF FreshOK
  <2>x. ASSUME NEW l \in Loops, Accept(l)
        PROVE  /\ cur'[l] \in backlog /\ cur'[l] \notin backlog'
               /\ UNCHANGED <<clients, registered>>
               /\ \A k \in Loops : active'[k] \subseteq active[k]
    BY <2>x DEF Accept, Enter, Take, tableVars, channelVars, TypeOK, ConnTypeOK, PoolTypeOK,
       LoopTypeOK
  <2>3. ASSUME NEW t \in Threads, cur'[t] # Nil
        PROVE  cur'[t] \notin backlog' /\ peer'[cur'[t]] # "none"
    <3>1. cur'[t] \in Conns
      BY <2>3, <2>a
    <3>2. CASE cur'[t] = cur[t]
      BY <1>2, <2>3, <3>1, <3>2, PeerMoves DEF FreshOK
    <3>3. CASE t \in Loops /\ Accept(t)
      BY <1>2, <2>x, <3>1, <3>3, PeerMoves DEF FreshOK
    <3>4. CASE cur'[t] \in clients
      BY <1>2, <3>1, <3>4, PeerMoves DEF FreshOK
    <3> QED
      BY <1>2, <2>3, <2>c, <3>2, <3>3, <3>4, CurMoves
  <2>4. ASSUME NEW l \in Loops, pc'[l] \in {"acc_lock", "acc_add"}
        PROVE  /\ cur'[l] \notin registered'
               /\ pc'[l] = "acc_lock" => cur'[l] \notin clients'
               /\ \A t \in Threads \ {l} : cur'[t] # cur'[l]
               /\ \A k \in Loops : cur'[l] \notin active'[k]
    <3>1. cur'[l] \in Conns
      BY <2>4, <2>a, CurNext DEF CurOK, BusyLabels, AcceptLabels
    <3>2. CASE Accept(l)
      <4>1. cur'[l] \notin clients
        BY <2>x, <3>2 DEF FreshOK
      <4>2. \A t \in Threads \ {l} : cur'[t] = cur[t]
        BY <3>2, LoopMoves DEF LoopThread, TypeOK
      <4>3. \A t \in Threads : cur[t] # cur'[l]
        BY <2>x, <3>1, <3>2 DEF FreshOK
      <4> QED
        BY <2>c, <2>x, <3>1, <3>2, <4>1, <4>2, <4>3 DEF RegisteredClient
    <3>3. CASE /\ cur'[l] = cur[l] /\ pc[l] \in {"acc_lock", "acc_add"}
               /\ pc'[l] = "acc_lock" => pc[l] = "acc_lock"
      <4>1. /\ cur[l] \notin registered /\ cur[l] # Nil /\ cur[l] \notin backlog
            /\ pc[l] = "acc_lock" => cur[l] \notin clients
            /\ \A t \in Threads \ {l} : cur[t] # cur[l]
            /\ \A k \in Loops : cur[l] \notin active[k]
        BY <3>1, <3>3 DEF FreshOK
      <4>2. cur[l] \notin registered'
        BY <1>2, <2>4, <3>1, <3>3, <4>1, Registrations
      <4>3. pc'[l] = "acc_lock" => cur[l] \notin clients'
        BY <2>b, <3>3, <4>1
      <4>4. ASSUME NEW t \in Threads \ {l} PROVE cur'[t] # cur[l]
        <5>1. CASE pc[Main] = "st_each" /\ cur'[t] \in clients
          BY <3>3, <4>1, <5>1 DEF MutexOK
        <5>2. CASE t \in Loops /\ Accept(t)
          BY <2>x, <4>1, <5>2
        <5> QED
          BY <1>2, <4>1, <5>1, <5>2, CurMoves
      <4>5. \A k \in Loops : cur[l] \notin active'[k]
        BY <1>2, <3>1, <3>3, <4>1, BatchMoves
      <4> QED
        BY <3>3, <4>2, <4>3, <4>4, <4>5
    <3> QED
      BY <1>2, <2>4, <3>2, <3>3, SetupMoves
  <2> QED
    BY <2>1, <2>2, <2>3, <2>4 DEF FreshOK
<1> QED
  BY <1>1, <1>2

-----------------------------------------------------------------------------
(* CloseInv, on top of IInv. *)

(* A thread inside handleClose stands still while the others move.          *)
LEMMA CloseStands ==
  ASSUME IInv, Next, NEW t \in Threads, pc[t] \in CloseLabels, ~HandleClose(t)
  PROVE  pc'[t] = pc[t] /\ cur'[t] = cur[t]
<1> USE Distinct DEF IInv
<1>1. CASE MainThread \/ Program
  <2>1. t \in Loops
    BY <1>1, MainMoves
  <2> QED
    BY <1>1, <2>1, MainMoves DEF CloseLabels
<1>2. CASE Net
  BY <1>2 DEF Net, connVars
<1>3. ASSUME NEW k \in Loops, LoopThread(k) PROVE pc'[t] = pc[t] /\ cur'[t] = cur[t]
  <2>1. k # t
    BY <1>3 DEF LoopThread, WalkConns, LoopStep, CheckQuit, PollInterrupted, HandleWakeup,
       EndBatch, PollConns, Poll, Accept, AcceptFails, HandleNewConnection, AcceptInsert,
       AcceptAdd, AcceptSetState, AcceptConnected, Dispatch, HandleRead, Take, CloseLabels
  <2> QED
    BY <1>3, <2>1, LoopMoves DEF TypeOK
<1>4. ASSUME NEW u \in Threads, HandleClose(u) PROVE pc'[t] = pc[t] /\ cur'[t] = cur[t]
  BY <1>4, CloseMoves DEF TypeOK
<1> QED
  BY <1>1, <1>2, <1>3, <1>4 DEF Next

(* A thread past its EPOLL_CTL_ADD goes on to onConnected and leaves.       *)
LEMMA ConnectedStands ==
  ASSUME IInv, Next, NEW t \in Threads, pc[t] \in {"acc_setstate", "acc_connected"}
  PROVE  pc'[t] \in {"acc_setstate", "acc_connected"} \/ cur'[t] = Nil
<1> USE Distinct DEF IInv
<1>a. t \in Loops
  BY DEF TypeOK, PcTypeOK, MainThreadLabels, OwnerLabels, MainLabels, CloseLabels
<1>1. CASE MainThread \/ Program
  BY <1>a, <1>1, MainMoves
<1>2. CASE Net
  BY <1>2 DEF Net
<1>3. ASSUME NEW k \in Loops, LoopThread(k), k # t PROVE pc'[t] = pc[t]
  BY <1>3, LoopMoves DEF TypeOK
<1>4. CASE LoopThread(t)
  <2>1. AcceptSetState(t) \/ AcceptConnected(t)
    BY <1>4 DEF LoopThread, WalkConns, LoopStep, CheckQuit, PollInterrupted, HandleWakeup,
       EndBatch, PollConns, Poll, Accept, AcceptFails, HandleNewConnection, AcceptInsert,
       AcceptAdd, Dispatch, HandleRead, Take
  <2> QED
    BY <2>1 DEF AcceptSetState, AcceptConnected, Goto, Enter, TypeOK, PcTypeOK, ConnTypeOK
<1>5. ASSUME NEW u \in Threads, HandleClose(u) PROVE pc'[t] = pc[t]
  BY <1>5, CloseMoves DEF TypeOK, CloseLabels
<1> QED
  BY <1>1, <1>2, <1>3, <1>4, <1>5 DEF Next

(* Who sets channelEvent_ of a connection: enableRead() of the accepting    *)
(* thread and disableAll() of handleClose.                                  *)
LEMMA AskMoves ==
  ASSUME IInv, Next, NEW c \in Conns, channelEvent'[c] # channelEvent[c]
  PROVE  \E t \in Threads : cur[t] = c /\ pc[t] \in {"acc_lock", "cl_disable"}
<1> USE Distinct DEF IInv, TypeOK, PoolTypeOK, ChannelTypeOK
<1>1. CASE MainThread \/ Program
  <2>1. ~Start
    BY DEF Start, AskFor
  <2> QED
    BY <1>1, <2>1 DEF MainThread, Program, BindFails, StartListen, Listen, ListenSetState,
       CtlSucceeds, CtlThrows, SetStateAdd, StartOrStopPool, PoolClear, StopClients,
       StopAcceptor, channelVars
<1>2. CASE Net
  BY <1>2 DEF Net, channelVars
<1>3. ASSUME NEW l \in Loops, LoopThread(l) PROVE cur[l] = c /\ pc[l] = "acc_lock"
  <2>1. HandleNewConnection(l)
    BY <1>3 DEF LoopThread, WalkConns, PollConns, Accept, AcceptFails, Dispatch, HandleRead,
       channelVars
  <2>2. AcceptInsert(l)
    BY <2>1 DEF HandleNewConnection, AcceptAdd, AcceptSetState, AcceptConnected, CtlSucceeds,
       CtlThrows, SetStateAdd, channelVars
  <2> QED
    BY <2>2 DEF AcceptInsert, AskFor
<1>4. ASSUME NEW t \in Threads, HandleClose(t) PROVE cur[t] = c /\ pc[t] = "cl_disable"
  <2>1. CloseDisable(t)
    BY <1>4 DEF HandleClose, CloseDangling, CloseAdd, CloseMod, CloseRemove, CloseCtl,
       CloseSetState, CloseNotify, CloseErase, CtlSucceeds, CtlThrows, SetStateAdd, channelVars
  <2> QED
    BY <2>1 DEF CloseDisable, AskFor
<1> QED
  BY <1>1, <1>2, <1>3, <1>4, Distinct DEF Next

(* Every step keeps AskOK: nobody else knows the connection yet.            *)
LEMMA AskNext ==
  ASSUME IInv, AskOK, [Next]_vars
  PROVE  AskOK'
<1> USE Distinct DEF IInv
<1>1. CASE UNCHANGED vars
  BY <1>1 DEF vars, channelVars, connVars, AskOK
<1>2. CASE Next
  <2> SUFFICES ASSUME NEW l \in Loops, pc'[l] = "acc_add"
               PROVE  channelEvent'[cur'[l]] = READ
    BY DEF AskOK
  <2>1. ~Accept(l)
    BY DEF Accept, Enter, Goto, TypeOK, PcTypeOK
  <2>2. cur'[l] = cur[l] /\ pc[l] \in {"acc_lock", "acc_add"}
    BY <1>2, <2>1, SetupMoves
  <2>3. cur[l] \in Conns
    BY <2>2 DEF CurOK, BusyLabels, AcceptLabels, TypeOK, ConnTypeOK
  <2>4. CASE pc[l] = "acc_add"
    <3>1. channelEvent'[cur[l]] = channelEvent[cur[l]]
      BY <1>2, <2>3, <2>4, AskMoves DEF FreshOK
    <3> QED
      BY <2>2, <2>4, <3>1 DEF AskOK
  <2>5. CASE pc[l] = "acc_lock"
    <3>1. ~(MainThread \/ Program) /\ ~Net
      BY <2>5, MainMoves DEF Net
    <3>2. ASSUME NEW k \in Loops, LoopThread(k) PROVE k = l
      BY <2>5, <3>2, LoopMoves DEF TypeOK
    <3>3. ASSUME NEW u \in Threads, HandleClose(u) PROVE FALSE
      BY <2>5, <3>3, CloseMoves DEF TypeOK, CloseLabels
    <3>4. LoopThread(l)
      BY <1>2, <3>1, <3>2, <3>3 DEF Next
    <3>5. AcceptInsert(l)
      BY <2>5, <3>4 DEF LoopThread, WalkConns, LoopStep, CheckQuit, PollInterrupted,
         HandleWakeup, EndBatch, PollConns, Poll, Accept, AcceptFails, HandleNewConnection,
         AcceptAdd, AcceptSetState, AcceptConnected, Dispatch, HandleRead, Take
    <3> QED
      BY <2>2, <2>3, <3>5 DEF AcceptInsert, AskFor, TypeOK, PoolTypeOK, ChannelTypeOK
  <2> QED
    BY <2>2, <2>4, <2>5
<1> QED
  BY <1>1, <1>2

(* What a step installs in the interest lists: the accepting thread what    *)
(* enableRead() asked for, and handleClose what it is about to remove.      *)
LEMMA MaskMoves ==
  ASSUME IInv, Next, NEW c \in Conns, c \in registered',
         c \notin registered \/ mask'[c] # mask[c]
  PROVE  \/ \E l \in Loops : pc[l] = "acc_add" /\ cur[l] = c /\ mask'[c] = channelEvent[c]
         \/ \E t \in Threads : cur'[t] = c /\ pc'[t] \in {"cl_setstate", "cl_remove"}
<1> USE Distinct DEF IInv, TypeOK, PoolTypeOK, ChannelTypeOK
<1>1. CASE MainThread \/ Program
  <2>1. c \in registered
    BY <1>1, MainMoves DEF TypeOK
  <2>2. mask'[c] = mask[c]
    BY <1>1 DEF MainThread, Program, Start, BindFails, StartListen, Listen, ListenSetState,
       AskFor, CtlSucceeds, CtlThrows, SetStateAdd, StartOrStopPool, PoolClear, StopClients,
       StopAcceptor, channelVars
  <2> QED
    BY <2>1, <2>2
<1>2. CASE Net
  BY <1>2 DEF Net, channelVars
<1>3. ASSUME NEW l \in Loops, LoopThread(l)
      PROVE  pc[l] = "acc_add" /\ cur[l] = c /\ mask'[c] = channelEvent[c]
  <2>1. HandleNewConnection(l)
    BY <1>3 DEF LoopThread, WalkConns, PollConns, Accept, AcceptFails, Dispatch, HandleRead,
       channelVars
  <2>2. AcceptAdd(l)
    BY <2>1 DEF HandleNewConnection, AcceptInsert, AcceptSetState, AcceptConnected, AskFor,
       SetStateAdd, channelVars
  <2>3. pc[l] = "acc_add" /\ CtlSucceeds("ADD", cur[l])
    BY <2>2 DEF AcceptAdd, CtlThrows, channelVars
  <2> QED
    BY <2>3 DEF CtlSucceeds
<1>4. ASSUME NEW t \in Threads, HandleClose(t)
      PROVE  cur'[t] = c /\ pc'[t] \in {"cl_setstate", "cl_remove"}
  <2>1. CloseAdd(t) \/ CloseMod(t) \/ CloseRemove(t)
    BY <1>4 DEF HandleClose, CloseDisable, CloseDangling, CloseSetState, CloseNotify, CloseErase,
       AskFor, SetStateAdd, channelVars
  <2>2. PICK opt \in {"ADD", "MOD", "DEL"}, next \in {"cl_setstate", "cl_remove", "cl_notify"} :
          /\ CtlSucceeds(opt, cur[t]) /\ Goto(t, next) /\ UNCHANGED cur
          /\ opt # "DEL" => next \in {"cl_setstate", "cl_remove"}
    BY <2>1 DEF CloseAdd, CloseMod, CloseRemove, CloseCtl, CtlThrows, channelVars, connVars
  <2>3. c = cur[t] /\ opt # "DEL"
    BY <2>2 DEF CtlSucceeds
  <2> QED
    BY <2>2, <2>3 DEF Goto, PcTypeOK
<1> QED
  BY <1>1, <1>2, <1>3, <1>4 DEF Next

(* Every step keeps NoDeafConnection: handleClose leaves the connection it  *)
(* has made deaf only when the kernel has forgotten it.                     *)
LEMMA DeafNext ==
  ASSUME IInv, AskOK, NoDeafConnection, [Next]_vars
  PROVE  NoDeafConnection'
<1> USE Distinct DEF IInv
<1>1. CASE UNCHANGED vars
  BY <1>1 DEF vars, channelVars, connVars, NoDeafConnection
<1>2. CASE Next
  <2> SUFFICES ASSUME NEW c \in Conns, c \in registered', mask'[c] = NONE
               PROVE  \E t \in Threads : cur'[t] = c /\ pc'[t] \in {"cl_setstate", "cl_remove"}
    BY DEF NoDeafConnection
  <2>1. CASE c \notin registered \/ mask'[c] # mask[c]
    <3>1. ASSUME NEW l \in Loops, pc[l] = "acc_add", cur[l] = c, mask'[c] = channelEvent[c]
          PROVE  FALSE
      BY <3>1 DEF AskOK, READ, NONE
    <3> QED
      BY <1>2, <2>1, <3>1, MaskMoves
  <2>2. CASE c \in registered /\ mask'[c] = mask[c]
    <3>1. PICK t \in Threads : cur[t] = c /\ pc[t] \in {"cl_setstate", "cl_remove"}
      BY <2>2 DEF NoDeafConnection
    <3>2. CASE HandleClose(t)
      <4>1. ~CloseRemove(t)
        BY <2>2, <3>1 DEF CloseRemove, CloseCtl, CtlSucceeds, CtlThrows, EpollAccepts
      <4>2. CloseSetState(t)
        BY <3>1, <3>2, <4>1 DEF HandleClose, CloseDisable, CloseDangling, CloseAdd, CloseMod,
           CloseCtl, CloseNotify, CloseErase
      <4> QED
        BY <3>1, <4>2 DEF CloseSetState, Goto, connVars, TypeOK, PcTypeOK
    <3>3. CASE ~HandleClose(t)
      BY <1>2, <3>1, <3>3, CloseStands DEF CloseLabels
    <3> QED
      BY <3>2, <3>3
  <2> QED
    BY <2>1, <2>2
<1> QED
  BY <1>1, <1>2

(* onClose is called by handleClose only, for the connection it runs on.    *)
LEMMA NotifyMoves ==
  ASSUME IInv, Next, NEW c \in Conns, notified'[c] # notified[c]
  PROVE  /\ notified'[c] = notified[c] + 1
         /\ \E t \in Threads : HandleClose(t) /\ CloseNotify(t) /\ cur[t] = c
<1> USE Distinct DEF IInv, TypeOK, ConnTypeOK
<1>1. ~(MainThread \/ Program)
  BY DEF MainThread, Program, Start, BindFails, StartListen, StartOrStopPool, StopClients,
     StopAcceptor, connVars
<1>2. ~Net
  BY DEF Net, connVars
<1>3. ASSUME NEW l \in Loops, LoopThread(l) PROVE FALSE
  BY <1>3 DEF LoopThread, WalkConns, PollConns, Accept, AcceptFails, HandleNewConnection,
     AcceptInsert, AcceptAdd, AcceptSetState, AcceptConnected, Dispatch, HandleRead, connVars
<1>4. ASSUME NEW t \in Threads, HandleClose(t)
      PROVE  CloseNotify(t) /\ cur[t] = c /\ notified'[c] = notified[c] + 1
  <2>1. CloseNotify(t)
    BY <1>4 DEF HandleClose, CloseDisable, CloseDangling, CloseAdd, CloseMod, CloseRemove,
       CloseCtl, CloseSetState, CloseErase, connVars
  <2> QED
    BY <2>1 DEF CloseNotify
<1> QED
  BY <1>1, <1>2, <1>3, <1>4 DEF Next

(* A stop that has been asked for stays asked for.                          *)
LEMMA StopForGood ==
  ASSUME IInv, Next, StopRequested
  PROVE  StopRequested'
<1> USE Distinct DEF IInv, TypeOK, PcTypeOK, StopRequested
<1>1. CASE MainThread
  <2>1. CASE Start \/ BindFails \/ StartListen
    BY <2>1 DEF Start, BindFails, StartListen, Listen, ListenSetState
  <2>2. CASE StartOrStopPool
    <3>1. ~PoolStart /\ ~PoolStarted
      BY DEF PoolStart, PoolStarted
    <3> QED
      BY <2>2, <3>1 DEF StartOrStopPool, PoolStep, PoolQuit, PoolWakeup, PoolStopped, PoolJoin,
         PoolClear, Goto
  <2>3. CASE StopClients \/ StopAcceptor
    BY <2>3 DEF StopClients, StopLock, StopClient, StopClear, StopAcceptor, Goto, Enter
  <2> QED
    BY <1>1, <2>1, <2>2, <2>3 DEF MainThread
<1>2. CASE Program
  BY <1>2 DEF Program, BeginStop, Destroy, Restart, Goto
<1>3. CASE Net
  BY <1>3 DEF Net
<1>4. ASSUME NEW l \in Loops, LoopThread(l) PROVE StopRequested'
  BY <1>4, LoopMoves DEF TypeOK
<1>5. ASSUME NEW t \in Threads, HandleClose(t) PROVE StopRequested'
  <2>1. t = Main \/ pc'[Main] = pc[Main]
    BY <1>5, CloseMoves
  <2>2. t = Main => pc'[Main] \in CloseLabels \cup {"threw", "st_each"}
    BY <1>5, CloseMoves
  <2> QED
    BY <2>1, <2>2 DEF CloseLabels
<1> QED
  BY <1>1, <1>2, <1>3, <1>4, <1>5 DEF Next

(* Every step keeps OnceOK: when a loop calls onClose the connection is off *)
(* the interest list and nobody but the accepting thread, past its ADD, can *)
(* still be at it.                                                          *)
LEMMA OnceNext ==
  ASSUME IInv, OnceOK, [Next]_vars
  PROVE  OnceOK'
<1> USE Distinct DEF IInv
<1>1. CASE UNCHANGED vars
  BY <1>1 DEF vars, channelVars, connVars, netVars, loopVars, OnceOK, StopRequested
<1>2. CASE Next
  <2>1. ASSUME NEW c \in Conns, peer'[c] = "none" \/ c \in backlog'
        PROVE  notified'[c] = 0
    <3>1. peer[c] = "none" \/ c \in backlog
      BY <1>2, <2>1, PeerMoves
    <3>2. \A t \in Threads : cur[t] # c
      BY <3>1 DEF FreshOK
    <3>3. notified'[c] = notified[c]
      BY <1>2, <3>2, NotifyMoves
    <3> QED
      BY <3>1, <3>3 DEF OnceOK
  <2>2. ASSUME ~StopRequested', NEW c \in Conns
        PROVE  /\ notified'[c] <= 1
               /\ notified'[c] = 1 =>
                    /\ c \notin registered'
                    /\ \A l \in Loops : c \notin active'[l]
                    /\ \A t \in Threads : cur'[t] = c =>
                         pc'[t] \in {"acc_setstate", "acc_connected", "cl_erase"}
    <3>1. ~StopRequested
      BY <1>2, <2>2, StopForGood
    <3>2. pc[Main] \notin BusyLabels /\ pc[Main] # "st_each" /\ cur[Main] = Nil
      BY <3>1 DEF StopRequested, BusyLabels, AcceptLabels, CloseLabels, CurOK
    <3>3. /\ notified[c] \in Nat /\ notified[c] <= 1
          /\ notified[c] = 1 =>
               /\ c \notin registered
               /\ \A l \in Loops : c \notin active[l]
               /\ \A t \in Threads : cur[t] = c =>
                    pc[t] \in {"acc_setstate", "acc_connected", "cl_erase"}
      BY <3>1 DEF OnceOK, TypeOK, ConnTypeOK
    <3>4. CASE notified'[c] # notified[c]
      <4>1. PICK t \in Threads : HandleClose(t) /\ CloseNotify(t) /\ cur[t] = c
        BY <1>2, <3>4, NotifyMoves
      <4>2. pc[t] = "cl_notify" /\ t \in Loops /\ UNCHANGED <<registered, active>>
        BY <3>2, <4>1 DEF CloseNotify, HandleClose, BusyLabels, CloseLabels, channelVars, loopVars
      <4>3. notified'[c] = 1
        <5>1. notified[c] # 1
          BY <3>3, <4>1, <4>2
        <5> QED
          BY <1>2, <3>3, <3>4, <5>1, NotifyMoves
      <4>4. c \notin registered
        BY <3>2, <4>1, <4>2 DEF RemovedOK
      <4>5. loopOf[c] = t
        BY <4>1, <4>2 DEF OwnerOK, CloseLabels
      <4>6. \A l \in Loops : c \notin active[l]
        BY <4>1, <4>5 DEF OwnerOK
      <4>7. ASSUME NEW u \in Threads, cur'[u] = c
            PROVE  pc'[u] \in {"acc_setstate", "acc_connected", "cl_erase"}
        <5>1. CASE u = t
          BY <4>1, <4>2, <4>7, <5>1 DEF CloseNotify, Throw, Enter, Goto, TypeOK, PcTypeOK,
             ConnTypeOK
        <5>2. CASE u # t
          <6>1. pc'[u] = pc[u] /\ cur[u] = c
            BY <4>1, <4>7, <5>2, CloseMoves DEF TypeOK
          <6>2. u \in Loops /\ pc[u] \in BusyLabels
            BY <3>2, <6>1 DEF CurOK
          <6>3. pc[u] \notin CloseLabels \cup {"rd_read"}
            BY <4>5, <5>2, <6>1, <6>2 DEF OwnerOK
          <6>4. pc[u] \notin {"acc_lock", "acc_add"}
            BY <4>1, <5>2, <6>1, <6>2 DEF FreshOK
          <6> QED
            BY <6>1, <6>2, <6>3, <6>4 DEF BusyLabels, AcceptLabels
        <5> QED
          BY <5>1, <5>2
      <4> QED
        BY <4>2, <4>3, <4>4, <4>6, <4>7
    <3>5. CASE notified'[c] = notified[c]
      <4> SUFFICES ASSUME notified[c] = 1
                   PROVE  /\ c \notin registered'
                          /\ \A l \in Loops : c \notin active'[l]
                          /\ \A t \in Threads : cur'[t] = c =>
                               pc'[t] \in {"acc_setstate", "acc_connected", "cl_erase"}
        BY <3>3, <3>5
      <4>1. c \notin registered'
        BY <1>2, <3>3, Registrations
      <4>2. \A l \in Loops : c \notin active'[l]
        BY <1>2, <3>3, BatchMoves
      <4>3. ASSUME NEW t \in Threads, cur'[t] = c
            PROVE  pc'[t] \in {"acc_setstate", "acc_connected", "cl_erase"}
        <5>1. CASE cur[t] # c
          <6>1. ~(t \in Loops /\ Accept(t))
            <7>1. c \notin backlog
              BY DEF OnceOK
            <7>2. ASSUME Accept(t) PROVE cur'[t] \in backlog
              BY <7>2 DEF Accept, Enter, TypeOK, ConnTypeOK
            <7> QED
              BY <4>3, <7>1, <7>2
          <6> QED
            BY <1>2, <3>2, <3>3, <4>3, <5>1, <6>1, CurMoves
        <5>2. CASE cur[t] = c /\ pc[t] \in {"acc_setstate", "acc_connected"}
          BY <1>2, <4>3, <5>2, ConnectedStands
        <5>3. CASE cur[t] = c /\ pc[t] = "cl_erase"
          <6>1. CASE HandleClose(t)
            <7>1. CloseErase(t)
              BY <5>3, <6>1 DEF HandleClose, CloseDisable, CloseDangling, CloseAdd, CloseMod,
                 CloseRemove, CloseCtl, CloseSetState, CloseNotify
            <7> QED
              BY <4>3, <7>1 DEF CloseErase, Enter, TypeOK, ConnTypeOK
          <6>2. CASE ~HandleClose(t)
            BY <1>2, <5>3, <6>2, CloseStands DEF CloseLabels
          <6> QED
            BY <6>1, <6>2
        <5> QED
          BY <3>3, <5>1, <5>2, <5>3
      <4> QED
        BY <4>1, <4>2, <4>3
    <3> QED
      BY <3>4, <3>5
  <2> QED
    BY <2>1, <2>2 DEF OnceOK
<1> QED
  BY <1>1, <1>2

(* How a thread comes to be about to erase a connection. *)
LEMMA EraseMoves ==
  ASSUME IInv, Next, NEW t \in Threads, pc'[t] = "cl_erase"
  PROVE  HandleClose(t) \/ (pc[t] = "cl_erase" /\ cur'[t] = cur[t])
<1> USE Distinct DEF IInv
<1>1. CASE MainThread \/ Program
  BY <1>1, MainMoves DEF CloseLabels
<1>2. CASE Net
  BY <1>2 DEF Net, connVars
<1>3. ASSUME NEW l \in Loops, LoopThread(l) PROVE pc[t] = "cl_erase" /\ cur'[t] = cur[t]
  <2>1. pc'[l] # "cl_erase"
    BY <1>3 DEF LoopThread, WalkConns, LoopStep, CheckQuit, PollInterrupted, HandleWakeup, EndBatch,
       PollConns, Poll, Accept, AcceptFails, HandleNewConnection, AcceptInsert, AcceptAdd,
       AcceptSetState, AcceptConnected, Dispatch, HandleRead, ReadData, ReadEof, ReadFails, Throw,
       Take, Enter, Goto, TypeOK, PcTypeOK, connVars
  <2> QED
    BY <1>3, <2>1, LoopMoves DEF TypeOK
<1>4. ASSUME NEW u \in Threads, HandleClose(u), u # t PROVE pc[t] = "cl_erase" /\ cur'[t] = cur[t]
  BY <1>4, CloseMoves DEF TypeOK
<1> QED
  BY <1>1, <1>2, <1>3, <1>4 DEF Next

(* Every step keeps ToldOK: an erase comes after onClose has returned, and  *)
(* a connection comes from the backlog.                                     *)
LEMMA ToldNext ==
  ASSUME IInv, OnceOK, ToldOK, [Next]_vars
  PROVE  ToldOK'
<1> USE Distinct DEF IInv
<1>1. CASE UNCHANGED vars
  BY <1>1 DEF vars, connVars, ToldOK
<1>2. CASE Next
  <2>a. /\ notified \in [Conns -> Nat] /\ notified' \in [Conns -> Nat]
        /\ cur \in [Threads -> Conns \cup {Nil}] /\ cur' \in [Threads -> Conns \cup {Nil}]
    BY <1>2, TypeNext DEF TypeOK, ConnTypeOK
  <2>b. \A t \in Threads : /\ pc[t] \in BusyLabels => cur[t] \in Conns
                           /\ pc'[t] \in BusyLabels => cur'[t] \in Conns
    BY <1>2, <2>a, CurNext DEF CurOK
  <2>1. ASSUME NEW t \in Threads, pc'[t] = "cl_erase" PROVE notified'[cur'[t]] > 0
    <3>1. HandleClose(t) \/ (pc[t] = "cl_erase" /\ cur'[t] = cur[t])
      BY <1>2, <2>1, EraseMoves
    <3>2. CASE pc[t] = "cl_erase" /\ cur'[t] = cur[t]
      <4>1. cur[t] \in Conns /\ notified[cur[t]] > 0
        BY <2>b, <3>2 DEF ToldOK, BusyLabels, CloseLabels
      <4>2. notified'[cur[t]] = notified[cur[t]] \/ notified'[cur[t]] = notified[cur[t]] + 1
        BY <1>2, <4>1, NotifyMoves
      <4> QED
        BY <2>a, <3>2, <4>1, <4>2
    <3>3. CASE HandleClose(t)
      <4>a. ~CloseAdd(t)
        BY <2>1 DEF CloseAdd, CloseCtl, Throw, Enter, Goto, TypeOK, PcTypeOK
      <4>b. ~CloseMod(t)
        BY <2>1 DEF CloseMod, CloseCtl, Throw, Enter, Goto, TypeOK, PcTypeOK
      <4>1. ~CloseRemove(t)
        BY <2>1 DEF CloseRemove, CloseCtl, Throw, Enter, Goto, TypeOK, PcTypeOK
      <4>c. ~CloseDisable(t) /\ ~CloseDangling(t)
        BY <2>1 DEF CloseDisable, CloseDangling, Goto, TypeOK, PcTypeOK
      <4>2. ~CloseSetState(t) /\ ~CloseErase(t)
        BY <2>1 DEF CloseSetState, CloseErase, Enter, Goto, TypeOK, PcTypeOK
      <4>3. CloseNotify(t)
        BY <3>3, <4>a, <4>b, <4>c, <4>1, <4>2 DEF HandleClose
      <4>4. cur'[t] = cur[t] /\ pc[t] \in BusyLabels
        BY <2>1, <3>3, <4>3, CloseCur DEF CloseNotify, BusyLabels, CloseLabels
      <4> QED
        BY <2>a, <2>b, <4>3, <4>4 DEF CloseNotify
    <3> QED
      BY <3>1, <3>2, <3>3
  <2>2. ASSUME NEW l \in Loops, pc'[l] = "acc_lock" PROVE notified'[cur'[l]] = 0
    <3>1. CASE Accept(l)
      <4>1. cur'[l] \in backlog /\ notified' = notified
        BY <3>1 DEF Accept, Enter, TypeOK, ConnTypeOK
      <4> QED
        BY <2>b, <2>2, <4>1 DEF OnceOK, BusyLabels, AcceptLabels
    <3>2. CASE pc[l] = "acc_lock" /\ cur'[l] = cur[l]
      <4>1. \A t \in Threads \ {l} : cur[t] # cur[l]
        BY <3>2 DEF FreshOK
      <4>2. notified'[cur[l]] = notified[cur[l]]
        BY <1>2, <2>b, <3>2, <4>1, NotifyMoves DEF CloseNotify, BusyLabels, AcceptLabels
      <4> QED
        BY <3>2, <4>2 DEF ToldOK
    <3> QED
      BY <1>2, <2>2, <3>1, <3>2, SetupMoves
  <2> QED
    BY <2>1, <2>2 DEF ToldOK
<1> QED
  BY <1>1, <1>2

-----------------------------------------------------------------------------
(* The promise to the program. *)

(* While a connection is being set up it is the only one: its thread holds  *)
(* mutex_.                                                                  *)
LEMMA OneSetup ==
  ASSUME IInv
  PROVE  /\ mutex = Nil => SettingUp = {}
         /\ \A l \in Loops : pc[l] \in {"acc_add", "acc_setstate", "acc_connected"} =>
              SettingUp = {cur[l]}
<1> USE Distinct DEF IInv, MutexOK, SettingUp
<1>1. mutex = Nil => SettingUp = {}
  OBVIOUS
<1>2. ASSUME NEW l \in Loops, pc[l] \in {"acc_add", "acc_setstate", "acc_connected"}
      PROVE  SettingUp = {cur[l]}
  <2>1. \A k \in Loops : pc[k] \in {"acc_add", "acc_setstate", "acc_connected"} <=> k = l
    BY <1>2
  <2> QED
    BY <2>1
<1> QED
  BY <1>1, <1>2

(* A step that moves no loop in or out of the setting up of a connection    *)
(* leaves SettingUp as it is.                                               *)
LEMMA SameSetup ==
  ASSUME \A l \in Loops :
           LET open == {"acc_add", "acc_setstate", "acc_connected"} IN
           /\ pc[l] \in open <=> pc'[l] \in open
           /\ pc[l] \in open => cur'[l] = cur[l]
  PROVE  SettingUp' = SettingUp
BY DEF SettingUp

(* A loop's thread enters a connection into the table and sets it up.       *)
LEMMA PromiseLoop ==
  ASSUME IInv, IInv', CloseInv, NEW l \in Loops, LoopThread(l)
  PROVE  Promise!TableNext \/ UNCHANGED Promise!tableVars
<1> USE Distinct DEF Promise!tableVars
<1> DEFINE Open == {"acc_add", "acc_setstate", "acc_connected"}
<1>1. /\ pc'[Main] = pc[Main] /\ StopRequested' = StopRequested
      /\ \A k \in Loops \ {l} : pc'[k] = pc[k] /\ cur'[k] = cur[k]
  BY LoopMoves DEF IInv, TypeOK, StopRequested
<1>2. notified' = notified
  BY DEF LoopThread, WalkConns, PollConns, Accept, AcceptFails, HandleNewConnection, AcceptInsert,
     AcceptAdd, AcceptSetState, AcceptConnected, Dispatch, HandleRead, connVars
<1>3. CASE AcceptInsert(l)
  <2>1. pc[l] = "acc_lock" /\ pc'[l] = "acc_add" /\ cur'[l] = cur[l] /\ mutex = Nil
    BY <1>3 DEF AcceptInsert, Goto, IInv, TypeOK, PcTypeOK
  <2>2. cur[l] \in Conns /\ cur[l] \notin clients /\ notified[cur[l]] = 0
    BY <2>1 DEF IInv, CurOK, FreshOK, CloseInv, ToldOK, BusyLabels, AcceptLabels, TypeOK, ConnTypeOK
  <2>3. SettingUp = {} /\ SettingUp' = {cur[l]}
    <3>1. SettingUp = {}
      BY <2>1, OneSetup
    <3>2. \A k \in Loops : pc'[k] \in Open <=> k = l
      BY <1>1, <2>1 DEF IInv, MutexOK
    <3>3. SettingUp' = {cur'[k] : k \in {l}}
      BY <3>2 DEF SettingUp
    <3> QED
      BY <2>1, <3>1, <3>3
  <2>4. clients' = clients \cup {cur[l]}
    BY <1>3 DEF AcceptInsert
  <2> QED
    BY <1>1, <1>2, <2>2, <2>3, <2>4 DEF Promise!TableNext, Promise!Enters
<1>4. CASE ~AcceptInsert(l)
  <2>1. clients' = clients
    BY <1>4 DEF LoopThread, WalkConns, PollConns, Accept, AcceptFails, HandleNewConnection,
       AcceptAdd, AcceptSetState, AcceptConnected, Dispatch, HandleRead, Throw, tableVars
  <2>2. CASE pc[l] \in Open /\ pc'[l] \notin Open
    <3>1. SettingUp = {cur[l]}
      BY <2>2, OneSetup
    <3>2. SettingUp' = {}
      <4>1. \A k \in Loops : pc'[k] \in Open => FALSE
        BY <1>1, <2>2 DEF IInv, MutexOK
      <4> QED
        BY <4>1 DEF SettingUp
    <3> QED
      BY <1>1, <1>2, <2>1, <3>1, <3>2 DEF Promise!TableNext, Promise!Opened
  <2>3. CASE ~(pc[l] \in Open /\ pc'[l] \notin Open)
    <3>1. /\ pc[l] \in Open <=> pc'[l] \in Open
          /\ pc[l] \in Open => cur'[l] = cur[l]
      BY <1>4, <2>3 DEF LoopThread, WalkConns, LoopStep, CheckQuit, PollInterrupted, HandleWakeup,
         EndBatch, PollConns, Poll, Accept, AcceptFails, HandleNewConnection, AcceptAdd,
         AcceptSetState, AcceptConnected, Dispatch, HandleRead, ReadData, ReadEof, ReadFails,
         Throw, Take, Enter, Goto, IInv, TypeOK, PcTypeOK, connVars
    <3>2. SettingUp' = SettingUp
      BY <1>1, <3>1, SameSetup
    <3> QED
      BY <1>1, <1>2, <2>1, <3>2
  <2> QED
    BY <2>2, <2>3
<1> QED
  BY <1>3, <1>4

(* handleClose calls onClose and takes the connection out of the table.     *)
LEMMA PromiseClose ==
  ASSUME IInv, IInv', CloseInv, CloseInv', NEW t \in Threads, HandleClose(t)
  PROVE  Promise!TableNext \/ UNCHANGED Promise!tableVars
<1> USE Distinct DEF Promise!tableVars
<1>1. /\ pc[t] \in CloseLabels
      /\ pc'[t] \in CloseLabels \cup (IF t = Main THEN {"threw", "st_each"} ELSE {"for"})
      /\ \A u \in Threads \ {t} : pc'[u] = pc[u] /\ cur'[u] = cur[u]
  BY CloseMoves DEF IInv, TypeOK
<1>2. SettingUp' = SettingUp
  BY <1>1, SameSetup DEF CloseLabels
<1>3. StopRequested' = StopRequested /\ (t = Main => StopRequested)
  BY <1>1 DEF StopRequested, CloseLabels
<1>4. cur[t] \in Conns /\ notified \in [Conns -> Nat]
  BY <1>1 DEF IInv, CurOK, BusyLabels, TypeOK, ConnTypeOK
<1>5. cur[t] \in clients
  BY <1>1 DEF IInv, OwnerOK, BusyLabels, AcceptLabels, CloseLabels
<1>6. CASE CloseNotify(t)
  <2>1. clients' = clients /\ notified' = [notified EXCEPT ![cur[t]] = @ + 1]
    BY <1>6 DEF CloseNotify, Throw, tableVars
  <2>2. notified[cur[t]] = 0 \/ StopRequested
    <3> SUFFICES ASSUME ~StopRequested PROVE notified[cur[t]] = 0
      OBVIOUS
    <3>1. notified'[cur[t]] <= 1
      BY <1>3, <1>4 DEF CloseInv, OnceOK
    <3> QED
      BY <1>4, <2>1, <3>1
  <2>3. Promise!Closes(cur[t])
    BY <1>2, <1>3, <1>5, <2>1, <2>2 DEF Promise!Closes
  <2> QED
    BY <1>4, <2>3 DEF Promise!TableNext
<1>7. CASE CloseErase(t)
  <2>1. clients' = clients \ {cur[t]} /\ notified' = notified /\ mutex = Nil /\ pc[t] = "cl_erase"
    BY <1>7 DEF CloseErase
  <2>2. SettingUp = {} /\ notified[cur[t]] > 0
    BY <2>1, OneSetup DEF CloseInv, ToldOK
  <2>3. Promise!Leaves(cur[t])
    BY <1>2, <1>3, <1>5, <2>1, <2>2 DEF Promise!Leaves
  <2> QED
    BY <1>4, <2>3 DEF Promise!TableNext
<1>8. CASE ~CloseNotify(t) /\ ~CloseErase(t)
  <2>1. ASSUME CloseAdd(t) \/ CloseMod(t) \/ CloseRemove(t)
        PROVE  clients' = clients /\ notified' = notified
    BY <2>1 DEF CloseAdd, CloseMod, CloseRemove, CloseCtl, Throw, tableVars, connVars
  <2>2. ASSUME CloseDisable(t) \/ CloseSetState(t)
        PROVE  clients' = clients /\ notified' = notified
    BY <2>2 DEF CloseDisable, CloseSetState, tableVars, connVars
  <2>3. ASSUME CloseDangling(t)
        PROVE  clients' = clients /\ notified' = notified
    BY <2>3 DEF CloseDangling, tableVars, connVars
  <2> QED
    BY <1>2, <1>3, <1>8, <2>1, <2>2, <2>3 DEF HandleClose
<1> QED
  BY <1>6, <1>7, <1>8

(* Every step of the server is one that ClientTable allows, or changes      *)
(* nothing there.                                                           *)
LEMMA PromiseStep ==
  ASSUME IInv, CloseInv, CloseInv', Next
  PROVE  Promise!TableNext \/ UNCHANGED Promise!tableVars
<1> USE Distinct DEF Promise!tableVars
<1>a. IInv'
  BY TypeNext, CurNext, MutexNext, OwnerNext, FreshNext, RemovedNext, JoinNext,
     RegisteredNext DEF IInv
<1>1. CASE MainThread \/ Program
  <2>1. clients' = clients
    BY <1>1 DEF MainThread, Program, Start, BindFails, StartListen, StartOrStopPool, StopClients,
       StopLock, StopClient, StopClear, StopAcceptor, tableVars
  <2>2. notified' = notified
    BY <1>1 DEF MainThread, Program, Start, BindFails, StartListen, StartOrStopPool, StopClients,
       StopAcceptor, connVars
  <2>3. SettingUp' = SettingUp
    BY <1>1, MainMoves, SameSetup DEF IInv
  <2>4. StopRequested' = StopRequested \/ StopRequested' = TRUE
    BY StopForGood DEF StopRequested
  <2> QED
    BY <2>1, <2>2, <2>3, <2>4 DEF Promise!TableNext, Promise!Stops
<1>2. CASE Net
  BY <1>2 DEF Net, tableVars, connVars, SettingUp, StopRequested
<1>3. ASSUME NEW l \in Loops, LoopThread(l)
      PROVE  Promise!TableNext \/ UNCHANGED Promise!tableVars
  BY <1>3, <1>a, PromiseLoop
<1>4. ASSUME NEW t \in Threads, HandleClose(t)
      PROVE  Promise!TableNext \/ UNCHANGED Promise!tableVars
  BY <1>4, <1>a, PromiseClose
<1> QED
  BY <1>1, <1>2, <1>3, <1>4 DEF Next

-----------------------------------------------------------------------------
(* The theorems. *)

(* A TcpServer just constructed satisfies IInv. *)
LEMMA InitIInv == Init => IInv
<1> SUFFICES ASSUME Init PROVE IInv
  OBVIOUS
<1> USE Distinct, LoopAssumption, CountAssumption DEF Init, ChannelInit, LoopInit
<1>1. PoolTypeOK
  BY DEF PoolTypeOK, ChannelTypeOK, LoopTypeOK, OwnerTypeOK, ChannelStates, NONE, Loops
<1>2. PcTypeOK
  BY DEF PcTypeOK, MainThreadLabels, LoopThreadLabels, MainLabels, LoopLabels
<1>3. TableTypeOK /\ ConnTypeOK /\ MainTypeOK /\ NetTypeOK
  BY DEF TableTypeOK, ConnTypeOK, MainTypeOK, NetTypeOK
<1>4. /\ CurOK /\ MutexOK /\ OwnerOK /\ FreshOK /\ RemovedOK /\ JoinOK
      /\ RegisteredClient
  BY DEF CurOK, MutexOK, OwnerOK, FreshOK, RemovedOK, JoinOK, RegisteredClient,
     NoLoopOutlivesPool, BusyLabels, AcceptLabels, CloseLabels
<1> QED
  BY <1>1, <1>2, <1>3, <1>4 DEF IInv, TypeOK

(* IInv is inductive: every handler, of every thread, keeps each connection *)
(* with the threads that may touch it at its stage of life.                 *)
THEOREM Inductive == Spec => []IInv
<1>1. IInv /\ [Next]_vars => IInv'
  BY TypeNext, CurNext, MutexNext, OwnerNext, FreshNext, RemovedNext, JoinNext,
     RegisteredNext DEF IInv
<1> QED
  BY <1>1, InitIInv, PTL DEF Spec

(* Every variable keeps its type; in particular count_ keeps its width      *)
(* through nextLoop() and the owner's for loops stay within loops_.         *)
THEOREM TypeCorrect == Spec => []TypeOK
<1>1. IInv => TypeOK
  BY DEF IInv
<1> QED
  BY <1>1, Inductive, PTL

(* The kernel never holds the address of a connection that clients_ no      *)
(* longer owns: remove() has always come before the erase.                  *)
THEOREM KernelHoldsClients == Spec => []RegisteredClient
<1>1. IInv => RegisteredClient
  BY DEF IInv
<1> QED
  BY <1>1, Inductive, PTL

(* A loop never dispatches, reads or closes a connection that another       *)
(* thread has erased: no use after free through an event's data.ptr.        *)
THEOREM NoUseAfterErase == Spec => []DispatchedIsAlive
<1>1. IInv => DispatchedIsAlive
  BY DEF IInv, OwnerOK, DispatchedIsAlive, BusyLabels, CloseLabels
<1> QED
  BY <1>1, Inductive, PTL

(* loops_.clear() destroys no EventLoop whose thread has yet to end.        *)
THEOREM JoinBeforeClear == Spec => []NoLoopOutlivesPool
<1>1. IInv => NoLoopOutlivesPool
  BY DEF IInv, JoinOK
<1> QED
  BY <1>1, Inductive, PTL

(* No close is lost on the way and none is made twice, whatever order the   *)
(* accepting thread, the loops and stop() come in.                          *)
THEOREM ClosingIsSound == Spec => []CloseInv
<1>1. Init => CloseInv
  BY Distinct DEF Init, ChannelInit, LoopInit, CloseInv, AskOK, OnceOK, ToldOK, NoDeafConnection,
     StopRequested
<1>2. IInv /\ CloseInv /\ [Next]_vars => CloseInv'
  BY AskNext, OnceNext, ToldNext, DeafNext DEF CloseInv
<1> QED
  BY <1>1, <1>2, Inductive, PTL DEF Spec

(* disableAll() never leaves a connection registered and deaf: every way    *)
(* out of handleClose, the exceptions included, finds it off the interest   *)
(* list.                                                                    *)
THEOREM NoConnectionIsDeaf == Spec => []NoDeafConnection
<1>1. CloseInv => NoDeafConnection
  BY DEF CloseInv
<1> QED
  BY <1>1, ClosingIsSound, PTL

(* TcpServer implements ClientTable: what the program hears of connections  *)
(* through its handlers, for any number of loops and connections.           *)
THEOREM ServerKeepsItsPromise == Spec => KeepsItsPromise
<1>1. Init => Promise!TableInit
  BY Distinct DEF Init, Promise!TableInit, SettingUp, StopRequested
<1>2. IInv /\ CloseInv /\ CloseInv' /\ [Next]_vars => [Promise!TableNext]_(Promise!tableVars)
  <2> SUFFICES ASSUME IInv, CloseInv, CloseInv', [Next]_vars
               PROVE  Promise!TableNext \/ UNCHANGED Promise!tableVars
    OBVIOUS
  <2>1. CASE Next
    BY <2>1, PromiseStep
  <2>2. CASE UNCHANGED vars
    BY <2>2 DEF vars, tableVars, connVars, Promise!tableVars, SettingUp, StopRequested
  <2> QED
    BY <2>1, <2>2
<1> QED
  BY <1>1, <1>2, Inductive, ClosingIsSound, PTL DEF Spec, KeepsItsPromise, Promise!TableSpec

-----------------------------------------------------------------------------
(* Round robin. *)

(* Quotient and remainder. *)
LEMMA RemainderIsUnique ==
  ASSUME NEW d \in Nat, NEW r \in Loops
  PROVE  (NumLoops * d + r) % NumLoops = r
BY LoopAssumption DEF Loops

LEMMA QuotientExists ==
  ASSUME NEW n \in Nat
  PROVE  /\ n % NumLoops \in Loops
         /\ \E d \in Nat : n = NumLoops * d + (n % NumLoops)
<1>1. /\ n % NumLoops \in Loops /\ n \div NumLoops \in Nat
      /\ n = NumLoops * (n \div NumLoops) + (n % NumLoops)
  BY LoopAssumption DEF Loops
<1> QED
  BY <1>1

(* k calls of nextLoop() later, the loop is k further on. *)
LEMMA LoopAdvances ==
  ASSUME NEW n \in Nat, NEW k \in Loops
  PROVE  NextLoop(n + k) = IF NextLoop(n) + k < NumLoops THEN NextLoop(n) + k
                           ELSE NextLoop(n) + k - NumLoops
<1>1. PICK d \in Nat : n = NumLoops * d + (n % NumLoops)
  BY QuotientExists
<1> DEFINE r == n % NumLoops
<1>a. r \in Loops
  BY QuotientExists
<1>3. n = NumLoops * d + r /\ NextLoop(n) = r
  BY <1>1 DEF NextLoop
<1> HIDE DEF r
<1>2. NumLoops \in Nat \ {0} /\ k \in Nat /\ k < NumLoops /\ r \in Nat /\ r < NumLoops
  BY <1>a, LoopAssumption DEF Loops
<1>4. CASE r + k < NumLoops
  <2>1. n + k = NumLoops * d + (r + k) /\ r + k \in Loops
    BY <1>2, <1>3, <1>4 DEF Loops
  <2>2. (NumLoops * d + (r + k)) % NumLoops = r + k
    BY <2>1, RemainderIsUnique
  <2> QED
    BY <1>3, <1>4, <2>1, <2>2 DEF NextLoop
<1>5. CASE ~(r + k < NumLoops)
  <2>1. n + k = NumLoops * (d + 1) + (r + k - NumLoops) /\ r + k - NumLoops \in Loops
    BY <1>2, <1>3, <1>5 DEF Loops
  <2>2. (NumLoops * (d + 1) + (r + k - NumLoops)) % NumLoops = r + k - NumLoops
    BY <2>1, RemainderIsUnique
  <2> QED
    BY <1>3, <1>5, <2>1, <2>2 DEF NextLoop
<1> QED
  BY <1>4, <1>5

(* nextLoop() goes round: as long as count_ does not wrap among them, of as *)
(* many connections in a row as there are loops each loop gets one.         *)
THEOREM RoundRobin ==
  ASSUME NEW n \in 0 .. CountModulus - 1, n + NumLoops <= CountModulus
  PROVE  /\ \A k \in Loops : k + 1 \in Loops => NextCount(n + k) = n + k + 1
         /\ \A l \in Loops : \E k \in Loops : NextLoop(n + k) = l
         /\ \A j, k \in Loops : NextLoop(n + j) = NextLoop(n + k) => j = k
<1>1. n \in Nat /\ NumLoops \in Nat \ {0} /\ CountModulus \in Nat \ {0}
  BY LoopAssumption, CountAssumption
<1>2. NextLoop(n) \in Loops
  BY <1>1, QuotientExists DEF NextLoop
<1>3. ASSUME NEW k \in Loops, k + 1 \in Loops PROVE NextCount(n + k) = n + k + 1
  <2>1. n + k + 1 \in 0 .. CountModulus - 1
    BY <1>1, <1>3 DEF Loops
  <2> QED
    BY <1>1, <2>1 DEF NextCount
<1>4. ASSUME NEW l \in Loops PROVE \E k \in Loops : NextLoop(n + k) = l
  <2> DEFINE k == IF l >= NextLoop(n) THEN l - NextLoop(n) ELSE l - NextLoop(n) + NumLoops
  <2>1. /\ k \in Loops
        /\ (IF NextLoop(n) + k < NumLoops THEN NextLoop(n) + k ELSE NextLoop(n) + k - NumLoops) = l
    BY <1>1, <1>2 DEF Loops
  <2> HIDE DEF k
  <2>2. NextLoop(n + k) = l
    BY <1>1, <2>1, LoopAdvances
  <2> QED
    BY <2>1, <2>2
<1>5. ASSUME NEW j \in Loops, NEW k \in Loops, NextLoop(n + j) = NextLoop(n + k)
      PROVE  j = k
  <2>1. (IF NextLoop(n) + j < NumLoops THEN NextLoop(n) + j ELSE NextLoop(n) + j - NumLoops)
          = (IF NextLoop(n) + k < NumLoops THEN NextLoop(n) + k ELSE NextLoop(n) + k - NumLoops)
    BY <1>1, <1>5, LoopAdvances
  <2> QED
    BY <1>1, <1>2, <2>1 DEF Loops
<1> QED
  BY <1>3, <1>4, <1>5

(* Two connections in a row are on different loops, also across the wrap of *)
(* count_, which is never initialized, unless its modulus leaves 1: with 3  *)
(* loops and 32 bits the last loop before the wrap and the first after it   *)
(* are the same.                                                            *)
THEOREM NeighboursDiffer ==
  ASSUME NEW n \in 0 .. CountModulus - 1, NumLoops > 1
  PROVE  NextLoop(NextCount(n)) = NextLoop(n)
           <=> n + 1 = CountModulus /\ NextLoop(CountModulus) = 1
<1>1. n \in Nat /\ NumLoops \in Nat \ {0} /\ CountModulus \in Nat \ {0}
  BY LoopAssumption, CountAssumption
<1>2. /\ NextLoop(n) \in Nat /\ NextLoop(n) < NumLoops
      /\ NextLoop(n + 1) = IF NextLoop(n) + 1 < NumLoops THEN NextLoop(n) + 1
                           ELSE NextLoop(n) + 1 - NumLoops
  <2>1. NextLoop(n) \in Loops /\ 1 \in Loops
    BY <1>1, QuotientExists DEF NextLoop, Loops
  <2> QED
    BY <1>1, <2>1, LoopAdvances DEF Loops
<1>3. CASE n + 1 < CountModulus
  <2>1. NextCount(n) = n + 1
    BY <1>1, <1>3 DEF NextCount
  <2> QED
    BY <1>1, <1>2, <1>3, <2>1
<1>4. CASE n + 1 = CountModulus
  <2>1. NextCount(n) = 0
    BY <1>1, <1>4 DEF NextCount
  <2>2. NextLoop(0) = 0
    BY <1>1 DEF NextLoop
  <2> QED
    BY <1>1, <1>2, <1>4, <2>1, <2>2
<1> QED
  BY <1>1, <1>3, <1>4
=============================================================================
