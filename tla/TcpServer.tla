------------------------------ MODULE TcpServer ------------------------------
(***************************************************************************)
(* TcpServer (tcpserver.h, tcpserver.cpp) with its Acceptor (acceptor.cpp) *)
(* and TcpConnections (tcpconnection.cpp), on an EventLoopPool, driven by  *)
(* a program like main.cpp: start, serve, stop, destroy.                   *)
(*                                                                         *)
(* One loop's thread accepts; each connection belongs to a loop, which     *)
(* reads it and closes it when the peer is gone; the main thread closes    *)
(* every connection in stop().  They meet in the client table under        *)
(* mutex_, in each channel's state_ under no lock at all, and in the       *)
(* kernel's interest lists.  A Conn is one accepted connection and the     *)
(* TcpConnection made for it; none is reused.                              *)
(***************************************************************************)
EXTENDS EventLoopPool

CONSTANTS
  Listener,             \* the Acceptor's channel
  Nil,                  \* no thread, no connection
  CloseHandlerThrows    \* whether the program's onClose handler may throw

Conns == Channels \ {Listener}

ASSUME ServerAssumption ==
  /\ Listener \in Channels
  /\ Nil \notin Threads \cup Channels
  /\ CloseHandlerThrows \in BOOLEAN

VARIABLES
  cur,         \* the connection whose method each thread runs
  mutex,       \* who holds TcpServer::mutex_
  clients,     \* TcpServer::clients_
  acceptor,    \* TcpServer::acceptor_: "null", "idle" or "listening"
  connState,   \* TcpConnection::state_
  notified,    \* how often onClose has been called for each connection
  count,       \* EventLoopPool::count_
  dtor,        \* whether the main thread runs ~TcpServer
  fate,        \* "running", or what killed the process
  peer,        \* kernel: the peer's end of each connection
  data,        \* kernel: the connections with unread data
  backlog      \* kernel: the connections that wait for accept4

tableVars == <<mutex, clients>>
connVars  == <<cur, connState, notified>>
mainVars  == <<acceptor, dtor, fate>>
netVars   == <<peer, data, backlog>>

vars == <<channelVars, pc, loopOf, loopVars, ownerVars, tableVars, connVars,
          mainVars, count, netVars>>

-----------------------------------------------------------------------------
(* Where a thread can be. *)
AcceptLabels == {"acc_lock", "acc_add", "acc_setstate", "acc_connected"}
CloseLabels  == {"cl_disable", "cl_add", "cl_mod", "cl_setstate", "cl_remove",
                 "cl_notify", "cl_erase"}
MainLabels   == {"init", "listen", "listen_setstate", "st_lock", "st_each",
                 "threw", "stopped", "done"}
LoopThreadLabels == LoopLabels \cup AcceptLabels \cup {"rd_read"} \cup CloseLabels
MainThreadLabels == OwnerLabels \cup MainLabels \cup CloseLabels

PcTypeOK ==
  /\ pc \in [Threads -> LoopThreadLabels \cup MainThreadLabels]
  /\ pc[Main] \in MainThreadLabels
  /\ \A l \in Loops : pc[l] \in LoopThreadLabels

TableTypeOK ==
  /\ mutex \in Threads \cup {Nil}
  /\ clients \in SUBSET Conns

ConnTypeOK ==
  /\ cur \in [Threads -> Conns \cup {Nil}]
  /\ connState \in [Conns -> {"Disconnected", "Connected"}]
  /\ notified \in [Conns -> Nat]

MainTypeOK ==
  /\ acceptor \in {"null", "idle", "listening"}
  /\ dtor \in BOOLEAN
  /\ fate \in {"running", "terminate", "dangling_loop", "division_by_zero"}

NetTypeOK ==
  /\ peer \in [Conns -> {"none", "open", "fin", "rst", "down"}]
  /\ data \in SUBSET Conns
  /\ backlog \in SUBSET Conns

(* Every variable has its type: count_ keeps its width and the channels'    *)
(* loops exist, wherever nextLoop() takes the counter.                      *)
TypeOK ==
  /\ PoolTypeOK
  /\ PcTypeOK
  /\ TableTypeOK
  /\ ConnTypeOK
  /\ MainTypeOK
  /\ NetTypeOK
  /\ count \in 0 .. CountModulus - 1

(* A TcpServer just constructed; count_ is never initialized, so it can     *)
(* start anywhere.                                                          *)
Init ==
  /\ ChannelInit
  /\ LoopInit
  /\ loopOf = [ch \in Channels |-> 0]
  /\ pc = [t \in Threads |-> IF t = Main THEN "init" ELSE "none"]
  /\ it = 0
  /\ alive = TRUE
  /\ cur = [t \in Threads |-> Nil]
  /\ mutex = Nil
  /\ clients = {}
  /\ acceptor = "null"
  /\ connState = [c \in Conns |-> "Disconnected"]
  /\ notified = [c \in Conns |-> 0]
  /\ count \in 0 .. CountModulus - 1
  /\ dtor = FALSE
  /\ fate = "running"
  /\ peer = [c \in Conns |-> "none"]
  /\ data = {}
  /\ backlog = {}

-----------------------------------------------------------------------------
(* The kernel and the peers. *)

(* The conditions of a descriptor.  A peer that closed is readable for      *)
(* good; one that reset the connection hangs up too.                        *)
Conditions(ch) ==
  IF ch = Listener THEN {f \in {"IN"} : backlog # {}}
  ELSE {f \in {"IN"} : ch \in data} \cup
       CASE peer[ch] = "fin"  -> {"IN", "RDHUP"}
         [] peer[ch] = "rst"  -> {"IN", "RDHUP", "HUP", "ERR"}
         [] peer[ch] = "down" -> {"IN", "RDHUP", "HUP"}
         [] OTHER             -> {}

Dial(c) ==
  /\ peer[c] = "none" /\ acceptor = "listening"
  /\ peer' = [peer EXCEPT ![c] = "open"]
  /\ backlog' = backlog \cup {c}
  /\ UNCHANGED data

PeerSend(c) ==
  /\ peer[c] = "open"
  /\ data' = data \cup {c}
  /\ UNCHANGED <<peer, backlog>>

PeerClose(c) ==
  /\ peer[c] = "open"
  /\ peer' = [peer EXCEPT ![c] = "fin"]
  /\ UNCHANGED <<data, backlog>>

PeerReset(c) ==
  /\ peer[c] \in {"open", "fin"}
  /\ peer' = [peer EXCEPT ![c] = "rst"]
  /\ UNCHANGED <<data, backlog>>

Net == \E c \in Conns :
  /\ Dial(c) \/ PeerSend(c) \/ PeerClose(c) \/ PeerReset(c)
  /\ UNCHANGED <<channelVars, pc, loopOf, loopVars, ownerVars, tableVars,
                 connVars, mainVars, count>>

-----------------------------------------------------------------------------
(* Any thread. *)

Enter(t, c, label) ==
  /\ cur' = [cur EXCEPT ![t] = c]
  /\ Goto(t, label)

(* An exception leaves the handler or stop(): lock_guards unlock.  A loop   *)
(* logs it and takes the next channel; main() catches it; out of the        *)
(* destructor it is std::terminate.                                         *)
Throw(t) ==
  /\ Enter(t, Nil, IF t = Main THEN "threw" ELSE "for")
  /\ mutex' = IF mutex = t THEN Nil ELSE mutex
  /\ fate' = IF t = Main /\ dtor THEN "terminate" ELSE fate
  /\ UNCHANGED <<clients, acceptor, dtor>>

(* TcpConnection::handleClose, on the loop's thread or inside stop().       *)
(* disableAll() goes through loop_: if the pool has been cleared, loop_     *)
(* dangles, and the model stops there.                                      *)
CloseDisable(t) ==
  /\ pc[t] = "cl_disable"
  /\ alive
  /\ AskFor(cur[t], NONE)
  /\ Goto(t, IF UpdateOpt(state[cur[t]]) = "ADD" THEN "cl_add" ELSE "cl_mod")
  /\ UNCHANGED <<tableVars, connVars, mainVars>>

CloseDangling(t) ==
  /\ pc[t] = "cl_disable"
  /\ ~alive
  /\ fate' = "dangling_loop"
  /\ UNCHANGED <<pc, channelVars, tableVars, connVars, acceptor, dtor>>

CloseCtl(t, label, opt, next) ==
  /\ pc[t] = label
  /\ \/ /\ CtlSucceeds(opt, cur[t])
        /\ Goto(t, next)
        /\ UNCHANGED <<tableVars, connVars, mainVars>>
     \/ /\ CtlThrows(opt, cur[t])
        /\ Throw(t)
        /\ UNCHANGED <<connState, notified>>

CloseAdd(t) == CloseCtl(t, "cl_add", "ADD", "cl_setstate")

CloseModOnly(t) == CloseCtl(t, "cl_mod", "MOD", "cl_notify")
CloseMod(t) == CloseCtl(t, "cl_mod", "MOD", "cl_remove")

CloseRemoveForgotten(t) ==
  /\ pc[t] = "cl_remove"
  /\ Goto(t, "cl_notify")
  /\ UNCHANGED <<channelVars, tableVars, connVars, mainVars>>
CloseRemove(t) == CloseCtl(t, "cl_remove", "DEL", "cl_notify")

CloseSetState(t) ==
  /\ pc[t] = "cl_setstate"
  /\ SetStateAdd(cur[t])
  /\ Goto(t, "cl_remove")
  /\ UNCHANGED <<tableVars, connVars, mainVars>>

(* state_ = Disconnected, then TcpServer::handleClose calls the program's   *)
(* onClose handler, which may throw.                                        *)
CloseNotify(t) ==
  /\ pc[t] = "cl_notify"
  /\ connState' = [connState EXCEPT ![cur[t]] = "Disconnected"]
  /\ notified' = [notified EXCEPT ![cur[t]] = @ + 1]
  /\ \/ Goto(t, "cl_erase") /\ UNCHANGED <<cur, tableVars, mainVars>>
     \/ CloseHandlerThrows /\ Throw(t)
  /\ UNCHANGED channelVars

(* TcpServer::handleClose takes mutex_ to erase the client.  The mutex is   *)
(* not recursive: the thread that holds it already waits for good.          *)
CloseErase(t) ==
  /\ pc[t] = "cl_erase"
  /\ mutex = Nil
  /\ clients' = clients \ {cur[t]}
  /\ Enter(t, Nil, IF t = Main THEN "st_each" ELSE "for")
  /\ UNCHANGED <<channelVars, mutex, connState, notified, mainVars>>

HandleClose(t) ==
  /\ \/ CloseDisable(t)
     \/ CloseDangling(t)
     \/ CloseAdd(t)
     \/ CloseMod(t)
     \/ CloseSetState(t)
     \/ CloseRemove(t)
     \/ CloseNotify(t)
     \/ CloseErase(t)
  /\ UNCHANGED <<loopOf, loopVars, ownerVars, count, netVars>>

-----------------------------------------------------------------------------
(* The loops' threads. *)

(* Acceptor::handleRead: accept4 gives a connection, and                    *)
(* handleNewConnection makes a TcpConnection for it on the next loop ...    *)
Accept(l) ==
  /\ Take(l, Listener)
  /\ HandleEvent(events[Listener]) = "read"
  /\ \E c \in backlog :
       /\ backlog' = backlog \ {c}
       /\ loopOf' = [loopOf EXCEPT ![c] = NextLoop(count)]
       /\ Enter(l, c, "acc_lock")
  /\ count' = NextCount(count)
  /\ UNCHANGED <<channelVars, ownerVars, tableVars, connState, notified,
                 mainVars, peer, data>>

(* ... or accept4 fails (EMFILE and the like) and nothing happens.          *)
AcceptFails(l) ==
  /\ Take(l, Listener)
  /\ UNCHANGED <<channelVars, pc, loopOf, ownerVars, tableVars, connVars,
                 mainVars, count, netVars>>

(* handleNewConnection under mutex_: insert, then connectEstablished up to  *)
(* enableRead's choice of EPOLL_CTL_ADD.                                    *)
AcceptInsertUnlocked(l) ==
  /\ pc[l] = "acc_lock"
  /\ clients' = clients \cup {cur[l]}
  /\ connState' = [connState EXCEPT ![cur[l]] = "Connected"]
  /\ AskFor(cur[l], READ)
  /\ Goto(l, "acc_add")
  /\ UNCHANGED <<mutex, cur, notified, mainVars>>

AcceptInsert(l) ==
  /\ pc[l] = "acc_lock"
  /\ mutex = Nil
  /\ mutex' = l
  /\ clients' = clients \cup {cur[l]}
  /\ connState' = [connState EXCEPT ![cur[l]] = "Connected"]
  /\ AskFor(cur[l], READ)
  /\ Goto(l, "acc_add")
  /\ UNCHANGED <<cur, notified, mainVars>>

AcceptAdd(l) ==
  /\ pc[l] = "acc_add"
  /\ \/ /\ CtlSucceeds("ADD", cur[l])
        /\ Goto(l, "acc_setstate")
        /\ UNCHANGED <<tableVars, connVars, mainVars>>
     \/ /\ CtlThrows("ADD", cur[l])
        /\ Throw(l)
        /\ UNCHANGED <<connState, notified>>

AcceptSetStateForgotten(l) ==
  /\ pc[l] = "acc_setstate"
  /\ Goto(l, "acc_connected")
  /\ UNCHANGED <<channelVars, tableVars, connVars, mainVars>>

AcceptSetState(l) ==
  /\ pc[l] = "acc_setstate"
  /\ SetStateAdd(cur[l])
  /\ Goto(l, "acc_connected")
  /\ UNCHANGED <<tableVars, connVars, mainVars>>

(* The program's onConnected handler, still under mutex_; what it does not  *)
(* touch is the same whether it returns or throws.                          *)
AcceptConnected(l) ==
  /\ pc[l] = "acc_connected"
  /\ mutex' = Nil
  /\ Enter(l, Nil, "for")
  /\ UNCHANGED <<channelVars, clients, connState, notified, mainVars>>

HandleNewConnection(l) ==
  /\ AcceptInsert(l) \/ AcceptAdd(l) \/ AcceptSetState(l) \/ AcceptConnected(l)
  /\ UNCHANGED <<loopOf, loopVars, ownerVars, count, netVars>>

(* Channel::handleEvent of a connection: handleClose, or handleRead, which  *)
(* returns at once if the connection has been disconnected.  Nobody asks    *)
(* for OUT, so handleWrite is never reached.                                *)
Dispatch(l, c) ==
  /\ Take(l, c)
  /\ \/ /\ HandleEvent(events[c]) = "close"
        /\ Enter(l, c, "cl_disable")
     \/ /\ HandleEvent(events[c]) = "read"
        /\ connState[c] # "Disconnected"
        /\ Enter(l, c, "rd_read")
     \/ /\ HandleEvent(events[c]) = "read"
        /\ connState[c] = "Disconnected"
        /\ UNCHANGED <<pc, cur>>
  /\ UNCHANGED <<channelVars, loopOf, ownerVars, tableVars, connState, notified,
                 mainVars, count, netVars>>

(* TcpConnection::handleRead after read(): data for the program's onMessage *)
(* handler, end of file, or an error, which is reported once.               *)
ReadData(l) ==
  /\ cur[l] \in data
  /\ data' = data \ {cur[l]}
  /\ Enter(l, Nil, "for")
  /\ UNCHANGED peer

ReadEof(l) ==
  /\ cur[l] \notin data
  /\ peer[cur[l]] \in {"fin", "down"}
  /\ Goto(l, "cl_disable")
  /\ UNCHANGED <<cur, peer, data>>

ReadFails(l) ==
  /\ cur[l] \notin data
  /\ peer[cur[l]] = "rst"
  /\ peer' = [peer EXCEPT ![cur[l]] = "down"]
  /\ Enter(l, Nil, "for")
  /\ UNCHANGED data

HandleRead(l) ==
  /\ pc[l] = "rd_read"
  /\ ReadData(l) \/ ReadEof(l) \/ ReadFails(l)
  /\ UNCHANGED <<channelVars, loopOf, loopVars, ownerVars, tableVars, connState,
                 notified, mainVars, count, backlog>>

PollConns(l) ==
  /\ Poll(l, [ch \in Channels |-> Conditions(ch)])
  /\ UNCHANGED <<channelVars, loopOf, ownerVars, tableVars, connVars, mainVars,
                 count, netVars>>

WalkConns(l) ==
  /\ LoopStep(l)
  /\ UNCHANGED <<channelVars, loopOf, ownerVars, tableVars, connVars, mainVars,
                 count, netVars>>

LoopThread(l) ==
  \/ WalkConns(l)
  \/ PollConns(l)
  \/ Accept(l)
  \/ AcceptFails(l)
  \/ HandleNewConnection(l)
  \/ \E c \in Conns : Dispatch(l, c)
  \/ HandleRead(l)

-----------------------------------------------------------------------------
(* The main thread. *)

(* TcpServer::start: the Acceptor is made on the next loop ...              *)
Start ==
  /\ pc[Main] = "init"
  /\ acceptor = "null"
  /\ acceptor' = "idle"
  /\ loopOf' = [loopOf EXCEPT ![Listener] = NextLoop(count)]
  /\ count' = NextCount(count)
  /\ AskFor(Listener, READ)
  /\ Goto(Main, "listen")
  /\ UNCHANGED <<loopVars, ownerVars, tableVars, connVars, dtor, fate, netVars>>

(* ... unless bind fails, which throws before acceptor_ is assigned.        *)
BindFails ==
  /\ pc[Main] = "init"
  /\ count' = NextCount(count)
  /\ Goto(Main, "threw")
  /\ UNCHANGED <<channelVars, loopOf, loopVars, ownerVars, tableVars, connVars,
                 mainVars, netVars>>

(* Acceptor::listen; if it or its epoll_ctl fails, acceptor_ stays behind.  *)
Listen ==
  /\ pc[Main] = "listen"
  /\ \/ /\ CtlSucceeds("ADD", Listener)
        /\ acceptor' = "listening"
        /\ Goto(Main, "listen_setstate")
     \/ /\ CtlThrows("ADD", Listener)
        /\ Goto(Main, "threw")
        /\ UNCHANGED acceptor
  /\ UNCHANGED it

ListenSetState ==
  /\ pc[Main] = "listen_setstate"
  /\ SetStateAdd(Listener)
  /\ Goto(Main, "starting")
  /\ it' = 0
  /\ UNCHANGED acceptor

(* TcpServer::stop: mutex_ is taken, and every client in turn is given      *)
(* connectDestroyed(), which runs handleClose on this thread.               *)
StopUnlocked ==
  /\ pc[Main] = "st_lock"
  /\ Goto(Main, "st_each")
  /\ UNCHANGED <<it, mutex, clients, cur, connState>>

StopLock ==
  /\ pc[Main] = "st_lock"
  /\ mutex = Nil
  /\ mutex' = Main
  /\ Goto(Main, "st_each")
  /\ UNCHANGED <<it, clients, cur, connState>>

StopClient ==
  /\ pc[Main] = "st_each"
  /\ \E c \in clients :
       /\ connState' = [connState EXCEPT ![c] = "Disconnected"]
       /\ Enter(Main, c, "cl_disable")
  /\ UNCHANGED <<it, tableVars>>

(* No client is left: clients_.clear(), mutex_ is released and the pool is  *)
(* stopped.                                                                 *)
StopClear ==
  /\ pc[Main] = "st_each"
  /\ clients = {}
  /\ mutex' = Nil
  /\ it' = 0
  /\ Goto(Main, "quitting")
  /\ UNCHANGED <<clients, cur, connState>>

(* acceptor_.reset() closes the listening socket, and stop() returns.       *)
StopAcceptor ==
  /\ pc[Main] = "cleared"
  /\ acceptor' = "null"
  /\ backlog' = {}
  /\ Goto(Main, IF dtor THEN "done" ELSE "stopped")
  /\ UNCHANGED <<channelVars, loopOf, loopVars, ownerVars, tableVars, connVars,
                 dtor, fate, count, peer, data>>

(* The program: it stops the server when it likes, and the destructor calls *)
(* stop() once more; a stopped server may be started again instead, and     *)
(* nextLoop() divides by the size of an empty loops_.                       *)
BeginStop ==
  /\ pc[Main] = "serving"
  /\ Goto(Main, "st_lock")
  /\ UNCHANGED <<dtor, fate>>

Destroy ==
  /\ pc[Main] \in {"stopped", "threw"}
  /\ dtor' = TRUE
  /\ Goto(Main, "st_lock")
  /\ UNCHANGED fate

Restart ==
  /\ pc[Main] = "stopped"
  /\ acceptor = "null"
  /\ ~alive
  /\ fate' = "division_by_zero"
  /\ UNCHANGED <<pc, dtor>>

StartListen ==
  /\ Listen \/ ListenSetState
  /\ UNCHANGED <<loopOf, loopVars, alive, tableVars, connVars, dtor, fate, count,
                 netVars>>

StartOrStopPool ==
  /\ (PoolStep /\ UNCHANGED channelVars) \/ PoolClear
  /\ UNCHANGED <<loopOf, tableVars, connVars, mainVars, count, netVars>>

StopClients ==
  /\ StopLock \/ StopClient \/ StopClear
  /\ UNCHANGED <<channelVars, loopOf, loopVars, alive, notified, mainVars, count,
                 netVars>>

MainThread == Start \/ BindFails \/ StartListen \/ StartOrStopPool \/ StopClients
                \/ StopAcceptor

Program ==
  /\ BeginStop \/ Destroy \/ Restart
  /\ UNCHANGED <<channelVars, loopOf, loopVars, ownerVars, tableVars, connVars,
                 acceptor, count, netVars>>

-----------------------------------------------------------------------------
Running == fate = "running"

Next ==
  /\ Running
  /\ \/ MainThread
     \/ Program
     \/ \E l \in Loops : LoopThread(l)
     \/ \E t \in Threads : HandleClose(t)
     \/ Net

Spec == Init /\ [][Next]_vars

(* Every thread is scheduled, and nobody is refused a free mutex for good.  *)
(* The program need not stop the server and the peers need not do anything. *)
(* A signal may interrupt epoll_wait, but not every time.                   *)
Fairness ==
  /\ WF_vars(Running /\ MainThread)
  /\ \A l \in Loops : /\ WF_vars(Running /\ LoopThread(l) /\ pc[l] # "poll")
                      /\ SF_vars(Running /\ PollConns(l))
  /\ \A t \in Threads : WF_vars(Running /\ HandleClose(t))

FairSpec == Spec /\ Fairness

-----------------------------------------------------------------------------
(* Safety. *)

(* A connection on an interest list is in clients_, the only owner that     *)
(* keeps it alive between two events: the kernel never hands a loop the     *)
(* address of a connection nobody owns.                                     *)
RegisteredClient == registered \cap Conns \subseteq clients

(* A connection that a loop is about to dispatch, or works on through the   *)
(* bare pointer epoll_wait returned, has not been erased from clients_ by   *)
(* stop() or by another loop in the meantime.                               *)
DispatchedIsAlive ==
  \A l \in Loops :
    /\ active[l] \cap Conns \subseteq clients
    /\ pc[l] \in {"rd_read", "cl_disable", "cl_add", "cl_mod", "cl_setstate",
                  "cl_remove"} => cur[l] \in clients

(* A connection is registered for no events only while a thread is between  *)
(* disableAll() and remove() for it: however handleClose is interrupted by  *)
(* exceptions and by the other thread, none is left registered and deaf.    *)
NoDeafConnection ==
  \A c \in Conns : c \in registered /\ mask[c] = NONE =>
    \E t \in Threads : cur[t] = c /\ pc[t] \in {"cl_setstate", "cl_remove"}

StopRequested == pc[Main] \notin {"init", "listen", "listen_setstate", "starting",
                                  "serving"}

(* The server keeps its promise to the program, whichever threads open and  *)
(* close a connection and whatever throws: while it serves, onClose comes   *)
(* at most once for a connection, although a close that throws is retried   *)
(* from the next poll; nothing leaves clients_ before its onClose, or while *)
(* onConnected runs for it or another, and nothing comes back.              *)
SettingUp == {cur[l] : l \in {k \in Loops : pc[k] \in {"acc_add", "acc_setstate", "acc_connected"}}}
Promise == INSTANCE ClientTable
             WITH table <- clients, opening <- SettingUp, closed <- notified,
                  stopping <- StopRequested
KeepsItsPromise == Promise!TableSpec

-----------------------------------------------------------------------------
(* Liveness, under FairSpec. *)

(* A registered connection whose peer has closed or reset it is dropped     *)
(* from clients_, unless the server is being stopped: also when its loop    *)
(* sees the end before the accepting loop has finished setting it up.       *)
PeerCloseReaped ==
  \A c \in Conns : (c \in registered /\ peer[c] \in {"fin", "rst", "down"})
                     ~> (c \notin clients \/ StopRequested)

(* A stop() that finds no client returns, even if one is accepted while it  *)
(* stops the loops.                                                         *)
IdleStopReturns ==
  (pc[Main] = "st_each" /\ clients = {}) ~> (pc[Main] \in {"stopped", "done"})

-----------------------------------------------------------------------------
(* What the code's comments and messages say and the code does not do. *)

(* main.cpp:57 "server was stopped!" is reached: a call of stop() returns   *)
(* or throws.                                                               *)
StopReturns == (pc[Main] = "st_lock" /\ ~dtor) ~> (pc[Main] \in {"stopped", "threw"})
=============================================================================
