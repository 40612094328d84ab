------------------------------ MODULE TcpClient ------------------------------
(***************************************************************************)
(* TcpClient (tcpclient.cpp) with its Connector (connector.cpp) and its    *)
(* TcpConnection, on one event loop that somebody else owns and runs.      *)
(*                                                                         *)
(* The user's thread asks for a connection, which registers a Channel for  *)
(* writability; the loop's thread finds it writable, takes the descriptor  *)
(* out of that Channel, destroys it and gives the descriptor to a          *)
(* TcpConnection with a Channel of its own.  Nothing is locked.  Channels  *)
(* are objects that are made, destroyed and never reused; the TcpConnection *)
(* is named by its Channel.                                                *)
(***************************************************************************)
EXTENDS EventLoop

CONSTANT Nil     \* a null pointer

(* There is one loop, which the constructor of TcpClient is given.          *)
ASSUME ClientAssumption == NumLoops = 1 /\ Nil \notin Channels

VARIABLES
  object,       \* whether each Channel exists: "unused", "live" or "dead"
  cur,          \* the Channel whose method each thread runs
  connector,    \* whether TcpClient::connector_ is set
  cstate,       \* Connector::state_
  channel,      \* Connector::channel_
  connection,   \* TcpClient::connection_
  connState,    \* TcpConnection::state_ of connection
  cancelled,    \* whether disconnect() has destroyed the Connector's channel
  fate,         \* "running", or what killed the process
  peer,         \* kernel: the peer's end of each Channel's socket
  data,         \* kernel: whether the socket holds unread data
  shut          \* kernel: whether the socket's sending side is shut down

connectorVars == <<connector, cstate, channel>>
clientVars    == <<connection, connState>>
netVars       == <<peer, data, shut>>
programVars   == <<cancelled, fate>>

vars == <<channelVars, pc, loopOf, loopVars, object, cur, connectorVars,
          clientVars, programVars, netVars>>

ConnectStates == {"Connecting", "Connected", "Disconnected"}

ConnectLabels == {"ct_add", "ct_setstate"}
WriteLabels   == {"hw_add", "hw_mod", "hw_remove", "hw_error"}

(* A TcpClient just constructed, and a loop that has not been started.      *)
(* Connector::state_ is never initialized: it starts anywhere.              *)
Init ==
  /\ ChannelInit
  /\ LoopInit
  /\ pc = [t \in Threads |-> IF t = Main THEN "idle" ELSE "none"]
  /\ object = [ch \in Channels |-> "unused"]
  /\ cur = [t \in Threads |-> Nil]
  /\ connector = FALSE
  /\ cstate \in ConnectStates
  /\ channel = Nil
  /\ connection = Nil
  /\ connState = "Disconnected"
  /\ cancelled = FALSE
  /\ fate = "running"
  /\ peer = [ch \in Channels |-> "none"]
  /\ data = {}
  /\ shut = FALSE

-----------------------------------------------------------------------------
(* The kernel and the peer. *)

(* The conditions of a connected socket.  It is always writable here; it    *)
(* hangs up when both directions are shut.                                  *)
Conditions(ch) ==
  {f \in {"IN"} : ch \in data} \cup
  CASE peer[ch] = "open" -> {"OUT"}
    [] peer[ch] = "fin"  -> {"OUT", "IN", "RDHUP"} \cup {f \in {"HUP"} : shut}
    [] peer[ch] = "rst"  -> {"OUT", "IN", "RDHUP", "HUP", "ERR"}
    [] peer[ch] = "down" -> {"OUT", "IN", "RDHUP", "HUP"}
    [] OTHER             -> {}

PeerSend(ch) ==
  /\ peer[ch] = "open"
  /\ data' = data \cup {ch}
  /\ UNCHANGED peer

PeerClose(ch) ==
  /\ peer[ch] = "open"
  /\ peer' = [peer EXCEPT ![ch] = "fin"]
  /\ UNCHANGED data

PeerReset(ch) ==
  /\ peer[ch] \in {"open", "fin"}
  /\ peer' = [peer EXCEPT ![ch] = "rst"]
  /\ UNCHANGED data

Net == \E ch \in Channels :
  /\ PeerSend(ch) \/ PeerClose(ch) \/ PeerReset(ch)
  /\ UNCHANGED <<channelVars, pc, loopOf, loopVars, object, cur, connectorVars,
                 clientVars, programVars, shut>>

-----------------------------------------------------------------------------
(* Any thread. *)

Enter(t, ch, label) ==
  /\ cur' = [cur EXCEPT ![t] = ch]
  /\ Goto(t, label)

(* An exception leaves connect(), which the user catches, or the handler,   *)
(* and the loop takes the next channel; returning leads to the same place.  *)
Leave(t) == Enter(t, Nil, IF t = Main THEN "idle" ELSE "for")

(* channel_.reset(): the Channel is destroyed and closes its descriptor,    *)
(* which takes it off the interest list.                                    *)
ResetChannel(ch) ==
  /\ channel' = Nil
  /\ object' = [object EXCEPT ![ch] = "dead"]
  /\ registered' = registered \ {ch}
  /\ mask' = [mask EXCEPT ![ch] = NONE]
  /\ peer' = [peer EXCEPT ![ch] = "none"]
  /\ data' = data \ {ch}

(* Connector::connect, on the user's thread and in retry() on the loop's:   *)
(* socket() or ::connect fails and it throws.  EINPROGRESS is such a        *)
(* failure: it is tested before the switch that would accept it.            *)
ConnectFails(t) ==
  /\ Leave(t)
  /\ UNCHANGED <<object, channel, channelVars, peer>>

(* ::connect returns 0: connecting() makes a new Channel and asks for       *)
(* writability, up to the choice of EPOLL_CTL_ADD.                          *)
Connecting(t) ==
  \E ch \in Channels :
    /\ object[ch] = "unused"
    /\ object' = [object EXCEPT ![ch] = "live"]
    /\ channel' = ch
    /\ peer' = [peer EXCEPT ![ch] = "open"]
    /\ AskFor(ch, WRITE)
    /\ Enter(t, ch, "ct_add")

(* enableWrite(): epoll_ctl and setState through the Channel's own address. *)
ConnectAdd(t) ==
  /\ pc[t] = "ct_add"
  /\ object[cur[t]] = "live"
  /\ \/ CtlSucceeds("ADD", cur[t]) /\ Goto(t, "ct_setstate") /\ UNCHANGED cur
     \/ CtlThrows("ADD", cur[t]) /\ Leave(t)

ConnectSetStateForgotten(t) ==
  /\ pc[t] = "ct_setstate"
  /\ object[cur[t]] = "live"
  /\ Leave(t)
  /\ UNCHANGED channelVars

ConnectSetState(t) ==
  /\ pc[t] = "ct_setstate"
  /\ object[cur[t]] = "live"
  /\ SetStateAdd(cur[t])
  /\ Leave(t)

ConnectorEnableWrite(t) ==
  /\ ConnectAdd(t) \/ ConnectSetState(t)
  /\ UNCHANGED <<loopOf, loopVars, object, connectorVars, clientVars,
                 programVars, netVars>>

(* The Channel that thread t works on has been destroyed by another thread, *)
(* or the loop's thread takes a destroyed one from its batch: undefined     *)
(* from here on.                                                            *)
Dangling(t) ==
  /\ \/ pc[t] \in ConnectLabels \cup WriteLabels /\ object[cur[t]] = "dead"
     \/ t \in Loops /\ pc[t] = "for" /\ \E ch \in active[t] : object[ch] = "dead"
  /\ fate' = "dangling"
  /\ UNCHANGED <<channelVars, pc, loopOf, loopVars, object, cur, connectorVars,
                 clientVars, cancelled, netVars>>

-----------------------------------------------------------------------------
(* The user's thread. *)

(* connect(): it throws, with no effect, if connector_ is set or the host   *)
(* has no address family.  Once the Connector exists it stays, also if      *)
(* connecting fails.                                                        *)
Connect ==
  /\ pc[Main] = "idle"
  /\ ~connector
  /\ connector' = TRUE
  /\ ConnectFails(Main) \/ Connecting(Main)
  /\ UNCHANGED <<loopOf, loopVars, cstate, clientVars, programVars, data, shut>>

(* disconnect(), also from the destructor: the connection's sending side is *)
(* shut down ...                                                            *)
Disconnect ==
  /\ pc[Main] = "idle"
  /\ shut' = (shut \/ connection # Nil)
  /\ Goto(Main, "dc_reset")
  /\ UNCHANGED <<channelVars, loopOf, loopVars, object, cur, connectorVars,
                 clientVars, programVars, peer, data>>

(* ... and the Connector's channel is destroyed, if there is one.           *)
DisconnectReset ==
  /\ pc[Main] = "dc_reset"
  /\ \/ /\ channel # Nil
        /\ ResetChannel(channel)
        /\ cancelled' = TRUE
     \/ /\ channel = Nil
        /\ UNCHANGED <<channel, object, registered, mask, peer, data, cancelled>>
  /\ Goto(Main, "idle")
  /\ UNCHANGED <<state, channelEvent, loopOf, loopVars, cur, connector, cstate,
                 clientVars, fate, shut>>

(* send(): there is no connection yet; or the kernel takes what it likes;   *)
(* or the other side has gone away, which is reported once as an error that *)
(* nobody looks at and then, or at once if the peer had closed before, by a *)
(* signal that nobody catches.                                              *)
Send ==
  /\ pc[Main] = "idle"
  /\ \/ connection = Nil /\ fate' = "null" /\ UNCHANGED peer
     \/ /\ connection # Nil
        /\ shut \/ peer[connection] \in {"rst", "down"}
        /\ fate' = "SIGPIPE" /\ UNCHANGED peer
     \/ /\ connection # Nil
        /\ ~shut /\ peer[connection] = "rst"
        /\ peer' = [peer EXCEPT ![connection] = "down"] /\ UNCHANGED fate
  /\ UNCHANGED <<channelVars, pc, loopOf, loopVars, object, cur, connectorVars,
                 clientVars, cancelled, data, shut>>

Shutdown ==
  /\ pc[Main] = "idle"
  /\ \/ connection = Nil /\ fate' = "null" /\ UNCHANGED shut
     \/ connection # Nil /\ shut' = TRUE /\ UNCHANGED fate
  /\ UNCHANGED <<channelVars, pc, loopOf, loopVars, object, cur, connectorVars,
                 clientVars, cancelled, peer, data>>

User == Connect \/ Disconnect \/ Send \/ Shutdown

(* The loop's owner starts it, before or after connect(). *)
StartTheLoop(l) ==
  /\ pc[l] = "none"
  /\ StartLoop(l)
  /\ Goto(l, "while")
  /\ UNCHANGED <<channelVars, loopOf, wakeups, active, events, capacity, object,
                 cur, connectorVars, clientVars, programVars, netVars>>

-----------------------------------------------------------------------------
(* The loop's thread: Connector::handleWrite. *)

(* The Connector's channel is writable and state_ says Connecting:          *)
(* disableAll() chooses its epoll_ctl operation.                            *)
WriteUnchecked(l, ch) ==
  /\ HandleEvent(events[ch]) = "write"
  /\ cstate = "Connecting"
  /\ AskFor(ch, NONE)
  /\ Enter(l, ch, "hw_mod")

WriteDisable(l, ch) ==
  /\ HandleEvent(events[ch]) = "write"
  /\ cstate = "Connecting"
  /\ AskFor(ch, NONE)
  /\ Enter(l, ch, IF UpdateOpt(state[ch]) = "ADD" THEN "hw_add" ELSE "hw_mod")

(* It hangs up, and has no closeHandler_; or state_ is something else: the  *)
(* event is left as it is.                                                  *)
WriteIgnored(ch) ==
  /\ ~(HandleEvent(events[ch]) = "write" /\ cstate = "Connecting")
  /\ UNCHANGED <<pc, cur, channelVars>>

DispatchConnector(l, ch) ==
  /\ Take(l, ch)
  /\ ch # connection
  /\ object[ch] = "live"
  /\ WriteDisable(l, ch) \/ WriteIgnored(ch)
  /\ UNCHANGED <<loopOf, object, connectorVars, clientVars, programVars, netVars>>

(* disableAll() while connecting() has not reached setState: ADD fails.     *)
WriteAdd(l) ==
  /\ pc[l] = "hw_add"
  /\ CtlThrows("ADD", cur[l])
  /\ Leave(l)

WriteModOnly(l) ==
  /\ pc[l] = "hw_mod"
  /\ CtlSucceeds("MOD", cur[l])
  /\ Goto(l, "hw_error")
  /\ UNCHANGED cur

WriteMod(l) ==
  /\ pc[l] = "hw_mod"
  /\ CtlSucceeds("MOD", cur[l])
  /\ Goto(l, "hw_remove")
  /\ UNCHANGED cur

WriteRemove(l) ==
  /\ pc[l] = "hw_remove"
  /\ CtlSucceeds("DEL", cur[l])
  /\ Goto(l, "hw_error")
  /\ UNCHANGED cur

HandleWrite(l) ==
  /\ pc[l] \in WriteLabels
  /\ object[cur[l]] = "live"
  /\ WriteAdd(l) \/ WriteMod(l) \/ WriteRemove(l)
  /\ UNCHANGED <<loopOf, loopVars, object, connectorVars, clientVars,
                 programVars, netVars>>

(* getSocketError() > 0: retry() destroys the channel, sets state_ to       *)
(* Disconnected and connects again.                                         *)
Retry(l) ==
  /\ pc[l] = "hw_error"
  /\ object[cur[l]] = "live"
  /\ peer[cur[l]] = "rst"
  /\ ResetChannel(cur[l])
  /\ cstate' = "Disconnected"
  /\ Enter(l, Nil, "rt_connect")
  /\ UNCHANGED <<state, channelEvent, loopOf, loopVars, connector, clientVars,
                 programVars, shut>>

RetryConnect(l) ==
  /\ pc[l] = "rt_connect"
  /\ ConnectFails(l) \/ Connecting(l)
  /\ UNCHANGED <<loopOf, loopVars, connector, cstate, clientVars, programVars,
                 data, shut>>

(* No error: state_ is Connected, the descriptor is released and its        *)
(* Channel destroyed, which closes nothing and unregisters nothing.  The    *)
(* descriptor is then in nobody's hands but this thread's.                  *)
ReleaseToNobody(l) ==
  /\ pc[l] = "hw_error"
  /\ object[cur[l]] = "live"
  /\ peer[cur[l]] # "rst"
  /\ cstate' = "Connected"
  /\ channel' = Nil
  /\ object' = [object EXCEPT ![cur[l]] = "dead"]
  /\ Leave(l)
  /\ UNCHANGED <<channelVars, loopOf, loopVars, connector, clientVars,
                 programVars, netVars>>

Release(l) ==
  /\ pc[l] = "hw_error"
  /\ object[cur[l]] = "live"
  /\ peer[cur[l]] # "rst"
  /\ cstate' = "Connected"
  /\ channel' = Nil
  /\ object' = [object EXCEPT ![cur[l]] = "dead"]
  /\ Goto(l, "connected")
  /\ UNCHANGED <<channelVars, loopOf, loopVars, cur, connector, clientVars,
                 programVars, netVars>>

-----------------------------------------------------------------------------
(* The loop's thread: the TcpConnection. *)

(* TcpClient::connected: connection_ is made for the descriptor, then       *)
(* connectEstablished up to enableRead's choice of EPOLL_CTL_ADD.           *)
Connected(l) ==
  /\ pc[l] = "connected"
  /\ \E ch \in Channels :
       /\ object[ch] = "unused"
       /\ object' = [object EXCEPT ![ch] = "live"]
       /\ connection' = ch
       /\ peer' = [peer EXCEPT ![ch] = peer[cur[l]], ![cur[l]] = "none"]
       /\ data' = (data \ {cur[l]}) \cup {c \in {ch} : cur[l] \in data}
       /\ AskFor(ch, READ)
       /\ Enter(l, ch, "est_add")
  /\ connState' = "Connected"
  /\ UNCHANGED <<loopOf, loopVars, connectorVars, programVars, shut>>

EstablishAdd(l) ==
  /\ pc[l] = "est_add"
  /\ \/ CtlSucceeds("ADD", cur[l]) /\ Goto(l, "est_setstate") /\ UNCHANGED cur
     \/ CtlThrows("ADD", cur[l]) /\ Leave(l)

EstablishSetState(l) ==
  /\ pc[l] = "est_setstate"
  /\ SetStateAdd(cur[l])
  /\ Leave(l)

ConnectEstablished(l) ==
  /\ EstablishAdd(l) \/ EstablishSetState(l)
  /\ UNCHANGED <<loopOf, loopVars, object, connectorVars, clientVars,
                 programVars, netVars>>

(* handleRead: data, end of file, or an error, which is reported once.      *)
DispatchConnection(l, ch) ==
  /\ Take(l, ch)
  /\ ch = connection
  /\ HandleEvent(events[ch]) = "read"
  /\ connState # "Disconnected"
  /\ Enter(l, ch, "rd_read")
  /\ UNCHANGED <<channelVars, loopOf, object, connectorVars, clientVars,
                 programVars, netVars>>

ReadData(l) ==
  /\ cur[l] \in data
  /\ data' = data \ {cur[l]}
  /\ Leave(l)
  /\ UNCHANGED peer

ReadEofIgnored(l) ==
  /\ cur[l] \notin data
  /\ peer[cur[l]] \in {"fin", "down"}
  /\ Leave(l)
  /\ UNCHANGED <<peer, data>>

ReadEof(l) ==
  /\ cur[l] \notin data
  /\ peer[cur[l]] \in {"fin", "down"}
  /\ Goto(l, "cl_disable")
  /\ UNCHANGED <<cur, peer, data>>

ReadFails(l) ==
  /\ cur[l] \notin data
  /\ peer[cur[l]] = "rst"
  /\ peer' = [peer EXCEPT ![cur[l]] = "down"]
  /\ Leave(l)
  /\ UNCHANGED data

HandleRead(l) ==
  /\ pc[l] = "rd_read"
  /\ ReadData(l) \/ ReadEof(l) \/ ReadFails(l)
  /\ UNCHANGED <<channelVars, loopOf, loopVars, object, connectorVars,
                 clientVars, programVars, shut>>

(* handleClose: disableAll, remove, and state_ is Disconnected.             *)
CloseDisable(l) ==
  /\ pc[l] = "cl_disable"
  /\ UpdateOpt(state[cur[l]]) = "MOD"
  /\ AskFor(cur[l], NONE)
  /\ Goto(l, "cl_mod")
  /\ UNCHANGED <<cur, connState>>

CloseMod(l) ==
  /\ pc[l] = "cl_mod"
  /\ \/ CtlSucceeds("MOD", cur[l]) /\ Goto(l, "cl_remove") /\ UNCHANGED cur
     \/ CtlThrows("MOD", cur[l]) /\ Leave(l)
  /\ UNCHANGED connState

CloseRemove(l) ==
  /\ pc[l] = "cl_remove"
  /\ CtlSucceeds("DEL", cur[l])
  /\ Goto(l, "cl_notify")
  /\ UNCHANGED <<cur, connState>>

(* Then closeHandler_, which is TcpClient::handleClose, and its first       *)
(* statement is connectDestroyed(), which runs handleClose again.  What     *)
(* follows that statement is not modelled: it is never reached.             *)
CloseNotify(l) ==
  /\ pc[l] = "cl_notify"
  /\ connState' = "Disconnected"
  /\ Goto(l, "cl_disable")
  /\ UNCHANGED <<cur, channelVars>>

HandleClose(l) ==
  /\ CloseDisable(l) \/ CloseMod(l) \/ CloseRemove(l) \/ CloseNotify(l)
  /\ UNCHANGED <<loopOf, loopVars, object, connectorVars, connection,
                 programVars, netVars>>

-----------------------------------------------------------------------------
PollSockets(l) ==
  /\ Poll(l, [ch \in Channels |-> Conditions(ch)])
  /\ UNCHANGED <<channelVars, loopOf, object, cur, connectorVars, clientVars,
                 programVars, netVars>>

Walk(l) ==
  /\ CheckQuit(l) \/ PollInterrupted(l) \/ EndBatch(l)
  /\ UNCHANGED <<channelVars, loopOf, object, cur, connectorVars, clientVars,
                 programVars, netVars>>

LoopThread(l) ==
  \/ Walk(l)
  \/ PollSockets(l)
  \/ \E ch \in Channels : DispatchConnector(l, ch) \/ DispatchConnection(l, ch)
  \/ HandleWrite(l) \/ Retry(l) \/ RetryConnect(l) \/ Release(l)
  \/ Connected(l) \/ ConnectEstablished(l)
  \/ HandleRead(l) \/ HandleClose(l)

Running == fate = "running"

(* A process that has died stays dead. *)
Dead == ~Running /\ UNCHANGED vars

Next ==
  \/ /\ Running
     /\ \/ User
        \/ DisconnectReset
        \/ \E t \in Threads : ConnectorEnableWrite(t) \/ Dangling(t)
        \/ \E l \in Loops : StartTheLoop(l) \/ LoopThread(l)
        \/ Net
  \/ Dead

Spec == Init /\ [][Next]_vars

(* Both threads are scheduled, and the loop's owner does start it.  What    *)
(* the user does next, and the peer, are free.  A signal may interrupt      *)
(* epoll_wait, but not every time.                                          *)
Fairness ==
  /\ WF_vars(Running /\ DisconnectReset)
  /\ \A t \in Threads : WF_vars(Running /\ ConnectorEnableWrite(t))
  /\ \A l \in Loops :
       /\ WF_vars(Running /\ StartTheLoop(l))
       /\ WF_vars(Running /\ LoopThread(l) /\ pc[l] # "poll")
       /\ SF_vars(Running /\ PollSockets(l))

FairSpec == Spec /\ Fairness

-----------------------------------------------------------------------------
(* Safety. *)

(* The kernel holds no pointer to a Channel that has been destroyed: the    *)
(* hand-over takes the descriptor out of the Connector's Channel without    *)
(* closing it, so nothing but remove() takes it off the interest list.      *)
RegisteredIsAlive == \A ch \in registered : object[ch] = "live"

(* Only disconnect() can pull a Channel from under a thread.  In particular *)
(* handleWrite never destroys the Channel while connecting(), on the user's *)
(* thread, still has to write state_ into it: until then disableAll() asks  *)
(* for an ADD that the kernel refuses, and the loop tries again.            *)
OnlyDisconnectDangles == fate = "dangling" => cancelled

(* An open socket has an owner: a Channel, or the loop's thread between     *)
(* releaseFd() and the TcpConnection it makes.  No path of connecting,      *)
(* retrying and handing over loses a descriptor.                            *)
SocketIsOwned ==
  \A ch \in Channels : peer[ch] # "none" =>
    object[ch] = "live" \/ \E l \in Loops : pc[l] = "connected" /\ cur[l] = ch

-----------------------------------------------------------------------------
(* Liveness, under FairSpec. *)

(* Once the Connector's channel is registered, and its state_ happens to    *)
(* say Connecting, the connection is made, unless the peer resets it or     *)
(* disconnect() cancels it: losing the race for state_ only delays it.      *)
ConnectCompletes ==
  \A ch \in Channels :
    (ch \in registered /\ ch = channel /\ cstate = "Connecting")
      ~> (connection # Nil \/ peer[ch] = "rst" \/ cancelled \/ ~Running)

(* A connection that is watched and whose peer is gone is closed.           *)
PeerCloseNoticed ==
  \A ch \in Channels :
    (ch \in registered /\ ch = connection /\ peer[ch] \in {"fin", "rst", "down"})
      ~> (connState = "Disconnected" \/ ~Running)
=============================================================================
