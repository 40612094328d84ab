-------------------------- MODULE TcpClientProofs --------------------------
(***************************************************************************)
(* Proofs about TcpClient and its Connector, for any number of Channels.   *)
(*                                                                         *)
(* The argument is an inductive invariant, ClientInv, that says who works  *)
(* on which Channel.  Its centre is ConnectOK and WriteOK: as long as      *)
(* connecting() has not written state_, handleWrite reads NEW there, asks  *)
(* for an EPOLL_CTL_ADD and does not get past it; so the Channel that it   *)
(* destroys at the hand-over is one that nobody else works on, and that    *)
(* its own EPOLL_CTL_DEL has taken off the interest list.  Only the user's *)
(* disconnect() asks none of this.                                         *)
(***************************************************************************)
EXTENDS TcpClient, TLAPS

(* The labels of the user's thread and of the loop's; those in which the    *)
(* loop runs a method of the TcpConnection; and all in which a thread works *)
(* on a Channel.                                                            *)
MainLabels == {"idle", "dc_reset"} \cup ConnectLabels
ConnLabels == {"est_add", "est_setstate", "rd_read", "cl_disable", "cl_mod", "cl_remove", "cl_notify"}
LoopLabels == {"none", "while", "poll", "for", "end", "rt_connect", "connected"}
                \cup ConnectLabels \cup WriteLabels \cup ConnLabels
BusyLabels == {"connected"} \cup ConnectLabels \cup WriteLabels \cup ConnLabels

(* What the variables hold.  Nobody stops the loop or wakes it up.          *)
PcTypeOK ==
  /\ pc \in [Threads -> MainLabels \cup LoopLabels]
  /\ pc[Main] \in MainLabels /\ \A l \in Loops : pc[l] \in LoopLabels
ObjectTypeOK ==
  /\ object \in [Channels -> {"unused", "live", "dead"}]
  /\ cur \in [Threads -> Channels \cup {Nil}]
  /\ channel \in Channels \cup {Nil} /\ connection \in Channels \cup {Nil}
ProgramTypeOK ==
  /\ connector \in BOOLEAN /\ cstate \in ConnectStates
  /\ connState \in {"Connected", "Disconnected"}
  /\ cancelled \in BOOLEAN /\ fate \in {"running", "dangling", "null", "SIGPIPE"}
NetTypeOK ==
  /\ peer \in [Channels -> {"none", "open", "fin", "rst", "down"}]
  /\ data \subseteq Channels /\ shut \in BOOLEAN
QuietOK ==
  wakeups = [l \in Loops |-> FALSE] /\ active \in [Loops -> SUBSET Channels]
ClientTypeOK ==
  /\ ChannelTypeOK /\ LoopTypeOK /\ QuietOK
  /\ PcTypeOK /\ ObjectTypeOK /\ ProgramTypeOK /\ NetTypeOK

(* A thread has a Channel exactly while it works on one, ...                *)
BusyOK == \A t \in Threads : (cur[t] # Nil) <=> (pc[t] \in BusyLabels)

(* ... which is one that has been made, ...                                 *)
MadeOK == \A t \in Threads : cur[t] # Nil => object[cur[t]] # "unused"

(* ... and that of the connection in a method of the TcpConnection.         *)
MethodOK == \A l \in Loops : pc[l] \in ConnLabels => cur[l] = connection

(* The two Channels that the client owns exist and are two; a Channel that  *)
(* has not been made has no state.                                          *)
OwnedOK ==
  /\ connection # Nil => object[connection] = "live"
  /\ channel # Nil => object[channel] = "live" /\ channel # connection
  /\ \A ch \in Channels : object[ch] = "unused" => state[ch] = "NEW"

(* Until connecting() has written state_ nobody else has, and no other      *)
(* thread is connecting the same Channel.                                   *)
ConnectOK ==
  \A t \in Threads : pc[t] \in ConnectLabels =>
    /\ cur[t] # connection
    /\ state[cur[t]] = "NEW"
    /\ \A u \in Threads \ {t} : pc[u] \in ConnectLabels => cur[u] # cur[t]

(* handleWrite works on a Channel that has left the batch and that nobody   *)
(* is still connecting, once it is past the choice of EPOLL_CTL_MOD; and    *)
(* when it comes to the hand-over the Channel is not registered.            *)
WriteOK ==
  \A l \in Loops : pc[l] \in WriteLabels =>
    /\ cur[l] # connection /\ cur[l] \notin active[l]
    /\ pc[l] # "hw_add" => \A t \in Threads : pc[t] \in ConnectLabels => cur[t] # cur[l]
    /\ pc[l] = "hw_error" => cur[l] \notin registered

(* Without a disconnect() no thread has a Channel that is destroyed, and no *)
(* batch holds one.                                                         *)
HeldOK ==
  ~cancelled =>
    /\ \A t \in Threads : pc[t] \in ConnectLabels \cup WriteLabels => object[cur[t]] = "live"
    /\ \A l \in Loops : \A ch \in active[l] : object[ch] = "live"

(* All of it. *)
ClientInv ==
  /\ ClientTypeOK /\ BusyOK /\ MadeOK /\ MethodOK /\ OwnedOK /\ ConnectOK /\ WriteOK /\ HeldOK
  /\ RegisteredIsAlive /\ OnlyDisconnectDangles /\ SocketIsOwned

-----------------------------------------------------------------------------
(* What a step can be.                                                      *)
LEMMA Steps ==
  ASSUME Next
  PROVE
    \/ (Connect /\ ConnectFails(Main)) \/ (Connect /\ Connecting(Main)) \/ Disconnect
    \/ DisconnectReset \/ Send \/ Shutdown \/ Net \/ UNCHANGED vars
    \/ \E t \in Threads : \/ (ConnectorEnableWrite(t) /\ ConnectAdd(t))
         \/ (ConnectorEnableWrite(t) /\ ConnectSetState(t)) \/ Dangling(t)
    \/ \E l \in Loops : \/ StartTheLoop(l) \/ Walk(l) \/ PollSockets(l) \/ HandleWrite(l)
         \/ Retry(l) \/ (RetryConnect(l) /\ ConnectFails(l))
         \/ (RetryConnect(l) /\ Connecting(l)) \/ Release(l) \/ Connected(l)
         \/ (ConnectEstablished(l) /\ EstablishAdd(l))
         \/ (ConnectEstablished(l) /\ EstablishSetState(l)) \/ HandleRead(l)
         \/ (HandleClose(l) /\ CloseDisable(l)) \/ (HandleClose(l) /\ CloseMod(l))
         \/ (HandleClose(l) /\ CloseRemove(l)) \/ (HandleClose(l) /\ CloseNotify(l))
         \/ (\E ch \in Channels : DispatchConnector(l, ch) \/ DispatchConnection(l, ch))
<1>1. Connect => ConnectFails(Main) \/ Connecting(Main)
  BY DEF Connect
<1>2. \A t \in Threads : ConnectorEnableWrite(t) => ConnectAdd(t) \/ ConnectSetState(t)
  BY DEF ConnectorEnableWrite
<1>3. \A l \in Loops : /\ RetryConnect(l) => ConnectFails(l) \/ Connecting(l)
                       /\ ConnectEstablished(l) => EstablishAdd(l) \/ EstablishSetState(l)
  BY DEF RetryConnect, ConnectEstablished
<1>4. \A l \in Loops : HandleClose(l) =>
        CloseDisable(l) \/ CloseMod(l) \/ CloseRemove(l) \/ CloseNotify(l)
  BY DEF HandleClose
<1>5. CASE User \/ DisconnectReset \/ Net \/ Dead
  BY <1>1, <1>5, Zenon DEF User, Dead
<1>6. CASE \E t \in Threads : ConnectorEnableWrite(t) \/ Dangling(t)
  BY <1>2, <1>6, Zenon
<1>7. CASE \E l \in Loops : StartTheLoop(l) \/ LoopThread(l)
  BY <1>3, <1>4, <1>7, Zenon DEF LoopThread
<1> QED BY <1>5, <1>6, <1>7 DEF Next

(* Every thread stays at a label of its own.                                *)
LEMMA PcStep ==
  ASSUME ClientTypeOK, Next
  PROVE  PcTypeOK'
<1> USE ClientAssumption, LoopAssumption DEF ClientTypeOK, PcTypeOK, QuietOK, Loops, Threads,
        MainLabels, LoopLabels, BusyLabels, ConnLabels, ConnectLabels, WriteLabels, channelVars,
        loopVars, connectorVars, clientVars, programVars, netVars
<1>1. CASE Connect /\ ConnectFails(Main)
  BY <1>1 DEF Connect, ConnectFails, Leave, Enter, Goto
<1>2. CASE Connect /\ Connecting(Main)
  BY <1>2 DEF Connect, Connecting, AskFor, Enter, Goto
<1>3. CASE Disconnect
  BY <1>3 DEF Disconnect, Goto
<1>4. CASE DisconnectReset
  BY <1>4 DEF DisconnectReset, ResetChannel, Goto
<1>5. ASSUME NEW t \in Threads, ConnectorEnableWrite(t), ConnectAdd(t)
      PROVE  PcTypeOK'
  <2>1. CASE CtlSucceeds("ADD", cur[t]) /\ Goto(t, "ct_setstate") /\ UNCHANGED cur
    BY <1>5, <2>1 DEF ConnectorEnableWrite, ConnectAdd, CtlSucceeds, Goto
  <2>2. CASE CtlThrows("ADD", cur[t]) /\ Leave(t)
    BY <1>5, <2>2 DEF ConnectorEnableWrite, ConnectAdd, CtlThrows, Leave, Enter, Goto
  <2> QED BY <1>5, <2>1, <2>2 DEF ConnectAdd
<1>6. ASSUME NEW t \in Threads, ConnectorEnableWrite(t), ConnectSetState(t)
      PROVE  PcTypeOK'
  BY <1>6 DEF ConnectorEnableWrite, ConnectSetState, SetStateAdd, Leave, Enter, Goto
<1>7. ASSUME NEW l \in Loops, StartTheLoop(l)
      PROVE  PcTypeOK'
  BY <1>7 DEF StartTheLoop, StartLoop, Goto
<1>8. ASSUME NEW l \in Loops, Walk(l)
      PROVE  PcTypeOK'
  <2>1. CASE CheckQuit(l)
    BY <1>8, <2>1 DEF Walk, CheckQuit, Goto
  <2>2. CASE PollInterrupted(l)
    BY <1>8, <2>2 DEF Walk, PollInterrupted, Goto
  <2>3. CASE EndBatch(l)
    BY <1>8, <2>3 DEF Walk, EndBatch, Goto
  <2> QED BY <1>8, <2>1, <2>2, <2>3 DEF Walk
<1>9. ASSUME NEW l \in Loops, PollSockets(l)
      PROVE  PcTypeOK'
  BY <1>9 DEF PollSockets, Poll, Ready, Goto, Resize
<1>10. ASSUME NEW l \in Loops, NEW ch \in Channels, DispatchConnector(l, ch)
      PROVE  PcTypeOK'
  BY <1>10 DEF DispatchConnector, WriteDisable, WriteIgnored, AskFor, UpdateOpt, Take, Enter, Goto
<1>11. ASSUME NEW l \in Loops, NEW ch \in Channels, DispatchConnection(l, ch)
      PROVE  PcTypeOK'
  BY <1>11 DEF DispatchConnection, Take, Enter, Goto
<1>12. ASSUME NEW l \in Loops, HandleWrite(l)
      PROVE  PcTypeOK'
  <2>1. CASE WriteAdd(l)
    BY <1>12, <2>1 DEF HandleWrite, WriteAdd, CtlThrows, Leave, Enter, Goto
  <2>2. CASE WriteMod(l)
    BY <1>12, <2>2 DEF HandleWrite, WriteMod, CtlSucceeds, EpollAccepts, Goto
  <2>3. CASE WriteRemove(l)
    BY <1>12, <2>3 DEF HandleWrite, WriteRemove, CtlSucceeds, Goto
  <2> QED BY <1>12, <2>1, <2>2, <2>3 DEF HandleWrite
<1>13. ASSUME NEW l \in Loops, Retry(l)
      PROVE  PcTypeOK'
  BY <1>13 DEF Retry, ResetChannel, Enter, Goto
<1>14. ASSUME NEW l \in Loops, RetryConnect(l), ConnectFails(l)
      PROVE  PcTypeOK'
  BY <1>14 DEF RetryConnect, ConnectFails, Leave, Enter, Goto
<1>15. ASSUME NEW l \in Loops, RetryConnect(l), Connecting(l)
      PROVE  PcTypeOK'
  BY <1>15 DEF RetryConnect, Connecting, AskFor, Enter, Goto
<1>16. ASSUME NEW l \in Loops, Release(l)
      PROVE  PcTypeOK'
  BY <1>16 DEF Release, Goto
<1>17. ASSUME NEW l \in Loops, Connected(l)
      PROVE  PcTypeOK'
  BY <1>17 DEF Connected, AskFor, Enter, Goto
<1>18. ASSUME NEW l \in Loops, ConnectEstablished(l), EstablishAdd(l)
      PROVE  PcTypeOK'
  <2>1. CASE CtlSucceeds("ADD", cur[l]) /\ Goto(l, "est_setstate") /\ UNCHANGED cur
    BY <1>18, <2>1 DEF ConnectEstablished, EstablishAdd, CtlSucceeds, Goto
  <2>2. CASE CtlThrows("ADD", cur[l]) /\ Leave(l)
    BY <1>18, <2>2 DEF ConnectEstablished, EstablishAdd, CtlThrows, Leave, Enter, Goto
  <2> QED BY <1>18, <2>1, <2>2 DEF EstablishAdd
<1>19. ASSUME NEW l \in Loops, ConnectEstablished(l), EstablishSetState(l)
      PROVE  PcTypeOK'
  BY <1>19 DEF ConnectEstablished, EstablishSetState, SetStateAdd, Leave, Enter, Goto
<1>20. ASSUME NEW l \in Loops, HandleRead(l)
      PROVE  PcTypeOK'
  <2>1. CASE ReadData(l)
    BY <1>20, <2>1 DEF HandleRead, ReadData, Leave, Enter, Goto
  <2>2. CASE ReadEof(l)
    BY <1>20, <2>2 DEF HandleRead, ReadEof, Goto
  <2>3. CASE ReadFails(l)
    BY <1>20, <2>3 DEF HandleRead, ReadFails, Leave, Enter, Goto
  <2> QED BY <1>20, <2>1, <2>2, <2>3 DEF HandleRead
<1>21. ASSUME NEW l \in Loops, HandleClose(l), CloseDisable(l)
      PROVE  PcTypeOK'
  BY <1>21 DEF HandleClose, CloseDisable, AskFor, Goto
<1>22. ASSUME NEW l \in Loops, HandleClose(l), CloseMod(l)
      PROVE  PcTypeOK'
  BY <1>22 DEF HandleClose, CloseMod, CtlSucceeds, CtlThrows, EpollAccepts, Leave, Enter, Goto
<1>23. ASSUME NEW l \in Loops, HandleClose(l), CloseRemove(l)
      PROVE  PcTypeOK'
  BY <1>23 DEF HandleClose, CloseRemove, CtlSucceeds, EpollAccepts, Goto
<1>24. ASSUME NEW l \in Loops, HandleClose(l), CloseNotify(l)
      PROVE  PcTypeOK'
  BY <1>24 DEF HandleClose, CloseNotify, Goto
<1>25. CASE
        \/ Send \/ Shutdown \/ Net \/ UNCHANGED vars
        \/ \E t \in Threads : Dangling(t)
  <2>1. ASSUME \/ Send \/ Shutdown \/ Net \/ UNCHANGED vars
        PROVE  pc' = pc
    BY <2>1 DEF Send, Shutdown, Net, PeerSend, PeerClose, PeerReset, vars
  <2>2. ASSUME NEW t \in Threads,
               Dangling(t)
        PROVE  pc' = pc
    BY <2>2 DEF Dangling
  <2> QED BY <1>25, <2>1, <2>2
<1> QED BY <1>1, <1>2, <1>3, <1>4, <1>5, <1>6, <1>7, <1>8, <1>9, <1>10, <1>11, <1>12, <1>13, <1>14,
           <1>15, <1>16, <1>17, <1>18, <1>19, <1>20, <1>21, <1>22, <1>23, <1>24, <1>25, Steps

(* The Channels stay Channels.                                              *)
LEMMA ObjectStep ==
  ASSUME ClientTypeOK, BusyOK, Next
  PROVE  ObjectTypeOK'
<1> USE ClientAssumption, LoopAssumption DEF ClientTypeOK, PcTypeOK, ObjectTypeOK, QuietOK, BusyOK,
        Loops, Threads, MainLabels, LoopLabels, BusyLabels, ConnLabels, ConnectLabels, WriteLabels,
        channelVars, loopVars, connectorVars, clientVars, programVars, netVars
<1>1. CASE Connect /\ ConnectFails(Main)
  BY <1>1 DEF Connect, ConnectFails, Leave, Enter, Goto
<1>2. CASE Connect /\ Connecting(Main)
  BY <1>2 DEF Connect, Connecting, AskFor, Enter, Goto
<1>3. CASE DisconnectReset
  BY <1>3 DEF DisconnectReset, ResetChannel, Goto
<1>4. ASSUME NEW t \in Threads, ConnectorEnableWrite(t), ConnectAdd(t)
      PROVE  ObjectTypeOK'
  BY <1>4 DEF ConnectorEnableWrite, ConnectAdd, CtlSucceeds, CtlThrows, EpollAccepts, Leave, Enter,
      Goto
<1>5. ASSUME NEW t \in Threads, ConnectorEnableWrite(t), ConnectSetState(t)
      PROVE  ObjectTypeOK'
  BY <1>5 DEF ConnectorEnableWrite, ConnectSetState, SetStateAdd, Leave, Enter, Goto
<1>6. ASSUME NEW l \in Loops, NEW ch \in Channels, DispatchConnector(l, ch)
      PROVE  ObjectTypeOK'
  BY <1>6 DEF DispatchConnector, WriteDisable, WriteIgnored, AskFor, UpdateOpt, Take, Enter, Goto
<1>7. ASSUME NEW l \in Loops, NEW ch \in Channels, DispatchConnection(l, ch)
      PROVE  ObjectTypeOK'
  BY <1>7 DEF DispatchConnection, Take, Enter, Goto
<1>8. ASSUME NEW l \in Loops, HandleWrite(l)
      PROVE  ObjectTypeOK'
  BY <1>8 DEF HandleWrite, WriteAdd, WriteMod, WriteRemove, CtlSucceeds, CtlThrows, EpollAccepts,
      Leave, Enter, Goto
<1>9. ASSUME NEW l \in Loops, Retry(l)
      PROVE  ObjectTypeOK'
  BY <1>9 DEF Retry, ResetChannel, Enter, Goto
<1>10. ASSUME NEW l \in Loops, RetryConnect(l), ConnectFails(l)
      PROVE  ObjectTypeOK'
  BY <1>10 DEF RetryConnect, ConnectFails, Leave, Enter, Goto
<1>11. ASSUME NEW l \in Loops, RetryConnect(l), Connecting(l)
      PROVE  ObjectTypeOK'
  BY <1>11 DEF RetryConnect, Connecting, AskFor, Enter, Goto
<1>12. ASSUME NEW l \in Loops, Release(l)
      PROVE  ObjectTypeOK'
  BY <1>12 DEF Release, Goto
<1>13. ASSUME NEW l \in Loops, Connected(l)
      PROVE  ObjectTypeOK'
  BY <1>13 DEF Connected, AskFor, Enter, Goto
<1>14. ASSUME NEW l \in Loops, ConnectEstablished(l), EstablishAdd(l)
      PROVE  ObjectTypeOK'
  BY <1>14 DEF ConnectEstablished, EstablishAdd, CtlSucceeds, CtlThrows, EpollAccepts, Leave, Enter,
      Goto
<1>15. ASSUME NEW l \in Loops, ConnectEstablished(l), EstablishSetState(l)
      PROVE  ObjectTypeOK'
  BY <1>15 DEF ConnectEstablished, EstablishSetState, SetStateAdd, Leave, Enter, Goto
<1>16. ASSUME NEW l \in Loops, HandleRead(l)
      PROVE  ObjectTypeOK'
  BY <1>16 DEF HandleRead, ReadData, ReadEof, ReadFails, Leave, Enter, Goto
<1>17. ASSUME NEW l \in Loops, HandleClose(l), CloseMod(l)
      PROVE  ObjectTypeOK'
  BY <1>17 DEF HandleClose, CloseMod, CtlSucceeds, CtlThrows, EpollAccepts, Leave, Enter, Goto
<1>18. CASE
        \/ Disconnect \/ Send \/ Shutdown \/ Net \/ UNCHANGED vars
        \/ \E t \in Threads : Dangling(t)
        \/ \E l \in Loops : \/ StartTheLoop(l) \/ Walk(l) \/ PollSockets(l)
             \/ (HandleClose(l) /\ CloseDisable(l)) \/ (HandleClose(l) /\ CloseRemove(l))
             \/ (HandleClose(l) /\ CloseNotify(l))
  <2>1. ASSUME \/ Disconnect \/ Send \/ Shutdown \/ Net \/ UNCHANGED vars
        PROVE  UNCHANGED <<object, cur, channel, connection>>
    BY <2>1 DEF Disconnect, Goto, Send, Shutdown, Net, PeerSend, PeerClose, PeerReset, vars
  <2>2. ASSUME NEW t \in Threads,
               Dangling(t)
        PROVE  UNCHANGED <<object, cur, channel, connection>>
    BY <2>2 DEF Dangling
  <2>3. ASSUME NEW l \in Loops,
               \/ StartTheLoop(l) \/ Walk(l) \/ PollSockets(l)
               \/ (HandleClose(l) /\ CloseDisable(l)) \/ (HandleClose(l) /\ CloseRemove(l))
               \/ (HandleClose(l) /\ CloseNotify(l))
        PROVE  UNCHANGED <<object, cur, channel, connection>>
    BY <2>3 DEF StartTheLoop, StartLoop, Goto, Walk, CheckQuit, PollInterrupted, EndBatch,
        PollSockets, Poll, Ready, Resize, HandleClose, CloseDisable, AskFor, CloseRemove,
        CtlSucceeds, EpollAccepts, CloseNotify
  <2> QED BY <1>18, <2>1, <2>2, <2>3
<1> QED BY <1>1, <1>2, <1>3, <1>4, <1>5, <1>6, <1>7, <1>8, <1>9, <1>10, <1>11, <1>12, <1>13, <1>14,
           <1>15, <1>16, <1>17, <1>18, Steps

(* The flags and states of the program stay what they are.                  *)
LEMMA ProgramStep ==
  ASSUME ClientTypeOK, Next
  PROVE  ProgramTypeOK'
<1> USE ClientAssumption, LoopAssumption DEF ClientTypeOK, ProgramTypeOK, ConnectStates,
        channelVars, loopVars, connectorVars, clientVars, programVars, netVars
<1>1. CASE Connect /\ ConnectFails(Main)
  BY <1>1 DEF Connect, ConnectFails, Leave, Enter, Goto
<1>2. CASE Connect /\ Connecting(Main)
  BY <1>2 DEF Connect, Connecting, AskFor, Enter, Goto
<1>3. CASE DisconnectReset
  BY <1>3 DEF DisconnectReset, ResetChannel, Goto
<1>4. CASE Send
  BY <1>4 DEF Send
<1>5. CASE Shutdown
  BY <1>5 DEF Shutdown
<1>6. ASSUME NEW t \in Threads, Dangling(t)
      PROVE  ProgramTypeOK'
  BY <1>6 DEF Dangling
<1>7. ASSUME NEW l \in Loops, Retry(l)
      PROVE  ProgramTypeOK'
  BY <1>7 DEF Retry, ResetChannel, Enter, Goto
<1>8. ASSUME NEW l \in Loops, Release(l)
      PROVE  ProgramTypeOK'
  BY <1>8 DEF Release, Goto
<1>9. ASSUME NEW l \in Loops, Connected(l)
      PROVE  ProgramTypeOK'
  BY <1>9 DEF Connected, AskFor, Enter, Goto
<1>10. ASSUME NEW l \in Loops, HandleClose(l), CloseNotify(l)
      PROVE  ProgramTypeOK'
  BY <1>10 DEF HandleClose, CloseNotify, Goto
<1>11. CASE
        \/ Disconnect \/ Net \/ UNCHANGED vars
        \/ \E t \in Threads : \/ (ConnectorEnableWrite(t) /\ ConnectAdd(t))
             \/ (ConnectorEnableWrite(t) /\ ConnectSetState(t))
        \/ \E l \in Loops : \/ StartTheLoop(l) \/ Walk(l) \/ PollSockets(l) \/ HandleWrite(l)
             \/ (RetryConnect(l) /\ ConnectFails(l)) \/ (RetryConnect(l) /\ Connecting(l))
             \/ (ConnectEstablished(l) /\ EstablishAdd(l))
             \/ (ConnectEstablished(l) /\ EstablishSetState(l)) \/ HandleRead(l)
             \/ (HandleClose(l) /\ CloseDisable(l)) \/ (HandleClose(l) /\ CloseMod(l))
             \/ (HandleClose(l) /\ CloseRemove(l))
             \/ (\E ch \in Channels : DispatchConnector(l, ch) \/ DispatchConnection(l, ch))
  <2>1. ASSUME \/ Disconnect \/ Net \/ UNCHANGED vars
        PROVE  UNCHANGED <<connector, cstate, connState, cancelled, fate>>
    BY <2>1 DEF Disconnect, Goto, Net, PeerSend, PeerClose, PeerReset, vars
  <2>2. ASSUME NEW t \in Threads,
               \/ (ConnectorEnableWrite(t) /\ ConnectAdd(t))
               \/ (ConnectorEnableWrite(t) /\ ConnectSetState(t))
        PROVE  UNCHANGED <<connector, cstate, connState, cancelled, fate>>
    BY <2>2 DEF ConnectorEnableWrite, ConnectAdd, CtlSucceeds, CtlThrows, EpollAccepts, Leave,
        Enter, Goto, ConnectSetState, SetStateAdd
  <2>3. ASSUME NEW l \in Loops,
               \/ StartTheLoop(l) \/ Walk(l) \/ PollSockets(l) \/ HandleWrite(l)
               \/ (RetryConnect(l) /\ ConnectFails(l)) \/ (RetryConnect(l) /\ Connecting(l))
               \/ (ConnectEstablished(l) /\ EstablishAdd(l))
               \/ (ConnectEstablished(l) /\ EstablishSetState(l)) \/ HandleRead(l)
               \/ (HandleClose(l) /\ CloseDisable(l)) \/ (HandleClose(l) /\ CloseMod(l))
               \/ (HandleClose(l) /\ CloseRemove(l))
               \/ (\E ch \in Channels : DispatchConnector(l, ch) \/ DispatchConnection(l, ch))
        PROVE  UNCHANGED <<connector, cstate, connState, cancelled, fate>>
    BY <2>3 DEF StartTheLoop, StartLoop, Goto, Walk, CheckQuit, PollInterrupted, EndBatch,
        PollSockets, Poll, Ready, Resize, DispatchConnector, WriteDisable, WriteIgnored, AskFor,
        UpdateOpt, Take, Enter, DispatchConnection, HandleWrite, WriteAdd, WriteMod, WriteRemove,
        CtlSucceeds, CtlThrows, EpollAccepts, Leave, RetryConnect, ConnectFails, Connecting,
        ConnectEstablished, EstablishAdd, EstablishSetState, SetStateAdd, HandleRead, ReadData,
        ReadEof, ReadFails, HandleClose, CloseDisable, CloseMod, CloseRemove
  <2> QED BY <1>11, <2>1, <2>2, <2>3
<1> QED BY <1>1, <1>2, <1>3, <1>4, <1>5, <1>6, <1>7, <1>8, <1>9, <1>10, <1>11, Steps

(* The sockets keep their types.                                            *)
LEMMA NetStep ==
  ASSUME ClientTypeOK, BusyOK, Next
  PROVE  NetTypeOK'
<1> USE ClientAssumption, LoopAssumption DEF ClientTypeOK, NetTypeOK, PcTypeOK, ObjectTypeOK,
        BusyOK, Loops, Threads, MainLabels, LoopLabels, BusyLabels, ConnLabels, ConnectLabels,
        WriteLabels, channelVars, loopVars, connectorVars, clientVars, programVars, netVars
<1>1. CASE Connect /\ Connecting(Main)
  BY <1>1 DEF Connect, Connecting, AskFor, Enter, Goto
<1>2. CASE Disconnect
  BY <1>2 DEF Disconnect, Goto
<1>3. CASE DisconnectReset
  BY <1>3 DEF DisconnectReset, ResetChannel, Goto
<1>4. CASE Send
  BY <1>4 DEF Send
<1>5. CASE Shutdown
  BY <1>5 DEF Shutdown
<1>6. ASSUME NEW l \in Loops, Retry(l)
      PROVE  NetTypeOK'
  BY <1>6 DEF Retry, ResetChannel, Enter, Goto
<1>7. ASSUME NEW l \in Loops, RetryConnect(l), Connecting(l)
      PROVE  NetTypeOK'
  BY <1>7 DEF RetryConnect, Connecting, AskFor, Enter, Goto
<1>8. ASSUME NEW l \in Loops, Connected(l)
      PROVE  NetTypeOK'
  BY <1>8 DEF Connected, AskFor, Enter, Goto
<1>9. ASSUME NEW l \in Loops, HandleRead(l)
      PROVE  NetTypeOK'
  BY <1>9 DEF HandleRead, ReadData, ReadEof, ReadFails, Leave, Enter, Goto
<1>10. CASE Net
  BY <1>10 DEF Net, PeerSend, PeerClose, PeerReset
<1>11. CASE
        \/ (Connect /\ ConnectFails(Main)) \/ UNCHANGED vars
        \/ \E t \in Threads : \/ (ConnectorEnableWrite(t) /\ ConnectAdd(t))
             \/ (ConnectorEnableWrite(t) /\ ConnectSetState(t)) \/ Dangling(t)
        \/ \E l \in Loops : \/ StartTheLoop(l) \/ Walk(l) \/ PollSockets(l) \/ HandleWrite(l)
             \/ (RetryConnect(l) /\ ConnectFails(l)) \/ Release(l)
             \/ (ConnectEstablished(l) /\ EstablishAdd(l))
             \/ (ConnectEstablished(l) /\ EstablishSetState(l))
             \/ (HandleClose(l) /\ CloseDisable(l)) \/ (HandleClose(l) /\ CloseMod(l))
             \/ (HandleClose(l) /\ CloseRemove(l)) \/ (HandleClose(l) /\ CloseNotify(l))
             \/ (\E ch \in Channels : DispatchConnector(l, ch) \/ DispatchConnection(l, ch))
  <2>1. ASSUME \/ (Connect /\ ConnectFails(Main)) \/ UNCHANGED vars
        PROVE  UNCHANGED <<peer, data, shut>>
    BY <2>1 DEF Connect, ConnectFails, Leave, Enter, Goto, vars
  <2>2. ASSUME NEW t \in Threads,
               \/ (ConnectorEnableWrite(t) /\ ConnectAdd(t))
               \/ (ConnectorEnableWrite(t) /\ ConnectSetState(t)) \/ Dangling(t)
        PROVE  UNCHANGED <<peer, data, shut>>
    BY <2>2 DEF ConnectorEnableWrite, ConnectAdd, CtlSucceeds, CtlThrows, EpollAccepts, Leave,
        Enter, Goto, ConnectSetState, SetStateAdd, Dangling
  <2>3. ASSUME NEW l \in Loops,
               \/ StartTheLoop(l) \/ Walk(l) \/ PollSockets(l) \/ HandleWrite(l)
               \/ (RetryConnect(l) /\ ConnectFails(l)) \/ Release(l)
               \/ (ConnectEstablished(l) /\ EstablishAdd(l))
               \/ (ConnectEstablished(l) /\ EstablishSetState(l))
               \/ (HandleClose(l) /\ CloseDisable(l)) \/ (HandleClose(l) /\ CloseMod(l))
               \/ (HandleClose(l) /\ CloseRemove(l)) \/ (HandleClose(l) /\ CloseNotify(l))
               \/ (\E ch \in Channels : DispatchConnector(l, ch) \/ DispatchConnection(l, ch))
        PROVE  UNCHANGED <<peer, data, shut>>
    BY <2>3 DEF StartTheLoop, StartLoop, Goto, Walk, CheckQuit, PollInterrupted, EndBatch,
        PollSockets, Poll, Ready, Resize, DispatchConnector, WriteDisable, WriteIgnored, AskFor,
        UpdateOpt, Take, Enter, DispatchConnection, HandleWrite, WriteAdd, WriteMod, WriteRemove,
        CtlSucceeds, CtlThrows, EpollAccepts, Leave, RetryConnect, ConnectFails, Release,
        ConnectEstablished, EstablishAdd, EstablishSetState, SetStateAdd, HandleClose, CloseDisable,
        CloseMod, CloseRemove, CloseNotify
  <2> QED BY <1>11, <2>1, <2>2, <2>3
<1> QED BY <1>1, <1>2, <1>3, <1>4, <1>5, <1>6, <1>7, <1>8, <1>9, <1>10, <1>11, Steps

(* The Channels' fields, and the interest list, keep theirs.                *)
LEMMA ChannelStep ==
  ASSUME ClientTypeOK, BusyOK, Next
  PROVE  ChannelTypeOK'
<1> USE ClientAssumption, LoopAssumption DEF ClientTypeOK, ChannelTypeOK, PcTypeOK, ObjectTypeOK,
        QuietOK, BusyOK, Loops, Threads, MainLabels, LoopLabels, BusyLabels, ConnLabels,
        ConnectLabels, WriteLabels, ChannelStates, Flags, NONE, WRITE, READ, channelVars, loopVars,
        connectorVars, clientVars, programVars, netVars
<1>1. CASE Connect /\ Connecting(Main)
  BY <1>1 DEF Connect, Connecting, AskFor, Enter, Goto
<1>2. CASE DisconnectReset
  BY <1>2 DEF DisconnectReset, ResetChannel, Goto
<1>3. ASSUME NEW t \in Threads, ConnectorEnableWrite(t), ConnectAdd(t)
      PROVE  ChannelTypeOK'
  BY <1>3 DEF ConnectorEnableWrite, ConnectAdd, CtlSucceeds, CtlThrows, EpollAccepts, Leave, Enter,
      Goto
<1>4. ASSUME NEW t \in Threads, ConnectorEnableWrite(t), ConnectSetState(t)
      PROVE  ChannelTypeOK'
  BY <1>4 DEF ConnectorEnableWrite, ConnectSetState, SetStateAdd, Leave, Enter, Goto
<1>5. ASSUME NEW l \in Loops, NEW ch \in Channels, DispatchConnector(l, ch)
      PROVE  ChannelTypeOK'
  BY <1>5 DEF DispatchConnector, WriteDisable, WriteIgnored, AskFor, UpdateOpt, Take, Enter, Goto
<1>6. ASSUME NEW l \in Loops, HandleWrite(l)
      PROVE  ChannelTypeOK'
  BY <1>6 DEF HandleWrite, WriteAdd, WriteMod, WriteRemove, CtlSucceeds, CtlThrows, EpollAccepts,
      Leave, Enter, Goto
<1>7. ASSUME NEW l \in Loops, Retry(l)
      PROVE  ChannelTypeOK'
  BY <1>7 DEF Retry, ResetChannel, Enter, Goto
<1>8. ASSUME NEW l \in Loops, RetryConnect(l), Connecting(l)
      PROVE  ChannelTypeOK'
  BY <1>8 DEF RetryConnect, Connecting, AskFor, Enter, Goto
<1>9. ASSUME NEW l \in Loops, Connected(l)
      PROVE  ChannelTypeOK'
  BY <1>9 DEF Connected, AskFor, Enter, Goto
<1>10. ASSUME NEW l \in Loops, ConnectEstablished(l), EstablishAdd(l)
      PROVE  ChannelTypeOK'
  BY <1>10 DEF ConnectEstablished, EstablishAdd, CtlSucceeds, CtlThrows, EpollAccepts, Leave, Enter,
      Goto
<1>11. ASSUME NEW l \in Loops, ConnectEstablished(l), EstablishSetState(l)
      PROVE  ChannelTypeOK'
  BY <1>11 DEF ConnectEstablished, EstablishSetState, SetStateAdd, Leave, Enter, Goto
<1>12. ASSUME NEW l \in Loops, HandleClose(l), CloseDisable(l)
      PROVE  ChannelTypeOK'
  BY <1>12 DEF HandleClose, CloseDisable, AskFor, Goto
<1>13. ASSUME NEW l \in Loops, HandleClose(l), CloseMod(l)
      PROVE  ChannelTypeOK'
  BY <1>13 DEF HandleClose, CloseMod, CtlSucceeds, CtlThrows, EpollAccepts, Leave, Enter, Goto
<1>14. ASSUME NEW l \in Loops, HandleClose(l), CloseRemove(l)
      PROVE  ChannelTypeOK'
  BY <1>14 DEF HandleClose, CloseRemove, CtlSucceeds, EpollAccepts, Goto
<1>15. CASE
        \/ (Connect /\ ConnectFails(Main)) \/ Disconnect \/ Send \/ Shutdown \/ Net
        \/ UNCHANGED vars
        \/ \E t \in Threads : Dangling(t)
        \/ \E l \in Loops : \/ StartTheLoop(l) \/ Walk(l) \/ PollSockets(l)
             \/ (RetryConnect(l) /\ ConnectFails(l)) \/ Release(l) \/ HandleRead(l)
             \/ (HandleClose(l) /\ CloseNotify(l))
             \/ (\E ch \in Channels : DispatchConnection(l, ch))
  <2>1. ASSUME \/ (Connect /\ ConnectFails(Main)) \/ Disconnect \/ Send \/ Shutdown \/ Net
               \/ UNCHANGED vars
        PROVE  UNCHANGED <<state, channelEvent, registered, mask>>
    BY <2>1 DEF Connect, ConnectFails, Leave, Enter, Goto, Disconnect, Send, Shutdown, Net,
        PeerSend, PeerClose, PeerReset, vars
  <2>2. ASSUME NEW t \in Threads,
               Dangling(t)
        PROVE  UNCHANGED <<state, channelEvent, registered, mask>>
    BY <2>2 DEF Dangling
  <2>3. ASSUME NEW l \in Loops,
               \/ StartTheLoop(l) \/ Walk(l) \/ PollSockets(l)
               \/ (RetryConnect(l) /\ ConnectFails(l)) \/ Release(l) \/ HandleRead(l)
               \/ (HandleClose(l) /\ CloseNotify(l))
               \/ (\E ch \in Channels : DispatchConnection(l, ch))
        PROVE  UNCHANGED <<state, channelEvent, registered, mask>>
    BY <2>3 DEF StartTheLoop, StartLoop, Goto, Walk, CheckQuit, PollInterrupted, EndBatch,
        PollSockets, Poll, Ready, Resize, DispatchConnection, Take, Enter, RetryConnect,
        ConnectFails, Leave, Release, HandleRead, ReadData, ReadEof, ReadFails, HandleClose,
        CloseNotify
  <2> QED BY <1>15, <2>1, <2>2, <2>3
<1> QED BY <1>1, <1>2, <1>3, <1>4, <1>5, <1>6, <1>7, <1>8, <1>9, <1>10, <1>11, <1>12, <1>13, <1>14,
           <1>15, Steps

(* The loop's variables keep theirs.                                        *)
LEMMA LoopStep ==
  ASSUME ClientTypeOK, BusyOK, Next
  PROVE  LoopTypeOK'
<1> USE ClientAssumption, LoopAssumption DEF ClientTypeOK, ChannelTypeOK, LoopTypeOK, QuietOK,
        BusyOK, Loops, Threads, MainLabels, LoopLabels, BusyLabels, ConnLabels, ConnectLabels,
        WriteLabels, Flags, Reported, Conditions, channelVars, loopVars, connectorVars, clientVars,
        programVars, netVars
<1>1. ASSUME NEW l \in Loops, StartTheLoop(l)
      PROVE  LoopTypeOK'
  BY <1>1 DEF StartTheLoop, StartLoop, Goto
<1>2. ASSUME NEW l \in Loops, Walk(l)
      PROVE  LoopTypeOK'
  <2>1. CASE CheckQuit(l)
    BY <1>2, <2>1 DEF Walk, CheckQuit, Goto
  <2>2. CASE PollInterrupted(l)
    BY <1>2, <2>2 DEF Walk, PollInterrupted, Goto
  <2>3. CASE EndBatch(l)
    BY <1>2, <2>3 DEF Walk, EndBatch, Goto
  <2> QED BY <1>2, <2>1, <2>2, <2>3 DEF Walk
<1>3. ASSUME NEW l \in Loops, PollSockets(l)
      PROVE  LoopTypeOK'
  BY <1>3 DEF PollSockets, Poll, Ready, Goto, Resize
<1>4. ASSUME NEW l \in Loops, NEW ch \in Channels, DispatchConnector(l, ch)
      PROVE  LoopTypeOK'
  BY <1>4 DEF DispatchConnector, WriteDisable, WriteIgnored, AskFor, UpdateOpt, Take, Enter, Goto
<1>5. ASSUME NEW l \in Loops, NEW ch \in Channels, DispatchConnection(l, ch)
      PROVE  LoopTypeOK'
  BY <1>5 DEF DispatchConnection, Take, Enter, Goto
<1>6. CASE
        \/ (Connect /\ ConnectFails(Main)) \/ (Connect /\ Connecting(Main)) \/ Disconnect
        \/ DisconnectReset \/ Send \/ Shutdown \/ Net \/ UNCHANGED vars
        \/ \E t \in Threads : \/ (ConnectorEnableWrite(t) /\ ConnectAdd(t))
             \/ (ConnectorEnableWrite(t) /\ ConnectSetState(t)) \/ Dangling(t)
        \/ \E l \in Loops : \/ HandleWrite(l) \/ Retry(l)
             \/ (RetryConnect(l) /\ ConnectFails(l)) \/ (RetryConnect(l) /\ Connecting(l))
             \/ Release(l) \/ Connected(l) \/ (ConnectEstablished(l) /\ EstablishAdd(l))
             \/ (ConnectEstablished(l) /\ EstablishSetState(l)) \/ HandleRead(l)
             \/ (HandleClose(l) /\ CloseDisable(l)) \/ (HandleClose(l) /\ CloseMod(l))
             \/ (HandleClose(l) /\ CloseRemove(l)) \/ (HandleClose(l) /\ CloseNotify(l))
  <2>1. ASSUME \/ (Connect /\ ConnectFails(Main)) \/ (Connect /\ Connecting(Main)) \/ Disconnect
               \/ DisconnectReset \/ Send \/ Shutdown \/ Net \/ UNCHANGED vars
        PROVE  UNCHANGED <<quit, wakeups, active, events, capacity>>
    BY <2>1 DEF Connect, ConnectFails, Leave, Enter, Goto, Connecting, AskFor, Disconnect,
        DisconnectReset, ResetChannel, Send, Shutdown, Net, PeerSend, PeerClose, PeerReset, vars
  <2>2. ASSUME NEW t \in Threads,
               \/ (ConnectorEnableWrite(t) /\ ConnectAdd(t))
               \/ (ConnectorEnableWrite(t) /\ ConnectSetState(t)) \/ Dangling(t)
        PROVE  UNCHANGED <<quit, wakeups, active, events, capacity>>
    BY <2>2 DEF ConnectorEnableWrite, ConnectAdd, CtlSucceeds, CtlThrows, EpollAccepts, Leave,
        Enter, Goto, ConnectSetState, SetStateAdd, Dangling
  <2>3. ASSUME NEW l \in Loops,
               \/ HandleWrite(l) \/ Retry(l) \/ (RetryConnect(l) /\ ConnectFails(l))
               \/ (RetryConnect(l) /\ Connecting(l)) \/ Release(l) \/ Connected(l)
               \/ (ConnectEstablished(l) /\ EstablishAdd(l))
               \/ (ConnectEstablished(l) /\ EstablishSetState(l)) \/ HandleRead(l)
               \/ (HandleClose(l) /\ CloseDisable(l)) \/ (HandleClose(l) /\ CloseMod(l))
               \/ (HandleClose(l) /\ CloseRemove(l)) \/ (HandleClose(l) /\ CloseNotify(l))
        PROVE  UNCHANGED <<quit, wakeups, active, events, capacity>>
    BY <2>3 DEF HandleWrite, WriteAdd, WriteMod, WriteRemove, CtlSucceeds, CtlThrows, EpollAccepts,
        Leave, Enter, Goto, Retry, ResetChannel, RetryConnect, ConnectFails, Connecting, AskFor,
        Release, Connected, ConnectEstablished, EstablishAdd, EstablishSetState, SetStateAdd,
        HandleRead, ReadData, ReadEof, ReadFails, HandleClose, CloseDisable, CloseMod, CloseRemove,
        CloseNotify
  <2> QED BY <1>6, <2>1, <2>2, <2>3
<1> QED BY <1>1, <1>2, <1>3, <1>4, <1>5, <1>6, Steps

(* Only Channels get into a batch.                                          *)
LEMMA QuietStep ==
  ASSUME ClientTypeOK, BusyOK, Next
  PROVE  QuietOK'
<1> USE ClientAssumption, LoopAssumption DEF ClientTypeOK, ChannelTypeOK, QuietOK, BusyOK, Loops,
        Threads, channelVars, loopVars, connectorVars, clientVars, programVars, netVars
<1>1. ASSUME NEW l \in Loops, Walk(l)
      PROVE  QuietOK'
  BY <1>1 DEF Walk, CheckQuit, PollInterrupted, EndBatch, Goto
<1>2. ASSUME NEW l \in Loops, PollSockets(l)
      PROVE  QuietOK'
  BY <1>2 DEF PollSockets, Poll, Ready, Goto, Resize
<1>3. ASSUME NEW l \in Loops, NEW ch \in Channels, DispatchConnector(l, ch)
      PROVE  QuietOK'
  BY <1>3 DEF DispatchConnector, WriteDisable, WriteIgnored, AskFor, UpdateOpt, Take, Enter, Goto
<1>4. ASSUME NEW l \in Loops, NEW ch \in Channels, DispatchConnection(l, ch)
      PROVE  QuietOK'
  BY <1>4 DEF DispatchConnection, Take, Enter, Goto
<1>5. CASE
        \/ (Connect /\ ConnectFails(Main)) \/ (Connect /\ Connecting(Main)) \/ Disconnect
        \/ DisconnectReset \/ Send \/ Shutdown \/ Net \/ UNCHANGED vars
        \/ \E t \in Threads : \/ (ConnectorEnableWrite(t) /\ ConnectAdd(t))
             \/ (ConnectorEnableWrite(t) /\ ConnectSetState(t)) \/ Dangling(t)
        \/ \E l \in Loops : \/ StartTheLoop(l) \/ HandleWrite(l) \/ Retry(l)
             \/ (RetryConnect(l) /\ ConnectFails(l)) \/ (RetryConnect(l) /\ Connecting(l))
             \/ Release(l) \/ Connected(l) \/ (ConnectEstablished(l) /\ EstablishAdd(l))
             \/ (ConnectEstablished(l) /\ EstablishSetState(l)) \/ HandleRead(l)
             \/ (HandleClose(l) /\ CloseDisable(l)) \/ (HandleClose(l) /\ CloseMod(l))
             \/ (HandleClose(l) /\ CloseRemove(l)) \/ (HandleClose(l) /\ CloseNotify(l))
  <2>1. ASSUME \/ (Connect /\ ConnectFails(Main)) \/ (Connect /\ Connecting(Main)) \/ Disconnect
               \/ DisconnectReset \/ Send \/ Shutdown \/ Net \/ UNCHANGED vars
        PROVE  UNCHANGED <<wakeups, active>>
    BY <2>1 DEF Connect, ConnectFails, Leave, Enter, Goto, Connecting, AskFor, Disconnect,
        DisconnectReset, ResetChannel, Send, Shutdown, Net, PeerSend, PeerClose, PeerReset, vars
  <2>2. ASSUME NEW t \in Threads,
               \/ (ConnectorEnableWrite(t) /\ ConnectAdd(t))
               \/ (ConnectorEnableWrite(t) /\ ConnectSetState(t)) \/ Dangling(t)
        PROVE  UNCHANGED <<wakeups, active>>
    BY <2>2 DEF ConnectorEnableWrite, ConnectAdd, CtlSucceeds, CtlThrows, EpollAccepts, Leave,
        Enter, Goto, ConnectSetState, SetStateAdd, Dangling
  <2>3. ASSUME NEW l \in Loops,
               \/ StartTheLoop(l) \/ HandleWrite(l) \/ Retry(l)
               \/ (RetryConnect(l) /\ ConnectFails(l)) \/ (RetryConnect(l) /\ Connecting(l))
               \/ Release(l) \/ Connected(l) \/ (ConnectEstablished(l) /\ EstablishAdd(l))
               \/ (ConnectEstablished(l) /\ EstablishSetState(l)) \/ HandleRead(l)
               \/ (HandleClose(l) /\ CloseDisable(l)) \/ (HandleClose(l) /\ CloseMod(l))
               \/ (HandleClose(l) /\ CloseRemove(l)) \/ (HandleClose(l) /\ CloseNotify(l))
        PROVE  UNCHANGED <<wakeups, active>>
    BY <2>3 DEF StartTheLoop, StartLoop, Goto, HandleWrite, WriteAdd, WriteMod, WriteRemove,
        CtlSucceeds, CtlThrows, EpollAccepts, Leave, Enter, Retry, ResetChannel, RetryConnect,
        ConnectFails, Connecting, AskFor, Release, Connected, ConnectEstablished, EstablishAdd,
        EstablishSetState, SetStateAdd, HandleRead, ReadData, ReadEof, ReadFails, HandleClose,
        CloseDisable, CloseMod, CloseRemove, CloseNotify
  <2> QED BY <1>5, <2>1, <2>2, <2>3
<1> QED BY <1>1, <1>2, <1>3, <1>4, <1>5, Steps

(* No exception and no return leaves a thread with a Channel that it does   *)
(* not work on any more.                                                    *)
LEMMA BusyStep ==
  ASSUME ClientTypeOK, BusyOK, Next
  PROVE  BusyOK'
<1> USE ClientAssumption, LoopAssumption DEF ClientTypeOK, PcTypeOK, ObjectTypeOK, QuietOK, BusyOK,
        Loops, Threads, MainLabels, LoopLabels, BusyLabels, ConnLabels, ConnectLabels, WriteLabels,
        channelVars, loopVars, connectorVars, clientVars, programVars, netVars
<1>1. CASE Connect /\ ConnectFails(Main)
  BY <1>1 DEF Connect, ConnectFails, Leave, Enter, Goto
<1>2. CASE Connect /\ Connecting(Main)
  BY <1>2 DEF Connect, Connecting, AskFor, Enter, Goto
<1>3. CASE Disconnect
  BY <1>3 DEF Disconnect, Goto
<1>4. CASE DisconnectReset
  BY <1>4 DEF DisconnectReset, ResetChannel, Goto
<1>5. ASSUME NEW t \in Threads, ConnectorEnableWrite(t), ConnectAdd(t)
      PROVE  BusyOK'
  BY <1>5 DEF ConnectorEnableWrite, ConnectAdd, CtlSucceeds, CtlThrows, EpollAccepts, Leave, Enter,
      Goto
<1>6. ASSUME NEW t \in Threads, ConnectorEnableWrite(t), ConnectSetState(t)
      PROVE  BusyOK'
  BY <1>6 DEF ConnectorEnableWrite, ConnectSetState, SetStateAdd, Leave, Enter, Goto
<1>7. ASSUME NEW l \in Loops, StartTheLoop(l)
      PROVE  BusyOK'
  BY <1>7 DEF StartTheLoop, StartLoop, Goto
<1>8. ASSUME NEW l \in Loops, Walk(l)
      PROVE  BusyOK'
  BY <1>8 DEF Walk, CheckQuit, PollInterrupted, EndBatch, Goto
<1>9. ASSUME NEW l \in Loops, PollSockets(l)
      PROVE  BusyOK'
  BY <1>9 DEF PollSockets, Poll, Ready, Goto, Resize
<1>10. ASSUME NEW l \in Loops, NEW ch \in Channels, DispatchConnector(l, ch)
      PROVE  BusyOK'
  BY <1>10 DEF DispatchConnector, WriteDisable, WriteIgnored, AskFor, UpdateOpt, Take, Enter, Goto
<1>11. ASSUME NEW l \in Loops, NEW ch \in Channels, DispatchConnection(l, ch)
      PROVE  BusyOK'
  BY <1>11 DEF DispatchConnection, Take, Enter, Goto
<1>12. ASSUME NEW l \in Loops, HandleWrite(l)
      PROVE  BusyOK'
  BY <1>12 DEF HandleWrite, WriteAdd, WriteMod, WriteRemove, CtlSucceeds, CtlThrows, EpollAccepts,
      Leave, Enter, Goto
<1>13. ASSUME NEW l \in Loops, Retry(l)
      PROVE  BusyOK'
  BY <1>13 DEF Retry, ResetChannel, Enter, Goto
<1>14. ASSUME NEW l \in Loops, RetryConnect(l), ConnectFails(l)
      PROVE  BusyOK'
  BY <1>14 DEF RetryConnect, ConnectFails, Leave, Enter, Goto
<1>15. ASSUME NEW l \in Loops, RetryConnect(l), Connecting(l)
      PROVE  BusyOK'
  BY <1>15 DEF RetryConnect, Connecting, AskFor, Enter, Goto
<1>16. ASSUME NEW l \in Loops, Release(l)
      PROVE  BusyOK'
  BY <1>16 DEF Release, Goto
<1>17. ASSUME NEW l \in Loops, Connected(l)
      PROVE  BusyOK'
  BY <1>17 DEF Connected, AskFor, Enter, Goto
<1>18. ASSUME NEW l \in Loops, ConnectEstablished(l), EstablishAdd(l)
      PROVE  BusyOK'
  BY <1>18 DEF ConnectEstablished, EstablishAdd, CtlSucceeds, CtlThrows, EpollAccepts, Leave, Enter,
      Goto
<1>19. ASSUME NEW l \in Loops, ConnectEstablished(l), EstablishSetState(l)
      PROVE  BusyOK'
  BY <1>19 DEF ConnectEstablished, EstablishSetState, SetStateAdd, Leave, Enter, Goto
<1>20. ASSUME NEW l \in Loops, HandleRead(l)
      PROVE  BusyOK'
  BY <1>20 DEF HandleRead, ReadData, ReadEof, ReadFails, Leave, Enter, Goto
<1>21. ASSUME NEW l \in Loops, HandleClose(l), CloseDisable(l)
      PROVE  BusyOK'
  BY <1>21 DEF HandleClose, CloseDisable, AskFor, Goto
<1>22. ASSUME NEW l \in Loops, HandleClose(l), CloseMod(l)
      PROVE  BusyOK'
  BY <1>22 DEF HandleClose, CloseMod, CtlSucceeds, CtlThrows, EpollAccepts, Leave, Enter, Goto
<1>23. ASSUME NEW l \in Loops, HandleClose(l), CloseRemove(l)
      PROVE  BusyOK'
  BY <1>23 DEF HandleClose, CloseRemove, CtlSucceeds, EpollAccepts, Goto
<1>24. ASSUME NEW l \in Loops, HandleClose(l), CloseNotify(l)
      PROVE  BusyOK'
  BY <1>24 DEF HandleClose, CloseNotify, Goto
<1>25. CASE
        \/ Send \/ Shutdown \/ Net \/ UNCHANGED vars
        \/ \E t \in Threads : Dangling(t)
  <2>1. ASSUME \/ Send \/ Shutdown \/ Net \/ UNCHANGED vars
        PROVE  UNCHANGED <<pc, cur>>
    BY <2>1 DEF Send, Shutdown, Net, PeerSend, PeerClose, PeerReset, vars
  <2>2. ASSUME NEW t \in Threads,
               Dangling(t)
        PROVE  UNCHANGED <<pc, cur>>
    BY <2>2 DEF Dangling
  <2> QED BY <1>25, <2>1, <2>2
<1> QED BY <1>1, <1>2, <1>3, <1>4, <1>5, <1>6, <1>7, <1>8, <1>9, <1>10, <1>11, <1>12, <1>13, <1>14,
           <1>15, <1>16, <1>17, <1>18, <1>19, <1>20, <1>21, <1>22, <1>23, <1>24, <1>25, Steps

(* No thread works on a Channel that has not been made.                     *)
LEMMA MadeStep ==
  ASSUME ClientTypeOK, BusyOK, MadeOK, OwnedOK, Next
  PROVE  MadeOK'
<1> USE ClientAssumption, LoopAssumption DEF ClientTypeOK, PcTypeOK, ObjectTypeOK, QuietOK, BusyOK,
        MadeOK, OwnedOK, Loops, Threads, MainLabels, LoopLabels, BusyLabels, ConnLabels,
        ConnectLabels, WriteLabels, channelVars, loopVars, connectorVars, clientVars, programVars,
        netVars
<1>1. CASE Connect /\ ConnectFails(Main)
  BY <1>1 DEF Connect, ConnectFails, Leave, Enter, Goto
<1>2. CASE Connect /\ Connecting(Main)
  BY <1>2 DEF Connect, Connecting, AskFor, Enter, Goto
<1>3. CASE DisconnectReset
  BY <1>3 DEF DisconnectReset, ResetChannel, Goto
<1>4. ASSUME NEW t \in Threads, ConnectorEnableWrite(t), ConnectAdd(t)
      PROVE  MadeOK'
  BY <1>4 DEF ConnectorEnableWrite, ConnectAdd, CtlSucceeds, CtlThrows, EpollAccepts, Leave, Enter,
      Goto
<1>5. ASSUME NEW t \in Threads, ConnectorEnableWrite(t), ConnectSetState(t)
      PROVE  MadeOK'
  BY <1>5 DEF ConnectorEnableWrite, ConnectSetState, SetStateAdd, Leave, Enter, Goto
<1>6. ASSUME NEW l \in Loops, NEW ch \in Channels, DispatchConnector(l, ch)
      PROVE  MadeOK'
  BY <1>6 DEF DispatchConnector, WriteDisable, WriteIgnored, AskFor, UpdateOpt, Take, Enter, Goto
<1>7. ASSUME NEW l \in Loops, NEW ch \in Channels, DispatchConnection(l, ch)
      PROVE  MadeOK'
  BY <1>7 DEF DispatchConnection, Take, Enter, Goto
<1>8. ASSUME NEW l \in Loops, HandleWrite(l)
      PROVE  MadeOK'
  BY <1>8 DEF HandleWrite, WriteAdd, WriteMod, WriteRemove, CtlSucceeds, CtlThrows, EpollAccepts,
      Leave, Enter, Goto
<1>9. ASSUME NEW l \in Loops, Retry(l)
      PROVE  MadeOK'
  BY <1>9 DEF Retry, ResetChannel, Enter, Goto
<1>10. ASSUME NEW l \in Loops, RetryConnect(l), ConnectFails(l)
      PROVE  MadeOK'
  BY <1>10 DEF RetryConnect, ConnectFails, Leave, Enter, Goto
<1>11. ASSUME NEW l \in Loops, RetryConnect(l), Connecting(l)
      PROVE  MadeOK'
  BY <1>11 DEF RetryConnect, Connecting, AskFor, Enter, Goto
<1>12. ASSUME NEW l \in Loops, Release(l)
      PROVE  MadeOK'
  BY <1>12 DEF Release, Goto
<1>13. ASSUME NEW l \in Loops, Connected(l)
      PROVE  MadeOK'
  BY <1>13 DEF Connected, AskFor, Enter, Goto
<1>14. ASSUME NEW l \in Loops, ConnectEstablished(l), EstablishAdd(l)
      PROVE  MadeOK'
  BY <1>14 DEF ConnectEstablished, EstablishAdd, CtlSucceeds, CtlThrows, EpollAccepts, Leave, Enter,
      Goto
<1>15. ASSUME NEW l \in Loops, ConnectEstablished(l), EstablishSetState(l)
      PROVE  MadeOK'
  BY <1>15 DEF ConnectEstablished, EstablishSetState, SetStateAdd, Leave, Enter, Goto
<1>16. ASSUME NEW l \in Loops, HandleRead(l)
      PROVE  MadeOK'
  BY <1>16 DEF HandleRead, ReadData, ReadEof, ReadFails, Leave, Enter, Goto
<1>17. ASSUME NEW l \in Loops, HandleClose(l), CloseMod(l)
      PROVE  MadeOK'
  BY <1>17 DEF HandleClose, CloseMod, CtlSucceeds, CtlThrows, EpollAccepts, Leave, Enter, Goto
<1>18. CASE
        \/ Disconnect \/ Send \/ Shutdown \/ Net \/ UNCHANGED vars
        \/ \E t \in Threads : Dangling(t)
        \/ \E l \in Loops : \/ StartTheLoop(l) \/ Walk(l) \/ PollSockets(l)
             \/ (HandleClose(l) /\ CloseDisable(l)) \/ (HandleClose(l) /\ CloseRemove(l))
             \/ (HandleClose(l) /\ CloseNotify(l))
  <2>1. ASSUME \/ Disconnect \/ Send \/ Shutdown \/ Net \/ UNCHANGED vars
        PROVE  UNCHANGED <<object, cur>>
    BY <2>1 DEF Disconnect, Goto, Send, Shutdown, Net, PeerSend, PeerClose, PeerReset, vars
  <2>2. ASSUME NEW t \in Threads,
               Dangling(t)
        PROVE  UNCHANGED <<object, cur>>
    BY <2>2 DEF Dangling
  <2>3. ASSUME NEW l \in Loops,
               \/ StartTheLoop(l) \/ Walk(l) \/ PollSockets(l)
               \/ (HandleClose(l) /\ CloseDisable(l)) \/ (HandleClose(l) /\ CloseRemove(l))
               \/ (HandleClose(l) /\ CloseNotify(l))
        PROVE  UNCHANGED <<object, cur>>
    BY <2>3 DEF StartTheLoop, StartLoop, Goto, Walk, CheckQuit, PollInterrupted, EndBatch,
        PollSockets, Poll, Ready, Resize, HandleClose, CloseDisable, AskFor, CloseRemove,
        CtlSucceeds, EpollAccepts, CloseNotify
  <2> QED BY <1>18, <2>1, <2>2, <2>3
<1> QED BY <1>1, <1>2, <1>3, <1>4, <1>5, <1>6, <1>7, <1>8, <1>9, <1>10, <1>11, <1>12, <1>13, <1>14,
           <1>15, <1>16, <1>17, <1>18, Steps

(* The methods of the TcpConnection run on its own Channel.                 *)
LEMMA MethodStep ==
  ASSUME ClientTypeOK, BusyOK, MadeOK, MethodOK, Next
  PROVE  MethodOK'
<1> USE ClientAssumption, LoopAssumption DEF ClientTypeOK, PcTypeOK, ObjectTypeOK, QuietOK, BusyOK,
        MadeOK, MethodOK, Loops, Threads, MainLabels, LoopLabels, BusyLabels, ConnLabels,
        ConnectLabels, WriteLabels, channelVars, loopVars, connectorVars, clientVars, programVars,
        netVars
<1>1. CASE Connect /\ ConnectFails(Main)
  BY <1>1 DEF Connect, ConnectFails, Leave, Enter, Goto
<1>2. CASE Connect /\ Connecting(Main)
  BY <1>2 DEF Connect, Connecting, AskFor, Enter, Goto
<1>3. CASE Disconnect
  BY <1>3 DEF Disconnect, Goto
<1>4. CASE DisconnectReset
  BY <1>4 DEF DisconnectReset, ResetChannel, Goto
<1>5. ASSUME NEW t \in Threads, ConnectorEnableWrite(t), ConnectAdd(t)
      PROVE  MethodOK'
  BY <1>5 DEF ConnectorEnableWrite, ConnectAdd, CtlSucceeds, CtlThrows, EpollAccepts, Leave, Enter,
      Goto
<1>6. ASSUME NEW t \in Threads, ConnectorEnableWrite(t), ConnectSetState(t)
      PROVE  MethodOK'
  BY <1>6 DEF ConnectorEnableWrite, ConnectSetState, SetStateAdd, Leave, Enter, Goto
<1>7. ASSUME NEW l \in Loops, StartTheLoop(l)
      PROVE  MethodOK'
  BY <1>7 DEF StartTheLoop, StartLoop, Goto
<1>8. ASSUME NEW l \in Loops, Walk(l)
      PROVE  MethodOK'
  BY <1>8 DEF Walk, CheckQuit, PollInterrupted, EndBatch, Goto
<1>9. ASSUME NEW l \in Loops, PollSockets(l)
      PROVE  MethodOK'
  BY <1>9 DEF PollSockets, Poll, Ready, Goto, Resize
<1>10. ASSUME NEW l \in Loops, NEW ch \in Channels, DispatchConnector(l, ch)
      PROVE  MethodOK'
  BY <1>10 DEF DispatchConnector, WriteDisable, WriteIgnored, AskFor, UpdateOpt, Take, Enter, Goto
<1>11. ASSUME NEW l \in Loops, NEW ch \in Channels, DispatchConnection(l, ch)
      PROVE  MethodOK'
  BY <1>11 DEF DispatchConnection, Take, Enter, Goto
<1>12. ASSUME NEW l \in Loops, HandleWrite(l)
      PROVE  MethodOK'
  BY <1>12 DEF HandleWrite, WriteAdd, WriteMod, WriteRemove, CtlSucceeds, CtlThrows, EpollAccepts,
      Leave, Enter, Goto
<1>13. ASSUME NEW l \in Loops, Retry(l)
      PROVE  MethodOK'
  BY <1>13 DEF Retry, ResetChannel, Enter, Goto
<1>14. ASSUME NEW l \in Loops, RetryConnect(l), ConnectFails(l)
      PROVE  MethodOK'
  BY <1>14 DEF RetryConnect, ConnectFails, Leave, Enter, Goto
<1>15. ASSUME NEW l \in Loops, RetryConnect(l), Connecting(l)
      PROVE  MethodOK'
  BY <1>15 DEF RetryConnect, Connecting, AskFor, Enter, Goto
<1>16. ASSUME NEW l \in Loops, Release(l)
      PROVE  MethodOK'
  BY <1>16 DEF Release, Goto
<1>17. ASSUME NEW l \in Loops, Connected(l)
      PROVE  MethodOK'
  BY <1>17 DEF Connected, AskFor, Enter, Goto
<1>18. ASSUME NEW l \in Loops, ConnectEstablished(l), EstablishAdd(l)
      PROVE  MethodOK'
  BY <1>18 DEF ConnectEstablished, EstablishAdd, CtlSucceeds, CtlThrows, EpollAccepts, Leave, Enter,
      Goto
<1>19. ASSUME NEW l \in Loops, ConnectEstablished(l), EstablishSetState(l)
      PROVE  MethodOK'
  BY <1>19 DEF ConnectEstablished, EstablishSetState, SetStateAdd, Leave, Enter, Goto
<1>20. ASSUME NEW l \in Loops, HandleRead(l)
      PROVE  MethodOK'
  BY <1>20 DEF HandleRead, ReadData, ReadEof, ReadFails, Leave, Enter, Goto
<1>21. ASSUME NEW l \in Loops, HandleClose(l), CloseDisable(l)
      PROVE  MethodOK'
  BY <1>21 DEF HandleClose, CloseDisable, AskFor, Goto
<1>22. ASSUME NEW l \in Loops, HandleClose(l), CloseMod(l)
      PROVE  MethodOK'
  BY <1>22 DEF HandleClose, CloseMod, CtlSucceeds, CtlThrows, EpollAccepts, Leave, Enter, Goto
<1>23. ASSUME NEW l \in Loops, HandleClose(l), CloseRemove(l)
      PROVE  MethodOK'
  BY <1>23 DEF HandleClose, CloseRemove, CtlSucceeds, EpollAccepts, Goto
<1>24. ASSUME NEW l \in Loops, HandleClose(l), CloseNotify(l)
      PROVE  MethodOK'
  BY <1>24 DEF HandleClose, CloseNotify, Goto
<1>25. CASE
        \/ Send \/ Shutdown \/ Net \/ UNCHANGED vars
        \/ \E t \in Threads : Dangling(t)
  <2>1. ASSUME \/ Send \/ Shutdown \/ Net \/ UNCHANGED vars
        PROVE  UNCHANGED <<pc, cur, connection>>
    BY <2>1 DEF Send, Shutdown, Net, PeerSend, PeerClose, PeerReset, vars
  <2>2. ASSUME NEW t \in Threads,
               Dangling(t)
        PROVE  UNCHANGED <<pc, cur, connection>>
    BY <2>2 DEF Dangling
  <2> QED BY <1>25, <2>1, <2>2
<1> QED BY <1>1, <1>2, <1>3, <1>4, <1>5, <1>6, <1>7, <1>8, <1>9, <1>10, <1>11, <1>12, <1>13, <1>14,
           <1>15, <1>16, <1>17, <1>18, <1>19, <1>20, <1>21, <1>22, <1>23, <1>24, <1>25, Steps

(* What the client owns stays alive.                                        *)
LEMMA OwnedStep ==
  ASSUME ClientTypeOK, BusyOK, MadeOK, MethodOK, OwnedOK, WriteOK, Next
  PROVE  OwnedOK'
<1> USE ClientAssumption, LoopAssumption DEF ClientTypeOK, ChannelTypeOK, PcTypeOK, ObjectTypeOK,
        QuietOK, BusyOK, MadeOK, MethodOK, OwnedOK, WriteOK, Loops, Threads, MainLabels, LoopLabels,
        BusyLabels, ConnLabels, ConnectLabels, WriteLabels, channelVars, loopVars, connectorVars,
        clientVars, programVars, netVars
<1>1. CASE Connect /\ Connecting(Main)
  BY <1>1 DEF Connect, Connecting, AskFor, Enter, Goto
<1>2. CASE DisconnectReset
  BY <1>2 DEF DisconnectReset, ResetChannel, Goto
<1>3. ASSUME NEW t \in Threads, ConnectorEnableWrite(t), ConnectSetState(t)
      PROVE  OwnedOK'
  BY <1>3 DEF ConnectorEnableWrite, ConnectSetState, SetStateAdd, Leave, Enter, Goto
<1>4. ASSUME NEW l \in Loops, Retry(l)
      PROVE  OwnedOK'
  BY <1>4 DEF Retry, ResetChannel, Enter, Goto
<1>5. ASSUME NEW l \in Loops, RetryConnect(l), Connecting(l)
      PROVE  OwnedOK'
  BY <1>5 DEF RetryConnect, Connecting, AskFor, Enter, Goto
<1>6. ASSUME NEW l \in Loops, Release(l)
      PROVE  OwnedOK'
  BY <1>6 DEF Release, Goto
<1>7. ASSUME NEW l \in Loops, Connected(l)
      PROVE  OwnedOK'
  BY <1>7 DEF Connected, AskFor, Enter, Goto
<1>8. ASSUME NEW l \in Loops, ConnectEstablished(l), EstablishSetState(l)
      PROVE  OwnedOK'
  BY <1>8 DEF ConnectEstablished, EstablishSetState, SetStateAdd, Leave, Enter, Goto
<1>9. CASE
        \/ (Connect /\ ConnectFails(Main)) \/ Disconnect \/ Send \/ Shutdown \/ Net
        \/ UNCHANGED vars
        \/ \E t \in Threads : \/ (ConnectorEnableWrite(t) /\ ConnectAdd(t)) \/ Dangling(t)
        \/ \E l \in Loops : \/ StartTheLoop(l) \/ Walk(l) \/ PollSockets(l) \/ HandleWrite(l)
             \/ (RetryConnect(l) /\ ConnectFails(l))
             \/ (ConnectEstablished(l) /\ EstablishAdd(l)) \/ HandleRead(l)
             \/ (HandleClose(l) /\ CloseDisable(l)) \/ (HandleClose(l) /\ CloseMod(l))
             \/ (HandleClose(l) /\ CloseRemove(l)) \/ (HandleClose(l) /\ CloseNotify(l))
             \/ (\E ch \in Channels : DispatchConnector(l, ch) \/ DispatchConnection(l, ch))
  <2>1. ASSUME \/ (Connect /\ ConnectFails(Main)) \/ Disconnect \/ Send \/ Shutdown \/ Net
               \/ UNCHANGED vars
        PROVE  UNCHANGED <<object, state, channel, connection>>
    BY <2>1 DEF Connect, ConnectFails, Leave, Enter, Goto, Disconnect, Send, Shutdown, Net,
        PeerSend, PeerClose, PeerReset, vars
  <2>2. ASSUME NEW t \in Threads,
               \/ (ConnectorEnableWrite(t) /\ ConnectAdd(t)) \/ Dangling(t)
        PROVE  UNCHANGED <<object, state, channel, connection>>
    BY <2>2 DEF ConnectorEnableWrite, ConnectAdd, CtlSucceeds, CtlThrows, EpollAccepts, Leave,
        Enter, Goto, Dangling
  <2>3. ASSUME NEW l \in Loops,
               \/ StartTheLoop(l) \/ Walk(l) \/ PollSockets(l) \/ HandleWrite(l)
               \/ (RetryConnect(l) /\ ConnectFails(l))
               \/ (ConnectEstablished(l) /\ EstablishAdd(l)) \/ HandleRead(l)
               \/ (HandleClose(l) /\ CloseDisable(l)) \/ (HandleClose(l) /\ CloseMod(l))
               \/ (HandleClose(l) /\ CloseRemove(l)) \/ (HandleClose(l) /\ CloseNotify(l))
               \/ (\E ch \in Channels : DispatchConnector(l, ch) \/ DispatchConnection(l, ch))
        PROVE  UNCHANGED <<object, state, channel, connection>>
    BY <2>3 DEF StartTheLoop, StartLoop, Goto, Walk, CheckQuit, PollInterrupted, EndBatch,
        PollSockets, Poll, Ready, Resize, DispatchConnector, WriteDisable, WriteIgnored, AskFor,
        UpdateOpt, Take, Enter, DispatchConnection, HandleWrite, WriteAdd, WriteMod, WriteRemove,
        CtlSucceeds, CtlThrows, EpollAccepts, Leave, RetryConnect, ConnectFails, ConnectEstablished,
        EstablishAdd, HandleRead, ReadData, ReadEof, ReadFails, HandleClose, CloseDisable, CloseMod,
        CloseRemove, CloseNotify
  <2> QED BY <1>9, <2>1, <2>2, <2>3
<1> QED BY <1>1, <1>2, <1>3, <1>4, <1>5, <1>6, <1>7, <1>8, <1>9, Steps

(* A Channel is connected by one thread, which alone writes its state_.     *)
LEMMA ConnectStep ==
  ASSUME ClientTypeOK, BusyOK, MadeOK, MethodOK, OwnedOK, ConnectOK, Next
  PROVE  ConnectOK'
<1> USE ClientAssumption, LoopAssumption DEF ClientTypeOK, ChannelTypeOK, PcTypeOK, ObjectTypeOK,
        QuietOK, BusyOK, MadeOK, MethodOK, OwnedOK, ConnectOK, Loops, Threads, MainLabels,
        LoopLabels, BusyLabels, ConnLabels, ConnectLabels, WriteLabels, channelVars, loopVars,
        connectorVars, clientVars, programVars, netVars
<1>1. CASE Connect /\ ConnectFails(Main)
  BY <1>1 DEF Connect, ConnectFails, Leave, Enter, Goto
<1>2. CASE Connect /\ Connecting(Main)
  BY <1>2 DEF Connect, Connecting, AskFor, Enter, Goto
<1>3. CASE Disconnect
  BY <1>3 DEF Disconnect, Goto
<1>4. CASE DisconnectReset
  BY <1>4 DEF DisconnectReset, ResetChannel, Goto
<1>5. ASSUME NEW t \in Threads, ConnectorEnableWrite(t), ConnectAdd(t)
      PROVE  ConnectOK'
  <2>1. CASE CtlSucceeds("ADD", cur[t]) /\ Goto(t, "ct_setstate") /\ UNCHANGED cur
    BY <1>5, <2>1 DEF ConnectorEnableWrite, ConnectAdd, CtlSucceeds, Goto
  <2>2. CASE CtlThrows("ADD", cur[t]) /\ Leave(t)
    BY <1>5, <2>2 DEF ConnectorEnableWrite, ConnectAdd, CtlThrows, Leave, Enter, Goto
  <2> QED BY <1>5, <2>1, <2>2 DEF ConnectAdd
<1>6. ASSUME NEW t \in Threads, ConnectorEnableWrite(t), ConnectSetState(t)
      PROVE  ConnectOK'
  BY <1>6 DEF ConnectorEnableWrite, ConnectSetState, SetStateAdd, Leave, Enter, Goto
<1>7. ASSUME NEW l \in Loops, StartTheLoop(l)
      PROVE  ConnectOK'
  BY <1>7 DEF StartTheLoop, StartLoop, Goto
<1>8. ASSUME NEW l \in Loops, Walk(l)
      PROVE  ConnectOK'
  <2>1. CASE CheckQuit(l)
    BY <1>8, <2>1 DEF Walk, CheckQuit, Goto
  <2>2. CASE PollInterrupted(l)
    BY <1>8, <2>2 DEF Walk, PollInterrupted, Goto
  <2>3. CASE EndBatch(l)
    BY <1>8, <2>3 DEF Walk, EndBatch, Goto
  <2> QED BY <1>8, <2>1, <2>2, <2>3 DEF Walk
<1>9. ASSUME NEW l \in Loops, PollSockets(l)
      PROVE  ConnectOK'
  BY <1>9 DEF PollSockets, Poll, Ready, Goto, Resize
<1>10. ASSUME NEW l \in Loops, NEW ch \in Channels, DispatchConnector(l, ch)
      PROVE  ConnectOK'
  BY <1>10 DEF DispatchConnector, WriteDisable, WriteIgnored, AskFor, UpdateOpt, Take, Enter, Goto
<1>11. ASSUME NEW l \in Loops, NEW ch \in Channels, DispatchConnection(l, ch)
      PROVE  ConnectOK'
  BY <1>11 DEF DispatchConnection, Take, Enter, Goto
<1>12. ASSUME NEW l \in Loops, HandleWrite(l)
      PROVE  ConnectOK'
  <2>1. CASE WriteAdd(l)
    BY <1>12, <2>1 DEF HandleWrite, WriteAdd, CtlThrows, Leave, Enter, Goto
  <2>2. CASE WriteMod(l)
    BY <1>12, <2>2 DEF HandleWrite, WriteMod, CtlSucceeds, EpollAccepts, Goto
  <2>3. CASE WriteRemove(l)
    BY <1>12, <2>3 DEF HandleWrite, WriteRemove, CtlSucceeds, Goto
  <2> QED BY <1>12, <2>1, <2>2, <2>3 DEF HandleWrite
<1>13. ASSUME NEW l \in Loops, Retry(l)
      PROVE  ConnectOK'
  BY <1>13 DEF Retry, ResetChannel, Enter, Goto
<1>14. ASSUME NEW l \in Loops, RetryConnect(l), ConnectFails(l)
      PROVE  ConnectOK'
  BY <1>14 DEF RetryConnect, ConnectFails, Leave, Enter, Goto
<1>15. ASSUME NEW l \in Loops, RetryConnect(l), Connecting(l)
      PROVE  ConnectOK'
  BY <1>15 DEF RetryConnect, Connecting, AskFor, Enter, Goto
<1>16. ASSUME NEW l \in Loops, Release(l)
      PROVE  ConnectOK'
  BY <1>16 DEF Release, Goto
<1>17. ASSUME NEW l \in Loops, Connected(l)
      PROVE  ConnectOK'
  BY <1>17 DEF Connected, AskFor, Enter, Goto
<1>18. ASSUME NEW l \in Loops, ConnectEstablished(l), EstablishAdd(l)
      PROVE  ConnectOK'
  <2>1. CASE CtlSucceeds("ADD", cur[l]) /\ Goto(l, "est_setstate") /\ UNCHANGED cur
    BY <1>18, <2>1 DEF ConnectEstablished, EstablishAdd, CtlSucceeds, Goto
  <2>2. CASE CtlThrows("ADD", cur[l]) /\ Leave(l)
    BY <1>18, <2>2 DEF ConnectEstablished, EstablishAdd, CtlThrows, Leave, Enter, Goto
  <2> QED BY <1>18, <2>1, <2>2 DEF EstablishAdd
<1>19. ASSUME NEW l \in Loops, ConnectEstablished(l), EstablishSetState(l)
      PROVE  ConnectOK'
  BY <1>19 DEF ConnectEstablished, EstablishSetState, SetStateAdd, Leave, Enter, Goto
<1>20. ASSUME NEW l \in Loops, HandleRead(l)
      PROVE  ConnectOK'
  <2>1. CASE ReadData(l)
    BY <1>20, <2>1 DEF HandleRead, ReadData, Leave, Enter, Goto
  <2>2. CASE ReadEof(l)
    BY <1>20, <2>2 DEF HandleRead, ReadEof, Goto
  <2>3. CASE ReadFails(l)
    BY <1>20, <2>3 DEF HandleRead, ReadFails, Leave, Enter, Goto
  <2> QED BY <1>20, <2>1, <2>2, <2>3 DEF HandleRead
<1>21. ASSUME NEW l \in Loops, HandleClose(l), CloseDisable(l)
      PROVE  ConnectOK'
  BY <1>21 DEF HandleClose, CloseDisable, AskFor, Goto
<1>22. ASSUME NEW l \in Loops, HandleClose(l), CloseMod(l)
      PROVE  ConnectOK'
  BY <1>22 DEF HandleClose, CloseMod, CtlSucceeds, CtlThrows, EpollAccepts, Leave, Enter, Goto
<1>23. ASSUME NEW l \in Loops, HandleClose(l), CloseRemove(l)
      PROVE  ConnectOK'
  BY <1>23 DEF HandleClose, CloseRemove, CtlSucceeds, EpollAccepts, Goto
<1>24. ASSUME NEW l \in Loops, HandleClose(l), CloseNotify(l)
      PROVE  ConnectOK'
  BY <1>24 DEF HandleClose, CloseNotify, Goto
<1>25. CASE
        \/ Send \/ Shutdown \/ Net \/ UNCHANGED vars
        \/ \E t \in Threads : Dangling(t)
  <2>1. ASSUME \/ Send \/ Shutdown \/ Net \/ UNCHANGED vars
        PROVE  UNCHANGED <<pc, cur, connection, state>>
    BY <2>1 DEF Send, Shutdown, Net, PeerSend, PeerClose, PeerReset, vars
  <2>2. ASSUME NEW t \in Threads,
               Dangling(t)
        PROVE  UNCHANGED <<pc, cur, connection, state>>
    BY <2>2 DEF Dangling
  <2> QED BY <1>25, <2>1, <2>2
<1> QED BY <1>1, <1>2, <1>3, <1>4, <1>5, <1>6, <1>7, <1>8, <1>9, <1>10, <1>11, <1>12, <1>13, <1>14,
           <1>15, <1>16, <1>17, <1>18, <1>19, <1>20, <1>21, <1>22, <1>23, <1>24, <1>25, Steps

(* handleWrite gets past disableAll() only with a Channel that is connected,*)
(* and to the hand-over only with one that is removed.                      *)
LEMMA WriteStep ==
  ASSUME ClientTypeOK, BusyOK, MadeOK, MethodOK, OwnedOK, ConnectOK, WriteOK, Next
  PROVE  WriteOK'
<1> USE ClientAssumption, LoopAssumption DEF ClientTypeOK, ChannelTypeOK, PcTypeOK, ObjectTypeOK,
        QuietOK, BusyOK, MadeOK, MethodOK, OwnedOK, ConnectOK, WriteOK, Loops, Threads, MainLabels,
        LoopLabels, BusyLabels, ConnLabels, ConnectLabels, WriteLabels, channelVars, loopVars,
        connectorVars, clientVars, programVars, netVars
<1>1. CASE Connect /\ ConnectFails(Main)
  BY <1>1 DEF Connect, ConnectFails, Leave, Enter, Goto
<1>2. CASE Connect /\ Connecting(Main)
  BY <1>2 DEF Connect, Connecting, AskFor, Enter, Goto
<1>3. CASE Disconnect
  BY <1>3 DEF Disconnect, Goto
<1>4. CASE DisconnectReset
  BY <1>4 DEF DisconnectReset, ResetChannel, Goto
<1>5. ASSUME NEW t \in Threads, ConnectorEnableWrite(t), ConnectAdd(t)
      PROVE  WriteOK'
  BY <1>5 DEF ConnectorEnableWrite, ConnectAdd, CtlSucceeds, CtlThrows, EpollAccepts, Leave, Enter,
      Goto
<1>6. ASSUME NEW t \in Threads, ConnectorEnableWrite(t), ConnectSetState(t)
      PROVE  WriteOK'
  BY <1>6 DEF ConnectorEnableWrite, ConnectSetState, SetStateAdd, Leave, Enter, Goto
<1>7. ASSUME NEW l \in Loops, StartTheLoop(l)
      PROVE  WriteOK'
  BY <1>7 DEF StartTheLoop, StartLoop, Goto
<1>8. ASSUME NEW l \in Loops, Walk(l)
      PROVE  WriteOK'
  BY <1>8 DEF Walk, CheckQuit, PollInterrupted, EndBatch, Goto
<1>9. ASSUME NEW l \in Loops, PollSockets(l)
      PROVE  WriteOK'
  BY <1>9 DEF PollSockets, Poll, Ready, Goto, Resize
<1>10. ASSUME NEW l \in Loops, NEW ch \in Channels, DispatchConnector(l, ch)
      PROVE  WriteOK'
  BY <1>10 DEF DispatchConnector, WriteDisable, WriteIgnored, AskFor, UpdateOpt, Take, Enter, Goto
<1>11. ASSUME NEW l \in Loops, NEW ch \in Channels, DispatchConnection(l, ch)
      PROVE  WriteOK'
  BY <1>11 DEF DispatchConnection, Take, Enter, Goto
<1>12. ASSUME NEW l \in Loops, HandleWrite(l)
      PROVE  WriteOK'
  BY <1>12 DEF HandleWrite, WriteAdd, WriteMod, WriteRemove, CtlSucceeds, CtlThrows, EpollAccepts,
      Leave, Enter, Goto
<1>13. ASSUME NEW l \in Loops, Retry(l)
      PROVE  WriteOK'
  BY <1>13 DEF Retry, ResetChannel, Enter, Goto
<1>14. ASSUME NEW l \in Loops, RetryConnect(l), ConnectFails(l)
      PROVE  WriteOK'
  BY <1>14 DEF RetryConnect, ConnectFails, Leave, Enter, Goto
<1>15. ASSUME NEW l \in Loops, RetryConnect(l), Connecting(l)
      PROVE  WriteOK'
  BY <1>15 DEF RetryConnect, Connecting, AskFor, Enter, Goto
<1>16. ASSUME NEW l \in Loops, Release(l)
      PROVE  WriteOK'
  BY <1>16 DEF Release, Goto
<1>17. ASSUME NEW l \in Loops, Connected(l)
      PROVE  WriteOK'
  BY <1>17 DEF Connected, AskFor, Enter, Goto
<1>18. ASSUME NEW l \in Loops, ConnectEstablished(l), EstablishAdd(l)
      PROVE  WriteOK'
  BY <1>18 DEF ConnectEstablished, EstablishAdd, CtlSucceeds, CtlThrows, EpollAccepts, Leave, Enter,
      Goto
<1>19. ASSUME NEW l \in Loops, ConnectEstablished(l), EstablishSetState(l)
      PROVE  WriteOK'
  BY <1>19 DEF ConnectEstablished, EstablishSetState, SetStateAdd, Leave, Enter, Goto
<1>20. ASSUME NEW l \in Loops, HandleRead(l)
      PROVE  WriteOK'
  BY <1>20 DEF HandleRead, ReadData, ReadEof, ReadFails, Leave, Enter, Goto
<1>21. ASSUME NEW l \in Loops, HandleClose(l), CloseDisable(l)
      PROVE  WriteOK'
  BY <1>21 DEF HandleClose, CloseDisable, AskFor, Goto
<1>22. ASSUME NEW l \in Loops, HandleClose(l), CloseMod(l)
      PROVE  WriteOK'
  BY <1>22 DEF HandleClose, CloseMod, CtlSucceeds, CtlThrows, EpollAccepts, Leave, Enter, Goto
<1>23. ASSUME NEW l \in Loops, HandleClose(l), CloseRemove(l)
      PROVE  WriteOK'
  BY <1>23 DEF HandleClose, CloseRemove, CtlSucceeds, EpollAccepts, Goto
<1>24. ASSUME NEW l \in Loops, HandleClose(l), CloseNotify(l)
      PROVE  WriteOK'
  BY <1>24 DEF HandleClose, CloseNotify, Goto
<1>25. CASE
        \/ Send \/ Shutdown \/ Net \/ UNCHANGED vars
        \/ \E t \in Threads : Dangling(t)
  <2>1. ASSUME \/ Send \/ Shutdown \/ Net \/ UNCHANGED vars
        PROVE  UNCHANGED <<pc, cur, connection, active, registered>>
    BY <2>1 DEF Send, Shutdown, Net, PeerSend, PeerClose, PeerReset, vars
  <2>2. ASSUME NEW t \in Threads,
               Dangling(t)
        PROVE  UNCHANGED <<pc, cur, connection, active, registered>>
    BY <2>2 DEF Dangling
  <2> QED BY <1>25, <2>1, <2>2
<1> QED BY <1>1, <1>2, <1>3, <1>4, <1>5, <1>6, <1>7, <1>8, <1>9, <1>10, <1>11, <1>12, <1>13, <1>14,
           <1>15, <1>16, <1>17, <1>18, <1>19, <1>20, <1>21, <1>22, <1>23, <1>24, <1>25, Steps

(* Only disconnect() destroys a Channel that a thread or a batch holds.     *)
LEMMA HeldStep ==
  ASSUME ClientTypeOK, BusyOK, MadeOK, MethodOK, OwnedOK, WriteOK, HeldOK, RegisteredIsAlive, Next
  PROVE  HeldOK'
<1> USE ClientAssumption, LoopAssumption DEF ClientTypeOK, ChannelTypeOK, PcTypeOK, ObjectTypeOK,
        QuietOK, BusyOK, MadeOK, MethodOK, OwnedOK, WriteOK, HeldOK, RegisteredIsAlive, Loops,
        Threads, MainLabels, LoopLabels, BusyLabels, ConnLabels, ConnectLabels, WriteLabels,
        channelVars, loopVars, connectorVars, clientVars, programVars, netVars
<1>1. CASE Connect /\ ConnectFails(Main)
  BY <1>1 DEF Connect, ConnectFails, Leave, Enter, Goto
<1>2. CASE Connect /\ Connecting(Main)
  BY <1>2 DEF Connect, Connecting, AskFor, Enter, Goto
<1>3. CASE Disconnect
  BY <1>3 DEF Disconnect, Goto
<1>4. CASE DisconnectReset
  BY <1>4 DEF DisconnectReset, ResetChannel, Goto
<1>5. ASSUME NEW t \in Threads, ConnectorEnableWrite(t), ConnectAdd(t)
      PROVE  HeldOK'
  <2>1. CASE CtlSucceeds("ADD", cur[t]) /\ Goto(t, "ct_setstate") /\ UNCHANGED cur
    BY <1>5, <2>1 DEF ConnectorEnableWrite, ConnectAdd, CtlSucceeds, Goto
  <2>2. CASE CtlThrows("ADD", cur[t]) /\ Leave(t)
    BY <1>5, <2>2 DEF ConnectorEnableWrite, ConnectAdd, CtlThrows, Leave, Enter, Goto
  <2> QED BY <1>5, <2>1, <2>2 DEF ConnectAdd
<1>6. ASSUME NEW t \in Threads, ConnectorEnableWrite(t), ConnectSetState(t)
      PROVE  HeldOK'
  BY <1>6 DEF ConnectorEnableWrite, ConnectSetState, SetStateAdd, Leave, Enter, Goto
<1>7. ASSUME NEW l \in Loops, StartTheLoop(l)
      PROVE  HeldOK'
  BY <1>7 DEF StartTheLoop, StartLoop, Goto
<1>8. ASSUME NEW l \in Loops, Walk(l)
      PROVE  HeldOK'
  <2>1. CASE CheckQuit(l)
    BY <1>8, <2>1 DEF Walk, CheckQuit, Goto
  <2>2. CASE PollInterrupted(l)
    BY <1>8, <2>2 DEF Walk, PollInterrupted, Goto
  <2>3. CASE EndBatch(l)
    BY <1>8, <2>3 DEF Walk, EndBatch, Goto
  <2> QED BY <1>8, <2>1, <2>2, <2>3 DEF Walk
<1>9. ASSUME NEW l \in Loops, PollSockets(l)
      PROVE  HeldOK'
  BY <1>9 DEF PollSockets, Poll, Ready, Goto, Resize
<1>10. ASSUME NEW l \in Loops, NEW ch \in Channels, DispatchConnector(l, ch)
      PROVE  HeldOK'
  BY <1>10 DEF DispatchConnector, WriteDisable, WriteIgnored, AskFor, UpdateOpt, Take, Enter, Goto
<1>11. ASSUME NEW l \in Loops, NEW ch \in Channels, DispatchConnection(l, ch)
      PROVE  HeldOK'
  BY <1>11 DEF DispatchConnection, Take, Enter, Goto
<1>12. ASSUME NEW l \in Loops, HandleWrite(l)
      PROVE  HeldOK'
  <2>1. CASE WriteAdd(l)
    BY <1>12, <2>1 DEF HandleWrite, WriteAdd, CtlThrows, Leave, Enter, Goto
  <2>2. CASE WriteMod(l)
    BY <1>12, <2>2 DEF HandleWrite, WriteMod, CtlSucceeds, EpollAccepts, Goto
  <2>3. CASE WriteRemove(l)
    BY <1>12, <2>3 DEF HandleWrite, WriteRemove, CtlSucceeds, Goto
  <2> QED BY <1>12, <2>1, <2>2, <2>3 DEF HandleWrite
<1>13. ASSUME NEW l \in Loops, Retry(l)
      PROVE  HeldOK'
  BY <1>13 DEF Retry, ResetChannel, Enter, Goto
<1>14. ASSUME NEW l \in Loops, RetryConnect(l), ConnectFails(l)
      PROVE  HeldOK'
  BY <1>14 DEF RetryConnect, ConnectFails, Leave, Enter, Goto
<1>15. ASSUME NEW l \in Loops, RetryConnect(l), Connecting(l)
      PROVE  HeldOK'
  BY <1>15 DEF RetryConnect, Connecting, AskFor, Enter, Goto
<1>16. ASSUME NEW l \in Loops, Release(l)
      PROVE  HeldOK'
  BY <1>16 DEF Release, Goto
<1>17. ASSUME NEW l \in Loops, Connected(l)
      PROVE  HeldOK'
  BY <1>17 DEF Connected, AskFor, Enter, Goto
<1>18. ASSUME NEW l \in Loops, ConnectEstablished(l), EstablishAdd(l)
      PROVE  HeldOK'
  <2>1. CASE CtlSucceeds("ADD", cur[l]) /\ Goto(l, "est_setstate") /\ UNCHANGED cur
    BY <1>18, <2>1 DEF ConnectEstablished, EstablishAdd, CtlSucceeds, Goto
  <2>2. CASE CtlThrows("ADD", cur[l]) /\ Leave(l)
    BY <1>18, <2>2 DEF ConnectEstablished, EstablishAdd, CtlThrows, Leave, Enter, Goto
  <2> QED BY <1>18, <2>1, <2>2 DEF EstablishAdd
<1>19. ASSUME NEW l \in Loops, ConnectEstablished(l), EstablishSetState(l)
      PROVE  HeldOK'
  BY <1>19 DEF ConnectEstablished, EstablishSetState, SetStateAdd, Leave, Enter, Goto
<1>20. ASSUME NEW l \in Loops, HandleRead(l)
      PROVE  HeldOK'
  BY <1>20 DEF HandleRead, ReadData, ReadEof, ReadFails, Leave, Enter, Goto
<1>21. ASSUME NEW l \in Loops, HandleClose(l), CloseDisable(l)
      PROVE  HeldOK'
  BY <1>21 DEF HandleClose, CloseDisable, AskFor, Goto
<1>22. ASSUME NEW l \in Loops, HandleClose(l), CloseMod(l)
      PROVE  HeldOK'
  BY <1>22 DEF HandleClose, CloseMod, CtlSucceeds, CtlThrows, EpollAccepts, Leave, Enter, Goto
<1>23. ASSUME NEW l \in Loops, HandleClose(l), CloseRemove(l)
      PROVE  HeldOK'
  BY <1>23 DEF HandleClose, CloseRemove, CtlSucceeds, EpollAccepts, Goto
<1>24. ASSUME NEW l \in Loops, HandleClose(l), CloseNotify(l)
      PROVE  HeldOK'
  BY <1>24 DEF HandleClose, CloseNotify, Goto
<1>25. CASE
        \/ Send \/ Shutdown \/ Net \/ UNCHANGED vars
        \/ \E t \in Threads : Dangling(t)
  <2>1. ASSUME \/ Send \/ Shutdown \/ Net \/ UNCHANGED vars
        PROVE  UNCHANGED <<cancelled, pc, cur, object, active>>
    BY <2>1 DEF Send, Shutdown, Net, PeerSend, PeerClose, PeerReset, vars
  <2>2. ASSUME NEW t \in Threads,
               Dangling(t)
        PROVE  UNCHANGED <<cancelled, pc, cur, object, active>>
    BY <2>2 DEF Dangling
  <2> QED BY <1>25, <2>1, <2>2
<1> QED BY <1>1, <1>2, <1>3, <1>4, <1>5, <1>6, <1>7, <1>8, <1>9, <1>10, <1>11, <1>12, <1>13, <1>14,
           <1>15, <1>16, <1>17, <1>18, <1>19, <1>20, <1>21, <1>22, <1>23, <1>24, <1>25, Steps

(* A Channel is registered while it is alive, and unregistered before it is *)
(* destroyed.                                                               *)
LEMMA AliveStep ==
  ASSUME ClientTypeOK, BusyOK, MadeOK, MethodOK, OwnedOK, WriteOK, RegisteredIsAlive, Next
  PROVE  RegisteredIsAlive'
<1> USE ClientAssumption, LoopAssumption DEF ClientTypeOK, ChannelTypeOK, PcTypeOK, ObjectTypeOK,
        QuietOK, BusyOK, MadeOK, MethodOK, OwnedOK, WriteOK, RegisteredIsAlive, Loops, Threads,
        MainLabels, LoopLabels, BusyLabels, ConnLabels, ConnectLabels, WriteLabels, channelVars,
        loopVars, connectorVars, clientVars, programVars, netVars
<1>1. CASE Connect /\ Connecting(Main)
  BY <1>1 DEF Connect, Connecting, AskFor, Enter, Goto
<1>2. CASE DisconnectReset
  BY <1>2 DEF DisconnectReset, ResetChannel, Goto
<1>3. ASSUME NEW t \in Threads, ConnectorEnableWrite(t), ConnectAdd(t)
      PROVE  RegisteredIsAlive'
  BY <1>3 DEF ConnectorEnableWrite, ConnectAdd, CtlSucceeds, CtlThrows, EpollAccepts, Leave, Enter,
      Goto
<1>4. ASSUME NEW l \in Loops, HandleWrite(l)
      PROVE  RegisteredIsAlive'
  BY <1>4 DEF HandleWrite, WriteAdd, WriteMod, WriteRemove, CtlSucceeds, CtlThrows, EpollAccepts,
      Leave, Enter, Goto
<1>5. ASSUME NEW l \in Loops, Retry(l)
      PROVE  RegisteredIsAlive'
  BY <1>5 DEF Retry, ResetChannel, Enter, Goto
<1>6. ASSUME NEW l \in Loops, RetryConnect(l), Connecting(l)
      PROVE  RegisteredIsAlive'
  BY <1>6 DEF RetryConnect, Connecting, AskFor, Enter, Goto
<1>7. ASSUME NEW l \in Loops, Release(l)
      PROVE  RegisteredIsAlive'
  BY <1>7 DEF Release, Goto
<1>8. ASSUME NEW l \in Loops, Connected(l)
      PROVE  RegisteredIsAlive'
  BY <1>8 DEF Connected, AskFor, Enter, Goto
<1>9. ASSUME NEW l \in Loops, ConnectEstablished(l), EstablishAdd(l)
      PROVE  RegisteredIsAlive'
  BY <1>9 DEF ConnectEstablished, EstablishAdd, CtlSucceeds, CtlThrows, EpollAccepts, Leave, Enter,
      Goto
<1>10. ASSUME NEW l \in Loops, HandleClose(l), CloseMod(l)
      PROVE  RegisteredIsAlive'
  BY <1>10 DEF HandleClose, CloseMod, CtlSucceeds, CtlThrows, EpollAccepts, Leave, Enter, Goto
<1>11. ASSUME NEW l \in Loops, HandleClose(l), CloseRemove(l)
      PROVE  RegisteredIsAlive'
  BY <1>11 DEF HandleClose, CloseRemove, CtlSucceeds, EpollAccepts, Goto
<1>12. CASE
        \/ (Connect /\ ConnectFails(Main)) \/ Disconnect \/ Send \/ Shutdown \/ Net
        \/ UNCHANGED vars
        \/ \E t \in Threads : \/ (ConnectorEnableWrite(t) /\ ConnectSetState(t)) \/ Dangling(t)
        \/ \E l \in Loops : \/ StartTheLoop(l) \/ Walk(l) \/ PollSockets(l)
             \/ (RetryConnect(l) /\ ConnectFails(l))
             \/ (ConnectEstablished(l) /\ EstablishSetState(l)) \/ HandleRead(l)
             \/ (HandleClose(l) /\ CloseDisable(l)) \/ (HandleClose(l) /\ CloseNotify(l))
             \/ (\E ch \in Channels : DispatchConnector(l, ch) \/ DispatchConnection(l, ch))
  <2>1. ASSUME \/ (Connect /\ ConnectFails(Main)) \/ Disconnect \/ Send \/ Shutdown \/ Net
               \/ UNCHANGED vars
        PROVE  UNCHANGED <<registered, object>>
    BY <2>1 DEF Connect, ConnectFails, Leave, Enter, Goto, Disconnect, Send, Shutdown, Net,
        PeerSend, PeerClose, PeerReset, vars
  <2>2. ASSUME NEW t \in Threads,
               \/ (ConnectorEnableWrite(t) /\ ConnectSetState(t)) \/ Dangling(t)
        PROVE  UNCHANGED <<registered, object>>
    BY <2>2 DEF ConnectorEnableWrite, ConnectSetState, SetStateAdd, Leave, Enter, Goto, Dangling
  <2>3. ASSUME NEW l \in Loops,
               \/ StartTheLoop(l) \/ Walk(l) \/ PollSockets(l)
               \/ (RetryConnect(l) /\ ConnectFails(l))
               \/ (ConnectEstablished(l) /\ EstablishSetState(l)) \/ HandleRead(l)
               \/ (HandleClose(l) /\ CloseDisable(l)) \/ (HandleClose(l) /\ CloseNotify(l))
               \/ (\E ch \in Channels : DispatchConnector(l, ch) \/ DispatchConnection(l, ch))
        PROVE  UNCHANGED <<registered, object>>
    BY <2>3 DEF StartTheLoop, StartLoop, Goto, Walk, CheckQuit, PollInterrupted, EndBatch,
        PollSockets, Poll, Ready, Resize, DispatchConnector, WriteDisable, WriteIgnored, AskFor,
        UpdateOpt, Take, Enter, DispatchConnection, RetryConnect, ConnectFails, Leave,
        ConnectEstablished, EstablishSetState, SetStateAdd, HandleRead, ReadData, ReadEof,
        ReadFails, HandleClose, CloseDisable, CloseNotify
  <2> QED BY <1>12, <2>1, <2>2, <2>3
<1> QED BY <1>1, <1>2, <1>3, <1>4, <1>5, <1>6, <1>7, <1>8, <1>9, <1>10, <1>11, <1>12, Steps

(* A thread uses a destroyed Channel only after a disconnect().             *)
LEMMA DangleStep ==
  ASSUME ClientTypeOK, HeldOK, OnlyDisconnectDangles, Next
  PROVE  OnlyDisconnectDangles'
<1> USE ClientAssumption, LoopAssumption DEF ClientTypeOK, QuietOK, HeldOK, OnlyDisconnectDangles,
        Loops, Threads, MainLabels, LoopLabels, BusyLabels, ConnLabels, ConnectLabels, WriteLabels,
        channelVars, loopVars, connectorVars, clientVars, programVars, netVars
<1>1. CASE DisconnectReset
  BY <1>1 DEF DisconnectReset, ResetChannel, Goto
<1>2. CASE Send
  BY <1>2 DEF Send
<1>3. CASE Shutdown
  BY <1>3 DEF Shutdown
<1>4. ASSUME NEW t \in Threads, Dangling(t)
      PROVE  OnlyDisconnectDangles'
  BY <1>4 DEF Dangling
<1>5. CASE
        \/ (Connect /\ ConnectFails(Main)) \/ (Connect /\ Connecting(Main)) \/ Disconnect \/ Net
        \/ UNCHANGED vars
        \/ \E t \in Threads : \/ (ConnectorEnableWrite(t) /\ ConnectAdd(t))
             \/ (ConnectorEnableWrite(t) /\ ConnectSetState(t))
        \/ \E l \in Loops : \/ StartTheLoop(l) \/ Walk(l) \/ PollSockets(l) \/ HandleWrite(l)
             \/ Retry(l) \/ (RetryConnect(l) /\ ConnectFails(l))
             \/ (RetryConnect(l) /\ Connecting(l)) \/ Release(l) \/ Connected(l)
             \/ (ConnectEstablished(l) /\ EstablishAdd(l))
             \/ (ConnectEstablished(l) /\ EstablishSetState(l)) \/ HandleRead(l)
             \/ (HandleClose(l) /\ CloseDisable(l)) \/ (HandleClose(l) /\ CloseMod(l))
             \/ (HandleClose(l) /\ CloseRemove(l)) \/ (HandleClose(l) /\ CloseNotify(l))
             \/ (\E ch \in Channels : DispatchConnector(l, ch) \/ DispatchConnection(l, ch))
  <2>1. ASSUME \/ (Connect /\ ConnectFails(Main)) \/ (Connect /\ Connecting(Main)) \/ Disconnect
               \/ Net \/ UNCHANGED vars
        PROVE  UNCHANGED <<fate, cancelled>>
    BY <2>1 DEF Connect, ConnectFails, Leave, Enter, Goto, Connecting, AskFor, Disconnect, Net,
        PeerSend, PeerClose, PeerReset, vars
  <2>2. ASSUME NEW t \in Threads,
               \/ (ConnectorEnableWrite(t) /\ ConnectAdd(t))
               \/ (ConnectorEnableWrite(t) /\ ConnectSetState(t))
        PROVE  UNCHANGED <<fate, cancelled>>
    BY <2>2 DEF ConnectorEnableWrite, ConnectAdd, CtlSucceeds, CtlThrows, EpollAccepts, Leave,
        Enter, Goto, ConnectSetState, SetStateAdd
  <2>3. ASSUME NEW l \in Loops,
               \/ StartTheLoop(l) \/ Walk(l) \/ PollSockets(l) \/ HandleWrite(l) \/ Retry(l)
               \/ (RetryConnect(l) /\ ConnectFails(l)) \/ (RetryConnect(l) /\ Connecting(l))
               \/ Release(l) \/ Connected(l) \/ (ConnectEstablished(l) /\ EstablishAdd(l))
               \/ (ConnectEstablished(l) /\ EstablishSetState(l)) \/ HandleRead(l)
               \/ (HandleClose(l) /\ CloseDisable(l)) \/ (HandleClose(l) /\ CloseMod(l))
               \/ (HandleClose(l) /\ CloseRemove(l)) \/ (HandleClose(l) /\ CloseNotify(l))
               \/ (\E ch \in Channels : DispatchConnector(l, ch) \/ DispatchConnection(l, ch))
        PROVE  UNCHANGED <<fate, cancelled>>
    BY <2>3 DEF StartTheLoop, StartLoop, Goto, Walk, CheckQuit, PollInterrupted, EndBatch,
        PollSockets, Poll, Ready, Resize, DispatchConnector, WriteDisable, WriteIgnored, AskFor,
        UpdateOpt, Take, Enter, DispatchConnection, HandleWrite, WriteAdd, WriteMod, WriteRemove,
        CtlSucceeds, CtlThrows, EpollAccepts, Leave, Retry, ResetChannel, RetryConnect,
        ConnectFails, Connecting, Release, Connected, ConnectEstablished, EstablishAdd,
        EstablishSetState, SetStateAdd, HandleRead, ReadData, ReadEof, ReadFails, HandleClose,
        CloseDisable, CloseMod, CloseRemove, CloseNotify
  <2> QED BY <1>5, <2>1, <2>2, <2>3
<1> QED BY <1>1, <1>2, <1>3, <1>4, <1>5, Steps

(* A descriptor goes from owner to owner.                                   *)
LEMMA SocketStep ==
  ASSUME ClientTypeOK, BusyOK, MadeOK, MethodOK, OwnedOK, SocketIsOwned, Next
  PROVE  SocketIsOwned'
<1> USE ClientAssumption, LoopAssumption DEF ClientTypeOK, ChannelTypeOK, PcTypeOK, ObjectTypeOK,
        QuietOK, BusyOK, MadeOK, MethodOK, OwnedOK, SocketIsOwned, Loops, Threads, MainLabels,
        LoopLabels, BusyLabels, ConnLabels, ConnectLabels, WriteLabels, NetTypeOK, channelVars,
        loopVars, connectorVars, clientVars, programVars, netVars
<1>1. CASE Connect /\ ConnectFails(Main)
  BY <1>1 DEF Connect, ConnectFails, Leave, Enter, Goto
<1>2. CASE Connect /\ Connecting(Main)
  BY <1>2 DEF Connect, Connecting, AskFor, Enter, Goto
<1>3. CASE Disconnect
  BY <1>3 DEF Disconnect, Goto
<1>4. CASE DisconnectReset
  BY <1>4 DEF DisconnectReset, ResetChannel, Goto
<1>5. CASE Send
  BY <1>5 DEF Send
<1>6. ASSUME NEW t \in Threads, ConnectorEnableWrite(t), ConnectAdd(t)
      PROVE  SocketIsOwned'
  BY <1>6 DEF ConnectorEnableWrite, ConnectAdd, CtlSucceeds, CtlThrows, EpollAccepts, Leave, Enter,
      Goto
<1>7. ASSUME NEW t \in Threads, ConnectorEnableWrite(t), ConnectSetState(t)
      PROVE  SocketIsOwned'
  BY <1>7 DEF ConnectorEnableWrite, ConnectSetState, SetStateAdd, Leave, Enter, Goto
<1>8. ASSUME NEW l \in Loops, StartTheLoop(l)
      PROVE  SocketIsOwned'
  BY <1>8 DEF StartTheLoop, StartLoop, Goto
<1>9. ASSUME NEW l \in Loops, Walk(l)
      PROVE  SocketIsOwned'
  BY <1>9 DEF Walk, CheckQuit, PollInterrupted, EndBatch, Goto
<1>10. ASSUME NEW l \in Loops, PollSockets(l)
      PROVE  SocketIsOwned'
  BY <1>10 DEF PollSockets, Poll, Ready, Goto, Resize
<1>11. ASSUME NEW l \in Loops, NEW ch \in Channels, DispatchConnector(l, ch)
      PROVE  SocketIsOwned'
  BY <1>11 DEF DispatchConnector, WriteDisable, WriteIgnored, AskFor, UpdateOpt, Take, Enter, Goto
<1>12. ASSUME NEW l \in Loops, NEW ch \in Channels, DispatchConnection(l, ch)
      PROVE  SocketIsOwned'
  BY <1>12 DEF DispatchConnection, Take, Enter, Goto
<1>13. ASSUME NEW l \in Loops, HandleWrite(l)
      PROVE  SocketIsOwned'
  BY <1>13 DEF HandleWrite, WriteAdd, WriteMod, WriteRemove, CtlSucceeds, CtlThrows, EpollAccepts,
      Leave, Enter, Goto
<1>14. ASSUME NEW l \in Loops, Retry(l)
      PROVE  SocketIsOwned'
  BY <1>14 DEF Retry, ResetChannel, Enter, Goto
<1>15. ASSUME NEW l \in Loops, RetryConnect(l), ConnectFails(l)
      PROVE  SocketIsOwned'
  BY <1>15 DEF RetryConnect, ConnectFails, Leave, Enter, Goto
<1>16. ASSUME NEW l \in Loops, RetryConnect(l), Connecting(l)
      PROVE  SocketIsOwned'
  BY <1>16 DEF RetryConnect, Connecting, AskFor, Enter, Goto
<1>17. ASSUME NEW l \in Loops, Release(l)
      PROVE  SocketIsOwned'
  BY <1>17 DEF Release, Goto
<1>18. ASSUME NEW l \in Loops, Connected(l)
      PROVE  SocketIsOwned'
  BY <1>18 DEF Connected, AskFor, Enter, Goto
<1>19. ASSUME NEW l \in Loops, ConnectEstablished(l), EstablishAdd(l)
      PROVE  SocketIsOwned'
  BY <1>19 DEF ConnectEstablished, EstablishAdd, CtlSucceeds, CtlThrows, EpollAccepts, Leave, Enter,
      Goto
<1>20. ASSUME NEW l \in Loops, ConnectEstablished(l), EstablishSetState(l)
      PROVE  SocketIsOwned'
  BY <1>20 DEF ConnectEstablished, EstablishSetState, SetStateAdd, Leave, Enter, Goto
<1>21. ASSUME NEW l \in Loops, HandleRead(l)
      PROVE  SocketIsOwned'
  BY <1>21 DEF HandleRead, ReadData, ReadEof, ReadFails, Leave, Enter, Goto
<1>22. ASSUME NEW l \in Loops, HandleClose(l), CloseDisable(l)
      PROVE  SocketIsOwned'
  BY <1>22 DEF HandleClose, CloseDisable, AskFor, Goto
<1>23. ASSUME NEW l \in Loops, HandleClose(l), CloseMod(l)
      PROVE  SocketIsOwned'
  BY <1>23 DEF HandleClose, CloseMod, CtlSucceeds, CtlThrows, EpollAccepts, Leave, Enter, Goto
<1>24. ASSUME NEW l \in Loops, HandleClose(l), CloseRemove(l)
      PROVE  SocketIsOwned'
  BY <1>24 DEF HandleClose, CloseRemove, CtlSucceeds, EpollAccepts, Goto
<1>25. ASSUME NEW l \in Loops, HandleClose(l), CloseNotify(l)
      PROVE  SocketIsOwned'
  BY <1>25 DEF HandleClose, CloseNotify, Goto
<1>26. CASE Net
  BY <1>26 DEF Net, PeerSend, PeerClose, PeerReset
<1>27. CASE
        \/ Shutdown \/ UNCHANGED vars
        \/ \E t \in Threads : Dangling(t)
  <2>1. ASSUME \/ Shutdown \/ UNCHANGED vars
        PROVE  UNCHANGED <<peer, object, pc, cur>>
    BY <2>1 DEF Shutdown, vars
  <2>2. ASSUME NEW t \in Threads,
               Dangling(t)
        PROVE  UNCHANGED <<peer, object, pc, cur>>
    BY <2>2 DEF Dangling
  <2> QED BY <1>27, <2>1, <2>2
<1> QED BY <1>1, <1>2, <1>3, <1>4, <1>5, <1>6, <1>7, <1>8, <1>9, <1>10, <1>11, <1>12, <1>13, <1>14,
           <1>15, <1>16, <1>17, <1>18, <1>19, <1>20, <1>21, <1>22, <1>23, <1>24, <1>25, <1>26,
           <1>27, Steps

-----------------------------------------------------------------------------
(* A TcpClient that has just been made satisfies the invariant.             *)
LEMMA InitClient == Init => ClientInv
<1> SUFFICES ASSUME Init PROVE ClientInv
  OBVIOUS
<1> USE LoopAssumption, ClientAssumption DEF Init, ChannelInit, LoopInit, Threads
<1>1. ChannelTypeOK /\ QuietOK
  BY DEF ChannelTypeOK, ChannelStates, NONE, QuietOK
<1>2. LoopTypeOK
  BY DEF LoopTypeOK
<1>3. PcTypeOK /\ ObjectTypeOK
  BY DEF PcTypeOK, ObjectTypeOK, MainLabels, LoopLabels
<1>4. ProgramTypeOK /\ NetTypeOK
  BY DEF ProgramTypeOK, NetTypeOK, ConnectStates
<1>5. BusyOK /\ MadeOK /\ MethodOK
  BY DEF BusyOK, MadeOK, MethodOK, BusyLabels, ConnectLabels, WriteLabels, ConnLabels
<1>6. OwnedOK /\ ConnectOK /\ WriteOK /\ HeldOK
  BY DEF OwnedOK, ConnectOK, WriteOK, HeldOK, ConnectLabels, WriteLabels
<1>7. RegisteredIsAlive /\ OnlyDisconnectDangles /\ SocketIsOwned
  BY DEF RegisteredIsAlive, OnlyDisconnectDangles, SocketIsOwned
<1> QED BY <1>1, <1>2, <1>3, <1>4, <1>5, <1>6, <1>7 DEF ClientInv, ClientTypeOK

(* Every step of the two threads, the kernel and the peer keeps it.         *)
LEMMA ClientStep == ClientInv /\ [Next]_vars => ClientInv'
<1> SUFFICES ASSUME ClientInv, [Next]_vars PROVE ClientInv'
  OBVIOUS
<1>1. CASE Next
  <2>1. /\ ClientTypeOK /\ BusyOK /\ MadeOK /\ MethodOK /\ OwnedOK /\ ConnectOK /\ WriteOK
        /\ HeldOK /\ RegisteredIsAlive /\ OnlyDisconnectDangles /\ SocketIsOwned
    BY DEF ClientInv
  <2>2. ClientTypeOK'
    BY <1>1, <2>1, PcStep, ObjectStep, ProgramStep, NetStep, ChannelStep, LoopStep, QuietStep
       DEF ClientTypeOK
  <2>3. BusyOK' /\ MadeOK' /\ MethodOK' /\ OwnedOK' /\ ConnectOK' /\ WriteOK' /\ HeldOK'
    BY <1>1, <2>1, BusyStep, MadeStep, MethodStep, OwnedStep, ConnectStep, WriteStep, HeldStep
  <2>4. RegisteredIsAlive' /\ OnlyDisconnectDangles' /\ SocketIsOwned'
    BY <1>1, <2>1, AliveStep, DangleStep, SocketStep
  <2> QED BY <2>2, <2>3, <2>4 DEF ClientInv
<1>2. CASE UNCHANGED vars
  <2>1. ClientTypeOK'
    BY <1>2 DEF ClientInv, ClientTypeOK, ChannelTypeOK, LoopTypeOK, QuietOK, PcTypeOK, ObjectTypeOK,
       ProgramTypeOK, NetTypeOK, vars, channelVars, loopVars, connectorVars, clientVars,
       programVars, netVars
  <2>2. BusyOK' /\ MadeOK' /\ MethodOK' /\ OwnedOK' /\ ConnectOK' /\ WriteOK' /\ HeldOK'
    BY <1>2 DEF ClientInv, BusyOK, MadeOK, MethodOK, OwnedOK, ConnectOK, WriteOK, HeldOK, vars,
       channelVars, loopVars, connectorVars, clientVars, programVars
  <2>3. RegisteredIsAlive' /\ OnlyDisconnectDangles' /\ SocketIsOwned'
    BY <1>2 DEF ClientInv, RegisteredIsAlive, OnlyDisconnectDangles, SocketIsOwned, vars,
       channelVars, programVars, netVars
  <2> QED BY <2>1, <2>2, <2>3 DEF ClientInv
<1> QED BY <1>1, <1>2

(* Whatever the user calls and the peer does, in whatever order the two     *)
(* threads run, ClientInv holds.                                            *)
THEOREM ClientIsSound == Spec => []ClientInv
<1> QED BY InitClient, ClientStep, PTL DEF Spec

(* RegisteredIsAlive, for any number of Channels: epoll_wait never returns  *)
(* a pointer to a Channel that the hand-over, a retry or a disconnect() has *)
(* destroyed before the call.                                               *)
THEOREM KernelHoldsLiveChannels == Spec => []RegisteredIsAlive
<1>1. ClientInv => RegisteredIsAlive
  BY DEF ClientInv
<1> QED BY <1>1, ClientIsSound, PTL

(* OnlyDisconnectDangles, for any number of Channels: the race for state_   *)
(* between connecting() and handleWrite is harmless.                        *)
THEOREM StateRaceIsHarmless == Spec => []OnlyDisconnectDangles
<1>1. ClientInv => OnlyDisconnectDangles
  BY DEF ClientInv
<1> QED BY <1>1, ClientIsSound, PTL

(* SocketIsOwned, for any number of Channels: connecting, retrying and      *)
(* handing over lose no descriptor.                                         *)
THEOREM NoDescriptorIsLost == Spec => []SocketIsOwned
<1>1. ClientInv => SocketIsOwned
  BY DEF ClientInv
<1> QED BY <1>1, ClientIsSound, PTL
=============================================================================
