------------------------------ MODULE DataPath ------------------------------
(***************************************************************************)
(* What travels over one TcpConnection of a TcpServer: the peer's bytes    *)
(* through read() and the Buffer to the program's onMessage handler        *)
(* (tcpconnection.cpp, buffer.cpp), the program's responses through        *)
(* write() (channel.cpp), and which handlers the connection got at all,    *)
(* since main.cpp assigns them after start() has let the loops run.        *)
(*                                                                         *)
(* The peer's n-th byte is the number n.  The connection is registered for *)
(* READ from the moment it is accepted until its loop closes it; the loop, *)
(* its registration and stop() are the matter of TcpServer.                *)
(***************************************************************************)
EXTENDS Channel, Integers, Sequences

CONSTANTS
  conn,          \* the connection's Channel
  MaxSent,       \* bound: the bytes the peer sends
  ReadSize,      \* what handleRead reads at most, 4096
  ResponseSize,  \* the length of the program's response
  SendBuffer     \* the capacity of the socket's send buffer

ASSUME DataAssumption ==
  /\ Channels = {conn}
  /\ MaxSent \in Nat
  /\ ReadSize \in Nat \ {0}
  /\ ResponseSize \in Nat \ {0}
  /\ SendBuffer \in Nat

(* The TcpServer's handlers, in the order in which main assigns them. *)
Setters == <<"connected", "read", "write", "close">>

VARIABLES
  assigned,    \* how many of the TcpServer's handlers are assigned
  writing,     \* how many more are being written: 0 or 1
  pc,          \* where the connection's loop is
  handlers,    \* the handlers the connection has copied
  buffer,      \* TcpConnection::read_buffer_
  consumed,    \* the bytes seen by calls of onMessage that returned
  threw,       \* whether onMessage has ever thrown: "never" or "once"
  responses,   \* how many responses the program has sent
  fate,        \* "running", or what killed the process
  sent,        \* peer: how many bytes it has sent
  unread,      \* kernel: the bytes received and not read
  out,         \* kernel: every byte write() has taken, <<response, index>>
  taken,       \* peer: how many of these it has received
  peer,        \* kernel: "open", "fin", "rst" (not reported yet) or "down"
  sending      \* kernel: our sending side, "open" or "shut"

setupVars == <<assigned, writing>>
inVars    == <<buffer, consumed, threw>>
outVars   == <<responses, out, taken>>
peerVars  == <<sent, unread, peer>>
vars == <<channelVars, setupVars, pc, handlers, inVars, outVars,
          peerVars, sending, fate>>

Labels == {"accept", "wait", "reading", "handler", "returning", "closing", "closed"}

(* The bytes on their way to the peer fit into the send buffer. *)
OutTypeOK ==
  /\ responses \in Nat
  /\ out \in Seq(Nat \X (1 .. ResponseSize))
  /\ taken \in 0 .. Len(out)
  /\ Len(out) - taken <= SendBuffer

(* One handler is assigned at a time, and there are no more than four. *)
SetupOK ==
  /\ assigned \in 0 .. Len(Setters)
  /\ writing \in 0 .. 1
  /\ assigned + writing <= Len(Setters)

(* Every variable has its type. *)
DataTypeOK ==
  /\ ChannelTypeOK
  /\ SetupOK
  /\ pc \in Labels
  /\ handlers \in SUBSET {"connected", "read", "write"}
  /\ buffer \in Seq(1 .. MaxSent)
  /\ consumed \in Seq(1 .. MaxSent)
  /\ unread \in Seq(1 .. MaxSent)
  /\ threw \in {"never", "once"}
  /\ fate \in {"running", "torn", "SIGPIPE"}
  /\ OutTypeOK
  /\ sent \in 0 .. MaxSent
  /\ peer \in {"open", "fin", "rst", "down"}
  /\ sending \in {"open", "shut"}

Init ==
  /\ ChannelInit
  /\ assigned = 0 /\ writing = 0
  /\ pc = "accept"
  /\ handlers = {}
  /\ buffer = << >> /\ consumed = << >> /\ threw = "never"
  /\ responses = 0 /\ out = << >> /\ taken = 0
  /\ sent = 0 /\ unread = << >> /\ peer = "open"
  /\ sending = "open"
  /\ fate = "running"

-----------------------------------------------------------------------------
(* The kernel and the peer. *)

(* The conditions of the socket: a hang-up when both directions are shut.   *)
Conditions ==
  {f \in {"IN"} : unread # << >> \/ peer # "open"}
    \cup {f \in {"RDHUP"} : peer # "open"}
    \cup {f \in {"HUP"} : peer \in {"rst", "down"} \/ (peer = "fin" /\ sending = "shut")}
    \cup {f \in {"ERR"} : peer = "rst"}

PeerSend ==
  /\ peer = "open"
  /\ sent < MaxSent
  /\ sent' = sent + 1
  /\ unread' = Append(unread, sent + 1)
  /\ UNCHANGED <<peer, taken>>

PeerTakes ==
  /\ peer \in {"open", "fin"}
  /\ taken < Len(out)
  /\ taken' = taken + 1
  /\ UNCHANGED peerVars

PeerClose ==
  /\ peer = "open"
  /\ peer' = "fin"
  /\ UNCHANGED <<sent, unread, taken>>

(* A reset leaves what has been received to be read. *)
PeerReset ==
  /\ peer \in {"open", "fin"}
  /\ peer' = "rst"
  /\ UNCHANGED <<sent, unread, taken>>

Net ==
  /\ PeerSend \/ PeerTakes \/ PeerClose \/ PeerReset
  /\ UNCHANGED <<channelVars, setupVars, pc, handlers, inVars,
                 responses, out, sending, fate>>

-----------------------------------------------------------------------------
(* The main thread, after start(): onConnected, onMessage, onWrite, onClose *)
(* in turn.  Assigning a std::function writes several words.                *)
BeginAssign ==
  /\ assigned < Len(Setters)
  /\ writing = 0
  /\ writing' = 1
  /\ UNCHANGED assigned

EndAssign ==
  /\ writing = 1
  /\ writing' = 0
  /\ assigned' = assigned + 1

SetHandlers ==
  /\ BeginAssign \/ EndAssign
  /\ UNCHANGED <<channelVars, pc, handlers, inVars, outVars, peerVars,
                 sending, fate>>

(* The handlers that can be read whole now, and the one that cannot: its    *)
(* reader gets the old value, the new one or a mixture.                     *)
Assigned == {Setters[k] : k \in 1 .. assigned}
Torn     == {Setters[k] : k \in assigned + 1 .. assigned + writing}

-----------------------------------------------------------------------------
(* The loops' threads. *)

(* handleNewConnection copies three handlers and connectEstablished         *)
(* registers the channel for reading.                                       *)
AcceptClean ==
  /\ \E late \in SUBSET Torn : handlers' = (Assigned \cup late) \ {"close"}
  /\ state' = [state EXCEPT ![conn] = "ADD"]
  /\ channelEvent' = [channelEvent EXCEPT ![conn] = READ]
  /\ registered' = {conn}
  /\ mask' = [mask EXCEPT ![conn] = READ]
  /\ pc' = "wait"
  /\ UNCHANGED fate

AcceptTorn ==
  /\ Torn \ {"close"} # {}
  /\ fate' = "torn"
  /\ UNCHANGED <<handlers, channelVars, pc>>

Accept ==
  /\ pc = "accept"
  /\ AcceptClean \/ AcceptTorn
  /\ UNCHANGED <<setupVars, inVars, outVars, peerVars, sending>>

(* epoll_wait returns the channel, and handleEvent runs handleRead or, for  *)
(* a hang-up with nothing to read, handleClose.                             *)
Poll ==
  /\ pc = "wait"
  /\ conn \in registered
  /\ Reported(conn, Conditions) # {}
  /\ pc' = IF HandleEvent(Reported(conn, Conditions)) = "close"
           THEN "closing" ELSE "reading"
  /\ UNCHANGED <<channelVars, setupVars, handlers, inVars, outVars, peerVars,
                 sending, fate>>

(* handleRead: read() returns a part of what is there, up to the size of    *)
(* its array, and copyFrom appends it.  Without a handler it is cleared.    *)
Chunk == IF Len(unread) < ReadSize THEN Len(unread) ELSE ReadSize

CopyOver(bytes) == buffer' = bytes
CopyFrom(bytes) == buffer' = buffer \o bytes

ReadFullOnly ==
  /\ unread # << >>
  /\ \/ /\ Chunk = ReadSize
        /\ CopyFrom(SubSeq(unread, 1, Chunk))
        /\ unread' = SubSeq(unread, Chunk + 1, Len(unread))
        /\ pc' = "handler"
     \/ /\ Chunk < ReadSize
        /\ pc' = "wait"
        /\ UNCHANGED <<buffer, unread>>
  /\ UNCHANGED peer

ReadData ==
  /\ unread # << >>
  /\ CopyFrom(SubSeq(unread, 1, Chunk))
  /\ unread' = SubSeq(unread, Chunk + 1, Len(unread))
  /\ pc' = "handler"
  /\ UNCHANGED peer

ReadEof ==
  /\ unread = << >>
  /\ peer \in {"fin", "down"}
  /\ pc' = "closing"
  /\ UNCHANGED <<buffer, unread, peer>>

(* read() fails, which is reported once; nothing is done about it.          *)
ReadFails ==
  /\ unread = << >>
  /\ peer = "rst"
  /\ peer' = "down"
  /\ pc' = "wait"
  /\ UNCHANGED <<buffer, unread>>

HandleRead ==
  /\ pc = "reading"
  /\ ReadData \/ ReadEof \/ ReadFails
  /\ UNCHANGED <<channelVars, setupVars, handlers, consumed, threw,
                 outVars, sent, sending, fate>>

-----------------------------------------------------------------------------
(* The program's onMessage: it sends the response once. *)

(* write() takes what fits into the send buffer and send() ignores the      *)
(* result.                                                                  *)
Room == SendBuffer - (Len(out) - taken)
Written == IF Room < ResponseSize THEN Room ELSE ResponseSize

(* The first n bytes of the r-th response; which text it is does not matter. *)
Response(r, n) == [k \in 1 .. n |-> <<r, k>>]

WriteTakes ==
  /\ sending = "open"
  /\ peer \in {"open", "fin"}
  /\ out' = out \o Response(responses + 1, Written)
  /\ pc' = "returning"
  /\ UNCHANGED <<peer, fate>>

(* The peer has reset the connection: write() fails once with the error.    *)
WriteFails ==
  /\ sending = "open"
  /\ peer = "rst"
  /\ peer' = "down"
  /\ pc' = "returning"
  /\ UNCHANGED <<out, fate>>

(* The sending side is gone: the process gets a signal that it has not      *)
(* asked to ignore.  After a close and a reset that is so at once.          *)
WriteKills ==
  /\ sending = "shut" \/ peer \in {"rst", "down"}
  /\ fate' = "SIGPIPE"
  /\ UNCHANGED <<out, peer, pc>>

Send ==
  /\ pc = "handler"
  /\ "read" \in handlers
  /\ WriteTakes \/ WriteFails \/ WriteKills
  /\ responses' = responses + 1
  /\ UNCHANGED <<channelVars, setupVars, handlers, inVars, taken,
                 sent, unread, sending>>

(* The handler returns and the buffer is cleared.                           *)
Clear == buffer' = << >>

HandlerReturns ==
  /\ pc = "returning"
  /\ consumed' = consumed \o buffer
  /\ Clear
  /\ pc' = "wait"
  /\ UNCHANGED <<channelVars, setupVars, handlers, threw, outVars,
                 peerVars, sending, fate>>

(* There is no handler: the buffer is cleared all the same. *)
NoHandler ==
  /\ pc = "handler"
  /\ "read" \notin handlers
  /\ Clear
  /\ pc' = "wait"
  /\ UNCHANGED <<channelVars, setupVars, handlers, consumed, threw,
                 outVars, peerVars, sending, fate>>

(* The handler throws, before or after sending: the loop logs it and polls  *)
(* again.                                                                   *)
HandlerThrows ==
  /\ pc \in {"handler", "returning"}
  /\ "read" \in handlers
  /\ threw' = "once"
  /\ pc' = "wait"
  /\ UNCHANGED <<channelVars, setupVars, handlers, buffer, consumed,
                 outVars, peerVars, sending, fate>>

(* TcpConnection::shutdown, by whatever thread of the program holds the     *)
(* connection.                                                              *)
Shutdown ==
  /\ pc \notin {"accept", "closed"}
  /\ sending' = "shut"
  /\ UNCHANGED <<channelVars, setupVars, pc, handlers, inVars,
                 outVars, peerVars, fate>>

(* handleClose: the channel is removed and onClose, as it is now, is        *)
(* called.                                                                  *)
HandleClose ==
  /\ pc = "closing"
  /\ \/ pc' = "closed" /\ UNCHANGED fate
     \/ "close" \in Torn /\ fate' = "torn" /\ UNCHANGED pc
  /\ channelEvent' = [channelEvent EXCEPT ![conn] = NONE]
  /\ mask' = [mask EXCEPT ![conn] = NONE]
  /\ registered' = {}
  /\ UNCHANGED <<state, setupVars, handlers, inVars, outVars, peerVars,
                 sending>>

-----------------------------------------------------------------------------
LoopThread ==
  \/ Accept \/ Poll \/ HandleRead \/ Send \/ HandlerReturns
  \/ NoHandler \/ HandlerThrows \/ HandleClose

Running == fate = "running"

(* A connection that is closed, and a process that has died, stay so.       *)
Done == (pc = "closed" \/ ~Running) /\ UNCHANGED vars

Next == (Running /\ (Net \/ SetHandlers \/ LoopThread \/ Shutdown)) \/ Done

Spec == Init /\ [][Next]_vars

(* The loops are scheduled and the program's handler returns or throws.     *)
FairSpec == Spec /\ WF_vars(Running /\ LoopThread)

-----------------------------------------------------------------------------
(* s is the part of the peer's stream that follows its first n bytes. *)
Follows(s, n) == \A k \in 1 .. Len(s) : s[k] = n + k

(* consumed, buffer and unread are, one after the other, what was sent. *)
Stream ==
  /\ Follows(consumed, 0)
  /\ Follows(buffer, Len(consumed))
  /\ Follows(unread, Len(consumed) + Len(buffer))
  /\ Len(consumed) + Len(buffer) + Len(unread) = sent

(* What onMessage has consumed, what waits in the buffer and what waits in  *)
(* the kernel are, one after the other, the stream the peer sent: however   *)
(* it is cut by read(), and although a call that throws leaves its bytes in *)
(* the buffer, every byte reaches a call that returns once, in order.       *)
EachByteOnce == "read" \in handlers => Stream

(* A connection is closed by its loop only after onMessage has had all that *)
(* the peer sent, be it followed by a close, a reset or a shutdown of our   *)
(* own, unless onMessage has thrown.                                        *)
DrainedBeforeClose ==
  pc = "closed" /\ "read" \in handlers =>
    unread = << >> /\ (threw = "never" => Len(consumed) = sent)

(* Every byte of a connection that has a handler is eventually consumed.    *)
DataHandled ==
  \A n \in 1 .. MaxSent :
    (sent >= n /\ "read" \in handlers) ~> (Len(consumed) >= n \/ threw = "once" \/ ~Running)

-----------------------------------------------------------------------------
(* Why they hold.  Before the connection is accepted nothing has been read; *)
(* the buffer is empty between calls of onMessage unless one has thrown;    *)
(* nothing is unread where the loop decides to close, since the peer is     *)
(* gone; and it waits with a channel that is registered for IN, without     *)
(* which a hang-up could be reported alone.                                 *)
AcceptOK == pc = "accept" => Stream /\ consumed = << >> /\ buffer = << >> /\ handlers = {}
BufferOK == pc \in {"wait", "reading", "closing", "closed"} /\ threw = "never" => buffer = << >>
CloseOK  == pc \in {"closing", "closed"} => unread = << >> /\ peer # "open"
MaskOK   == pc \in {"wait", "reading", "handler", "returning"} => mask[conn] = READ

DataInv == DataTypeOK /\ EachByteOnce /\ AcceptOK /\ BufferOK /\ CloseOK /\ MaskOK
=============================================================================
