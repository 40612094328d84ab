--------------------------- MODULE DataPathProofs ---------------------------
(***************************************************************************)
(* The data path, for every size of the peer's stream, of read()'s array,  *)
(* of the response and of the send buffer.                                 *)
(***************************************************************************)
EXTENDS DataPath, SequenceTheorems, TLAPS

USE DataAssumption

(* A response, as far as write() takes it, is a sequence of its bytes.      *)
LEMMA WrittenBytes ==
  ASSUME NEW n \in 0 .. ResponseSize, NEW r \in Nat
  PROVE  /\ [k \in 1 .. n |-> <<r, k>>] \in Seq(Nat \X (1 .. ResponseSize))
         /\ Len([k \in 1 .. n |-> <<r, k>>]) = n
<1> DEFINE s == [k \in 1 .. n |-> <<r, k>>]
<1>1. s \in [1 .. n -> Nat \X (1 .. ResponseSize)]
  OBVIOUS
<1>2. s \in Seq(Nat \X (1 .. ResponseSize))
  BY <1>1, SeqDef
<1>3. Len(s) = n
  BY <1>1, <1>2, LenProperties
<1> QED BY <1>2, <1>3

(* read() cuts the unread bytes in two. *)
LEMMA Cut ==
  ASSUME DataTypeOK, unread # << >>
  PROVE  /\ Chunk \in 1 .. Len(unread)
         /\ SubSeq(unread, 1, Chunk) \in Seq(1 .. MaxSent)
         /\ SubSeq(unread, Chunk + 1, Len(unread)) \in Seq(1 .. MaxSent)
         /\ Len(SubSeq(unread, 1, Chunk)) = Chunk
         /\ Len(SubSeq(unread, Chunk + 1, Len(unread))) = Len(unread) - Chunk
         /\ \A k \in 1 .. Chunk : SubSeq(unread, 1, Chunk)[k] = unread[k]
         /\ \A k \in 1 .. Len(unread) - Chunk :
              SubSeq(unread, Chunk + 1, Len(unread))[k] = unread[Chunk + k]
<1>1. unread \in Seq(1 .. MaxSent) /\ Len(unread) \in Nat \ {0}
  BY EmptySeq DEF DataTypeOK
<1>2. Chunk \in 1 .. Len(unread)
  BY <1>1 DEF Chunk
<1> QED BY <1>1, <1>2, SubSeqProperties

-----------------------------------------------------------------------------
(* Types. *)

(* The handlers that main assigns. *)
LEMMA SettersAre ==
  /\ Len(Setters) = 4
  /\ \A k \in 1 .. 4 : Setters[k] \in {"connected", "read", "write", "close"}
BY DEF Setters

LEMMA InitData == Init => DataInv
<1> SUFFICES ASSUME Init PROVE DataInv
  OBVIOUS
<1> USE DEF Init
<1>1. ChannelTypeOK
  BY DEF ChannelInit, ChannelTypeOK, Flags, ChannelStates, NONE
<1>2. OutTypeOK
  BY EmptySeq DEF OutTypeOK
<1>3. DataTypeOK
  BY <1>1, <1>2, SettersAre, EmptySeq DEF DataTypeOK, SetupOK, Labels
<1>4. Stream
  BY EmptySeq DEF Stream, Follows
<1> QED BY <1>3, <1>4 DEF DataInv, EachByteOnce, AcceptOK, BufferOK, CloseOK, MaskOK

(* What a channel is asked for, and told, are flags. *)
LEMMA MaskTypes == READ \in SUBSET Flags /\ NONE \in SUBSET Flags
BY DEF READ, NONE, Flags

(* Every step of a running process keeps the types. *)
LEMMA TypeStep == DataTypeOK /\ Next => DataTypeOK'
<1> SUFFICES ASSUME DataTypeOK, Next PROVE DataTypeOK'
  OBVIOUS
<1> USE SettersAre DEF DataTypeOK
<1>1. CASE Net
  <2> USE <1>1 DEF Net
  <2>1. CASE PeerSend
    <3>1. sent + 1 \in 1 .. MaxSent
      BY <2>1 DEF PeerSend
    <3>2. unread' \in Seq(1 .. MaxSent)
      BY <2>1, <3>1, AppendProperties DEF PeerSend
    <3>3. OutTypeOK' /\ ChannelTypeOK' /\ SetupOK'
      BY <2>1 DEF PeerSend, OutTypeOK, ChannelTypeOK, channelVars, setupVars, SetupOK
    <3>4. sent' \in 0 .. MaxSent /\ peer' = peer
      BY <2>1, <3>1 DEF PeerSend
    <3> QED BY <3>2, <3>3, <3>4 DEF setupVars, inVars
  <2>2. CASE PeerTakes
    <3>1. OutTypeOK'
      BY <2>2 DEF PeerTakes, OutTypeOK
    <3> QED BY <2>2, <3>1 DEF PeerTakes, ChannelTypeOK, channelVars, setupVars, SetupOK, inVars,
            peerVars
  <2>3. CASE PeerClose
    BY <2>3 DEF PeerClose, OutTypeOK, ChannelTypeOK, channelVars, setupVars, SetupOK, inVars
  <2>4. CASE PeerReset
    BY <2>4 DEF PeerReset, OutTypeOK, ChannelTypeOK, channelVars, setupVars, SetupOK, inVars
  <2> QED BY <2>1, <2>2, <2>3, <2>4
<1>2. CASE SetHandlers
  BY <1>2 DEF SetupOK, SetHandlers, BeginAssign, EndAssign, ChannelTypeOK, channelVars, inVars,
     outVars, OutTypeOK, peerVars
<1>3. CASE Accept
  <2> USE <1>3 DEF Accept, setupVars, SetupOK, inVars, outVars, OutTypeOK, peerVars
  <2>1. CASE AcceptClean
    <3>2. Assigned \cup Torn \subseteq {"connected", "read", "write", "close"}
      BY DEF Assigned, Torn, SetupOK
    <3>3. handlers' \in SUBSET {"connected", "read", "write"}
      BY <2>1, <3>2 DEF AcceptClean
    <3>4. ChannelTypeOK'
      BY <2>1, MaskTypes DEF AcceptClean, ChannelTypeOK, ChannelStates
    <3> QED BY <2>1, <3>3, <3>4 DEF AcceptClean, Labels
  <2>2. CASE AcceptTorn
    BY <2>2 DEF AcceptTorn, ChannelTypeOK, channelVars
  <2> QED BY <2>1, <2>2
<1>4. CASE Poll
  BY <1>4 DEF Poll, ChannelTypeOK, channelVars, setupVars, SetupOK, inVars, outVars, OutTypeOK, peerVars, Labels
<1>5. CASE HandleRead
  <2> USE <1>5 DEF HandleRead, ChannelTypeOK, channelVars, setupVars, SetupOK, outVars, OutTypeOK, Labels
  <2>1. CASE ReadData
    <3>1. buffer' \in Seq(1 .. MaxSent) /\ unread' \in Seq(1 .. MaxSent)
      BY <2>1, Cut, ConcatProperties DEF ReadData, CopyFrom
    <3> QED BY <2>1, <3>1 DEF ReadData
  <2>2. CASE ReadEof
    BY <2>2 DEF ReadEof
  <2>3. CASE ReadFails
    BY <2>3 DEF ReadFails
  <2> QED BY <2>1, <2>2, <2>3
<1>6. CASE Send
  <2> USE <1>6 DEF Send, ChannelTypeOK, channelVars, setupVars, SetupOK, inVars, Labels
  <2>1. CASE WriteTakes
    <3> DEFINE bytes == [k \in 1 .. Written |-> <<responses + 1, k>>]
    <3>1. Room \in 0 .. SendBuffer
      BY LenProperties DEF Room, OutTypeOK
    <3>2. Written \in 0 .. ResponseSize /\ Written <= Room
      BY <3>1 DEF Written
    <3>3. bytes \in Seq(Nat \X (1 .. ResponseSize)) /\ Len(bytes) = Written
      BY <3>2, WrittenBytes DEF OutTypeOK
    <3>6. out' = out \o bytes
      BY <2>1 DEF WriteTakes, Response
    <3> DEFINE Bytes == Nat \X (1 .. ResponseSize)
    <3>7. out \in Seq(Bytes) /\ bytes \in Seq(Bytes)
      BY <3>3 DEF OutTypeOK
    <3> HIDE DEF bytes, Bytes
    <3>8. out \o bytes \in Seq(Bytes) /\ Len(out \o bytes) = Len(out) + Len(bytes)
      BY <3>7, ConcatProperties
    <3>4. out' \in Seq(Nat \X (1 .. ResponseSize)) /\ Len(out') = Len(out) + Written
      BY <3>3, <3>6, <3>8 DEF Bytes
    <3>5. OutTypeOK'
      BY <3>1, <3>2, <3>4, LenProperties DEF Room, OutTypeOK
    <3> QED BY <2>1, <3>5 DEF WriteTakes
  <2>2. CASE WriteFails
    BY <2>2 DEF WriteFails, OutTypeOK
  <2>3. CASE WriteKills
    BY <2>3 DEF WriteKills, OutTypeOK
  <2> QED BY <2>1, <2>2, <2>3
<1>7. CASE HandlerReturns
  <2>1. consumed' \in Seq(1 .. MaxSent) /\ buffer' \in Seq(1 .. MaxSent)
    BY <1>7, ConcatProperties, EmptySeq DEF HandlerReturns, Clear
  <2> QED BY <1>7, <2>1 DEF HandlerReturns, ChannelTypeOK, channelVars, setupVars, SetupOK, outVars, OutTypeOK,
          peerVars, Labels
<1>8. CASE NoHandler
  BY <1>8, EmptySeq DEF NoHandler, Clear, ChannelTypeOK, channelVars, setupVars, SetupOK, outVars, OutTypeOK,
     peerVars, Labels
<1>9. CASE HandlerThrows
  BY <1>9 DEF HandlerThrows, ChannelTypeOK, channelVars, setupVars, SetupOK, outVars, OutTypeOK, peerVars, Labels
<1>10. CASE HandleClose
  <2>1. ChannelTypeOK'
    BY <1>10, MaskTypes DEF HandleClose, ChannelTypeOK
  <2> QED BY <1>10, <2>1 DEF HandleClose, setupVars, SetupOK, inVars, outVars, OutTypeOK, peerVars, Labels
<1>11. CASE Shutdown
  BY <1>11 DEF Shutdown, ChannelTypeOK, channelVars, setupVars, SetupOK, inVars, outVars, OutTypeOK, peerVars
<1>12. CASE Done
  BY <1>12 DEF Done, vars, ChannelTypeOK, channelVars, setupVars, SetupOK, inVars, outVars, OutTypeOK, peerVars
<1> QED
  BY <1>1, <1>2, <1>3, <1>4, <1>5, <1>6, <1>7, <1>8, <1>9, <1>10, <1>11, <1>12
  DEF Next, LoopThread

-----------------------------------------------------------------------------
(* The stream. *)

(* Moving the front of what is unread to the end of the buffer, and the     *)
(* buffer to the end of what is consumed, keeps the stream.                 *)
LEMMA StreamRead ==
  ASSUME DataTypeOK, Stream, HandleRead
  PROVE  Stream'
<1> USE DEF HandleRead, Stream, Follows
<1>1. CASE ReadData
  <2> DEFINE front == SubSeq(unread, 1, Chunk)
             back  == SubSeq(unread, Chunk + 1, Len(unread))
  <2>1. /\ consumed \in Seq(1 .. MaxSent) /\ buffer \in Seq(1 .. MaxSent)
        /\ unread \in Seq(1 .. MaxSent)
    BY DEF DataTypeOK
  <2>2. buffer' = buffer \o front /\ unread' = back /\ consumed' = consumed /\ sent' = sent
    BY <1>1 DEF ReadData, CopyFrom
  <2>3. /\ Chunk \in 1 .. Len(unread)
        /\ front \in Seq(1 .. MaxSent) /\ Len(front) = Chunk
        /\ back \in Seq(1 .. MaxSent) /\ Len(back) = Len(unread) - Chunk
        /\ \A k \in 1 .. Chunk : front[k] = unread[k]
        /\ \A k \in 1 .. Len(unread) - Chunk : back[k] = unread[Chunk + k]
    BY <1>1, Cut DEF ReadData
  <2> HIDE DEF front, back, HandleRead
  <2>4. /\ Len(buffer \o front) = Len(buffer) + Chunk
        /\ \A k \in 1 .. Len(buffer) + Chunk : (buffer \o front)[k] =
             IF k <= Len(buffer) THEN buffer[k] ELSE front[k - Len(buffer)]
    <3>1. buffer \in Seq(1 .. MaxSent) /\ front \in Seq(1 .. MaxSent) /\ Len(front) = Chunk
      BY <2>1, <2>3
    <3> HIDE DEF Stream, Follows
    <3> QED BY <3>1, ConcatProperties
  <2>5. Len(consumed) \in Nat /\ Len(buffer) \in Nat /\ Len(unread) \in Nat
    BY <2>1, LenProperties
  <2>6. \A k \in 1 .. Len(buffer) + Chunk : (buffer \o front)[k] = Len(consumed) + k
    <3> SUFFICES ASSUME NEW k \in 1 .. Len(buffer) + Chunk
                 PROVE  (buffer \o front)[k] = Len(consumed) + k
      OBVIOUS
    <3>1. CASE k <= Len(buffer)
      BY <2>4, <2>5, <2>3, <3>1
    <3>2. CASE ~(k <= Len(buffer))
      <4>1. k - Len(buffer) \in 1 .. Chunk /\ k - Len(buffer) \in 1 .. Len(unread)
        BY <2>3, <2>5, <3>2
      <4>2. (buffer \o front)[k] = front[k - Len(buffer)]
        BY <2>4, <3>2
      <4>3. front[k - Len(buffer)] = unread[k - Len(buffer)]
        BY <2>3, <4>1
      <4>4. unread[k - Len(buffer)] = Len(consumed) + Len(buffer) + (k - Len(buffer))
        BY <4>1
      <4> QED BY <2>3, <2>5, <4>2, <4>3, <4>4
    <3> QED BY <3>1, <3>2
  <2>7. \A k \in 1 .. Len(back) : back[k] = Len(consumed) + (Len(buffer) + Chunk) + k
    <3> SUFFICES ASSUME NEW k \in 1 .. Len(back)
                 PROVE  back[k] = Len(consumed) + (Len(buffer) + Chunk) + k
      OBVIOUS
    <3>1. Chunk + k \in 1 .. Len(unread) /\ k \in 1 .. Len(unread) - Chunk
      BY <2>3, <2>5
    <3> QED BY <2>3, <2>5, <3>1
  <2> QED BY <2>2, <2>3, <2>4, <2>5, <2>6, <2>7
<1>2. CASE ReadEof
  BY <1>2 DEF ReadEof
<1>3. CASE ReadFails
  BY <1>3 DEF ReadFails
<1> QED BY <1>1, <1>2, <1>3

LEMMA StreamReturn ==
  ASSUME DataTypeOK, Stream, HandlerReturns
  PROVE  Stream'
<1>1. consumed \in Seq(1 .. MaxSent) /\ buffer \in Seq(1 .. MaxSent) /\ unread \in Seq(1 .. MaxSent)
  BY DEF DataTypeOK
<1>2. /\ consumed' = consumed \o buffer /\ buffer' = << >>
      /\ unread' = unread /\ sent' = sent
  BY DEF HandlerReturns, Clear, peerVars
<1>3. /\ Len(consumed \o buffer) = Len(consumed) + Len(buffer)
      /\ \A k \in 1 .. Len(consumed) + Len(buffer) : (consumed \o buffer)[k] =
           IF k <= Len(consumed) THEN consumed[k] ELSE buffer[k - Len(consumed)]
  BY <1>1, ConcatProperties
<1>4. Len(consumed) \in Nat /\ Len(buffer) \in Nat /\ Len(unread) \in Nat
  BY <1>1, LenProperties
<1>5. \A k \in 1 .. Len(consumed) + Len(buffer) : (consumed \o buffer)[k] = k
  <2> SUFFICES ASSUME NEW k \in 1 .. Len(consumed) + Len(buffer)
               PROVE  (consumed \o buffer)[k] = k
    OBVIOUS
  <2>1. CASE k <= Len(consumed)
    BY <1>3, <1>4, <2>1 DEF Stream, Follows
  <2>2. CASE ~(k <= Len(consumed))
    <3>1. k - Len(consumed) \in 1 .. Len(buffer)
      BY <1>4, <2>2
    <3> QED BY <1>3, <1>4, <2>2, <3>1 DEF Stream, Follows
  <2> QED BY <2>1, <2>2
<1> QED BY <1>2, <1>3, <1>4, <1>5, EmptySeq DEF Stream, Follows

(* A byte that arrives goes to the end of what is unread. *)
LEMMA StreamSend ==
  ASSUME DataTypeOK, Stream, Net
  PROVE  Stream'
<1> USE DEF Net, inVars
<1>1. CASE PeerSend
  <2>1. /\ consumed \in Seq(1 .. MaxSent) /\ buffer \in Seq(1 .. MaxSent)
        /\ unread \in Seq(1 .. MaxSent) /\ sent \in 0 .. MaxSent /\ sent + 1 \in 1 .. MaxSent
    BY <1>1 DEF DataTypeOK, PeerSend
  <2>2. /\ consumed' = consumed /\ buffer' = buffer
        /\ unread' = Append(unread, sent + 1) /\ sent' = sent + 1
    BY <1>1 DEF PeerSend
  <2>3. /\ Len(Append(unread, sent + 1)) = Len(unread) + 1
        /\ \A k \in 1 .. Len(unread) : Append(unread, sent + 1)[k] = unread[k]
        /\ Append(unread, sent + 1)[Len(unread) + 1] = sent + 1
    BY <2>1, AppendProperties
  <2>4. Len(consumed) \in Nat /\ Len(buffer) \in Nat /\ Len(unread) \in Nat
    BY <2>1, LenProperties
  <2>6. Len(consumed) + Len(buffer) + Len(unread) = sent
    BY DEF Stream
  <2>5. \A k \in 1 .. Len(unread) + 1 :
          Append(unread, sent + 1)[k] = Len(consumed) + Len(buffer) + k
    <3> SUFFICES ASSUME NEW k \in 1 .. Len(unread) + 1
                 PROVE  Append(unread, sent + 1)[k] = Len(consumed) + Len(buffer) + k
      OBVIOUS
    <3>1. CASE k \in 1 .. Len(unread)
      BY <2>3, <3>1 DEF Stream, Follows
    <3>2. CASE k = Len(unread) + 1
      <4>1. Append(unread, sent + 1)[k] = sent + 1
        BY <2>3, <3>2
      <4> QED BY <2>4, <2>6, <3>2, <4>1
    <3> QED BY <2>4, <3>1, <3>2
  <2>7. Follows(consumed, 0)' /\ Follows(buffer, Len(consumed))'
    BY <2>2 DEF Stream, Follows
  <2>8. Follows(unread, Len(consumed) + Len(buffer))'
    BY <2>2, <2>3, <2>5 DEF Follows
  <2>9. (Len(consumed) + Len(buffer) + Len(unread) = sent)'
    BY <2>2, <2>3, <2>4, <2>6
  <2> QED BY <2>7, <2>8, <2>9 DEF Stream
<1>2. CASE PeerTakes \/ PeerClose \/ PeerReset
  BY <1>2 DEF PeerTakes, PeerClose, PeerReset, peerVars, Stream, Follows
<1> QED BY <1>1, <1>2

(* Whatever changes none of them keeps the stream. *)
LEMMA StreamUnchanged ==
  ASSUME Stream, UNCHANGED <<consumed, buffer, unread, sent>>
  PROVE  Stream'
BY DEF Stream, Follows

(* Only Accept changes the handlers. *)
LEMMA HandlersStep ==
  ASSUME Next, ~Accept
  PROVE  handlers' = handlers
BY DEF Next, Net, SetHandlers, LoopThread, Poll, HandleRead, Send, HandlerReturns,
   NoHandler, HandlerThrows, HandleClose, Shutdown, Done, vars

(* Every step keeps the stream, apart from a clear() without a handler. *)
LEMMA StreamStep ==
  ASSUME DataTypeOK, Stream, Next, ~NoHandler
  PROVE  Stream'
<1>1. CASE Net
  BY <1>1, StreamSend
<1>2. CASE HandleRead
  BY <1>2, StreamRead
<1>3. CASE HandlerReturns
  BY <1>3, StreamReturn
<1>4. CASE \/ SetHandlers \/ Accept \/ Poll \/ Send \/ HandlerThrows \/ HandleClose
           \/ Shutdown \/ Done
  <2>1. UNCHANGED <<consumed, buffer, unread, sent>>
    BY <1>4 DEF SetHandlers, Accept, Poll, Send, HandlerThrows, HandleClose, Shutdown, Done,
       vars, inVars, peerVars
  <2> QED BY <2>1, StreamUnchanged
<1> QED BY <1>1, <1>2, <1>3, <1>4 DEF Next, LoopThread

-----------------------------------------------------------------------------
(* The parts of the invariant. *)

LEMMA EachByteOnceStep ==
  ASSUME DataInv, Next
  PROVE  EachByteOnce'
<1> USE DEF DataInv
<1>1. CASE Accept
  <2>1. Stream
    BY <1>1 DEF Accept, AcceptOK
  <2>2. ~NoHandler
    BY <1>1 DEF Accept, NoHandler
  <2> QED BY <2>1, <2>2, StreamStep DEF EachByteOnce
<1>2. CASE NoHandler
  BY <1>2 DEF NoHandler, EachByteOnce
<1>3. CASE ~Accept /\ ~NoHandler
  BY <1>3, HandlersStep, StreamStep DEF EachByteOnce
<1> QED BY <1>1, <1>2, <1>3

(* Nothing but the peer and main does anything before Accept. *)
LEMMA AcceptStep ==
  ASSUME DataInv, Next
  PROVE  AcceptOK'
<1> SUFFICES ASSUME pc' = "accept"
             PROVE  (Stream /\ consumed = << >> /\ buffer = << >> /\ handlers = {})'
  BY DEF AcceptOK
<1>1. pc = "accept"
  BY DEF Next, Net, SetHandlers, LoopThread, Accept, Poll, HandleRead, ReadData, ReadEof,
     ReadFails, Send, WriteTakes, WriteFails, WriteKills, HandlerReturns, NoHandler,
     HandlerThrows, HandleClose, Shutdown, Done, vars
<1>2. ~NoHandler
  BY <1>1 DEF NoHandler
<1>3. Stream'
  BY <1>1, <1>2, StreamStep DEF DataInv, AcceptOK
<1>4. consumed = << >> /\ buffer = << >> /\ handlers = {}
  BY <1>1 DEF DataInv, AcceptOK
<1>5. UNCHANGED <<consumed, buffer, handlers>>
  BY <1>1 DEF Next, Net, SetHandlers, LoopThread, Accept, AcceptClean, AcceptTorn, Poll,
     HandleRead, Send, HandlerReturns, NoHandler, HandlerThrows, HandleClose, Shutdown, Done,
     vars, inVars
<1> QED BY <1>3, <1>4, <1>5

(* A call of onMessage that returns clears the buffer, and so does a read   *)
(* without a handler.                                                       *)
LEMMA BufferStep ==
  ASSUME DataInv, Next
  PROVE  BufferOK'
<1> USE DEF DataInv, BufferOK
<1>1. CASE Accept
  BY <1>1 DEF Accept, AcceptClean, AcceptTorn, AcceptOK, inVars
<1>2. CASE HandleRead
  BY <1>2 DEF HandleRead, ReadData, ReadEof, ReadFails
<1>3. CASE Send
  BY <1>3 DEF Send, WriteTakes, WriteFails, WriteKills, inVars
<1>4. CASE HandlerReturns \/ NoHandler \/ HandlerThrows
  BY <1>4 DEF HandlerReturns, NoHandler, HandlerThrows, Clear
<1>5. CASE Net \/ SetHandlers \/ Poll \/ HandleClose \/ Shutdown \/ Done
  BY <1>5 DEF Net, SetHandlers, Poll, HandleClose, Shutdown, Done, vars, inVars
<1> QED BY <1>1, <1>2, <1>3, <1>4, <1>5 DEF Next, LoopThread

(* A channel that is registered for READ never hangs up without IN. *)
LEMMA HangUpIsReadable ==
  ASSUME mask[conn] = READ
  PROVE  HandleEvent(Reported(conn, Conditions)) # "close"
BY DEF HandleEvent, Reported, Conditions, READ

LEMMA CloseStep ==
  ASSUME DataInv, Next
  PROVE  CloseOK'
<1> USE DEF DataInv, CloseOK
<1>1. CASE Net
  BY <1>1 DEF Net, PeerSend, PeerTakes, PeerClose, PeerReset, peerVars
<1>2. CASE Poll
  BY <1>2, HangUpIsReadable DEF Poll, MaskOK
<1>3. CASE HandleRead
  BY <1>3 DEF HandleRead, ReadData, ReadEof, ReadFails
<1>4. CASE Accept
  BY <1>4 DEF Accept, AcceptClean, AcceptTorn
<1>5. CASE Send
  BY <1>5 DEF Send, WriteTakes, WriteFails, WriteKills
<1>6. CASE \/ SetHandlers \/ HandlerReturns \/ NoHandler \/ HandlerThrows \/ HandleClose
           \/ Shutdown \/ Done
  BY <1>6 DEF SetHandlers, HandlerReturns, NoHandler, HandlerThrows, HandleClose, Shutdown,
     Done, vars, peerVars
<1> QED BY <1>1, <1>2, <1>3, <1>4, <1>5, <1>6 DEF Next, LoopThread

LEMMA MaskStep ==
  ASSUME DataInv, Next
  PROVE  MaskOK'
<1> USE DEF DataInv, MaskOK
<1>1. CASE Accept
  <2>1. mask \in [{conn} -> SUBSET Flags]
    BY DEF DataTypeOK, ChannelTypeOK
  <2> QED BY <1>1, <2>1 DEF Accept, AcceptClean, AcceptTorn, channelVars
<1>2. CASE HandleRead
  BY <1>2 DEF HandleRead, ReadData, ReadEof, ReadFails, channelVars
<1>3. CASE Send
  BY <1>3 DEF Send, WriteTakes, WriteFails, WriteKills, channelVars
<1>4. CASE HandleClose
  BY <1>4 DEF HandleClose
<1>5. CASE \/ Net \/ SetHandlers \/ Poll \/ HandlerReturns \/ NoHandler \/ HandlerThrows
           \/ Shutdown \/ Done
  BY <1>5 DEF Net, SetHandlers, Poll, HandlerReturns, NoHandler, HandlerThrows, Shutdown,
     Done, vars, channelVars
<1> QED BY <1>1, <1>2, <1>3, <1>4, <1>5 DEF Next, LoopThread

-----------------------------------------------------------------------------
(* The invariant holds for any amount of data and any sizes of read()'s     *)
(* array, the response and the send buffer.                                 *)
THEOREM DataInductive == Spec => []DataInv
<1>1. Init => DataInv
  BY InitData
<1>2. DataInv /\ [Next]_vars => DataInv'
  <2> SUFFICES ASSUME DataInv, [Next]_vars PROVE DataInv'
    OBVIOUS
  <2>1. CASE Next
    BY <2>1, TypeStep, EachByteOnceStep, AcceptStep, BufferStep, CloseStep, MaskStep DEF DataInv
  <2>2. CASE UNCHANGED vars
    <3>2. UNCHANGED <<consumed, buffer, unread, sent, handlers, pc, threw, peer, mask>>
      BY <2>2 DEF vars, inVars, peerVars, channelVars
    <3>3. Stream => Stream'
      BY <3>2, StreamUnchanged
    <3>4. DataTypeOK'
      BY <2>2 DEF DataInv, DataTypeOK, ChannelTypeOK, SetupOK, OutTypeOK, vars, channelVars,
         setupVars, inVars, outVars, peerVars
    <3> QED BY <3>2, <3>3, <3>4 DEF DataInv, EachByteOnce, AcceptOK, BufferOK, CloseOK, MaskOK
  <2> QED BY <2>1, <2>2
<1> QED BY <1>1, <1>2, PTL DEF Spec

(* Every byte reaches a call of onMessage that returns once, in order,      *)
(* however it is cut by read() and whichever calls throw.                   *)
THEOREM BytesOnceInOrder == Spec => []EachByteOnce
<1>1. DataInv => EachByteOnce
  BY DEF DataInv
<1> QED BY <1>1, DataInductive, PTL

(* The loop closes a connection only after onMessage has had all of it.     *)
THEOREM NothingLostAtClose == Spec => []DrainedBeforeClose
<1>1. DataInv => DrainedBeforeClose
  <2> SUFFICES ASSUME DataInv, pc = "closed", "read" \in handlers
               PROVE  unread = << >> /\ (threw = "never" => Len(consumed) = sent)
    BY DEF DrainedBeforeClose
  <2>1. unread = << >>
    BY DEF DataInv, CloseOK
  <2>2. ASSUME threw = "never" PROVE Len(consumed) = sent
    <3>1. buffer = << >>
      BY <2>2 DEF DataInv, BufferOK
    <3>2. Len(consumed) + Len(buffer) + Len(unread) = sent
      BY DEF DataInv, EachByteOnce, Stream
    <3>3. Len(buffer) = 0 /\ Len(unread) = 0 /\ Len(consumed) \in Nat
      BY <2>1, <3>1, LenProperties, EmptySeq DEF DataInv, DataTypeOK
    <3> QED BY <3>2, <3>3
  <2> QED BY <2>1, <2>2
<1> QED BY <1>1, DataInductive, PTL
=============================================================================
