--------------------------- MODULE WebSocketProofs ---------------------------
(***************************************************************************)
(* Proofs about WebSocket, for any number of writers, any sizes of messages *)
(* and of the buffer, and any frames of the server.                        *)
(***************************************************************************)
EXTENDS WebSocket, SequenceTheorems, TLAPS

USE SizeAssumption, SendsAssumption, BoundAssumption, WriterAssumption
USE DEF conn, buffer, calls, reading, network, history

-----------------------------------------------------------------------------
(* Type correctness.                                                       *)

\* What is put on the wire is a frame.
LEMMA SendType ==
  ASSUME TypeOK, NEW w \in Writer, at[w] = "put", ~ panic, Send(w)
  PROVE  wire' \in Seq(WireFrame)
<1>1. frame[w] \in Header /\ frame[w].len \in 0..BufSize
  BY DEF TypeOK, CallsOK, Header, Flushing
<1>2. SubSeq(writeBuf, 1, frame[w].len) \in Seq(Piece)
  <2>1. writeBuf \in Seq(Piece) /\ Len(writeBuf) = BufSize
    BY DEF TypeOK, ConnOK
  <2> QED BY <1>1, <2>1
<1>3. [kind |-> "mixed"] \in WireFrame
  BY DEF WireFrame
<1>4. [kind |-> frame[w].kind, final |-> frame[w].final,
       pieces |-> SubSeq(writeBuf, 1, frame[w].len)] \in WireFrame
  BY <1>1, <1>2 DEF WireFrame, Header
<1> QED BY <1>3, <1>4 DEF Send, TypeOK, ConnOK

\* A writer that is not flushing has no header.
LEMMA NoHeaderType == NoHeader \in Header
BY DEF Header, NoHeader

\* Masking keeps a piece a piece.
LEMMA MaskType ==
  ASSUME NEW p \in Piece
  PROVE  [p EXCEPT !.masks = Again(@)] \in Piece
<1>1. CASE p \in [masks : 0..2]
  BY <1>1 DEF Piece, Again
<1>2. CASE p \in [by : Writer, nr : 0..MaxMessages, no : Int, masks : 0..2]
  <2>1. Again(p.masks) \in 0..2
    BY DEF Again
  <2> QED BY <1>2, <2>1 DEF Piece
<1> QED BY <1>1, <1>2 DEF Piece

\* A return leaves nothing behind.
LEMMA ReturnType ==
  ASSUME CallsOK, NEW w \in Writer, Return(w), nr' = nr, panic' = panic
  PROVE  CallsOK'
<1>1. frame' \in [Writer -> Header]
  BY NoHeaderType DEF Return, CallsOK
<1>2. at' \in [Writer -> Place]
  BY DEF Return, Goto, CallsOK, Place
<1>3. \A v \in Writer : at'[v] \in Flushing =>
        v # w /\ at'[v] = at[v] /\ frame'[v] = frame[v]
  BY DEF Return, Goto, CallsOK, Flushing
<1>4. \A v \in Writer : at'[v] = "copy" => v # w /\ at[v] = "copy" /\ left'[v] = left[v]
  BY DEF Return, Goto, CallsOK
<1> QED BY <1>1, <1>2, <1>3, <1>4 DEF Return, CallsOK

\* The initial state is well typed.
LEMMA TypeInit == Init => TypeOK
<1> SUFFICES ASSUME Init PROVE TypeOK
  OBVIOUS
<1>1. ConnOK
  <2>1. NoPiece \in Piece
    BY DEF Piece, NoPiece
  <2>2. writeBuf \in [1..BufSize -> Piece]
    BY <2>1 DEF Init
  <2>3. wire \in Seq(WireFrame)
    BY DEF Init
  <2> QED BY <2>2, <2>3 DEF Init, ConnOK
<1>2. CallsOK
  BY NoHeaderType DEF Init, CallsOK, Place, Flushing
<1>3. ReadingOK
  BY DEF Init, ReadingOK
<1> QED BY <1>1, <1>2, <1>3 DEF Init, TypeOK

\* The steps of a writer.
LEMMA WriterType ==
  ASSUME TypeOK, ~ panic, NEW w \in Writer, NextWriter(w) \/ WriterStep(w)
  PROVE  TypeOK'
<1> USE DEF Goto, Return
<1>1. ReadingOK'
  BY DEF TypeOK, ReadingOK, NextWriter, WriterStep, BeginMessage, WriterErr,
         NCopy, Copy, EndMessage, MakeFrame, Lock, Put, Reset
<1>2. CASE NextWriter(w)
  <2>1. ConnOK'
    BY <1>2 DEF NextWriter, TypeOK, ConnOK
  <2>2. CallsOK'
    BY <1>2 DEF NextWriter, TypeOK, CallsOK, Place, Flushing
  <2> QED BY <1>1, <1>2, <2>1, <2>2 DEF NextWriter, TypeOK, CallsOK
<1>3. CASE BeginMessage(w)
  <2>1. ConnOK'
    BY <1>3 DEF BeginMessage, TypeOK, ConnOK, FrameType
  <2>2. CallsOK'
    BY <1>3 DEF BeginMessage, TypeOK, ConnOK, CallsOK, Place, Flushing
  <2> QED BY <1>1, <1>3, <2>1, <2>2 DEF BeginMessage, TypeOK, CallsOK
<1>4. CASE WriterErr(w)
  <2>1. ConnOK'
    BY <1>4 DEF WriterErr, TypeOK, ConnOK
  <2>2. CallsOK'
    <3>1. CASE Return(w)
      BY <1>4, <3>1, ReturnType DEF WriterErr, TypeOK
    <3>2. CASE Goto(w, "ncopy") /\ UNCHANGED <<left, seq, frame, then>>
      BY <1>4, <3>2 DEF WriterErr, TypeOK, CallsOK, Place, Flushing
    <3> QED BY <1>4, <3>1, <3>2 DEF WriterErr
  <2> QED BY <1>1, <1>4, <2>1, <2>2 DEF WriterErr, TypeOK, CallsOK
<1>5. CASE NCopy(w)
  <2>1. ConnOK'
    BY <1>5 DEF NCopy, TypeOK, ConnOK
  <2>2. CallsOK'
    BY <1>5 DEF NCopy, TypeOK, CallsOK, Place, Flushing
  <2> QED BY <1>1, <1>5, <2>1, <2>2 DEF NCopy, TypeOK, CallsOK
<1>6. CASE Copy(w)
  <2> DEFINE p == [by |-> w, nr |-> nr[w], no |-> Size[w] - left[w] + 1,
                   masks |-> 0]
  <2>1. p \in Piece
    BY DEF TypeOK, CallsOK, Piece
  <2>2. writeBuf' \in [1..BufSize -> Piece]
    BY <1>6, <2>1 DEF Copy, TypeOK, ConnOK
  <2>3. ConnOK'
    BY <1>6, <2>2 DEF Copy, TypeOK, ConnOK
  <2>4. CallsOK'
    BY <1>6 DEF Copy, TypeOK, CallsOK, Place, Flushing
  <2> QED BY <1>1, <1>6, <2>3, <2>4 DEF Copy, TypeOK, CallsOK
<1>7. CASE EndMessage(w)
  <2>1. ConnOK'
    BY <1>7 DEF EndMessage, TypeOK, ConnOK
  <2>2. CallsOK'
    <3>1. CASE Return(w)
      BY <1>7, <3>1, ReturnType DEF EndMessage, TypeOK
    <3>2. CASE /\ Goto(w, "flushFinal") /\ then' = [then EXCEPT ![w] = "idle"]
               /\ UNCHANGED <<left, seq, frame>>
      BY <1>7, <3>2 DEF EndMessage, TypeOK, CallsOK, Place, Flushing
    <3> QED BY <1>7, <3>1, <3>2 DEF EndMessage
  <2> QED BY <1>1, <1>7, <2>1, <2>2 DEF EndMessage, TypeOK, CallsOK
<1>8. CASE MakeFrame(w)
  <2>1. writeBuf' \in [1..BufSize -> Piece]
    <3>1. \A i \in 1..BufSize : [writeBuf[i] EXCEPT !.masks = Again(@)] \in Piece
      BY MaskType DEF TypeOK, ConnOK
    <3> QED BY <1>8, <3>1 DEF MakeFrame, TypeOK, ConnOK
  <2>2. panic' \in BOOLEAN
    <3>1. (writePos > BufSize) \in BOOLEAN
      OBVIOUS
    <3> QED BY <1>8, <3>1 DEF MakeFrame
  <2>3. ConnOK'
    BY <1>8, <2>1, <2>2 DEF MakeFrame, TypeOK, ConnOK
  <2>4. PICK h \in Header : frame' = [frame EXCEPT ![w] = h] /\ h.len = writePos
    <3>1. (at[w] = "flushFinal") \in BOOLEAN
      OBVIOUS
    <3>2. [kind |-> writeFrameType, final |-> at[w] = "flushFinal",
           len |-> writePos] \in Header
      BY <3>1 DEF Header, TypeOK, ConnOK
    <3> QED BY <1>8, <3>2, Zenon DEF MakeFrame
  <2>5. writePos <= BufSize \/ panic'
    <3>1. writePos <= BufSize \/ writePos > BufSize
      BY DEF TypeOK, ConnOK
    <3> QED BY <1>8, <3>1, Zenon DEF MakeFrame
  <2>6. CallsOK'
    <3>1. frame' \in [Writer -> Header] /\ frame'[w].len = writePos
      BY <2>4 DEF TypeOK, CallsOK
    <3>2. at' \in [Writer -> Place] /\ at'[w] = "lock"
      BY <1>8 DEF MakeFrame, TypeOK, CallsOK, Place
    <3>3. \A v \in Writer : v # w => at'[v] = at[v] /\ frame'[v] = frame[v]
      BY <1>8, <2>4 DEF MakeFrame, TypeOK, CallsOK
    <3>4. \A v \in Writer : at'[v] \in Flushing => frame'[v].len <= BufSize \/ panic'
      BY <2>5, <3>1, <3>3 DEF TypeOK, CallsOK
    <3>5. \A v \in Writer : at'[v] = "copy" => left'[v] > 0
      BY <1>8, <3>2, <3>3 DEF MakeFrame, TypeOK, CallsOK
    <3> QED BY <1>8, <3>1, <3>2, <3>4, <3>5 DEF MakeFrame, TypeOK, CallsOK
  <2> QED BY <1>1, <1>8, <2>3, <2>6 DEF MakeFrame, TypeOK, CallsOK
<1>9. CASE Lock(w)
  <2>1. ConnOK'
    BY <1>9 DEF Lock, TypeOK, ConnOK
  <2>2. CallsOK'
    BY <1>9 DEF Lock, TypeOK, CallsOK, Place, Flushing
  <2> QED BY <1>1, <1>9, <2>1, <2>2 DEF Lock, TypeOK, CallsOK
<1>10. CASE Put(w)
  <2>1. wire' \in Seq(WireFrame)
    BY <1>10, SendType DEF Put, TypeOK, ConnOK
  <2>2. ConnOK'
    BY <1>10, <2>1 DEF Put, TypeOK, ConnOK
  <2>3. CallsOK'
    BY <1>10 DEF Put, Result, TypeOK, CallsOK, Place, Flushing
  <2> QED BY <1>1, <1>10, <2>2, <2>3 DEF Put, Result, TypeOK, CallsOK
<1>11. CASE Reset(w)
  <2>1. writeErr' \in BOOLEAN
    BY <1>11, Zenon DEF Reset
  <2>2. ConnOK'
    BY <1>11, <2>1 DEF Reset, TypeOK, ConnOK, FrameType
  <2>3. CallsOK'
    <3>1. CASE Return(w)
      BY <1>11, <3>1, ReturnType DEF Reset, TypeOK
    <3>2. CASE Goto(w, then[w]) /\ UNCHANGED <<left, seq, frame, then>>
      BY <1>11, <3>2 DEF Reset, TypeOK, CallsOK, Place, Flushing
    <3> QED BY <1>11, <3>1, <3>2 DEF Reset
  <2> QED BY <1>1, <1>11, <2>2, <2>3 DEF Reset, TypeOK, CallsOK
<1> QED
  BY <1>2, <1>3, <1>4, <1>5, <1>6, <1>7, <1>8, <1>9, <1>10, <1>11 DEF WriterStep

\* The steps of the reader, the server and the network.
LEMMA ReaderType ==
  ASSUME TypeOK, ReaderStep \/ (\E f \in Sends : ServerSends(f)) \/ Close
  PROVE  TypeOK'
<1>1. CallsOK'
  BY DEF TypeOK, CallsOK, ReaderStep, ServerSends, Close, ReadData,
         ReadPingPong, ReadLast, WriteControl, WriteControlTimeout, ReadFails
<1>2. wire' \in Seq(WireFrame) /\ closeSent' \in BOOLEAN
  <2>1. CASE WriteControl
    <3>1. reader \in {"pong", "close"} => [kind |-> reader] \in WireFrame
      BY DEF WireFrame
    <3>2. wire' \in Seq(WireFrame)
      BY <2>1, <3>1 DEF WriteControl, TypeOK, ConnOK
    <3>3. closeSent' \in BOOLEAN
      BY <2>1, Zenon DEF WriteControl
    <3> QED BY <3>2, <3>3
  <2>2. CASE ~ WriteControl
    BY <2>2 DEF TypeOK, ConnOK, ReaderStep, ServerSends, Close, ReadData,
         ReadPingPong, ReadLast, WriteControlTimeout, ReadFails
  <2> QED BY <2>1, <2>2
<1>3. ConnOK' /\ mu' = mu /\ at' = at
  BY <1>2 DEF TypeOK, ConnOK, ReaderStep, ServerSends, Close, ReadData,
         ReadPingPong, ReadLast, WriteControl, WriteControlTimeout, ReadFails
<1>4. ReadingOK'
  <2>1. CASE ReadData
    <3>1. NextFrame \in ServerFrame /\ NextFrame.final \in BOOLEAN
      BY <2>1 DEF ReadData, More, NextFrame, TypeOK, ReadingOK, ServerFrame,
                  FrameType
    <3>2. nread' = nread + 1 /\ nread' \in 1..Len(arrived) /\ begun' \in 1..nread'
      BY <2>1 DEF ReadData, Accept, More, TypeOK, ReadingOK
    <3>3. delivered' \subseteq (1..nread') \X (1..nread')
      <4>1. delivered \subseteq (1..nread') \X (1..nread')
        BY <3>2 DEF TypeOK, ReadingOK
      <4>2. <<begun', nread'>> \in (1..nread') \X (1..nread')
        BY <3>2
      <4> QED BY <2>1, <4>1, <4>2 DEF ReadData
    <3> QED BY <2>1, <3>1, <3>2, <3>3 DEF ReadData, TypeOK, ReadingOK
  <2>2. CASE ReadPingPong \/ ReadLast \/ WriteControl \/ WriteControlTimeout
             \/ ReadFails \/ Close
    BY <2>2 DEF ReadPingPong, ReadLast, WriteControl, WriteControlTimeout,
         ReadFails, Close, Answered, Accept, More, TypeOK, ReadingOK
  <2>3. CASE \E f \in Sends : ServerSends(f)
    BY <2>3 DEF ServerSends, TypeOK, ReadingOK
  <2> QED BY <2>1, <2>2, <2>3 DEF ReaderStep
<1> QED BY <1>1, <1>3, <1>4 DEF TypeOK

\* Every step keeps the types.
LEMMA TypeNext == TypeOK /\ [Next]_vars => TypeOK'
<1> SUFFICES ASSUME TypeOK, [Next]_vars PROVE TypeOK'
  OBVIOUS
<1>1. CASE UNCHANGED vars
  BY <1>1 DEF vars, TypeOK, ConnOK, CallsOK, ReadingOK
<1>2. CASE Next
  BY <1>2, WriterType, ReaderType DEF Next
<1> QED BY <1>1, <1>2

\* Every variable has its type, and the mutex of the connection is held inside
\* c.write and nowhere else.
THEOREM TypeCorrect == Spec => []TypeOK
BY TypeInit, TypeNext, PTL DEF Spec

-----------------------------------------------------------------------------
(* The close frame is the last one: it is noted under the mutex under which *)
(* it is written.                                                          *)

CloseInv ==
  \A i \in 1..Len(wire) : wire[i].kind = "close" => closeSent /\ i = Len(wire)

\* Only the reader writes a close frame, and nothing is written once it is noted.
LEMMA CloseNext == TypeOK /\ CloseInv /\ [Next]_vars => CloseInv'
<1> SUFFICES ASSUME TypeOK, CloseInv, [Next]_vars PROVE CloseInv'
  OBVIOUS
<1>1. wire \in Seq(WireFrame)
  BY DEF TypeOK, ConnOK
<1>2. CASE UNCHANGED <<wire, closeSent>>
  BY <1>2 DEF CloseInv
<1>3. CASE ~ closeSent /\ closeSent' = FALSE
           /\ \E f : wire' = Append(wire, f) /\ f.kind # "close"
  <2>1. PICK f : wire' = Append(wire, f) /\ f.kind # "close"
    BY <1>3
  <2>2. \A i \in 1..Len(wire') : i = Len(wire) + 1 \/ i \in 1..Len(wire)
    BY <1>1, <2>1
  <2>3. wire'[Len(wire) + 1] = f /\ \A i \in 1..Len(wire) : wire'[i] = wire[i]
    BY <1>1, <2>1
  <2> QED BY <1>3, <2>1, <2>2, <2>3 DEF CloseInv
<1>4. CASE WriteControl
  <2>1. CASE UNCHANGED wire
    BY <1>4, <2>1 DEF WriteControl, CloseInv
  <2>2. CASE ~ closeSent /\ wire' = Append(wire, [kind |-> reader])
    <3>1. wire' = Append(wire, [kind |-> reader])
      BY <2>2
    <3>2. \A i \in 1..Len(wire') : i = Len(wire) + 1 \/ i \in 1..Len(wire)
      BY <1>1, <3>1
    <3>3. /\ wire'[Len(wire) + 1].kind = reader /\ Len(wire') = Len(wire) + 1
          /\ \A i \in 1..Len(wire) : wire'[i] = wire[i]
      BY <1>1, <3>1
    <3>4. reader = "close" => closeSent'
      BY <1>4 DEF WriteControl
    <3> QED BY <2>2, <3>2, <3>3, <3>4 DEF CloseInv
  <2> QED BY <1>4, <2>1, <2>2 DEF WriteControl
<1>5. ASSUME NEW w \in Writer, Put(w) PROVE CloseInv'
  <2>1. CASE ~ (open /\ ~ closeSent)
    BY <1>2, <1>5, <2>1 DEF Put
  <2>2. CASE open /\ ~ closeSent
    <3>1. frame[w].kind \in FrameType \cup {NoFrame}
      BY DEF TypeOK, CallsOK, Header
    <3>2. frame[w].kind # "close"
      BY <3>1 DEF FrameType, NoFrame
    <3>3. Send(w) /\ closeSent' = closeSent /\ closeSent \in BOOLEAN
      BY <1>5, <2>2 DEF Put, TypeOK, ConnOK
    <3> DEFINE f == IF raced THEN [kind |-> "mixed"]
                    ELSE [kind |-> frame[w].kind, final |-> frame[w].final,
                          pieces |-> SubSeq(writeBuf, 1, frame[w].len)]
    <3>4. wire' = Append(wire, f)
      BY <3>3 DEF Send
    <3>5. f.kind # "close"
      BY <3>2
    <3>6. closeSent' = FALSE
      BY <2>2, <3>3
    <3> HIDE DEF f
    <3> QED BY <1>3, <2>2, <3>4, <3>5, <3>6
  <2> QED BY <2>1, <2>2
<1>6. ASSUME NEW w \in Writer, NextWriter(w) \/ WriterStep(w), ~ Put(w)
      PROVE  UNCHANGED <<wire, closeSent>>
  BY <1>6 DEF NextWriter, WriterStep, BeginMessage, WriterErr, NCopy, Copy,
              EndMessage, MakeFrame, Lock, Reset
<1>7. CASE ReaderStep /\ ~ WriteControl
  BY <1>2, <1>7 DEF ReaderStep, ReadData, ReadPingPong, ReadLast,
                    WriteControlTimeout, ReadFails
<1>8. CASE Close \/ \E f \in Sends : ServerSends(f)
  BY <1>2, <1>8 DEF Close, ServerSends
<1> QED BY <1>2, <1>4, <1>5, <1>6, <1>7, <1>8 DEF Next, vars

\* Once the close frame is on the wire no writer and no answer of the reader
\* follows it, however many goroutines write.
THEOREM NothingFollowsClose == Spec => []NothingAfterClose
<1>1. Init => CloseInv
  BY DEF Init, CloseInv
<1>2. TypeOK /\ CloseInv => NothingAfterClose
  BY DEF TypeOK, ConnOK, CloseInv, NothingAfterClose
<1> QED BY <1>1, <1>2, CloseNext, TypeCorrect, PTL DEF Spec

-----------------------------------------------------------------------------
(* As long as no two calls overlap, one writer at a time has the buffer and *)
(* writePos stays within it.                                               *)

AloneInv ==
  ~ raced =>
    /\ \A v, w \in Writer : at[v] # "idle" /\ at[w] # "idle" => v = w
    /\ writePos <= BufSize /\ ~ panic
    /\ \A w \in Writer : at[w] = "copy" => writePos < BufSize

\* A call that begins while another is under way sets raced.
LEMMA AloneNext == TypeOK /\ AloneInv /\ [Next]_vars => AloneInv'
<1> SUFFICES ASSUME TypeOK, AloneInv, [Next]_vars, ~ raced' PROVE AloneInv'
  BY DEF AloneInv
<1>1. raced \in BOOLEAN /\ at \in [Writer -> Place] /\ writePos \in Nat
  BY DEF TypeOK, ConnOK, CallsOK
<1>2. CASE UNCHANGED <<raced, at, writePos, panic>>
  BY <1>2 DEF AloneInv
<1>3. ASSUME NEW w \in Writer, NextWriter(w) PROVE AloneInv'
  <2>1. ~ raced /\ \A v \in Writer : at[v] = "idle"
    BY <1>1, <1>3, Zenon DEF NextWriter
  <2>2. \A v \in Writer : v # w => at'[v] = at[v]
    BY <1>1, <1>3 DEF NextWriter, Goto
  <2>3. at'[w] # "copy"
    BY <1>1, <1>3, <2>1 DEF NextWriter, Goto
  <2> QED BY <1>3, <2>1, <2>2, <2>3 DEF NextWriter, AloneInv
<1>4. ASSUME NEW w \in Writer, WriterStep(w) PROVE AloneInv'
  <2>1. raced' = raced /\ at[w] # "idle"
    BY <1>4 DEF WriterStep, BeginMessage, WriterErr, NCopy, Copy, EndMessage,
                MakeFrame, Lock, Put, Reset
  <2>2. \A v \in Writer : v # w => at[v] = "idle"
    BY <2>1 DEF AloneInv
  <2>3. \A v \in Writer : v # w => at'[v] = at[v]
    BY <1>1, <1>4 DEF WriterStep, BeginMessage, WriterErr, NCopy, Copy,
                EndMessage, MakeFrame, Lock, Put, Reset, Goto, Return, Result
  <2>4. \A u, v \in Writer : at'[u] # "idle" /\ at'[v] # "idle" => u = v
    BY <2>2, <2>3
  <2>5. /\ writePos' <= BufSize
        /\ at'[w] = "copy" => writePos' < BufSize
    <3>0. writePos <= BufSize /\ at[w] = "copy" => writePos < BufSize
      BY <2>1 DEF AloneInv
    <3>1. CASE NCopy(w)
      BY <1>1, <2>1, <3>1 DEF NCopy, Goto, AloneInv
    <3>2. CASE Copy(w)
      BY <1>1, <2>1, <3>2 DEF Copy, Goto, AloneInv
    <3>3. CASE Reset(w)
      <4>1. at'[w] # "copy"
        BY <1>1, <3>3 DEF Reset, Goto, Return, TypeOK, CallsOK
      <4> QED BY <3>3, <4>1 DEF Reset
    <3>4. CASE BeginMessage(w) \/ WriterErr(w) \/ EndMessage(w) \/ MakeFrame(w)
               \/ Lock(w) \/ Put(w)
      BY <1>1, <2>1, <3>4 DEF BeginMessage, WriterErr, EndMessage, MakeFrame,
           Lock, Put, Goto, Return, Result, AloneInv
    <3> QED BY <1>4, <3>1, <3>2, <3>3, <3>4 DEF WriterStep
  <2>6. ~ panic'
    <3>1. CASE MakeFrame(w)
      <4>1. writePos <= BufSize
        BY <2>1 DEF AloneInv
      <4>2. ~ (writePos > BufSize)
        BY <1>1, <4>1
      <4> QED BY <3>1, <4>2, Zenon DEF MakeFrame
    <3>2. CASE ~ MakeFrame(w)
      BY <1>4, <2>1, <3>2 DEF WriterStep, BeginMessage, WriterErr, NCopy, Copy,
                EndMessage, Lock, Put, Reset, AloneInv
    <3> QED BY <3>1, <3>2
  <2>7. \A v \in Writer : at'[v] = "copy" => writePos' < BufSize
    BY <2>2, <2>3, <2>5
  <2> QED BY <2>4, <2>5, <2>6, <2>7 DEF AloneInv
<1>5. CASE ReaderStep \/ Close \/ \E f \in Sends : ServerSends(f)
  BY <1>2, <1>5 DEF ReaderStep, ReadData, ReadPingPong, ReadLast, WriteControl,
       WriteControlTimeout, ReadFails, Close, ServerSends
<1> QED BY <1>2, <1>3, <1>4, <1>5 DEF Next, vars

\* Without overlapping calls flushFrame never slices beyond the buffer, for every
\* size of the buffer and of the messages.
THEOREM PanicsOnlyIfRaced == Spec => []PanicIfRaced
<1>1. Init => AloneInv
  BY DEF Init, AloneInv
<1>2. AloneInv => PanicIfRaced
  BY DEF AloneInv, PanicIfRaced
<1> QED BY <1>1, <1>2, AloneNext, TypeCorrect, PTL DEF Spec

-----------------------------------------------------------------------------
(* What is written can be read, as long as no two calls overlap: the pieces *)
(* on the wire, those in the buffer and those still to be copied make up    *)
(* the message of the one writer.                                           *)

\* Piece k of the current message of w, masked m times.
PieceOf(w, k, m) == [by |-> w, nr |-> nr[w], no |-> k, masks |-> m]

\* The pieces that w has copied, and those of them that have been flushed.
Copied(w)  == Size[w] - left[w]
Flushed(w) == Copied(w) - writePos

\* Frame l is the last one on the wire with data.
LastData(l) ==
  IsData(wire[l]) /\ \A k \in DOMAIN wire : k > l => ~ IsData(wire[k])

\* The wire ends with the end of a message, or has none yet; with the first n
\* pieces of the message of w.
AtEnd ==
  \A l \in DOMAIN wire : LastData(l) =>
    LET p == LastPiece(wire[l]) IN p.by \in Writer /\ p.no = Size[p.by]
EndsWith(w, n) ==
  \A l \in DOMAIN wire : LastData(l) => LastPiece(wire[l]) = PieceOf(w, n, 1)
Carries(w, n) == (n = 0 => AtEnd) /\ (n > 0 => EndsWith(w, n))

\* Every frame can be read, and they follow each other.
Frames ==
  /\ \A i \in DOMAIN wire : IsData(wire[i]) => Intact(wire[i])
  /\ \A i, j \in DOMAIN wire :
       Adjacent(i, j) => Follows(LastPiece(wire[i]), FirstPiece(wire[j]))

\* Inside flushFrame with the pieces masked; inside a message.
Masking == {"lock", "put"}
Within  == {"write", "ncopy", "copy", "flush", "flushFinal"} \cup Masking

\* Where w is in its message, up to the moment a frame is on the wire ...
MessageInv(w) ==
  /\ left[w] <= Size[w] /\ writePos <= Copied(w) /\ seq[w] = writeSeq
  /\ writeFrameType = IF Flushed(w) = 0 THEN "text" ELSE "continuation"
  /\ Carries(w, Flushed(w))
  /\ \A i \in 1..writePos :
       writeBuf[i] = PieceOf(w, Flushed(w) + i, IF at[w] \in Masking THEN 1 ELSE 0)
  /\ at[w] = "write" => writePos = 0 /\ left[w] > 0
  /\ at[w] = "ncopy" => writePos > 0 \/ left[w] > 0
  /\ at[w] = "flush" => writePos > 0 /\ left[w] > 0 /\ then[w] = "ncopy"
  /\ at[w] = "flushFinal" => writePos > 0 /\ left[w] = 0 /\ then[w] = "idle"
  /\ at[w] \in Masking =>
       /\ writePos > 0
       /\ frame[w] = [kind |-> writeFrameType, final |-> left[w] = 0,
                      len |-> writePos]
       /\ then[w] = IF left[w] = 0 THEN "idle" ELSE "ncopy"

\* ... and until flushFrame has reset the buffer.
PutInv(w) ==
  /\ left[w] < Size[w] /\ seq[w] = writeSeq /\ EndsWith(w, Copied(w))
  /\ frame[w].final <=> left[w] = 0
  /\ then[w] = IF left[w] = 0 THEN "idle" ELSE "ncopy"

\* After an error nobody writes any more.
QuietInv ==
  /\ \A w \in Writer : at[w] # "idle" => ~ writeErr
  /\ (\A w \in Writer : at[w] = "idle") /\ ~ writeErr =>
       AtEnd /\ writePos = 0 /\ writeFrameType = NoFrame

\* Where every writer is, and what the wire has of its message.
WireInv ==
  /\ Frames /\ QuietInv
  /\ \A w \in Writer : /\ at[w] = "begin" => AtEnd /\ writePos = 0
                       /\ at[w] \in Within => MessageInv(w)
                       /\ at[w] = "reset" => PutInv(w)

IntactInv == ~ raced => WireInv

\* The last frame with data stays the last one.
LastKept ==
  \A l \in DOMAIN wire' : LastData(l)' =>
    l \in DOMAIN wire /\ LastData(l) /\ wire'[l] = wire[l]

\* A frame without data changes neither what the frames say nor which one is the
\* last with data.
LEMMA ControlFrame ==
  ASSUME wire \in Seq(WireFrame), NEW f, ~ IsData(f), wire' = Append(wire, f),
         Frames
  PROVE  Frames' /\ LastKept
<1> DEFINE n == Len(wire)
<1>1. /\ n \in Nat /\ DOMAIN wire = 1..n /\ DOMAIN wire' = 1..(n + 1)
      /\ wire'[n + 1] = f /\ \A i \in 1..n : wire'[i] = wire[i]
  OBVIOUS
<1> HIDE DEF n
<1>2. \A i \in 1..(n + 1) : i = n + 1 \/ i \in 1..n
  BY <1>1
<1>3. \A i \in DOMAIN wire' : IsData(wire'[i]) => i \in 1..n /\ wire'[i] = wire[i]
  BY <1>1, <1>2
<1>4. LastKept
  <2> SUFFICES ASSUME NEW l \in DOMAIN wire', LastData(l)'
               PROVE  l \in DOMAIN wire /\ LastData(l) /\ wire'[l] = wire[l]
    BY DEF LastKept
  <2>1. l \in 1..n /\ wire'[l] = wire[l]
    BY <1>3 DEF LastData
  <2>2. \A k \in 1..n : k \in DOMAIN wire' /\ wire'[k] = wire[k]
    BY <1>1
  <2> QED BY <1>1, <2>1, <2>2 DEF LastData, IsData
<1>5. Frames'
  <2>1. ASSUME NEW i \in DOMAIN wire', IsData(wire'[i]) PROVE Intact(wire'[i])
    BY <1>1, <1>3, <2>1 DEF Frames
  <2>2. ASSUME NEW i \in DOMAIN wire', NEW j \in DOMAIN wire', Adjacent(i, j)'
        PROVE  Follows(LastPiece(wire'[i]), FirstPiece(wire'[j]))
    <3>1. /\ i \in 1..n /\ j \in 1..n /\ wire'[i] = wire[i] /\ wire'[j] = wire[j]
      BY <1>3, <2>2 DEF Adjacent
    <3>2. \A k \in (i + 1)..(j - 1) : wire'[k] = wire[k]
      BY <1>1, <3>1
    <3>3. Adjacent(i, j)
      BY <2>2, <3>1, <3>2 DEF Adjacent, IsData
    <3> QED BY <1>1, <3>1, <3>3 DEF Frames
  <2> QED BY <2>1, <2>2 DEF Frames, Adjacent, IsData, Intact, Masked, Follows,
                           LastPiece, FirstPiece
<1> QED BY <1>4, <1>5

\* An intact frame that continues where the last one with data ends.
LEMMA DataFrame ==
  ASSUME wire \in Seq(WireFrame), NEW f, wire' = Append(wire, f),
         Frames, IsData(f), Intact(f),
         \A l \in DOMAIN wire : LastData(l) =>
           Follows(LastPiece(wire[l]), FirstPiece(f))
  PROVE  Frames' /\ \A l \in DOMAIN wire' : LastData(l)' => wire'[l] = f
<1> DEFINE n == Len(wire)
<1>1. /\ n \in Nat /\ DOMAIN wire = 1..n /\ DOMAIN wire' = 1..(n + 1)
      /\ wire'[n + 1] = f /\ \A i \in 1..n : wire'[i] = wire[i]
  OBVIOUS
<1> HIDE DEF n
<1>2. \A i \in 1..(n + 1) : i = n + 1 \/ i \in 1..n
  BY <1>1
<1>3. ASSUME NEW l \in DOMAIN wire', LastData(l)' PROVE wire'[l] = f
  <2>1. CASE l \in 1..n
    <3>1. n + 1 \in DOMAIN wire' /\ n + 1 > l
      BY <1>1, <2>1
    <3> QED BY <1>1, <1>3, <3>1 DEF LastData, IsData
  <2> QED BY <1>1, <1>2, <2>1
<1>4. ASSUME NEW i \in DOMAIN wire', IsData(wire'[i]) PROVE Intact(wire'[i])
  BY <1>1, <1>2, <1>4 DEF Frames
<1>5. ASSUME NEW i \in DOMAIN wire', NEW j \in DOMAIN wire', Adjacent(i, j)'
      PROVE  Follows(LastPiece(wire'[i]), FirstPiece(wire'[j]))
  <2>1. i \in 1..n /\ wire'[i] = wire[i] /\ i < j
    BY <1>1, <1>5 DEF Adjacent
  <2>2. CASE j \in 1..n
    <3>1. \A k \in (i + 1)..(j - 1) : wire'[k] = wire[k]
      BY <1>1, <2>1, <2>2
    <3>2. Adjacent(i, j) /\ wire'[j] = wire[j]
      BY <1>1, <1>5, <2>1, <2>2, <3>1 DEF Adjacent, IsData
    <3> QED BY <1>1, <2>1, <2>2, <3>2 DEF Frames
  <2>3. CASE j = n + 1
    <3>1. \A k \in 1..n : k > i => k \in (i + 1)..(j - 1) /\ wire'[k] = wire[k]
      BY <1>1, <2>1, <2>3
    <3>2. LastData(i)
      BY <1>1, <1>5, <2>1, <3>1 DEF Adjacent, LastData, IsData
    <3> QED BY <1>1, <2>1, <2>3, <3>2
  <2> QED BY <1>1, <1>2, <2>2, <2>3
<1>6. Frames'
  BY <1>4, <1>5 DEF Frames, Adjacent, IsData, Intact, Masked, Follows, LastPiece,
                    FirstPiece
<1> QED BY <1>3, <1>6

\* The wire ends with a message as before.
LEMMA EndKept == ASSUME LastKept PROVE AtEnd => AtEnd'
BY DEF LastKept, AtEnd, LastPiece

\* A wire that stays keeps all of it.
LEMMA WireSame ==
  ASSUME wire' = wire PROVE LastKept /\ (Frames => Frames')
<1>1. LastKept
  BY DEF LastKept, LastData, IsData
<1>2. Frames => Frames'
  BY DEF Frames, Adjacent
<1> QED BY <1>1, <1>2

\* What w has flushed is what the wire ends with.
LEMMA CarriesKept ==
  ASSUME LastKept, NEW w \in Writer, nr' = nr, Flushed(w)' = Flushed(w),
         Carries(w, Flushed(w))
  PROVE  Carries(w, Flushed(w))'
<1>1. PICK n : n = Flushed(w)
  OBVIOUS
<1>2. Carries(w, n)
  BY <1>1
<1>3. Carries(w, n)'
  <2>1. EndsWith(w, n) => EndsWith(w, n)'
    BY DEF LastKept, EndsWith, LastPiece, PieceOf
  <2> QED BY <1>2, <2>1, EndKept DEF Carries
<1> QED BY <1>1, <1>3 DEF Carries, EndsWith

\* WireInv as it looks from the only writer that is not idle.
AboutWriter(w) ==
  /\ at[w] # "idle" => ~ writeErr
  /\ at[w] = "idle" /\ ~ writeErr =>
       AtEnd /\ writePos = 0 /\ writeFrameType = NoFrame
  /\ at[w] = "begin" => AtEnd /\ writePos = 0
  /\ at[w] \in Within => MessageInv(w)
  /\ at[w] = "reset" => PutInv(w)

\* One writer's view is enough.
LEMMA OnlyWriter ==
  ASSUME NEW w \in Writer, \A v \in Writer : v # w => at'[v] = "idle",
         Frames', AboutWriter(w)'
  PROVE  WireInv'
<1>1. at'[w] # "idle" => ~ writeErr'
  BY DEF AboutWriter
<1>2. at'[w] = "idle" /\ ~ writeErr' =>
       AtEnd' /\ writePos' = 0 /\ writeFrameType' = NoFrame
  BY DEF AboutWriter
<1>3. QuietInv'
  <2>1. \A v \in Writer : at'[v] # "idle" => ~ writeErr'
    BY <1>1
  <2> QED BY <1>2, <2>1 DEF QuietInv
<1>4. ASSUME NEW v \in Writer
      PROVE  /\ at'[v] = "begin" => AtEnd' /\ writePos' = 0
             /\ at'[v] \in Within => MessageInv(v)'
             /\ at'[v] = "reset" => PutInv(v)'
  <2>1. CASE v = w
    BY <2>1 DEF AboutWriter
  <2>2. CASE v # w
    BY <2>2 DEF Within, Masking
  <2> QED BY <2>1, <2>2
<1> QED BY <1>3, <1>4 DEF WireInv

\* The sizes in the message of w.
LEMMA Sizes ==
  ASSUME TypeOK, NEW w \in Writer
  PROVE  /\ Size[w] \in Nat /\ Size[w] > 0 /\ left[w] \in Nat /\ writePos \in Nat
         /\ Copied(w) = Size[w] - left[w] /\ Copied(w) \in Int
         /\ Flushed(w) = Copied(w) - writePos /\ Flushed(w) \in Int
BY DEF TypeOK, ConnOK, CallsOK, Copied, Flushed

\* A call begins when everybody else is idle.
LEMMA NextWriterWire ==
  ASSUME TypeOK, WireInv, NEW w \in Writer, NextWriter(w), ~ raced'
  PROVE  WireInv'
<1>1. \A v \in Writer : at[v] = "idle"
  BY DEF NextWriter
<1>2. at' \in [Writer -> Place] /\ at \in [Writer -> Place] /\ writeErr \in BOOLEAN
  BY DEF TypeOK, CallsOK, ConnOK, NextWriter, Goto, Place
<1>3. \A v \in Writer : v # w => at'[v] = "idle"
  BY <1>1, <1>2 DEF NextWriter, Goto
<1>4. UNCHANGED <<writeErr, writePos, writeFrameType, wire>>
  BY DEF NextWriter
<1>5. Frames' /\ (AtEnd => AtEnd')
  BY <1>4, WireSame, EndKept DEF WireInv
<1>6. CASE writeErr /\ at' = at
  <2>1. AboutWriter(w)'
    BY <1>1, <1>4, <1>6 DEF AboutWriter, Within, Masking
  <2> QED BY <1>3, <1>5, <2>1, OnlyWriter
<1>7. CASE ~ writeErr
  <2>1. AtEnd /\ writePos = 0 /\ writeFrameType = NoFrame
    BY <1>1, <1>7 DEF WireInv, QuietInv
  <2>2. at'[w] = "begin"
    BY <1>2, <1>7, <2>1 DEF NextWriter, Goto
  <2>3. AboutWriter(w)'
    BY <1>4, <1>5, <1>7, <2>1, <2>2 DEF AboutWriter, Within, Masking
  <2> QED BY <1>3, <1>5, <2>3, OnlyWriter
<1> QED BY <1>2, <1>6, <1>7 DEF NextWriter

\* A step of w leaves the others where they are: idle.
LEMMA OthersIdle ==
  ASSUME TypeOK, AloneInv, ~ raced, NEW w \in Writer, WriterStep(w)
  PROVE  /\ \A v \in Writer : v # w => at'[v] = "idle"
         /\ at[w] # "idle" /\ nr' = nr
         /\ \A l : at' = [at EXCEPT ![w] = l] => at'[w] = l
<1>1. at \in [Writer -> Place]
  BY DEF TypeOK, CallsOK
<1>2. at[w] # "idle" /\ nr' = nr
  BY DEF WriterStep, BeginMessage, WriterErr, NCopy, Copy, EndMessage, MakeFrame,
         Lock, Put, Reset
<1>3. \A v \in Writer : v # w => at'[v] = at[v]
  BY <1>1 DEF WriterStep, BeginMessage, WriterErr, NCopy, Copy, EndMessage,
         MakeFrame, Lock, Put, Reset, Goto, Return, Result
<1> QED BY <1>1, <1>2, <1>3 DEF AloneInv

\* The messageWriter begins with nothing copied.
LEMMA BeginWire ==
  ASSUME TypeOK, AloneInv, WireInv, ~ raced, NEW w \in Writer, BeginMessage(w)
  PROVE  WireInv'
<1>1. /\ \A v \in Writer : v # w => at'[v] = "idle"
      /\ at[w] = "begin" /\ at'[w] = "write" /\ nr' = nr
  BY OthersIdle DEF WriterStep, BeginMessage, Goto
<1>2. AtEnd /\ writePos = 0 /\ ~ writeErr
  BY <1>1 DEF WireInv, QuietInv
<1>3. /\ writeFrameType' = "text" /\ seq'[w] = writeSeq /\ left'[w] = Size[w]
      /\ UNCHANGED <<writePos, writeSeq, writeErr, wire>>
  BY DEF BeginMessage, TypeOK, CallsOK
<1>4. Frames' /\ AtEnd'
  BY <1>2, <1>3, WireSame, EndKept DEF WireInv
<1>5. MessageInv(w)'
  <2>1. Size[w] \in Nat /\ Size[w] > 0
    BY Sizes
  <2>2. Copied(w)' = 0 /\ Flushed(w)' = 0
    BY <1>2, <1>3, <2>1 DEF Copied, Flushed
  <2>3. Carries(w, Flushed(w))'
    BY <1>4, <2>2 DEF Carries
  <2> QED BY <1>1, <1>2, <1>3, <2>1, <2>2, <2>3 DEF MessageInv, Masking
<1>6. AboutWriter(w)'
  BY <1>1, <1>2, <1>3, <1>5 DEF AboutWriter
<1> QED BY <1>1, <1>4, <1>6, OnlyWriter

\* Nobody else has begun a message, and there was no error: it goes on.
LEMMA WriterErrWire ==
  ASSUME TypeOK, AloneInv, WireInv, ~ raced, NEW w \in Writer, WriterErr(w)
  PROVE  WireInv'
<1>1. /\ \A v \in Writer : v # w => at'[v] = "idle"
      /\ at[w] = "write" /\ nr' = nr
  BY OthersIdle DEF WriterStep, WriterErr
<1>2. MessageInv(w) /\ ~ writeErr
  BY <1>1 DEF WireInv, QuietInv, Within
<1>3. /\ at'[w] = "ncopy"
      /\ UNCHANGED <<left, seq, writePos, writeSeq, writeErr, wire, writeBuf,
                     writeFrameType>>
  BY <1>2 DEF WriterErr, MessageInv, Goto, TypeOK, CallsOK
<1>4. LastKept /\ Frames'
  BY <1>3, WireSame DEF WireInv
<1>5. MessageInv(w)'
  <2>1. Copied(w)' = Copied(w) /\ Flushed(w)' = Flushed(w)
    BY <1>3 DEF Copied, Flushed
  <2>4. Carries(w, Flushed(w))'
    <3>1. Carries(w, Flushed(w))
      BY <1>2 DEF MessageInv
    <3> QED BY <1>1, <1>4, <2>1, <3>1, CarriesKept
  <2>5. \A i \in 1..writePos' : FALSE
    BY <1>1, <1>2, <1>3 DEF MessageInv
  <2> QED BY <1>1, <1>2, <1>3, <2>1, <2>4, <2>5 DEF MessageInv, Masking
<1>6. AboutWriter(w)'
  BY <1>2, <1>3, <1>5 DEF AboutWriter
<1> QED BY <1>1, <1>4, <1>6, OnlyWriter

\* A step inside the message that leaves the wire and the positions alone.
LEMMA Onward ==
  ASSUME WireInv, NEW w \in Writer, MessageInv(w), nr' = nr,
         UNCHANGED <<left, seq, writePos, writeSeq, writeFrameType, wire>>
  PROVE  /\ Frames' /\ Copied(w)' = Copied(w) /\ Flushed(w)' = Flushed(w)
         /\ left'[w] <= Size[w] /\ writePos' <= Copied(w)' /\ seq'[w] = writeSeq'
         /\ writeFrameType' = IF Flushed(w)' = 0 THEN "text" ELSE "continuation"
         /\ Carries(w, Flushed(w))'
<1>1. Frames' /\ LastKept
  BY WireSame DEF WireInv
<1>2. Copied(w)' = Copied(w) /\ Flushed(w)' = Flushed(w)
  BY DEF Copied, Flushed
<1>3. Carries(w, Flushed(w))
  BY DEF MessageInv
<1>4. Carries(w, Flushed(w))'
  BY <1>1, <1>2, <1>3, CarriesKept
<1>5. /\ left[w] <= Size[w] /\ writePos <= Copied(w) /\ seq[w] = writeSeq
      /\ writeFrameType = IF Flushed(w) = 0 THEN "text" ELSE "continuation"
  BY DEF MessageInv
<1> QED BY <1>1, <1>2, <1>4, <1>5

\* There is room, or the full buffer is flushed.
LEMMA NCopyWire ==
  ASSUME TypeOK, AloneInv, WireInv, ~ raced, NEW w \in Writer, NCopy(w)
  PROVE  WireInv'
<1>1. /\ \A v \in Writer : v # w => at'[v] = "idle"
      /\ at[w] = "ncopy" /\ left[w] > 0 /\ nr' = nr
  BY OthersIdle DEF WriterStep, NCopy
<1>2. MessageInv(w) /\ ~ writeErr
  BY <1>1 DEF WireInv, QuietInv, Within
<1>3. UNCHANGED <<left, seq, frame, writePos, writeSeq, writeErr, wire, writeBuf,
                  writeFrameType>>
  BY DEF NCopy
<1>4. \/ at'[w] = "copy"
      \/ at'[w] = "flush" /\ then'[w] = "ncopy" /\ writePos > 0
  BY DEF NCopy, Goto, TypeOK, CallsOK, ConnOK
<1>5. MessageInv(w)'
  <2>1. \A i \in 1..writePos' : writeBuf'[i] = PieceOf(w, Flushed(w) + i, 0)'
    BY <1>1, <1>2, <1>3, Onward DEF MessageInv, Masking, PieceOf
  <2> QED BY <1>1, <1>2, <1>3, <1>4, <2>1, Onward DEF MessageInv, Masking
<1>6. AboutWriter(w)'
  BY <1>2, <1>3, <1>4, <1>5 DEF AboutWriter
<1> QED BY <1>1, <1>2, <1>3, <1>6, OnlyWriter, Onward

\* The next piece goes behind those that are in the buffer.
LEMMA CopyWire ==
  ASSUME TypeOK, AloneInv, WireInv, ~ raced, NEW w \in Writer, Copy(w)
  PROVE  WireInv'
<1>1. /\ \A v \in Writer : v # w => at'[v] = "idle"
      /\ at[w] = "copy" /\ at'[w] = "ncopy" /\ nr' = nr
  BY OthersIdle DEF WriterStep, Copy, Goto
<1>2. MessageInv(w) /\ ~ writeErr /\ left[w] > 0 /\ writePos < BufSize
  BY <1>1 DEF WireInv, QuietInv, Within, TypeOK, CallsOK, AloneInv
<1>3. /\ UNCHANGED <<seq, frame, writeSeq, writeErr, wire, writeFrameType>>
      /\ writePos' = writePos + 1 /\ left'[w] = left[w] - 1
      /\ writeBuf' = [writeBuf EXCEPT ![writePos + 1] = PieceOf(w, Copied(w) + 1, 0)]
  BY <1>2 DEF Copy, TypeOK, CallsOK, PieceOf, Copied
<1>4. LastKept /\ Frames'
  BY <1>3, WireSame DEF WireInv
<1>5. /\ Size[w] \in Nat /\ left[w] \in Nat /\ writePos \in Nat
      /\ Copied(w) = Size[w] - left[w] /\ Flushed(w) = Copied(w) - writePos
  BY Sizes
<1>6. Copied(w)' = Copied(w) + 1 /\ Flushed(w)' = Flushed(w)
  <2>1. Copied(w)' = Size[w] - left'[w] /\ Flushed(w)' = Copied(w)' - writePos'
    BY DEF Copied, Flushed
  <2> QED BY <1>3, <1>5, <2>1
<1>7. Carries(w, Flushed(w))'
  <2>1. Carries(w, Flushed(w))
    BY <1>2 DEF MessageInv
  <2> QED BY <1>1, <1>4, <1>6, <2>1, CarriesKept
<1>8. \A i \in 1..writePos' : writeBuf'[i] = PieceOf(w, Flushed(w) + i, 0)'
  <2> SUFFICES ASSUME NEW i \in 1..(writePos + 1)
               PROVE  writeBuf'[i] = PieceOf(w, Flushed(w) + i, 0)
    BY <1>1, <1>3, <1>6 DEF PieceOf
  <2>1. writeBuf \in [1..BufSize -> Piece] /\ BufSize \in Nat
    BY DEF TypeOK, ConnOK
  <2>2. CASE i = writePos + 1
    <3>1. Flushed(w) + i = Copied(w) + 1 /\ i \in 1..BufSize
      BY <1>2, <1>5, <2>1, <2>2
    <3> QED BY <1>3, <2>1, <2>2, <3>1
  <2>3. CASE i # writePos + 1
    <3>1. i \in 1..writePos
      BY <1>5, <2>3
    <3>2. writeBuf[i] = PieceOf(w, Flushed(w) + i, 0)
      BY <1>1, <1>2, <3>1 DEF MessageInv, Masking
    <3> QED BY <1>3, <2>1, <2>3, <3>2
  <2> QED BY <2>2, <2>3
<1>9. MessageInv(w)'
  <2>1. /\ left[w] <= Size[w] /\ writePos <= Copied(w) /\ seq[w] = writeSeq
        /\ writeFrameType = IF Flushed(w) = 0 THEN "text" ELSE "continuation"
    BY <1>2 DEF MessageInv
  <2>2. /\ left'[w] <= Size[w] /\ writePos' <= Copied(w)' /\ seq'[w] = writeSeq'
        /\ writeFrameType' = IF Flushed(w)' = 0 THEN "text" ELSE "continuation"
        /\ writePos' > 0
    BY <1>3, <1>5, <1>6, <2>1
  <2> QED BY <1>1, <1>7, <1>8, <2>2 DEF MessageInv, Masking
<1>10. AboutWriter(w)'
  BY <1>1, <1>2, <1>3, <1>9 DEF AboutWriter
<1> QED BY <1>1, <1>4, <1>10, OnlyWriter

\* Everything is copied, and nobody else has begun a message.
LEMMA EndWire ==
  ASSUME TypeOK, AloneInv, WireInv, ~ raced, NEW w \in Writer, EndMessage(w)
  PROVE  WireInv'
<1>1. /\ \A v \in Writer : v # w => at'[v] = "idle"
      /\ at[w] = "ncopy" /\ left[w] = 0 /\ nr' = nr
  BY OthersIdle DEF WriterStep, EndMessage
<1>2. MessageInv(w) /\ ~ writeErr
  BY <1>1 DEF WireInv, QuietInv, Within
<1>3. /\ at'[w] = "flushFinal" /\ then'[w] = "idle"
      /\ UNCHANGED <<left, seq, frame, writePos, writeSeq, writeErr, wire, writeBuf,
                     writeFrameType>>
  BY <1>2 DEF EndMessage, MessageInv, Goto, TypeOK, CallsOK
<1>4. writePos > 0
  BY <1>1, <1>2 DEF MessageInv
<1>5. MessageInv(w)'
  <2>1. \A i \in 1..writePos' : writeBuf'[i] = PieceOf(w, Flushed(w) + i, 0)'
    BY <1>1, <1>2, <1>3, Onward DEF MessageInv, Masking, PieceOf
  <2> QED BY <1>1, <1>2, <1>3, <1>4, <2>1, Onward DEF MessageInv, Masking
<1>6. AboutWriter(w)'
  BY <1>2, <1>3, <1>5 DEF AboutWriter
<1> QED BY <1>1, <1>2, <1>3, <1>6, OnlyWriter, Onward

\* The header says what is in the buffer, and every piece is masked once.
LEMMA MakeFrameWire ==
  ASSUME TypeOK, AloneInv, WireInv, ~ raced, NEW w \in Writer, MakeFrame(w)
  PROVE  WireInv'
<1>1. /\ \A v \in Writer : v # w => at'[v] = "idle"
      /\ at[w] \in {"flush", "flushFinal"} /\ at'[w] = "lock" /\ nr' = nr
  BY OthersIdle DEF WriterStep, MakeFrame, Goto
<1>2. MessageInv(w) /\ ~ writeErr /\ writePos <= BufSize /\ writePos \in Nat
  BY <1>1 DEF WireInv, QuietInv, Within, AloneInv, TypeOK, ConnOK
<1>3. UNCHANGED <<left, seq, then, writePos, writeSeq, writeErr, wire,
                  writeFrameType>>
  BY DEF MakeFrame
<1>4. frame'[w] = [kind |-> writeFrameType, final |-> at[w] = "flushFinal",
                   len |-> writePos]
  BY DEF MakeFrame, TypeOK, CallsOK
<1>5. /\ writePos > 0 /\ then[w] = IF left[w] = 0 THEN "idle" ELSE "ncopy"
      /\ (at[w] = "flushFinal") <=> (left[w] = 0)
  BY <1>1, <1>2 DEF MessageInv
<1>6. frame'[w] = [kind |-> writeFrameType, final |-> left[w] = 0,
                   len |-> writePos]
  <2>1. (at[w] = "flushFinal") = (left[w] = 0)
    BY <1>5
  <2> QED BY <1>4, <2>1, Zenon
<1>7. \A i \in 1..writePos' : writeBuf'[i] = PieceOf(w, Flushed(w) + i, 1)'
  <2> SUFFICES ASSUME NEW i \in 1..writePos
               PROVE  writeBuf'[i] = PieceOf(w, Flushed(w) + i, 1)
    BY <1>1, <1>2, <1>3, Onward DEF PieceOf
  <2>1. i \in 1..BufSize /\ i <= writePos
    BY <1>2
  <2>2. writeBuf[i] = PieceOf(w, Flushed(w) + i, 0)
    BY <1>1, <1>2 DEF MessageInv, Masking
  <2>3. writeBuf'[i] = [writeBuf[i] EXCEPT !.masks = Again(@)]
    BY <2>1, Zenon DEF MakeFrame
  <2> QED BY <2>2, <2>3 DEF PieceOf, Again
<1>8. MessageInv(w)'
  <2>1. /\ writePos' > 0 /\ then'[w] = IF left'[w] = 0 THEN "idle" ELSE "ncopy"
        /\ frame'[w] = [kind |-> writeFrameType', final |-> left'[w] = 0,
                        len |-> writePos']
    BY <1>3, <1>5, <1>6
  <2> QED BY <1>1, <1>2, <1>3, <1>7, <2>1, Onward DEF MessageInv, Masking
<1>9. AboutWriter(w)'
  BY <1>1, <1>2, <1>3, <1>8 DEF AboutWriter
<1> QED BY <1>1, <1>2, <1>3, <1>9, OnlyWriter, Onward

\* Waiting for the mutex changes nothing.
LEMMA LockWire ==
  ASSUME TypeOK, AloneInv, WireInv, ~ raced, NEW w \in Writer, Lock(w)
  PROVE  WireInv'
<1>1. /\ \A v \in Writer : v # w => at'[v] = "idle"
      /\ at[w] = "lock" /\ at'[w] = "put" /\ nr' = nr
  BY OthersIdle DEF WriterStep, Lock, Goto
<1>2. MessageInv(w) /\ ~ writeErr
  BY <1>1 DEF WireInv, QuietInv, Within, Masking
<1>3. UNCHANGED <<left, seq, frame, then, writePos, writeSeq, writeErr, wire,
                  writeBuf, writeFrameType>>
  BY DEF Lock
<1>4. \A i \in 1..writePos' : writeBuf'[i] = PieceOf(w, Flushed(w) + i, 1)'
  BY <1>1, <1>2, <1>3, Onward DEF MessageInv, Masking, PieceOf
<1>5. MessageInv(w)'
  <2>1. /\ writePos' > 0 /\ then'[w] = IF left'[w] = 0 THEN "idle" ELSE "ncopy"
        /\ frame'[w] = [kind |-> writeFrameType', final |-> left'[w] = 0,
                        len |-> writePos']
    BY <1>1, <1>2, <1>3 DEF MessageInv, Masking
  <2> QED BY <1>1, <1>2, <1>3, <1>4, <2>1, Onward DEF MessageInv, Masking
<1>6. AboutWriter(w)'
  BY <1>1, <1>2, <1>3, <1>5 DEF AboutWriter
<1> QED BY <1>1, <1>2, <1>3, <1>6, OnlyWriter, Onward

\* The frame that flushFrame has made of the pieces in the buffer.
FrameOf(w) ==
  [kind |-> writeFrameType, final |-> left[w] = 0,
   pieces |-> SubSeq(writeBuf, 1, writePos)]

\* It can be read, it follows the last one, and it ends with the last piece copied.
LEMMA FrameIntact ==
  ASSUME TypeOK, AloneInv, ~ raced, NEW w \in Writer, MessageInv(w), at[w] = "put"
  PROVE  /\ IsData(FrameOf(w)) /\ Intact(FrameOf(w))
         /\ LastPiece(FrameOf(w)) = PieceOf(w, Copied(w), 1)
         /\ \A l \in DOMAIN wire : LastData(l) =>
              Follows(LastPiece(wire[l]), FirstPiece(FrameOf(w)))
<1> DEFINE f == FrameOf(w)
           p == SubSeq(writeBuf, 1, writePos)
<1>1. /\ f.kind = writeFrameType /\ f.final = (left[w] = 0) /\ f.pieces = p
  BY DEF FrameOf
<1>2. /\ Size[w] \in Nat /\ Size[w] > 0 /\ left[w] \in Nat
      /\ writePos \in Nat /\ writePos > 0
      /\ Copied(w) = Size[w] - left[w] /\ Flushed(w) = Copied(w) - writePos
      /\ Flushed(w) >= 0 /\ Flushed(w) \in Int /\ Copied(w) \in Int
  <2>1. writePos > 0 /\ writePos <= Copied(w)
    BY DEF MessageInv, Masking
  <2> QED BY <2>1, Sizes
<1>3. Len(p) = writePos /\ \A i \in 1..writePos : p[i] = PieceOf(w, Flushed(w) + i, 1)
  <2>1. writeBuf \in Seq(Piece) /\ Len(writeBuf) = BufSize /\ writePos <= BufSize
    BY DEF TypeOK, ConnOK, AloneInv
  <2>2. Len(p) = writePos /\ \A i \in 1..writePos : p[i] = writeBuf[i]
    BY <1>2, <2>1
  <2> HIDE DEF p
  <2> QED BY <2>2 DEF MessageInv, Masking
<1>4. writeFrameType = IF Flushed(w) = 0 THEN "text" ELSE "continuation"
  BY DEF MessageInv
<1> HIDE DEF f, p
<1>5. IsData(f)
  BY <1>1, <1>4 DEF IsData, FrameType
<1>6. FirstPiece(f) = PieceOf(w, Flushed(w) + 1, 1)
  BY <1>1, <1>2, <1>3 DEF FirstPiece
<1>7. LastPiece(f) = PieceOf(w, Copied(w), 1)
  <2>1. Flushed(w) + writePos = Copied(w)
    BY <1>2
  <2> QED BY <1>1, <1>2, <1>3, <2>1 DEF LastPiece
<1>8. Intact(f)
  <2>1. f.pieces # <<>>
    BY <1>1, <1>2, <1>3
  <2>2. Masked(f)
    <3>1. DOMAIN p = 1..writePos
      BY <1>3, <1>2 DEF p, TypeOK, ConnOK
    <3> QED BY <1>1, <1>3, <3>1 DEF Masked, PieceOf
  <2>3. f.kind = "text" <=> FirstPiece(f).no = 1
    BY <1>1, <1>2, <1>4, <1>6 DEF PieceOf
  <2>4. f.final <=> LastPiece(f).no = Size[LastPiece(f).by]
    <3>1. LastPiece(f).no = Size[LastPiece(f).by] <=> left[w] = 0
      BY <1>2, <1>7 DEF PieceOf
    <3>2. f.final = (left[w] = 0)
      BY <1>1
    <3> QED BY <3>1, <3>2, Zenon
  <2>5. ASSUME NEW k \in 2..Len(f.pieces)
        PROVE  Follows(f.pieces[k - 1], f.pieces[k])
    <3>1. k \in Int /\ k - 1 \in 1..writePos /\ k \in 1..writePos
      BY <1>1, <1>2, <1>3
    <3>2. /\ p[k - 1] = PieceOf(w, Flushed(w) + (k - 1), 1)
          /\ p[k] = PieceOf(w, Flushed(w) + k, 1)
      BY <1>3, <3>1
    <3>3. /\ Flushed(w) + (k - 1) < Size[w]
          /\ (Flushed(w) + (k - 1)) + 1 = Flushed(w) + k
      BY <1>2, <3>1
    <3> QED BY <1>1, <3>2, <3>3 DEF Follows, PieceOf
  <2> QED BY <2>1, <2>2, <2>3, <2>4, <2>5 DEF Intact
<1>9. ASSUME NEW l \in DOMAIN wire, LastData(l)
      PROVE  Follows(LastPiece(wire[l]), FirstPiece(f))
  <2>1. CASE Flushed(w) = 0
    <3>1. AtEnd
      BY <2>1 DEF MessageInv, Carries
    <3>2. LastPiece(wire[l]).no = Size[LastPiece(wire[l]).by]
          /\ LastPiece(wire[l]).by \in Writer
      BY <1>9, <3>1 DEF AtEnd
    <3>3. FirstPiece(f).no = 1
      BY <1>6, <2>1 DEF PieceOf
    <3> QED BY <3>2, <3>3 DEF Follows
  <2>2. CASE Flushed(w) > 0
    <3>1. LastPiece(wire[l]) = PieceOf(w, Flushed(w), 1)
      BY <1>9, <2>2 DEF MessageInv, Carries, EndsWith
    <3>2. Flushed(w) < Size[w]
      BY <1>2
    <3> QED BY <1>6, <3>1, <3>2 DEF Follows, PieceOf
  <2> QED BY <1>2, <2>1, <2>2
<1> QED BY <1>5, <1>7, <1>8, <1>9 DEF f

\* The frame goes out behind the last one with data, or the message is given up.
LEMMA PutWire ==
  ASSUME TypeOK, AloneInv, WireInv, ~ raced, NEW w \in Writer, Put(w)
  PROVE  WireInv'
<1>1. /\ \A v \in Writer : v # w => at'[v] = "idle"
      /\ at[w] = "put" /\ nr' = nr
  BY OthersIdle DEF WriterStep, Put
<1>2. MessageInv(w) /\ ~ writeErr
  BY <1>1 DEF WireInv, QuietInv, Within, Masking
<1>3. UNCHANGED <<left, seq, frame, then, writeSeq, writeErr>>
  BY DEF Put
<1>4. CASE ~ (open /\ ~ closeSent)
  <2>1. at'[w] = "resetErr" /\ wire' = wire
    BY <1>4 DEF Put, Result, Goto, TypeOK, CallsOK
  <2>2. AboutWriter(w)'
    BY <1>2, <1>3, <2>1 DEF AboutWriter, Within, Masking
  <2>3. Frames'
    BY <2>1, WireSame DEF WireInv
  <2> QED BY <1>1, <2>2, <2>3, OnlyWriter
<1>5. CASE open /\ ~ closeSent
  <2>1. at'[w] = "reset" /\ Send(w)
    BY <1>5 DEF Put, Result, Goto, TypeOK, CallsOK
  <2>2. /\ frame[w] = [kind |-> writeFrameType, final |-> left[w] = 0,
                       len |-> writePos]
        /\ then[w] = IF left[w] = 0 THEN "idle" ELSE "ncopy"
        /\ writePos > 0 /\ writePos <= Copied(w) /\ seq[w] = writeSeq
    BY <1>1, <1>2 DEF MessageInv, Masking
  <2>3. wire' = Append(wire, FrameOf(w))
    <3>1. /\ frame[w].kind = writeFrameType /\ frame[w].final = (left[w] = 0)
          /\ frame[w].len = writePos
      BY <2>2
    <3> QED BY <2>1, <3>1, Zenon DEF Send, FrameOf
  <2>4. PICK f : f = FrameOf(w)
    OBVIOUS
  <2>5. PICK p : p = PieceOf(w, Copied(w), 1)
    OBVIOUS
  <2>6. /\ IsData(f) /\ Intact(f) /\ LastPiece(f) = p
        /\ \A l \in DOMAIN wire : LastData(l) =>
             Follows(LastPiece(wire[l]), FirstPiece(f))
    BY <1>1, <1>2, <2>4, <2>5, FrameIntact
  <2>7. Frames' /\ \A l \in DOMAIN wire' : LastData(l)' => wire'[l] = f
    <3>1. wire \in Seq(WireFrame) /\ Frames /\ wire' = Append(wire, f)
      BY <2>3, <2>4 DEF TypeOK, ConnOK, WireInv
    <3> QED BY <2>6, <3>1, DataFrame
  <2>8. EndsWith(w, Copied(w))'
    <3>1. p = PieceOf(w, Copied(w), 1)'
      BY <1>1, <1>3, <2>5 DEF PieceOf, Copied
    <3>2. \A l \in DOMAIN wire' : LastData(l)' => LastPiece(wire'[l]) = p
      BY <2>6, <2>7
    <3> QED BY <3>1, <3>2 DEF EndsWith
  <2>9. PutInv(w)'
    <3>1. left[w] < Size[w]
      BY <2>2, Sizes
    <3>2. frame[w].final <=> left[w] = 0
      <4>1. frame[w].final = (left[w] = 0)
        BY <2>2
      <4> QED BY <4>1, Zenon
    <3> QED BY <1>3, <2>2, <2>8, <3>1, <3>2 DEF PutInv
  <2>10. AboutWriter(w)'
    BY <1>2, <1>3, <2>1, <2>9 DEF AboutWriter, Within, Masking
  <2> QED BY <1>1, <2>7, <2>10, OnlyWriter
<1> QED BY <1>4, <1>5

\* The buffer is empty: the message goes on, has ended, or was given up.
LEMMA ResetWire ==
  ASSUME TypeOK, AloneInv, WireInv, ~ raced, NEW w \in Writer, Reset(w)
  PROVE  WireInv'
<1>1. /\ \A v \in Writer : v # w => at'[v] = "idle"
      /\ at[w] \in {"reset", "resetErr"} /\ nr' = nr
  BY OthersIdle DEF WriterStep, Reset
<1>2. writePos' = 0 /\ wire' = wire
  BY DEF Reset
<1>3. LastKept /\ Frames'
  BY <1>2, WireSame DEF WireInv
<1>4. CASE at[w] = "resetErr"
  <2>1. at'[w] = "idle"
    BY <1>4 DEF Reset, Return, Goto, TypeOK, CallsOK
  <2>2. writeErr'
    BY <1>4, Zenon DEF Reset
  <2>3. AboutWriter(w)'
    BY <2>1, <2>2 DEF AboutWriter, Within, Masking
  <2> QED BY <1>1, <1>3, <2>3, OnlyWriter
<1>5. CASE at[w] = "reset"
  <2>1. ~ writeErr'
    BY <1>5, Zenon DEF Reset
  <2>2. /\ left[w] < Size[w] /\ seq[w] = writeSeq /\ EndsWith(w, Copied(w))
        /\ frame[w].final <=> left[w] = 0
        /\ then[w] = IF left[w] = 0 THEN "idle" ELSE "ncopy"
    BY <1>5 DEF WireInv, PutInv
  <2>3. Size[w] \in Nat /\ left[w] \in Nat /\ Copied(w) = Size[w] - left[w]
    BY Sizes
  <2>4. CASE left[w] = 0
    <3>1. at'[w] = "idle" /\ writeFrameType' = NoFrame
      BY <2>2, <2>4 DEF Reset, Return, Goto, TypeOK, CallsOK
    <3>2. AtEnd
      <4>1. EndsWith(w, Size[w])
        BY <2>2, <2>3, <2>4
      <4> QED BY <4>1 DEF EndsWith, AtEnd, PieceOf
    <3>3. AboutWriter(w)'
      BY <1>2, <1>3, <3>1, <3>2, EndKept DEF AboutWriter, Within, Masking
    <3> QED BY <1>1, <1>3, <3>3, OnlyWriter
  <2>5. CASE left[w] > 0
    <3>1. /\ at'[w] = "ncopy" /\ writeFrameType' = "continuation"
          /\ UNCHANGED <<left, seq, frame, then, writeSeq>>
      BY <1>5, <2>2, <2>5 DEF Reset, Goto, TypeOK, CallsOK
    <3>2. Copied(w)' = Copied(w) /\ Flushed(w)' = Copied(w) /\ Copied(w) > 0
      <4>1. Copied(w)' = Copied(w)
        BY <3>1 DEF Copied
      <4>2. Flushed(w)' = Copied(w)' - writePos'
        BY DEF Flushed
      <4> QED BY <1>2, <2>2, <2>3, <4>1, <4>2
    <3>3. Carries(w, Flushed(w))'
      <4>1. PICK n : n = Copied(w)
        OBVIOUS
      <4>2. EndsWith(w, n)'
        <5>1. EndsWith(w, n)
          BY <2>2, <4>1
        <5> QED BY <1>1, <1>3, <5>1 DEF LastKept, EndsWith, LastPiece, PieceOf
      <4> QED BY <3>2, <4>1, <4>2 DEF Carries, EndsWith
    <3>4. MessageInv(w)'
      <4>1. /\ left'[w] <= Size[w] /\ writePos' <= Copied(w)' /\ seq'[w] = writeSeq'
            /\ writeFrameType' = IF Flushed(w)' = 0 THEN "text" ELSE "continuation"
            /\ left'[w] > 0
        BY <1>2, <2>2, <2>3, <2>5, <3>1, <3>2
      <4>2. \A i \in 1..writePos' : FALSE
        BY <1>2
      <4> QED BY <3>1, <3>3, <4>1, <4>2 DEF MessageInv, Masking
    <3>5. AboutWriter(w)'
      BY <2>1, <3>1, <3>4 DEF AboutWriter
    <3> QED BY <1>1, <1>3, <3>5, OnlyWriter
  <2> QED BY <2>3, <2>4, <2>5
<1> QED BY <1>1, <1>4, <1>5

\* What neither the wire nor the writers notice.
LEMMA WritersKept ==
  ASSUME WireInv, Frames', LastKept, UNCHANGED <<buffer, calls, writeErr>>
  PROVE  WireInv'
<1>1. AtEnd => AtEnd'
  BY EndKept
<1>2. QuietInv'
  BY <1>1 DEF WireInv, QuietInv
<1>3. ASSUME NEW w \in Writer, at[w] \in Within PROVE MessageInv(w)'
  <2>1. MessageInv(w) /\ Carries(w, Flushed(w))
    BY <1>3 DEF WireInv, MessageInv
  <2>2. Copied(w)' = Copied(w) /\ Flushed(w)' = Flushed(w)
    BY DEF Copied, Flushed
  <2>3. Carries(w, Flushed(w))'
    BY <2>1, <2>2, CarriesKept
  <2> QED BY <2>1, <2>2, <2>3 DEF MessageInv, PieceOf
<1>4. ASSUME NEW w \in Writer, at[w] = "reset" PROVE PutInv(w)'
  <2>1. PutInv(w)
    BY <1>4 DEF WireInv
  <2>2. PICK n : n = Copied(w) /\ n = Copied(w)'
    BY DEF Copied
  <2>3. EndsWith(w, n)'
    BY <2>1, <2>2 DEF PutInv, LastKept, EndsWith, LastPiece, PieceOf
  <2>4. EndsWith(w, Copied(w))'
    BY <2>2, <2>3 DEF EndsWith
  <2> QED BY <2>1, <2>4 DEF PutInv
<1> QED BY <1>1, <1>2, <1>3, <1>4 DEF WireInv

\* The reader, the server and the network: an answer of the reader is a frame
\* without data.
LEMMA ReaderWire ==
  ASSUME TypeOK, WireInv, ReaderStep \/ (\E f \in Sends : ServerSends(f)) \/ Close
  PROVE  WireInv'
<1>1. UNCHANGED <<buffer, calls, writeErr>>
  BY DEF ReaderStep, ReadData, ReadPingPong, ReadLast, WriteControl,
         WriteControlTimeout, ReadFails, Close, ServerSends
<1>2. \/ wire' = wire
      \/ reader \in {"pong", "close"} /\ wire' = Append(wire, [kind |-> reader])
  BY DEF ReaderStep, ReadData, ReadPingPong, ReadLast, WriteControl,
         WriteControlTimeout, ReadFails, Close, ServerSends
<1>3. CASE wire' = wire
  BY <1>1, <1>3, WireSame, WritersKept DEF WireInv
<1>4. CASE reader \in {"pong", "close"} /\ wire' = Append(wire, [kind |-> reader])
  <2>1. PICK f : f = [kind |-> reader]
    OBVIOUS
  <2>2. ~ IsData(f) /\ wire' = Append(wire, f)
    BY <1>4, <2>1 DEF IsData, FrameType
  <2>3. wire \in Seq(WireFrame) /\ Frames
    BY DEF TypeOK, ConnOK, WireInv
  <2>4. Frames' /\ LastKept
    BY <2>2, <2>3, ControlFrame
  <2> QED BY <1>1, <2>4, WritersKept
<1> QED BY <1>2, <1>3, <1>4

\* Every step keeps it, as long as no two calls overlap.
LEMMA IntactNext == TypeOK /\ AloneInv /\ IntactInv /\ [Next]_vars => IntactInv'
<1> SUFFICES ASSUME TypeOK, AloneInv, IntactInv, [Next]_vars, ~ raced'
             PROVE  WireInv'
  BY DEF IntactInv
<1>1. ~ raced
  BY DEF Next, vars, NextWriter, WriterStep, BeginMessage, WriterErr, NCopy, Copy,
         EndMessage, MakeFrame, Lock, Put, Reset, ReaderStep, ReadData,
         ReadPingPong, ReadLast, WriteControl, WriteControlTimeout, ReadFails,
         Close, ServerSends
<1>2. WireInv
  BY <1>1 DEF IntactInv
<1>3. CASE UNCHANGED vars
  BY <1>2, <1>3, WireSame, WritersKept DEF vars, WireInv
<1>4. ASSUME NEW w \in Writer, NextWriter(w) PROVE WireInv'
  BY <1>2, <1>4, NextWriterWire
<1>5. ASSUME NEW w \in Writer, WriterStep(w) PROVE WireInv'
  BY <1>1, <1>2, <1>5, BeginWire, WriterErrWire, NCopyWire, CopyWire, EndWire,
     MakeFrameWire, LockWire, PutWire, ResetWire DEF WriterStep
<1>6. CASE ReaderStep \/ Close \/ \E f \in Sends : ServerSends(f)
  BY <1>2, <1>6, ReaderWire
<1> QED BY <1>3, <1>4, <1>5, <1>6 DEF Next

\* For every size of the buffer and of the messages: as long as no two calls of
\* WriteMessage overlap, the server can read every frame and put every message
\* together again, with the reader's answers between its frames or not.
THEOREM IntactAlways == Spec => []IntactUnlessRaced
<1>1. Init => AloneInv
  BY DEF Init, AloneInv
<1>2. Init => IntactInv
  <2> SUFFICES ASSUME Init PROVE WireInv
    BY DEF IntactInv
  <2>1. DOMAIN wire = {}
    BY DEF Init
  <2>2. Frames /\ AtEnd
    BY <2>1 DEF Frames, AtEnd
  <2>3. QuietInv
    BY <2>2 DEF Init, QuietInv
  <2> QED BY <2>2, <2>3 DEF Init, WireInv, Within, Masking
<1>3. IntactInv => IntactUnlessRaced
  BY DEF IntactInv, IntactUnlessRaced, WireInv, Frames
<1> QED BY <1>1, <1>2, <1>3, AloneNext, IntactNext, TypeCorrect, PTL DEF Spec

-----------------------------------------------------------------------------
(* Fragmented messages.                                                    *)

Final(k) == IsData(arrived[k]) /\ arrived[k].final

\* What readFinal and begun say about the frames that were read.
MessageOpen ==
  /\ readFinal => \A i \in 1..nread : arrived[i].kind = "text" =>
                    \E j \in i..nread : Final(j)
  /\ ~ readFinal => /\ begun \in 1..nread /\ arrived[begun].kind = "text"
                    /\ \A k \in (begun + 1)..nread : arrived[k].kind # "text"
                    /\ \A k \in begun..nread : ~ Final(k)

ReadInv == MessageOpen /\ ReadsWhole

\* The frames i to j of a are one message.
Whole(a, i, j) ==
  /\ i <= j
  /\ a[i].kind = "text" /\ IsData(a[j]) /\ a[j].final
  /\ \A k \in (i + 1)..j : a[k].kind # "text"
  /\ \A k \in i..(j - 1) : IsData(a[k]) => ~ a[k].final

\* It depends on these frames only.
LEMMA WholeSame ==
  ASSUME NEW a, NEW b, NEW n \in Nat, NEW i \in 1..n, NEW j \in 1..n,
         \A k \in 1..n : a[k] = b[k]
  PROVE  Whole(a, i, j) <=> Whole(b, i, j)
<1>1. a[i] = b[i] /\ a[j] = b[j]
  OBVIOUS
<1>2. \A k \in (i + 1)..j : a[k] = b[k]
  OBVIOUS
<1>3. \A k \in i..(j - 1) : a[k] = b[k]
  OBVIOUS
<1> QED BY <1>1, <1>2, <1>3 DEF Whole, IsData

\* The first frames of a server that sends on are the same.
LEMMA ReadSame ==
  ASSUME ReadInv, nread \in Nat, UNCHANGED <<readFinal, begun, delivered, nread>>,
         \A k \in 1..nread : arrived'[k] = arrived[k]
  PROVE  ReadInv'
<1>1. MessageOpen'
  <2>1. \A k \in 1..nread : Final(k)' <=> Final(k)
    BY DEF Final, IsData
  <2>2. CASE readFinal
    <3>1. ASSUME NEW i \in 1..nread, arrived'[i].kind = "text"
          PROVE  \E j \in i..nread : Final(j)'
      <4>1. PICK j \in i..nread : Final(j)
        BY <2>2, <3>1 DEF ReadInv, MessageOpen
      <4> QED BY <2>1, <4>1
    <3> QED BY <2>2, <3>1 DEF MessageOpen, Final, IsData
  <2>3. CASE ~ readFinal
    BY <2>1, <2>3 DEF ReadInv, MessageOpen
  <2> QED BY <2>2, <2>3
<1>2. ReadsWhole'
  <2>1. \A i, j \in 1..nread : <<i, j>> \in delivered <=> Whole(arrived, i, j)
    BY DEF ReadInv, ReadsWhole, Whole
  <2>2. \A i, j \in 1..nread : Whole(arrived', i, j) <=> Whole(arrived, i, j)
    BY WholeSame
  <2>3. \A i, j \in 1..nread : <<i, j>> \in delivered' <=> Whole(arrived', i, j)
    BY <2>1, <2>2
  <2> QED BY <2>3 DEF ReadsWhole, Whole, IsData
<1> QED BY <1>1, <1>2 DEF ReadInv

\* A frame that begins, continues or ends a message.
LEMMA ReadDataWhole ==
  ASSUME TypeOK, ReadInv, ReadData
  PROVE  ReadInv'
<1> DEFINE n == nread + 1
<1>1. /\ nread \in Nat /\ nread' = n /\ arrived' = arrived
      /\ readFinal \in BOOLEAN
      /\ delivered \subseteq (1..nread) \X (1..nread)
  BY DEF TypeOK, ReadingOK, ReadData, Accept
<1>2. /\ IsData(arrived[n])
      /\ readFinal => arrived[n].kind = "text"
      /\ ~ readFinal => arrived[n].kind # "text"
      /\ readFinal' = arrived[n].final
      /\ begun' = IF readFinal THEN n ELSE begun
      /\ delivered' = IF arrived[n].final THEN delivered \cup {<<begun', n>>}
                                          ELSE delivered
  BY <1>1 DEF ReadData, NextFrame, IsData, FrameType
<1>3. Final(n) <=> arrived[n].final
  BY <1>2 DEF Final
<1>4. begun' \in 1..n /\ arrived[begun'].kind = "text"
  <2>1. CASE readFinal
    BY <1>1, <1>2, <2>1
  <2>2. CASE ~ readFinal
    <3>1. begun \in 1..nread /\ arrived[begun].kind = "text"
      BY <2>2 DEF ReadInv, MessageOpen
    <3> QED BY <1>1, <1>2, <2>2, <3>1
  <2> QED BY <2>1, <2>2
<1>5. \A k \in (begun' + 1)..n : arrived[k].kind # "text"
  <2>1. CASE readFinal
    BY <1>1, <1>2, <2>1
  <2>2. CASE ~ readFinal
    <3>1. \A k \in (begun + 1)..n : k = n \/ k \in (begun + 1)..nread
      BY <1>1, <2>2 DEF ReadInv, MessageOpen
    <3> QED BY <1>2, <2>2, <3>1 DEF ReadInv, MessageOpen
  <2> QED BY <2>1, <2>2
<1>6. \A k \in begun'..nread : ~ Final(k)
  BY <1>1, <1>2 DEF ReadInv, MessageOpen
<1>7. MessageOpen'
  <2>1. CASE arrived[n].final
    <3>1. ASSUME NEW i \in 1..n PROVE \E j \in i..n : Final(j)
      BY <1>1, <1>3, <2>1
    <3> QED BY <1>1, <1>2, <2>1, <3>1 DEF MessageOpen, Final, IsData
  <2>2. CASE ~ arrived[n].final
    <3>1. \A k \in begun'..n : ~ Final(k)
      BY <1>1, <1>3, <1>4, <1>6, <2>2
    <3> QED BY <1>1, <1>2, <1>4, <1>5, <2>2, <3>1 DEF MessageOpen, Final, IsData
  <2> QED BY <2>1, <2>2
<1>8. ReadsWhole'
  <2>1. \A i, j \in 1..nread : <<i, j>> \in delivered' <=> Whole(arrived, i, j)
    <3>1. \A i, j \in 1..nread : <<i, j>> \in delivered <=> Whole(arrived, i, j)
      BY DEF ReadInv, ReadsWhole, Whole
    <3>2. \A i, j \in 1..nread : <<i, j>> # <<begun', n>>
      BY <1>1
    <3> QED BY <1>2, <3>1, <3>2
  <2>2. \A j \in 1..nread : ~ (<<n, j>> \in delivered') /\ ~ Whole(arrived, n, j)
    <3>1. \A j \in 1..nread : ~ (n <= j) /\ n # j
      BY <1>1
    <3>2. \A j \in 1..nread : <<n, j>> \notin delivered
      BY <1>1
    <3> QED BY <1>1, <1>2, <3>1, <3>2 DEF Whole
  <2>3. ASSUME NEW i \in 1..n PROVE <<i, n>> \in delivered' <=> Whole(arrived, i, n)
    <3>1. <<i, n>> \notin delivered
      BY <1>1
    <3>2. CASE i = begun'
      <4>1. \A k \in i..(n - 1) : IsData(arrived[k]) => ~ arrived[k].final
        BY <1>1, <1>6, <3>2 DEF Final
      <4>2. \A k \in (i + 1)..n : arrived[k].kind # "text"
        BY <1>5, <3>2
      <4>3. Whole(arrived, i, n) <=> arrived[n].final
        <5>1. i <= n /\ arrived[i].kind = "text" /\ IsData(arrived[n])
          BY <1>1, <1>2, <1>4, <3>2
        <5> QED BY <4>1, <4>2, <5>1 DEF Whole
      <4> QED BY <1>2, <3>1, <3>2, <4>3
    <3>3. CASE i < begun'
      <4>1. begun' \in (i + 1)..n
        BY <1>1, <1>4, <3>3
      <4>2. ~ Whole(arrived, i, n)
        BY <1>4, <4>1 DEF Whole
      <4>3. <<i, n>> # <<begun', n>>
        BY <1>1, <1>4, <3>3
      <4> QED BY <1>2, <3>1, <4>2, <4>3
    <3>4. CASE i > begun'
      <4>1. i \in (begun' + 1)..n
        <5> DEFINE b == begun'
        <5>1. b \in Int /\ i \in Int /\ n \in Int /\ i > b /\ i <= n
          BY <1>1, <1>4, <3>4
        <5> HIDE DEF b, n
        <5>2. i \in (b + 1)..n
          BY <5>1
        <5> QED BY <5>2 DEF b, n
      <4>2. ~ Whole(arrived, i, n)
        BY <1>5, <4>1 DEF Whole
      <4>3. <<i, n>> # <<begun', n>>
        BY <1>1, <1>4, <3>4
      <4> QED BY <1>2, <3>1, <4>2, <4>3
    <3> QED BY <1>1, <1>4, <3>2, <3>3, <3>4
  <2>4. \A i \in 1..n : i = n \/ i \in 1..nread
    BY <1>1
  <2>5. \A i, j \in 1..n : <<i, j>> \in delivered' <=> Whole(arrived, i, j)
    <3> SUFFICES ASSUME NEW i \in 1..n, NEW j \in 1..n
                 PROVE  <<i, j>> \in delivered' <=> Whole(arrived, i, j)
      OBVIOUS
    <3>1. CASE j = n
      BY <2>3, <3>1
    <3>2. CASE j \in 1..nread /\ i \in 1..nread
      BY <2>1, <3>2
    <3>3. CASE j \in 1..nread /\ i = n
      BY <2>2, <3>3
    <3> QED BY <2>4, <3>1, <3>2, <3>3
  <2> QED BY <1>1, <2>5 DEF ReadsWhole, Whole, IsData
<1> QED BY <1>7, <1>8 DEF ReadInv

\* A control frame between the frames of a message.
LEMMA ReadPingPongWhole ==
  ASSUME TypeOK, ReadInv, ReadPingPong
  PROVE  ReadInv'
<1> DEFINE n == nread + 1
<1>1. /\ nread \in Nat /\ nread' = n /\ arrived' = arrived
      /\ readFinal' = readFinal /\ begun' = begun /\ delivered' = delivered
      /\ delivered \subseteq (1..nread) \X (1..nread)
  BY DEF TypeOK, ReadingOK, ReadPingPong, Accept
<1>2. arrived[n].kind # "text" /\ ~ IsData(arrived[n]) /\ ~ Final(n)
  BY DEF ReadPingPong, NextFrame, IsData, FrameType, Final
<1>3. \A i \in 1..n : i = n \/ i \in 1..nread
  BY <1>1
<1>4. MessageOpen'
  <2>1. CASE readFinal
    <3>1. ASSUME NEW i \in 1..n, arrived[i].kind = "text"
          PROVE  \E j \in i..n : Final(j)
      <4>1. PICK j \in i..nread : Final(j)
        BY <1>2, <1>3, <2>1, <3>1 DEF ReadInv, MessageOpen
      <4> QED BY <1>1, <4>1
    <3> QED BY <1>1, <2>1, <3>1 DEF MessageOpen, Final, IsData
  <2>2. CASE ~ readFinal
    <3>1. begun \in 1..nread /\ \A k \in begun..n : k = n \/ k \in begun..nread
      BY <1>1, <2>2 DEF ReadInv, MessageOpen
    <3>2. \A k \in (begun + 1)..n : k = n \/ k \in (begun + 1)..nread
      BY <1>1, <3>1
    <3> QED BY <1>1, <1>2, <2>2, <3>1, <3>2 DEF ReadInv, MessageOpen, Final, IsData
  <2> QED BY <2>1, <2>2
<1>5. ReadsWhole'
  <2>1. \A i \in 1..n : <<i, n>> \notin delivered /\ <<n, i>> \notin delivered
    BY <1>1
  <2>2. \A i \in 1..nread : ~ (n <= i)
    BY <1>1
  <2> QED BY <1>1, <1>2, <1>3, <2>1, <2>2 DEF ReadInv, ReadsWhole, IsData
<1> QED BY <1>4, <1>5 DEF ReadInv

\* Every step keeps it.
LEMMA ReadNext == TypeOK /\ ReadInv /\ [Next]_vars => ReadInv'
<1> SUFFICES ASSUME TypeOK, ReadInv, [Next]_vars PROVE ReadInv'
  OBVIOUS
<1>1. nread \in Nat /\ nread <= Len(arrived) /\ arrived \in Seq(ServerFrame)
  BY DEF TypeOK, ReadingOK
<1>2. CASE UNCHANGED <<readFinal, begun, delivered, nread, arrived>>
  BY <1>1, <1>2, ReadSame
<1>3. ASSUME NEW f \in Sends, ServerSends(f) PROVE ReadInv'
  <2>1. \A k \in 1..nread : arrived'[k] = arrived[k]
    BY <1>1, <1>3 DEF ServerSends
  <2> QED BY <1>1, <1>3, <2>1, ReadSame DEF ServerSends
<1>4. ASSUME NEW w \in Writer, NextWriter(w) \/ WriterStep(w)
      PROVE  UNCHANGED <<readFinal, begun, delivered, nread, arrived>>
  BY <1>4 DEF NextWriter, WriterStep, BeginMessage, WriterErr, NCopy, Copy,
              EndMessage, MakeFrame, Lock, Put, Reset
<1>5. CASE ReadLast \/ WriteControl \/ WriteControlTimeout \/ ReadFails \/ Close
  BY <1>2, <1>5 DEF ReadLast, WriteControl, WriteControlTimeout, ReadFails, Close
<1> QED
  BY <1>2, <1>3, <1>4, <1>5, ReadDataWhole, ReadPingPongWhole
     DEF Next, ReaderStep, vars

\* Whatever the server sends, the read loop gets the messages that came whole and
\* no others, each with all its fragments.
THEOREM MessagesWhole == Spec => []ReadsWhole
<1>1. Init => ReadInv
  BY DEF Init, ReadInv, MessageOpen, ReadsWhole
<1>2. ReadInv => ReadsWhole
  BY DEF ReadInv
<1> QED BY <1>1, <1>2, ReadNext, TypeCorrect, PTL DEF Spec
=============================================================================
