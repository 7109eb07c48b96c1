------------------------------ MODULE WebSocket ------------------------------
(***************************************************************************)
(* One websocket.Conn as Relax uses it: the ping pump and the pubsub loop  *)
(* both call WriteMessage, the read loop calls ReadMessage, anyone closes. *)
(*                                                                         *)
(* The library builds a frame in a buffer of the Conn, masks it there, and *)
(* takes the mutex mu only to put it on the wire; its documentation leaves *)
(* it to the application to write from one goroutine at a time.  Relax     *)
(* does not, so two WriteMessage calls may overlap (`raced' remembers it). *)
(* The reader answers pings and close frames through WriteControl, which   *)
(* the library allows at any time.                                         *)
(*                                                                         *)
(* A message is cut into pieces of which writeBuf holds BufSize; a piece   *)
(* stands for the bytes that one copy moves.                               *)
(***************************************************************************)
EXTENDS Integers, Sequences

FrameType == {"text", "continuation"}
NoFrame == "noFrame"

\* What the server sends: it may break the rules of RFC 6455.
ServerFrame == [kind : FrameType, final : BOOLEAN]
                 \cup [kind : {"ping", "pong", "close", "bad"}]

CONSTANTS
  Writer,       \* the goroutines that call WriteMessage
  Size,         \* the number of pieces of each writer's messages
  BufSize,      \* the number of pieces that writeBuf holds
  Sends,        \* the frames the server may send
  MaxMessages,  \* bound: messages of each writer
  MaxFrames     \* bound: frames from the server

ASSUME SizeAssumption ==
  Size \in [Writer -> Nat \ {0}] /\ BufSize \in Nat \ {0}
ASSUME SendsAssumption == Sends \subseteq ServerFrame
ASSUME BoundAssumption == MaxMessages \in Nat /\ MaxFrames \in Nat
ASSUME WriterAssumption == "none" \notin Writer

VARIABLES
  \* the Conn
  mu,         \* the holder of the mutex
  closeSent, writeErr,
  writeBuf, writePos, writeFrameType, writeSeq,
  readFinal,  \* FALSE: the message that is being read has more frames
  open,       \* the network connection has not been closed
  \* WriteMessage of each writer
  at,         \* where it is
  nr,         \* the number of its message
  left,       \* pieces not yet copied
  seq,        \* the sequence number of its messageWriter
  frame,      \* the frame flushFrame has made
  then,       \* where flushFrame returns to
  \* ReadMessage
  reader,     \* reading, answering a frame, or returned with an error
  begun,      \* the frame at which the current message began
  delivered,  \* messages handed to the read loop, as <<first, last>> frame
  nread,      \* frames read and accepted
  \* the network
  arrived,    \* the frames the server has sent
  wire,       \* the frames put on the wire
  raced,      \* history: two calls of WriteMessage have overlapped
  panic       \* did a slice expression fail?

conn    == <<mu, closeSent, writeErr, open>>
buffer  == <<writeBuf, writePos, writeFrameType, writeSeq>>
calls   == <<at, nr, left, seq, frame, then>>
reading == <<readFinal, reader, begun, delivered, nread>>
network == <<arrived, wire>>
history == <<raced, panic>>
vars == <<conn, buffer, calls, reading, network, history>>

\* writeBuf holds pieces of messages, with how often each was masked there.
NoPiece == [masks |-> 0]
NoHeader == [kind |-> NoFrame, final |-> FALSE, len |-> 0]

Init ==
  /\ mu = "none" /\ closeSent = FALSE /\ writeErr = FALSE
  /\ writeBuf = [i \in 1..BufSize |-> NoPiece] /\ writePos = 0
  /\ writeFrameType = NoFrame /\ writeSeq = 0
  /\ readFinal = TRUE /\ open = TRUE
  /\ at = [w \in Writer |-> "idle"] /\ nr = [w \in Writer |-> 0]
  /\ left = [w \in Writer |-> 0] /\ seq = [w \in Writer |-> 0]
  /\ frame = [w \in Writer |-> NoHeader] /\ then = [w \in Writer |-> "idle"]
  /\ reader = "read" /\ begun = 0 /\ delivered = {} /\ nread = 0
  /\ arrived = <<>> /\ wire = <<>>
  /\ raced = FALSE /\ panic = FALSE

\* Where w goes on inside WriteMessage; what is left when it returns.
Goto(w, l) == at' = [at EXCEPT ![w] = l]
Return(w) ==
  /\ Goto(w, "idle")
  /\ left' = [left EXCEPT ![w] = 0] /\ seq' = [seq EXCEPT ![w] = 0]
  /\ frame' = [frame EXCEPT ![w] = NoHeader]
  /\ then' = [then EXCEPT ![w] = "idle"]

-----------------------------------------------------------------------------
(* WriteMessage of writer w.                                               *)

\* NextWriter: after an error none; a frame somebody has left open is flushed.
NextWriter(w) ==
  /\ at[w] = "idle" /\ nr[w] < MaxMessages
  /\ nr' = [nr EXCEPT ![w] = @ + 1]
  /\ raced' = (raced \/ \E v \in Writer : at[v] # "idle")
  /\ \/ writeErr /\ UNCHANGED <<at, then>>
     \/ ~ writeErr /\ writeFrameType = NoFrame
          /\ Goto(w, "begin") /\ UNCHANGED then
     \/ ~ writeErr /\ writeFrameType # NoFrame
          /\ Goto(w, "flushFinal")
          /\ then' = [then EXCEPT ![w] = "begin"]
  /\ UNCHANGED <<left, seq, frame, conn, buffer, reading, network, panic>>

\* The messageWriter ...
BeginMessage(w) ==
  /\ at[w] = "begin"
  /\ writeFrameType' = "text"
  /\ seq' = [seq EXCEPT ![w] = writeSeq]
  /\ left' = [left EXCEPT ![w] = Size[w]]
  /\ Goto(w, "write")
  /\ UNCHANGED <<nr, frame, then, conn, writeBuf, writePos, writeSeq, reading,
                 network, history>>

\* ... and what its err() finds.
WriterErr(w) ==
  /\ at[w] = "write"
  /\ IF writeSeq # seq[w] \/ writeErr
     THEN Return(w)
     ELSE Goto(w, "ncopy") /\ UNCHANGED <<left, seq, frame, then>>
  /\ UNCHANGED <<nr, conn, buffer, reading, network, history>>

\* Mutant: one piece too many.
NCopyPast(w) ==
  /\ at[w] = "ncopy" /\ left[w] > 0
  /\ IF writePos <= BufSize
     THEN Goto(w, "copy") /\ UNCHANGED then
     ELSE Goto(w, "flush") /\ then' = [then EXCEPT ![w] = "ncopy"]
  /\ UNCHANGED <<nr, left, seq, frame, conn, buffer, reading, network, history>>

\* ncopy finds room for a piece, or a full buffer goes out as a frame that is
\* not the last.
NCopy(w) ==
  /\ at[w] = "ncopy" /\ left[w] > 0
  /\ IF writePos < BufSize
     THEN Goto(w, "copy") /\ UNCHANGED then
     ELSE Goto(w, "flush") /\ then' = [then EXCEPT ![w] = "ncopy"]
  /\ UNCHANGED <<nr, left, seq, frame, conn, buffer, reading, network, history>>

\* copy: to where writePos is by now; beyond the end nothing is copied.
Copy(w) ==
  LET p == [by |-> w, nr |-> nr[w], no |-> Size[w] - left[w] + 1, masks |-> 0]
  IN /\ at[w] = "copy"
     /\ writeBuf' = IF writePos < BufSize
                    THEN [writeBuf EXCEPT ![writePos + 1] = p] ELSE writeBuf
     /\ writePos' = writePos + 1
     /\ left' = [left EXCEPT ![w] = @ - 1]
     /\ Goto(w, "ncopy")
     /\ UNCHANGED <<nr, seq, frame, then, conn, writeFrameType, writeSeq,
                    reading, network, history>>

\* All is copied: the last frame goes out, if w is still the current writer.
EndMessage(w) ==
  /\ at[w] = "ncopy" /\ left[w] = 0
  /\ IF writeSeq = seq[w]
     THEN /\ Goto(w, "flushFinal") /\ then' = [then EXCEPT ![w] = "idle"]
          /\ UNCHANGED <<left, seq, frame>>
     ELSE Return(w)
  /\ UNCHANGED <<nr, conn, buffer, reading, network, history>>

\* Masked once more: twice, with two keys, is beyond recovery.
Again(n) == IF n = 0 THEN 1 ELSE 2

\* flushFrame up to c.write: the header, and the mask over the pieces in place.
\* A writePos beyond the buffer makes the slice expression panic.
MakeFrame(w) ==
  /\ at[w] \in {"flush", "flushFinal"}
  /\ frame' = [frame EXCEPT ![w] = [kind |-> writeFrameType,
                                    final |-> at[w] = "flushFinal",
                                    len |-> writePos]]
  /\ writeBuf' = [i \in 1..BufSize |->
                    IF i <= writePos THEN [writeBuf[i] EXCEPT !.masks = Again(@)]
                                     ELSE writeBuf[i]]
  /\ panic' = (writePos > BufSize)
  /\ Goto(w, "lock")
  /\ UNCHANGED <<nr, left, seq, then, conn, writePos, writeFrameType, writeSeq,
                 reading, network, raced>>

\* c.write waits for the mutex.
Lock(w) ==
  /\ at[w] = "lock" /\ mu = "none"
  /\ mu' = w
  /\ Goto(w, "put")
  /\ UNCHANGED <<nr, left, seq, frame, then, closeSent, writeErr, open, buffer,
                 reading, network, history>>

\* The frame of w goes out, with what is in the buffer by now: after a race, any
\* mixture of two messages and two masks.
Send(w) ==
  wire' = Append(wire,
    IF raced THEN [kind |-> "mixed"]
             ELSE [kind |-> frame[w].kind, final |-> frame[w].final,
                   pieces |-> SubSeq(writeBuf, 1, frame[w].len)])

Result(w, ok) == Goto(w, IF ok THEN "reset" ELSE "resetErr")

\* Mutant: closeSent is not looked at.
PutAfterClose(w) ==
  /\ at[w] = "put"
  /\ mu' = "none"
  /\ Result(w, open)
  /\ IF open THEN Send(w) ELSE UNCHANGED wire
  /\ UNCHANGED <<nr, left, seq, frame, then, closeSent, writeErr, open, buffer,
                 reading, arrived, history>>

\* The rest of c.write.  It returns when the server has taken the bytes or the
\* connection has failed: there is no deadline.
Put(w) ==
  /\ at[w] = "put"
  /\ mu' = "none"
  /\ Result(w, open /\ ~ closeSent)
  /\ IF open /\ ~ closeSent THEN Send(w) ELSE UNCHANGED wire
  /\ UNCHANGED <<nr, left, seq, frame, then, closeSent, writeErr, open, buffer,
                 reading, arrived, history>>

\* Mutant: the next frame is a message of its own.
ResetToText(w) ==
  /\ at[w] \in {"reset", "resetErr"}
  /\ writeErr' = (at[w] = "resetErr")
  /\ writePos' = 0
  /\ writeFrameType' = IF frame[w].final THEN NoFrame ELSE "text"
  /\ writeSeq' = IF frame[w].final THEN writeSeq + 1 ELSE writeSeq
  /\ IF at[w] = "resetErr" \/ then[w] = "idle"
     THEN Return(w)
     ELSE Goto(w, then[w]) /\ UNCHANGED <<left, seq, frame, then>>
  /\ UNCHANGED <<nr, mu, closeSent, open, writeBuf, reading, network, history>>

\* The rest of flushFrame.
Reset(w) ==
  /\ at[w] \in {"reset", "resetErr"}
  /\ writeErr' = (at[w] = "resetErr")
  /\ writePos' = 0
  /\ writeFrameType' = IF frame[w].final THEN NoFrame ELSE "continuation"
  /\ writeSeq' = IF frame[w].final THEN writeSeq + 1 ELSE writeSeq
  /\ IF at[w] = "resetErr" \/ then[w] = "idle"
     THEN Return(w)
     ELSE Goto(w, then[w]) /\ UNCHANGED <<left, seq, frame, then>>
  /\ UNCHANGED <<nr, mu, closeSent, open, writeBuf, reading, network, history>>

-----------------------------------------------------------------------------
(* ReadMessage, again and again.                                           *)

More == nread < Len(arrived)
NextFrame == arrived[nread + 1]
Accept == nread' = nread + 1

\* Mutant: a new message may begin before the last one has ended.
ReadDataAny ==
  /\ reader = "read" /\ More
  /\ NextFrame.kind \in (IF readFinal THEN {"text"} ELSE FrameType)
  /\ Accept
  /\ begun' = IF readFinal THEN nread' ELSE begun
  /\ readFinal' = NextFrame.final
  /\ delivered' = IF NextFrame.final THEN delivered \cup {<<begun', nread'>>}
                                     ELSE delivered
  /\ UNCHANGED <<conn, buffer, calls, reader, network, history>>

\* advanceFrame: the first or a later frame of a message; the final one ends it.
ReadData ==
  /\ reader = "read" /\ More
  /\ NextFrame.kind = (IF readFinal THEN "text" ELSE "continuation")
  /\ Accept
  /\ begun' = IF readFinal THEN nread' ELSE begun
  /\ readFinal' = NextFrame.final
  /\ delivered' = IF NextFrame.final THEN delivered \cup {<<begun', nread'>>}
                                     ELSE delivered
  /\ UNCHANGED <<conn, buffer, calls, reader, network, history>>

\* A pong means nothing; a ping is answered before the next frame is read.
ReadPingPong ==
  /\ reader = "read" /\ More
  /\ NextFrame.kind \in {"ping", "pong"}
  /\ Accept
  /\ reader' = IF NextFrame.kind = "ping" THEN "pong" ELSE "read"
  /\ UNCHANGED <<conn, buffer, calls, readFinal, begun, delivered, network,
                 history>>

\* The close frame, or handleProtocolError: a frame that is malformed, a message
\* inside a message, a continuation of none.
ReadLast ==
  /\ reader = "read" /\ More
  /\ NextFrame.kind \in {"close", "bad",
                         IF readFinal THEN "continuation" ELSE "text"}
  /\ reader' = "close"
  /\ UNCHANGED <<conn, buffer, calls, readFinal, begun, delivered, nread,
                 network, history>>

\* After a pong the reader goes on; after a close frame ReadMessage returns.
Answered == reader' = IF reader = "pong" THEN "read" ELSE "ended"

\* WriteControl; a close frame is noted even when it cannot be written, because
\* the connection is closed or does not take it within the second.
WriteControl ==
  /\ reader \in {"pong", "close"}
  /\ mu = "none"
  /\ closeSent' = (closeSent \/ reader = "close")
  /\ \/ UNCHANGED wire
     \/ ~ closeSent /\ open /\ wire' = Append(wire, [kind |-> reader])
  /\ Answered
  /\ UNCHANGED <<mu, writeErr, open, buffer, calls, readFinal, begun, delivered,
                 nread, arrived, history>>

\* A writer has kept the mutex for a second: no answer is written.
WriteControlTimeout ==
  /\ reader \in {"pong", "close"}
  /\ mu # "none"
  /\ Answered
  /\ UNCHANGED <<conn, buffer, calls, readFinal, begun, delivered, nread,
                 network, history>>

\* ReadMessage fails on a closed connection, with frames left in br or not.
ReadFails ==
  /\ reader = "read" /\ ~ open
  /\ reader' = "ended"
  /\ UNCHANGED <<conn, buffer, calls, readFinal, begun, delivered, nread,
                 network, history>>

-----------------------------------------------------------------------------
(* The server and the network.                                             *)

ServerSends(f) ==
  /\ open /\ Len(arrived) < MaxFrames
  /\ arrived' = Append(arrived, f)
  /\ UNCHANGED <<conn, buffer, calls, reading, wire, history>>

\* Stop of the client, or the network.
Close ==
  /\ open
  /\ open' = FALSE
  /\ UNCHANGED <<mu, closeSent, writeErr, buffer, calls, reading, network,
                 history>>

-----------------------------------------------------------------------------
WriterStep(w) ==
  \/ BeginMessage(w)
  \/ WriterErr(w)
  \/ NCopy(w)
  \/ Copy(w)
  \/ EndMessage(w)
  \/ MakeFrame(w)
  \/ Lock(w)
  \/ Put(w)
  \/ Reset(w)

ReaderStep ==
  \/ ReadData
  \/ ReadPingPong
  \/ ReadLast
  \/ WriteControl
  \/ WriteControlTimeout
  \/ ReadFails

\* A panic ends the process.
Next ==
  /\ ~ panic
  /\ \/ \E w \in Writer : NextWriter(w) \/ WriterStep(w)
     \/ ReaderStep
     \/ \E f \in Sends : ServerSends(f)
     \/ Close

Spec == Init /\ [][Next]_vars

-----------------------------------------------------------------------------
(* Properties.                                                             *)

IsData(f) == f.kind \in FrameType
Masked(f) == \A i \in DOMAIN f.pieces : f.pieces[i].masks = 1

\* q is the next piece after p.
Follows(p, q) ==
  IF p.no < Size[p.by] THEN q = [p EXCEPT !.no = @ + 1] ELSE q.no = 1

Place == {"idle", "begin", "write", "ncopy", "copy", "flush", "flushFinal",
          "lock", "put", "reset", "resetErr"}
Flushing == {"lock", "put", "reset", "resetErr"}
Header == [kind : FrameType \cup {NoFrame}, final : BOOLEAN, len : Nat]
Piece == [masks : 0..2]
           \cup [by : Writer, nr : 0..MaxMessages, no : Int, masks : 0..2]
WireFrame ==
  [kind : {"pong", "close", "mixed"}]
    \cup [kind : FrameType \cup {NoFrame}, final : BOOLEAN, pieces : Seq(Piece)]

ConnOK ==
  /\ mu \in Writer \cup {"none"} /\ closeSent \in BOOLEAN
  /\ writeErr \in BOOLEAN /\ open \in BOOLEAN
  /\ writeBuf \in [1..BufSize -> Piece] /\ writePos \in Nat
  /\ writeFrameType \in FrameType \cup {NoFrame} /\ writeSeq \in Nat
  /\ wire \in Seq(WireFrame)
  /\ raced \in BOOLEAN /\ panic \in BOOLEAN

CallsOK ==
  /\ at \in [Writer -> Place] /\ then \in [Writer -> {"idle", "begin", "ncopy"}]
  /\ nr \in [Writer -> 0..MaxMessages] /\ left \in [Writer -> Nat]
  /\ seq \in [Writer -> Nat] /\ frame \in [Writer -> Header]
  /\ \A w \in Writer : at[w] = "copy" => left[w] > 0
  /\ \A w \in Writer : at[w] \in Flushing =>
       frame[w].len <= BufSize \/ panic

ReadingOK ==
  /\ readFinal \in BOOLEAN /\ reader \in {"read", "pong", "close", "ended"}
  /\ arrived \in Seq(ServerFrame)
  /\ nread \in 0..Len(arrived) /\ begun \in 0..nread
  /\ readFinal \/ begun > 0
  /\ delivered \subseteq (1..nread) \X (1..nread)

\* Every variable has its type, and the mutex is held by the writer that is
\* inside c.write and by nobody else: no return keeps it.
TypeOK ==
  /\ ConnOK /\ CallsOK /\ ReadingOK
  /\ \A w \in Writer : mu = w <=> at[w] = "put"

\* Nothing goes out after a close frame, whoever writes: closeSent is looked at
\* and set under mu.
NothingAfterClose ==
  \A i \in 1..(Len(wire) - 1) : wire[i].kind # "close"

FirstPiece(f) == f.pieces[1]
LastPiece(f)  == f.pieces[Len(f.pieces)]

\* A frame that the server can read: every piece masked once, the pieces in
\* order; it begins and ends a message if and only if it says so.
Intact(f) ==
  /\ f.pieces # <<>> /\ Masked(f)
  /\ f.kind = "text" <=> FirstPiece(f).no = 1
  /\ f.final <=> LastPiece(f).no = Size[LastPiece(f).by]
  /\ \A k \in 2..Len(f.pieces) : Follows(f.pieces[k - 1], f.pieces[k])

\* Between frames i and j, which have data, are only control frames.
Adjacent(i, j) ==
  /\ i < j /\ IsData(wire[i]) /\ IsData(wire[j])
  /\ \A k \in (i + 1)..(j - 1) : ~ IsData(wire[k])

\* As long as no two calls of WriteMessage have overlapped, the server can read
\* what is written: every frame, and the pieces of a message from one frame to
\* the next, whatever the reader writes between them.
IntactUnlessRaced ==
  ~ raced =>
    /\ \A i \in DOMAIN wire : IsData(wire[i]) => Intact(wire[i])
    /\ \A i, j \in DOMAIN wire :
         Adjacent(i, j) => Follows(LastPiece(wire[i]), FirstPiece(wire[j]))

\* The race is the only way into a slice that is out of bounds.
PanicIfRaced == panic => raced

\* The read loop gets exactly the messages that came whole: from a text frame to
\* the next final one, continuations and control frames between.
ReadsWhole ==
  \A i \in 1..nread, j \in 1..nread :
    <<i, j>> \in delivered <=>
      /\ i <= j
      /\ arrived[i].kind = "text" /\ IsData(arrived[j]) /\ arrived[j].final
      /\ \A k \in (i + 1)..j : arrived[k].kind # "text"
      /\ \A k \in i..(j - 1) : IsData(arrived[k]) => ~ arrived[k].final
=============================================================================
