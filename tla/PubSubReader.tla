---------------------------- MODULE PubSubReader ----------------------------
(***************************************************************************)
(* How the pubsub loop reads its commands: PubSub.ReceiveTimeout with 100  *)
(* ms, the library's parser and its buffered reader.                       *)
(*                                                                         *)
(* A command comes as an array of three strings ("message", the channel,   *)
(* the payload): seven tokens, a head, and a length and the data for each  *)
(* string.  The reply to SUBSCRIBE comes before them; its third element is *)
(* a count, one line.  The connection delivers all in order, at any pace   *)
(* and cut anywhere.  When the bytes stop for 100 ms in the middle of a    *)
(* reply, the parser gives up what it has read so far, and the next        *)
(* ReceiveTimeout starts where the bytes stopped: the loop takes timeouts  *)
(* for silence.                                                            *)
(***************************************************************************)
EXTENDS Integers, Sequences

CONSTANT MaxCommands   \* bound: commands published

ASSUME BoundAssumption == MaxCommands \in Nat

VARIABLES
  sent,       \* commands published so far
  wire,       \* tokens on their way
  buf,        \* tokens in bufio.Reader; only the last may be incomplete
  need,       \* strings parseSlice still has to read; 0: no array begun
  want,       \* what is read next: a line, data, or data after a wrong length
  cur,        \* the reply whose token was read last; -1: none
  delivered,  \* commands handed to the loop
  panic,      \* did the parser panic?
  torn        \* history: replies with 100 ms of silence in their middle

vars == <<sent, wire, buf, need, want, cur, delivered, panic, torn>>

\* Commands are numbered from 1; 0 is the reply to SUBSCRIBE.
Id == 0..MaxCommands

\* A token that is cut has its first part in buf and the other still on the
\* wire: cut in its middle, or between its text and the end of its line.
Part == {"whole", "first", "rest", "text", "eol"}
Last(i) == IF i = 0 THEN 6 ELSE 7
Token == {x \in [id : Id, pos : 1..7, part : Part] : x.pos <= Last(x.id)}
First == {"first", "text"}
Other(part) == IF part = "first" THEN "rest" ELSE "eol"

IsHead(x)   == x.pos = 1
IsCount(x)  == x.id = 0 /\ x.pos = 6
IsLength(x) == x.pos \in {2, 4, 6} /\ ~ IsCount(x)
IsData(x)   == x.pos \in {3, 5, 7}

Reply(i) == [p \in 1..Last(i) |-> [id |-> i, pos |-> p, part |-> "whole"]]

Init ==
  /\ sent = 0 /\ wire = Reply(0) /\ buf = <<>>
  /\ need = 0 /\ want = "line" /\ cur = -1
  /\ delivered = <<>> /\ panic = FALSE /\ torn = {}

-----------------------------------------------------------------------------
(* The connection.                                                         *)

Publish ==
  /\ sent < MaxCommands
  /\ sent' = sent + 1
  /\ wire' = wire \o Reply(sent')
  /\ UNCHANGED <<buf, need, want, cur, delivered, panic, torn>>

\* fill: the next token arrives, or what was missing of the last one.
Arrive ==
  LET x == Head(wire)
      n == Len(buf)
  IN /\ wire # <<>> /\ ~ panic
     /\ wire' = Tail(wire)
     /\ buf' = IF n > 0 /\ buf[n].part \in First
               THEN [buf EXCEPT ![n].part = "whole"]
               ELSE Append(buf, x)
     /\ UNCHANGED <<sent, need, want, cur, delivered, panic, torn>>

\* The next token arrives, but for its end.
ArriveCut ==
  /\ wire # <<>> /\ ~ panic
  /\ Head(wire).part = "whole"
  /\ \E part \in First :
       /\ buf' = Append(buf, [Head(wire) EXCEPT !.part = part])
       /\ wire' = [wire EXCEPT ![1].part = Other(part)]
  /\ UNCHANGED <<sent, need, want, cur, delivered, panic, torn>>

-----------------------------------------------------------------------------
(* ReceiveTimeout, parseReply, parseSlice, and bufio's ReadLine and ReadN. *)

\* The token at hand has arrived as far as it ever will in one piece.
Ready == buf # <<>> /\ Head(buf).part \notin First /\ ~ panic
Next1 == Head(buf)

Consume == buf' = Tail(buf) /\ cur' = Next1.id

\* Mutant: the next call goes on with the array where the last one stopped.
AbortResumes == want' = "line" /\ UNCHANGED <<need, delivered, panic>>

\* ReceiveTimeout returns an error and the loop calls it again.
Abort == need' = 0 /\ want' = "line" /\ UNCHANGED <<delivered, panic>>

\* A type assertion or an index fails.
Panic == panic' = TRUE /\ UNCHANGED <<need, want, delivered>>

\* A string or the count has been read.  Outside an array it is no
\* []interface{}; the third one completes the reply, and the loop gets a command
\* if its JSON is good.
ElementRead(good) ==
  IF need = 0
  THEN Panic
  ELSE /\ need' = need - 1 /\ want' = "line"
       /\ delivered' = IF need = 1 /\ good THEN Append(delivered, cur')
                                           ELSE delivered
       /\ UNCHANGED panic

\* Mutant: parseSlice reads one string more than the head says.
ParseHeadLong ==
  /\ Ready /\ want = "line"
  /\ IsHead(Next1) /\ Next1.part = "whole"
  /\ Consume
  /\ need' = 4
  /\ UNCHANGED <<sent, wire, want, delivered, panic, torn>>

\* Mutant: parseSlice reads one string less than the head says.
ParseHeadShort ==
  /\ Ready /\ want = "line"
  /\ IsHead(Next1) /\ Next1.part = "whole"
  /\ Consume
  /\ need' = 2
  /\ UNCHANGED <<sent, wire, want, delivered, panic, torn>>

ParseHead ==
  /\ Ready /\ want = "line"
  /\ IsHead(Next1) /\ Next1.part = "whole"
  /\ Consume
  /\ need' = 3
  /\ UNCHANGED <<sent, wire, want, delivered, panic, torn>>

ParseLength ==
  /\ Ready /\ want = "line"
  /\ IsLength(Next1) /\ Next1.part = "whole"
  /\ Consume
  /\ want' = "data"
  /\ UNCHANGED <<sent, wire, need, delivered, panic, torn>>

ParseCount ==
  /\ Ready /\ want = "line"
  /\ IsCount(Next1) /\ Next1.part = "whole"
  /\ Consume
  /\ ElementRead(FALSE)
  /\ UNCHANGED <<sent, wire, torn>>

ParseData ==
  /\ Ready /\ want = "data"
  /\ Consume
  /\ ElementRead(TRUE)
  /\ UNCHANGED <<sent, wire, torn>>

\* Data, or the rest of something, where a line should begin: "can't parse".
\* An empty line has no first byte; a rest of the payload may look like a
\* status.
SkipLine ==
  /\ Ready /\ want = "line"
  /\ IsData(Next1) \/ Next1.part # "whole"
  /\ Consume
  /\ \/ Next1.part # "eol" /\ Abort
     \/ Next1.part = "eol" /\ Panic
     \/ Next1.part = "rest" /\ Next1.pos = 7 /\ Panic
  /\ UNCHANGED <<sent, wire, torn>>

\* The data after the length line has all arrived.
DataFollows == IF Len(buf) > 1 THEN buf[2].part = "whole" ELSE FALSE

\* ReadN after a wrong length: it takes the rest of the length line and stops
\* there, or before its end, or somewhere in the data.
ReadWrong ==
  /\ Ready /\ want = "wrong"
  /\ cur' = Next1.id
  /\ \/ Next1.part = "rest" /\ buf' = Tail(buf)
     \/ Next1.part = "rest" /\ buf' = [buf EXCEPT ![1].part = "eol"]
     \/ DataFollows /\ buf' = [Tail(buf) EXCEPT ![1].part = Next1.part]
  /\ ElementRead(FALSE)
  /\ UNCHANGED <<sent, wire, torn>>

-----------------------------------------------------------------------------
(* 100 ms without a byte.                                                  *)

Tear(i) == torn' = torn \cup {i}

\* Nothing to read: silence, or a gap between two tokens of a reply.
Silence ==
  /\ buf = <<>> /\ ~ panic
  /\ need > 0 \/ want # "line"
  /\ Tear(cur)
  /\ Abort
  /\ UNCHANGED <<sent, wire, buf, cur>>

\* ReadN throws away the part it has.
DataCut ==
  /\ buf # <<>> /\ ~ panic
  /\ Next1.part \in First /\ want = "data"
  /\ Consume
  /\ Tear(Next1.id)
  /\ Abort
  /\ UNCHANGED <<sent, wire>>

\* After a wrong length, ReadN waits for more than has arrived.
WrongCut ==
  /\ buf # <<>> /\ ~ panic /\ want = "wrong"
  /\ ~ DataFollows
  /\ buf' = <<>>
  /\ cur' = Next1.id
  /\ Tear(cur')
  /\ Abort
  /\ UNCHANGED <<sent, wire>>

\* ReadLine returns the part as a line, without an error: no number, or the
\* number of an array, the count, or a length, wrong or followed by the end of
\* its line.
LineCut ==
  /\ buf # <<>> /\ ~ panic
  /\ Next1.part \in First /\ want = "line"
  /\ Consume
  /\ Tear(Next1.id)
  /\ \/ Abort
     \/ /\ IsHead(Next1) /\ Next1.part = "text"
        /\ need' = 3
        /\ UNCHANGED <<want, delivered, panic>>
     \/ /\ IsCount(Next1) /\ Next1.part = "text"
        /\ ElementRead(FALSE)
     \/ /\ IsLength(Next1)
        /\ want' = "wrong"
        /\ UNCHANGED <<need, delivered, panic>>
  /\ UNCHANGED <<sent, wire>>

-----------------------------------------------------------------------------
Parse ==
  \/ ParseHead
  \/ ParseLength
  \/ ParseCount
  \/ ParseData
  \/ SkipLine
  \/ ReadWrong

Gap ==
  \/ Silence
  \/ DataCut
  \/ WrongCut
  \/ LineCut

Next == Publish \/ Arrive \/ ArriveCut \/ Parse \/ Gap

Spec == Init /\ [][Next]_vars

\* What was sent arrives, the loop runs and its timeouts fire.
FairSpec == Spec /\ WF_vars(Arrive) /\ WF_vars(Parse) /\ WF_vars(Gap)

-----------------------------------------------------------------------------
(* Properties.                                                             *)

\* Every variable has its type: parseSlice never reads past the array.
TypeOK ==
  /\ sent \in 0..MaxCommands /\ wire \in Seq(Token) /\ buf \in Seq(Token)
  /\ need \in 0..3 /\ want \in {"line", "data", "wrong"}
  /\ cur \in Id \cup {-1} /\ delivered \in Seq(Id) /\ panic \in BOOLEAN
  /\ torn \subseteq Id

\* Whatever is torn: the loop gets commands that were published, in the order
\* they were, each once at most, and none that is torn.
DeliveredInOrder ==
  /\ \A i, j \in DOMAIN delivered : i < j => delivered[i] < delivered[j]
  /\ \A i \in DOMAIN delivered : delivered[i] \in 1..sent \ torn

Delivered(i) == \E k \in DOMAIN delivered : delivered[k] = i

\* The loop goes down only over a torn reply, SUBSCRIBE's included.
PanicIfTorn == panic => torn # {}

\* Every command is heard, or it was torn, or a torn one before it has brought
\* the process down.
Heard == \A i \in Id \ {0} : sent >= i ~> (Delivered(i) \/ i \in torn \/ panic)
=============================================================================
