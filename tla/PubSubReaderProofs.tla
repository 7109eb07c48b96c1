------------------------- MODULE PubSubReaderProofs -------------------------
(***************************************************************************)
(* Proofs about PubSubReader, for any number of commands, cut and delayed  *)
(* anywhere.                                                               *)
(***************************************************************************)
EXTENDS PubSubReader, SequenceTheorems, TLAPS

USE BoundAssumption

-----------------------------------------------------------------------------
(* The inductive invariant.                                                *)

\* Tokens are numbered in the order in which Redis sends them.
Key(x) == IF x.id = 0 THEN x.pos - 6 ELSE 7 * (x.id - 1) + x.pos

\* The number of the next token Redis will send, of the first one on the wire
\* and of the first one in the buffer.
SentKey == 7 * sent + 1
WireKey == SentKey - Len(wire)
Cut == buf # <<>> /\ buf[Len(buf)].part \in First
BufKey == (IF Cut THEN WireKey + 1 ELSE WireKey) - Len(buf)

Rest == {"rest", "eol"}

\* The tokens on the wire follow each other, and only the first may be what is
\* missing of one that was cut.
WireInv ==
  \A i \in DOMAIN wire :
    /\ Key(wire[i]) = WireKey + i - 1
    /\ wire[i].part \in {"whole"} \cup Rest
    /\ i > 1 => wire[i].part = "whole"

\* So do those in the buffer, up to those on the wire: only the last may be
\* incomplete, its end is then on the wire; only the first may be a rest.
BufInv ==
  /\ \A i \in DOMAIN buf :
       /\ Key(buf[i]) = BufKey + i - 1
       /\ buf[i].part \in First =>
            i = Len(buf) /\ wire # <<>> /\ wire[1].part \in Rest
       /\ buf[i].part \in Rest => i = 1
  /\ buf # <<>> /\ wire # <<>> /\ wire[1].part \in Rest => Cut

\* The token that is read next.
Some == buf # <<>> \/ wire # <<>>
Tok == IF buf # <<>> THEN buf[1] ELSE wire[1]

Starts(x) == IsHead(x) /\ x.part \notin Rest

\* Outside a reply, the next token begins one, or is of a torn one.
OutInv == Some => Starts(Tok) \/ Tok.id \in torn

\* Inside an array, the next token is the length that need calls for, or the
\* command is torn and the next token will end the array.
ArrayInv ==
  \/ cur \notin torn /\ Tok.pos = 8 - 2 * need /\ Tok.part \notin Rest
  \/ cur \in torn /\ (Tok.part \in Rest \/ IsData(Tok))

\* After a length, the next token is its data; a length outside an array is
\* that of a torn command.
DataInv ==
  /\ IsData(Tok) /\ Tok.part \notin Rest
  /\ need > 0 => Tok.pos = 9 - 2 * need /\ cur \notin torn
  /\ need = 0 => cur \in torn

\* After a wrong length, the next token is what is missing of it.
WrongInv == IsLength(Tok) /\ Tok.part \in Rest /\ cur \in torn

ParseInv ==
  /\ Some => cur <= Tok.id /\ (Starts(Tok) => cur < Tok.id)
  /\ need > 0 \/ want # "line" => Some /\ Tok.id = cur
  /\ want = "line" /\ need = 0 => OutInv
  /\ want = "line" /\ need > 0 => ArrayInv
  /\ want = "data" => DataInv
  /\ want = "wrong" => WrongInv

\* Commands are read in order; those that were delivered, or torn, are behind.
PastInv ==
  /\ cur <= sent
  /\ \A i \in torn : i <= cur
  /\ \A k \in DOMAIN delivered : /\ delivered[k] <= cur
                                 /\ need > 0 => delivered[k] < cur

Inv == /\ TypeOK /\ WireInv /\ BufInv /\ PastInv /\ DeliveredInOrder
       /\ PanicIfTorn /\ (~ panic => ParseInv)

-----------------------------------------------------------------------------
(* Tokens and their numbers.                                               *)

\* The number of a token tells which it is.
LEMMA KeyFacts ==
  ASSUME NEW x \in Token, NEW y \in Token
  PROVE  /\ Key(x) \in Int
         /\ Key(x) = Key(y) => x.id = y.id /\ x.pos = y.pos
         /\ Key(y) = Key(x) + 1 /\ x.pos < Last(x.id) =>
              y.id = x.id /\ y.pos = x.pos + 1
         /\ Key(y) = Key(x) + 1 /\ x.pos = Last(x.id) =>
              y.id = x.id + 1 /\ y.pos = 1
         /\ \A n \in Nat : Key(x) < 7 * n + 1 <=> x.id <= n
<1>2. \A a, b \in Nat \ {0}, p, q \in 1..7 :
        /\ 7 * (a - 1) + p \in Nat
        /\ 7 * (a - 1) + p = 7 * (b - 1) + q => a = b /\ p = q
        /\ 7 * (b - 1) + q = 7 * (a - 1) + p + 1 /\ p < 7 => b = a /\ q = p + 1
        /\ 7 * (b - 1) + q = 7 * (a - 1) + p + 1 /\ p = 7 => b = a + 1 /\ q = 1
  OBVIOUS
<1>3. \A a \in Nat \ {0}, p \in 1..7, n \in Nat :
        7 * (a - 1) + p < 7 * n + 1 <=> a <= n
  OBVIOUS
<1>4. \A b \in Nat \ {0}, p \in 1..6, q \in 1..7 :
        /\ p - 6 \in Int /\ p - 6 <= 0
        /\ 7 * (b - 1) + q \in Int /\ 7 * (b - 1) + q > 0
        /\ 7 * (b - 1) + q = p - 6 + 1 => p = 6 /\ b = 1 /\ q = 1
        /\ 7 * (b - 1) + q # p - 6
        /\ p - 6 # 7 * (b - 1) + q + 1
  OBVIOUS
<1>5. \A n \in Nat : 7 * n + 1 > 0
  OBVIOUS
<1>6. /\ x.id \in Nat /\ y.id \in Nat /\ x.pos \in 1..7 /\ y.pos \in 1..7
      /\ x.pos <= Last(x.id) /\ y.pos <= Last(y.id)
  BY DEF Token, Id
<1>7. CASE x.id = 0 /\ y.id = 0
  <2>1. x.pos \in 1..6 /\ y.pos \in 1..6
    BY <1>6, <1>7 DEF Last
  <2> QED BY <1>6, <1>7, <2>1 DEF Key, Last
<1>8. CASE x.id = 0 /\ y.id # 0
  <2>1. x.pos \in 1..6 /\ y.id \in Nat \ {0}
    BY <1>6, <1>8 DEF Last
  <2>2. Key(x) = x.pos - 6 /\ Key(y) = 7 * (y.id - 1) + y.pos /\ Last(x.id) = 6
    BY <1>8 DEF Key, Last
  <2>3. /\ Key(x) \in Int /\ Key(x) # Key(y)
        /\ Key(y) = Key(x) + 1 => x.pos = 6 /\ y.id = 1 /\ y.pos = 1
    BY <1>4, <1>6, <2>1, <2>2
  <2>4. \A n \in Nat : Key(x) < 7 * n + 1 /\ x.id <= n
    BY <1>4, <1>5, <1>6, <1>8, <2>1, <2>2
  <2> QED BY <1>6, <1>8, <2>2, <2>3, <2>4
<1>9. CASE x.id # 0 /\ y.id = 0
  <2>1. y.pos \in 1..6 /\ x.id \in Nat \ {0}
    BY <1>6, <1>9 DEF Last
  <2> QED BY <1>3, <1>4, <1>6, <1>9, <2>1 DEF Key, Last
<1>10. CASE x.id # 0 /\ y.id # 0
  BY <1>2, <1>3, <1>6, <1>10 DEF Key, Last
<1> QED BY <1>7, <1>8, <1>9, <1>10

\* Where a reply ends: only data and the count come last.
LEMMA LastFacts ==
  ASSUME NEW x \in Token
  PROVE  /\ x.pos <= Last(x.id)
         /\ x.pos < 6 => x.pos < Last(x.id)
         /\ IsLength(x) => x.pos < Last(x.id) /\ x.pos \in {2, 4, 6}
         /\ x.pos = 7 => x.pos = Last(x.id) /\ x.id # 0
         /\ IsCount(x) => x.pos = 6 /\ x.pos = Last(x.id)
         /\ Last(x.id) \in Nat
BY DEF Token, Id, Last, IsLength, IsCount

\* The last token that was sent is the last of its reply.
LEMMA NotLast ==
  ASSUME NEW x \in Token, x.pos < Last(x.id), NEW n \in Nat
  PROVE  Key(x) # 7 * n
<1>1. x.id \in Nat /\ x.pos \in 1..6 /\ (x.id = 0 => x.pos \in 1..5)
  BY DEF Token, Id, Last
<1>2. \A a \in Nat \ {0}, p \in 1..6 : 7 * (a - 1) + p # 7 * n
  OBVIOUS
<1>3. CASE x.id = 0
  BY <1>1, <1>3 DEF Key
<1>4. CASE x.id # 0
  BY <1>1, <1>2, <1>4 DEF Key
<1> QED BY <1>3, <1>4

\* Another part of a token is a token, with the same number.
LEMMA PartType ==
  ASSUME NEW x \in Token, NEW p \in Part, NEW y, y = [x EXCEPT !.part = p]
  PROVE  /\ y \in Token /\ y.id = x.id /\ y.pos = x.pos /\ y.part = p
         /\ Key(y) = Key(x)
BY DEF Token, Key

\* The streams are made of tokens.
LEMMA StreamType ==
  ASSUME TypeOK
  PROVE  /\ Len(wire) \in Nat /\ Len(buf) \in Nat /\ sent \in Nat
         /\ DOMAIN wire = 1..Len(wire) /\ DOMAIN buf = 1..Len(buf)
         /\ \A i \in 1..Len(wire) : wire[i] \in Token
         /\ \A i \in 1..Len(buf) : buf[i] \in Token
         /\ wire # <<>> <=> Len(wire) > 0
         /\ buf # <<>> <=> Len(buf) > 0
         /\ Some => Tok \in Token
BY DEF TypeOK, Some, Tok

\* What Head, Tail and Append do to a stream.
LEMMA TailFacts ==
  ASSUME NEW s \in Seq(Token), s # <<>>
  PROVE  /\ Head(s) = s[1] /\ Len(s) \in Nat \ {0} /\ Tail(s) \in Seq(Token)
         /\ Len(Tail(s)) = Len(s) - 1 /\ DOMAIN Tail(s) = 1..(Len(s) - 1)
         /\ \A i \in 1..(Len(s) - 1) : Tail(s)[i] = s[i + 1]
OBVIOUS

LEMMA AppendFacts ==
  ASSUME NEW s \in Seq(Token), NEW x \in Token
  PROVE  /\ Append(s, x) \in Seq(Token) /\ Len(Append(s, x)) = Len(s) + 1
         /\ Len(s) \in Nat /\ DOMAIN Append(s, x) = 1..(Len(s) + 1)
         /\ \A i \in 1..Len(s) : Append(s, x)[i] = s[i]
         /\ Append(s, x)[Len(s) + 1] = x
OBVIOUS

LEMMA ExceptFacts ==
  ASSUME NEW s \in Seq(Token), NEW n \in DOMAIN s, NEW x \in Token
  PROVE  /\ [s EXCEPT ![n] = x] \in Seq(Token)
         /\ Len([s EXCEPT ![n] = x]) = Len(s)
         /\ DOMAIN [s EXCEPT ![n] = x] = 1..Len(s) /\ DOMAIN s = 1..Len(s)
         /\ Len(s) \in Nat
         /\ [s EXCEPT ![n] = x][n] = x
         /\ \A i \in 1..Len(s) : i # n => [s EXCEPT ![n] = x][i] = s[i]
<1>1. Len(s) \in Nat /\ s \in [1..Len(s) -> Token] /\ DOMAIN s = 1..Len(s)
  OBVIOUS
<1>2. [s EXCEPT ![n] = x] \in [1..Len(s) -> Token]
  BY <1>1
<1> QED BY <1>1, <1>2

-----------------------------------------------------------------------------
(* The streams.                                                            *)

StreamInv == wire \in Seq(Token) /\ buf \in Seq(Token) /\ WireInv /\ BufInv

\* A command is seven tokens.
LEMMA ReplyType ==
  ASSUME NEW i \in Id \ {0}
  PROVE  /\ Reply(i) \in Seq(Token) /\ Len(Reply(i)) = 7
         /\ \A p \in 1..7 : /\ Reply(i)[p].part = "whole" /\ Reply(i)[p].id = i
                            /\ Reply(i)[p].pos = p
                            /\ Key(Reply(i)[p]) = 7 * (i - 1) + p
<1>1. Reply(i) \in [1..7 -> Token]
  <2> SUFFICES ASSUME NEW p \in 1..7
               PROVE  [id |-> i, pos |-> p, part |-> "whole"] \in Token
    BY DEF Reply, Last, Id
  <2> QED BY DEF Token, Part, Last, Id
<1>2. Reply(i) \in Seq(Token) /\ Len(Reply(i)) = 7
  <2>1. \A n \in Nat : \A f \in [1..n -> Token] : f \in Seq(Token) /\ Len(f) = n
    OBVIOUS
  <2> QED BY <1>1, <2>1
<1> QED BY <1>2 DEF Reply, Key, Last, Id

\* A command that is published comes after what is on its way.
LEMMA PublishStream ==
  ASSUME TypeOK, StreamInv, Publish
  PROVE  /\ StreamInv' /\ Some'
         /\ Some => Tok' = Tok
         /\ ~ Some => Starts(Tok') /\ Tok'.id = sent + 1
<1> DEFINE r == Reply(sent + 1)
<1>0. sent + 1 \in Id \ {0} /\ sent' = sent + 1 /\ wire' = wire \o r /\ buf' = buf
  BY DEF Publish, TypeOK, Id
<1>1. /\ r \in Seq(Token) /\ Len(r) = 7
      /\ \A p \in 1..7 : /\ r[p].part = "whole" /\ r[p].id = sent + 1
                         /\ r[p].pos = p
                         /\ Key(r[p]) = 7 * sent + p
  <2>1. 7 * ((sent + 1) - 1) = 7 * sent
    BY StreamType
  <2>2. /\ r \in Seq(Token) /\ Len(r) = 7
        /\ \A p \in 1..7 : /\ r[p].part = "whole" /\ r[p].id = sent + 1
                           /\ r[p].pos = p
                           /\ Key(r[p]) = 7 * ((sent + 1) - 1) + p
    BY <1>0, ReplyType
  <2> HIDE DEF r
  <2> QED BY <2>1, <2>2
<1> HIDE DEF r
<1>2. /\ wire' \in Seq(Token) /\ Len(wire') = Len(wire) + 7
      /\ DOMAIN wire' = 1..(Len(wire) + 7)
      /\ \A i \in 1..Len(wire) : wire'[i] = wire[i]
      /\ \A i \in (Len(wire) + 1)..(Len(wire) + 7) : wire'[i] = r[i - Len(wire)]
  <2>1. wire \in Seq(Token) /\ Len(wire) \in Nat
    BY StreamType DEF StreamInv
  <2>2. /\ wire \o r \in Seq(Token) /\ Len(wire \o r) = Len(wire) + 7
        /\ \A i \in 1..(Len(wire) + 7) :
             (wire \o r)[i] = IF i <= Len(wire) THEN wire[i] ELSE r[i - Len(wire)]
    <3>1. /\ wire \o r \in Seq(Token) /\ Len(wire \o r) = Len(wire) + Len(r)
          /\ \A i \in 1..(Len(wire) + Len(r)) :
               (wire \o r)[i]
                 = IF i <= Len(wire) THEN wire[i] ELSE r[i - Len(wire)]
      BY <1>1, <2>1, ConcatProperties
    <3> QED BY <1>1, <3>1
  <2>3. DOMAIN (wire \o r) = 1..(Len(wire) + 7)
    BY <2>2
  <2> QED BY <1>0, <2>1, <2>2, <2>3
<1>3. WireKey' = WireKey /\ BufKey' = BufKey /\ Cut' = Cut
  <2>1. WireKey' = WireKey
    <3>1. SentKey' = SentKey + 7 /\ SentKey \in Nat
      BY <1>0, StreamType DEF SentKey
    <3> QED BY <1>2, <3>1, StreamType DEF WireKey
  <2>2. Cut' = Cut
    BY <1>0 DEF Cut
  <2> QED BY <1>0, <2>1, <2>2 DEF BufKey
<1>4. WireInv'
  <2> SUFFICES ASSUME NEW i \in 1..(Len(wire) + 7)
               PROVE  /\ Key(wire'[i]) = WireKey + i - 1
                      /\ wire'[i].part \in {"whole"} \cup Rest
                      /\ i > 1 => wire'[i].part = "whole"
    BY <1>2, <1>3 DEF WireInv
  <2>1. CASE i <= Len(wire)
    BY <1>2, <2>1, StreamType DEF StreamInv, WireInv
  <2>2. CASE i > Len(wire)
    <3>1. i - Len(wire) \in 1..7 /\ wire'[i] = r[i - Len(wire)]
      BY <1>2, <2>2, StreamType
    <3>2. Key(wire'[i]) = 7 * sent + (i - Len(wire)) /\ wire'[i].part = "whole"
      BY <1>1, <3>1
    <3> QED BY <3>2, StreamType DEF WireKey, SentKey
  <2> QED BY <2>1, <2>2, StreamType
<1>5. wire' # <<>> /\ wire'[1] = IF wire # <<>> THEN wire[1] ELSE r[1]
  BY <1>2, StreamType
<1>6. BufInv'
  <2>1. wire # <<>> => wire'[1] = wire[1]
    BY <1>5
  <2>2. wire = <<>> => wire'[1].part \notin Rest
    BY <1>1, <1>5 DEF Rest
  <2> QED BY <1>0, <1>3, <1>5, <2>1, <2>2 DEF StreamInv, BufInv
<1> QED BY <1>0, <1>1, <1>2, <1>4, <1>5, <1>6
        DEF StreamInv, Some, Tok, Starts, IsHead, Rest

\* The numbers are integers, and the first token on the wire has the first.
LEMMA WireFacts ==
  ASSUME TypeOK, StreamInv
  PROVE  /\ WireKey \in Int /\ BufKey \in Int /\ SentKey \in Int
         /\ SentKey = WireKey + Len(wire)
         /\ wire # <<>> => 1 \in DOMAIN wire /\ Key(wire[1]) = WireKey
         /\ buf # <<>> => 1 \in DOMAIN buf /\ Key(buf[1]) = BufKey
<1>1. WireKey \in Int /\ SentKey \in Int /\ SentKey = WireKey + Len(wire)
  BY StreamType DEF WireKey, SentKey
<1>2. BufKey \in Int
  BY <1>1, StreamType DEF BufKey
<1>3. wire # <<>> => 1 \in DOMAIN wire /\ Key(wire[1]) = WireKey + 1 - 1
  BY StreamType DEF StreamInv, WireInv
<1>4. buf # <<>> => 1 \in DOMAIN buf /\ Key(buf[1]) = BufKey + 1 - 1
  BY StreamType DEF StreamInv, BufInv
<1> QED BY <1>1, <1>2, <1>3, <1>4

\* Two tokens that the parser takes in the same way, now or when they have
\* arrived completely.
Alike(y, x) ==
  y.id = x.id /\ y.pos = x.pos /\ (y.part \in Rest <=> x.part \in Rest)

\* Tokens move from the wire to the buffer; what is read next stays alike.
LEMMA ArriveStream ==
  ASSUME TypeOK, StreamInv, Arrive
  PROVE  StreamInv' /\ Some /\ Some' /\ Alike(Tok', Tok)
<1> DEFINE n == Len(buf)
<1>0. /\ wire \in Seq(Token) /\ wire # <<>> /\ wire' = Tail(wire) /\ sent' = sent
      /\ buf \in Seq(Token) /\ n \in Nat /\ wire[1] \in Token /\ 1 \in DOMAIN wire
      /\ wire[1].part \in {"whole"} \cup Rest
  BY StreamType DEF Arrive, StreamInv, WireInv
<1>1. /\ wire' \in Seq(Token) /\ Len(wire') = Len(wire) - 1
      /\ Len(wire) \in Nat \ {0} /\ Head(wire) = wire[1]
      /\ DOMAIN wire' = 1..(Len(wire) - 1)
      /\ \A i \in 1..(Len(wire) - 1) : wire'[i] = wire[i + 1]
  BY <1>0, TailFacts
<1>2. WireKey' = WireKey + 1 /\ WireKey \in Int /\ Key(wire[1]) = WireKey
  <2>1. SentKey' = SentKey
    BY <1>0 DEF SentKey
  <2> QED BY <1>0, <1>1, <2>1, WireFacts DEF WireKey
<1>3. WireInv' /\ (wire' # <<>> => wire'[1].part = "whole")
  <2>1. \A i \in 1..(Len(wire) - 1) : /\ Key(wire[i + 1]) = WireKey + (i + 1) - 1
                                      /\ wire[i + 1].part = "whole"
    <3> TAKE i \in 1..(Len(wire) - 1)
    <3>1. i + 1 \in DOMAIN wire /\ i + 1 > 1
      BY <1>1, StreamType
    <3> QED BY <3>1 DEF StreamInv, WireInv
  <2>2. wire' # <<>> => 1 \in 1..(Len(wire) - 1)
    BY <1>1
  <2> QED BY <1>1, <1>2, <2>1, <2>2 DEF WireInv
<1>4. CASE Cut
  <2>1. n > 0 /\ buf[n].part \in First /\ n \in DOMAIN buf /\ buf[n] \in Token
    BY <1>4, StreamType DEF Cut
  <2> DEFINE y == [buf[n] EXCEPT !.part = "whole"]
  <2>2. /\ y \in Token /\ y.id = buf[n].id /\ y.pos = buf[n].pos
        /\ y.part = "whole" /\ Key(y) = Key(buf[n])
    BY <2>1, PartType DEF Part
  <2>3. buf' = [buf EXCEPT ![n] = y]
    BY <2>1 DEF Arrive
  <2> HIDE DEF y
  <2>4. /\ buf' \in Seq(Token) /\ Len(buf') = n /\ DOMAIN buf' = 1..n
        /\ buf'[n] = y /\ \A i \in 1..n : i # n => buf'[i] = buf[i]
    BY <1>0, <2>1, <2>2, <2>3, ExceptFacts
  <2>5. ~ Cut' /\ BufKey' = BufKey
    BY <1>0, <1>2, <1>4, <2>2, <2>4 DEF Cut, BufKey, First
  <2>6. \A i \in 1..n : /\ Key(buf'[i]) = BufKey + i - 1
                        /\ buf'[i].part \notin First
                        /\ buf'[i].part \in Rest => i = 1
    BY <1>0, <2>1, <2>2, <2>4, StreamType DEF StreamInv, BufInv, First, Rest
  <2>7. BufInv'
    BY <1>3, <2>4, <2>5, <2>6 DEF BufInv, Rest
  <2>8. buf # <<>> /\ buf' # <<>>
    <3>1. buf # <<>>
      BY <1>4 DEF Cut
    <3>2. Len(buf') > 0
      BY <2>1, <2>4
    <3>3. \A s \in Seq(Token) : Len(s) > 0 => s # <<>>
      OBVIOUS
    <3> QED BY <2>4, <3>1, <3>2, <3>3
  <2>9. Alike(buf'[1], buf[1])
    <3>1. CASE n = 1
      BY <2>1, <2>2, <2>4, <3>1 DEF Alike, First, Rest
    <3>2. CASE n # 1
      <4>1. 1 \in 1..n
        BY <1>0, <2>1
      <4> QED BY <2>4, <3>2, <4>1 DEF Alike
    <3> QED BY <3>1, <3>2
  <2> QED BY <1>0, <1>1, <1>3, <2>4, <2>7, <2>8, <2>9 DEF StreamInv, Some, Tok
<1>5. CASE ~ Cut
  <2>1. buf' = Append(buf, wire[1])
    BY <1>0, <1>1, <1>5, StreamType DEF Arrive, Cut
  <2>2. /\ buf' \in Seq(Token) /\ Len(buf') = n + 1 /\ DOMAIN buf' = 1..(n + 1)
        /\ \A i \in 1..n : buf'[i] = buf[i]
        /\ buf'[n + 1] = wire[1]
    BY <1>0, <2>1, AppendFacts
  <2>3. ~ Cut' /\ BufKey' = BufKey /\ BufKey = WireKey - n
    BY <1>0, <1>2, <1>5, <2>2 DEF Cut, BufKey, First, Rest
  <2>4. n > 0 => wire[1].part \notin Rest
    BY <1>0, <1>5, StreamType DEF StreamInv, BufInv
  <2>5. \A i \in 1..(n + 1) : /\ Key(buf'[i]) = BufKey + i - 1
                              /\ buf'[i].part \notin First
                              /\ buf'[i].part \in Rest => i = 1
    <3> SUFFICES ASSUME NEW i \in 1..(n + 1)
                 PROVE  /\ Key(buf'[i]) = BufKey + i - 1
                        /\ buf'[i].part \notin First
                        /\ buf'[i].part \in Rest => i = 1
      OBVIOUS
    <3>1. CASE i = n + 1
      BY <1>0, <1>2, <2>2, <2>3, <2>4, <3>1 DEF First, Rest
    <3>2. CASE i \in 1..n
      BY <1>5, <2>2, <3>2, StreamType DEF StreamInv, BufInv, Cut
    <3> QED BY <1>0, <3>1, <3>2
  <2>6. BufInv'
    BY <1>3, <2>2, <2>3, <2>5 DEF BufInv, Rest
  <2>7. buf' # <<>> /\ buf'[1] = Tok
    BY <1>0, <2>2, StreamType DEF Tok
  <2> QED BY <1>0, <1>1, <1>3, <2>2, <2>6, <2>7
          DEF StreamInv, Some, Tok, Alike
<1> QED BY <1>4, <1>5

\* So they do when one is cut on the way.
LEMMA ArriveCutStream ==
  ASSUME TypeOK, StreamInv, ArriveCut
  PROVE  StreamInv' /\ Some /\ Some' /\ Alike(Tok', Tok)
<1> DEFINE n == Len(buf)
<1>0. /\ wire \in Seq(Token) /\ wire # <<>> /\ sent' = sent /\ Head(wire) = wire[1]
      /\ buf \in Seq(Token) /\ n \in Nat /\ wire[1] \in Token /\ 1 \in DOMAIN wire
      /\ wire[1].part = "whole" /\ Key(wire[1]) = WireKey /\ WireKey \in Int
  <2>1. /\ wire \in Seq(Token) /\ wire # <<>> /\ sent' = sent
        /\ buf \in Seq(Token) /\ Head(wire) = wire[1] /\ wire[1].part = "whole"
    BY DEF ArriveCut, StreamInv
  <2> QED BY <2>1, StreamType, WireFacts
<1>1. PICK p \in First : /\ buf' = Append(buf, [wire[1] EXCEPT !.part = p])
                         /\ wire' = [wire EXCEPT ![1].part = Other(p)]
  BY <1>0 DEF ArriveCut
<1> DEFINE x == [wire[1] EXCEPT !.part = p]
           y == [wire[1] EXCEPT !.part = Other(p)]
<1>2. /\ x \in Token /\ x.id = wire[1].id /\ x.pos = wire[1].pos /\ x.part = p
      /\ Key(x) = Key(wire[1]) /\ y \in Token /\ Key(y) = Key(wire[1])
      /\ y.part \in Rest
  BY <1>0, PartType DEF Part, First, Other, Rest
<1>3. wire' = [wire EXCEPT ![1] = y] /\ buf' = Append(buf, x)
  BY <1>1
<1> HIDE DEF x, y
<1>4. /\ wire' \in Seq(Token) /\ Len(wire') = Len(wire)
      /\ DOMAIN wire' = 1..Len(wire) /\ DOMAIN wire = 1..Len(wire)
      /\ wire'[1] = y /\ \A i \in 1..Len(wire) : i # 1 => wire'[i] = wire[i]
  BY <1>0, <1>2, <1>3, ExceptFacts
<1>5. /\ buf' \in Seq(Token) /\ Len(buf') = n + 1 /\ DOMAIN buf' = 1..(n + 1)
      /\ \A i \in 1..n : buf'[i] = buf[i]
      /\ buf'[n + 1] = x
  BY <1>0, <1>2, <1>3, AppendFacts
<1>6. WireKey' = WireKey
  BY <1>0, <1>4 DEF WireKey, SentKey
<1>7. WireInv'
  BY <1>0, <1>2, <1>4, <1>6 DEF StreamInv, WireInv
<1>8. ~ Cut /\ \A i \in 1..n : buf[i].part \notin First
  BY <1>0, StreamType DEF StreamInv, BufInv, Cut, Rest
<1>9. Cut' /\ BufKey' = BufKey /\ BufKey = WireKey - n
  BY <1>0, <1>2, <1>5, <1>6, <1>8 DEF Cut, BufKey
<1>10. \A i \in 1..(n + 1) : /\ Key(buf'[i]) = BufKey + i - 1
                             /\ buf'[i].part \in First => i = n + 1
                             /\ buf'[i].part \in Rest => i = 1
  <2> SUFFICES ASSUME NEW i \in 1..(n + 1)
               PROVE  /\ Key(buf'[i]) = BufKey + i - 1
                      /\ buf'[i].part \in First => i = n + 1
                      /\ buf'[i].part \in Rest => i = 1
    OBVIOUS
  <2>1. CASE i = n + 1
    BY <1>0, <1>2, <1>5, <1>9, <2>1 DEF First, Rest
  <2>2. CASE i \in 1..n
    BY <1>5, <1>8, <2>2, StreamType DEF StreamInv, BufInv
  <2> QED BY <1>0, <2>1, <2>2
<1>11. wire' # <<>> /\ wire'[1].part \in Rest
  BY <1>0, <1>2, <1>4
<1>12. BufInv'
  BY <1>5, <1>9, <1>10, <1>11 DEF BufInv
<1>13. buf' # <<>> /\ Alike(buf'[1], Tok)
  BY <1>0, <1>2, <1>5, StreamType DEF Tok, Alike, First, Rest
<1> QED BY <1>0, <1>4, <1>5, <1>7, <1>12, <1>13 DEF StreamInv, Some, Tok

\* The parser reads a token: the next one follows it, or is what is missing of
\* it.
LEMMA PopStream ==
  ASSUME TypeOK, StreamInv, buf # <<>>, buf' = Tail(buf),
         UNCHANGED <<sent, wire>>
  PROVE  /\ StreamInv'
         /\ Tok.part \in First => /\ Some' /\ Tok'.id = Tok.id
                                  /\ Tok'.pos = Tok.pos /\ Tok'.part \in Rest
         /\ Tok.part \notin First =>
              /\ Some' => Key(Tok') = Key(Tok) + 1 /\ Tok'.part \notin Rest
              /\ Tok.pos < Last(Tok.id) => Some'
<1> DEFINE n == Len(buf)
<1>0. /\ n \in Nat \ {0} /\ DOMAIN buf = 1..n /\ buf[1] \in Token /\ 1 \in DOMAIN buf
      /\ Key(buf[1]) = BufKey /\ Tok = buf[1] /\ buf \in Seq(Token)
  <2>1. Tok = buf[1] /\ buf \in Seq(Token)
    BY DEF Tok, StreamInv
  <2>2. n \in Nat /\ n > 0 /\ DOMAIN buf = 1..n /\ \A i \in 1..n : buf[i] \in Token
    BY StreamType
  <2>3. 1 \in DOMAIN buf /\ Key(buf[1]) = BufKey
    BY WireFacts
  <2> QED BY <2>1, <2>2, <2>3
<1>1. /\ buf' \in Seq(Token) /\ Len(buf') = n - 1 /\ DOMAIN buf' = 1..(n - 1)
      /\ \A i \in 1..(n - 1) : buf'[i] = buf[i + 1]
  BY <1>0, TailFacts
<1>2. WireKey' = WireKey /\ WireInv'
  BY DEF WireKey, SentKey, StreamInv, WireInv
<1>3. CASE n = 1
  <2>1. buf' = <<>> /\ ~ Cut'
    BY <1>1, <1>3 DEF Cut
  <2>2. BufInv'
    BY <1>1, <1>3, <2>1 DEF BufInv
  <2>3. Some' <=> wire # <<>>
    BY <2>1 DEF Some
  <2>4. Some' => Tok' = wire[1] /\ wire[1] \in Token /\ Key(wire[1]) = WireKey
    BY <2>1, StreamType, WireFacts DEF Some, Tok
  <2>5. CASE Tok.part \in First
    <3>1. Cut /\ wire # <<>> /\ wire[1].part \in Rest
      BY <1>0, <1>3, <2>5 DEF Cut, StreamInv, BufInv
    <3>2. Key(Tok) = WireKey
      BY <1>0, <1>3, <3>1, WireFacts DEF BufKey
    <3>3. Some' /\ Tok' = wire[1] /\ wire[1] \in Token /\ Key(wire[1]) = Key(Tok)
      BY <2>3, <2>4, <3>1, <3>2
    <3>4. wire[1].id = Tok.id /\ wire[1].pos = Tok.pos
      BY <1>0, <3>3, KeyFacts
    <3>5. StreamInv'
      BY <1>1, <1>2, <2>2 DEF StreamInv
    <3> QED BY <2>5, <3>1, <3>3, <3>4, <3>5
  <2>6. CASE Tok.part \notin First
    <3>1. ~ Cut
      BY <1>0, <1>3, <2>6 DEF Cut
    <3>2. Key(Tok) = WireKey - 1
      BY <1>0, <1>3, <3>1, WireFacts DEF BufKey
    <3>3. wire # <<>> => wire[1].part \notin Rest
      BY <3>1 DEF StreamInv, BufInv
    <3>4. ASSUME Tok.pos < Last(Tok.id) PROVE wire # <<>>
      <4> SUFFICES ASSUME wire = <<>> PROVE FALSE
        OBVIOUS
      <4>1. Key(Tok) = 7 * sent /\ sent \in Nat
        BY <3>2, WireFacts, StreamType DEF SentKey
      <4> QED BY <1>0, <3>4, <4>1, NotLast
    <3> QED BY <1>1, <1>2, <2>2, <2>3, <2>4, <2>6, <3>2, <3>3, <3>4, WireFacts
            DEF StreamInv
  <2> QED BY <2>5, <2>6
<1>4. CASE n > 1
  <2>1. /\ buf' # <<>> /\ Len(buf') \in 1..(n - 1) /\ buf'[Len(buf')] = buf[n]
        /\ buf'[1] = buf[2] /\ 2 \in DOMAIN buf
    <3>1. n - 1 \in 1..(n - 1) /\ 1 \in 1..(n - 1) /\ 2 \in 1..n
      BY <1>0, <1>4
    <3>2. buf'[n - 1] = buf[(n - 1) + 1] /\ (n - 1) + 1 = n /\ buf'[1] = buf[1 + 1]
      BY <1>0, <1>1, <3>1
    <3>3. buf' # <<>>
      BY <1>1, <3>1
    <3> QED BY <1>0, <1>1, <3>1, <3>2, <3>3
  <2>2. Cut' = Cut /\ BufKey' = BufKey + 1
    <3>1. Cut' = Cut
      BY <1>0, <2>1 DEF Cut
    <3> QED BY <1>0, <1>1, <1>2, <3>1, WireFacts DEF BufKey
  <2>3. \A i \in 1..(n - 1) :
          /\ Key(buf'[i]) = BufKey' + i - 1
          /\ buf'[i].part \in First =>
               i = n - 1 /\ wire # <<>> /\ wire[1].part \in Rest
          /\ buf'[i].part \notin Rest
    <3> TAKE i \in 1..(n - 1)
    <3>1. i + 1 \in DOMAIN buf /\ buf'[i] = buf[i + 1] /\ i + 1 # 1
      BY <1>0, <1>1
    <3>2. /\ Key(buf[i + 1]) = BufKey + (i + 1) - 1
          /\ buf[i + 1].part \in First =>
               i + 1 = n /\ wire # <<>> /\ wire[1].part \in Rest
          /\ buf[i + 1].part \notin Rest
      BY <3>1 DEF StreamInv, BufInv
    <3>3. BufKey \in Int /\ i \in Int /\ n \in Int
      BY <1>0, WireFacts
    <3>4. BufKey + (i + 1) - 1 = BufKey' + i - 1 /\ (i + 1 = n => i = n - 1)
      BY <2>2, <3>3
    <3> QED BY <3>1, <3>2, <3>4
  <2>4. BufInv'
    BY <1>0, <1>1, <2>2, <2>3 DEF BufInv, StreamInv
  <2>5. Some' /\ Tok' = buf'[1] /\ Tok.part \notin First
    BY <1>0, <1>4, <2>1 DEF Some, Tok, StreamInv, BufInv
  <2>6. Key(Tok') = Key(Tok) + 1 /\ Tok'.part \notin Rest
    <3>1. Key(buf'[1]) = BufKey' + 1 - 1 /\ buf'[1].part \notin Rest
      <4>1. 1 \in 1..(n - 1)
        BY <1>0, <1>4
      <4> QED BY <2>3, <4>1
    <3>2. BufKey \in Int
      BY WireFacts
    <3>3. BufKey' + 1 - 1 = BufKey + 1
      BY <2>2, <3>2
    <3> QED BY <1>0, <2>5, <3>1, <3>3 DEF Key
  <2> QED BY <1>1, <1>2, <2>4, <2>5, <2>6 DEF StreamInv
<1> QED BY <1>0, <1>3, <1>4


\* ReadN stops before the end of a line: that end is read next.
LEMMA TrimStream ==
  ASSUME TypeOK, StreamInv, buf # <<>>, buf[1].part = "rest",
         buf' = [buf EXCEPT ![1].part = "eol"], UNCHANGED <<sent, wire>>
  PROVE  StreamInv' /\ Some' /\ Alike(Tok', Tok)
<1> DEFINE n == Len(buf)
           y == [buf[1] EXCEPT !.part = "eol"]
<1>0. /\ n \in Nat /\ n > 0 /\ 1 \in DOMAIN buf /\ buf[1] \in Token
      /\ buf \in Seq(Token) /\ DOMAIN buf = 1..n
  <2>1. buf \in Seq(Token)
    BY DEF StreamInv
  <2> QED BY <2>1, StreamType
<1>1. /\ y \in Token /\ y.id = buf[1].id /\ y.pos = buf[1].pos /\ y.part = "eol"
      /\ Key(y) = Key(buf[1])
  BY <1>0, PartType DEF Part
<1>2. buf' = [buf EXCEPT ![1] = y]
  OBVIOUS
<1> HIDE DEF y
<1>3. /\ buf' \in Seq(Token) /\ Len(buf') = n /\ DOMAIN buf' = 1..n
      /\ buf'[1] = y /\ \A i \in 1..n : i # 1 => buf'[i] = buf[i]
  BY <1>0, <1>1, <1>2, ExceptFacts
<1>4. WireKey' = WireKey /\ WireInv'
  BY DEF WireKey, SentKey, StreamInv, WireInv
<1>5. buf' # <<>>
  <2>1. \A s \in Seq(Token) : Len(s) > 0 => s # <<>>
    OBVIOUS
  <2> QED BY <1>0, <1>3, <2>1
<1>6. Cut' = Cut /\ BufKey' = BufKey
  <2>1. buf'[n].part \in First <=> buf[n].part \in First
    <3>1. n \in 1..n
      BY <1>0
    <3> QED BY <1>1, <1>3, <3>1 DEF First
  <2>2. Cut' = Cut
    BY <1>3, <1>5, <2>1 DEF Cut
  <2> QED BY <1>3, <1>4, <2>2 DEF BufKey
<1>7. \A i \in 1..n : /\ Key(buf'[i]) = BufKey + i - 1
                      /\ buf'[i].part \in First =>
                           i = n /\ wire # <<>> /\ wire[1].part \in Rest
                      /\ buf'[i].part \in Rest => i = 1
  <2> TAKE i \in 1..n
  <2>1. CASE i = 1
    <3>1. Key(buf[1]) = BufKey + 1 - 1
      BY <1>0 DEF StreamInv, BufInv
    <3> QED BY <1>1, <1>3, <2>1, <3>1 DEF First
  <2>2. CASE i # 1
    BY <1>0, <1>3, <2>2 DEF StreamInv, BufInv
  <2> QED BY <2>1, <2>2
<1>8. BufInv'
  BY <1>3, <1>6, <1>7 DEF BufInv, StreamInv
<1> QED BY <1>1, <1>3, <1>4, <1>5, <1>8 DEF StreamInv, Some, Tok, Alike, Rest

\* ReadN stops somewhere in the data: a rest of it is read next.
LEMMA JoinStream ==
  ASSUME TypeOK, StreamInv, buf # <<>>, buf[1].part \in Rest, DataFollows,
         buf' = [Tail(buf) EXCEPT ![1].part = buf[1].part],
         UNCHANGED <<sent, wire>>
  PROVE  StreamInv' /\ Some' /\ Tok'.part \in Rest /\ Key(Tok') = Key(Tok) + 1
<1> DEFINE n == Len(buf)
           t == Tail(buf)
           y == [t[1] EXCEPT !.part = buf[1].part]
<1>0. /\ n \in Nat /\ n > 1 /\ 1 \in DOMAIN buf /\ 2 \in DOMAIN buf
      /\ buf[1] \in Token /\ buf[2] \in Token /\ buf[2].part = "whole"
      /\ buf \in Seq(Token) /\ DOMAIN buf = 1..n
  <2>1. buf \in Seq(Token) /\ Len(buf) > 1 /\ buf[2].part = "whole"
    BY DEF StreamInv, DataFollows
  <2> QED BY <2>1, StreamType
<1>1. /\ t \in Seq(Token) /\ Len(t) = n - 1 /\ DOMAIN t = 1..(n - 1)
      /\ \A i \in 1..(n - 1) : t[i] = buf[i + 1]
  BY <1>0, TailFacts
<1>2. 1 \in DOMAIN t /\ t[1] = buf[2] /\ n - 1 \in 1..(n - 1)
  <2>1. 1 \in 1..(n - 1) /\ 1 + 1 = 2 /\ n - 1 \in 1..(n - 1)
    BY <1>0
  <2> QED BY <1>1, <2>1
<1>3. buf' = [t EXCEPT ![1] = y]
  OBVIOUS
<1> HIDE DEF t
<1>4. /\ y \in Token /\ y.part = buf[1].part /\ Key(y) = Key(buf[2])
  BY <1>0, <1>2, PartType DEF Part, Rest
<1> HIDE DEF y
<1>5. /\ buf' \in Seq(Token) /\ Len(buf') = n - 1 /\ DOMAIN buf' = 1..(n - 1)
      /\ buf'[1] = y /\ \A i \in 1..(n - 1) : i # 1 => buf'[i] = t[i]
  <2>1. /\ buf' \in Seq(Token) /\ Len(buf') = Len(t) /\ DOMAIN buf' = 1..Len(t)
        /\ buf'[1] = y /\ \A i \in 1..Len(t) : i # 1 => buf'[i] = t[i]
    <3>1. t \in Seq(Token) /\ 1 \in DOMAIN t /\ y \in Token
      BY <1>1, <1>2, <1>4
    <3> DEFINE s == [t EXCEPT ![1] = y]
    <3>2. /\ s \in Seq(Token) /\ Len(s) = Len(t) /\ DOMAIN s = 1..Len(t)
          /\ s[1] = y /\ \A i \in 1..Len(t) : i # 1 => s[i] = t[i]
      BY <3>1, ExceptFacts
    <3>3. buf' = s
      BY <1>3
    <3> HIDE DEF s
    <3> QED BY ONLY <3>2, <3>3
  <2>2. Len(t) = n - 1
    BY <1>1
  <2> QED BY <2>1, <2>2
<1>6. \A i \in 1..(n - 1) : i # 1 => buf'[i] = buf[i + 1] /\ i + 1 \in DOMAIN buf
  BY <1>0, <1>1, <1>5
<1>7. buf' # <<>>
  <2>1. \A s \in Seq(Token) : Len(s) > 0 => s # <<>>
    OBVIOUS
  <2>2. n - 1 > 0
    BY <1>0
  <2> QED BY <1>5, <2>1, <2>2
<1>8. WireKey' = WireKey /\ WireInv' /\ WireKey \in Int
  BY WireFacts DEF WireKey, SentKey, StreamInv, WireInv
<1>9. Cut' = Cut
  <2>1. buf'[n - 1].part \in First <=> buf[n].part \in First
    <3>1. CASE n = 2
      <4>1. n - 1 = 1
        BY <3>1
      <4> QED BY <1>0, <1>4, <1>5, <3>1, <4>1 DEF First, Rest
    <3>2. CASE n # 2
      <4>1. n - 1 # 1 /\ (n - 1) + 1 = n
        BY <1>0, <3>2
      <4> QED BY <1>2, <1>6, <4>1
    <3> QED BY <3>1, <3>2
  <2> QED BY <1>5, <1>7, <2>1 DEF Cut
<1>10. BufKey' = BufKey + 1 /\ BufKey \in Int
  BY <1>0, <1>5, <1>8, <1>9, WireFacts DEF BufKey
<1>11. Key(buf[2]) = BufKey + 1 /\ Key(buf[1]) = BufKey
  <2>1. Key(buf[2]) = BufKey + 2 - 1
    BY <1>0 DEF StreamInv, BufInv
  <2> QED BY <1>10, <2>1, WireFacts
<1>12. \A i \in 1..(n - 1) :
         /\ Key(buf'[i]) = BufKey' + i - 1
         /\ buf'[i].part \in First =>
              i = n - 1 /\ wire # <<>> /\ wire[1].part \in Rest
         /\ buf'[i].part \in Rest => i = 1
  <2> TAKE i \in 1..(n - 1)
  <2>1. CASE i = 1
    <3>1. BufKey' + 1 - 1 = BufKey + 1
      BY <1>10
    <3> QED BY <1>4, <1>5, <1>11, <2>1, <3>1 DEF First, Rest
  <2>2. CASE i # 1
    <3>1. i + 1 \in DOMAIN buf /\ buf'[i] = buf[i + 1] /\ i + 1 # 1
      BY <1>0, <1>6, <2>2
    <3>2. /\ Key(buf[i + 1]) = BufKey + (i + 1) - 1
          /\ buf[i + 1].part \in First =>
               i + 1 = n /\ wire # <<>> /\ wire[1].part \in Rest
          /\ buf[i + 1].part \notin Rest
      BY <3>1 DEF StreamInv, BufInv
    <3>3. BufKey + (i + 1) - 1 = BufKey' + i - 1 /\ (i + 1 = n => i = n - 1)
      BY <1>0, <1>10
    <3> QED BY <3>1, <3>2, <3>3
  <2> QED BY <2>1, <2>2
<1>13. BufInv'
  BY <1>5, <1>9, <1>12 DEF BufInv, StreamInv
<1>14. Some' /\ Tok' = y /\ Tok = buf[1]
  BY <1>5, <1>7 DEF Some, Tok
<1>15. StreamInv'
  BY <1>5, <1>8, <1>13 DEF StreamInv
<1> QED BY <1>4, <1>11, <1>14, <1>15 DEF Key

\* ReadN throws away a rest, and what has arrived of the token after it: that
\* token, or what is missing of it, is read next.
LEMMA EmptyStream ==
  ASSUME TypeOK, StreamInv, buf # <<>>, buf[1].part \in Rest, ~ DataFollows,
         buf' = <<>>, UNCHANGED <<sent, wire>>
  PROVE  StreamInv' /\ (Tok.pos < Last(Tok.id) => Some' /\ Key(Tok') = Key(Tok) + 1)
<1> DEFINE n == Len(buf)
<1>0. /\ n \in Nat /\ n > 0 /\ DOMAIN buf = 1..n /\ Tok = buf[1]
      /\ buf[1] \in Token /\ Key(buf[1]) = BufKey /\ BufKey \in Int
      /\ WireKey \in Int
  <2>1. Tok = buf[1]
    BY DEF Tok
  <2>2. n \in Nat /\ n > 0 /\ DOMAIN buf = 1..n /\ \A i \in 1..n : buf[i] \in Token
    BY StreamType
  <2> QED BY <2>1, <2>2, WireFacts
<1>1. StreamInv' /\ (Some' <=> wire # <<>>) /\ (Some' => Tok' = wire[1])
  BY DEF StreamInv, WireInv, BufInv, WireKey, SentKey, Cut, Some, Tok
<1>2. BufKey = WireKey - 1
  <2>1. CASE n = 1
    <3>1. ~ Cut
      BY <2>1 DEF Cut, First, Rest
    <3> QED BY <1>0, <2>1, <3>1 DEF BufKey
  <2>2. CASE n > 1
    <3>1. 2 \in 1..n /\ 2 \in DOMAIN buf /\ buf[2] \in Token /\ buf[2].part # "whole"
      BY <1>0, <2>2, StreamType DEF DataFollows
    <3>2. buf[2].part \notin Rest
      BY <3>1 DEF StreamInv, BufInv
    <3>3. buf[2].part \in First
      BY <3>1, <3>2 DEF Token, Part, First, Rest
    <3>4. n = 2
      BY <3>1, <3>3 DEF StreamInv, BufInv
    <3>5. Cut
      BY <3>3, <3>4 DEF Cut
    <3> QED BY <1>0, <3>4, <3>5 DEF BufKey
  <2> QED BY <1>0, <2>1, <2>2
<1>3. ASSUME Tok.pos < Last(Tok.id) PROVE wire # <<>>
  <2> SUFFICES ASSUME wire = <<>> PROVE FALSE
    OBVIOUS
  <2>1. Key(Tok) = 7 * sent /\ sent \in Nat
    BY <1>0, <1>2, WireFacts, StreamType DEF SentKey
  <2> QED BY <1>0, <1>3, <2>1, NotLast
<1>4. wire # <<>> => Key(wire[1]) = Key(Tok) + 1
  BY <1>0, <1>2, WireFacts
<1> QED BY <1>1, <1>3, <1>4 DEF Key

-----------------------------------------------------------------------------
(* The parser.                                                             *)

\* The token that is read next was sent, and comes no earlier than the last.
LEMMA Reading ==
  ASSUME Inv, ~ panic, Some
  PROVE  /\ StreamInv /\ ParseInv /\ Tok \in Token
         /\ Tok.id \in Id /\ Tok.id \in Nat /\ Tok.pos \in 1..7
         /\ cur \in Int /\ need \in 0..3 /\ sent \in Nat
         /\ cur <= Tok.id /\ Tok.id <= sent
         /\ \A i \in torn : i \in Nat /\ i <= cur
         /\ \A k \in DOMAIN delivered : delivered[k] \in Nat
         /\ buf # <<>> => Tok = buf[1] /\ Next1 = buf[1]
<1>1. StreamInv /\ ParseInv /\ TypeOK
  BY DEF Inv, StreamInv, TypeOK
<1>2. Tok \in Token
  BY <1>1, StreamType
<1>3. Tok.id \in Id /\ Tok.id \in Nat /\ Tok.pos \in 1..7
  BY <1>2 DEF Token, Id
<1>4. cur \in Int /\ need \in 0..3 /\ sent \in Nat
  BY <1>1 DEF TypeOK, Id
<1>5. \A i \in torn : i \in Nat /\ i <= cur
  BY <1>1 DEF TypeOK, Id, Inv, PastInv
<1>6. \A k \in DOMAIN delivered : delivered[k] \in Nat
  BY <1>1 DEF TypeOK, Id
<1>7. Tok.id <= sent
  <2>1. SentKey = WireKey + Len(wire) /\ WireKey \in Int /\ Len(wire) \in Nat
    BY <1>1, WireFacts, StreamType
  <2>2. Key(Tok) < SentKey
    <3>1. CASE buf = <<>>
      <4>1. wire # <<>> /\ Tok = wire[1]
        BY <3>1 DEF Some, Tok
      <4>2. Key(Tok) = WireKey /\ Len(wire) > 0
        BY <1>1, <4>1, WireFacts, StreamType
      <4> QED BY <2>1, <4>2
    <3>2. CASE buf # <<>>
      <4>1. Tok = buf[1] /\ Key(Tok) = BufKey /\ Len(buf) \in Nat /\ Len(buf) > 0
        <5>1. Tok = buf[1]
          BY <3>2 DEF Tok
        <5> QED BY <1>1, <3>2, <5>1, WireFacts, StreamType
      <4>2. CASE Cut
        <5>1. Len(buf) \in DOMAIN buf
          BY <1>1, <4>1, StreamType
        <5>2. wire # <<>>
          BY <1>1, <4>2, <5>1 DEF Cut, StreamInv, BufInv
        <5>3. Len(wire) > 0
          BY <1>1, <5>2, StreamType
        <5> QED BY <2>1, <4>1, <4>2, <5>3 DEF BufKey
      <4>3. CASE ~ Cut
        BY <2>1, <4>1, <4>3 DEF BufKey
      <4> QED BY <4>2, <4>3
    <3> QED BY <3>1, <3>2
  <2>3. Key(Tok) < 7 * sent + 1
    BY <2>2 DEF SentKey
  <2> QED BY <1>2, <1>4, <2>3, KeyFacts
<1>8. cur <= Tok.id
  BY <1>1 DEF ParseInv
<1>9. buf # <<>> => Tok = buf[1] /\ Next1 = buf[1]
  <2>1. buf # <<>> => Head(buf) = buf[1]
    BY <1>1, TailFacts DEF StreamInv
  <2> QED BY <2>1 DEF Tok, Next1
<1> QED BY <1>1, <1>2, <1>3, <1>4, <1>5, <1>6, <1>7, <1>8, <1>9

\* A command of which a token is still to be read was not delivered.
LEMMA Unheard ==
  ASSUME Inv, ~ panic, Some
  PROVE  /\ \A k \in DOMAIN delivered : delivered[k] # Tok.id
         /\ Starts(Tok) => cur < Tok.id
<1>1. Starts(Tok) => cur < Tok.id
  BY Reading DEF ParseInv
<1>2. \A k \in DOMAIN delivered :
        /\ delivered[k] \in Nat /\ delivered[k] <= cur /\ delivered[k] \notin torn
        /\ need > 0 => delivered[k] < cur
  BY Reading DEF Inv, PastInv, DeliveredInOrder
<1>3. cur \in Int /\ Tok.id \in Nat /\ need \in 0..3
  BY Reading
<1>4. CASE need > 0
  <2>1. Tok.id = cur
    BY <1>4, Reading DEF ParseInv
  <2> QED BY <1>1, <1>2, <1>3, <1>4, <2>1
<1>5. CASE need = 0 /\ want = "line"
  <2>1. Starts(Tok) \/ Tok.id \in torn
    BY <1>5, Reading DEF ParseInv, OutInv
  <2> QED BY <1>1, <1>2, <1>3, <2>1
<1>6. CASE need = 0 /\ want # "line"
  <2>1. want \in {"data", "wrong"}
    BY <1>6 DEF Inv, TypeOK
  <2>2. Tok.id = cur
    BY <1>6, Reading DEF ParseInv
  <2>3. cur \in torn
    BY <1>6, <2>1, Reading DEF ParseInv, DataInv, WrongInv
  <2> QED BY <1>1, <1>2, <2>2, <2>3
<1> QED BY <1>3, <1>4, <1>5, <1>6

\* What is delivered stays behind, and apart from what is torn, while a token
\* is read, thrown away or waited for.
LEMMA PastKept ==
  ASSUME Inv, ~ panic, Some, cur' = Tok.id, UNCHANGED <<sent, delivered>>,
         torn' = torn \/ torn' = torn \cup {Tok.id}
  PROVE  PastInv' /\ DeliveredInOrder' /\ torn' \subseteq Id
<1>1. cur' <= sent /\ cur <= cur' /\ cur \in Int /\ cur' \in Nat /\ Tok.id \in Id
  BY Reading
<1>2. \A i \in torn' : i <= cur'
  <2>1. \A i \in torn : i \in Nat /\ i <= cur
    BY Reading
  <2> QED BY <1>1, <2>1
<1>3. \A k \in DOMAIN delivered :
        /\ delivered[k] \in Nat /\ delivered[k] <= cur /\ delivered[k] # Tok.id
        /\ delivered[k] <= sent /\ delivered[k] \notin torn
  BY Reading, Unheard DEF Inv, PastInv, DeliveredInOrder
<1>4. \A k \in DOMAIN delivered : delivered[k] <= cur' /\ delivered[k] # cur'
  BY <1>1, <1>3
<1>5. PastInv'
  <2>1. \A k \in DOMAIN delivered : delivered[k] < cur'
    BY <1>1, <1>3, <1>4
  <2> QED BY <1>1, <1>2, <1>4, <2>1 DEF PastInv
<1>6. DeliveredInOrder'
  BY <1>3 DEF Inv, DeliveredInOrder
<1>7. torn' \subseteq Id
  BY <1>1 DEF Inv, TypeOK
<1> QED BY <1>5, <1>6, <1>7

\* A token is read: the next one of its command follows, or the next command.
LEMMA PopWhole ==
  ASSUME Inv, ~ panic, buf # <<>>, Next1.part \notin First, Consume,
         UNCHANGED <<sent, wire>>
  PROVE  /\ StreamInv' /\ cur' = Tok.id
         /\ Tok.pos < Last(Tok.id) => /\ Some' /\ Tok'.id = Tok.id /\ Tok'.pos = Tok.pos + 1
                           /\ Tok'.part \notin Rest
         /\ Tok.pos = Last(Tok.id) /\ Some' => Starts(Tok') /\ Tok'.id = Tok.id + 1
<1>1. Some /\ TypeOK
  BY DEF Some, Inv
<1>2. StreamInv /\ Tok = Next1 /\ Tok \in Token /\ Tok.pos \in 1..7
  BY <1>1, Reading
<1>3. buf' = Tail(buf) /\ cur' = Tok.id
  BY <1>2 DEF Consume
<1>4. /\ StreamInv'
      /\ Some' => Key(Tok') = Key(Tok) + 1 /\ Tok'.part \notin Rest
      /\ Tok.pos < Last(Tok.id) => Some'
  BY <1>1, <1>2, <1>3, PopStream
<1>5. Some' => Tok' \in Token
  BY <1>4 DEF StreamInv, Some, Tok
<1>6. Tok.pos < Last(Tok.id) => Tok'.id = Tok.id /\ Tok'.pos = Tok.pos + 1
  BY <1>2, <1>4, <1>5, KeyFacts
<1>7. Tok.pos = Last(Tok.id) /\ Some' => Tok'.id = Tok.id + 1 /\ Tok'.pos = 1
  BY <1>2, <1>4, <1>5, KeyFacts
<1> QED BY <1>3, <1>4, <1>6, <1>7 DEF Starts, IsHead

\* The first part of a token is read: what is missing of it follows.
LEMMA PopFirst ==
  ASSUME Inv, ~ panic, buf # <<>>, Next1.part \in First, Consume,
         UNCHANGED <<sent, wire>>
  PROVE  /\ StreamInv' /\ cur' = Tok.id /\ Some' /\ Tok'.id = Tok.id
         /\ Tok'.pos = Tok.pos /\ Tok'.part \in Rest /\ Tok.part \notin Rest
<1>1. Some /\ TypeOK
  BY DEF Some, Inv
<1>2. StreamInv /\ Tok = Next1
  BY <1>1, Reading
<1>3. buf' = Tail(buf) /\ cur' = Tok.id
  BY <1>2 DEF Consume
<1>4. Tok.part \notin Rest
  BY <1>2 DEF First, Rest
<1> QED BY <1>1, <1>2, <1>3, <1>4, PopStream

\* What each step has to establish, its stream and its past apart.
LEMMA StepInv ==
  ASSUME Inv, StreamInv', sent' = sent, cur' \in Id \cup {-1}, torn' \subseteq Id,
         need' \in 0..3, want' \in {"line", "data", "wrong"},
         delivered' \in Seq(Id), panic' \in BOOLEAN,
         PastInv', DeliveredInOrder', PanicIfTorn', ~ panic' => ParseInv'
  PROVE  Inv'
BY DEF Inv, TypeOK, StreamInv

\* A command begins.
LEMMA ParseHeadStep ==
  ASSUME Inv, ParseHead
  PROVE  Inv'
<1>1. /\ buf # <<>> /\ Next1.part \notin First /\ ~ panic /\ Some
      /\ want = "line" /\ Consume /\ need' = 3 /\ IsHead(Next1)
      /\ Next1.part = "whole" /\ UNCHANGED <<sent, wire, want, delivered, panic, torn>>
  BY DEF ParseHead, Ready, Next1, Some
<1>2. /\ Tok = Next1 /\ Tok.pos = 1 /\ Starts(Tok) /\ cur < Tok.id
      /\ Tok.id \in Id /\ Tok.id \in Nat /\ cur \in Int
  BY <1>1, Reading, Unheard DEF IsHead, Starts, Rest
<1>3. /\ StreamInv' /\ cur' = Tok.id /\ Some' /\ Tok'.id = Tok.id /\ Tok'.pos = 2
      /\ Tok'.part \notin Rest
  <2>1. Tok.pos < Last(Tok.id) /\ Tok.pos + 1 = 2
    BY <1>1, <1>2, Reading, LastFacts
  <2> QED BY <1>1, <2>1, PopWhole
<1>4. PastInv' /\ DeliveredInOrder' /\ torn' \subseteq Id
  BY <1>1, <1>3, PastKept
<1>5. ParseInv'
  <2>1. cur' \notin torn'
    BY <1>1, <1>2, <1>3, Reading
  <2> QED BY <1>1, <1>2, <1>3, <2>1 DEF ParseInv, ArrayInv, Starts, IsHead
<1>6. PanicIfTorn' /\ panic' \in BOOLEAN /\ want' \in {"line", "data", "wrong"}
  BY <1>1 DEF PanicIfTorn, Inv, TypeOK
<1>7. delivered' \in Seq(Id) /\ need' \in 0..3 /\ cur' \in Id \cup {-1}
  BY <1>1, <1>2, <1>3 DEF Inv, TypeOK
<1> QED BY <1>1, <1>3, <1>4, <1>5, <1>6, <1>7, StepInv

\* A string's length is read.
LEMMA ParseLengthStep ==
  ASSUME Inv, ParseLength
  PROVE  Inv'
<1>1. /\ buf # <<>> /\ Next1.part \notin First /\ ~ panic /\ Some
      /\ want = "line" /\ Consume /\ want' = "data" /\ IsLength(Next1)
      /\ Next1.part = "whole" /\ UNCHANGED <<sent, wire, need, delivered, panic, torn>>
  BY DEF ParseLength, Ready, Next1, Some
<1>2. /\ Tok = Next1 /\ Tok.pos \in {2, 4, 6} /\ ~ Starts(Tok) /\ Tok.part \notin Rest
      /\ Tok.id \in Id /\ Tok.id \in Nat /\ cur \in Int /\ need \in 0..3
  BY <1>1, Reading DEF IsHead, IsLength, Starts, Rest
<1>3. /\ StreamInv' /\ cur' = Tok.id /\ Some' /\ Tok'.id = Tok.id
      /\ Tok'.pos = Tok.pos + 1 /\ Tok'.part \notin Rest
  <2>1. Tok.pos < Last(Tok.id)
    BY <1>1, <1>2, Reading, LastFacts
  <2> QED BY <1>1, <2>1, PopWhole
<1>4. PastInv' /\ DeliveredInOrder' /\ torn' \subseteq Id
  BY <1>1, <1>3, PastKept
<1>5. ParseInv'
  <2>1. ASSUME need > 0 PROVE Tok.pos = 8 - 2 * need /\ Tok.id \notin torn
    BY <1>1, <1>2, <2>1, Reading DEF ParseInv, ArrayInv, IsData
  <2>2. ASSUME need = 0 PROVE Tok.id \in torn
    BY <1>1, <1>2, <2>2, Reading DEF ParseInv, OutInv
  <2>3. DataInv'
    <3>1. IsData(Tok)'
      BY <1>2, <1>3 DEF IsData
    <3>2. need > 0 => Tok'.pos = 9 - 2 * need
      BY <1>2, <1>3, <2>1
    <3> QED BY <1>1, <1>3, <2>1, <2>2, <3>1, <3>2 DEF DataInv
  <2>4. ~ Starts(Tok)'
    BY <1>2, <1>3 DEF Starts, IsHead
  <2> QED BY <1>1, <1>2, <1>3, <2>3, <2>4 DEF ParseInv
<1>6. PanicIfTorn' /\ panic' \in BOOLEAN /\ want' \in {"line", "data", "wrong"}
  BY <1>1 DEF PanicIfTorn, Inv, TypeOK
<1>7. delivered' \in Seq(Id) /\ need' \in 0..3 /\ cur' \in Id \cup {-1}
  BY <1>1, <1>2, <1>3 DEF Inv, TypeOK
<1> QED BY <1>1, <1>3, <1>4, <1>5, <1>6, <1>7, StepInv

\* A string's data is read: the third one hands the command to the loop.
LEMMA ParseDataStep ==
  ASSUME Inv, ParseData
  PROVE  Inv'
<1>1. /\ buf # <<>> /\ Next1.part \notin First /\ ~ panic /\ Some
      /\ want = "data" /\ Consume /\ ElementRead(TRUE)
      /\ UNCHANGED <<sent, wire, torn>>
  BY DEF ParseData, Ready, Next1, Some
<1>2. /\ Tok.id = cur /\ Tok.pos \in {3, 5, 7}
      /\ need > 0 => Tok.pos = 9 - 2 * need /\ cur \notin torn
      /\ need = 0 => cur \in torn
      /\ cur \in Id /\ cur \in Nat /\ need \in 0..3 /\ cur <= sent
  BY <1>1, Reading DEF ParseInv, DataInv, IsData
<1>3. StreamInv' /\ cur' = cur
  BY <1>1, <1>2, PopWhole
<1>4. CASE need = 0
  <2>1. panic' = TRUE /\ UNCHANGED <<need, want, delivered>>
    BY <1>1, <1>4 DEF ElementRead, Panic
  <2>2. PastInv' /\ DeliveredInOrder' /\ torn' \subseteq Id
    BY <1>1, <1>2, <1>3, <2>1, PastKept
  <2>3. PanicIfTorn'
    BY <1>1, <1>2, <1>4 DEF PanicIfTorn
  <2> QED BY <1>1, <1>2, <1>3, <2>1, <2>2, <2>3, StepInv DEF Inv, TypeOK
<1>5. CASE need > 1
  <2>1. /\ need' = need - 1 /\ want' = "line" /\ delivered' = delivered
        /\ panic' = panic
    BY <1>1, <1>2, <1>5 DEF ElementRead
  <2>2. PastInv' /\ DeliveredInOrder' /\ torn' \subseteq Id
    BY <1>1, <1>2, <1>3, <2>1, PastKept
  <2>3. /\ Some' /\ Tok'.id = cur /\ Tok'.pos = 8 - 2 * need'
        /\ Tok'.part \notin Rest
    <3>1. Tok.pos < 6 /\ Tok.pos + 1 = 8 - 2 * (need - 1)
      BY <1>2, <1>5
    <3>2. Tok.pos < Last(Tok.id)
      BY <1>1, <3>1, Reading, LastFacts
    <3> QED BY <1>1, <1>2, <2>1, <3>1, <3>2, PopWhole
  <2>4. ParseInv'
    <3>1. ~ Starts(Tok)'
      BY <1>2, <1>5, <2>1, <2>3 DEF Starts, IsHead
    <3>2. ArrayInv'
      BY <1>1, <1>2, <1>3, <1>5, <2>3 DEF ArrayInv
    <3>3. need' > 0
      BY <1>2, <1>5, <2>1
    <3> QED BY <1>2, <1>3, <2>1, <2>3, <3>1, <3>2, <3>3 DEF ParseInv
  <2>5. PanicIfTorn'
    BY <1>1, <2>1 DEF PanicIfTorn
  <2>6. need' \in 0..3
    BY <1>2, <1>5, <2>1
  <2> QED BY <1>1, <1>2, <1>3, <2>1, <2>2, <2>4, <2>5, <2>6, StepInv
          DEF Inv, TypeOK
<1>6. CASE need = 1
  <2>1. /\ need' = 0 /\ want' = "line" /\ delivered' = Append(delivered, cur)
        /\ panic' = panic
    BY <1>1, <1>3, <1>6 DEF ElementRead
  <2> DEFINE m == Len(delivered)
  <2>2. /\ delivered \in Seq(Id) /\ m \in Nat /\ DOMAIN delivered = 1..m
        /\ \A k \in 1..m : /\ delivered[k] \in Nat /\ delivered[k] < cur
                           /\ delivered[k] \in 1..sent \ torn
        /\ \A i, j \in 1..m : i < j => delivered[i] < delivered[j]
    <3>1. delivered \in Seq(Id)
      BY DEF Inv, TypeOK
    <3>2. m \in Nat /\ DOMAIN delivered = 1..m
      BY <3>1
    <3>3. \A k \in DOMAIN delivered : delivered[k] \in Nat
      BY <1>1, Reading
    <3> QED BY <1>6, <3>1, <3>2, <3>3 DEF Inv, PastInv, DeliveredInOrder
  <2>3. /\ delivered' \in Seq(Id) /\ DOMAIN delivered' = 1..(m + 1)
        /\ \A k \in 1..m : delivered'[k] = delivered[k]
        /\ delivered'[m + 1] = cur
    BY <1>2, <2>1, <2>2
  <2> HIDE DEF m
  <2>4. \A k \in 1..(m + 1) : k \in 1..m \/ k = m + 1
    BY <2>2
  <2>5. PastInv'
    <3>1. \A k \in 1..(m + 1) : delivered'[k] <= cur
      BY <1>2, <2>2, <2>3, <2>4
    <3>2. \A i \in torn : i <= cur
      BY DEF PastInv, Inv
    <3>3. ~ (need' > 0)
      BY <2>1
    <3> QED BY <1>1, <1>2, <1>3, <2>3, <3>1, <3>2, <3>3 DEF PastInv
  <2>6. DeliveredInOrder'
    <3>1. \A i, j \in 1..(m + 1) : i < j => delivered'[i] < delivered'[j]
      <4> TAKE i, j \in 1..(m + 1)
      <4> HAVE i < j
      <4>1. i \in 1..m
        BY <2>2
      <4>2. CASE j \in 1..m
        BY <2>2, <2>3, <4>1, <4>2
      <4>3. CASE j = m + 1
        BY <2>2, <2>3, <4>1, <4>3
      <4> QED BY <2>4, <4>2, <4>3
    <3>2. \A i \in 1..(m + 1) : delivered'[i] \in 1..sent \ torn
      <4>1. cur # 0
        BY <1>1, <1>2, <1>6, Reading, LastFacts
      <4>2. cur \in 1..sent \ torn
        BY <1>1, <1>2, <1>6, <4>1, Reading
      <4> QED BY <2>2, <2>3, <2>4, <4>2
    <3> QED BY <1>1, <2>3, <3>1, <3>2 DEF DeliveredInOrder
  <2>7. ParseInv'
    <3>1. Tok.pos = Last(Tok.id)
      BY <1>1, <1>2, <1>6, Reading, LastFacts
    <3>2. Some' => Starts(Tok') /\ Tok'.id = cur + 1
      BY <1>1, <1>2, <3>1, PopWhole
    <3>3. cur <= cur + 1 /\ cur < cur + 1
      BY <1>2
    <3> QED BY <1>3, <2>1, <3>2, <3>3 DEF ParseInv, OutInv
  <2>8. PanicIfTorn'
    BY <1>1, <2>1 DEF PanicIfTorn
  <2> QED BY <1>1, <1>2, <1>3, <2>1, <2>3, <2>5, <2>6, <2>7, <2>8, StepInv
          DEF Inv, TypeOK
<1> QED BY <1>2, <1>4, <1>5, <1>6

\* The count is read: it ends the reply to SUBSCRIBE, or that reply is torn and
\* the count panics.
LEMMA ParseCountStep ==
  ASSUME Inv, ParseCount
  PROVE  Inv'
<1>1. /\ buf # <<>> /\ Next1.part \notin First /\ ~ panic /\ Some
      /\ want = "line" /\ Consume /\ IsCount(Next1) /\ Next1.part = "whole"
      /\ ElementRead(FALSE) /\ UNCHANGED <<sent, wire, torn>>
  BY DEF ParseCount, Ready, Next1, Some
<1>2. /\ Tok = Next1 /\ Tok \in Token /\ Tok.id \in Id /\ Tok.id \in Nat
      /\ Tok.pos = 6 /\ Tok.pos = Last(Tok.id) /\ need \in 0..3
      /\ ~ Starts(Tok) /\ ~ IsData(Tok) /\ Tok.part \notin Rest
  BY <1>1, Reading, LastFacts DEF Starts, IsHead, IsData, Rest
<1>3. /\ StreamInv' /\ cur' = Tok.id
      /\ Some' => Starts(Tok') /\ Tok'.id = Tok.id + 1
  BY <1>1, <1>2, PopWhole
<1>4. CASE need = 0
  <2>1. panic' = TRUE /\ UNCHANGED <<need, want, delivered>>
    BY <1>1, <1>4 DEF ElementRead, Panic
  <2>2. PastInv' /\ DeliveredInOrder' /\ torn' \subseteq Id
    BY <1>1, <1>3, <2>1, PastKept
  <2>3. Tok.id \in torn
    BY <1>1, <1>2, <1>4, Reading DEF ParseInv, OutInv
  <2>4. PanicIfTorn'
    BY <1>1, <2>3 DEF PanicIfTorn
  <2> QED BY <1>1, <1>2, <1>3, <2>1, <2>2, <2>4, StepInv DEF Inv, TypeOK
<1>5. CASE need > 0
  <2>1. need = 1
    BY <1>1, <1>2, <1>5, Reading DEF ParseInv, ArrayInv
  <2>2. need' = 0 /\ want' = "line" /\ UNCHANGED <<delivered, panic>>
    BY <1>1, <2>1 DEF ElementRead
  <2>3. PastInv' /\ DeliveredInOrder' /\ torn' \subseteq Id
    BY <1>1, <1>3, <2>2, PastKept
  <2>4. ParseInv'
    <3>1. Tok.id <= Tok.id + 1 /\ Tok.id < Tok.id + 1
      BY <1>2
    <3> QED BY <1>3, <2>2, <3>1 DEF ParseInv, OutInv
  <2>5. PanicIfTorn'
    BY <1>1, <2>2 DEF PanicIfTorn
  <2> QED BY <1>1, <1>2, <1>3, <2>2, <2>3, <2>4, <2>5, StepInv DEF Inv, TypeOK
<1> QED BY <1>2, <1>4, <1>5

\* What is no line is skipped: it is of a torn command.
LEMMA SkipLineStep ==
  ASSUME Inv, SkipLine
  PROVE  Inv'
<1>1. /\ buf # <<>> /\ Next1.part \notin First /\ ~ panic /\ Some
      /\ want = "line" /\ Consume /\ (IsData(Next1) \/ Next1.part # "whole")
      /\ Abort \/ Panic
      /\ UNCHANGED <<sent, wire, torn>>
  BY DEF SkipLine, Ready, Next1, Some
<1>2. /\ Tok = Next1 /\ Tok \in Token /\ Tok.id \in Id /\ Tok.id \in Nat
      /\ Tok.pos \in 1..7 /\ need \in 0..3
  BY <1>1, Reading
<1>3. IsData(Tok) \/ Tok.part \in Rest
  BY <1>1, <1>2 DEF Token, Part, First, Rest
<1>4. Tok.id \in torn
  <2>1. CASE need = 0
    <3>1. ~ Starts(Tok)
      BY <1>3 DEF Starts, IsHead, IsData
    <3> QED BY <1>1, <2>1, <3>1, Reading DEF ParseInv, OutInv
  <2>2. CASE need > 0
    <3>1. Tok.pos # 8 - 2 * need \/ Tok.part \in Rest
      BY <1>2, <1>3, <2>2 DEF IsData
    <3> QED BY <1>1, <2>2, <3>1, Reading DEF ParseInv, ArrayInv
  <2> QED BY <1>2, <2>1, <2>2
<1>5. StreamInv' /\ cur' = Tok.id
  BY <1>1, PopWhole
<1>6. delivered' = delivered /\ need' \in 0..3 /\ want' = "line" /\ panic' \in BOOLEAN
  <2>1. panic \in BOOLEAN
    BY DEF Inv, TypeOK
  <2>2. CASE Abort
    BY <2>1, <2>2 DEF Abort
  <2>3. CASE Panic
    BY <1>1, <1>2, <2>3 DEF Panic
  <2> QED BY <1>1, <2>2, <2>3
<1>7. PastInv' /\ DeliveredInOrder' /\ torn' \subseteq Id
  BY <1>1, <1>5, <1>6, PastKept
<1>8. PanicIfTorn'
  BY <1>1, <1>4 DEF PanicIfTorn
<1>9. ~ panic' => ParseInv'
  <2> SUFFICES ASSUME ~ panic' PROVE ParseInv'
    OBVIOUS
  <2>1. need' = 0
    BY <1>1 DEF Abort, Panic
  <2>2. CASE Tok.pos < Last(Tok.id)
    <3>1. Some' /\ Tok'.id = Tok.id /\ Tok'.pos = Tok.pos + 1
      BY <1>1, <2>2, PopWhole
    <3>2. ~ Starts(Tok)'
      BY <1>2, <3>1 DEF Starts, IsHead
    <3> QED BY <1>1, <1>2, <1>4, <1>5, <1>6, <2>1, <3>1, <3>2 DEF ParseInv, OutInv
  <2>3. CASE Tok.pos = Last(Tok.id)
    <3>1. Some' => Starts(Tok') /\ Tok'.id = Tok.id + 1
      BY <1>1, <2>3, PopWhole
    <3>2. Tok.id <= Tok.id + 1 /\ Tok.id < Tok.id + 1
      BY <1>2
    <3> QED BY <1>5, <1>6, <2>1, <3>1, <3>2 DEF ParseInv, OutInv
  <2>4. Tok.pos < Last(Tok.id) \/ Tok.pos = Last(Tok.id)
    BY <1>2, LastFacts
  <2> QED BY <2>2, <2>3, <2>4
<1>10. delivered' \in Seq(Id)
  BY <1>6 DEF Inv, TypeOK
<1> QED BY <1>1, <1>2, <1>5, <1>6, <1>7, <1>8, <1>9, <1>10, StepInv

\* After a wrong length, some of what follows is taken for the data: what is
\* left of it is of the same command, which is torn.
LEMMA ReadWrongStep ==
  ASSUME Inv, ReadWrong
  PROVE  Inv'
<1>1. /\ buf # <<>> /\ Next1.part \notin First /\ ~ panic /\ Some
      /\ want = "wrong" /\ cur' = Next1.id /\ ElementRead(FALSE)
      /\ UNCHANGED <<sent, wire, torn>>
  BY DEF ReadWrong, Ready, Next1, Some
<1>2. /\ Tok = Next1 /\ Next1 = buf[1] /\ Tok \in Token /\ Tok.id = cur
      /\ Tok.pos \in {2, 4, 6} /\ Tok.part \in Rest /\ cur \in torn
      /\ cur \in Id /\ cur \in Nat /\ need \in 0..3 /\ StreamInv /\ IsLength(Tok)
  BY <1>1, Reading DEF ParseInv, WrongInv, IsLength
<1>3. cur' = cur
  BY <1>1, <1>2
<1>4. /\ StreamInv' /\ Some' /\ Tok'.id = cur
      /\ Tok'.pos \in 2..7 /\ (Tok'.part \in Rest \/ IsData(Tok'))
  <2>0. TypeOK /\ Tok.pos < Last(Tok.id)
    BY <1>2, LastFacts DEF Inv
  <2>1. CASE Next1.part = "rest" /\ buf' = Tail(buf)
    <3>1. Consume
      BY <1>1, <2>1 DEF Consume
    <3>2. StreamInv' /\ Some' /\ Tok'.id = Tok.id /\ Tok'.pos = Tok.pos + 1
      BY <1>1, <2>0, <3>1, PopWhole
    <3>3. Tok'.pos \in {3, 5, 7}
      BY <1>2, <3>2
    <3> QED BY <1>2, <3>2, <3>3 DEF IsData
  <2>2. CASE Next1.part = "rest" /\ buf' = [buf EXCEPT ![1].part = "eol"]
    <3>1. StreamInv' /\ Some' /\ Alike(Tok', Tok)
      BY <1>1, <1>2, <2>0, <2>2, TrimStream
    <3> QED BY <1>2, <3>1 DEF Alike
  <2>3. CASE DataFollows /\ buf' = [Tail(buf) EXCEPT ![1].part = Next1.part]
    <3>0. buf' = [Tail(buf) EXCEPT ![1].part = buf[1].part] /\ buf[1].part \in Rest
      BY <1>2, <2>3
    <3>1. StreamInv' /\ Some' /\ Tok'.part \in Rest /\ Key(Tok') = Key(Tok) + 1
      BY <1>1, <2>0, <2>3, <1>2, <3>0, JoinStream
    <3>2. Tok' \in Token
      BY <3>1 DEF StreamInv, Some, Tok
    <3>3. Tok'.id = Tok.id /\ Tok'.pos = Tok.pos + 1
      BY <1>2, <2>0, <3>1, <3>2, KeyFacts
    <3> QED BY <1>2, <3>1, <3>3
  <2> QED BY <2>1, <2>2, <2>3 DEF ReadWrong
<1>5. /\ delivered' = delivered /\ need' \in 0..3 /\ panic' \in BOOLEAN
      /\ want' \in {"line", "data", "wrong"} /\ (~ panic' => want' = "line")
  <2>1. CASE need = 0
    BY <1>1, <1>2, <2>1 DEF ElementRead, Panic, Inv, TypeOK
  <2>2. CASE need > 0
    BY <1>1, <1>2, <2>2 DEF ElementRead, Inv, TypeOK
  <2> QED BY <1>2, <2>1, <2>2
<1>6. PastInv' /\ DeliveredInOrder' /\ torn' \subseteq Id
  BY <1>1, <1>2, <1>3, <1>5, PastKept
<1>7. PanicIfTorn'
  BY <1>1, <1>2 DEF PanicIfTorn
<1>8. ~ panic' => ParseInv'
  <2>1. ~ Starts(Tok)'
    BY <1>4 DEF Starts, IsHead
  <2>2. OutInv' /\ ArrayInv'
    BY <1>1, <1>2, <1>3, <1>4 DEF OutInv, ArrayInv
  <2> QED BY <1>2, <1>3, <1>4, <1>5, <2>1, <2>2 DEF ParseInv
<1>9. delivered' \in Seq(Id)
  BY <1>5 DEF Inv, TypeOK
<1> QED BY <1>1, <1>2, <1>3, <1>4, <1>5, <1>6, <1>7, <1>8, <1>9, StepInv

-----------------------------------------------------------------------------
(* 100 ms without a byte.                                                  *)

\* A command is torn between two of its tokens.
LEMMA SilenceStep ==
  ASSUME Inv, Silence
  PROVE  Inv'
<1>1. /\ ~ panic /\ (need > 0 \/ want # "line") /\ torn' = torn \cup {cur}
      /\ need' = 0 /\ want' = "line"
      /\ UNCHANGED <<sent, wire, buf, cur, delivered, panic>>
  BY DEF Silence, Tear, Abort
<1>2. Some /\ Tok.id = cur
  BY <1>1 DEF Inv, ParseInv
<1>3. /\ StreamInv /\ cur \in Id /\ cur \in Nat
      /\ (Starts(Tok) => cur < Tok.id)
  BY <1>1, <1>2, Reading, Unheard
<1>4. StreamInv' /\ Some' /\ Tok' = Tok
  BY <1>1, <1>2, <1>3
     DEF StreamInv, WireInv, BufInv, WireKey, SentKey, BufKey, Cut, Some, Tok
<1>5. PastInv' /\ DeliveredInOrder' /\ torn' \subseteq Id
  BY <1>1, <1>2, PastKept
<1>6. ParseInv'
  BY <1>1, <1>2, <1>3, <1>4 DEF ParseInv, OutInv, Starts, IsHead
<1>7. PanicIfTorn' /\ panic' \in BOOLEAN /\ delivered' \in Seq(Id)
  BY <1>1 DEF PanicIfTorn, Inv, TypeOK
<1> QED BY <1>1, <1>3, <1>4, <1>5, <1>6, <1>7, StepInv

\* A command is torn within its data.
LEMMA DataCutStep ==
  ASSUME Inv, DataCut
  PROVE  Inv'
<1>1. /\ ~ panic /\ buf # <<>> /\ Some /\ Next1.part \in First /\ want = "data"
      /\ Consume /\ torn' = torn \cup {Next1.id} /\ need' = 0 /\ want' = "line"
      /\ UNCHANGED <<sent, wire, delivered, panic>>
  BY DEF DataCut, Tear, Abort, Some
<1>2. Tok = Next1 /\ Tok.id \in Id /\ Tok.id \in Nat
  BY <1>1, Reading
<1>3. /\ StreamInv' /\ cur' = Tok.id /\ Some' /\ Tok'.id = Tok.id
      /\ Tok'.part \in Rest
  BY <1>1, PopFirst
<1>4. PastInv' /\ DeliveredInOrder' /\ torn' \subseteq Id
  BY <1>1, <1>2, <1>3, PastKept
<1>5. ParseInv'
  BY <1>1, <1>2, <1>3 DEF ParseInv, OutInv, Starts
<1>6. PanicIfTorn' /\ panic' \in BOOLEAN /\ delivered' \in Seq(Id)
  BY <1>1 DEF PanicIfTorn, Inv, TypeOK
<1> QED BY <1>1, <1>2, <1>3, <1>4, <1>5, <1>6, StepInv

\* A command is torn again, where ReadN waits for what a wrong length says.
LEMMA WrongCutStep ==
  ASSUME Inv, WrongCut
  PROVE  Inv'
<1>1. /\ ~ panic /\ buf # <<>> /\ Some /\ want = "wrong" /\ ~ DataFollows
      /\ buf' = <<>> /\ cur' = Next1.id /\ torn' = torn \cup {cur'}
      /\ need' = 0 /\ want' = "line" /\ UNCHANGED <<sent, wire, delivered, panic>>
  BY DEF WrongCut, Tear, Abort, Some
<1>2. /\ Tok = Next1 /\ Next1 = buf[1] /\ Tok \in Token /\ Tok.id = cur
      /\ Tok.pos \in {2, 4, 6} /\ Tok.part \in Rest
      /\ cur \in Id /\ cur \in Nat /\ StreamInv /\ IsLength(Tok)
  BY <1>1, Reading DEF ParseInv, WrongInv, IsLength
<1>3. StreamInv' /\ Some' /\ Key(Tok') = Key(Tok) + 1
  <2>1. TypeOK /\ Tok.pos < Last(Tok.id) /\ buf[1].part \in Rest
    BY <1>2, LastFacts DEF Inv
  <2> QED BY <1>1, <1>2, <2>1, EmptyStream
<1>4. Tok'.id = cur /\ Tok'.pos # 1
  <2>1. Tok' \in Token
    BY <1>3 DEF StreamInv, Some, Tok
  <2>2. Tok'.id = Tok.id /\ Tok'.pos = Tok.pos + 1
    BY <1>2, <1>3, <2>1, KeyFacts, LastFacts
  <2> QED BY <1>2, <2>2
<1>5. cur' = cur
  BY <1>1, <1>2
<1>6. PastInv' /\ DeliveredInOrder' /\ torn' \subseteq Id
  BY <1>1, <1>2, <1>5, PastKept
<1>7. ParseInv'
  <2>1. ~ Starts(Tok)' /\ cur <= cur /\ cur \in torn'
    BY <1>1, <1>2, <1>4, <1>5 DEF Starts, IsHead
  <2> QED BY <1>1, <1>3, <1>4, <1>5, <2>1 DEF ParseInv, OutInv
<1>8. PanicIfTorn' /\ panic' \in BOOLEAN /\ delivered' \in Seq(Id)
  BY <1>1 DEF PanicIfTorn, Inv, TypeOK
<1> QED BY <1>1, <1>2, <1>3, <1>5, <1>6, <1>7, <1>8, StepInv

\* A reply is torn within a line.
LEMMA LineCutStep ==
  ASSUME Inv, LineCut
  PROVE  Inv'
<1>1. /\ ~ panic /\ buf # <<>> /\ Some /\ Next1.part \in First /\ want = "line"
      /\ Consume /\ torn' = torn \cup {Next1.id}
      /\ UNCHANGED <<sent, wire>>
  BY DEF LineCut, Tear, Some
<1>2. /\ Tok = Next1 /\ Tok \in Token /\ Tok.id \in Id /\ Tok.id \in Nat
      /\ need \in 0..3 /\ (need > 0 => Tok.id = cur)
  BY <1>1, Reading DEF ParseInv
<1>3. /\ StreamInv' /\ cur' = Tok.id /\ Some' /\ Tok'.id = Tok.id
      /\ Tok'.pos = Tok.pos /\ Tok'.part \in Rest
  BY <1>1, PopFirst
<1>4. ~ Starts(Tok)' /\ cur' \in torn'
  BY <1>1, <1>2, <1>3 DEF Starts
<1>5. /\ delivered' = delivered
      /\ \/ need' = 0 /\ want' = "line" /\ panic' = panic
         \/ need' = 3 /\ want' = want /\ panic' = panic
         \/ IsLength(Tok) /\ want' = "wrong" /\ need' = need /\ panic' = panic
         \/ panic' = TRUE /\ UNCHANGED <<need, want>>
  <2>1. CASE Abort
    BY <2>1 DEF Abort
  <2>2. CASE IsCount(Next1) /\ Next1.part = "text" /\ ElementRead(FALSE)
    <3>1. CASE need = 0
      BY <2>2, <3>1 DEF ElementRead, Panic
    <3>2. CASE need > 0
      <4>1. Tok.part \notin Rest /\ Tok.pos = 6 /\ ~ IsData(Tok)
        BY <1>1, <1>2, <2>2, LastFacts DEF First, Rest, IsData
      <4>2. need = 1
        BY <1>1, <1>2, <3>2, <4>1, Reading DEF ParseInv, ArrayInv
      <4> QED BY <2>2, <4>2 DEF ElementRead
    <3>3. need = 0 \/ need > 0
      BY <1>2
    <3> QED BY <3>1, <3>2, <3>3
  <2>3. CASE /\ IsHead(Next1) /\ Next1.part = "text" /\ need' = 3
             /\ UNCHANGED <<want, delivered, panic>>
    BY <2>3
  <2>4. CASE /\ IsLength(Next1) /\ want' = "wrong"
             /\ UNCHANGED <<need, delivered, panic>>
    BY <1>2, <2>4
  <2> QED BY <2>1, <2>2, <2>3, <2>4 DEF LineCut
<1>6. PastInv' /\ DeliveredInOrder' /\ torn' \subseteq Id
  BY <1>1, <1>2, <1>3, <1>5, PastKept
<1>7. ASSUME ~ panic' PROVE ParseInv'
  <2>1. CASE need' = 0 /\ want' = "line"
    BY <1>2, <1>3, <1>4, <2>1 DEF ParseInv, OutInv
  <2>2. CASE need' = 3 /\ want' = want
    BY <1>1, <1>2, <1>3, <1>4, <2>2 DEF ParseInv, ArrayInv
  <2>3. CASE IsLength(Tok) /\ want' = "wrong" /\ need' = need
    <3>1. IsLength(Tok)'
      BY <1>3, <2>3 DEF IsLength, IsCount
    <3> QED BY <1>2, <1>3, <1>4, <2>3, <3>1 DEF ParseInv, WrongInv
  <2> QED BY <1>5, <1>7, <2>1, <2>2, <2>3
<1>8. /\ PanicIfTorn' /\ panic' \in BOOLEAN /\ delivered' \in Seq(Id)
      /\ need' \in 0..3 /\ want' \in {"line", "data", "wrong"}
  <2>1. /\ panic \in BOOLEAN /\ delivered \in Seq(Id)
        /\ want \in {"line", "data", "wrong"}
    BY DEF Inv, TypeOK
  <2>2. PanicIfTorn'
    BY <1>1 DEF PanicIfTorn
  <2>3. panic' \in BOOLEAN
    BY <1>5, <2>1
  <2>4. need' \in 0..3 /\ want' \in {"line", "data", "wrong"}
    BY <1>2, <1>5, <2>1
  <2> QED BY <1>5, <2>1, <2>2, <2>3, <2>4
<1> QED BY <1>1, <1>2, <1>3, <1>6, <1>7, <1>8, StepInv

-----------------------------------------------------------------------------
(* The connection, and the theorems.                                       *)

\* While the parser waits, it is where it was: the next token is alike.
LEMMA AlikeInv ==
  ASSUME ParseInv, Some, Some', Alike(Tok', Tok),
         UNCHANGED <<need, want, cur, torn>>
  PROVE  ParseInv'
<1>1. Starts(Tok)' = Starts(Tok)
  BY DEF Alike, Starts, IsHead
<1>2. OutInv => OutInv'
  BY <1>1 DEF OutInv, Alike
<1>3. ArrayInv => ArrayInv'
  BY DEF ArrayInv, Alike, IsData
<1>4. DataInv => DataInv'
  BY DEF DataInv, Alike, IsData
<1>5. WrongInv => WrongInv'
  BY DEF WrongInv, Alike, IsLength, IsCount
<1> QED BY <1>1, <1>2, <1>3, <1>4, <1>5 DEF ParseInv, Alike

\* What has been read and delivered stays while commands come in.
LEMMA PastStays ==
  ASSUME Inv, sent' \in Nat, sent <= sent',
         UNCHANGED <<need, cur, delivered, torn, panic>>
  PROVE  PastInv' /\ DeliveredInOrder' /\ PanicIfTorn'
<1>1. /\ sent \in Nat /\ cur \in Int
      /\ \A k \in DOMAIN delivered : delivered[k] \in Nat
  BY DEF Inv, TypeOK, Id
<1>2. PastInv' /\ PanicIfTorn'
  BY <1>1 DEF Inv, PastInv, PanicIfTorn
<1>3. DeliveredInOrder'
  BY <1>1 DEF Inv, DeliveredInOrder
<1> QED BY <1>2, <1>3

\* A command is published.
LEMMA PublishStep ==
  ASSUME Inv, Publish
  PROVE  Inv'
<1>1. /\ sent' = sent + 1 /\ sent' \in 0..MaxCommands /\ sent \in Nat /\ cur \in Int
      /\ UNCHANGED <<need, want, cur, delivered, panic, torn>>
  BY DEF Publish, Inv, TypeOK, Id
<1>2. /\ StreamInv' /\ Some'
      /\ Some => Tok' = Tok
      /\ ~ Some => Starts(Tok') /\ Tok'.id = sent + 1
  BY PublishStream DEF Inv, StreamInv, TypeOK
<1>3. PastInv' /\ DeliveredInOrder' /\ PanicIfTorn'
  BY <1>1, PastStays
<1>4. ASSUME ~ panic' PROVE ParseInv'
  <2>0. ParseInv
    BY <1>1, <1>4 DEF Inv
  <2>1. CASE Some
    BY <1>1, <1>2, <2>0, <2>1, AlikeInv DEF Alike
  <2>2. CASE ~ Some
    <3>1. need = 0 /\ want = "line"
      BY <2>0, <2>2 DEF ParseInv, Inv, TypeOK
    <3>2. cur < sent + 1 /\ cur <= sent + 1
      BY <1>1 DEF Inv, PastInv
    <3> QED BY <1>1, <1>2, <2>2, <3>1, <3>2 DEF ParseInv, OutInv
  <2> QED BY <2>1, <2>2
<1> QED BY <1>1, <1>2, <1>3, <1>4 DEF Inv, TypeOK, StreamInv

\* Tokens arrive.
LEMMA ArriveStep ==
  ASSUME Inv, Arrive \/ ArriveCut
  PROVE  Inv'
<1>1. UNCHANGED <<sent, need, want, cur, delivered, panic, torn>>
  BY DEF Arrive, ArriveCut
<1>2. StreamInv' /\ Some /\ Some' /\ Alike(Tok', Tok)
  <2>1. TypeOK /\ StreamInv
    BY DEF Inv, StreamInv, TypeOK
  <2> QED BY <2>1, ArriveStream, ArriveCutStream
<1>3. PastInv' /\ DeliveredInOrder' /\ PanicIfTorn'
  <2>1. sent' \in Nat /\ sent <= sent'
    BY <1>1 DEF Inv, TypeOK
  <2> QED BY <1>1, <2>1, PastStays
<1>4. ~ panic' => ParseInv'
  BY <1>1, <1>2, AlikeInv DEF Inv
<1> QED BY <1>1, <1>2, <1>3, <1>4, StepInv DEF Inv, TypeOK

\* The invariant holds before the first command.
LEMMA InitInv == Init => Inv
<1> SUFFICES ASSUME Init PROVE Inv
  OBVIOUS
<1>0. /\ wire \in Seq(Token) /\ Len(wire) = 6
      /\ \A p \in 1..6 : /\ wire[p].part = "whole" /\ wire[p].id = 0
                         /\ wire[p].pos = p
                         /\ Key(wire[p]) = p - 6
  <2>1. wire = [p \in 1..6 |-> [id |-> 0, pos |-> p, part |-> "whole"]]
    BY DEF Init, Reply, Last
  <2>2. \A p \in 1..6 : [id |-> 0, pos |-> p, part |-> "whole"] \in Token
    BY DEF Token, Part, Last, Id
  <2>3. wire \in [1..6 -> Token]
    BY <2>1, <2>2
  <2>4. wire \in Seq(Token) /\ Len(wire) = 6
    <3>1. \A n \in Nat : \A f \in [1..n -> Token] : f \in Seq(Token) /\ Len(f) = n
      OBVIOUS
    <3> QED BY <2>3, <3>1
  <2> QED BY <2>1, <2>4 DEF Key
<1>1. TypeOK
  <2>1. panic \in BOOLEAN /\ torn \subseteq Id
    BY DEF Init
  <2>2. sent \in 0..MaxCommands /\ need \in 0..3 /\ cur \in Id \cup {-1}
    BY DEF Init
  <2>3. wire \in Seq(Token) /\ buf \in Seq(Token) /\ delivered \in Seq(Id)
    BY <1>0 DEF Init
  <2>4. want \in {"line", "data", "wrong"}
    BY DEF Init
  <2> QED BY <2>1, <2>2, <2>3, <2>4 DEF TypeOK
<1>2. WireInv /\ BufInv
  <2>1. DOMAIN wire = 1..6 /\ WireKey = -5
    BY <1>0 DEF Init, WireKey, SentKey
  <2>2. WireInv
    BY <1>0, <2>1 DEF WireInv, Rest
  <2>3. buf = <<>>
    BY DEF Init
  <2> QED BY <2>2, <2>3 DEF BufInv
<1>3. PastInv /\ DeliveredInOrder /\ PanicIfTorn
  BY DEF Init, PastInv, DeliveredInOrder, PanicIfTorn
<1>4. ParseInv
  <2>1. Tok = wire[1] /\ wire[1].id = 0 /\ Starts(wire[1])
    BY <1>0 DEF Init, Tok, Starts, IsHead, Rest
  <2> QED BY <2>1 DEF Init, ParseInv, OutInv
<1> QED BY <1>1, <1>2, <1>3, <1>4 DEF Inv

\* Every step keeps it.
LEMMA NextInv == Inv /\ [Next]_vars => Inv'
<1> SUFFICES ASSUME Inv, [Next]_vars PROVE Inv'
  OBVIOUS
<1>1. CASE Next
  <2>1. CASE Parse
    BY <2>1, ParseHeadStep, ParseLengthStep, ParseCountStep, ParseDataStep,
       SkipLineStep, ReadWrongStep DEF Parse
  <2>2. CASE Gap
    BY <2>2, SilenceStep, DataCutStep, WrongCutStep, LineCutStep DEF Gap
  <2> QED BY <1>1, <2>1, <2>2, PublishStep, ArriveStep DEF Next
<1>2. CASE UNCHANGED vars
  BY <1>2 DEF vars, Inv, TypeOK, WireInv, BufInv, PastInv, DeliveredInOrder,
              PanicIfTorn, ParseInv, OutInv, ArrayInv, DataInv, WrongInv, Some, Tok,
              WireKey, SentKey, BufKey, Cut, Starts, IsHead, IsData, IsLength,
              IsCount, Key
<1> QED BY <1>1, <1>2

\* However the bytes of the commands are cut and delayed, the invariant holds:
\* the parser is in step with the replies, or within a torn one.
THEOREM InvAlways == Spec => []Inv
BY InitInv, NextInv, PTL DEF Spec

\* Every variable keeps its type: parseSlice never reads past the array.
THEOREM TypeCorrect == Spec => []TypeOK
<1>1. Inv => TypeOK
  BY DEF Inv
<1> QED BY <1>1, InvAlways, PTL

\* The loop gets commands that were published, in the order they were, each at
\* most once, and none that is torn.
THEOREM AlwaysInOrder == Spec => []DeliveredInOrder
<1>1. Inv => DeliveredInOrder
  BY DEF Inv
<1> QED BY <1>1, InvAlways, PTL

\* The parser panics only once a command has been torn.
THEOREM PanicsOnlyIfTorn == Spec => []PanicIfTorn
<1>1. Inv => PanicIfTorn
  BY DEF Inv
<1> QED BY <1>1, InvAlways, PTL
=============================================================================
