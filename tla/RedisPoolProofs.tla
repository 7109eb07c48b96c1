-------------------------- MODULE RedisPoolProofs --------------------------
(***************************************************************************)
(* Proofs about RedisPool, for any goroutines, any size of the pool, any   *)
(* number of retries and of failures.                                      *)
(***************************************************************************)
EXTENDS RedisPool, FiniteSetTheorems, TLAPS

USE UserAssumption, SizeAssumption
USE DEF mutex, pool, calls, down, env

-----------------------------------------------------------------------------
(* The inductive invariant.                                                *)

\* The goroutines that are at l, and those that have lost a connection.
Those(l) == {u \in User : pc[u] = l}
Losing == Those("remove") \cup Those("replace")

\* Connections that Offer has made and connList.Replace has yet to list.
Coming == {newcn[u] : u \in User} \ {0}

\* Connections in use or on offer; and those that are in the list, or coming,
\* for nobody.
Live == InHand \cup Offered
Lost == (list \cup Coming) \ Live

Empty == {"lock", "get", "reserve", "undo", "dial", "wait", "deaf"}
Holding == {"talk", "remove", "replace", "hold"}

\* Who has a connection in hand is told by where it is.
HandInv ==
  \A u \in User :
    /\ pc[u] \in Empty => cn[u] = 0
    /\ pc[u] \in Holding => cn[u] # 0
    /\ newcn[u] # 0 <=> pc[u] = "replace"

\* Connections are numbered in the order they are made, and one that is coming
\* is in the list not yet and comes once.
NumberInv ==
  /\ \A u \in User : cn[u] <= dialed /\ newcn[u] <= dialed
  /\ \A i \in DOMAIN free : free[i] <= dialed
  /\ \A c \in list : c <= dialed
  /\ \A u \in User : newcn[u] # 0 => newcn[u] \notin list /\ newcn[u] # cn[u]
  /\ \A u, v \in User : u # v /\ newcn[u] = newcn[v] => newcn[u] = 0

\* A connection that is in use or on offer is in the list, or coming.
ListedInv == \A c \in Live : c = 0 \/ c \in list \/ c \in Coming

\* connList.len counts finite sets.
PlacesInv ==
  /\ IsFiniteSet(list) /\ IsFiniteSet(Those("dial")) /\ IsFiniteSet(Those("undo"))
  /\ PlacesCounted

\* Connections are lost to refused UNWATCHes only; each goroutine that replaces a
\* connection has lost one.
LossInv ==
  /\ IsFiniteSet(Lost) /\ Cardinality(Lost) <= refused
  /\ IsFiniteSet(Losing) /\ Cardinality(Losing) <= broken
  /\ broken + refused <= faults
  /\ OneLossSurvived

Inv == /\ TypeOK /\ HandInv /\ NumberInv /\ Exclusive /\ ListedInv
       /\ PlacesInv /\ LossInv

-----------------------------------------------------------------------------
(* What a step does to the connections, whoever takes it and why.          *)

conns == <<list, free, dialed, cn, newcn>>

\* u receives from freeConns.
Taken(u) ==
  /\ cn[u] = 0 /\ newcn[u] = 0 /\ free # <<>>
  /\ cn' = [cn EXCEPT ![u] = Head(free)]
  /\ free' = Tail(free)
  /\ UNCHANGED <<list, dialed, newcn>>

\* u has a new connection, in the list.
Dialed(u) ==
  /\ cn[u] = 0 /\ newcn[u] = 0
  /\ dialed' = dialed + 1
  /\ list' = list \cup {dialed'}
  /\ cn' = [cn EXCEPT ![u] = dialed']
  /\ UNCHANGED <<free, newcn>>

\* u sends its connection to freeConns.
Returned(u) ==
  /\ cn[u] # 0
  /\ Put(u)
  /\ UNCHANGED <<list, dialed, newcn>>

\* u forgets its connection.
Forgotten(u) ==
  /\ cn[u] # 0
  /\ cn' = [cn EXCEPT ![u] = 0]
  /\ UNCHANGED <<list, free, dialed, newcn>>

\* u sends a new connection to freeConns.
Sent(u) ==
  /\ cn[u] # 0 /\ newcn[u] = 0
  /\ dialed' = dialed + 1
  /\ free' = Append(free, dialed')
  /\ newcn' = [newcn EXCEPT ![u] = dialed']
  /\ UNCHANGED <<list, cn>>

\* u takes its connection out of the list, and puts the new one, if any, in.
Unlisted(u) ==
  /\ cn[u] \in list
  /\ list' = (list \ {cn[u]}) \cup ({newcn[u]} \ {0})
  /\ cn' = [cn EXCEPT ![u] = 0]
  /\ newcn' = [newcn EXCEPT ![u] = 0]
  /\ UNCHANGED <<free, dialed>>

Kept == UNCHANGED conns
Moved(u) == Taken(u) \/ Dialed(u) \/ Returned(u) \/ Sent(u) \/ Unlisted(u)

\* Connections are numbers, those in hand and in freeConns too.
LEMMA ConnType ==
  ASSUME TypeOK
  PROVE  /\ dialed \in Nat /\ 0 \notin list
         /\ \A u \in User : cn[u] \in Nat /\ newcn[u] \in Nat
         /\ Len(free) \in Nat /\ DOMAIN free = 1..Len(free)
         /\ \A i \in 1..Len(free) : free[i] \in Nat /\ free[i] # 0
         /\ \A c \in list : c \in Nat
BY DEF TypeOK, Conn

\* Receiving from freeConns: the rest of the queue is what it was.
LEMMA TailFacts ==
  ASSUME TypeOK, free # <<>>
  PROVE  /\ Len(Tail(free)) = Len(free) - 1 /\ Len(free) \in Nat \ {0}
         /\ DOMAIN Tail(free) = 1..(Len(free) - 1)
         /\ \A i \in 1..(Len(free) - 1) : Tail(free)[i] = free[i + 1]
         /\ Head(free) = free[1]
BY DEF TypeOK

\* Sending to it: one more at its end.
LEMMA AppendFacts ==
  ASSUME TypeOK, NEW c \in Conn
  PROVE  /\ Len(Append(free, c)) = Len(free) + 1 /\ Len(free) \in Nat
         /\ DOMAIN Append(free, c) = 1..(Len(free) + 1)
         /\ \A i \in 1..Len(free) : Append(free, c)[i] = free[i]
         /\ Append(free, c)[Len(free) + 1] = c
BY DEF TypeOK

\* Connections keep to the order of their numbers.
LEMMA NumberMoved ==
  ASSUME TypeOK, NumberInv, ListedInv, Exclusive, NEW u \in User,
         Kept \/ Moved(u) \/ Forgotten(u)
  PROVE  NumberInv'
<1> USE ConnType DEF NumberInv
<1>1. CASE Kept
  BY <1>1 DEF Kept, conns
<1>2. CASE Taken(u)
  <2>1. \A i \in DOMAIN free' : free'[i] <= dialed'
    BY <1>2, TailFacts DEF Taken
  <2> QED BY <1>2, <2>1, TailFacts DEF Taken, TypeOK
<1>3. CASE Dialed(u)
  <2>1. \A v \in User : cn'[v] <= dialed' /\ newcn'[v] <= dialed'
    BY <1>3 DEF Dialed, TypeOK
  <2>2. /\ \A i \in DOMAIN free' : free'[i] <= dialed'
        /\ \A c \in list' : c <= dialed'
    BY <1>3 DEF Dialed
  <2>3. \A v \in User : newcn'[v] # 0 => newcn'[v] \notin list' /\ newcn'[v] # cn'[v]
    BY <1>3 DEF Dialed, TypeOK
  <2> QED BY <1>3, <2>1, <2>2, <2>3 DEF Dialed
<1>4. CASE Returned(u)
  <2>1. \A i \in DOMAIN free' : free'[i] <= dialed'
    BY <1>4, AppendFacts DEF Returned, Put, Conn
  <2> QED BY <1>4, <2>1 DEF Returned, Put, TypeOK
<1>5. CASE Forgotten(u)
  BY <1>5 DEF Forgotten, TypeOK
<1>6. CASE Sent(u)
  <2>1. \A i \in DOMAIN free' : free'[i] <= dialed'
    BY <1>6, AppendFacts DEF Sent, Conn
  <2> QED BY <1>6, <2>1 DEF Sent, TypeOK
<1>7. CASE Unlisted(u)
  BY <1>7 DEF Unlisted, TypeOK
<1> QED BY <1>1, <1>2, <1>3, <1>4, <1>5, <1>6, <1>7 DEF Moved

\* Every connection stays in one place.
LEMMA ExclusiveMoved ==
  ASSUME TypeOK, NumberInv, Exclusive, NEW u \in User,
         Kept \/ Moved(u) \/ Forgotten(u)
  PROVE  Exclusive'
<1> USE ConnType DEF Exclusive
<1>1. CASE Kept
  BY <1>1 DEF Kept, conns
<1>2. CASE Taken(u)
  <2>1. /\ free' = Tail(free) /\ cn'[u] = free[1]
        /\ \A v \in User \ {u} : cn'[v] = cn[v]
        /\ 1 \in DOMAIN free /\ DOMAIN free' = 1..(Len(free) - 1)
        /\ \A i \in DOMAIN free' : i + 1 \in DOMAIN free /\ free'[i] = free[i + 1]
    BY <1>2, TailFacts DEF Taken, TypeOK
  <2>2. \A v, w \in User : v # w /\ cn'[v] = cn'[w] => cn'[v] = 0
    BY <2>1
  <2>3. \A v \in User, i \in DOMAIN free' : free'[i] # cn'[v]
    BY <2>1
  <2>4. \A i, j \in DOMAIN free' : i # j => free'[i] # free'[j]
    BY <2>1
  <2> QED BY <2>2, <2>3, <2>4
<1>3. CASE Dialed(u)
  BY <1>3 DEF Dialed, TypeOK, NumberInv
<1>4. CASE Returned(u)
  <2>1. cn[u] \in Conn
    BY <1>4 DEF Returned, Conn
  <2> QED BY <1>4, <2>1, AppendFacts DEF Returned, Put, TypeOK
<1>5. CASE Forgotten(u)
  BY <1>5 DEF Forgotten, TypeOK
<1>6. CASE Sent(u)
  <2>1. dialed' \in Conn
    BY <1>6 DEF Sent, Conn
  <2>2. \A v \in User, i \in DOMAIN free' : free'[i] # cn'[v]
    BY <1>6, <2>1, AppendFacts DEF Sent, NumberInv
  <2>3. \A i, j \in DOMAIN free' : i # j => free'[i] # free'[j]
    BY <1>6, <2>1, AppendFacts DEF Sent, NumberInv
  <2> QED BY <1>6, <2>2, <2>3 DEF Sent
<1>7. CASE Unlisted(u)
  BY <1>7 DEF Unlisted, TypeOK
<1> QED BY <1>1, <1>2, <1>3, <1>4, <1>5, <1>6, <1>7 DEF Moved

\* The connection that u has in hand changes, and no other.
LEMMA InHandMoved ==
  ASSUME TypeOK, Exclusive, NEW u \in User, NEW c \in Nat,
         cn' = [cn EXCEPT ![u] = c]
  PROVE  \A x : x # 0 => (x \in InHand' <=> x = c \/ x \in InHand \ {cn[u]})
BY DEF TypeOK, InHand, Exclusive

\* The connection that u brings changes, and no other.
LEMMA ComingMoved ==
  ASSUME TypeOK, NumberInv, NEW u \in User, NEW c \in Nat,
         newcn' = [newcn EXCEPT ![u] = c]
  PROVE  \A x : x # 0 => (x \in Coming' <=> x = c \/ x \in Coming \ {newcn[u]})
BY DEF TypeOK, Coming, NumberInv

\* The connection at the head of freeConns is taken, and no other.
LEMMA OfferedTaken ==
  ASSUME TypeOK, Exclusive, free # <<>>, free' = Tail(free)
  PROVE  \A x : x \in Offered' <=> x \in Offered \ {Head(free)}
<1>1. \A x : x \in Offered' => x \in Offered \ {Head(free)}
  BY TailFacts, ConnType DEF Offered, Exclusive
<1>2. ASSUME NEW i \in 1..Len(free), free[i] # Head(free)
      PROVE  free[i] \in Offered'
  <2>1. i - 1 \in DOMAIN free' /\ free'[i - 1] = free[i]
    BY <1>2, TailFacts
  <2> QED BY <2>1 DEF Offered
<1> QED BY <1>1, <1>2, ConnType DEF Offered

\* One more connection is on offer.
LEMMA OfferedSent ==
  ASSUME TypeOK, NEW c \in Conn, free' = Append(free, c)
  PROVE  \A x : x \in Offered' <=> x = c \/ x \in Offered
BY AppendFacts, ConnType DEF Offered

\* No move makes a connection live that is neither listed nor coming, and none
\* loses one.
LEMMA ListedMoved ==
  ASSUME TypeOK, NumberInv, Exclusive, ListedInv, NEW u \in User,
         Kept \/ Moved(u)
  PROVE  ListedInv' /\ Lost' \subseteq Lost
<1> USE ConnType DEF ListedInv, Lost, Live
<1>0. /\ 0 \notin Coming /\ 0 \notin Coming' /\ 0 \notin Offered
      /\ cn[u] \in InHand /\ (newcn[u] # 0 => newcn[u] \in Coming)
  BY DEF Coming, Offered, InHand
<1>1. CASE Kept
  <2>1. InHand' = InHand /\ Offered' = Offered /\ Coming' = Coming /\ list' = list
    BY <1>1 DEF Kept, conns, InHand, Offered, Coming
  <2> QED BY <2>1
<1>2. CASE Taken(u)
  <2>1. Head(free) \in Offered /\ Head(free) \in Nat \ {0}
    BY <1>2, TailFacts DEF Taken, Offered
  <2>2. Coming' = Coming /\ list' = list
    BY <1>2 DEF Taken, Coming
  <2>3. \A x : x # 0 => (x \in InHand' <=> x = Head(free) \/ x \in InHand)
    BY <1>2, <2>1, InHandMoved DEF Taken
  <2>4. \A x : x \in Offered' <=> x \in Offered \ {Head(free)}
    BY <1>2, OfferedTaken DEF Taken
  <2> QED BY <1>0, <2>1, <2>2, <2>3, <2>4
<1>3. CASE Dialed(u)
  <2>1. Coming' = Coming /\ Offered' = Offered /\ dialed' \in Nat
    BY <1>3 DEF Dialed, Coming, Offered
  <2>2. \A x : x # 0 => (x \in InHand' <=> x = dialed' \/ x \in InHand)
    BY <1>3, <2>1, InHandMoved DEF Dialed
  <2> QED BY <1>0, <1>3, <2>1, <2>2 DEF Dialed
<1>4. CASE Returned(u)
  <2>1. Coming' = Coming /\ list' = list /\ cn[u] # 0
    BY <1>4 DEF Returned, Coming
  <2>2. \A x : x # 0 => (x \in InHand' <=> x \in InHand \ {cn[u]})
    BY <1>4, InHandMoved DEF Returned, Put
  <2>3. \A x : x \in Offered' <=> x = cn[u] \/ x \in Offered
    BY <1>4, OfferedSent DEF Returned, Put, Conn
  <2> QED BY <1>0, <2>1, <2>2, <2>3
<1>5. CASE Sent(u)
  <2>1. InHand' = InHand /\ list' = list /\ dialed' \in Nat \ {0}
    BY <1>5 DEF Sent, InHand
  <2>2. \A x : x # 0 => (x \in Coming' <=> x = dialed' \/ x \in Coming)
    BY <1>0, <1>5, <2>1, ComingMoved DEF Sent
  <2>3. \A x : x \in Offered' <=> x = dialed' \/ x \in Offered
    BY <1>5, OfferedSent DEF Sent, Conn
  <2> QED BY <1>0, <2>1, <2>2, <2>3
<1>6. CASE Unlisted(u)
  <2>1. Offered' = Offered /\ cn[u] # 0 /\ cn[u] \in list
    BY <1>6 DEF Unlisted, Offered
  <2>2. \A x : x # 0 => (x \in InHand' <=> x \in InHand \ {cn[u]})
    BY <1>6, InHandMoved DEF Unlisted
  <2>3. \A x : x # 0 => (x \in Coming' <=> x \in Coming \ {newcn[u]})
    BY <1>6, ComingMoved DEF Unlisted
  <2>4. cn[u] \notin Coming /\ cn[u] \notin Offered
    BY <2>1 DEF Coming, Offered, NumberInv, Exclusive
  <2>5. \A x : x # 0 => (x \in list' <=> x = newcn[u] \/ x \in list \ {cn[u]})
    BY <1>6 DEF Unlisted
  <2>6. \A x : x \in Lost' => x \in Lost
    <3> SUFFICES ASSUME NEW x \in Lost' PROVE x \in Lost
      OBVIOUS
    <3>1. x # 0
      BY <1>0, <1>6 DEF Unlisted
    <3>2. x # cn[u] /\ x \notin InHand /\ x \notin Offered
      <4>1. x # cn[u]
        BY <2>3, <2>4, <2>5, <3>1, <1>0
      <4> QED BY <2>1, <2>2, <3>1, <4>1
    <3> QED BY <1>0, <2>3, <2>5, <3>1, <3>2
  <2>7. ListedInv'
    <3> SUFFICES ASSUME NEW x \in Live', x # 0
                 PROVE  x \in list' \/ x \in Coming'
      OBVIOUS
    <3>1. x # cn[u] /\ x \in Live
      BY <2>1, <2>2, <2>4
    <3> QED BY <2>3, <2>5, <3>1
  <2> QED BY <2>6, <2>7
<1> QED BY <1>1, <1>2, <1>3, <1>4, <1>5, <1>6 DEF Moved

\* Forgetting a connection loses that one.
LEMMA ListedForgotten ==
  ASSUME TypeOK, NumberInv, Exclusive, ListedInv, NEW u \in User, Forgotten(u)
  PROVE  ListedInv' /\ Lost' \subseteq Lost \cup {cn[u]}
<1> USE ConnType DEF ListedInv, Lost, Live
<1>1. Coming' = Coming /\ Offered' = Offered /\ list' = list /\ 0 \notin Coming
  BY DEF Forgotten, Coming, Offered
<1>2. \A x : x # 0 => (x \in InHand' <=> x \in InHand \ {cn[u]})
  BY InHandMoved DEF Forgotten
<1> QED BY <1>1, <1>2

-----------------------------------------------------------------------------
(* What each step does to the goroutine that takes it.                     *)

\* A command ends outside the pool, or with the next PING, or the loop is deaf.
LEMMA ReturnGoes ==
  ASSUME NEW u \in User, NEW ok, Return(u, ok)
  PROVE  \E l \in {"out", "get", "deaf"} :
           Becomes(u, l) /\ (phase[u] \in {"claim", "push"} => l = "out")
BY DEF Return

\* So does one whose connection is out of the list.
LEMMA RetryGoes ==
  ASSUME NEW u \in User, Retry(u)
  PROVE  /\ cn' = [cn EXCEPT ![u] = 0] /\ newcn' = [newcn EXCEPT ![u] = 0]
         /\ \E l \in {"out", "get", "deaf"} : Becomes(u, l)
BY ReturnGoes DEF Retry

\* Every step is one move of connections, and only Redis's refusal of UNWATCH
\* makes the pool forget one.
LEMMA StepMoves ==
  ASSUME TypeOK, HandInv, NEW u \in User, Start(u) \/ Step(u) \/ Silence(u)
  PROVE  Kept \/ Moved(u) \/ (Forgotten(u) /\ refused' = refused + 1)
<1> USE DEF Kept, conns, At, HandInv, Empty, Holding
<1>1. CASE Start(u) \/ Silence(u) \/ Lock(u) \/ Continue(u)
  BY <1>1 DEF Start, Silence, Lock, Continue
<1>2. CASE First(u) \/ Wait(u)
  BY <1>2 DEF First, Wait, Receive, Take, Moved, Taken
<1>3. CASE Reserve(u) \/ Undo(u) \/ DialFails(u) \/ AuthBreaks(u) \/ Timeout(u)
  BY <1>3 DEF Reserve, Undo, DialFails, AuthBreaks, Timeout
<1>4. CASE Dial(u)
  BY <1>4 DEF Dial, Take, Moved, Dialed
<1>5. CASE Reply(u)
  BY <1>5 DEF Reply, Moved, Returned
<1>6. CASE Refuse(u)
  BY <1>6 DEF Refuse, Moved, Returned, Forgotten
<1>7. CASE Subscribed(u) \/ Break(u)
  BY <1>7 DEF Subscribed, Break
<1>8. CASE Offer(u)
  BY <1>8 DEF Offer, Moved, Sent
<1>9. CASE Drop(u)
  <2>1. CASE cn[u] \in list
    <3>1. newcn[u] = 0
      BY <1>9 DEF Drop
    <3> QED BY <1>9, <2>1, <3>1, RetryGoes DEF Drop, Moved, Unlisted
  <2>2. CASE cn[u] \notin list
    BY <1>9, <2>2 DEF Drop, NotFound
  <2> QED BY <2>1, <2>2
<1>10. CASE Replace(u)
  <2>1. CASE cn[u] \in list
    <3>1. newcn[u] # 0
      BY <1>10 DEF Replace
    <3> QED BY <1>10, <2>1, <3>1, RetryGoes DEF Replace, Moved, Unlisted
  <2>2. CASE cn[u] \notin list
    BY <1>10, <2>2 DEF Replace, NotFound
  <2> QED BY <2>1, <2>2
<1> QED BY <1>1, <1>2, <1>3, <1>4, <1>5, <1>6, <1>7, <1>8, <1>9, <1>10
        DEF Step, GetStep, PutStep

\* Who has a connection in hand is still told by where it is.
LEMMA HandStep ==
  ASSUME TypeOK, HandInv, NEW u \in User, Start(u) \/ Step(u) \/ Silence(u)
  PROVE  HandInv'
<1> USE DEF TypeOK, At, HandInv, Empty, Holding, Becomes
<1>1. CASE Start(u) \/ Silence(u) \/ Lock(u) \/ Continue(u)
  BY <1>1 DEF Start, Silence, Lock, Continue, Call
<1>2. CASE First(u) \/ Wait(u)
  <2>1. CASE Receive(u)
    <3>1. Head(free) # 0
      BY <2>1, ConnType, TailFacts DEF Receive
    <3> QED BY <1>2, <2>1, <3>1 DEF First, Wait, Receive, Take
  <2>2. CASE ~ Receive(u)
    BY <1>2, <2>2 DEF First, Wait
  <2> QED BY <2>1, <2>2
<1>3. CASE Reserve(u) \/ Undo(u) \/ AuthBreaks(u)
  BY <1>3 DEF Reserve, Undo, AuthBreaks
<1>4. CASE DialFails(u) \/ Timeout(u)
  BY <1>4, ReturnGoes DEF DialFails, Timeout
<1>5. CASE Dial(u)
  BY <1>5, ConnType DEF Dial, Take
<1>6. CASE Reply(u)
  BY <1>6, ReturnGoes DEF Reply, Put
<1>7. CASE Refuse(u)
  BY <1>7, ReturnGoes DEF Refuse, Put
<1>8. CASE Subscribed(u) \/ Break(u)
  BY <1>8 DEF Subscribed, Break
<1>9. CASE Offer(u)
  BY <1>9, ConnType DEF Offer
<1>10. CASE Drop(u)
  <2>1. CASE cn[u] \in list
    BY <1>10, <2>1, RetryGoes DEF Drop
  <2>2. CASE cn[u] \notin list
    BY <1>10, <2>2 DEF Drop, NotFound
  <2> QED BY <2>1, <2>2
<1>11. CASE Replace(u)
  <2>1. CASE cn[u] \in list
    BY <1>11, <2>1, RetryGoes DEF Replace
  <2>2. CASE cn[u] \notin list
    BY <1>11, <2>2 DEF Replace, NotFound
  <2> QED BY <2>1, <2>2
<1> QED BY <1>1, <1>2, <1>3, <1>4, <1>5, <1>6, <1>7, <1>8, <1>9, <1>10, <1>11
        DEF Step, GetStep, PutStep

-----------------------------------------------------------------------------
(* Counting places.                                                        *)

\* When one goroutine goes from one place to another, two numbers change.
LEMMA ThoseMoved ==
  ASSUME TypeOK, NEW u \in User, NEW l, NEW m, Becomes(u, m),
         IsFiniteSet(Those(l))
  PROVE  /\ IsFiniteSet(Those(l)') /\ Cardinality(Those(l)) \in Nat
         /\ Cardinality(Those(l)') \in Nat
         /\ m = l /\ pc[u] # l => Cardinality(Those(l)') = Cardinality(Those(l)) + 1
         /\ m # l /\ pc[u] = l => Cardinality(Those(l)') = Cardinality(Those(l)) - 1
         /\ (m = l <=> pc[u] = l) => Those(l)' = Those(l)
<1>1. CASE m = l /\ pc[u] # l
  <2>1. Those(l)' = Those(l) \cup {u} /\ u \notin Those(l)
    BY <1>1 DEF Those, Becomes, TypeOK
  <2> QED BY <1>1, <2>1, FS_AddElement, FS_CardinalityType
<1>2. CASE m # l /\ pc[u] = l
  <2>1. Those(l)' = Those(l) \ {u} /\ u \in Those(l)
    BY <1>2 DEF Those, Becomes, TypeOK
  <2> QED BY <1>2, <2>1, FS_RemoveElement, FS_CardinalityType
<1>3. CASE m = l <=> pc[u] = l
  <2>1. Those(l)' = Those(l)
    BY <1>3 DEF Those, Becomes, TypeOK
  <2> QED BY <1>3, <2>1, FS_CardinalityType
<1> QED BY <1>1, <1>2, <1>3

\* Steps outside Reserve and its ends, and outside the list, keep the counts.
LEMMA PlacesKept ==
  ASSUME TypeOK, PlacesInv, NEW u \in User, NEW l, UNCHANGED <<place, list>>,
         \/ UNCHANGED pc
         \/ Becomes(u, l) /\ {pc[u], l} \cap {"dial", "undo"} = {}
  PROVE  PlacesInv'
<1>1. Those("dial")' = Those("dial") /\ Those("undo")' = Those("undo")
  BY DEF Those, Becomes, TypeOK
<1> QED BY <1>1 DEF PlacesInv, PlacesCounted, Number, Those

\* The counts stay right, and within PoolSize.
LEMMA PlacesStep ==
  ASSUME TypeOK, HandInv, NumberInv, PlacesInv, NEW u \in User,
         Start(u) \/ Step(u) \/ Silence(u)
  PROVE  PlacesInv'
<1> USE DEF At
<1> DEFINE n == Cardinality(list)
           d == Cardinality(Those("dial"))
           o == Cardinality(Those("undo"))
<1>0. /\ place = n + d + o /\ n + d <= PoolSize
      /\ n \in Nat /\ d \in Nat /\ o \in Nat
      /\ IsFiniteSet(list)
      /\ IsFiniteSet(Those("dial")) /\ IsFiniteSet(Those("undo"))
  BY FS_CardinalityType DEF PlacesInv, PlacesCounted, Number, Those
<1>a. SUFFICES /\ IsFiniteSet(list') /\ IsFiniteSet(Those("dial")')
               /\ IsFiniteSet(Those("undo")')
               /\ place' = n' + d' + o' /\ n' + d' <= PoolSize
  BY <1>a DEF PlacesInv, PlacesCounted, Number, Those
<1>b. ASSUME PlacesInv'
      PROVE  /\ IsFiniteSet(list') /\ IsFiniteSet(Those("dial")')
             /\ IsFiniteSet(Those("undo")')
             /\ place' = n' + d' + o' /\ n' + d' <= PoolSize
  BY <1>b DEF PlacesInv, PlacesCounted, Number, Those
<1>1. CASE Start(u) \/ Lock(u) \/ Continue(u)
  <2>1. \E l : Becomes(u, l) /\ {pc[u], l} \cap {"dial", "undo"} = {}
    BY <1>1 DEF Start, Lock, Continue, Call
  <2>2. UNCHANGED <<place, list>>
    BY <1>1 DEF Start, Lock, Continue
  <2> QED BY <1>b, <2>1, <2>2, PlacesKept
<1>2. CASE First(u) \/ Wait(u) \/ Timeout(u)
  <2>1. \E l : Becomes(u, l) /\ {pc[u], l} \cap {"dial", "undo"} = {}
    <3>1. pc[u] \in {"get", "wait"}
      BY <1>2 DEF First, Wait, Timeout
    <3>2. \E l \in {"talk", "reserve", "out", "get", "deaf"} : Becomes(u, l)
      BY <1>2, ReturnGoes DEF First, Wait, Receive, Take, Timeout
    <3> QED BY <3>1, <3>2
  <2>2. UNCHANGED <<place, list>>
    BY <1>2 DEF First, Wait, Receive, Timeout
  <2> QED BY <1>b, <2>1, <2>2, PlacesKept
<1>3. CASE AuthBreaks(u) \/ Silence(u)
  BY <1>b, <1>3, PlacesKept DEF AuthBreaks, Silence
<1>4. CASE Reply(u) \/ Refuse(u) \/ Subscribed(u) \/ Break(u) \/ Offer(u)
  <2>1. \E l : Becomes(u, l) /\ {pc[u], l} \cap {"dial", "undo"} = {}
    <3>1. pc[u] \in {"talk", "remove"}
      BY <1>4 DEF Reply, Refuse, Subscribed, Break, Offer
    <3>2. \E l \in {"out", "get", "deaf", "hold", "remove", "replace"} : Becomes(u, l)
      BY <1>4, ReturnGoes DEF Reply, Refuse, Subscribed, Break, Offer
    <3> QED BY <3>1, <3>2
  <2>2. UNCHANGED <<place, list>>
    BY <1>4 DEF Reply, Refuse, Subscribed, Break, Offer
  <2> QED BY <1>b, <2>1, <2>2, PlacesKept
<1>5. CASE Reserve(u)
  <2>1. CASE place' <= PoolSize
    <3>1. Becomes(u, "dial") /\ pc[u] = "reserve" /\ place' = place + 1 /\ list' = list
      BY <1>5, <2>1 DEF Reserve
    <3>2. /\ d' = d + 1 /\ o' = o
          /\ IsFiniteSet(Those("dial")') /\ IsFiniteSet(Those("undo")')
      BY <1>0, <3>1, ThoseMoved
    <3> QED BY <1>0, <2>1, <3>1, <3>2
  <2>2. CASE ~ (place' <= PoolSize)
    <3>1. Becomes(u, "undo") /\ pc[u] = "reserve" /\ place' = place + 1 /\ list' = list
      BY <1>5, <2>2 DEF Reserve
    <3>2. /\ d' = d /\ o' = o + 1
          /\ IsFiniteSet(Those("dial")') /\ IsFiniteSet(Those("undo")')
      BY <1>0, <3>1, ThoseMoved
    <3> QED BY <1>0, <3>1, <3>2
  <2> QED BY <2>1, <2>2
<1>6. CASE Undo(u)
  <2>1. Becomes(u, "wait") /\ pc[u] = "undo" /\ place' = place - 1 /\ list' = list
    BY <1>6 DEF Undo
  <2>2. d' = d /\ o' = o - 1 /\ IsFiniteSet(Those("dial")') /\ IsFiniteSet(Those("undo")')
    BY <1>0, <2>1, ThoseMoved
  <2> QED BY <1>0, <2>1, <2>2
<1>7. CASE Dial(u)
  <2>1. pc[u] = "dial" /\ place' = place /\ Becomes(u, "talk")
    BY <1>7 DEF Dial, Take
  <2>2. list' = list \cup {dialed + 1} /\ dialed + 1 \notin list
    BY <1>7, ConnType DEF Dial, NumberInv
  <2>3. d' = d - 1 /\ o' = o /\ IsFiniteSet(Those("dial")') /\ IsFiniteSet(Those("undo")')
    BY <1>0, <2>1, ThoseMoved
  <2>4. n' = n + 1 /\ IsFiniteSet(list')
    BY <1>0, <2>2, FS_AddElement
  <2> QED BY <1>0, <2>1, <2>3, <2>4
<1>8. CASE DialFails(u)
  <2>1. /\ pc[u] = "dial" /\ place' = place - 1 /\ list' = list
        /\ \E l \in {"out", "get", "deaf"} : Becomes(u, l)
    BY <1>8, ReturnGoes DEF DialFails
  <2>2. d' = d - 1 /\ o' = o /\ IsFiniteSet(Those("dial")') /\ IsFiniteSet(Those("undo")')
    BY <1>0, <2>1, ThoseMoved
  <2> QED BY <1>0, <2>1, <2>2
<1>9. CASE (Drop(u) \/ Replace(u)) /\ cn[u] \notin list
  BY <1>b, <1>9, PlacesKept DEF Drop, Replace, NotFound
<1>10. CASE (Drop(u) \/ Replace(u)) /\ cn[u] \in list
  <2>1. /\ pc[u] \in {"remove", "replace"}
        /\ \E l \in {"out", "get", "deaf"} : Becomes(u, l)
    BY <1>10, RetryGoes DEF Drop, Replace
  <2>2. d' = d /\ o' = o /\ IsFiniteSet(Those("dial")') /\ IsFiniteSet(Those("undo")')
    BY <1>0, <2>1, ThoseMoved
  <2>3. IsFiniteSet(list \ {cn[u]}) /\ Cardinality(list \ {cn[u]}) = n - 1
    BY <1>0, <1>10, FS_RemoveElement
  <2>4. CASE Drop(u)
    <3>1. list' = list \ {cn[u]} /\ place' = place - 1
      BY <1>10, <2>4 DEF Drop
    <3> QED BY <1>0, <2>2, <2>3, <3>1
  <2>5. CASE Replace(u)
    <3>1. list' = (list \ {cn[u]}) \cup {newcn[u]} /\ place' = place
      BY <1>10, <2>5 DEF Replace
    <3>2. newcn[u] \notin list \ {cn[u]}
      BY <2>5 DEF Replace, HandInv, NumberInv
    <3>3. /\ IsFiniteSet((list \ {cn[u]}) \cup {newcn[u]})
          /\ Cardinality((list \ {cn[u]}) \cup {newcn[u]})
               = Cardinality(list \ {cn[u]}) + 1
      BY <2>3, <3>2, FS_AddElement
    <3>4. n' = n /\ IsFiniteSet(list')
      BY <1>0, <2>3, <3>1, <3>3
    <3> QED BY <1>0, <2>2, <3>1, <3>4
  <2> QED BY <1>10, <2>4, <2>5
<1> QED BY <1>1, <1>2, <1>3, <1>4, <1>5, <1>6, <1>7, <1>8, <1>9, <1>10
        DEF Step, GetStep, PutStep

-----------------------------------------------------------------------------
(* Counting losses.                                                        *)

\* Only Break adds a goroutine to those that have lost a connection, and only
\* connList's "not found" is a panic of this kind.
LEMMA LosingStep ==
  ASSUME TypeOK, NEW u \in User, Start(u) \/ Step(u) \/ Silence(u)
  PROVE  /\ \/ broken' = broken /\ Losing' \subseteq Losing
            \/ broken' = broken + 1 /\ Losing' \subseteq Losing \cup {u}
         /\ panic' = "list" => cn[u] \notin list /\ u \in Losing
<1> USE DEF At, TypeOK, Losing, Those, Becomes
<1>1. CASE Start(u) \/ Silence(u) \/ Lock(u) \/ Continue(u)
  BY <1>1 DEF Start, Silence, Lock, Continue, Call
<1>2. CASE First(u) \/ Wait(u)
  BY <1>2 DEF First, Wait, Receive, Take
<1>3. CASE Reserve(u) \/ Undo(u) \/ Dial(u) \/ AuthBreaks(u)
  BY <1>3 DEF Reserve, Undo, Dial, Take, AuthBreaks
<1>4. CASE DialFails(u) \/ Timeout(u) \/ Reply(u) \/ Refuse(u)
  <2>1. UNCHANGED <<panic, broken>> /\ panic = "no"
    BY <1>4 DEF DialFails, Timeout, Reply, Refuse, down
  <2>2. PICK ok \in BOOLEAN : Return(u, ok)
    BY <1>4 DEF DialFails, Timeout, Reply, Refuse
  <2>3. PICK l \in {"out", "get", "deaf"} : pc' = [pc EXCEPT ![u] = l]
    BY <2>2, ReturnGoes
  <2>4. Losing' \subseteq Losing
    BY <2>3
  <2> QED BY <2>1, <2>4
<1>5. CASE Subscribed(u) \/ Break(u) \/ Offer(u)
  BY <1>5 DEF Subscribed, Break, Offer
<1>6. CASE (Drop(u) \/ Replace(u)) /\ cn[u] \in list
  BY <1>6, RetryGoes DEF Drop, Replace
<1>7. CASE (Drop(u) \/ Replace(u)) /\ cn[u] \notin list
  BY <1>7 DEF Drop, Replace, NotFound
<1> QED BY <1>1, <1>2, <1>3, <1>4, <1>5, <1>6, <1>7
        DEF Step, GetStep, PutStep

\* A failure is at most one lost connection or one refused UNWATCH.
LEMMA EnvStep ==
  ASSUME TypeOK, broken + refused <= faults, NEW u \in User,
         Start(u) \/ Step(u) \/ Silence(u)
  PROVE  /\ broken' \in Nat /\ refused' \in Nat /\ faults' \in 0..MaxFaults
         /\ broken' + refused' <= faults' /\ refused' >= refused
<1>1. \/ UNCHANGED env
      \/ Fault /\ UNCHANGED <<broken, refused>>
      \/ Fault /\ broken' = broken + 1 /\ UNCHANGED refused
      \/ Fault /\ refused' = refused + 1 /\ UNCHANGED broken
  <2>1. CASE Start(u) \/ Lock(u) \/ Continue(u) \/ Subscribed(u)
    BY <2>1 DEF Start, Lock, Continue, Subscribed
  <2>2. CASE First(u) \/ Wait(u) \/ Reserve(u) \/ Undo(u) \/ Dial(u) \/ Timeout(u)
    BY <2>2 DEF First, Wait, Receive, Reserve, Undo, Dial, Timeout
  <2>3. CASE DialFails(u) \/ AuthBreaks(u) \/ Silence(u) \/ Drop(u)
    BY <2>3 DEF DialFails, Refusal, AuthBreaks, Silence, Drop
  <2>4. CASE Reply(u) \/ Offer(u) \/ Replace(u)
    BY <2>4 DEF Reply, Offer, Replace
  <2>5. CASE Refuse(u) \/ Break(u)
    BY <2>5 DEF Refuse, Refusal, Session, Break
  <2> QED BY <2>1, <2>2, <2>3, <2>4, <2>5 DEF Step, GetStep, PutStep
<1>2. broken \in Nat /\ refused \in Nat /\ faults \in 0..MaxFaults
  BY DEF TypeOK
<1> QED BY <1>1, <1>2 DEF Fault

\* One element more is at most one more to count.
LEMMA AtMostOneMore ==
  ASSUME NEW S, NEW x, IsFiniteSet(S)
  PROVE  /\ IsFiniteSet(S \cup {x}) /\ Cardinality(S \cup {x}) \in Nat
         /\ Cardinality(S \cup {x}) <= Cardinality(S) + 1
<1>1. Cardinality(S) \in Nat
  BY FS_CardinalityType
<1>2. /\ IsFiniteSet(S \cup {x})
      /\ Cardinality(S \cup {x}) \in {Cardinality(S), Cardinality(S) + 1}
  BY FS_AddElement
<1> QED BY <1>1, <1>2

\* Losses stay within what refused UNWATCHes and breaks account for.
LEMMA LossStep ==
  ASSUME TypeOK, HandInv, NumberInv, Exclusive, ListedInv, LossInv,
         NEW u \in User, Start(u) \/ Step(u) \/ Silence(u)
  PROVE  LossInv'
<1>0. /\ broken \in Nat /\ refused \in Nat /\ broken' \in Nat /\ refused' \in Nat
      /\ broken' + refused' <= faults' /\ refused' >= refused
  BY EnvStep DEF LossInv, TypeOK
<1>1. IsFiniteSet(Lost') /\ Cardinality(Lost') <= refused'
  <2>0. IsFiniteSet(Lost) /\ Cardinality(Lost) <= refused /\ Cardinality(Lost) \in Nat
    BY FS_CardinalityType DEF LossInv
  <2>1. CASE Kept \/ Moved(u)
    <3>1. Lost' \subseteq Lost
      BY <2>1, ListedMoved
    <3>2. IsFiniteSet(Lost') /\ Cardinality(Lost') <= Cardinality(Lost)
      BY <2>0, <3>1, FS_Subset
    <3>3. Cardinality(Lost') \in Nat
      BY <3>2, FS_CardinalityType
    <3> QED BY <1>0, <2>0, <3>2, <3>3
  <2>2. CASE Forgotten(u) /\ refused' = refused + 1
    <3>1. Lost' \subseteq Lost \cup {cn[u]}
      BY <2>2, ListedForgotten
    <3>2. /\ IsFiniteSet(Lost \cup {cn[u]})
          /\ Cardinality(Lost \cup {cn[u]}) <= Cardinality(Lost) + 1
          /\ Cardinality(Lost \cup {cn[u]}) \in Nat
      BY <2>0, AtMostOneMore
    <3>3. /\ IsFiniteSet(Lost')
          /\ Cardinality(Lost') <= Cardinality(Lost \cup {cn[u]})
      BY <3>1, <3>2, FS_Subset
    <3>4. Cardinality(Lost') \in Nat
      BY <3>3, FS_CardinalityType
    <3> QED BY <1>0, <2>0, <2>2, <3>2, <3>3, <3>4
  <2> QED BY <2>1, <2>2, StepMoves
<1>2. IsFiniteSet(Losing') /\ Cardinality(Losing') <= broken'
  <2>0. /\ IsFiniteSet(Losing) /\ Cardinality(Losing) <= broken
        /\ Cardinality(Losing) \in Nat
    BY FS_CardinalityType DEF LossInv
  <2>1. /\ IsFiniteSet(Losing \cup {u})
        /\ Cardinality(Losing \cup {u}) <= Cardinality(Losing) + 1
        /\ Cardinality(Losing \cup {u}) \in Nat
    BY <2>0, AtMostOneMore
  <2>2. CASE broken' = broken /\ Losing' \subseteq Losing
    <3>1. IsFiniteSet(Losing') /\ Cardinality(Losing') <= Cardinality(Losing)
      BY <2>0, <2>2, FS_Subset
    <3>2. Cardinality(Losing') \in Nat
      BY <3>1, FS_CardinalityType
    <3> QED BY <1>0, <2>0, <2>2, <3>1, <3>2
  <2>3. CASE broken' = broken + 1 /\ Losing' \subseteq Losing \cup {u}
    <3>1. /\ IsFiniteSet(Losing')
          /\ Cardinality(Losing') <= Cardinality(Losing \cup {u})
      BY <2>1, <2>3, FS_Subset
    <3>2. Cardinality(Losing') \in Nat
      BY <3>1, FS_CardinalityType
    <3> QED BY <1>0, <2>0, <2>1, <2>3, <3>1, <3>2
  <2> QED BY <2>2, <2>3, LosingStep
<1>3. OneLossSurvived'
  <2> SUFFICES ASSUME panic' = "list" PROVE broken' >= 2
    BY DEF OneLossSurvived
  <2>1. cn[u] \notin list /\ u \in Losing /\ broken' >= broken
    BY <1>0, LosingStep
  <2>2. cn[u] \in Coming
    BY <2>1 DEF Losing, Those, HandInv, Holding, ListedInv, Live, InHand
  <2>3. PICK v \in User : v # u /\ newcn[v] # 0
    BY <2>2 DEF Coming, NumberInv
  <2>4. v \in Losing
    BY <2>3 DEF HandInv, Losing, Those
  <2>5. Cardinality({u} \cup {v}) = 2
    <3>1. IsFiniteSet({u}) /\ Cardinality({u}) = 1 /\ v \notin {u}
      BY <2>3, FS_Singleton
    <3>2. Cardinality({u} \cup {v}) = Cardinality({u}) + 1
      BY <3>1, FS_AddElement
    <3> QED BY <3>1, <3>2
  <2>6. Cardinality({u} \cup {v}) <= Cardinality(Losing) /\ Cardinality(Losing) \in Nat
    BY <2>1, <2>4, FS_Subset, FS_CardinalityType DEF LossInv
  <2> QED BY <1>0, <2>1, <2>5, <2>6 DEF LossInv
<1> QED BY <1>0, <1>1, <1>2, <1>3 DEF LossInv

-----------------------------------------------------------------------------
(* Room in freeConns.                                                      *)

\* The image of a finite set has no more elements, and as many if the function
\* tells them apart.
LEMMA ImageCount ==
  ASSUME NEW S, IsFiniteSet(S), NEW f, NEW T, T = {f[x] : x \in S}
  PROVE  /\ IsFiniteSet(T) /\ Cardinality(T) <= Cardinality(S)
         /\ (\A x, y \in S : x # y => f[x] # f[y]) => Cardinality(T) = Cardinality(S)
<1> DEFINE g == [x \in S |-> f[x]]
<1>1. g \in Surjection(S, T)
  BY DEF Surjection
<1>2. /\ IsFiniteSet(T) /\ Cardinality(T) <= Cardinality(S)
      /\ Cardinality(T) = Cardinality(S) <=> g \in Injection(S, T)
  <2> HIDE DEF g
  <2> QED BY <1>1, FS_Surjection
<1>3. ASSUME \A x, y \in S : x # y => f[x] # f[y]
      PROVE  g \in Injection(S, T)
  BY <1>3 DEF Injection, IsInjective
<1> QED BY <1>2, <1>3

\* Sets that share nothing are counted one after the other.
LEMMA DisjointCount ==
  ASSUME NEW S, NEW T, IsFiniteSet(S), IsFiniteSet(T)
  PROVE  /\ IsFiniteSet(S \cup T) /\ Cardinality(S) \in Nat /\ Cardinality(T) \in Nat
         /\ Cardinality(S \cup T) \in Nat
         /\ Cardinality(S \cup T) <= Cardinality(S) + Cardinality(T)
         /\ S \cap T = {} => Cardinality(S \cup T) = Cardinality(S) + Cardinality(T)
<1>1. /\ IsFiniteSet(S \cup T)
      /\ Cardinality(S \cup T)
           = Cardinality(S) + Cardinality(T) - Cardinality(S \cap T)
  BY FS_Union
<1>2. IsFiniteSet(S \cap T)
  <2>1. S \cap T \in SUBSET S
    OBVIOUS
  <2> QED BY <2>1, FS_Subset
<1>3. /\ Cardinality(S) \in Nat /\ Cardinality(T) \in Nat
      /\ Cardinality(S \cap T) \in Nat /\ Cardinality(S \cup T) \in Nat
  BY <1>1, <1>2, FS_CardinalityType
<1>4. S \cap T = {} => Cardinality(S \cap T) = 0
  BY FS_EmptySet
<1> QED BY <1>1, <1>3, <1>4

\* What is on offer, what is being replaced and one more connection in hand are
\* as many different connections; they are in the list, or coming, and each
\* that is coming replaces one.
LEMMA RoomFor ==
  ASSUME Inv, NEW u \in User, cn[u] # 0, pc[u] # "replace"
  PROVE  Len(free) < PoolSize
<1> USE DEF Inv
<1> DEFINE R == Those("replace")
           Old == {cn[v] : v \in R}
           Mine == {cn[u]}
<1>1. /\ \A v, w \in User : v # w /\ cn[v] = cn[w] => cn[v] = 0
      /\ \A v \in R : cn[v] # 0 /\ v # u
  BY DEF Exclusive, HandInv, Holding, Those
<1>2. IsFiniteSet(R) /\ R \subseteq User
  <2>1. R \in SUBSET Losing
    BY DEF Losing
  <2> QED BY <2>1, FS_Subset DEF LossInv, Those
<1>3. IsFiniteSet(Old) /\ Cardinality(Old) = Cardinality(R)
  <2>1. \A v, w \in R : v # w => cn[v] # cn[w]
    BY <1>1, <1>2
  <2> HIDE DEF R
  <2> QED BY <1>2, <2>1, ImageCount
<1>4. IsFiniteSet(Coming) /\ Cardinality(Coming) <= Cardinality(R)
  <2>1. Coming = {newcn[v] : v \in R}
    BY DEF Coming, HandInv, Those
  <2> HIDE DEF R
  <2> QED BY <1>2, <2>1, ImageCount
<1>5. IsFiniteSet(Offered) /\ Cardinality(Offered) = Len(free) /\ Len(free) \in Nat
  <2>1. DOMAIN free = 1..Len(free) /\ Len(free) \in Nat
    BY ConnType
  <2>2. IsFiniteSet(1..Len(free)) /\ Cardinality(1..Len(free)) = Len(free)
    BY <2>1, FS_Interval
  <2>3. Offered = {free[i] : i \in 1..Len(free)}
    BY <2>1 DEF Offered
  <2>4. \A i, j \in 1..Len(free) : i # j => free[i] # free[j]
    BY <2>1 DEF Exclusive
  <2> QED BY <2>1, <2>2, <2>3, <2>4, ImageCount
<1>6. IsFiniteSet(Mine) /\ Cardinality(Mine) = 1
  BY FS_Singleton
<1>7. Old \cap Mine = {} /\ Offered \cap (Old \cup Mine) = {}
  <2>1. \A v \in User : cn[v] \notin Offered
    BY DEF Exclusive, Offered
  <2> QED BY <1>1, <1>2, <2>1
<1>8. Offered \cup (Old \cup Mine) \in SUBSET (list \cup Coming)
  <2>1. \A v \in User : cn[v] # 0 => cn[v] \in list \cup Coming
    BY DEF ListedInv, Live, InHand
  <2>2. \A x \in Offered : x \in list \cup Coming
    BY ConnType DEF ListedInv, Live, Offered
  <2> QED BY <1>1, <1>2, <2>1, <2>2
<1>9. /\ IsFiniteSet(list) /\ Cardinality(list) <= PoolSize
      /\ Cardinality(list) \in Nat
  <2>1. /\ Cardinality(list) + Cardinality(Those("dial")) <= PoolSize
        /\ IsFiniteSet(list) /\ IsFiniteSet(Those("dial"))
    BY DEF PlacesInv, PlacesCounted, Number, Those
  <2>2. Cardinality(list) \in Nat /\ Cardinality(Those("dial")) \in Nat
    BY <2>1, FS_CardinalityType
  <2> QED BY <2>1, <2>2
<1>10. /\ IsFiniteSet(Old \cup Mine)
       /\ Cardinality(Old \cup Mine) = Cardinality(R) + 1 /\ Cardinality(R) \in Nat
  <2> HIDE DEF Old, Mine, R
  <2> QED BY <1>2, <1>3, <1>6, <1>7, DisjointCount
<1>11. /\ Cardinality(Offered \cup (Old \cup Mine)) = Len(free) + Cardinality(R) + 1
  <2> HIDE DEF Old, Mine, R
  <2>1. Cardinality(Offered \cup (Old \cup Mine))
          = Cardinality(Offered) + Cardinality(Old \cup Mine)
    BY <1>5, <1>7, <1>10, DisjointCount
  <2> QED BY <1>5, <1>10, <2>1
<1>12. /\ IsFiniteSet(list \cup Coming) /\ Cardinality(list \cup Coming) \in Nat
       /\ Cardinality(list \cup Coming) <= PoolSize + Cardinality(R)
  <2> HIDE DEF R
  <2>1. /\ IsFiniteSet(list \cup Coming) /\ Cardinality(Coming) \in Nat
        /\ Cardinality(list \cup Coming) \in Nat
        /\ Cardinality(list \cup Coming) <= Cardinality(list) + Cardinality(Coming)
    BY <1>4, <1>9, DisjointCount
  <2> QED BY <1>4, <1>9, <1>10, <2>1
<1>13. Len(free) + Cardinality(R) + 1 <= Cardinality(list \cup Coming)
  <2> HIDE DEF Old, Mine, R
  <2>1. Cardinality(Offered \cup (Old \cup Mine)) <= Cardinality(list \cup Coming)
    BY <1>8, <1>12, FS_Subset
  <2> QED BY <1>11, <2>1
<1> HIDE DEF R
<1> QED BY <1>5, <1>10, <1>12, <1>13

-----------------------------------------------------------------------------
(* Type correctness.                                                       *)

CallsOK ==
  /\ mu \in User \cup {Nobody} /\ ready \in BOOLEAN
  /\ pc \in [User -> PC] /\ phase \in [User -> Phase]
  /\ again \in [User -> BOOLEAN] /\ tries \in [User -> 0..MaxRetries]
  /\ panic \in {"no", "nil", "list"} /\ silent \subseteq User

\* A command that ends leaves the goroutine well typed.
LEMMA ReturnType ==
  ASSUME CallsOK, NEW u \in User, NEW ok \in BOOLEAN, Return(u, ok),
         UNCHANGED down
  PROVE  CallsOK'
<1>1. pc' \in [User -> PC]
  BY ReturnGoes DEF CallsOK, Becomes, PC
<1>2. phase' \in [User -> Phase]
  BY DEF CallsOK, Return, Phase
<1>3. mu' \in User \cup {Nobody}
  BY DEF CallsOK, Return
<1>4. ready' \in BOOLEAN
  BY DEF CallsOK, Return
<1>5. again' \in [User -> BOOLEAN] /\ tries' \in [User -> 0..MaxRetries]
  BY DEF CallsOK, Return
<1> QED BY <1>1, <1>2, <1>3, <1>4, <1>5 DEF CallsOK

\* So does a retry, of which there are MaxRetries.
LEMMA RetryType ==
  ASSUME CallsOK, NEW u \in User, Retry(u), UNCHANGED down
  PROVE  CallsOK'
<1>1. CASE again[u] /\ tries[u] < MaxRetries
  <2>1. tries' \in [User -> 0..MaxRetries]
    <3>1. tries[u] + 1 \in 0..MaxRetries
      BY <1>1 DEF CallsOK
    <3> QED BY <1>1, <3>1 DEF Retry, CallsOK
  <2>2. again' \in [User -> BOOLEAN] /\ pc' \in [User -> PC]
    BY <1>1 DEF Retry, CallsOK, Becomes, PC
  <2> QED BY <1>1, <2>1, <2>2 DEF Retry, CallsOK
<1>2. CASE ~ (again[u] /\ tries[u] < MaxRetries)
  BY <1>2, ReturnType DEF Retry
<1> QED BY <1>1, <1>2

\* Every step keeps the types of the goroutines.
LEMMA CallsStep ==
  ASSUME CallsOK, NEW u \in User, Start(u) \/ Step(u) \/ Silence(u)
  PROVE  CallsOK'
<1>1. CASE Start(u) \/ Continue(u)
  BY <1>1 DEF Start, Continue, Call, Becomes, CallsOK, PC, Phase
<1>2. CASE Silence(u) \/ Reserve(u) \/ Undo(u) \/ Offer(u)
  BY <1>2 DEF Silence, Reserve, Undo, Offer, Becomes, CallsOK, PC
<1>3. CASE Lock(u)
  BY <1>3 DEF Lock, Call, Becomes, CallsOK, PC, Phase
<1>4. CASE First(u) \/ Wait(u) \/ Dial(u)
  BY <1>4 DEF First, Wait, Receive, Dial, Take, Becomes, CallsOK, PC
<1>5. CASE DialFails(u) \/ Timeout(u) \/ Reply(u) \/ Refuse(u)
  BY <1>5, ReturnType DEF DialFails, Timeout, Reply, Refuse
<1>6. CASE AuthBreaks(u)
  BY <1>6 DEF AuthBreaks, CallsOK
<1>7. CASE Subscribed(u) \/ Break(u)
  BY <1>7 DEF Subscribed, Break, Becomes, CallsOK, PC
<1>8. CASE (Drop(u) \/ Replace(u)) /\ cn[u] \in list
  BY <1>8, RetryType DEF Drop, Replace
<1>9. CASE (Drop(u) \/ Replace(u)) /\ cn[u] \notin list
  BY <1>9 DEF Drop, Replace, NotFound, CallsOK
<1> QED BY <1>1, <1>2, <1>3, <1>4, <1>5, <1>6, <1>7, <1>8, <1>9
        DEF Step, GetStep, PutStep

\* Every move keeps the types of the connections.
LEMMA ConnsStep ==
  ASSUME TypeOK, NEW u \in User, Kept \/ Moved(u) \/ Forgotten(u)
  PROVE  /\ list' \subseteq Conn /\ free' \in Seq(Conn) /\ dialed' \in Nat
         /\ cn' \in [User -> Conn \cup {0}] /\ newcn' \in [User -> Conn \cup {0}]
<1> USE DEF TypeOK, Conn
<1>1. CASE Kept
  BY <1>1 DEF Kept, conns
<1>2. CASE Taken(u)
  BY <1>2 DEF Taken
<1>3. CASE Dialed(u)
  BY <1>3 DEF Dialed
<1>4. CASE Returned(u)
  BY <1>4 DEF Returned, Put
<1>5. CASE Forgotten(u)
  BY <1>5 DEF Forgotten
<1>6. CASE Sent(u)
  BY <1>6 DEF Sent
<1>7. CASE Unlisted(u)
  BY <1>7 DEF Unlisted
<1> QED BY <1>1, <1>2, <1>3, <1>4, <1>5, <1>6, <1>7 DEF Moved

\* Every step keeps TypeOK: connList.len is no less than 0 because it counts.
LEMMA TypeStep ==
  ASSUME TypeOK, HandInv, LossInv, PlacesInv', NEW u \in User,
         Start(u) \/ Step(u) \/ Silence(u)
  PROVE  TypeOK'
<1>1. CallsOK'
  <2>1. CallsOK
    BY DEF TypeOK, CallsOK
  <2> QED BY <2>1, CallsStep
<1>2. /\ list' \subseteq Conn /\ free' \in Seq(Conn) /\ dialed' \in Nat
      /\ cn' \in [User -> Conn \cup {0}] /\ newcn' \in [User -> Conn \cup {0}]
  BY StepMoves, ConnsStep
<1>3. place' \in Nat
  <2>1. /\ place' = Cardinality(list') + Cardinality(Those("dial")')
                      + Cardinality(Those("undo")')
        /\ IsFiniteSet(list') /\ IsFiniteSet(Those("dial")')
        /\ IsFiniteSet(Those("undo")')
    BY DEF PlacesInv, PlacesCounted, Number, Those
  <2>2. /\ Cardinality(list') \in Nat /\ Cardinality(Those("dial")') \in Nat
        /\ Cardinality(Those("undo")') \in Nat
    BY <2>1, FS_CardinalityType
  <2> QED BY <2>1, <2>2
<1>4. /\ broken' \in 0..MaxFaults /\ refused' \in 0..MaxFaults
      /\ faults' \in 0..MaxFaults
  <2>1. /\ broken' \in Nat /\ refused' \in Nat /\ faults' \in 0..MaxFaults
        /\ broken' + refused' <= faults'
    BY EnvStep DEF LossInv
  <2>2. faults' \in Nat /\ faults' <= MaxFaults
    BY <2>1
  <2>3. \A a, b, n \in Nat : a + b <= n => a <= n /\ b <= n
    OBVIOUS
  <2>4. broken' <= faults' /\ refused' <= faults'
    BY <2>1, <2>2, <2>3
  <2> QED BY <2>1, <2>2, <2>4
<1> QED BY <1>1, <1>2, <1>3, <1>4 DEF TypeOK, CallsOK

-----------------------------------------------------------------------------
(* The theorems.                                                           *)

\* Nobody has called Redis yet.
LEMMA InvInit == Init => Inv
<1> SUFFICES ASSUME Init PROVE Inv
  OBVIOUS
<1>1. TypeOK
  <2>1. pc \in [User -> PC] /\ phase \in [User -> Phase]
    BY DEF Init, PC, Phase
  <2>2. /\ cn \in [User -> Conn \cup {0}] /\ newcn \in [User -> Conn \cup {0}]
        /\ free \in Seq(Conn) /\ list \subseteq Conn
    BY DEF Init
  <2>3. ready \in BOOLEAN /\ again \in [User -> BOOLEAN]
    BY DEF Init
  <2>4. tries \in [User -> 0..MaxRetries]
    BY DEF Init
  <2> QED BY <2>1, <2>2, <2>3, <2>4 DEF Init, TypeOK
<1>2. HandInv /\ NumberInv /\ Exclusive
  BY DEF Init, HandInv, NumberInv, Exclusive, Empty, Holding
<1>3. /\ list = {} /\ Those("dial") = {} /\ Those("undo") = {} /\ Losing = {}
      /\ Coming = {} /\ Live \subseteq {0}
  BY DEF Init, Those, Losing, Coming, Live, InHand, Offered
<1>4. ListedInv /\ Lost = {}
  BY <1>3 DEF ListedInv, Lost
<1>5. PlacesInv
  <2>1. IsFiniteSet({}) /\ Cardinality({}) = 0 /\ place = 0
    BY FS_EmptySet DEF Init
  <2>2. Number("dial") = 0 /\ Number("undo") = 0
    BY <1>3, <2>1 DEF Number, Those
  <2> QED BY <1>3, <2>1, <2>2 DEF PlacesInv, PlacesCounted
<1>6. LossInv
  BY <1>3, <1>4, FS_EmptySet DEF Init, LossInv, OneLossSurvived
<1> QED BY <1>1, <1>2, <1>4, <1>5, <1>6 DEF Inv

\* Inv is inductive.
LEMMA InvNext == Inv /\ [Next]_vars => Inv'
<1> SUFFICES ASSUME Inv, [Next]_vars PROVE Inv'
  OBVIOUS
<1>1. ASSUME NEW u \in User, Start(u) \/ Step(u) \/ Silence(u) PROVE Inv'
  <2>1. Kept \/ Moved(u) \/ Forgotten(u)
    BY <1>1, StepMoves DEF Inv
  <2>2. NumberInv' /\ Exclusive' /\ ListedInv'
    BY <2>1, NumberMoved, ExclusiveMoved, ListedMoved, ListedForgotten DEF Inv
  <2>3. HandInv' /\ PlacesInv' /\ LossInv'
    BY <1>1, HandStep, PlacesStep, LossStep DEF Inv
  <2>4. TypeOK'
    BY <1>1, <2>3, TypeStep DEF Inv
  <2> QED BY <2>2, <2>3, <2>4 DEF Inv
<1>2. CASE UNCHANGED vars
  BY <1>2 DEF vars, Inv, TypeOK, HandInv, NumberInv, Exclusive, ListedInv,
              PlacesInv, PlacesCounted, Number, LossInv, OneLossSurvived, Those,
              Losing, Lost, Live, Coming, InHand, Offered
<1> QED BY <1>1, <1>2 DEF Next

\* Every behaviour keeps Inv.
THEOREM InvAlways == Spec => []Inv
BY InvInit, InvNext, PTL DEF Spec

\* Every variable has its type, connList.len is never negative, and no command
\* is tried more often than MaxRetries allows.
THEOREM TypeCorrect == Spec => []TypeOK
<1>1. Inv => TypeOK
  BY DEF Inv
<1> QED BY <1>1, InvAlways, PTL

\* No connection is used by two goroutines, or used while it is in freeConns.
THEOREM AlwaysExclusive == Spec => []Exclusive
<1>1. Inv => Exclusive
  BY DEF Inv
<1> QED BY <1>1, InvAlways, PTL

\* connList.len counts what it should, and the pool keeps to PoolSize.
THEOREM PlacesAlwaysCounted == Spec => []PlacesCounted
<1>1. Inv => PlacesCounted
  BY DEF Inv, PlacesInv
<1> QED BY <1>1, InvAlways, PTL

\* No goroutine blocks sending a connection to freeConns.
THEOREM SendsHaveRoom == Spec => []SendsNeverBlock
<1>1. Inv => SendsNeverBlock
  BY RoomFor DEF SendsNeverBlock
<1> QED BY <1>1, InvAlways, PTL

\* The pool loses no more connections than UNWATCHes were refused.
THEOREM LostOnlyByRefusal == Spec => []LostByRefusal
<1>1. Inv => LostByRefusal
  <2> SUFFICES ASSUME Inv PROVE Cardinality(list \ Live) <= refused
    BY DEF LostByRefusal, Live
  <2>1. list \ Live \in SUBSET Lost /\ IsFiniteSet(Lost)
    BY DEF Inv, LossInv, Lost
  <2>2. IsFiniteSet(list \ Live) /\ Cardinality(list \ Live) <= Cardinality(Lost)
    BY <2>1, FS_Subset
  <2>3. Cardinality(list \ Live) \in Nat /\ Cardinality(Lost) \in Nat
    BY <2>1, <2>2, FS_CardinalityType
  <2> QED BY <2>2, <2>3 DEF Inv, LossInv, TypeOK
<1> QED BY <1>1, InvAlways, PTL

\* connList panics only when a second connection is lost while the first is
\* being replaced.
THEOREM OneLossAlwaysSurvived == Spec => []OneLossSurvived
<1>1. Inv => OneLossSurvived
  BY DEF Inv, LossInv
<1> QED BY <1>1, InvAlways, PTL
=============================================================================
