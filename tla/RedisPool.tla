----------------------------- MODULE RedisPool -----------------------------
(***************************************************************************)
(* The connections of one Relax process to Redis: redisclient.Client, and  *)
(* the pool of the library behind it (gopkg.in/redis.v3).                  *)
(*                                                                         *)
(* A caller sends single commands, or sendEvent's session: a Multi that    *)
(* keeps one connection for HSETNX, RPUSH and the UNWATCH of Close.  A     *)
(* listener is the pubsub loop, which keeps its connection for good.  The  *)
(* steps are those that other goroutines can see: an atomic add, a send or *)
(* a receive on freeConns, a change of the list under its lock.  Relax     *)
(* sets no idle and no read timeout and never closes the pool; what the    *)
(* library does for these is left out.                                     *)
(***************************************************************************)
EXTENDS Naturals, Sequences, FiniteSets

CONSTANTS
  Caller, Listener,  \* the goroutines that use Redis
  Nobody,            \* holder of the mutex when it is free
  PoolSize,          \* Options.PoolSize: 10 by default
  MaxRetries,        \* Options.MaxRetries: 5 in redisclient
  Password,          \* is REDIS_PASSWORD set?
  MaxFaults          \* bound: failures of Redis and of connections

ASSUME UserAssumption ==
  Nobody \notin Caller \cup Listener /\ Caller \cap Listener = {}
ASSUME SizeAssumption ==
  /\ PoolSize \in Nat /\ MaxRetries \in Nat /\ MaxFaults \in Nat
  /\ Password \in BOOLEAN

VARIABLES
  mu,       \* the holder of redisclient's mutex
  ready,    \* has a PING been answered?
  place,    \* connList.len
  list,     \* connList.cns
  free,     \* freeConns, a channel of PoolSize places
  dialed,   \* connections made so far: they are numbered from 1
  pc,       \* where each goroutine is
  phase,    \* the command each goroutine is about
  cn,       \* the connection each goroutine has in hand; 0: none
  newcn,    \* the one it is replacing that with
  again,    \* is the error one that shouldRetry retries?
  tries,    \* i of baseClient.process
  panic,    \* did the process panic, and on what?
  silent,   \* goroutines that wait for an answer that does not come
  broken, refused, faults   \* history: lost connections, refused UNWATCHes, all

User == Caller \cup Listener
Conn == Nat \ {0}

mutex == <<mu, ready>>
pool  == <<place, list, free, dialed>>
calls == <<pc, phase, cn, newcn, again, tries>>
down  == <<panic, silent>>
env   == <<broken, refused, faults>>
vars == <<mutex, pool, calls, down, env>>

\* lock: at mu.Lock; out: in nobody's code here; get, reserve, undo, dial,
\* wait: in connPool.Get; talk: the command is with Redis; remove, replace: in
\* connPool.Remove; hold, deaf: the pubsub loop, with and without connection.
PC == {"lock", "out", "get", "reserve", "undo", "dial", "wait", "talk",
       "remove", "replace", "hold", "deaf"}
Phase == {"idle", "ping", "command", "claim", "push", "unwatch", "subscribe"}
Session == {"claim", "push", "unwatch"}

Init ==
  /\ mu = Nobody /\ ready = FALSE
  /\ place = 0 /\ list = {} /\ free = <<>> /\ dialed = 0
  /\ pc = [u \in User |-> "lock"]
  /\ phase = [u \in User |-> "idle"]
  /\ cn = [u \in User |-> 0]
  /\ newcn = [u \in User |-> 0]
  /\ again = [u \in User |-> FALSE]
  /\ tries = [u \in User |-> 0]
  /\ panic = "no" /\ silent = {}
  /\ broken = 0 /\ refused = 0 /\ faults = 0

\* The process runs and u is at l, not stuck there.
At(u, l) == panic = "no" /\ u \notin silent /\ pc[u] = l

InHand  == {cn[u] : u \in User}
Offered == {free[i] : i \in DOMAIN free}

Fault == faults < MaxFaults /\ faults' = faults + 1

Becomes(u, l) == pc' = [pc EXCEPT ![u] = l]

-----------------------------------------------------------------------------
(* Calls: baseClient.process, over connPool or over a singleConnPool.      *)

\* The first try of command ph; a session may have its connection already.
Call(u, ph) ==
  /\ phase' = [phase EXCEPT ![u] = ph]
  /\ Becomes(u, IF cn[u] = 0 THEN "get" ELSE "talk")

\* The command has ended well or not, and what its caller does then.  PING is
\* repeated under the mutex; a session ends with UNWATCH, and a failed HSETNX
\* is one that said no.
Return(u, ok) ==
  /\ tries' = [tries EXCEPT ![u] = 0]
  /\ again' = [again EXCEPT ![u] = FALSE]
  /\ \/ /\ phase[u] = "ping"
        /\ IF ok THEN /\ mu' = Nobody /\ ready' = TRUE
                      /\ Becomes(u, "out")
                      /\ phase' = [phase EXCEPT ![u] = "idle"]
                 ELSE /\ Becomes(u, "get")
                      /\ UNCHANGED <<mutex, phase>>
     \/ /\ phase[u] \in {"command", "unwatch"}
        /\ Becomes(u, "out")
        /\ phase' = [phase EXCEPT ![u] = "idle"]
        /\ UNCHANGED mutex
     \/ /\ phase[u] \in {"claim", "push"}
        /\ Becomes(u, "out")
        /\ phase' = [phase EXCEPT ![u] = IF ok THEN @ ELSE "push"]
        /\ UNCHANGED mutex
     \/ /\ phase[u] = "subscribe"
        /\ Becomes(u, "deaf")
        /\ phase' = [phase EXCEPT ![u] = "idle"]
        /\ UNCHANGED mutex

-----------------------------------------------------------------------------
(* redisclient.Client.                                                     *)

\* The client is there, or this goroutine makes it and stays in the mutex.
Lock(u) ==
  /\ At(u, "lock")
  /\ mu = Nobody
  /\ IF ready
     THEN /\ Becomes(u, "out")
          /\ UNCHANGED <<mu, phase>>
     ELSE /\ mu' = u
          /\ Call(u, "ping")
  /\ UNCHANGED <<ready, pool, cn, newcn, again, tries, down, env>>

\* A caller sends a command or opens a session; the pubsub loop subscribes.
Start(u) ==
  /\ At(u, "out") /\ phase[u] = "idle"
  /\ \E ph \in IF u \in Caller THEN {"command", "claim"} ELSE {"subscribe"} :
       Call(u, ph)
  /\ UNCHANGED <<mutex, pool, cn, newcn, again, tries, down, env>>

\* A session goes on: RPUSH if HSETNX said so, then UNWATCH.
Continue(u) ==
  /\ At(u, "out")
  /\ \/ phase[u] = "claim" /\ Call(u, "push")
     \/ phase[u] \in {"claim", "push"} /\ Call(u, "unwatch")
  /\ UNCHANGED <<mutex, pool, cn, newcn, again, tries, down, env>>

-----------------------------------------------------------------------------
(* connPool.Get.                                                           *)

\* u has connection c and writes its command to it.
Take(u, c) ==
  /\ cn' = [cn EXCEPT ![u] = c]
  /\ Becomes(u, "talk")

Receive(u) ==
  /\ free # <<>>
  /\ Take(u, Head(free))
  /\ free' = Tail(free)
  /\ UNCHANGED <<dialed, mutex, place, list, phase, newcn, again, tries,
                 down, env>>

\* First: a receive that does not wait.
First(u) ==
  /\ At(u, "get")
  /\ \/ Receive(u)
     \/ /\ free = <<>>
        /\ Becomes(u, "reserve")
        /\ UNCHANGED <<mutex, pool, phase, cn, newcn, again, tries, down,
                       env>>

\* Mutant: one place too many.
ReserveMore(u) ==
  /\ At(u, "reserve")
  /\ place' = place + 1
  /\ Becomes(u, IF place' <= PoolSize + 1 THEN "dial" ELSE "undo")
  /\ UNCHANGED <<dialed, mutex, list, free, phase, cn, newcn, again, tries,
                 down, env>>

\* Reserve adds first and looks then ...
Reserve(u) ==
  /\ At(u, "reserve")
  /\ place' = place + 1
  /\ Becomes(u, IF place' <= PoolSize THEN "dial" ELSE "undo")
  /\ UNCHANGED <<dialed, mutex, list, free, phase, cn, newcn, again, tries,
                 down, env>>

\* ... and takes back what was too much.
Undo(u) ==
  /\ At(u, "undo")
  /\ place' = place - 1
  /\ Becomes(u, "wait")
  /\ UNCHANGED <<dialed, mutex, list, free, phase, cn, newcn, again, tries,
                 down, env>>

Dial(u) ==
  /\ At(u, "dial")
  /\ dialed' = dialed + 1
  /\ list' = list \cup {dialed'}
  /\ Take(u, dialed')
  /\ UNCHANGED <<mutex, place, free, phase, newcn, again, tries, down, env>>

\* Whatever refuses a PING may refuse it again and again: that is no failure
\* out of the budget.
Refusal(u) == IF phase[u] = "ping" THEN UNCHANGED faults ELSE Fault

\* Mutant: the reserved place is not given back.
DialFailsReserved(u) ==
  /\ At(u, "dial")
  /\ Refusal(u)
  /\ Return(u, FALSE)
  /\ UNCHANGED <<pool, cn, newcn, down, broken, refused>>

\* No connection, AUTH refused, or too many connections in a second.
DialFails(u) ==
  /\ At(u, "dial")
  /\ Refusal(u)
  /\ place' = place - 1
  /\ Return(u, FALSE)
  /\ UNCHANGED <<dialed, list, free, cn, newcn, down, broken, refused>>

\* The connection is lost during AUTH: conn.init's singleConnPool has no pool
\* to give it back to.
AuthBreaks(u) ==
  /\ At(u, "dial") \/ At(u, "remove")
  /\ Password
  /\ Fault
  /\ panic' = "nil"
  /\ UNCHANGED <<mutex, pool, calls, silent, broken, refused>>

\* Mutant: no deadline.
Never(u) == FALSE /\ UNCHANGED vars

\* wait: a free connection or the end of PoolTimeout.
Wait(u) == At(u, "wait") /\ Receive(u)

Timeout(u) ==
  /\ At(u, "wait")
  /\ Return(u, FALSE)
  /\ UNCHANGED <<pool, cn, newcn, down, env>>

-----------------------------------------------------------------------------
(* The exchange with Redis, and putConn.                                   *)

\* The connection in hand goes back to the pool.
Put(u) ==
  /\ Len(free) < PoolSize
  /\ free' = Append(free, cn[u])
  /\ cn' = [cn EXCEPT ![u] = 0]

\* Mutant: a session is not closed.
ReplyUnclosed(u) ==
  /\ At(u, "talk") /\ phase[u] # "subscribe"
  /\ \/ phase[u] \notin Session /\ Put(u)
     \/ phase[u] \in {"claim", "push"} /\ UNCHANGED <<free, cn>>
     \/ phase[u] = "unwatch" /\ cn' = [cn EXCEPT ![u] = 0] /\ UNCHANGED free
  /\ Return(u, TRUE)
  /\ UNCHANGED <<dialed, place, list, newcn, down, env>>

\* Mutant: the caller goes on with the connection it has put back.
ReplyShared(u) ==
  /\ At(u, "talk") /\ phase[u] # "subscribe"
  /\ IF phase[u] \in {"claim", "push"} THEN UNCHANGED free
                                       ELSE free' = Append(free, cn[u])
  /\ UNCHANGED cn
  /\ Return(u, TRUE)
  /\ UNCHANGED <<dialed, place, list, newcn, down, env>>

\* Mutant: Client returns without Unlock.
ReplyLocked(u) ==
  /\ At(u, "talk") /\ phase[u] # "subscribe"
  /\ IF phase[u] \in {"claim", "push"} THEN UNCHANGED <<free, cn>> ELSE Put(u)
  /\ Becomes(u, "out")
  /\ phase' = [phase EXCEPT ![u] = IF phase[u] \in {"claim", "push"}
                                   THEN @ ELSE "idle"]
  /\ ready' = TRUE
  /\ UNCHANGED <<dialed, mu, tries, place, list, newcn, again, down, env>>

\* An answer.  A session keeps its connection until UNWATCH is answered.
Reply(u) ==
  /\ At(u, "talk") /\ phase[u] # "subscribe"
  /\ IF phase[u] \in {"claim", "push"} THEN UNCHANGED <<free, cn>> ELSE Put(u)
  /\ Return(u, TRUE)
  /\ UNCHANGED <<dialed, place, list, newcn, down, env>>

\* An error reply: the connection is as good as after an answer, but
\* Multi.Close returns before it releases it.
Refuse(u) ==
  /\ At(u, "talk") /\ phase[u] # "subscribe"
  /\ Refusal(u)
  /\ \/ phase[u] \notin Session /\ Put(u) /\ UNCHANGED refused
     \/ phase[u] \in {"claim", "push"} /\ UNCHANGED <<free, cn, refused>>
     \/ /\ phase[u] = "unwatch"
        /\ cn' = [cn EXCEPT ![u] = 0]
        /\ refused' = refused + 1
        /\ UNCHANGED free
  /\ Return(u, FALSE)
  /\ UNCHANGED <<dialed, place, list, newcn, down, broken>>

\* SUBSCRIBE is written, and the pubsub loop keeps the connection: it reads the
\* answer later (module PubSubReader).
Subscribed(u) ==
  /\ At(u, "talk") /\ phase[u] = "subscribe"
  /\ Becomes(u, "hold")
  /\ UNCHANGED <<mutex, pool, phase, cn, newcn, again, tries, down, env>>

\* The connection is lost: with an error shouldRetry knows, or in the middle
\* of a reply.  Subscribe does not try again, the loop's deferred Close removes
\* the connection.
Break(u) ==
  /\ At(u, "talk")
  /\ Fault
  /\ broken' = broken + 1
  /\ \E retry \in BOOLEAN :
       /\ phase[u] = "subscribe" => ~ retry
       /\ again' = [again EXCEPT ![u] = retry]
  /\ Becomes(u, "remove")
  /\ UNCHANGED <<mutex, pool, phase, cn, newcn, tries, down, refused>>

\* Redis is gone without a word, and there is no read timeout: neither for a
\* command nor for the AUTH of a new connection, in Get or in Remove.
Silence(u) ==
  /\ \/ At(u, "talk") /\ phase[u] # "subscribe"
     \/ Password /\ (At(u, "dial") \/ At(u, "remove"))
  /\ Fault
  /\ silent' = silent \cup {u}
  /\ UNCHANGED <<mutex, pool, calls, panic, broken, refused>>

-----------------------------------------------------------------------------
(* connPool.Remove.                                                        *)

\* The connection is out of the list; the next try, or the end of the command.
Retry(u) ==
  /\ cn' = [cn EXCEPT ![u] = 0]
  /\ newcn' = [newcn EXCEPT ![u] = 0]
  /\ IF again[u] /\ tries[u] < MaxRetries
     THEN /\ tries' = [tries EXCEPT ![u] = @ + 1]
          /\ again' = [again EXCEPT ![u] = FALSE]
          /\ Becomes(u, "get")
          /\ UNCHANGED <<mutex, phase>>
     ELSE Return(u, FALSE)

NotFound ==
  panic' = "list" /\ UNCHANGED <<mutex, calls, place, list, silent>>

\* A new connection is offered to waiters before it is in the list.
Offer(u) ==
  /\ At(u, "remove")
  /\ Len(free) < PoolSize
  /\ dialed' = dialed + 1
  /\ free' = Append(free, dialed')
  /\ newcn' = [newcn EXCEPT ![u] = dialed']
  /\ Becomes(u, "replace")
  /\ UNCHANGED <<mutex, place, list, phase, cn, again, tries, down, env>>

\* Mutant: connList.Remove looks for the wrong connection.
DropOther(u) ==
  /\ At(u, "remove")
  /\ Fault
  /\ NotFound
  /\ UNCHANGED <<dialed, free, broken, refused>>

\* No new connection: connList.Remove.
Drop(u) ==
  /\ At(u, "remove")
  /\ Fault
  /\ IF cn[u] \in list
     THEN /\ list' = list \ {cn[u]} /\ place' = place - 1
          /\ Retry(u)
          /\ UNCHANGED down
     ELSE NotFound
  /\ UNCHANGED <<dialed, free, broken, refused>>

\* connList.Replace.
Replace(u) ==
  /\ At(u, "replace")
  /\ IF cn[u] \in list
     THEN /\ list' = (list \ {cn[u]}) \cup {newcn[u]}
          /\ Retry(u)
          /\ UNCHANGED <<place, down>>
     ELSE NotFound
  /\ UNCHANGED <<dialed, free, env>>

-----------------------------------------------------------------------------
GetStep(u) ==
  \/ First(u)
  \/ Reserve(u)
  \/ Undo(u)
  \/ Dial(u)
  \/ DialFails(u)
  \/ AuthBreaks(u)
  \/ Wait(u)
  \/ Timeout(u)

PutStep(u) ==
  \/ Reply(u)
  \/ Refuse(u)
  \/ Subscribed(u)
  \/ Break(u)
  \/ Offer(u)
  \/ Drop(u)
  \/ Replace(u)

Step(u) ==
  \/ Lock(u)
  \/ Continue(u)
  \/ GetStep(u)
  \/ PutStep(u)

Next == \E u \in User : Start(u) \/ Step(u) \/ Silence(u)

Spec == Init /\ [][Next]_vars

\* A PING comes one step nearer to its answer.
PingServed == \E u \in User : phase[u] = "ping" /\ (Dial(u) \/ Reply(u))

\* Goroutines are scheduled; dials and waits have timeouts; Redis answers or
\* closes unless it falls silent, and it does not refuse every dial and PING.
FairSpec ==
  /\ Spec
  /\ \A u \in User : WF_vars(Step(u))
  /\ SF_vars(PingServed)

-----------------------------------------------------------------------------
(* Properties.                                                             *)

\* Every variable has its type, and no command is tried more often than
\* MaxRetries allows.
TypeOK ==
  /\ mu \in User \cup {Nobody} /\ ready \in BOOLEAN
  /\ place \in Nat /\ list \subseteq Conn /\ free \in Seq(Conn)
  /\ dialed \in Nat
  /\ pc \in [User -> PC] /\ phase \in [User -> Phase]
  /\ cn \in [User -> Conn \cup {0}] /\ newcn \in [User -> Conn \cup {0}]
  /\ again \in [User -> BOOLEAN] /\ tries \in [User -> 0..MaxRetries]
  /\ panic \in {"no", "nil", "list"} /\ silent \subseteq User
  /\ broken \in 0..MaxFaults /\ refused \in 0..MaxFaults
  /\ faults \in 0..MaxFaults

\* A connection is in one hand or in freeConns once: no two goroutines read
\* each other's replies.
Exclusive ==
  /\ \A u, v \in User : u # v /\ cn[u] = cn[v] => cn[u] = 0
  /\ \A u \in User, i \in DOMAIN free : free[i] # cn[u]
  /\ \A i, j \in DOMAIN free : i # j => free[i] # free[j]

Number(l) == Cardinality({u \in User : pc[u] = l})

\* connList.len counts the list, the places reserved for a dial and what
\* Reserve is about to take back; the list and the dials keep to PoolSize.
PlacesCounted ==
  /\ place = Cardinality(list) + Number("dial") + Number("undo")
  /\ Cardinality(list) + Number("dial") <= PoolSize

\* Whoever has a connection to give back, or one to offer instead, finds room
\* in freeConns: no send on the channel blocks.
SendsNeverBlock ==
  \A u \in User : cn[u] # 0 /\ pc[u] # "replace" => Len(free) < PoolSize

\* The pool loses a connection only to an UNWATCH that Redis refused; no other
\* error reply, lost connection or failed dial costs it one.
LostByRefusal == Cardinality(list \ (InHand \cup Offered)) <= refused

\* One lost connection does not bring the process down: it takes a second one,
\* while the first is being replaced.
OneLossSurvived == panic = "list" => broken >= 2

Still == panic # "no"

\* Whoever needs a connection gets one or an error: even if all are lost, taken
\* by the pubsub loop or used by those who wait for a silent Redis; unless it is
\* the AUTH of its own dial that Redis leaves without an answer.
Answered ==
  \A u \in User : pc[u] = "get" ~> (pc[u] \in {"talk", "hold", "deaf", "out"}
                                      \/ Still \/ u \in silent)

\* Nobody waits for redisclient.Client for ever, though one goroutine repeats
\* PING inside the mutex and each PING may end at any point with any error: as
\* long as Redis neither falls silent nor refuses every one of them.
ClientReturns == \A u \in User : pc[u] = "lock" ~> (pc[u] # "lock" \/ Still
                                                     \/ silent # {})
=============================================================================
