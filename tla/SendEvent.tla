----------------------------- MODULE SendEvent ------------------------------
(***************************************************************************)
(* The way of an event from Slack's socket to RELAX_EVENTS_QUEUE when      *)
(* several Relax processes run side by side ("high availability").         *)
(*                                                                         *)
(* A sender is a client of one process: the read loop that calls           *)
(* handleMessage, or the Start that reports a refused token.  Both run     *)
(* sendEvent, which claims the event with HSETNX and then pushes it with   *)
(* RPUSH.  The two commands are separate (redis.Multi is used without      *)
(* Exec), each is retried by the Redis library after a network error, and  *)
(* every error is dropped.                                                 *)
(***************************************************************************)
EXTENDS Events, Sequences, FiniteSets

CONSTANTS
  Sender,       \* the clients of all processes
  Process,      \* the Relax processes
  ProcessOf,    \* the process a sender runs in
  BotOf,        \* the team and the namespace of a sender
  Input,        \* the messages Slack may send
  Answer,       \* the ok answers rtm.start may give
  Clock,        \* what time.Now() may show, in nanoseconds
  MaxRetries,   \* redis.Options.MaxRetries
  MaxCrashes,   \* bound: crashes of processes in a behaviour
  MaxMinute,    \* bound: the last minute of a process's clock
  NoEvent       \* a sender that is not inside sendEvent

ASSUME SenderAssumption ==
  /\ ProcessOf \in [Sender -> Process]
  /\ BotOf \in [Sender -> [team : Team, namespace : OrBlank(Namespace)]]
ASSUME EnvironmentAssumption ==
  /\ Input \subseteq Message
  /\ Answer \subseteq RtmStart
  /\ Clock \subseteq Nat
  /\ NoEvent \notin Event
ASSUME BoundAssumption ==
  MaxRetries \in Nat /\ MaxCrashes \in Nat /\ MaxMinute \in Nat

VARIABLES
  mutex,     \* the bot_message fields of the RELAX_MUTEX_KEY hash
  queue,     \* all that was ever pushed on RELAX_EVENTS_QUEUE, oldest first
  pc,        \* what a sender is doing
  ev,        \* the event a sender is sending
  try,       \* attempts of the current Redis command that failed
  data,      \* the metadata of a sender's client
  seen,      \* the messages Slack has sent to a sender
  minute,    \* the minute each process's clock shows
  crashes,   \* crashes so far
  offered,   \* history: the events handed to sendEvent
  hit        \* history: the fields whose event met a fault in sendEvent

vars == <<mutex, queue, pc, ev, try, data, seen, minute, crashes,
          offered, hit>>

redis   == <<mutex, queue>>
history == <<offered, hit>>

\* down: not logged in; read: in startReadFromSlackLoop; claim, push: at the
\* HSETNX or at the RPUSH of sendEvent; off: Start refused, nobody restarts it.
State == {"down", "read", "claim", "push", "off"}

Sending(s) == pc[s] \in {"claim", "push"}
Field(s) == KeyOf(ev[s])

\* Where a sender goes on once sendEvent has returned.
After(e) == IF e.type = "disable_bot" THEN "off" ELSE "read"

Positions(q, k) == {i \in 1..Len(q) : KeyOf(q[i]) = k}
Copies(q, k) == Cardinality(Positions(q, k))

-----------------------------------------------------------------------------
Init ==
  /\ mutex = {}
  /\ queue = <<>>
  /\ pc = [s \in Sender |-> "down"]
  /\ ev = [s \in Sender |-> NoEvent]
  /\ try = [s \in Sender |-> 0]
  /\ data = [s \in Sender |-> EmptyMetadata]
  /\ seen = [s \in Sender |-> {}]
  /\ minute = [p \in Process |-> 0]
  /\ crashes = 0
  /\ offered = {}
  /\ hit = {}

\* sendEvent(e) is called: the claim comes next.
Offer(s, e) ==
  /\ ev' = [ev EXCEPT ![s] = e]
  /\ try' = [try EXCEPT ![s] = 0]
  /\ pc' = [pc EXCEPT ![s] = "claim"]
  /\ offered' = offered \cup {e}

\* sendEvent returns nil, whatever happened inside.
Return(s) ==
  /\ pc' = [pc EXCEPT ![s] = After(ev[s])]
  /\ ev' = [ev EXCEPT ![s] = NoEvent]
  /\ try' = [try EXCEPT ![s] = 0]

-----------------------------------------------------------------------------
(* The client.                                                             *)

\* Login and Start succeed: the metadata is new, the read loop runs.
Connect(s, r) ==
  /\ pc[s] = "down"
  /\ data' = [data EXCEPT ![s] = LoginMetadata(r)]
  /\ pc' = [pc EXCEPT ![s] = "read"]
  /\ UNCHANGED <<redis, ev, try, seen, minute, crashes, history>>

\* Login is answered invalid_auth or account_inactive: Start sends disable_bot.
Refused(s, now) ==
  /\ pc[s] = "down"
  /\ data' = [data EXCEPT ![s] = EmptyMetadata]
  /\ Offer(s, DisableBot(BotOf[s], now))
  /\ UNCHANGED <<redis, seen, minute, crashes, hit>>

\* The read loop ends with an error; LoginAndStart is called again.
Disconnect(s) ==
  /\ pc[s] = "read"
  /\ pc' = [pc EXCEPT ![s] = "down"]
  /\ UNCHANGED <<redis, ev, try, data, seen, minute, crashes, history>>

\* handleMessage, up to the call of sendEvent if the message leads there.
HandleMessage(s, m, now) ==
  /\ pc[s] = "read"
  /\ m.team = BotOf[s].team
  /\ m \notin seen[s]
  /\ seen' = [seen EXCEPT ![s] = @ \cup {m}]
  /\ data' = [data EXCEPT ![s] = Learn(m, @)]
  /\ IF Sends(m, data[s])
     THEN Offer(s, EventFor(BotOf[s], m, data'[s],
                            minute[ProcessOf[s]], now))
     ELSE UNCHANGED <<pc, ev, try, offered>>
  /\ UNCHANGED <<redis, minute, crashes, hit>>

-----------------------------------------------------------------------------
(* sendEvent and the Redis library under it.                               *)

\* Mutant: shouldSend is not looked at.
HSetNXUnchecked(s) ==
  /\ pc[s] = "claim"
  /\ mutex' = mutex \cup {Field(s)}
  /\ pc' = [pc EXCEPT ![s] = "push"]
  /\ try' = [try EXCEPT ![s] = 0]
  /\ UNCHANGED <<ev, queue, data, seen, minute, crashes, history>>

\* Mutant: HEXISTS in place of HSETNX, the field is never set.
HExists(s) ==
  /\ pc[s] = "claim"
  /\ IF Field(s) \in mutex
     THEN Return(s)
     ELSE pc' = [pc EXCEPT ![s] = "push"] /\ UNCHANGED <<ev, try>>
  /\ UNCHANGED <<mutex, queue, data, seen, minute, crashes, history>>

\* Mutant: shouldSend is negated.
HSetNXNegated(s) ==
  /\ pc[s] = "claim"
  /\ mutex' = mutex \cup {Field(s)}
  /\ IF Field(s) \in mutex
     THEN /\ pc' = [pc EXCEPT ![s] = "push"]
          /\ try' = [try EXCEPT ![s] = 0]
          /\ UNCHANGED ev
     ELSE Return(s)
  /\ UNCHANGED <<queue, data, seen, minute, crashes, history>>

\* HSETNX is answered: the first to set the field goes on to the push.
HSetNX(s) ==
  /\ pc[s] = "claim"
  /\ IF Field(s) \in mutex
     THEN Return(s) /\ UNCHANGED mutex
     ELSE /\ mutex' = mutex \cup {Field(s)}
          /\ pc' = [pc EXCEPT ![s] = "push"]
          /\ try' = [try EXCEPT ![s] = 0]
          /\ UNCHANGED ev
  /\ UNCHANGED <<queue, data, seen, minute, crashes, history>>

\* Mutant: one attempt too many.
RetryOnceMore(s) ==
  IF try[s] <= MaxRetries
  THEN try' = [try EXCEPT ![s] = @ + 1] /\ UNCHANGED <<pc, ev>>
  ELSE Return(s)

\* After a network error the library tries again, MaxRetries times at most.
Retry(s) ==
  IF try[s] < MaxRetries
  THEN try' = [try EXCEPT ![s] = @ + 1] /\ UNCHANGED <<pc, ev>>
  ELSE Return(s)

\* The connection breaks under HSETNX, before or after Redis executed it.
HSetNXLost(s) ==
  /\ pc[s] = "claim"
  /\ mutex' \in {mutex, mutex \cup {Field(s)}}
  /\ hit' = hit \cup {Field(s)}
  /\ Retry(s)
  /\ UNCHANGED <<queue, data, seen, minute, crashes, offered>>

RPush(s) ==
  /\ pc[s] = "push"
  /\ queue' = Append(queue, ev[s])
  /\ Return(s)
  /\ UNCHANGED <<mutex, data, seen, minute, crashes, history>>

\* The connection breaks under RPUSH, before or after Redis executed it.
RPushLost(s) ==
  /\ pc[s] = "push"
  /\ queue' \in {queue, Append(queue, ev[s])}
  /\ hit' = hit \cup {Field(s)}
  /\ Retry(s)
  /\ UNCHANGED <<mutex, data, seen, minute, crashes, offered>>

\* No connection to be had, or an error reply: the command is not retried,
\* boolCmd.Val() is false and intCmd.Val() is 0, nobody looks at the error.
CommandFails(s) ==
  /\ Sending(s)
  /\ hit' = hit \cup {Field(s)}
  /\ Return(s)
  /\ UNCHANGED <<redis, data, seen, minute, crashes, offered>>

-----------------------------------------------------------------------------
(* The process.                                                            *)

\* A process dies and starts anew: Redis keeps what it has, the rest is gone.
Crash(p) ==
  LET dead == {s \in Sender : ProcessOf[s] = p}
  IN /\ crashes < MaxCrashes
     /\ crashes' = crashes + 1
     /\ hit' = hit \cup {Field(s) : s \in {t \in dead : Sending(t)}}
     /\ pc' = [s \in Sender |-> IF s \in dead THEN "down" ELSE pc[s]]
     /\ ev' = [s \in Sender |-> IF s \in dead THEN NoEvent ELSE ev[s]]
     /\ try' = [s \in Sender |-> IF s \in dead THEN 0 ELSE try[s]]
     /\ data' = [s \in Sender |-> IF s \in dead THEN EmptyMetadata
                                                ELSE data[s]]
     /\ UNCHANGED <<redis, seen, minute, offered>>

\* The clocks of two machines need not agree.
Tick(p) ==
  /\ minute[p] < MaxMinute
  /\ minute' = [minute EXCEPT ![p] = @ + 1]
  /\ UNCHANGED <<redis, pc, ev, try, data, seen, crashes, history>>

\* What sendEvent does, once called, is up to Redis and the network only.
SendStep(s) ==
  \/ HSetNX(s)
  \/ HSetNXLost(s)
  \/ RPush(s)
  \/ RPushLost(s)
  \/ CommandFails(s)

Next ==
  \/ \E s \in Sender :
       \/ \E r \in Answer : Connect(s, r)
       \/ \E now \in Clock : Refused(s, now)
       \/ Disconnect(s)
       \/ \E m \in Input, now \in Clock : HandleMessage(s, m, now)
       \/ SendStep(s)
  \/ \E p \in Process : Crash(p) \/ Tick(p)

Spec == Init /\ [][Next]_vars

\* Every Redis command ends: answered, broken or refused.
FairSpec == Spec /\ \A s \in Sender : WF_vars(SendStep(s))

-----------------------------------------------------------------------------
(* Properties.                                                             *)

\* Every variable has its type; the event slot is full inside sendEvent only.
TypeOK ==
  /\ mutex \subseteq Key
  /\ queue \in Seq(Event)
  /\ pc \in [Sender -> State]
  /\ ev \in [Sender -> Event \cup {NoEvent}]
  /\ \A s \in Sender : Sending(s) <=> ev[s] # NoEvent
  /\ try \in [Sender -> 0..MaxRetries]
  /\ data \in [Sender -> Metadata]
  /\ seen \in [Sender -> SUBSET Input]
  /\ minute \in [Process -> 0..MaxMinute]
  /\ crashes \in 0..MaxCrashes
  /\ offered \subseteq Event
  /\ hit \subseteq Key

Queued(k) == \E i \in DOMAIN queue : KeyOf(queue[i]) = k

\* A claimed field whose event is not in the queue and will never be.
Lost(k) ==
  /\ k \in mutex
  /\ ~ Queued(k)
  /\ \A s \in Sender : pc[s] = "push" => Field(s) # k

\* sendEvent's "send-only-once": an event whose HSETNX and RPUSH met no fault
\* is in the queue once at most, however many processes received it.
OnceUnlessFault ==
  \A i, j \in DOMAIN queue :
    i # j /\ KeyOf(queue[i]) = KeyOf(queue[j]) => KeyOf(queue[i]) \in hit

\* The retries of the Redis library are the only source of duplicates: one
\* mutex field never has more than MaxRetries + 1 copies in the queue.
CopiesBounded ==
  \A i \in DOMAIN queue : Copies(queue, KeyOf(queue[i])) <= MaxRetries + 1

\* Two processes may hold different events for one mutex field (other
\* metadata, another namespace): the consumer only ever sees one of them.
OneVersionPerField ==
  \A i, j \in DOMAIN queue :
    KeyOf(queue[i]) = KeyOf(queue[j]) => queue[i] = queue[j]

\* sendEvent loses nothing silently: the field of an event handed to it is in
\* the queue, or some sender still works on it, or it met a fault.
NoSilentLoss ==
  \A e \in offered :
    \/ Queued(KeyOf(e))
    \/ KeyOf(e) \in hit
    \/ \E s \in Sender : Sending(s) /\ Field(s) = KeyOf(e)

\* e and f tell of one thing that happened in one channel; namespace, user and
\* bot are what their clients make of it.
SameHappening(e, f) ==
  /\ e.team = f.team /\ e.type = f.type
  /\ e.channel = f.channel /\ e.timestamp = f.timestamp

\* A mutex field names neither the namespace nor the type of an event, so that
\* clients of one team in two namespaces take each other's place: the event of
\* one of them is dropped.  That is all that gets lost: what happened in a channel
\* the client knows, at a time of Slack's, is told by some event in the queue, or
\* will be, or met a fault; no other message, edit or reaction replaces it.
OnlyTwinsShadow ==
  \A e \in {x \in offered : x.event_timestamp \in Stamp /\ x.channel # Blank} :
    \/ \E i \in DOMAIN queue : SameHappening(queue[i], e)
    \/ KeyOf(e) \in hit
    \/ \E s \in Sender : Sending(s) /\ Field(s) = KeyOf(e)

\* "you can use channel_uid and timestamp to identify the message" that was
\* edited, deleted or reacted to (README.md:182-185); channel_uid is empty if
\* the client does not know the channel.
IdentifiesTarget ==
  \A i \in DOMAIN queue :
    queue[i].type \in {"message_edited", "message_deleted",
                       "reaction_added", "reaction_removed"}
      => \E m \in Input : /\ Simple(m)
                          /\ m.ts = queue[i].timestamp
                          /\ queue[i].channel \in {m.channel, Blank}

\* A claim outlives its owner: once the process that won the HSETNX has given
\* up or died, no other process and no restart ever delivers the event.
LostStaysLost == [][\A k \in mutex : Lost(k) => Lost(k)']_vars

\* The queue and the mutex hash keep the promise of module Delivery.
D == INSTANCE Delivery WITH claimed <- mutex, MaxCopies <- MaxRetries + 1
Delivers == D!Spec

\* The fields that the clocks and the inputs of an instance can produce.
Fields ==
  OrBlank(Channel) \X
    (OrBlank(Stamp) \cup [nano : Clock]
       \cup [minute : 0..MaxMinute, channel : OrBlank(Channel)])

\* Every event handed to sendEvent ends in the queue unless its field met a
\* fault, also when another process won the claim and is still pushing it.
EventuallySent ==
  \A k \in Fields :
    (\E e \in offered : KeyOf(e) = k) ~> (Queued(k) \/ k \in hit)

-----------------------------------------------------------------------------
(* What the documentation says; the code does otherwise.                   *)

\* "we need to make sure that the same event is not sent more than once back
\* to the user" (slack/client.go:322).
SendOnlyOnce ==
  \A i, j \in DOMAIN queue : queue[i] = queue[j] => i = j
=============================================================================
