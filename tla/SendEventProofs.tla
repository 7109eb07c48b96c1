-------------------------- MODULE SendEventProofs ---------------------------
(***************************************************************************)
(* Proofs about SendEvent, for any number of senders and processes, any    *)
(* messages and any number of retries, crashes and minutes.                *)
(***************************************************************************)
EXTENDS SendEvent, FiniteSetTheorems, TLAPS

USE SenderAssumption, EnvironmentAssumption, BoundAssumption

-----------------------------------------------------------------------------
(* The functions of Events stay within their types.                        *)

\* What Login builds from an answer of rtm.start is metadata.
LEMMA LoginMetadataType ==
  ASSUME NEW r \in RtmStart
  PROVE  LoginMetadata(r) \in Metadata
BY DEF LoginMetadata, RtmStart, Metadata, OrBlank

\* So is what it builds from an answer that lists nothing.
LEMMA EmptyMetadataType == EmptyMetadata \in Metadata
BY DEF EmptyMetadata, Metadata, OrBlank

\* handleMessage keeps the metadata well formed.
LEMMA LearnType ==
  ASSUME NEW m \in Message, NEW d \in Metadata
  PROVE  Learn(m, d) \in Metadata
BY DEF Learn, Message, Metadata, OrBlank

\* Every event has a mutex field.
LEMMA KeyType ==
  ASSUME NEW e \in Event
  PROVE  KeyOf(e) \in Key
BY DEF KeyOf, Key, Event

\* The event that Start sends for a refused token is an event.
LEMMA DisableBotType ==
  ASSUME NEW s \in Sender, NEW now \in Nat
  PROVE  DisableBot(BotOf[s], now) \in Event
<1>1. BotOf[s].team \in Team /\ BotOf[s].namespace \in OrBlank(Namespace)
  OBVIOUS
<1>2. StampedAt(Blank, now) \in AnyStamp
  BY DEF StampedAt, AnyStamp, NanoStamp
<1> QED BY <1>1, <1>2 DEF DisableBot, Event, EventType, OrBlank, AnyStamp

\* What handleMessage hands to sendEvent is an event.
LEMMA EventForType ==
  ASSUME NEW s \in Sender, NEW m \in Message, NEW d \in Metadata,
         NEW e \in Metadata, NEW min \in Nat, NEW now \in Nat, Sends(m, d)
  PROVE  EventFor(BotOf[s], m, e, min, now) \in Event
<1>1. BotOf[s].team \in Team /\ BotOf[s].namespace \in OrBlank(Namespace)
  OBVIOUS
<1>2. EventTypeOf(m) \in EventType
  BY DEF Sends, EventTypeOf, EventType, Deleted, Edited, Simple, Reaction,
         Joined, Message, MessageType
<1>3. LookupUser(e, UserOf(m)) \in OrBlank(User)
  BY DEF LookupUser, Metadata, OrBlank
<1>4. /\ LookupChannel(e, ChannelOf(m)) \in OrBlank(Channel)
      /\ LookupIm(e, ChannelOf(m)) \in BOOLEAN
  BY DEF LookupChannel, LookupIm, Metadata, OrBlank
<1>5. e.self \in OrBlank(User)
  BY DEF Metadata
<1>6. Edited(m) \/ Reaction(m) => m.nested \in Nested
  BY DEF Sends, Edited, Deleted, Simple, Reaction, Joined, Message
<1>7. [minute |-> min, channel |-> m.channel] \in MinuteStamp
  BY DEF MinuteStamp, Message
<1>8. TimestampOf(m, min) \in AnyStamp
  BY <1>6, <1>7 DEF TimestampOf, AnyStamp, Message, Nested, OrBlank
<1>9. EventTimestampOf(m, min) \in AnyStamp
  BY <1>7 DEF EventTimestampOf, AnyStamp, Message, OrBlank
<1>10. StampedAt(EventTimestampOf(m, min), now) \in AnyStamp
  BY <1>9 DEF StampedAt, AnyStamp, NanoStamp
<1> QED
  BY <1>1, <1>2, <1>3, <1>4, <1>5, <1>8, <1>10 DEF EventFor, Event

-----------------------------------------------------------------------------
(* Type correctness.                                                       *)

\* Calling sendEvent fills the slots of its sender with the right types.
LEMMA OfferType ==
  ASSUME TypeOK, NEW s \in Sender, NEW e \in Event, Offer(s, e)
  PROVE  /\ pc' \in [Sender -> State]
         /\ ev' \in [Sender -> Event \cup {NoEvent}]
         /\ \A t \in Sender : Sending(t)' <=> ev'[t] # NoEvent
         /\ try' \in [Sender -> 0..MaxRetries]
         /\ offered' \subseteq Event
BY DEF TypeOK, Offer, State, Sending

\* Returning from sendEvent empties them.
LEMMA ReturnType ==
  ASSUME TypeOK, NEW s \in Sender, Return(s)
  PROVE  /\ pc' \in [Sender -> State]
         /\ ev' \in [Sender -> Event \cup {NoEvent}]
         /\ \A t \in Sender : Sending(t)' <=> ev'[t] # NoEvent
         /\ try' \in [Sender -> 0..MaxRetries]
BY DEF TypeOK, Return, After, State, Sending

\* A sender inside sendEvent works on a mutex field.
LEMMA FieldType ==
  ASSUME TypeOK, NEW s \in Sender, Sending(s)
  PROVE  ev[s] \in Event /\ Field(s) \in Key
BY KeyType DEF TypeOK, Field

\* A retry of the Redis library stays within MaxRetries.
LEMMA RetryType ==
  ASSUME TypeOK, NEW s \in Sender, Retry(s)
  PROVE  /\ pc' \in [Sender -> State]
         /\ ev' \in [Sender -> Event \cup {NoEvent}]
         /\ \A t \in Sender : Sending(t)' <=> ev'[t] # NoEvent
         /\ try' \in [Sender -> 0..MaxRetries]
<1>1. CASE Return(s)
  BY <1>1, ReturnType
<1>2. CASE /\ try[s] < MaxRetries
           /\ try' = [try EXCEPT ![s] = @ + 1]
           /\ UNCHANGED <<pc, ev>>
  BY <1>2 DEF TypeOK, Sending
<1> QED BY <1>1, <1>2 DEF Retry

\* The initial state is well typed.
LEMMA TypeInit == Init => TypeOK
BY EmptyMetadataType DEF Init, TypeOK, State, Sending

\* Every step keeps the types.
LEMMA TypeNext == TypeOK /\ [Next]_vars => TypeOK'
<1> SUFFICES ASSUME TypeOK, [Next]_vars PROVE TypeOK'
  OBVIOUS
<1>1. ASSUME NEW s \in Sender, NEW r \in Answer, Connect(s, r)
      PROVE  TypeOK'
  <2>1. LoginMetadata(r) \in Metadata
    BY LoginMetadataType
  <2> QED
    BY <1>1, <2>1 DEF Connect, TypeOK, State, Sending, redis, history
<1>2. ASSUME NEW s \in Sender, NEW now \in Clock, Refused(s, now)
      PROVE  TypeOK'
  <2>1. DisableBot(BotOf[s], now) \in Event
    BY DisableBotType
  <2>2. data' \in [Sender -> Metadata]
    BY <1>2, EmptyMetadataType DEF Refused, TypeOK
  <2> QED
    BY <1>2, <2>1, <2>2, OfferType DEF Refused, TypeOK, redis
<1>3. ASSUME NEW s \in Sender, Disconnect(s)
      PROVE  TypeOK'
  BY <1>3 DEF Disconnect, TypeOK, State, Sending, redis, history
<1>4. ASSUME NEW s \in Sender, NEW m \in Input, NEW now \in Clock,
             HandleMessage(s, m, now)
      PROVE  TypeOK'
  <2>1. data[s] \in Metadata /\ m \in Message /\ now \in Nat
    BY DEF TypeOK
  <2>2. data' = [data EXCEPT ![s] = Learn(m, data[s])]
    BY <1>4 DEF HandleMessage, TypeOK
  <2>3. Learn(m, data[s]) \in Metadata
    BY <2>1, LearnType
  <2>4. data' \in [Sender -> Metadata] /\ data'[s] \in Metadata
    BY <2>2, <2>3 DEF TypeOK
  <2>5. seen' \in [Sender -> SUBSET Input]
    BY <1>4 DEF HandleMessage, TypeOK
  <2>6. CASE Sends(m, data[s])
    <3>1. minute[ProcessOf[s]] \in Nat
      BY DEF TypeOK
    <3>2. EventFor(BotOf[s], m, data'[s], minute[ProcessOf[s]], now) \in Event
      BY <2>1, <2>4, <2>6, <3>1, EventForType
    <3> QED
      BY <1>4, <2>4, <2>5, <2>6, <3>2, OfferType
      DEF HandleMessage, TypeOK, redis
  <2>7. CASE ~ Sends(m, data[s])
    BY <1>4, <2>4, <2>5, <2>7 DEF HandleMessage, TypeOK, Sending, redis
  <2> QED BY <2>6, <2>7
<1>5. ASSUME NEW s \in Sender, HSetNX(s)
      PROVE  TypeOK'
  <2>1. Field(s) \in Key
    BY <1>5, FieldType DEF HSetNX, Sending
  <2>2. CASE Field(s) \in mutex
    BY <1>5, <2>2, ReturnType DEF HSetNX, TypeOK, history
  <2>3. CASE Field(s) \notin mutex
    <3>1. /\ mutex' = mutex \cup {Field(s)}
          /\ pc' = [pc EXCEPT ![s] = "push"]
          /\ try' = [try EXCEPT ![s] = 0]
      BY <1>5, <2>3 DEF HSetNX
    <3>2. mutex' \subseteq Key
      BY <2>1, <3>1 DEF TypeOK
    <3>3. pc' \in [Sender -> State] /\ try' \in [Sender -> 0..MaxRetries]
      BY <3>1 DEF TypeOK, State
    <3>4. \A t \in Sender : Sending(t)' <=> ev'[t] # NoEvent
      <4>1. Sending(s) /\ pc'[s] = "push" /\ ev' = ev
        BY <1>5, <2>3 DEF HSetNX, TypeOK, Sending
      <4>2. \A t \in Sender \ {s} : pc'[t] = pc[t]
        BY <1>5, <2>3 DEF HSetNX, TypeOK
      <4>3. Sending(s)'
        BY <4>1 DEF Sending
      <4>4. \A t \in Sender \ {s} : Sending(t)' <=> Sending(t)
        BY <4>2 DEF Sending
      <4> QED BY <4>1, <4>3, <4>4 DEF TypeOK
    <3> QED
      BY <1>5, <2>3, <3>2, <3>3, <3>4 DEF HSetNX, TypeOK, history
  <2> QED BY <2>2, <2>3
<1>6. ASSUME NEW s \in Sender, HSetNXLost(s)
      PROVE  TypeOK'
  <2>1. Field(s) \in Key
    BY <1>6, FieldType DEF HSetNXLost, Sending
  <2> QED
    BY <1>6, <2>1, RetryType DEF HSetNXLost, TypeOK
<1>7. ASSUME NEW s \in Sender, RPush(s)
      PROVE  TypeOK'
  <2>1. ev[s] \in Event
    BY <1>7, FieldType DEF RPush, Sending
  <2>2. queue' \in Seq(Event)
    BY <1>7, <2>1 DEF RPush, TypeOK
  <2> QED
    BY <1>7, <2>2, ReturnType DEF RPush, TypeOK, history
<1>8. ASSUME NEW s \in Sender, RPushLost(s)
      PROVE  TypeOK'
  <2>1. ev[s] \in Event /\ Field(s) \in Key
    BY <1>8, FieldType DEF RPushLost, Sending
  <2>2. queue' \in Seq(Event)
    <3>1. Append(queue, ev[s]) \in Seq(Event)
      BY <2>1 DEF TypeOK
    <3> QED BY <1>8, <3>1 DEF RPushLost, TypeOK
  <2>3. hit' \subseteq Key
    BY <1>8, <2>1 DEF RPushLost, TypeOK
  <2> QED
    BY <1>8, <2>2, <2>3, RetryType DEF RPushLost, TypeOK
<1>9. ASSUME NEW s \in Sender, CommandFails(s)
      PROVE  TypeOK'
  <2>1. Field(s) \in Key
    BY <1>9, FieldType DEF CommandFails
  <2> QED
    BY <1>9, <2>1, ReturnType DEF CommandFails, TypeOK, redis
<1>10. ASSUME NEW p \in Process, Crash(p)
       PROVE  TypeOK'
  <2>1. hit' \subseteq Key
    BY <1>10, FieldType DEF Crash, TypeOK
  <2>2. data' \in [Sender -> Metadata]
    BY <1>10, EmptyMetadataType DEF Crash, TypeOK
  <2> QED
    BY <1>10, <2>1, <2>2 DEF Crash, TypeOK, State, Sending, redis
<1>11. ASSUME NEW p \in Process, Tick(p)
       PROVE  TypeOK'
  BY <1>11 DEF Tick, TypeOK, Sending, redis, history
<1>12. CASE UNCHANGED vars
  BY <1>12 DEF vars, TypeOK, Sending
<1> QED
  BY <1>1, <1>2, <1>3, <1>4, <1>5, <1>6, <1>7, <1>8, <1>9, <1>10, <1>11,
     <1>12 DEF Next, SendStep

\* Every variable of SendEvent keeps its type.
THEOREM TypeCorrect == Spec => []TypeOK
BY TypeInit, TypeNext, PTL DEF Spec

-----------------------------------------------------------------------------
(* What a step can do to Redis and to the senders that hold a claim.       *)

Pushing(s) == pc[s] = "push"

\* Sender t is left alone.
Same(t) == pc'[t] = pc[t] /\ ev'[t] = ev[t] /\ try'[t] = try[t]

\* Redis is left alone, nobody wins a claim, and a claim that is given up
\* has met a fault.
QuietStep ==
  /\ mutex' = mutex /\ queue' = queue
  /\ \A t \in Sender :
       /\ Pushing(t)' => Pushing(t) /\ ev'[t] = ev[t] /\ try'[t] >= try[t]
       /\ Pushing(t) => Pushing(t)' \/ Field(t) \in hit'

\* s wins the claim.
WinStep(s) ==
  /\ ~ Pushing(s) /\ Field(s) \notin mutex
  /\ mutex' = mutex \cup {Field(s)} /\ queue' = queue
  /\ Pushing(s)' /\ ev'[s] = ev[s] /\ try'[s] = 0
  /\ \A t \in Sender \ {s} : Same(t)

\* The claim of s is set behind its back.
BlindStep(s) ==
  /\ ~ Pushing(s)
  /\ mutex' = mutex \cup {Field(s)} /\ Field(s) \in hit' /\ queue' = queue
  /\ ~ Pushing(s)'
  /\ \A t \in Sender \ {s} : Same(t)

\* The event of s is pushed; s is done, or does not know and tries again.
PushStep(s) ==
  /\ Pushing(s)
  /\ mutex' = mutex /\ queue' = Append(queue, ev[s])
  /\ \/ ~ Pushing(s)'
     \/ /\ Pushing(s)' /\ ev'[s] = ev[s] /\ try'[s] = try[s] + 1
        /\ Field(s) \in hit'
  /\ \A t \in Sender \ {s} : Same(t)

\* Return and Retry in terms of pc and ev only.
LEMMA ReturnShape ==
  ASSUME TypeOK, NEW s \in Sender, Return(s)
  PROVE  ~ Pushing(s)' /\ \A t \in Sender \ {s} : Same(t)
BY DEF TypeOK, Return, After, Pushing, Same

LEMMA RetryShape ==
  ASSUME TypeOK, NEW s \in Sender, Retry(s)
  PROVE  /\ \/ ~ Pushing(s)'
            \/ pc'[s] = pc[s] /\ ev'[s] = ev[s] /\ try'[s] = try[s] + 1
         /\ \A t \in Sender \ {s} : Same(t)
<1>1. CASE Return(s)
  BY <1>1, ReturnShape
<1>2. CASE /\ try' = [try EXCEPT ![s] = @ + 1]
           /\ UNCHANGED <<pc, ev>>
  BY <1>2 DEF TypeOK, Same
<1> QED BY <1>1, <1>2 DEF Retry

\* A step that changes nothing in Redis and makes no pusher is quiet.
LEMMA QuietShape ==
  ASSUME TypeOK, NEW s \in Sender, UNCHANGED redis,
         ~ Pushing(s), ~ Pushing(s)',
         \A t \in Sender \ {s} : Same(t)
  PROVE  QuietStep
BY DEF TypeOK, QuietStep, redis, Pushing, Same

LEMMA StepShape ==
  ASSUME TypeOK, [Next]_vars
  PROVE  /\ hit \subseteq hit'
         /\ \/ QuietStep
            \/ \E s \in Sender : WinStep(s) \/ BlindStep(s) \/ PushStep(s)
<1>1. ASSUME NEW s \in Sender, NEW r \in Answer, Connect(s, r)
      PROVE  QuietStep
  BY <1>1, QuietShape DEF Connect, TypeOK, Pushing, Same
<1>2. ASSUME NEW s \in Sender, NEW now \in Clock, Refused(s, now)
      PROVE  QuietStep
  BY <1>2, QuietShape DEF Refused, Offer, TypeOK, Pushing, Same
<1>3. ASSUME NEW s \in Sender, Disconnect(s)
      PROVE  QuietStep
  BY <1>3, QuietShape DEF Disconnect, TypeOK, Pushing, Same
<1>4. ASSUME NEW s \in Sender, NEW m \in Input, NEW now \in Clock,
             HandleMessage(s, m, now)
      PROVE  QuietStep
  BY <1>4, QuietShape DEF HandleMessage, Offer, TypeOK, Pushing, Same
<1>5. ASSUME NEW s \in Sender, HSetNX(s)
      PROVE  QuietStep \/ WinStep(s)
  <2>1. CASE Field(s) \in mutex
    BY <1>5, <2>1, ReturnShape, QuietShape DEF HSetNX, Pushing, redis
  <2>2. CASE Field(s) \notin mutex
    BY <1>5, <2>2 DEF HSetNX, WinStep, TypeOK, Pushing, Same
  <2> QED BY <2>1, <2>2
<1>6. ASSUME NEW s \in Sender, HSetNXLost(s)
      PROVE  QuietStep \/ BlindStep(s)
  <2>1. ~ Pushing(s) /\ ~ Pushing(s)' /\ \A t \in Sender \ {s} : Same(t)
    BY <1>6, RetryShape DEF HSetNXLost, Pushing
  <2>2. CASE mutex' = mutex
    BY <1>6, <2>1, <2>2, QuietShape DEF HSetNXLost, redis
  <2>3. CASE mutex' = mutex \cup {Field(s)}
    BY <1>6, <2>1, <2>3 DEF HSetNXLost, BlindStep
  <2> QED BY <1>6, <2>2, <2>3 DEF HSetNXLost
<1>7. ASSUME NEW s \in Sender, RPush(s)
      PROVE  PushStep(s)
  BY <1>7, ReturnShape DEF RPush, PushStep, Pushing
<1>8. ASSUME NEW s \in Sender, RPushLost(s)
      PROVE  QuietStep \/ PushStep(s)
  <2>1. /\ \/ ~ Pushing(s)'
           \/ Pushing(s)' /\ ev'[s] = ev[s] /\ try'[s] = try[s] + 1
        /\ \A t \in Sender \ {s} : Same(t)
    BY <1>8, RetryShape DEF RPushLost, Pushing
  <2>2. Pushing(s) /\ Field(s) \in hit' /\ mutex' = mutex
    BY <1>8 DEF RPushLost, Pushing
  <2>3. CASE queue' = queue
    <3>1. \A t \in Sender : try[t] \in Nat /\ try[t] + 1 >= try[t]
      BY DEF TypeOK
    <3> QED BY <2>1, <2>2, <2>3, <3>1 DEF QuietStep, Pushing, Same
  <2>4. CASE queue' = Append(queue, ev[s])
    BY <2>1, <2>2, <2>4 DEF PushStep
  <2> QED BY <1>8, <2>3, <2>4 DEF RPushLost
<1>9. ASSUME NEW s \in Sender, CommandFails(s)
      PROVE  QuietStep
  <2>1. ~ Pushing(s)' /\ \A t \in Sender \ {s} : Same(t)
    BY <1>9, ReturnShape DEF CommandFails
  <2>2. Field(s) \in hit' /\ mutex' = mutex /\ queue' = queue
    BY <1>9 DEF CommandFails, redis
  <2>3. \A t \in Sender : try[t] >= try[t]
    BY DEF TypeOK
  <2> QED BY <2>1, <2>2, <2>3 DEF QuietStep, Pushing, Same
<1>10. ASSUME NEW p \in Process, Crash(p)
       PROVE  QuietStep
  <2>1. \A t \in Sender : Pushing(t) => Pushing(t)' \/ Field(t) \in hit'
    BY <1>10 DEF Crash, Pushing, Sending
  <2>2. \A t \in Sender :
          Pushing(t)' => Pushing(t) /\ ev'[t] = ev[t] /\ try'[t] >= try[t]
    BY <1>10 DEF Crash, Pushing, TypeOK
  <2> QED BY <1>10, <2>1, <2>2 DEF Crash, QuietStep, redis
<1>11. ASSUME NEW p \in Process, Tick(p)
       PROVE  QuietStep
  BY <1>11 DEF Tick, QuietStep, Pushing, TypeOK, redis
<1>12. CASE UNCHANGED vars
  BY <1>12 DEF vars, QuietStep, Pushing, TypeOK
<1>13. hit \subseteq hit'
  BY DEF Next, SendStep, vars, history, Connect, Refused, Disconnect,
         HandleMessage, HSetNX, HSetNXLost, RPush, RPushLost, CommandFails,
         Crash, Tick
<1> QED
  BY <1>1, <1>2, <1>3, <1>4, <1>5, <1>6, <1>7, <1>8, <1>9, <1>10, <1>11,
     <1>12, <1>13 DEF Next, SendStep

-----------------------------------------------------------------------------
(* The inductive invariant, in named parts.                                *)

\* Only claimed fields are queued or being pushed, each by one sender.
ClaimInv ==
  /\ \A i \in DOMAIN queue : KeyOf(queue[i]) \in mutex
  /\ \A s \in Sender : Pushing(s) => Field(s) \in mutex
  /\ \A s, t \in Sender :
       Pushing(s) /\ Pushing(t) /\ Field(s) = Field(t) => s = t

\* What is queued under the field of a pusher is the pusher's own event.
VersionInv ==
  /\ OneVersionPerField
  /\ \A s \in Sender, i \in DOMAIN queue :
       Pushing(s) /\ KeyOf(queue[i]) = Field(s) => queue[i] = ev[s]

\* A pusher has queued at most one copy for each attempt that failed.
CopiesInv ==
  /\ \A k \in Key : Copies(queue, k) <= MaxRetries + 1
  /\ \A s \in Sender : Pushing(s) => Copies(queue, Field(s)) <= try[s]

\* A pusher that has met no fault has queued nothing yet.
OnceInv ==
  /\ OnceUnlessFault
  /\ \A s \in Sender : Pushing(s) /\ Queued(Field(s)) => Field(s) \in hit

\* Every step preserves ClaimInv.
LEMMA ClaimNext ==
  ASSUME TypeOK, ClaimInv, [Next]_vars
  PROVE  ClaimInv'
<1> USE DEF ClaimInv, Field
<1>1. CASE QuietStep
  BY <1>1 DEF QuietStep
<1>2. ASSUME NEW s \in Sender, WinStep(s)
      PROVE  ClaimInv'
  BY <1>2 DEF WinStep, Same, Pushing
<1>3. ASSUME NEW s \in Sender, BlindStep(s)
      PROVE  ClaimInv'
  BY <1>3 DEF BlindStep, Same, Pushing
<1>4. ASSUME NEW s \in Sender, PushStep(s)
      PROVE  ClaimInv'
  <2>1. \A i \in DOMAIN queue' : KeyOf(queue'[i]) \in mutex'
    BY <1>4 DEF PushStep, TypeOK
  <2>2. \A t \in Sender :
          Pushing(t)' => Pushing(t) /\ Field(t)' = Field(t)
    BY <1>4 DEF PushStep, Same, Pushing
  <2>3. mutex' = mutex
    BY <1>4 DEF PushStep
  <2> QED BY <2>1, <2>2, <2>3
<1> QED BY <1>1, <1>2, <1>3, <1>4, StepShape

\* Every step preserves VersionInv.
LEMMA VersionNext ==
  ASSUME TypeOK, ClaimInv, VersionInv, [Next]_vars
  PROVE  VersionInv'
<1> USE DEF VersionInv, OneVersionPerField, Field
<1>1. CASE QuietStep
  BY <1>1 DEF QuietStep
<1>2. ASSUME NEW s \in Sender, WinStep(s)
      PROVE  VersionInv'
  BY <1>2 DEF WinStep, Same, Pushing, ClaimInv
<1>3. ASSUME NEW s \in Sender, BlindStep(s)
      PROVE  VersionInv'
  BY <1>3 DEF BlindStep, Same, Pushing
<1>4. ASSUME NEW s \in Sender, PushStep(s)
      PROVE  VersionInv'
  <2>1. \A i \in DOMAIN queue' :
          \/ i \in DOMAIN queue /\ queue'[i] = queue[i]
          \/ queue'[i] = ev[s]
    BY <1>4 DEF PushStep, TypeOK
  <2>2. OneVersionPerField'
    BY <1>4, <2>1 DEF PushStep
  <2>3. \A t \in Sender \ {s} : Pushing(t)' => Field(t)' # Field(s)
    BY <1>4 DEF PushStep, Same, Pushing, ClaimInv
  <2>4. ASSUME NEW t \in Sender, NEW i \in DOMAIN queue', Pushing(t)',
               KeyOf(queue'[i]) = Field(t)'
        PROVE  queue'[i] = ev'[t]
    <3>1. CASE t = s
      BY <1>4, <2>1, <2>4, <3>1 DEF PushStep
    <3>2. CASE t # s
      BY <1>4, <2>1, <2>3, <2>4, <3>2 DEF PushStep, Same, Pushing
    <3> QED BY <3>1, <3>2
  <2> QED BY <2>2, <2>4
<1> QED BY <1>1, <1>2, <1>3, <1>4, StepShape

\* Every step preserves OnceInv.
LEMMA OnceNext ==
  ASSUME TypeOK, ClaimInv, OnceInv, [Next]_vars
  PROVE  OnceInv'
<1> USE DEF OnceInv, OnceUnlessFault, Queued, Field
<1>0. hit \subseteq hit'
  BY StepShape
<1>1. CASE QuietStep
  BY <1>0, <1>1 DEF QuietStep
<1>2. ASSUME NEW s \in Sender, WinStep(s)
      PROVE  OnceInv'
  BY <1>0, <1>2 DEF WinStep, Same, Pushing, ClaimInv
<1>3. ASSUME NEW s \in Sender, BlindStep(s)
      PROVE  OnceInv'
  BY <1>0, <1>3 DEF BlindStep, Same, Pushing
<1>4. ASSUME NEW s \in Sender, PushStep(s)
      PROVE  OnceInv'
  <2>1. /\ DOMAIN queue' = DOMAIN queue \cup {Len(queue) + 1}
        /\ \A i \in DOMAIN queue : queue'[i] = queue[i]
        /\ queue'[Len(queue) + 1] = ev[s]
        /\ Len(queue) + 1 \notin DOMAIN queue
    BY <1>4 DEF PushStep, TypeOK
  <2>2. OnceUnlessFault'
    BY <1>0, <1>4, <2>1 DEF PushStep
  <2>3. \A t \in Sender \ {s} : Pushing(t)' => Field(t)' # Field(s)
    BY <1>4 DEF PushStep, Same, Pushing, ClaimInv
  <2>4. ASSUME NEW t \in Sender, Pushing(t)', Queued(Field(t))'
        PROVE  Field(t)' \in hit'
    <3>1. CASE t = s
      BY <1>4, <2>4, <3>1 DEF PushStep
    <3>2. CASE t # s
      BY <1>0, <1>4, <2>1, <2>3, <2>4, <3>2 DEF PushStep, Same, Pushing
    <3> QED BY <3>1, <3>2
  <2> QED BY <2>2, <2>4
<1> QED BY <1>1, <1>2, <1>3, <1>4, StepShape

-----------------------------------------------------------------------------
(* Counting copies.                                                        *)

\* A queue has finitely many positions, so that copies can be counted.
LEMMA PositionsFinite ==
  ASSUME NEW q \in Seq(Event), NEW k
  PROVE  IsFiniteSet(Positions(q, k)) /\ Copies(q, k) \in Nat
<1>1. IsFiniteSet(1..Len(q))
  BY FS_Interval
<1>2. IsFiniteSet(Positions(q, k))
  BY <1>1, FS_Subset DEF Positions
<1> QED BY <1>2, FS_CardinalityType DEF Copies

\* A push adds one copy to its own field and none to the others.
LEMMA CopiesAppend ==
  ASSUME NEW q \in Seq(Event), NEW e \in Event, NEW k
  PROVE  /\ KeyOf(e) = k => Copies(Append(q, e), k) = Copies(q, k) + 1
         /\ KeyOf(e) # k => Copies(Append(q, e), k) = Copies(q, k)
<1>1. /\ Len(Append(q, e)) = Len(q) + 1
      /\ Append(q, e)[Len(q) + 1] = e
      /\ \A i \in 1..Len(q) : Append(q, e)[i] = q[i]
      /\ Len(q) \in Nat
  OBVIOUS
<1>2. 1..(Len(q) + 1) = (1..Len(q)) \cup {Len(q) + 1}
  BY <1>1
<1>3. CASE KeyOf(e) = k
  <2>1. Positions(Append(q, e), k) = Positions(q, k) \cup {Len(q) + 1}
    BY <1>1, <1>2, <1>3 DEF Positions
  <2>2. Len(q) + 1 \notin Positions(q, k)
    BY <1>1 DEF Positions
  <2> QED BY <1>3, <2>1, <2>2, PositionsFinite, FS_AddElement DEF Copies
<1>4. CASE KeyOf(e) # k
  <2>1. Positions(Append(q, e), k) = Positions(q, k)
    BY <1>1, <1>2, <1>4 DEF Positions
  <2> QED BY <1>4, <2>1 DEF Copies
<1> QED BY <1>3, <1>4

\* A field that is not in the queue has no copies.
LEMMA NoCopies ==
  ASSUME NEW q \in Seq(Event), NEW k, \A i \in DOMAIN q : KeyOf(q[i]) # k
  PROVE  Copies(q, k) = 0
<1>1. Positions(q, k) = {}
  BY DEF Positions
<1> QED BY <1>1, FS_EmptySet DEF Copies

\* Every step preserves CopiesInv.
LEMMA CopiesNext ==
  ASSUME TypeOK, TypeOK', ClaimInv, CopiesInv, [Next]_vars
  PROVE  CopiesInv'
<1> USE DEF CopiesInv
<1>0. /\ queue \in Seq(Event)
      /\ \A t \in Sender : try[t] \in 0..MaxRetries /\ try'[t] \in 0..MaxRetries
      /\ \A k : Copies(queue, k) \in Nat
  BY PositionsFinite DEF TypeOK
<1>1. CASE QuietStep
  BY <1>0, <1>1 DEF QuietStep, Field
<1>2. ASSUME NEW s \in Sender, WinStep(s)
      PROVE  CopiesInv'
  <2>1. Copies(queue, Field(s)) = 0
    BY <1>0, <1>2, NoCopies DEF WinStep, ClaimInv
  <2>2. queue' = queue /\ Field(s)' = Field(s) /\ try'[s] = 0
    BY <1>2 DEF WinStep, Field
  <2>3. \A t \in Sender \ {s} :
          Pushing(t)' => Pushing(t) /\ Field(t)' = Field(t) /\ try'[t] = try[t]
    BY <1>2 DEF WinStep, Same, Pushing, Field
  <2> QED BY <2>1, <2>2, <2>3
<1>3. ASSUME NEW s \in Sender, BlindStep(s)
      PROVE  CopiesInv'
  <2>1. queue' = queue /\ ~ Pushing(s)'
    BY <1>3 DEF BlindStep
  <2>2. \A t \in Sender \ {s} :
          Pushing(t)' => Pushing(t) /\ Field(t)' = Field(t) /\ try'[t] = try[t]
    BY <1>3 DEF BlindStep, Same, Pushing, Field
  <2> QED BY <2>1, <2>2
<1>4. ASSUME NEW s \in Sender, PushStep(s)
      PROVE  CopiesInv'
  <2>1. Pushing(s) /\ queue' = Append(queue, ev[s])
    BY <1>4 DEF PushStep
  <2>2. ev[s] \in Event /\ KeyOf(ev[s]) = Field(s)
    BY <2>1, FieldType DEF Pushing, Sending, Field
  <2>3. Copies(queue', Field(s)) = Copies(queue, Field(s)) + 1
    BY <1>0, <2>1, <2>2, CopiesAppend
  <2>4. \A k : k # Field(s) => Copies(queue', k) = Copies(queue, k)
    BY <1>0, <2>1, <2>2, CopiesAppend
  <2>5. Copies(queue, Field(s)) <= try[s]
    BY <2>1
  <2>6. \A k \in Key : Copies(queue', k) <= MaxRetries + 1
    BY <1>0, <2>3, <2>4, <2>5
  <2>7. ASSUME NEW t \in Sender, Pushing(t)'
        PROVE  Copies(queue', Field(t)') <= try'[t]
    <3>1. CASE t = s
      BY <1>0, <1>4, <2>3, <2>5, <2>7, <3>1 DEF PushStep, Field
    <3>2. CASE t # s
      <4>1. Pushing(t) /\ Field(t)' = Field(t) /\ try'[t] = try[t]
        BY <1>4, <2>7, <3>2 DEF PushStep, Same, Pushing, Field
      <4>2. Field(t) # Field(s)
        BY <2>1, <3>2, <4>1 DEF ClaimInv
      <4> QED BY <2>4, <4>1, <4>2
    <3> QED BY <3>1, <3>2
  <2> QED BY <2>6, <2>7
<1> QED BY <1>1, <1>2, <1>3, <1>4, StepShape

-----------------------------------------------------------------------------
(* Nothing is lost silently.                                               *)

\* A claimed field is queued, being pushed, or has met a fault.
LossInv ==
  /\ NoSilentLoss
  /\ \A k \in mutex : \/ Queued(k)
                      \/ k \in hit
                      \/ \E s \in Sender : Pushing(s) /\ Field(s) = k

\* A new event is in some sender's hands, and no sender lets go of an event
\* whose field is neither claimed nor hit.
LEMMA HandsShape ==
  ASSUME TypeOK, ClaimInv, [Next]_vars
  PROVE  /\ \A e \in offered' :
              e \in offered \/ \E s \in Sender : Sending(s)' /\ ev'[s] = e
         /\ \A s \in Sender :
              Sending(s) => \/ Sending(s)' /\ ev'[s] = ev[s]
                            \/ Field(s) \in hit' \cup mutex'
<1> DEFINE New == \A e \in offered' :
                    \/ e \in offered
                    \/ \E s \in Sender : Sending(s)' /\ ev'[s] = e
           Kept(t) == Sending(t) => \/ Sending(t)' /\ ev'[t] = ev[t]
                                   \/ Field(t) \in hit' \cup mutex'
           Goal == New /\ \A t \in Sender : Kept(t)
<1>0. ASSUME NEW t \in Sender, Same(t)
      PROVE  Kept(t)
  BY <1>0 DEF Same, Sending
<1>1. ASSUME NEW s \in Sender, NEW r \in Answer, Connect(s, r)
      PROVE  Goal
  BY <1>1 DEF Connect, TypeOK, Sending, history
<1>2. ASSUME NEW s \in Sender, NEW e \in Event, Offer(s, e), ~ Sending(s)
      PROVE  Goal
  <2>1. New
    <3>1. Sending(s)' /\ ev'[s] = e /\ offered' = offered \cup {e}
      BY <1>2 DEF Offer, TypeOK, Sending
    <3> QED BY <3>1
  <2>2. \A t \in Sender \ {s} : Same(t)
    BY <1>2 DEF Offer, TypeOK, Same
  <2> QED BY <1>0, <1>2, <2>1, <2>2
<1>3. ASSUME NEW s \in Sender, Disconnect(s)
      PROVE  Goal
  BY <1>3 DEF Disconnect, TypeOK, Sending, history
<1>4. ASSUME NEW s \in Sender, NEW m \in Input, NEW now \in Clock,
             HandleMessage(s, m, now)
      PROVE  Goal
  <2>1. CASE Sends(m, data[s])
    <3>1. /\ m \in Message /\ now \in Nat /\ data[s] \in Metadata
          /\ minute[ProcessOf[s]] \in Nat
      BY DEF TypeOK
    <3>2. data'[s] = Learn(m, data[s])
      BY <1>4 DEF HandleMessage, TypeOK
    <3>3. data'[s] \in Metadata
      BY <3>1, <3>2, LearnType
    <3>4. EventFor(BotOf[s], m, data'[s], minute[ProcessOf[s]], now) \in Event
      BY <2>1, <3>1, <3>3, EventForType
    <3> QED BY <1>2, <1>4, <2>1, <3>4 DEF HandleMessage, Sending
  <2>2. CASE ~ Sends(m, data[s])
    BY <1>4, <2>2 DEF HandleMessage, Sending
  <2> QED BY <2>1, <2>2
<1>5. ASSUME NEW s \in Sender, HSetNX(s)
      PROVE  Goal
  <2>1. CASE Field(s) \in mutex
    BY <1>0, <1>5, <2>1, ReturnShape DEF HSetNX, history
  <2>2. CASE Field(s) \notin mutex
    BY <1>0, <1>5, <2>2 DEF HSetNX, TypeOK, Same, history
  <2> QED BY <2>1, <2>2
<1>6. ASSUME NEW s \in Sender, HSetNXLost(s)
      PROVE  Goal
  BY <1>0, <1>6, RetryShape DEF HSetNXLost
<1>7. ASSUME NEW s \in Sender, RPush(s)
      PROVE  Goal
  BY <1>0, <1>7, ReturnShape DEF RPush, history, ClaimInv, Pushing
<1>8. ASSUME NEW s \in Sender, RPushLost(s)
      PROVE  Goal
  BY <1>0, <1>8, RetryShape DEF RPushLost
<1>9. ASSUME NEW s \in Sender, CommandFails(s)
      PROVE  Goal
  BY <1>0, <1>9, ReturnShape DEF CommandFails
<1>10. ASSUME NEW p \in Process, Crash(p)
       PROVE  Goal
  BY <1>10 DEF Crash, Sending
<1>11. ASSUME NEW p \in Process, Tick(p)
       PROVE  Goal
  BY <1>11 DEF Tick, Sending, history
<1>12. CASE UNCHANGED vars
  BY <1>12 DEF vars, Sending
<1>13. ASSUME NEW s \in Sender, NEW now \in Clock, Refused(s, now)
       PROVE  Goal
  <2>1. DisableBot(BotOf[s], now) \in Event
    BY DisableBotType
  <2> QED BY <1>2, <1>13, <2>1 DEF Refused, Sending
<1> QED
  BY <1>1, <1>3, <1>4, <1>5, <1>6, <1>7, <1>8, <1>9, <1>10, <1>11,
     <1>12, <1>13 DEF Next, SendStep

\* Every step preserves LossInv.
LEMMA LossNext ==
  ASSUME TypeOK, ClaimInv, LossInv, [Next]_vars
  PROVE  LossInv'
<1> DEFINE Safe(k) == \/ Queued(k)
                      \/ k \in hit
                      \/ \E s \in Sender : Pushing(s) /\ Field(s) = k
<1>0. hit \subseteq hit'
  BY StepShape
<1>1. ASSUME NEW k \in mutex'
      PROVE  Safe(k)'
  <2>1. CASE QuietStep
    BY <1>0, <1>1, <2>1 DEF QuietStep, LossInv, Queued, Field
  <2>2. ASSUME NEW s \in Sender, WinStep(s)
        PROVE  Safe(k)'
    BY <1>0, <1>1, <2>2 DEF WinStep, Same, LossInv, Queued, Field, Pushing
  <2>3. ASSUME NEW s \in Sender, BlindStep(s)
        PROVE  Safe(k)'
    BY <1>0, <1>1, <2>3 DEF BlindStep, Same, LossInv, Queued, Field, Pushing
  <2>4. ASSUME NEW s \in Sender, PushStep(s)
        PROVE  Safe(k)'
    <3>1. /\ DOMAIN queue' = DOMAIN queue \cup {Len(queue) + 1}
          /\ \A i \in DOMAIN queue : queue'[i] = queue[i]
          /\ queue'[Len(queue) + 1] = ev[s]
      BY <2>4 DEF PushStep, TypeOK
    <3>2. Queued(k) => Queued(k)'
      BY <3>1 DEF Queued
    <3>3. \A t \in Sender \ {s} : Pushing(t) => Pushing(t)' /\ Field(t)' = Field(t)
      BY <2>4 DEF PushStep, Same, Pushing, Field
    <3>4. Safe(k)
      BY <1>1, <2>4 DEF PushStep, LossInv
    <3>5. CASE Queued(k) \/ k \in hit
      BY <1>0, <3>2, <3>5
    <3>6. CASE \E t \in Sender : Pushing(t) /\ Field(t) = k
      <4>1. PICK t \in Sender : Pushing(t) /\ Field(t) = k
        BY <3>6
      <4>2. CASE t = s
        BY <2>4, <3>1, <4>1, <4>2 DEF Queued, Field
      <4>3. CASE t # s
        BY <3>3, <4>1, <4>3
      <4> QED BY <4>2, <4>3
    <3> QED BY <3>4, <3>5, <3>6
  <2> QED BY <2>1, <2>2, <2>3, <2>4, StepShape
<1>2. ASSUME NEW e \in offered'
      PROVE  Safe(KeyOf(e))' \/ \E s \in Sender : Sending(s)' /\ Field(s)' = KeyOf(e)
  <2>1. CASE e \notin offered
    BY <1>2, <2>1, HandsShape DEF Field
  <2>2. CASE e \in offered /\ Queued(KeyOf(e))
    <3>1. PICK i \in DOMAIN queue : KeyOf(queue[i]) = KeyOf(e)
      BY <2>2 DEF Queued
    <3>2. KeyOf(e) \in mutex
      BY <3>1 DEF ClaimInv
    <3>3. mutex \subseteq mutex'
      BY StepShape DEF QuietStep, WinStep, BlindStep, PushStep
    <3> QED BY <1>1, <3>2, <3>3
  <2>3. CASE e \in offered /\ KeyOf(e) \in hit
    BY <1>0, <2>3
  <2>4. CASE e \in offered /\ \E s \in Sender : Sending(s) /\ Field(s) = KeyOf(e)
    <3>1. PICK s \in Sender : Sending(s) /\ Field(s) = KeyOf(e)
      BY <2>4
    <3>2. CASE Sending(s)' /\ ev'[s] = ev[s]
      BY <3>1, <3>2 DEF Field
    <3>3. CASE Field(s) \in hit' \cup mutex'
      BY <1>1, <3>1, <3>3
    <3> QED BY <3>1, <3>2, <3>3, HandsShape
  <2> QED BY <2>1, <2>2, <2>3, <2>4 DEF LossInv, NoSilentLoss
<1>3. ASSUME NEW k, Safe(k)'
      PROVE  \/ Queued(k)'
             \/ k \in hit'
             \/ \E s \in Sender : Sending(s)' /\ Field(s)' = k
  BY <1>3 DEF Pushing, Sending
<1> QED BY <1>1, <1>2, <1>3 DEF LossInv, NoSilentLoss

-----------------------------------------------------------------------------
(* The theorems.                                                           *)

Inv == TypeOK /\ ClaimInv /\ VersionInv /\ CopiesInv /\ OnceInv /\ LossInv

\* The initial state satisfies the inductive invariant.
LEMMA InvInit == Init => Inv
<1> SUFFICES ASSUME Init PROVE Inv
  OBVIOUS
<1>1. TypeOK
  BY TypeInit
<1>2. DOMAIN queue = {} /\ queue \in Seq(Event) /\ mutex = {} /\ offered = {}
  BY <1>1 DEF Init, TypeOK
<1>3. \A s \in Sender : ~ Pushing(s)
  BY DEF Init, Pushing
<1>4. CopiesInv
  <2>1. \A k : Copies(queue, k) = 0
    BY <1>2, NoCopies
  <2> QED BY <1>3, <2>1 DEF CopiesInv
<1>5. ClaimInv /\ VersionInv /\ OnceInv /\ LossInv
  BY <1>2, <1>3 DEF ClaimInv, VersionInv, OneVersionPerField, OnceInv,
                    OnceUnlessFault, LossInv, NoSilentLoss
<1> QED BY <1>1, <1>4, <1>5 DEF Inv

\* Every step preserves the inductive invariant.
LEMMA InvNext == Inv /\ [Next]_vars => Inv'
<1> SUFFICES ASSUME Inv, [Next]_vars PROVE Inv'
  OBVIOUS
<1>1. TypeOK'
  BY TypeNext DEF Inv
<1> QED
  BY <1>1, ClaimNext, VersionNext, CopiesNext, OnceNext, LossNext DEF Inv

\* The inductive invariant of sendEvent holds in every reachable state: the
\* theorems below are its consequences.
THEOREM Invariance == Spec => []Inv
BY InvInit, InvNext, PTL DEF Spec

\* sendEvent sends once what meets no fault, whatever the number of processes.
THEOREM SendsOnce == Spec => []OnceUnlessFault
<1>1. Inv => OnceUnlessFault
  BY DEF Inv, OnceInv
<1> QED BY <1>1, Invariance, PTL

\* No mutex field ever has more than MaxRetries + 1 copies in the queue.
THEOREM BoundedCopies == Spec => []CopiesBounded
<1>1. Inv => CopiesBounded
  <2> SUFFICES ASSUME Inv, NEW i \in DOMAIN queue
               PROVE  Copies(queue, KeyOf(queue[i])) <= MaxRetries + 1
    BY DEF CopiesBounded
  <2>1. queue[i] \in Event
    BY DEF Inv, TypeOK
  <2> QED BY <2>1, KeyType DEF Inv, CopiesInv
<1> QED BY <1>1, Invariance, PTL

\* Processes with different metadata never queue two versions of an event.
THEOREM OneVersion == Spec => []OneVersionPerField
<1>1. Inv => OneVersionPerField
  BY DEF Inv, VersionInv
<1> QED BY <1>1, Invariance, PTL

\* An event is lost only through a fault of Redis, the network or the process.
THEOREM NothingLostSilently == Spec => []NoSilentLoss
<1>1. Inv => NoSilentLoss
  BY DEF Inv, LossInv
<1> QED BY <1>1, Invariance, PTL

\* What was lost is never delivered later, by no process and no restart.
THEOREM LostForever == Spec => LostStaysLost
<1>1. Inv /\ [Next]_vars => [\A k \in mutex : Lost(k) => Lost(k)']_vars
  <2> SUFFICES ASSUME Inv, [Next]_vars, NEW k \in mutex, Lost(k)
               PROVE  Lost(k)'
    OBVIOUS
  <2>1. \A t \in Sender : Pushing(t) => Field(t) # k
    BY DEF Lost, Pushing
  <2>2. SUFFICES /\ k \in mutex'
                 /\ \A i \in DOMAIN queue' : KeyOf(queue'[i]) # k
                 /\ \A t \in Sender : Pushing(t)' => Field(t)' # k
    BY DEF Lost, Queued, Pushing
  <2>3. CASE QuietStep
    BY <2>1, <2>3 DEF QuietStep, Lost, Queued, Field
  <2>4. ASSUME NEW s \in Sender, WinStep(s) \/ BlindStep(s)
        PROVE  /\ k \in mutex'
               /\ \A i \in DOMAIN queue' : KeyOf(queue'[i]) # k
               /\ \A t \in Sender : Pushing(t)' => Field(t)' # k
    BY <2>1, <2>4
    DEF WinStep, BlindStep, Lost, Queued, Field, Pushing, Same
  <2>5. ASSUME NEW s \in Sender, PushStep(s)
        PROVE  /\ k \in mutex'
               /\ \A i \in DOMAIN queue' : KeyOf(queue'[i]) # k
               /\ \A t \in Sender : Pushing(t)' => Field(t)' # k
    <3>1. \A i \in DOMAIN queue' :
            (i \in DOMAIN queue /\ queue'[i] = queue[i]) \/ queue'[i] = ev[s]
      BY <2>5 DEF PushStep, Inv, TypeOK
    <3>2. \A t \in Sender : Pushing(t)' => Field(t)' # k
      BY <2>1, <2>5 DEF PushStep, Field, Pushing, Same
    <3> QED BY <2>1, <2>5, <3>1, <3>2 DEF PushStep, Lost, Queued, Field
  <2> QED BY <2>3, <2>4, <2>5, StepShape DEF Inv
<1> QED BY <1>1, Invariance, PTL DEF Spec, LostStaysLost

\* The instance of Delivery speaks of the same fields, events and copies.
LEMMA SameTerms ==
  /\ D!Key = Key /\ D!Event = Event
  /\ \A e : D!KeyOf(e) = KeyOf(e)
  /\ \A q, k : D!Positions(q, k) = Positions(q, k)
  /\ \A q, k : D!Copies(q, k) = Copies(q, k)
<1>1. \A e : D!KeyOf(e) = KeyOf(e)
  BY DEF D!KeyOf, KeyOf
<1>2. \A q, k : D!Positions(q, k) = Positions(q, k)
  BY <1>1 DEF D!Positions, Positions
<1>3. \A q, k : D!Copies(q, k) = Copies(q, k)
  BY <1>2, Zenon DEF D!Copies, Copies, D!Cardinality, Cardinality
<1>4. D!AnyStamp = AnyStamp /\ \A S : D!OrBlank(S) = OrBlank(S)
  BY DEF D!AnyStamp, AnyStamp, D!OrBlank, OrBlank, D!MinuteStamp, MinuteStamp,
         D!NanoStamp, NanoStamp
<1>5. D!Key = Key
  BY <1>4 DEF D!Key, Key
<1>6. D!Event = Event
  <2>1. /\ D!OrBlank(Namespace) = OrBlank(Namespace)
        /\ D!OrBlank(User) = OrBlank(User)
        /\ D!OrBlank(Channel) = OrBlank(Channel)
        /\ D!EventType = EventType
    BY <1>4 DEF D!EventType, EventType
  <2> QED BY <1>4, <2>1 DEF D!Event, Event
<1> QED BY <1>1, <1>2, <1>3, <1>5, <1>6

\* The processes together implement the abstract specification Delivery.
THEOREM Implements == Spec => Delivers
<1>1. Init => D!Init
  BY DEF Init, D!Init
<1>2. Inv /\ [Next]_vars => [D!Next]_D!vars
  <2> SUFFICES ASSUME Inv, [Next]_vars PROVE D!Next \/ UNCHANGED D!vars
    OBVIOUS
  <2>1. CASE QuietStep
    BY <2>1 DEF QuietStep, D!vars
  <2>2. ASSUME NEW s \in Sender, mutex' = mutex \cup {Field(s)},
               queue' = queue, Field(s) \in Key
        PROVE  D!Next \/ UNCHANGED D!vars
    <3>1. CASE Field(s) \in mutex
      BY <2>2, <3>1 DEF D!vars
    <3>2. CASE Field(s) \notin mutex
      BY <2>2, <3>2, SameTerms DEF D!Next, D!Claim
    <3> QED BY <3>1, <3>2
  <2>3. ASSUME NEW s \in Sender, PushStep(s)
        PROVE  D!Next
    <3>1. /\ Pushing(s) /\ mutex' = mutex /\ queue' = Append(queue, ev[s])
          /\ queue \in Seq(Event)
      BY <2>3 DEF PushStep, Inv, TypeOK
    <3>2. ev[s] \in Event /\ KeyOf(ev[s]) = Field(s)
      BY <3>1, FieldType DEF Inv, Pushing, Sending, Field
    <3>3. Field(s) \in mutex
      BY <3>1 DEF Inv, ClaimInv
    <3>4. \A i \in Positions(queue, Field(s)) : queue[i] = ev[s]
      BY <3>1 DEF Positions, Inv, VersionInv
    <3>5. Copies(queue, Field(s)) < MaxRetries + 1
      <4>1. Copies(queue, Field(s)) <= try[s] /\ try[s] \in 0..MaxRetries
        BY <3>1 DEF Inv, CopiesInv, TypeOK
      <4>2. Copies(queue, Field(s)) \in Nat
        BY <3>1, PositionsFinite
      <4> QED BY <4>1, <4>2
    <3>6. D!Enqueue(ev[s])
      BY <3>1, <3>2, <3>3, <3>4, <3>5, SameTerms DEF D!Enqueue
    <3>7. Len(queue) + 1 \in DOMAIN queue' /\ queue'[Len(queue) + 1] = ev[s]
      BY <3>1, <3>2
    <3> QED BY <3>6, <3>7 DEF D!Next
  <2>4. ASSUME NEW s \in Sender, WinStep(s) \/ BlindStep(s)
        PROVE  D!Next \/ UNCHANGED D!vars
    <3>1. mutex' \subseteq Key
      BY TypeNext DEF Inv, TypeOK
    <3> QED BY <2>2, <2>4, <3>1 DEF WinStep, BlindStep
  <2> QED BY <2>1, <2>2, <2>3, <2>4, StepShape DEF Inv
<1> QED BY <1>1, <1>2, Invariance, PTL DEF Spec, Delivers, D!Spec

-----------------------------------------------------------------------------
(* What takes the place of an event.                                       *)

\* What is queued or being sent was handed to sendEvent.
OfferedInv ==
  /\ \A i \in DOMAIN queue : queue[i] \in offered
  /\ \A s \in Sender : Sending(s) => ev[s] \in offered

\* Every step preserves OfferedInv.
LEMMA OfferedNext ==
  ASSUME TypeOK, OfferedInv, [Next]_vars
  PROVE  OfferedInv'
<1>1. offered \subseteq offered'
  BY DEF Next, SendStep, vars, history, Connect, Refused, Disconnect, Offer,
         HandleMessage, HSetNX, HSetNXLost, RPush, RPushLost, CommandFails,
         Crash, Tick
<1>2. \A i \in DOMAIN queue' : queue'[i] \in offered'
  <2>1. CASE queue' = queue
    BY <1>1, <2>1 DEF OfferedInv
  <2>2. ASSUME NEW s \in Sender, PushStep(s)
        PROVE  \A i \in DOMAIN queue' : queue'[i] \in offered'
    <3>1. \A i \in DOMAIN queue' :
            \/ i \in DOMAIN queue /\ queue'[i] = queue[i]
            \/ queue'[i] = ev[s]
      BY <2>2 DEF PushStep, TypeOK
    <3>2. ev[s] \in offered
      BY <2>2 DEF PushStep, Pushing, Sending, OfferedInv
    <3> QED BY <1>1, <3>1, <3>2 DEF OfferedInv
  <2> QED BY <2>1, <2>2, StepShape DEF QuietStep, WinStep, BlindStep
<1>3. ASSUME NEW t \in Sender, Sending(t)'
      PROVE  ev'[t] \in offered'
  <2> DEFINE Goal == ev'[t] \in offered'
  <2>0. ASSUME ev'[t] = ev[t], Sending(t) PROVE Goal
    BY <1>1, <2>0 DEF OfferedInv
  <2>1. ASSUME NEW s \in Sender, NEW e, Offer(s, e) PROVE Goal
    <3>1. CASE t = s
      BY <2>1, <3>1 DEF Offer, TypeOK
    <3>2. CASE t # s
      BY <1>3, <2>0, <2>1, <3>2 DEF Offer, TypeOK, Sending
    <3> QED BY <3>1, <3>2
  <2>2. ASSUME NEW s \in Sender, Return(s) PROVE Goal
    BY <1>3, <2>0, <2>2 DEF Return, After, TypeOK, Sending
  <2>3. ASSUME NEW s \in Sender, Retry(s) PROVE Goal
    <3>1. CASE UNCHANGED <<pc, ev>>
      BY <1>3, <2>0, <3>1 DEF Sending
    <3> QED BY <2>2, <2>3, <3>1 DEF Retry
  <2>4. ASSUME NEW s \in Sender, HSetNX(s) PROVE Goal
    <3>1. CASE Field(s) \in mutex
      BY <2>2, <2>4, <3>1 DEF HSetNX
    <3>2. CASE Field(s) \notin mutex
      BY <1>3, <2>0, <2>4, <3>2 DEF HSetNX, TypeOK, Sending
    <3> QED BY <3>1, <3>2
  <2>5. ASSUME NEW s \in Sender, NEW m \in Input, NEW now \in Clock,
               HandleMessage(s, m, now)
        PROVE  Goal
    <3>1. CASE UNCHANGED <<pc, ev>>
      BY <1>3, <2>0, <3>1 DEF Sending
    <3> QED BY <2>1, <2>5, <3>1 DEF HandleMessage
  <2>6. ASSUME NEW p \in Process, Crash(p) PROVE Goal
    BY <1>3, <2>0, <2>6 DEF Crash, Sending
  <2>7. ASSUME NEW s \in Sender, NEW r \in Answer, Connect(s, r) PROVE Goal
    BY <1>3, <2>0, <2>7 DEF Connect, TypeOK, Sending
  <2>8. ASSUME NEW s \in Sender, Disconnect(s) PROVE Goal
    BY <1>3, <2>0, <2>8 DEF Disconnect, TypeOK, Sending
  <2>9. CASE UNCHANGED <<pc, ev>>
    BY <1>3, <2>0, <2>9 DEF Sending
  <2> QED
    BY <2>1, <2>2, <2>3, <2>4, <2>5, <2>6, <2>7, <2>8, <2>9
    DEF Next, SendStep, Refused, HSetNXLost, RPush, RPushLost, CommandFails,
        Tick, vars
<1> QED BY <1>2, <1>3 DEF OfferedInv

\* What HandleMessage hands to sendEvent is made of a message of Slack's, the rest
\* of what sendEvent gets are refused tokens.
LEMMA OfferedFrom ==
  ASSUME [Next]_vars, NEW e \in offered', e \notin offered
  PROVE  \/ \E s \in Sender, now \in Clock : e = DisableBot(BotOf[s], now)
         \/ \E s \in Sender, m \in Input, now \in Clock :
              /\ m.team = BotOf[s].team
              /\ Sends(m, data[s])
              /\ e = EventFor(BotOf[s], m, data'[s], minute[ProcessOf[s]], now)
<1>1. CASE \E s \in Sender, now \in Clock : Refused(s, now)
  BY <1>1 DEF Refused, Offer
<1>2. CASE \E s \in Sender, m \in Input, now \in Clock : HandleMessage(s, m, now)
  <2>1. PICK s \in Sender, m \in Input, now \in Clock : HandleMessage(s, m, now)
    BY <1>2
  <2>2. Sends(m, data[s])
    BY <2>1 DEF HandleMessage
  <2> QED BY <2>1, <2>2 DEF HandleMessage, Offer
<1>3. CASE offered' = offered
  BY <1>3
<1> QED
  BY <1>1, <1>2, <1>3
  DEF Next, SendStep, vars, history, Connect, Disconnect, HSetNX, HSetNXLost,
      RPush, RPushLost, CommandFails, Crash, Tick

\* e tells of message m, in its own channel and at its own time.
Tells(e, m) ==
  /\ e.team = m.team /\ e.type = EventTypeOf(m)
  /\ e.channel = ChannelOf(m) /\ e.timestamp = TimestampOf(m, 0)
  /\ e.event_timestamp = EventTimestampOf(m, 0)

TellsInv ==
  \A e \in offered :
    e.event_timestamp \in Stamp /\ e.channel # Blank
      => \E m \in Input : Tells(e, m)

\* A timestamp of Slack's is that of a message or a reaction: Relax makes up
\* the others.
LEMMA EventForTells ==
  ASSUME NEW b, NEW m \in Message, NEW d, NEW min \in Nat, NEW now \in Nat,
         m.team = b.team,
         EventFor(b, m, d, min, now).event_timestamp \in Stamp,
         EventFor(b, m, d, min, now).channel # Blank
  PROVE  Tells(EventFor(b, m, d, min, now), m)
<1> DEFINE e == EventFor(b, m, d, min, now)
<1>1. /\ e.team = m.team /\ e.type = EventTypeOf(m)
      /\ e.channel = LookupChannel(d, ChannelOf(m))
      /\ e.timestamp = TimestampOf(m, min)
      /\ e.event_timestamp = StampedAt(EventTimestampOf(m, min), now)
      /\ e.event_timestamp \in Stamp /\ e.channel # Blank
  BY DEF EventFor
<1> HIDE DEF e
<1>2. e.channel = ChannelOf(m)
  BY <1>1 DEF LookupChannel
<1>3. [nano |-> now] \notin Stamp
  BY StampAssumption DEF NanoStamp
<1>4. e.event_timestamp = EventTimestampOf(m, min) /\ EventTimestampOf(m, min) # Blank
  BY <1>1, <1>3 DEF StampedAt
<1>5. m.type = "message" \/ Reaction(m)
  <2>1. CASE Joined(m) /\ m.type # "message" /\ ~ Reaction(m)
    <3>1. m.channel \in OrBlank(Channel)
      BY DEF Message
    <3>2. [minute |-> min, channel |-> m.channel] \notin Stamp
      BY <3>1, StampAssumption DEF MinuteStamp
    <3> QED BY <1>1, <1>4, <2>1, <3>2 DEF EventTimestampOf
  <2>2. CASE ~ Joined(m) /\ m.type # "message" /\ ~ Reaction(m)
    BY <1>4, <2>2 DEF EventTimestampOf
  <2> QED BY <2>1, <2>2
<1>6. /\ TimestampOf(m, min) = TimestampOf(m, 0)
      /\ EventTimestampOf(m, min) = EventTimestampOf(m, 0)
  BY <1>5 DEF TimestampOf, EventTimestampOf, Deleted, Edited, Simple, Reaction, Joined
<1> QED BY <1>1, <1>2, <1>4, <1>6 DEF Tells, e

\* Every step preserves TellsInv.
LEMMA TellsNext ==
  ASSUME TypeOK, TellsInv, [Next]_vars
  PROVE  TellsInv'
<1> SUFFICES ASSUME NEW e \in offered', e \notin offered,
                    e.event_timestamp \in Stamp, e.channel # Blank
             PROVE  \E m \in Input : Tells(e, m)
  BY DEF TellsInv
<1>1. CASE \E s \in Sender, now \in Clock : e = DisableBot(BotOf[s], now)
  BY <1>1 DEF DisableBot
<1>2. CASE \E s \in Sender, m \in Input, now \in Clock :
             /\ m.team = BotOf[s].team
             /\ Sends(m, data[s])
             /\ e = EventFor(BotOf[s], m, data'[s], minute[ProcessOf[s]], now)
  <2>1. PICK s \in Sender, m \in Input, now \in Clock :
               /\ m.team = BotOf[s].team
               /\ e = EventFor(BotOf[s], m, data'[s], minute[ProcessOf[s]], now)
    BY <1>2
  <2>2. m \in Message /\ now \in Nat /\ minute[ProcessOf[s]] \in Nat
    BY SenderAssumption, EnvironmentAssumption, BoundAssumption DEF TypeOK
  <2> QED BY <2>1, <2>2, EventForTells
<1> QED BY <1>1, <1>2, OfferedFrom

\* Slack's side of it: what happens in one channel, happens at a time of its own.
TimesTell ==
  \A m, n \in Input :
    /\ EventTimestampOf(m, 0) \in Stamp
    /\ EventTimestampOf(m, 0) = EventTimestampOf(n, 0)
    /\ ChannelOf(m) = ChannelOf(n)
    => /\ m.team = n.team /\ EventTypeOf(m) = EventTypeOf(n)
       /\ TimestampOf(m, 0) = TimestampOf(n, 0)

\* If Slack gives what happens in one channel different times, then sendEvent
\* drops an event only in favour of another client's event of the same happening,
\* or in a fault: in however many namespaces, processes and teams, and whatever
\* else they send.
THEOREM TwinsOnly == Spec => [](TimesTell => OnlyTwinsShadow)
<1> DEFINE I == OfferedInv /\ TellsInv
<1>1. Init => I
  BY DEF Init, OfferedInv, TellsInv, Sending
<1>2. Inv /\ I /\ [Next]_vars => I'
  BY OfferedNext, TellsNext DEF Inv
<1>3. Inv /\ I => (TimesTell => OnlyTwinsShadow)
  <2> SUFFICES ASSUME Inv, I, TimesTell, NEW e \in offered,
                      e.event_timestamp \in Stamp, e.channel # Blank
               PROVE  \/ \E i \in DOMAIN queue : SameHappening(queue[i], e)
                      \/ KeyOf(e) \in hit
                      \/ \E s \in Sender : Sending(s) /\ Field(s) = KeyOf(e)
    BY DEF OnlyTwinsShadow
  <2>1. CASE Queued(KeyOf(e))
    <3>1. PICK i \in DOMAIN queue : KeyOf(queue[i]) = KeyOf(e)
      BY <2>1 DEF Queued
    <3> DEFINE f == queue[i]
    <3>2. /\ f \in offered
          /\ f.channel = e.channel /\ f.event_timestamp = e.event_timestamp
      BY <3>1 DEF KeyOf, OfferedInv
    <3> HIDE DEF f
    <3>3. PICK m \in Input : Tells(e, m)
      BY DEF TellsInv
    <3>4. PICK n \in Input : Tells(f, n)
      BY <3>2 DEF TellsInv
    <3>5. SameHappening(f, e)
      BY <3>2, <3>3, <3>4 DEF Tells, TimesTell, SameHappening
    <3> QED BY <3>5 DEF f
  <2> QED BY <2>1 DEF Inv, LossInv, NoSilentLoss
<1> HIDE DEF I
<1> QED BY <1>1, <1>2, <1>3, Invariance, InvInit, InvNext, PTL DEF Spec

-----------------------------------------------------------------------------
(* Edits, deletions and reactions name the message they are about.         *)

\* A message of Slack's has this timestamp, and this channel unless it is Blank.
Refers(ts, channel) ==
  \E x \in Input : Simple(x) /\ x.ts = ts /\ channel \in {x.channel, Blank}

\* Slack's side of it: what is edited, deleted or reacted to is a message.
TargetsExist ==
  \A m \in Input :
    /\ Edited(m) /\ m.nested # Blank => Refers(m.nested.ts, m.channel)
    /\ Deleted(m) => Refers(m.deleted_ts, m.channel)
    /\ Reaction(m) /\ m.nested # Blank => Refers(m.nested.ts, m.nested.channel)

About(e) ==
  e.type \in {"message_edited", "message_deleted",
              "reaction_added", "reaction_removed"}
    => Refers(e.timestamp, e.channel)

AboutInv == \A e \in offered : About(e)

\* The event for an edit, a deletion or a reaction is about its message, also
\* if the client does not know the channel.
LEMMA EventForAbout ==
  ASSUME TargetsExist, NEW b, NEW m \in Input, NEW d, NEW e,
         NEW min, NEW now, Sends(m, d)
  PROVE  About(EventFor(b, m, e, min, now))
<1> DEFINE f == EventFor(b, m, e, min, now)
<1> SUFFICES About(f)
  OBVIOUS
<1>0. m \in Message
  BY EnvironmentAssumption
<1>1. /\ f.type = EventTypeOf(m) /\ f.timestamp = TimestampOf(m, min)
      /\ f.channel \in {ChannelOf(m), Blank}
  BY DEF EventFor, LookupChannel
<1> HIDE DEF f
<1>2. ASSUME Refers(TimestampOf(m, min), ChannelOf(m)) PROVE About(f)
  BY <1>1, <1>2 DEF About, Refers
<1>3. CASE Edited(m)
  <2>1. m.nested # Blank
    BY <1>3 DEF Sends, Edited, Deleted, Simple, Reaction, Joined
  <2>2. TimestampOf(m, min) = m.nested.ts /\ ChannelOf(m) = m.channel
    BY <1>3 DEF TimestampOf, ChannelOf, Edited, Deleted, Reaction, Simple, Joined
  <2> QED BY <1>2, <1>3, <2>1, <2>2 DEF TargetsExist
<1>4. CASE Deleted(m)
  <2>2. TimestampOf(m, min) = m.deleted_ts /\ ChannelOf(m) = m.channel
    BY <1>4 DEF TimestampOf, ChannelOf, Edited, Deleted, Reaction, Simple, Joined
  <2> QED BY <1>2, <1>4, <2>2 DEF TargetsExist
<1>5. CASE Reaction(m)
  <2>1. m.nested # Blank
    BY <1>5 DEF Sends, Edited, Deleted, Simple, Reaction, Joined
  <2>2. TimestampOf(m, min) = m.nested.ts /\ ChannelOf(m) = m.nested.channel
    BY <1>5 DEF TimestampOf, ChannelOf, Edited, Deleted, Reaction, Simple, Joined
  <2> QED BY <1>2, <1>5, <2>1, <2>2 DEF TargetsExist
<1>6. CASE ~ Edited(m) /\ ~ Deleted(m) /\ ~ Reaction(m)
  <2>1. EventTypeOf(m) \notin {"message_edited", "message_deleted",
                               "reaction_added", "reaction_removed"}
    BY <1>0, <1>6
    DEF EventTypeOf, Edited, Deleted, Simple, Reaction, Joined, Message, MessageType
  <2> QED BY <1>1, <2>1 DEF About
<1> QED BY <1>3, <1>4, <1>5, <1>6

\* If what Slack sends is about messages, then so are the events: channel_uid and
\* timestamp of an edit, a deletion or a reaction in the queue identify a message,
\* whatever the processes know of the channels and go through.
THEOREM TargetsIdentified == Spec => [](TargetsExist => IdentifiesTarget)
<1> DEFINE Goal == OfferedInv /\ (TargetsExist => AboutInv)
<1>1. Init => Goal
  BY DEF Init, OfferedInv, AboutInv, Sending
<1>2. Inv /\ Goal /\ [Next]_vars => Goal'
  <2> SUFFICES ASSUME Inv, Goal, [Next]_vars PROVE Goal'
    OBVIOUS
  <2>1. OfferedInv'
    BY OfferedNext DEF Inv
  <2>2. ASSUME TargetsExist, NEW e \in offered', e \notin offered PROVE About(e)
    <3>1. CASE \E s \in Sender, now \in Clock : e = DisableBot(BotOf[s], now)
      BY <3>1 DEF DisableBot, About
    <3> QED BY <2>2, <3>1, OfferedFrom, EventForAbout
  <2> QED BY <2>1, <2>2 DEF AboutInv, About, TargetsExist, Refers
<1>3. Goal => (TargetsExist => IdentifiesTarget)
  BY DEF OfferedInv, AboutInv, About, Refers, IdentifiesTarget
<1> HIDE DEF Goal
<1> QED BY <1>1, <1>2, <1>3, InvInit, InvNext, PTL DEF Spec
=============================================================================
