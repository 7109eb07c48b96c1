------------------------- MODULE SlackClientProofs --------------------------
(***************************************************************************)
(* Proofs about SlackClient, for any number of runs and any budget of      *)
(* failures, with and without the Prompt assumption.                       *)
(***************************************************************************)
EXTENDS SlackClient, FiniteSetTheorems, TLAPS

\* All that the proofs need to know of the numbers of runs.
LEMMA RunFacts ==
  /\ 1 \in Run /\ None \notin Run
  /\ \A n \in Run : n \in Nat /\ (n < MaxRuns => n + 1 \in Run)
BY BoundAssumption DEF Run, None

-----------------------------------------------------------------------------
(* Type correctness.                                                       *)

\* A client that is about to log in is well typed.
LEMMA TypeInit == Init => TypeOK
<1> SUFFICES ASSUME Init PROVE TypeOK
  OBVIOUS
<1>1. RunsOK
  BY RunFacts DEF Init, RunsOK, Stage
<1>2. FieldsOK
  BY DEF Init, FieldsOK
<1>3. WiresOK
  BY BoundAssumption DEF Init, WiresOK, Socket
<1>4. LoopsOK
  BY DEF Init, LoopsOK, Reader, Pump
<1>5. CountersOK
  <2>1. registered \in BOOLEAN
    BY Zenon DEF Init
  <2> QED BY <2>1, BoundAssumption DEF Init, CountersOK
<1>6. PointersOK
  BY DEF Init, PointersOK
<1> QED BY <1>1, <1>2, <1>3, <1>4, <1>5, <1>6 DEF TypeOK

\* What a step leaves alone keeps its type.
LEMMA Frame ==
  ASSUME TypeOK
  PROVE  /\ UNCHANGED <<used, stage>> => RunsOK'
         /\ UNCHANGED client => FieldsOK'
         /\ UNCHANGED <<wires, tickers>> => WiresOK'
         /\ UNCHANGED <<readers, pumps>> => LoopsOK'
         /\ UNCHANGED <<clients, budget, history>> => CountersOK'
<1>1. UNCHANGED <<used, stage>> => RunsOK'
  BY DEF TypeOK, RunsOK
<1>2. UNCHANGED client => FieldsOK'
  BY DEF TypeOK, FieldsOK, client
<1>3. UNCHANGED <<wires, tickers>> => WiresOK'
  BY DEF TypeOK, WiresOK, wires, tickers
<1>4. UNCHANGED <<readers, pumps>> => LoopsOK'
  BY DEF TypeOK, LoopsOK, readers, pumps
<1>5. UNCHANGED <<clients, budget, history>> => CountersOK'
  BY DEF TypeOK, CountersOK, clients, budget, history
<1> QED BY <1>1, <1>2, <1>3, <1>4, <1>5

\* Pointers stay set when no goroutine appears that needs a new one.
LEMMA PointersFrame ==
  ASSUME PointersOK,
         conn' # None \/ conn' = conn, ticker' # None \/ ticker' = ticker,
         \A i \in Run :
           /\ stage'[i] = "dialed" => stage[i] = "dialed" \/ conn' # None
           /\ reader'[i] = "read" =>
                \/ reader[i] = "read" /\ rconn'[i] = rconn[i]
                \/ rconn'[i] # None
           /\ reader'[i] # "none" =>
                reader[i] # "none" \/ (conn' # None /\ ticker' # None)
           /\ pump'[i] # "none" =>
                pump[i] # "none" \/ (conn' # None /\ ticker' # None)
  PROVE  PointersOK'
BY DEF PointersOK

\* c.Stop() closes a socket that exists.
LEMMA StopType ==
  ASSUME TypeOK, Stop, UNCHANGED tickers
  PROVE  WiresOK'
<1>1. CASE conn = None
  BY <1>1, Frame DEF Stop
<1>2. CASE conn # None
  BY <1>2, BoundAssumption
  DEF Stop, Close, TypeOK, FieldsOK, WiresOK, Socket, tickers
<1> QED BY <1>1, <1>2

\* A new run dials nothing yet.
LEMMA BeginType ==
  ASSUME TypeOK, NEW st \in [Run -> Stage], Begin(st)
  PROVE  /\ RunsOK'
         /\ \A i \in Run : stage'[i] = "dialed" => st[i] = "dialed"
BY RunFacts DEF TypeOK, RunsOK, Begin, Stage

\* The environment keeps to its budget.
LEMMA FaultType ==
  ASSUME TypeOK, Fault
  PROVE  faults' \in 0..MaxFaults
BY BoundAssumption DEF TypeOK, CountersOK, Fault

\* LoginAndStart keeps the types and leaves no nil pointer to a goroutine.
LEMMA RunType ==
  ASSUME TypeOK, NEW i \in Run, RunStep(i)
  PROVE  TypeOK'
<1>1. ASSUME NEW a \in Answer, LoginAnswered(i, a)
      PROVE  TypeOK'
  <2>1. RunsOK'
    BY <1>1 DEF LoginAnswered, TypeOK, RunsOK, Stage
  <2>2. FieldsOK'
    BY <1>1 DEF LoginAnswered, TypeOK, FieldsOK
  <2>3. CountersOK'
    BY <1>1, FaultType
    DEF LoginAnswered, TypeOK, CountersOK, clients, budget, history
  <2>4. PointersOK'
    BY <1>1
    DEF LoginAnswered, TypeOK, PointersOK, RunsOK, LoopsOK, client, readers,
        pumps
  <2> QED
    BY <1>1, <2>1, <2>2, <2>3, <2>4, Frame, PointersFrame
    DEF LoginAnswered, TypeOK, client, wires, tickers, readers, pumps,
        clients, budget, history
<1>2. CASE LoginFails(i)
  <2>1. RunsOK'
    BY <1>2 DEF LoginFails, Backoff, TypeOK, RunsOK, Stage
  <2>2. CountersOK'
    BY <1>2, FaultType
    DEF LoginFails, Backoff, TypeOK, CountersOK, clients, budget, history
  <2>3. PointersOK'
    BY <1>2
    DEF LoginFails, Backoff, TypeOK, PointersOK, RunsOK, LoopsOK, client,
        readers, pumps
  <2> QED
    BY <1>2, <2>1, <2>2, <2>3, Frame, PointersFrame
    DEF LoginFails, Backoff, TypeOK, client, wires, tickers, readers, pumps,
        clients, budget, history
<1>3. CASE RateLimited(i)
  <2>1. RunsOK'
    BY <1>3 DEF RateLimited, TypeOK, RunsOK, Stage
  <2>2. CountersOK'
    BY <1>3, FaultType
    DEF RateLimited, TypeOK, CountersOK, clients, budget, history
  <2>3. PointersOK'
    BY <1>3
    DEF RateLimited, TypeOK, PointersOK, RunsOK, LoopsOK, client, readers,
        pumps
  <2> QED
    BY <1>3, <2>1, <2>2, <2>3, Frame, PointersFrame
    DEF RateLimited, TypeOK, client, wires, tickers, readers, pumps, clients,
        budget, history
<1>4. CASE RetryAfter(i)
  <2>1. RunsOK'
    BY <1>4 DEF RetryAfter, Backoff, TypeOK, RunsOK, Stage
  <2>2. CountersOK'
    BY <1>4
    DEF RetryAfter, Backoff, TypeOK, CountersOK, clients, budget, history
  <2>3. PointersOK'
    BY <1>4
    DEF RetryAfter, Backoff, TypeOK, PointersOK, RunsOK, LoopsOK, client,
        readers, pumps
  <2> QED
    BY <1>4, <2>1, <2>2, <2>3, Frame, PointersFrame
    DEF RetryAfter, Backoff, TypeOK, client, wires, tickers, readers, pumps,
        clients, budget, history
<1>5. CASE Dial(i)
  <2>1. RunsOK'
    BY <1>5 DEF Dial, TypeOK, RunsOK, Stage
  <2>2. FieldsOK'
    BY <1>5 DEF Dial, TypeOK, FieldsOK
  <2>3. WiresOK'
    BY <1>5 DEF Dial, TypeOK, WiresOK, Socket, tickers
  <2>4. PointersOK'
    BY <1>5, RunFacts
    DEF Dial, TypeOK, PointersOK, RunsOK, LoopsOK, client, readers, pumps
  <2> QED
    BY <1>5, <2>1, <2>2, <2>3, <2>4, Frame, PointersFrame
    DEF Dial, TypeOK, client, wires, tickers, readers, pumps, clients, budget,
        history
<1>6. CASE DialFails(i)
  <2>1. RunsOK'
    BY <1>6 DEF DialFails, TypeOK, RunsOK, Stage
  <2>2. CountersOK'
    BY <1>6, FaultType
    DEF DialFails, TypeOK, CountersOK, clients, budget, history
  <2>3. PointersOK'
    BY <1>6
    DEF DialFails, TypeOK, PointersOK, RunsOK, LoopsOK, client, readers, pumps
  <2> QED
    BY <1>6, <2>1, <2>2, <2>3, Frame, PointersFrame
    DEF DialFails, TypeOK, client, wires, tickers, readers, pumps, clients,
        budget, history
<1>7. CASE Refused(i)
  <2>1. RunsOK'
    BY <1>7 DEF Refused, TypeOK, RunsOK, Stage
  <2>2. CountersOK'
    BY <1>7 DEF Refused, TypeOK, CountersOK, clients, budget, history
  <2>3. PointersOK'
    BY <1>7
    DEF Refused, TypeOK, PointersOK, RunsOK, LoopsOK, client, readers, pumps
  <2> QED
    BY <1>7, <2>1, <2>2, <2>3, Frame, PointersFrame
    DEF Refused, TypeOK, client, wires, tickers, readers, pumps, clients,
        budget, history
<1>8. CASE Migrate(i)
  <2>1. [stage EXCEPT ![i] = "over"] \in [Run -> Stage]
    BY <1>8 DEF Migrate, TypeOK, RunsOK, Stage
  <2>2. /\ RunsOK'
        /\ \A j \in Run : stage'[j] = "dialed" => stage[j] = "dialed"
    BY <1>8, <2>1, BeginType DEF Migrate, TypeOK, RunsOK
  <2>3. PointersOK'
    BY <1>8, <2>2
    DEF Migrate, TypeOK, PointersOK, RunsOK, LoopsOK, client, readers, pumps
  <2> QED
    BY <1>8, <2>1, <2>2, <2>3, Frame, PointersFrame
    DEF Migrate, TypeOK, client, wires, tickers, readers, pumps, clients,
        budget, history
<1>9. CASE Spawn(i)
  <2>1. RunsOK'
    BY <1>9 DEF Spawn, TypeOK, RunsOK, Stage
  <2>2. FieldsOK'
    BY <1>9 DEF Spawn, TypeOK, FieldsOK
  <2>3. WiresOK'
    BY <1>9 DEF Spawn, TypeOK, WiresOK, wires
  <2>4. LoopsOK'
    BY <1>9 DEF Spawn, TypeOK, LoopsOK, Reader, Pump, readers, pumps
  <2>5. PointersOK'
    BY <1>9, RunFacts DEF Spawn, TypeOK, PointersOK, RunsOK, LoopsOK
  <2> QED
    BY <1>9, <2>1, <2>2, <2>3, <2>4, <2>5, Frame, PointersFrame
    DEF Spawn, TypeOK, client, wires, tickers, readers, pumps, clients,
        budget, history
<1>10. CASE Register(i)
  <2>1. RunsOK'
    BY <1>10 DEF Register, TypeOK, RunsOK, Stage
  <2>2. CountersOK'
    <3>1. registered' \in BOOLEAN
      BY <1>10, Zenon DEF Register
    <3> QED
      BY <1>10, <3>1 DEF Register, TypeOK, CountersOK, budget, history
  <2>3. PointersOK'
    BY <1>10
    DEF Register, TypeOK, PointersOK, RunsOK, LoopsOK, client, readers, pumps
  <2> QED
    BY <1>10, <2>1, <2>2, <2>3, Frame
    DEF Register, TypeOK, client, wires, tickers, readers, pumps
<1> QED
  BY <1>1, <1>2, <1>3, <1>4, <1>5, <1>6, <1>7, <1>8, <1>9, <1>10 DEF RunStep

\* So does the read loop.
LEMMA ReaderType ==
  ASSUME TypeOK, NEW i \in Run, ReaderStep(i) \/ Message(i)
  PROVE  TypeOK'
<1>1. CASE Read(i)
  <2>1. LoopsOK'
    BY <1>1 DEF Read, TypeOK, LoopsOK, FieldsOK, Reader, pumps
  <2>2. PointersOK'
    BY <1>1 DEF Read, TypeOK, PointersOK, RunsOK, LoopsOK, client, pumps
  <2> QED
    BY <1>1, <2>1, <2>2, Frame, PointersFrame
    DEF Read, TypeOK, client, wires, tickers, readers, pumps, clients, budget,
        history
<1>2. CASE Message(i)
  <2>1. LoopsOK'
    BY <1>2 DEF Message, TypeOK, LoopsOK, Reader, Pump, readers, pumps
  <2>2. PointersOK'
    BY <1>2 DEF Message, TypeOK, PointersOK, RunsOK, LoopsOK, client, pumps
  <2> QED
    BY <1>2, <2>1, <2>2, Frame, PointersFrame
    DEF Message, TypeOK, client, wires, tickers, readers, pumps, clients,
        budget, history
<1>3. CASE Pong(i)
  <2>1. FieldsOK'
    BY <1>3 DEF Pong, TypeOK, FieldsOK
  <2>2. WiresOK'
    <3>1. rconn[i] \in Run
      BY <1>3 DEF Pong, TypeOK, LoopsOK, PointersOK
    <3>2. pongs[rconn[i]] - 1 \in 0..MaxPongs
      BY <1>3, <3>1, BoundAssumption DEF Pong, TypeOK, WiresOK
    <3> QED BY <1>3, <3>1, <3>2 DEF Pong, TypeOK, WiresOK, tickers
  <2>3. LoopsOK'
    BY <1>3 DEF Pong, TypeOK, LoopsOK, Reader, Pump, readers, pumps
  <2>4. PointersOK'
    BY <1>3 DEF Pong, TypeOK, PointersOK, RunsOK, LoopsOK, pumps
  <2> QED
    BY <1>3, <2>1, <2>2, <2>3, <2>4, Frame, PointersFrame
    DEF Pong, TypeOK, client, wires, tickers, readers, pumps, clients, budget,
        history
<1>4. CASE ReadFails(i)
  <2>1. FieldsOK'
    BY <1>4 DEF ReadFails, TypeOK, FieldsOK
  <2>2. LoopsOK'
    BY <1>4 DEF ReadFails, TypeOK, LoopsOK, Reader, Pump, readers, pumps
  <2>3. PointersOK'
    BY <1>4 DEF ReadFails, TypeOK, PointersOK, RunsOK, LoopsOK, pumps
  <2> QED
    BY <1>4, <2>1, <2>2, <2>3, Frame, PointersFrame
    DEF ReadFails, TypeOK, client, wires, tickers, readers, pumps, clients,
        budget, history
<1>5. CASE ReaderStopsTicker(i)
  <2>1. WiresOK'
    BY <1>5, BoundAssumption
    DEF ReaderStopsTicker, TypeOK, WiresOK, wires, tickers
  <2>2. LoopsOK'
    BY <1>5
    DEF ReaderStopsTicker, TypeOK, LoopsOK, Reader, Pump, readers, pumps
  <2>3. PointersOK'
    BY <1>5
    DEF ReaderStopsTicker, TypeOK, PointersOK, RunsOK, LoopsOK, client, pumps
  <2> QED
    BY <1>5, <2>1, <2>2, <2>3, Frame, PointersFrame
    DEF ReaderStopsTicker, TypeOK, client, wires, tickers, readers, pumps,
        clients, budget, history
<1>6. CASE ReaderStops(i)
  <2>1. WiresOK'
    BY <1>6, StopType DEF ReaderStops, TypeOK
  <2>2. LoopsOK'
    BY <1>6 DEF ReaderStops, TypeOK, LoopsOK, Reader, Pump, readers, pumps
  <2>3. PointersOK'
    BY <1>6
    DEF ReaderStops, TypeOK, PointersOK, RunsOK, LoopsOK, client, pumps
  <2> QED
    BY <1>6, <2>1, <2>2, <2>3, Frame, PointersFrame
    DEF ReaderStops, TypeOK, client, wires, tickers, readers, pumps, clients,
        budget, history
<1>7. CASE ReaderRestarts(i)
  <2>1. /\ RunsOK'
        /\ \A j \in Run : stage'[j] = "dialed" => stage[j] = "dialed"
    BY <1>7, BeginType DEF ReaderRestarts, TypeOK, RunsOK
  <2>2. LoopsOK'
    BY <1>7 DEF ReaderRestarts, TypeOK, LoopsOK, Reader, Pump, readers, pumps
  <2>3. PointersOK'
    BY <1>7, <2>1
    DEF ReaderRestarts, TypeOK, PointersOK, RunsOK, LoopsOK, client, pumps
  <2> QED
    BY <1>7, <2>1, <2>2, <2>3, Frame, PointersFrame
    DEF ReaderRestarts, TypeOK, client, wires, tickers, readers, pumps,
        clients, budget, history
<1> QED
  BY <1>1, <1>2, <1>3, <1>4, <1>5, <1>6, <1>7 DEF ReaderStep

\* So does the ping pump.
LEMMA PumpType ==
  ASSUME TypeOK, NEW i \in Run, PumpStep(i)
  PROVE  TypeOK'
<1>1. CASE PumpBoots(i)
  <2>1. LoopsOK'
    BY <1>1 DEF PumpBoots, TypeOK, LoopsOK, FieldsOK, Pump, readers
  <2>2. PointersOK'
    BY <1>1
    DEF PumpBoots, TypeOK, PointersOK, RunsOK, LoopsOK, client, readers
  <2> QED
    BY <1>1, <2>1, <2>2, Frame, PointersFrame
    DEF PumpBoots, TypeOK, client, wires, tickers, readers, pumps, clients,
        budget, history
<1>2. CASE Tick(i)
  <2>1. FieldsOK'
    BY <1>2 DEF Tick, TypeOK, FieldsOK
  <2>2. WiresOK'
    BY <1>2 DEF Tick, TypeOK, WiresOK, wires
  <2>3. LoopsOK'
    BY <1>2 DEF Tick, TypeOK, LoopsOK, Reader, Pump, readers, pumps
  <2>4. PointersOK'
    BY <1>2 DEF Tick, TypeOK, PointersOK, RunsOK, LoopsOK, readers
  <2> QED
    BY <1>2, <2>1, <2>2, <2>3, <2>4, Frame, PointersFrame
    DEF Tick, TypeOK, client, wires, tickers, readers, pumps, clients, budget,
        history
<1>3. CASE Check(i)
  <2>1. LoopsOK'
    BY <1>3 DEF Check, TypeOK, LoopsOK, Pump, readers, pumps
  <2>2. PointersOK'
    BY <1>3 DEF Check, TypeOK, PointersOK, RunsOK, LoopsOK, client, readers
  <2> QED
    BY <1>3, <2>1, <2>2, Frame, PointersFrame
    DEF Check, TypeOK, client, wires, tickers, readers, pumps, clients, budget,
        history
<1>8. CASE Ping(i)
  <2>1. WiresOK'
    BY <1>8, BoundAssumption
    DEF Ping, TypeOK, WiresOK, FieldsOK, PointersOK, tickers
  <2>2. LoopsOK'
    BY <1>8 DEF Ping, TypeOK, LoopsOK, Reader, Pump, readers, pumps
  <2>3. PointersOK'
    BY <1>8 DEF Ping, TypeOK, PointersOK, RunsOK, LoopsOK, client, readers
  <2> QED
    BY <1>8, <2>1, <2>2, <2>3, Frame, PointersFrame
    DEF Ping, TypeOK, client, wires, tickers, readers, pumps, clients, budget,
        history
<1>4. CASE Expire(i)
  <2>1. FieldsOK'
    BY <1>4 DEF Expire, TypeOK, FieldsOK
  <2>2. LoopsOK'
    BY <1>4 DEF Expire, TypeOK, LoopsOK, Reader, Pump, readers, pumps
  <2>3. CountersOK'
    BY <1>4 DEF Expire, TypeOK, CountersOK, clients, budget
  <2>4. PointersOK'
    BY <1>4 DEF Expire, TypeOK, PointersOK, RunsOK, LoopsOK, readers
  <2> QED
    BY <1>4, <2>1, <2>2, <2>3, <2>4, Frame, PointersFrame
    DEF Expire, TypeOK, client, wires, tickers, readers, pumps, clients,
        budget, history
<1>5. CASE PumpStopsTicker(i)
  <2>1. WiresOK'
    BY <1>5, BoundAssumption
    DEF PumpStopsTicker, TypeOK, WiresOK, wires, tickers
  <2>2. LoopsOK'
    BY <1>5 DEF PumpStopsTicker, TypeOK, LoopsOK, Reader, Pump, readers, pumps
  <2>3. PointersOK'
    BY <1>5
    DEF PumpStopsTicker, TypeOK, PointersOK, RunsOK, LoopsOK, client, readers
  <2> QED
    BY <1>5, <2>1, <2>2, <2>3, Frame, PointersFrame
    DEF PumpStopsTicker, TypeOK, client, wires, tickers, readers, pumps,
        clients, budget, history
<1>6. CASE PumpStops(i)
  <2>1. WiresOK'
    BY <1>6, StopType DEF PumpStops, TypeOK
  <2>2. LoopsOK'
    BY <1>6 DEF PumpStops, TypeOK, LoopsOK, Reader, Pump, readers, pumps
  <2>3. PointersOK'
    BY <1>6
    DEF PumpStops, TypeOK, PointersOK, RunsOK, LoopsOK, client, readers
  <2> QED
    BY <1>6, <2>1, <2>2, <2>3, Frame, PointersFrame
    DEF PumpStops, TypeOK, client, wires, tickers, readers, pumps, clients,
        budget, history
<1>7. CASE PumpRestarts(i)
  <2>1. /\ RunsOK'
        /\ \A j \in Run : stage'[j] = "dialed" => stage[j] = "dialed"
    BY <1>7, BeginType DEF PumpRestarts, TypeOK, RunsOK
  <2>2. LoopsOK'
    BY <1>7 DEF PumpRestarts, TypeOK, LoopsOK, Reader, Pump, readers, pumps
  <2>3. PointersOK'
    BY <1>7, <2>1
    DEF PumpRestarts, TypeOK, PointersOK, RunsOK, LoopsOK, client, readers
  <2> QED
    BY <1>7, <2>1, <2>2, <2>3, Frame, PointersFrame
    DEF PumpRestarts, TypeOK, client, wires, tickers, readers, pumps, clients,
        budget, history
<1> QED
  BY <1>1, <1>2, <1>3, <1>4, <1>5, <1>6, <1>7, <1>8 DEF PumpStep

\* So do the network, the clock and the team_removed handler.
LEMMA EnvironmentType ==
  ASSUME TypeOK, NEW i \in Run, 
         ServerCloses(i) \/ Stall(i) \/ Fire(i) \/ RemoveStops \/ Remove
  PROVE  TypeOK'
<1>1. CASE ServerCloses(i)
  <2>1. WiresOK'
    BY <1>1, BoundAssumption
    DEF ServerCloses, Close, TypeOK, WiresOK, Socket, tickers
  <2>2. CountersOK'
    BY <1>1, FaultType
    DEF ServerCloses, Close, TypeOK, CountersOK, clients, budget, history
  <2>3. PointersOK'
    BY <1>1
    DEF ServerCloses, Close, TypeOK, PointersOK, RunsOK, LoopsOK, client,
        readers, pumps
  <2> QED
    BY <1>1, <2>1, <2>2, <2>3, Frame, PointersFrame
    DEF ServerCloses, Close, TypeOK, client, wires, tickers, readers, pumps,
        clients, budget, history
<1>2. CASE Stall(i)
  <2>1. WiresOK'
    BY <1>2, BoundAssumption DEF Stall, TypeOK, WiresOK, Socket, tickers
  <2>2. CountersOK'
    BY <1>2, BoundAssumption DEF Stall, TypeOK, CountersOK, clients, history
  <2>3. PointersOK'
    BY <1>2
    DEF Stall, TypeOK, PointersOK, RunsOK, LoopsOK, client, readers, pumps
  <2> QED
    BY <1>2, <2>1, <2>2, <2>3, Frame, PointersFrame
    DEF Stall, TypeOK, client, wires, tickers, readers, pumps, clients,
        budget, history
<1>3. CASE Fire(i)
  <2>1. WiresOK'
    BY <1>3 DEF Fire, TypeOK, WiresOK, wires
  <2>2. PointersOK'
    BY <1>3
    DEF Fire, TypeOK, PointersOK, RunsOK, LoopsOK, client, readers, pumps
  <2> QED
    BY <1>3, <2>1, <2>2, Frame, PointersFrame
    DEF Fire, TypeOK, client, wires, tickers, readers, pumps, clients, budget,
        history
<1>4. CASE RemoveStops
  <2>1. WiresOK'
    BY <1>4, StopType DEF RemoveStops, TypeOK
  <2>2. CountersOK'
    BY <1>4, BoundAssumption DEF RemoveStops, TypeOK, CountersOK, history
  <2>3. PointersOK'
    BY <1>4
    DEF RemoveStops, TypeOK, PointersOK, RunsOK, LoopsOK, client, readers,
        pumps
  <2> QED
    BY <1>4, <2>1, <2>2, <2>3, Frame, PointersFrame
    DEF RemoveStops, TypeOK, client, wires, tickers, readers, pumps, clients,
        budget, history
<1>5. CASE Remove
  <2>1. CountersOK'
    BY <1>5 DEF Remove, TypeOK, CountersOK, budget, history
  <2>2. PointersOK'
    BY <1>5
    DEF Remove, TypeOK, PointersOK, RunsOK, LoopsOK, client, readers, pumps
  <2> QED
    BY <1>5, <2>1, <2>2, Frame, PointersFrame
    DEF Remove, TypeOK, client, wires, tickers, readers, pumps, clients,
        budget, history
<1> QED
  BY <1>1, <1>2, <1>3, <1>4, <1>5 DEF TypeOK

\* Every step keeps the types.
LEMMA TypeNext == TypeOK /\ [Next]_vars => TypeOK'
<1> SUFFICES ASSUME TypeOK, [Next]_vars PROVE TypeOK'
  OBVIOUS
<1>1. CASE UNCHANGED vars
  <2>1. PointersOK'
    BY <1>1 DEF vars, TypeOK, PointersOK, client, readers, pumps
  <2> QED BY <1>1, <2>1, Frame DEF vars, TypeOK
<1> QED
  BY <1>1, RunFacts, RunType, ReaderType, PumpType, EnvironmentType DEF Next

\* Every variable keeps its type and no goroutine finds a nil pointer.
THEOREM TypeCorrect == Spec => []TypeOK
BY TypeInit, TypeNext, PTL DEF Spec

-----------------------------------------------------------------------------
(* One line.  While no heartbeat has expired, the only way to a new run is *)
(* a reader that has stopped its ticker and closed its socket, or a        *)
(* migration before there was either.                                      *)

InUse(i) == socket[i] \in {"open", "stalled"}

\* Runs that have not begun have left no trace.
Fresh ==
  \A i \in Run :
    i > used => stage[i] = "free" /\ reader[i] = "none" /\ pump[i] = "none"

\* A run starts its goroutines when it ends.
NothingYet ==
  \A i \in Run : Connecting(i) => reader[i] = "none" /\ pump[i] = "none"

\* Only a pump whose heartbeat expired reconnects.
OnlyAfterExpiry == \A i \in Run : Reconnecting(i) => expired > 0

\* The conjuncts of OneLine by name.
OneAtWork ==
  \A i, j \in Run :
    (Connecting(i) \/ Reading(i)) /\ (Connecting(j) \/ Reading(j)) => i = j
OneSocket ==
  \A i \in Run : InUse(i) => i = conn /\ (stage[i] = "dialed" \/ Reading(i))
OneTicker ==
  \A t \in running : t = ticker /\ reader[t] \in {"next", "read", "untick"}

\* What a reader has cleared away when it calls LoginAndStart.
HandOver ==
  /\ \A i \in Run : reader[i] \in {"close", "again"} => running = {}
  /\ \A i, j \in Run : reader[i] = "again" => ~ InUse(j)

Single == OneAtWork /\ OneSocket /\ OneTicker /\ HandOver

LineInv ==
  Fresh /\ NothingYet /\ OnlyAfterExpiry /\ (expired = 0 => Single)

\* The invariant is stronger than the property.
LEMMA LineInvImplies == LineInv => OneLine
BY DEF LineInv, Single, OneLine, OneAtWork, OneSocket, OneTicker, InUse

\* Before the first login there is one line and nothing else.
LEMMA LineInit == Init => LineInv
BY RunFacts
DEF Init, LineInv, Fresh, NothingYet, OnlyAfterExpiry, Single, OneAtWork,
    OneSocket, OneTicker, HandOver, InUse, Connecting, Reading, Reconnecting

\* A step that brings no new line, socket or ticker into play.
LEMMA Quiet ==
  ASSUME TypeOK, LineInv, UNCHANGED <<used, conn, ticker, expired>>,
         running' \subseteq running,
         \A i \in Run :
           /\ Connecting(i)' => Connecting(i)
           /\ stage[i] = "free" => stage'[i] = "free"
           /\ stage[i] = "dialed" => stage'[i] = "dialed"
           /\ \/ reader'[i] = reader[i]
              \/ /\ reader[i] \in {"next", "read", "untick"}
                 /\ reader'[i] \in {"next", "read", "untick"}
           /\ InUse(i)' => InUse(i)
           /\ Reconnecting(i)' => Reconnecting(i)
           /\ pump[i] = "none" => pump'[i] = "none"
  PROVE  LineInv'
<1>1. Fresh'
  BY DEF LineInv, Fresh
<1>2. NothingYet'
  BY DEF LineInv, NothingYet
<1>3. OnlyAfterExpiry'
  BY DEF LineInv, OnlyAfterExpiry
<1>4. ASSUME expired' = 0 PROVE Single'
  <2>1. Single
    BY <1>4 DEF LineInv
  <2>2. \A i \in Run : Reading(i)' <=> Reading(i)
    BY DEF Reading
  <2>3. OneAtWork'
    BY <2>1, <2>2 DEF Single, OneAtWork
  <2>4. OneSocket'
    BY <2>1, <2>2 DEF Single, OneSocket
  <2>5. OneTicker'
    BY <2>1 DEF TypeOK, WiresOK, Single, OneTicker
  <2>6. HandOver'
    BY <2>1 DEF Single, HandOver
  <2> QED BY <2>3, <2>4, <2>5, <2>6 DEF Single
<1> QED BY <1>1, <1>2, <1>3, <1>4 DEF LineInv

\* go c.LoginAndStart() when nothing is connecting, reading or in use, or when
\* a heartbeat has expired.
LEMMA BeginLine ==
  ASSUME TypeOK, LineInv, NEW st \in [Run -> Stage], Begin(st),
         UNCHANGED <<expired, socket, running, ticker, conn>>,
         \A i \in Run :
           /\ st[i] \in {stage[i], "over"}
           /\ stage[i] = "free" => st[i] = "free"
           /\ reader'[i] \in {reader[i], "done"}
           /\ reader[i] = "none" => reader'[i] = "none"
           /\ Reconnecting(i)' => Reconnecting(i)
           /\ pump[i] = "none" => pump'[i] = "none",
         \/ expired > 0
         \/ /\ running = {}
            /\ \A i \in Run : /\ ~ InUse(i)
                              /\ reader'[i] \in {"none", "done"}
                              /\ st[i] \in {"free", "spawned", "over"}
  PROVE  LineInv'
<1>1. used + 1 \in Run /\ used \in Nat
  BY RunFacts DEF TypeOK, RunsOK, Begin
<1>2. \A i \in Run : stage'[i] = IF i = used + 1 THEN "login" ELSE st[i]
  BY <1>1 DEF Begin
<1>3. Fresh'
  <2> SUFFICES ASSUME NEW i \in Run, i > used + 1
               PROVE  /\ stage'[i] = "free" /\ reader'[i] = "none"
                      /\ pump'[i] = "none"
    BY <1>1 DEF Fresh, Begin
  <2>1. i > used
    BY <1>1, RunFacts
  <2> QED BY <1>1, <1>2, <2>1 DEF LineInv, Fresh, TypeOK, LoopsOK
<1>4. NothingYet'
  <2> SUFFICES ASSUME NEW i \in Run, Connecting(i)'
               PROVE  reader'[i] = "none" /\ pump'[i] = "none"
    BY DEF NothingYet
  <2>1. CASE i = used + 1
    BY <1>1, <2>1 DEF LineInv, Fresh
  <2>2. CASE i # used + 1
    BY <1>2, <2>2 DEF LineInv, NothingYet, Connecting
  <2> QED BY <2>1, <2>2
<1>5. OnlyAfterExpiry'
  BY DEF LineInv, OnlyAfterExpiry
<1>6. ASSUME expired' = 0 PROVE Single'
  <2>1. \A i \in Run : /\ Connecting(i)' => i = used + 1
                       /\ ~ Reading(i)' /\ ~ InUse(i)'
    BY <1>2, <1>6 DEF Connecting, Reading, InUse
  <2>2. OneAtWork'
    BY <2>1 DEF OneAtWork
  <2>3. OneSocket' /\ OneTicker' /\ HandOver'
    BY <1>6, <2>1 DEF OneSocket, OneTicker, HandOver, Reading
  <2> QED BY <2>2, <2>3 DEF Single
<1> QED BY <1>3, <1>4, <1>5, <1>6 DEF LineInv

\* LoginAndStart dials and spawns only while it is alone.
LEMMA RunLine ==
  ASSUME TypeOK, LineInv, NEW i \in Run, RunStep(i)
  PROVE  LineInv'
<1>1. ASSUME NEW a \in Answer, LoginAnswered(i, a)
      PROVE  LineInv'
  BY <1>1, Quiet
  DEF LoginAnswered, TypeOK, RunsOK, WiresOK, LoopsOK, Connecting,
      Reconnecting, InUse, client, wires, tickers, readers, pumps, history
<1>2. CASE LoginFails(i)
  BY <1>2, Quiet
  DEF LoginFails, Backoff, TypeOK, RunsOK, WiresOK, LoopsOK, Connecting,
      Reconnecting, InUse, client, wires, tickers, readers, pumps, history
<1>3. CASE RateLimited(i)
  BY <1>3, Quiet
  DEF RateLimited, TypeOK, RunsOK, WiresOK, LoopsOK, Connecting, Reconnecting,
      InUse, client, wires, tickers, readers, pumps, history
<1>4. CASE RetryAfter(i)
  BY <1>4, Quiet
  DEF RetryAfter, Backoff, TypeOK, RunsOK, WiresOK, LoopsOK, Connecting,
      Reconnecting, InUse, client, wires, tickers, readers, pumps, history
<1>5. CASE DialFails(i)
  BY <1>5, Quiet
  DEF DialFails, TypeOK, RunsOK, WiresOK, LoopsOK, Connecting, Reconnecting,
      InUse, client, wires, tickers, readers, pumps, history
<1>6. CASE Refused(i)
  BY <1>6, Quiet
  DEF Refused, TypeOK, RunsOK, WiresOK, LoopsOK, Connecting, Reconnecting,
      InUse, client, wires, tickers, readers, pumps, history
\* The run is the only line and has no reader: no socket or ticker is in use.
<1>7. ASSUME Connecting(i), stage[i] # "dialed", expired = 0
      PROVE  /\ running = {}
             /\ \A j \in Run : /\ ~ InUse(j) /\ ~ Reading(j)
                               /\ Connecting(j) => j = i
  <2>1. Single /\ ~ Reading(i)
    BY <1>7 DEF LineInv, NothingYet, Reading
  <2>2. \A j \in Run : ~ Reading(j) /\ (Connecting(j) => j = i)
    BY <1>7, <2>1 DEF Single, OneAtWork
  <2>3. \A j \in Run : ~ InUse(j)
    BY <1>7, <2>1, <2>2 DEF Single, OneSocket, Connecting
  <2>4. running = {}
    BY <2>1, <2>2 DEF Single, OneTicker, Reading, TypeOK, WiresOK
  <2> QED BY <2>2, <2>3, <2>4
<1>8. CASE Migrate(i)
  <2> DEFINE st == [stage EXCEPT ![i] = "over"]
  <2>1. st \in [Run -> Stage] /\ Begin(st) /\ Connecting(i)
        /\ stage[i] # "dialed"
    BY <1>8 DEF Migrate, TypeOK, RunsOK, Stage, Connecting
  <2>2. \A j \in Run : st[j] = IF j = i THEN "over" ELSE stage[j]
    BY DEF TypeOK, RunsOK
  <2>3. expired > 0 \/ expired = 0
    BY DEF TypeOK, CountersOK
  <2>4. ASSUME expired = 0
        PROVE  \A j \in Run : /\ reader[j] \in {"none", "done"}
                              /\ st[j] \in {"free", "spawned", "over"}
    <3>1. \A j \in Run : ~ Reading(j) /\ (Connecting(j) => j = i)
      BY <1>7, <2>1, <2>4
    <3> HIDE DEF st
    <3> QED
      BY <2>2, <3>1
      DEF Connecting, Reading, TypeOK, RunsOK, LoopsOK, Stage, Reader
  <2> HIDE DEF st
  <2>5. /\ UNCHANGED <<expired, socket, running, ticker, conn, reader, pump>>
        /\ stage[i] = "start"
    BY <1>8
    DEF Migrate, client, wires, tickers, readers, pumps, history
  <2>6. \A j \in Run : Reconnecting(j)' <=> Reconnecting(j)
    BY <2>5 DEF Reconnecting
  <2> QED
    BY <1>7, <2>1, <2>2, <2>3, <2>4, <2>5, <2>6, BeginLine
<1>9. CASE Dial(i)
  <2>1. Connecting(i) /\ stage[i] = "start"
    BY <1>9 DEF Dial, Connecting
  <2>2. Fresh' /\ NothingYet'
    BY <1>9, <2>1
    DEF Dial, LineInv, Fresh, NothingYet, Connecting, readers, pumps, TypeOK,
        RunsOK
  <2>3. OnlyAfterExpiry'
    BY <1>9 DEF Dial, LineInv, OnlyAfterExpiry, Reconnecting, pumps, history
  <2>4. ASSUME expired' = 0 PROVE Single'
    <3>1. /\ running' = {} /\ running = {}
          /\ \A j \in Run : /\ ~ Reading(j)' /\ (Connecting(j)' => j = i)
                            /\ InUse(j)' => j = i
      BY <1>7, <1>9, <2>1, <2>4
      DEF Dial, Connecting, Reading, InUse, TypeOK, RunsOK, WiresOK, tickers,
          readers, history
    <3>2. conn' = i /\ stage'[i] = "dialed"
      BY <1>9 DEF Dial, TypeOK, RunsOK
    <3> QED
      BY <3>1, <3>2
      DEF Single, OneAtWork, OneSocket, OneTicker, HandOver, Reading
  <2> QED BY <2>2, <2>3, <2>4 DEF LineInv
<1>10. CASE Spawn(i)
  <2>1. Connecting(i) /\ stage[i] = "dialed"
    BY <1>10 DEF Spawn, Connecting
  <2>2. Fresh' /\ NothingYet'
    BY <1>10, <2>1
    DEF Spawn, LineInv, Fresh, NothingYet, Connecting, TypeOK, RunsOK, LoopsOK
  <2>3. OnlyAfterExpiry'
    BY <1>10
    DEF Spawn, LineInv, OnlyAfterExpiry, Reconnecting, TypeOK, LoopsOK,
        history
  <2>4. ASSUME expired' = 0 PROVE Single'
    <3>1. expired = 0 /\ Single /\ running = {}
      BY <1>10, <2>1, <2>4
      DEF Spawn, LineInv, Single, OneAtWork, OneTicker, NothingYet, Reading,
          TypeOK, WiresOK, history
    <3> QED
      BY <1>10, <2>1, <3>1
      DEF Spawn, Single, OneAtWork, OneSocket, OneTicker, HandOver,
          Connecting, Reading, InUse, TypeOK, RunsOK, LoopsOK, wires
  <2> QED BY <2>2, <2>3, <2>4 DEF LineInv
<1>11. CASE Register(i)
  BY <1>11, Quiet
  DEF Register, TypeOK, RunsOK, WiresOK, LoopsOK, Connecting, Reconnecting,
      InUse, client, wires, tickers, readers, pumps, history
<1> QED
  BY <1>1, <1>2, <1>3, <1>4, <1>5, <1>6, <1>8, <1>9, <1>10, <1>11 DEF RunStep

\* A reader clears its ticker and its socket away before it hands over.
LEMMA ReaderLine ==
  ASSUME TypeOK, LineInv, NEW i \in Run, ReaderStep(i) \/ Message(i)
  PROVE  LineInv'
<1>1. CASE Read(i)
  BY <1>1, Quiet
  DEF Read, TypeOK, RunsOK, WiresOK, LoopsOK, Connecting, Reconnecting, InUse,
      client, wires, tickers, readers, pumps, history
<1>2. CASE Message(i)
  BY <1>2, Quiet
  DEF Message, TypeOK, RunsOK, WiresOK, LoopsOK, Connecting, Reconnecting,
      InUse, client, wires, tickers, readers, pumps, history
<1>3. CASE Pong(i)
  BY <1>3, Quiet
  DEF Pong, TypeOK, RunsOK, WiresOK, LoopsOK, Connecting, Reconnecting, InUse,
      client, wires, tickers, readers, pumps, history
<1>4. CASE ReadFails(i)
  BY <1>4, Quiet
  DEF ReadFails, TypeOK, RunsOK, WiresOK, LoopsOK, Connecting, Reconnecting,
      InUse, client, wires, tickers, readers, pumps, history
<1>5. CASE ReaderStopsTicker(i)
  <2>1. Fresh' /\ NothingYet' /\ OnlyAfterExpiry'
    BY <1>5
    DEF ReaderStopsTicker, LineInv, Fresh, NothingYet, OnlyAfterExpiry,
        Connecting, Reconnecting, TypeOK, LoopsOK, pumps, history
  <2>2. ASSUME expired' = 0 PROVE Single'
    <3>1. expired = 0 /\ Single /\ running' = {}
      BY <1>5, <2>2 DEF ReaderStopsTicker, LineInv, Single, OneTicker, history
    <3> QED
      BY <1>5, <3>1
      DEF ReaderStopsTicker, Single, OneAtWork, OneSocket, OneTicker,
          HandOver, Connecting, Reading, InUse, TypeOK, LoopsOK, client, wires
  <2> QED BY <2>1, <2>2 DEF LineInv
<1>6. CASE ReaderStops(i)
  <2>1. Fresh' /\ NothingYet' /\ OnlyAfterExpiry'
    BY <1>6
    DEF ReaderStops, LineInv, Fresh, NothingYet, OnlyAfterExpiry, Connecting,
        Reconnecting, TypeOK, LoopsOK, pumps, history
  <2>2. ASSUME expired' = 0 PROVE Single'
    <3>1. expired = 0 /\ Single /\ running' = running /\ running = {}
      BY <1>6, <2>2
      DEF ReaderStops, LineInv, Single, HandOver, tickers, history
    <3>2. conn \in Run
      BY <1>6 DEF ReaderStops, TypeOK, FieldsOK, PointersOK
    <3>3. \A j \in Run : ~ InUse(j)'
      BY <1>6, <3>1, <3>2, RunFacts
      DEF ReaderStops, Stop, Close, Single, OneSocket, InUse, TypeOK, WiresOK
    <3> QED
      BY <1>6, <3>1, <3>3
      DEF ReaderStops, Single, OneAtWork, OneSocket, OneTicker, HandOver,
          Connecting, Reading, TypeOK, LoopsOK
  <2> QED BY <2>1, <2>2 DEF LineInv
<1>7. CASE ReaderRestarts(i)
  <2>1. stage \in [Run -> Stage] /\ Begin(stage) /\ Reading(i)
    BY <1>7 DEF ReaderRestarts, TypeOK, RunsOK, Reading
  <2>2. expired > 0 \/ expired = 0
    BY DEF TypeOK, CountersOK
  <2>3. \A j \in Run : reader'[j] = IF j = i THEN "done" ELSE reader[j]
    BY <1>7 DEF ReaderRestarts, TypeOK, LoopsOK
  <2>4. ASSUME expired = 0
        PROVE  /\ running = {}
               /\ \A j \in Run : /\ ~ InUse(j)
                                 /\ reader'[j] \in {"none", "done"}
                                 /\ stage[j] \in {"free", "spawned", "over"}
    <3>1. Single /\ ~ Connecting(i)
      BY <1>7, <2>4 DEF ReaderRestarts, LineInv, NothingYet
    <3>2. \A j \in Run : ~ Connecting(j) /\ (j # i => ~ Reading(j))
      BY <2>1, <3>1 DEF Single, OneAtWork
    <3> QED
      BY <1>7, <2>3, <3>1, <3>2
      DEF ReaderRestarts, Single, HandOver, Connecting, Reading, TypeOK,
          RunsOK, LoopsOK, Stage, Reader
  <2> QED
    BY <1>7, <2>1, <2>2, <2>3, <2>4, BeginLine
    DEF ReaderRestarts, Reconnecting, client, wires, tickers, pumps, history
<1> QED
  BY <1>1, <1>2, <1>3, <1>4, <1>5, <1>6, <1>7 DEF ReaderStep

\* A pump reconnects only after its heartbeat has expired.
LEMMA PumpLine ==
  ASSUME TypeOK, LineInv, NEW i \in Run, PumpStep(i)
  PROVE  LineInv'
<1>1. CASE PumpBoots(i)
  BY <1>1, Quiet
  DEF PumpBoots, TypeOK, RunsOK, WiresOK, LoopsOK, Connecting, Reconnecting,
      InUse, client, wires, tickers, readers, pumps, history
<1>2. CASE Tick(i)
  BY <1>2, Quiet
  DEF Tick, TypeOK, RunsOK, WiresOK, LoopsOK, Connecting, Reconnecting, InUse,
      client, wires, tickers, readers, pumps, history
<1>8. CASE Check(i)
  BY <1>8, Quiet
  DEF Check, TypeOK, RunsOK, WiresOK, LoopsOK, Connecting, Reconnecting, InUse,
      client, wires, tickers, readers, pumps, history
<1>3. CASE Ping(i)
  BY <1>3, Quiet
  DEF Ping, TypeOK, RunsOK, WiresOK, LoopsOK, Connecting, Reconnecting, InUse,
      client, wires, tickers, readers, pumps, history
<1>4. CASE PumpStopsTicker(i)
  BY <1>4, Quiet
  DEF PumpStopsTicker, TypeOK, RunsOK, WiresOK, LoopsOK, Connecting,
      Reconnecting, InUse, client, wires, tickers, readers, pumps, history
<1>5. CASE PumpStops(i)
  BY <1>5, Quiet
  DEF PumpStops, Stop, Close, TypeOK, RunsOK, WiresOK, LoopsOK, Connecting,
      Reconnecting, InUse, client, wires, tickers, readers, pumps, history
<1>6. CASE Expire(i)
  BY <1>6
  DEF Expire, LineInv, Fresh, NothingYet, OnlyAfterExpiry, Connecting, TypeOK,
      CountersOK, LoopsOK, readers
<1>7. CASE PumpRestarts(i)
  <2>1. stage \in [Run -> Stage] /\ Begin(stage) /\ expired > 0
    BY <1>7
    DEF PumpRestarts, TypeOK, RunsOK, LineInv, OnlyAfterExpiry, Reconnecting
  <2> QED
    BY <1>7, <2>1, BeginLine
    DEF PumpRestarts, Reconnecting, TypeOK, LoopsOK, client, wires, tickers,
        readers, history
<1> QED
  BY <1>1, <1>2, <1>3, <1>4, <1>5, <1>6, <1>7, <1>8 DEF PumpStep

\* Nothing outside the goroutines brings a line, socket or ticker into play.
LEMMA EnvironmentLine ==
  ASSUME TypeOK, LineInv, NEW i \in Run,
         ServerCloses(i) \/ Stall(i) \/ Fire(i) \/ RemoveStops \/ Remove
  PROVE  LineInv'
<1>1. CASE ServerCloses(i)
  BY <1>1, Quiet
  DEF ServerCloses, Close, TypeOK, RunsOK, WiresOK, LoopsOK, Connecting,
      Reconnecting, InUse, client, wires, tickers, readers, pumps, history
<1>2. CASE Stall(i)
  BY <1>2, Quiet
  DEF Stall, TypeOK, RunsOK, WiresOK, LoopsOK, Connecting, Reconnecting,
      InUse, client, wires, tickers, readers, pumps, history
<1>3. CASE Fire(i)
  BY <1>3, Quiet
  DEF Fire, TypeOK, RunsOK, WiresOK, LoopsOK, Connecting, Reconnecting, InUse,
      client, wires, tickers, readers, pumps, history
<1>4. CASE RemoveStops
  BY <1>4, Quiet
  DEF RemoveStops, Stop, Close, TypeOK, RunsOK, WiresOK, LoopsOK, Connecting,
      Reconnecting, InUse, client, wires, tickers, readers, pumps, history
<1>5. CASE Remove
  BY <1>5, Quiet
  DEF Remove, TypeOK, RunsOK, WiresOK, LoopsOK, Connecting, Reconnecting,
      InUse, client, wires, tickers, readers, pumps, history
<1> QED BY <1>1, <1>2, <1>3, <1>4, <1>5

\* Every step preserves the invariant.
LEMMA LineNext == TypeOK /\ LineInv /\ [Next]_vars => LineInv'
<1> SUFFICES ASSUME TypeOK, LineInv, [Next]_vars PROVE LineInv'
  OBVIOUS
<1>1. CASE UNCHANGED vars
  BY <1>1, Quiet
  DEF vars, Connecting, Reconnecting, InUse, client, wires, tickers, readers,
      pumps, history
<1> QED
  BY <1>1, RunFacts, RunLine, ReaderLine, PumpLine, EnvironmentLine DEF Next

\* Reconnecting after closed connections, failed logins and migrations never
\* leaves a second reader, socket or ticker behind (slack/client.go 551-568):
\* only an expired heartbeat can.
THEOREM OneLineAtATime == Spec => []OneLine
<1>1. Spec => [](TypeOK /\ LineInv)
  BY TypeInit, TypeNext, LineInit, LineNext, PTL DEF Spec
<1> QED BY <1>1, LineInvImplies, PTL

-----------------------------------------------------------------------------
(* The heartbeat counter.  Every pump that has counted its tick may hold   *)
(* it one above the limit, until it has looked and found less or has reset *)
(* it.                                                                     *)

\* The checking pumps can be counted, before a step and after it.
LEMMA CheckingFinite == IsFiniteSet(Checking) /\ Cardinality(Checking) \in Nat
<1>1. IsFiniteSet(Run)
  BY FS_Interval, BoundAssumption DEF Run
<1>2. IsFiniteSet(Checking)
  BY <1>1, FS_Subset DEF Checking
<1> QED BY <1>2, FS_CardinalityType

LEMMA CheckingFinitePrime ==
  IsFiniteSet(Checking') /\ Cardinality(Checking') \in Nat
<1>1. IsFiniteSet(Run)
  BY FS_Interval, BoundAssumption DEF Run
<1>2. IsFiniteSet(Checking')
  BY <1>1, FS_Subset DEF Checking
<1> QED BY <1>2, FS_CardinalityType

\* Most steps reset the counter or leave it and the checking pumps alone.
LEMMA MissedOther ==
  ASSUME TypeOK, LineInv, [Next]_vars,
         \A i \in Run : ~ Tick(i) /\ ~ Check(i)
  PROVE  missed' = 0 \/ (missed' = missed /\ Checking' = Checking)
<1>1. CASE UNCHANGED vars
  BY <1>1 DEF vars, client, pumps, Checking
<1>2. ASSUME NEW i \in Run, RunStep(i)
      PROVE  missed' = missed /\ Checking' = Checking
  <2>1. CASE Spawn(i)
    <3>1. pump[i] = "none"
      BY <2>1 DEF Spawn, LineInv, NothingYet, Connecting
    <3> QED BY <2>1, <3>1 DEF Spawn, Checking, TypeOK, LoopsOK
  <2>2. CASE ~ Spawn(i)
    BY <1>2, <2>2
    DEF RunStep, LoginAnswered, LoginFails, RateLimited, RetryAfter, Dial,
        DialFails, Refused, Migrate, Register, Checking, client, pumps
  <2> QED BY <2>1, <2>2
<1>3. ASSUME NEW i \in Run, ReaderStep(i) \/ Message(i)
      PROVE  missed' = 0 \/ (missed' = missed /\ Checking' = Checking)
  BY <1>3
  DEF ReaderStep, Message, Read, Pong, ReadFails, ReaderStopsTicker,
      ReaderStops, ReaderRestarts, Checking, client, pumps
<1>4. ASSUME NEW i \in Run, PumpStep(i)
      PROVE  missed' = 0 \/ (missed' = missed /\ Checking' = Checking)
  <2>1. CASE Expire(i)
    BY <2>1 DEF Expire
  <2>2. CASE PumpBoots(i) \/ Ping(i) \/ PumpStopsTicker(i) \/ PumpStops(i)
               \/ PumpRestarts(i)
    BY <2>2
    DEF PumpBoots, Ping, PumpStopsTicker, PumpStops, PumpRestarts, Checking, client,
        TypeOK, LoopsOK
  <2> QED BY <1>4, <2>1, <2>2 DEF PumpStep
<1>5. ASSUME NEW i \in Run, ServerCloses(i) \/ Stall(i) \/ Fire(i)
      PROVE  missed' = missed /\ Checking' = Checking
  BY <1>5 DEF ServerCloses, Stall, Fire, Checking, client, pumps
<1>6. CASE RemoveStops \/ Remove
  BY <1>6 DEF RemoveStops, Remove, Checking, client, pumps
<1> QED BY <1>1, <1>2, <1>3, <1>4, <1>5, <1>6 DEF Next

\* Every step preserves the bound.
LEMMA MissedNext ==
  TypeOK /\ LineInv /\ MissedBounded /\ [Next]_vars => MissedBounded'
<1> SUFFICES ASSUME TypeOK, LineInv, MissedBounded, [Next]_vars
             PROVE  MissedBounded'
  OBVIOUS
<1> USE CheckingFinite, CheckingFinitePrime
<1>1. missed \in Nat /\ missed <= 2 + Cardinality(Checking)
  BY DEF TypeOK, FieldsOK, MissedBounded
<1>2. ASSUME NEW i \in Run, Tick(i) PROVE MissedBounded'
  <2>1. i \notin Checking /\ Checking' = Checking \cup {i}
    BY <1>2 DEF Tick, Checking, TypeOK, LoopsOK
  <2>2. Cardinality(Checking') = Cardinality(Checking) + 1
    BY <2>1, FS_AddElement
  <2>3. missed' = missed + 1
    BY <1>2 DEF Tick
  <2> QED BY <1>1, <2>2, <2>3 DEF MissedBounded
<1>3. ASSUME NEW i \in Run, Check(i) PROVE MissedBounded'
  <2>1. missed' = missed
    BY <1>3 DEF Check, client
  <2>2. CASE missed >= 3
    <3>1. Checking' = Checking
      BY <1>3, <2>2 DEF Check, Checking, TypeOK, LoopsOK
    <3> QED BY <1>1, <2>1, <3>1 DEF MissedBounded
  <2>3. CASE missed < 3
    BY <1>1, <2>1, <2>3 DEF MissedBounded
  <2> QED BY <1>1, <2>2, <2>3
<1>4. CASE missed' = 0
  BY <1>4 DEF MissedBounded
<1>5. CASE missed' = missed /\ Checking' = Checking
  BY <1>1, <1>5 DEF MissedBounded
<1> QED BY <1>2, <1>3, <1>4, <1>5, MissedOther

\* Unsynchronised checks let the counter run past the limit only by one for
\* every pump that is between its increment and its check, or between its check
\* and its reset (slack/client.go 256-258), however many of them expire at once.
THEOREM HeartBeatsBounded == Spec => []MissedBounded
<1>1. Init => MissedBounded
  BY CheckingFinite DEF Init, MissedBounded
<1>2. Spec => [](TypeOK /\ LineInv /\ MissedBounded)
  BY <1>1, TypeInit, TypeNext, LineInit, LineNext, MissedNext, PTL DEF Spec
<1> QED BY <1>2, PTL

-----------------------------------------------------------------------------
(* Lines.  A step moves a line from one set to another, ends one when a    *)
(* run gives up, or adds one when a heartbeat expires.                     *)

ConnectingRuns   == {i \in Run : Connecting(i)}
ReadingRuns      == {i \in Run : Reading(i)}
ReconnectingRuns == {i \in Run : Reconnecting(i)}

\* A set of runs can be counted, with one more and with one less.
LEMMA Counting ==
  ASSUME NEW S \in SUBSET Run
  PROVE  /\ Cardinality(S) \in Nat
         /\ \A x : x \notin S => Cardinality(S \cup {x}) = Cardinality(S) + 1
         /\ \A x \in S : Cardinality(S \ {x}) = Cardinality(S) - 1
<1>1. IsFiniteSet(Run)
  BY FS_Interval, BoundAssumption DEF Run
<1>2. IsFiniteSet(S)
  BY <1>1, FS_Subset
<1> QED BY <1>2, FS_CardinalityType, FS_AddElement, FS_RemoveElement

\* The three sets, before a step and after it.
LEMMA LineSets ==
  /\ ConnectingRuns \in SUBSET Run /\ ReadingRuns \in SUBSET Run
  /\ ReconnectingRuns \in SUBSET Run
  /\ ConnectingRuns' \in SUBSET Run /\ ReadingRuns' \in SUBSET Run
  /\ ReconnectingRuns' \in SUBSET Run
BY DEF ConnectingRuns, ReadingRuns, ReconnectingRuns

\* Lines that stay where they are.
LinesStay ==
  /\ ConnectingRuns' = ConnectingRuns /\ ReadingRuns' = ReadingRuns
  /\ ReconnectingRuns' = ReconnectingRuns /\ UNCHANGED history

\* A run gives up.
LineEnds(i) ==
  /\ i \in ConnectingRuns /\ ConnectingRuns' = ConnectingRuns \ {i}
  /\ ReadingRuns' = ReadingRuns /\ ReconnectingRuns' = ReconnectingRuns
  /\ gaveUp' = gaveUp + 1 /\ expired' = expired

\* A pump begins to reconnect, and its reader goes on.
LineAdded(i) ==
  /\ ConnectingRuns' = ConnectingRuns /\ ReadingRuns' = ReadingRuns
  /\ i \notin ReconnectingRuns /\ ReconnectingRuns' = ReconnectingRuns \cup {i}
  /\ gaveUp' = gaveUp /\ expired' = expired + 1

\* A run is connected: its reader carries on.
LineReads(i) ==
  /\ i \in ConnectingRuns /\ ConnectingRuns' = ConnectingRuns \ {i}
  /\ i \notin ReadingRuns /\ ReadingRuns' = ReadingRuns \cup {i}
  /\ ReconnectingRuns' = ReconnectingRuns /\ UNCHANGED history

\* A run, a reader or a pump hands over to a new run.
LineRestarts(i, j) ==
  /\ j \notin ConnectingRuns
  /\ \/ /\ i \in ConnectingRuns /\ i # j
        /\ ConnectingRuns' = (ConnectingRuns \ {i}) \cup {j}
        /\ ReadingRuns' = ReadingRuns /\ ReconnectingRuns' = ReconnectingRuns
     \/ /\ ConnectingRuns' = ConnectingRuns \cup {j}
        /\ i \in ReadingRuns /\ ReadingRuns' = ReadingRuns \ {i}
        /\ ReconnectingRuns' = ReconnectingRuns
     \/ /\ ConnectingRuns' = ConnectingRuns \cup {j}
        /\ i \in ReconnectingRuns /\ ReconnectingRuns' = ReconnectingRuns \ {i}
        /\ ReadingRuns' = ReadingRuns
  /\ UNCHANGED history

\* None of these changes the balance.
LEMMA Balance ==
  ASSUME LinesConserved, gaveUp \in Nat, expired \in Nat,
         \/ LinesStay
         \/ \E i \in Run : LineEnds(i) \/ LineAdded(i) \/ LineReads(i)
         \/ \E i, j \in Run : LineRestarts(i, j)
  PROVE  LinesConserved'
<1> DEFINE c == Cardinality(ConnectingRuns)
           r == Cardinality(ReadingRuns)
           x == Cardinality(ReconnectingRuns)
<1>0. /\ c \in Nat /\ r \in Nat /\ x \in Nat /\ (c + r + x) + gaveUp = 1 + expired
  BY LineSets, Counting
     DEF LinesConserved, Lines, ConnectingRuns, ReadingRuns, ReconnectingRuns
<1> SUFFICES (c' + r' + x') + gaveUp' = 1 + expired'
  BY DEF LinesConserved, Lines, ConnectingRuns, ReadingRuns, ReconnectingRuns
<1>1. CASE LinesStay
  BY <1>0, <1>1 DEF LinesStay, history
<1>2. ASSUME NEW i \in Run, LineEnds(i)
      PROVE  (c' + r' + x') + gaveUp' = 1 + expired'
  <2>1. c' = c - 1 /\ r' = r /\ x' = x
    BY <1>2, LineSets, Counting DEF LineEnds
  <2> HIDE DEF c, r, x
  <2> QED BY <1>0, <1>2, <2>1 DEF LineEnds
<1>3. ASSUME NEW i \in Run, LineAdded(i)
      PROVE  (c' + r' + x') + gaveUp' = 1 + expired'
  <2>1. c' = c /\ r' = r /\ x' = x + 1
    BY <1>3, LineSets, Counting DEF LineAdded
  <2> HIDE DEF c, r, x
  <2> QED BY <1>0, <1>3, <2>1 DEF LineAdded
<1>4. ASSUME NEW i \in Run, LineReads(i)
      PROVE  (c' + r' + x') + gaveUp' = 1 + expired'
  <2>1. c' = c - 1 /\ r' = r + 1 /\ x' = x
    BY <1>4, LineSets, Counting DEF LineReads
  <2> HIDE DEF c, r, x
  <2> QED BY <1>0, <1>4, <2>1 DEF LineReads, history
<1>5. ASSUME NEW i \in Run, NEW j \in Run, LineRestarts(i, j)
      PROVE  (c' + r' + x') + gaveUp' = 1 + expired'
  <2>1. c' + r' + x' = c + r + x
    <3>1. CASE /\ i \in ConnectingRuns /\ i # j
               /\ ConnectingRuns' = (ConnectingRuns \ {i}) \cup {j}
               /\ ReadingRuns' = ReadingRuns
               /\ ReconnectingRuns' = ReconnectingRuns
      <4>1. Cardinality(ConnectingRuns \ {i}) = c - 1
        BY <3>1, LineSets, Counting
      <4>2. /\ ConnectingRuns \ {i} \in SUBSET Run
            /\ j \notin ConnectingRuns \ {i}
        BY <1>5, LineSets DEF LineRestarts
      <4>3. c' = (c - 1) + 1
        BY <3>1, <4>1, <4>2, Counting
      <4>4. r' = r /\ x' = x
        BY <3>1
      <4> HIDE DEF c, r, x
      <4> QED BY <1>0, <4>3, <4>4
    <3>2. CASE /\ ConnectingRuns' = ConnectingRuns \cup {j}
               /\ i \in ReadingRuns /\ ReadingRuns' = ReadingRuns \ {i}
               /\ ReconnectingRuns' = ReconnectingRuns
      <4>1. c' = c + 1 /\ r' = r - 1 /\ x' = x
        BY <1>5, <3>2, LineSets, Counting DEF LineRestarts
      <4> HIDE DEF c, r, x
      <4> QED BY <1>0, <4>1
    <3>3. CASE /\ ConnectingRuns' = ConnectingRuns \cup {j}
               /\ i \in ReconnectingRuns
               /\ ReconnectingRuns' = ReconnectingRuns \ {i}
               /\ ReadingRuns' = ReadingRuns
      <4>1. c' = c + 1 /\ r' = r /\ x' = x - 1
        BY <1>5, <3>3, LineSets, Counting DEF LineRestarts
      <4> HIDE DEF c, r, x
      <4> QED BY <1>0, <4>1
    <3> QED BY <1>5, <3>1, <3>2, <3>3 DEF LineRestarts
  <2> HIDE DEF c, r, x
  <2> QED BY <1>0, <1>5, <2>1 DEF LineRestarts, history
<1> QED BY <1>1, <1>2, <1>3, <1>4, <1>5

\* LoginAndStart: a run ends, is connected or hands over.
LEMMA RunLines ==
  ASSUME TypeOK, LineInv, NEW i \in Run, RunStep(i)
  PROVE  \/ LinesStay \/ LineEnds(i) \/ LineReads(i)
         \/ \E j \in Run : LineRestarts(i, j)
<1>0. stage \in [Run -> Stage] /\ reader \in [Run -> Reader] /\ pump \in [Run -> Pump]
  BY DEF TypeOK, RunsOK, LoopsOK
<1>1. CASE \E a \in Answer : LoginAnswered(i, a)
  BY <1>0, <1>1
  DEF LoginAnswered, LinesStay, ConnectingRuns, ReadingRuns, ReconnectingRuns,
      Connecting, Reading, Reconnecting, readers, pumps, history
<1>2. CASE LoginFails(i)
  BY <1>0, <1>2
  DEF LoginFails, Backoff, LinesStay, LineEnds, ConnectingRuns, ReadingRuns,
      ReconnectingRuns, Connecting, Reading, Reconnecting, readers, pumps, history
<1>3. CASE RateLimited(i)
  BY <1>0, <1>3
  DEF RateLimited, LinesStay, ConnectingRuns, ReadingRuns, ReconnectingRuns,
      Connecting, Reading, Reconnecting, readers, pumps, history
<1>4. CASE RetryAfter(i)
  BY <1>0, <1>4
  DEF RetryAfter, Backoff, LinesStay, LineEnds, ConnectingRuns, ReadingRuns,
      ReconnectingRuns, Connecting, Reading, Reconnecting, readers, pumps, history
<1>5. CASE Dial(i)
  BY <1>0, <1>5
  DEF Dial, LinesStay, ConnectingRuns, ReadingRuns, ReconnectingRuns,
      Connecting, Reading, Reconnecting, readers, pumps, history
<1>6. CASE DialFails(i) \/ Refused(i)
  BY <1>0, <1>6
  DEF DialFails, Refused, LineEnds, ConnectingRuns, ReadingRuns,
      ReconnectingRuns, Connecting, Reading, Reconnecting, readers, pumps, history
<1>7. CASE Migrate(i)
  <2>1. used + 1 \in Run /\ stage[used + 1] = "free" /\ stage[i] = "start"
    <3>1. used \in Nat /\ used + 1 \in Run /\ stage[i] = "start"
      BY <1>7, RunFacts DEF Migrate, Begin, TypeOK, RunsOK
    <3>2. used + 1 > used
      BY <3>1
    <3> QED BY <3>1, <3>2 DEF LineInv, Fresh
  <2>2. stage' = [stage EXCEPT ![i] = "over", ![used + 1] = "login"]
    BY <1>0, <1>7, <2>1 DEF Migrate, Begin
  <2>3. UNCHANGED <<readers, pumps, history>>
    BY <1>7 DEF Migrate
  <2>4. LineRestarts(i, used + 1)
    BY <1>0, <2>1, <2>2, <2>3
    DEF LineRestarts, ConnectingRuns, ReadingRuns, ReconnectingRuns, Connecting,
        Reading, Reconnecting, readers, pumps
  <2> QED BY <2>1, <2>4
<1>8. CASE Spawn(i)
  <2>1. reader[i] = "none" /\ pump[i] = "none" /\ stage[i] = "dialed"
    BY <1>8 DEF Spawn, LineInv, NothingYet, Connecting
  <2> QED BY <1>0, <1>8, <2>1
      DEF Spawn, LineReads, ConnectingRuns, ReadingRuns, ReconnectingRuns,
          Connecting, Reading, Reconnecting
<1>9. CASE Register(i)
  BY <1>0, <1>9
  DEF Register, LinesStay, ConnectingRuns, ReadingRuns, ReconnectingRuns,
      Connecting, Reading, Reconnecting, readers, pumps, history
<1> QED BY <1>1, <1>2, <1>3, <1>4, <1>5, <1>6, <1>7, <1>8, <1>9 DEF RunStep

\* go c.LoginAndStart() begins a run that was not connecting.
LEMMA BeginConnects ==
  ASSUME TypeOK, LineInv, Begin(stage)
  PROVE  /\ used + 1 \in Run /\ used + 1 \notin ConnectingRuns
         /\ ConnectingRuns' = ConnectingRuns \cup {used + 1}
<1>1. used \in Nat /\ used + 1 \in Run /\ stage \in [Run -> Stage]
  BY RunFacts DEF Begin, TypeOK, RunsOK
<1>2. stage[used + 1] = "free"
  <2>1. used + 1 > used
    BY <1>1
  <2> QED BY <1>1, <2>1 DEF LineInv, Fresh
<1> QED BY <1>1, <1>2 DEF Begin, ConnectingRuns, Connecting

\* A reader reads on, or hands over to a new run.
LEMMA ReaderLines ==
  ASSUME TypeOK, LineInv, NEW i \in Run, ReaderStep(i) \/ Message(i)
  PROVE  LinesStay \/ \E j \in Run : LineRestarts(i, j)
<1>0. reader \in [Run -> Reader]
  BY DEF TypeOK, LoopsOK
<1>1. CASE Read(i) \/ Pong(i) \/ ReadFails(i) \/ Message(i)
  BY <1>0, <1>1
  DEF Read, Pong, ReadFails, Message, LinesStay, ConnectingRuns, ReadingRuns,
      ReconnectingRuns, Connecting, Reading, Reconnecting, pumps, history
<1>2. CASE ReaderStopsTicker(i) \/ ReaderStops(i)
  BY <1>0, <1>2
  DEF ReaderStopsTicker, ReaderStops, LinesStay, ConnectingRuns, ReadingRuns,
      ReconnectingRuns, Connecting, Reading, Reconnecting, pumps, history
<1>3. CASE ReaderRestarts(i)
  <2>1. /\ used + 1 \in Run /\ used + 1 \notin ConnectingRuns
        /\ ConnectingRuns' = ConnectingRuns \cup {used + 1}
    BY <1>3, BeginConnects DEF ReaderRestarts
  <2>2. i \in ReadingRuns /\ ReadingRuns' = ReadingRuns \ {i}
    BY <1>0, <1>3 DEF ReaderRestarts, ReadingRuns, Reading
  <2>3. ReconnectingRuns' = ReconnectingRuns /\ UNCHANGED history
    BY <1>3 DEF ReaderRestarts, ReconnectingRuns, Reconnecting, pumps
  <2> QED BY <2>1, <2>2, <2>3 DEF LineRestarts
<1> QED BY <1>1, <1>2, <1>3 DEF ReaderStep

\* A pump adds a line when its heartbeat expires, and hands it over to a run.
LEMMA PumpLines ==
  ASSUME TypeOK, LineInv, NEW i \in Run, PumpStep(i)
  PROVE  LinesStay \/ LineAdded(i) \/ \E j \in Run : LineRestarts(i, j)
<1>0. pump \in [Run -> Pump]
  BY DEF TypeOK, LoopsOK
<1>1. CASE PumpBoots(i) \/ Tick(i) \/ Check(i) \/ Ping(i)
  BY <1>0, <1>1
  DEF PumpBoots, Tick, Check, Ping, LinesStay, ConnectingRuns, ReadingRuns,
      ReconnectingRuns, Connecting, Reading, Reconnecting, readers, history
<1>2. CASE PumpStopsTicker(i) \/ PumpStops(i)
  BY <1>0, <1>2
  DEF PumpStopsTicker, PumpStops, LinesStay, ConnectingRuns, ReadingRuns,
      ReconnectingRuns, Connecting, Reading, Reconnecting, readers, history
<1>3. CASE Expire(i)
  BY <1>0, <1>3
  DEF Expire, LineAdded, ConnectingRuns, ReadingRuns, ReconnectingRuns,
      Connecting, Reading, Reconnecting, readers
<1>4. CASE PumpRestarts(i)
  <2>1. /\ used + 1 \in Run /\ used + 1 \notin ConnectingRuns
        /\ ConnectingRuns' = ConnectingRuns \cup {used + 1}
    BY <1>4, BeginConnects DEF PumpRestarts
  <2>2. i \in ReconnectingRuns /\ ReconnectingRuns' = ReconnectingRuns \ {i}
    BY <1>0, <1>4 DEF PumpRestarts, ReconnectingRuns, Reconnecting
  <2>3. ReadingRuns' = ReadingRuns /\ UNCHANGED history
    BY <1>4 DEF PumpRestarts, ReadingRuns, Reading, readers
  <2> QED BY <2>1, <2>2, <2>3 DEF LineRestarts
<1> QED BY <1>1, <1>2, <1>3, <1>4 DEF PumpStep

\* Every step keeps the balance.
LEMMA LinesNext ==
  TypeOK /\ LineInv /\ LinesConserved /\ [Next]_vars => LinesConserved'
<1> SUFFICES ASSUME TypeOK, LineInv, LinesConserved, [Next]_vars
             PROVE  LinesConserved'
  OBVIOUS
<1>0. gaveUp \in Nat /\ expired \in Nat
  BY DEF TypeOK, CountersOK
<1>1. ASSUME NEW i \in Run,
             RunStep(i) \/ ReaderStep(i) \/ PumpStep(i) \/ Message(i)
      PROVE  LinesConserved'
  BY <1>0, <1>1, RunLines, ReaderLines, PumpLines, Balance
<1>2. ASSUME NEW i \in Run, ServerCloses(i) \/ Stall(i) \/ Fire(i)
      PROVE  LinesStay
  BY <1>2
  DEF ServerCloses, Stall, Fire, LinesStay, ConnectingRuns, ReadingRuns,
      ReconnectingRuns, Connecting, Reading, Reconnecting, readers, pumps
<1>3. CASE RemoveStops \/ Remove \/ UNCHANGED vars
  <2>1. LinesStay
    BY <1>3
    DEF RemoveStops, Remove, vars, LinesStay, ConnectingRuns, ReadingRuns,
        ReconnectingRuns, Connecting, Reading, Reconnecting, readers, pumps
  <2> QED BY <1>0, <2>1, Balance
<1> QED BY <1>0, <1>1, <1>2, <1>3, Balance DEF Next

\* One line before the first login.
LEMMA LinesInit == Init => LinesConserved
<1> SUFFICES ASSUME Init PROVE LinesConserved
  OBVIOUS
<1>1. /\ {i \in Run : Connecting(i)} = {1} /\ {i \in Run : Reading(i)} = {}
      /\ {i \in Run : Reconnecting(i)} = {}
  BY RunFacts DEF Init, Connecting, Reading, Reconnecting
<1>2. Cardinality({1}) = 1 /\ Cardinality({}) = 0
  BY FS_Singleton, FS_EmptySet
<1>3. gaveUp = 0 /\ expired = 0
  BY DEF Init
<1> QED BY <1>1, <1>2, <1>3 DEF LinesConserved, Lines

\* Whatever fails, stalls or is removed, there is one line of goroutines for
\* the client, one more for every heartbeat that expired, one less for every
\* run that gave up: reconnects neither die out nor multiply by themselves.
THEOREM LinesAlwaysConserved == Spec => []LinesConserved
<1>1. Spec => [](TypeOK /\ LineInv /\ LinesConserved)
  BY LinesInit, TypeInit, TypeNext, LineInit, LineNext, LinesNext, PTL DEF Spec
<1> QED BY <1>1, PTL
=============================================================================
