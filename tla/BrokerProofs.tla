---------------------------- MODULE BrokerProofs ----------------------------
(***************************************************************************)
(* Proofs about Broker, for any processes, bots and ids and any number of  *)
(* commands, clients, failures and crashes.                                *)
(***************************************************************************)
EXTENDS Broker, TLAPS

USE IdAssumption, BoundAssumption

-----------------------------------------------------------------------------
(* Type correctness.                                                       *)

USE DEF redis, heard, loops, objects, history, budget

\* An entry of Clients is a client.
LEMMA EntryType ==
  ASSUME ObjectsOK, NEW p \in Process, NEW b \in Bot, clients[p][b] # 0
  PROVE  Entry(p, b) \in Client
BY DEF ObjectsOK, Entry, Client, Nr

\* A client is of a process and a bot.
LEMMA ClientParts ==
  ASSUME NEW c \in Client
  PROVE  c[1] \in Process /\ c[2] \in Bot /\ c[3] \in Nr /\ c = <<c[1], c[2], c[3]>>
BY DEF Client

\* Clients and the counts of clients are functions of processes and bots.
LEMMA NestedType ==
  ASSUME NEW S, NEW f \in [Process -> [Bot -> S]], NEW p \in Process,
         NEW b \in Bot, NEW v \in S
  PROVE  /\ [f EXCEPT ![p][b] = v] \in [Process -> [Bot -> S]]
         /\ [f EXCEPT ![p][b] = v][p][b] = v
         /\ \A q \in Process, d \in Bot :
              <<q, d>> # <<p, b>> => [f EXCEPT ![p][b] = v][q][d] = f[q][d]
<1>1. [f[p] EXCEPT ![b] = v] \in [Bot -> S]
  OBVIOUS
<1> QED BY <1>1

\* A loop takes commands from its inbox.
LEMMA ReceiveType ==
  ASSUME LoopsOK, NEW p \in Process, NEW c \in Command, Receive(p, c)
  PROVE  inbox' \in [Process -> Seq(Command)]
BY DEF LoopsOK, Receive

\* A loop with its work keeps the types of the loops.
LEMMA GoType ==
  ASSUME LoopsOK, NEW p \in Process, NEW l \in Loop \ {"idle"},
         NEW w \in Work \ {NoWork}, Go(p, l, w),
         l \in {"claim", "write"} => w.id \in Field
  PROVE  /\ loop' \in [Process -> Loop] /\ cur' \in [Process -> Work]
         /\ \A q \in Process : cur'[q] = NoWork <=> loop'[q] = "idle"
         /\ \A q \in Process :
              loop'[q] \in {"claim", "write"} => cur'[q].id \in Field
BY DEF LoopsOK, Go

\* So does a loop without.
LEMMA IdleType ==
  ASSUME LoopsOK, NEW p \in Process, Idle(p)
  PROVE  /\ loop' \in [Process -> Loop] /\ cur' \in [Process -> Work]
         /\ \A q \in Process : cur'[q] = NoWork <=> loop'[q] = "idle"
         /\ \A q \in Process :
              loop'[q] \in {"claim", "write"} => cur'[q].id \in Field
BY DEF LoopsOK, Go, Idle, Loop, Work

\* Work on a bot is not NoWork: it has a client.
LEMMA WorkType ==
  ASSUME NEW b \in Bot, NEW n \in Nr, NEW i \in Field \cup {Blank}
  PROVE  [bot |-> b, nr |-> n, id |-> i] \in Work \ {NoWork}
BY DEF Work, NoWork, Nr

\* The initial state is well typed.
LEMMA TypeInit == Init => TypeOK
BY DEF Init, TypeOK, ObjectsOK, LoopsOK, HistoryOK, Dialed, Loop, Sub, Life,
       Work, Client

\* The bots.
LEMMA PublishType ==
  ASSUME TypeOK, NEW b \in Bot,
         \/ AddTeam(b) \/ RemoveTeam(b)
         \/ \E i \in Id \cup {Blank} : Send(b, i)
  PROVE  TypeOK'
<1>1. PICK c \in Command : Publish(c)
  BY DEF AddTeam, RemoveTeam, Send, Command
<1>2. inbox' \in [Process -> Seq(Command)]
  BY <1>1 DEF Publish, TypeOK, LoopsOK
<1>3. bots' \subseteq Bot /\ late' \subseteq Process \X Bot
  <2>1. CASE AddTeam(b)
    <3>1. {<<p, b>> : p \in {q \in Process : sub[q] = "init"}} \subseteq Process \X Bot
      OBVIOUS
    <3> QED BY <2>1, <3>1 DEF AddTeam, TypeOK, LoopsOK, HistoryOK
  <2>2. CASE RemoveTeam(b) \/ \E i \in Id \cup {Blank} : Send(b, i)
    BY <2>2 DEF RemoveTeam, Send, TypeOK, LoopsOK, HistoryOK
  <2> QED BY <2>1, <2>2
<1>4. LoopsOK' /\ HistoryOK'
  BY <1>1, <1>2, <1>3 DEF Publish, TypeOK, LoopsOK, HistoryOK
<1> QED BY <1>1, <1>4 DEF Publish, TypeOK, ObjectsOK, Dialed, Entry

\* InitClients, the subscription and its end.
LEMMA StartType ==
  ASSUME TypeOK, NEW p \in Process, InitClients(p) \/ Subscribe(p) \/ Deafen(p)
  PROVE  TypeOK'
<1>1. CASE InitClients(p)
  <2>1. ObjectsOK'
    BY <1>1 DEF InitClients, TypeOK, ObjectsOK, Life
  <2>2. LoopsOK' /\ HistoryOK'
    <3>1. PICK found \in {bots, {}} :
            /\ IF found = bots THEN UNCHANGED faults ELSE Fault
            /\ sub' = [sub EXCEPT ![p] = "init"]
      BY <1>1 DEF InitClients
    <3>2. faults' \in 0..MaxFaults
      BY <3>1 DEF Fault, TypeOK, HistoryOK
    <3> QED
      BY <1>1, <3>1, <3>2 DEF InitClients, TypeOK, LoopsOK, HistoryOK, Sub
  <2>3. Dialed'
    BY <1>1 DEF InitClients, TypeOK, Dialed, Entry
  <2> QED BY <2>1, <2>2, <2>3 DEF TypeOK
<1>2. CASE Subscribe(p) \/ Deafen(p)
  <2>1. sub' \in [Process -> Sub] /\ inbox' \in [Process -> Seq(Command)]
    <3>1. <<>> \in Seq(Command)
      OBVIOUS
    <3> QED BY <1>2, <3>1 DEF Subscribe, Deafen, TypeOK, LoopsOK, Sub
  <2>2. LoopsOK' /\ HistoryOK'
    BY <1>2, <2>1 DEF Subscribe, Deafen, Fault, TypeOK, LoopsOK, HistoryOK
  <2> QED BY <1>2, <2>2 DEF Subscribe, Deafen, TypeOK, ObjectsOK, Dialed, Entry
<1> QED BY <1>1, <1>2

\* A message command.
LEMMA MessageType ==
  ASSUME TypeOK, NEW p \in Process,
         \/ Drop(p) \/ Message(p) \/ HSetNX(p) \/ HSetNXFails(p)
         \/ WriteMessage(p)
  PROVE  TypeOK'
<1>1. CASE Drop(p)
  <2>1. LoopsOK' /\ HistoryOK'
    BY <1>1, ReceiveType DEF Drop, TypeOK, LoopsOK, HistoryOK
  <2> QED BY <1>1, <2>1 DEF Drop, TypeOK, ObjectsOK, Dialed, Entry
<1>2. CASE Message(p)
  <2>1. PICK c \in Command, f \in Field :
          /\ Receive(p, c) /\ c.type = "message" /\ HasConn(p, c.bot)
          /\ Go(p, "claim", [bot |-> c.bot, nr |-> clients[p][c.bot], id |-> f])
          /\ tried' = tried \cup {f}
          /\ UNCHANGED <<redis, sub, clients, objects, writes, hit, stopped,
                         late, budget>>
    BY <1>2 DEF Message
  <2>2. c.bot \in Bot /\ clients[p][c.bot] \in Nr
    BY <2>1 DEF HasConn, Command, TypeOK, ObjectsOK, Nr
  <2>3. [bot |-> c.bot, nr |-> clients[p][c.bot], id |-> f] \in Work \ {NoWork}
    BY <2>2, WorkType
  <2>4. LoopsOK' /\ HistoryOK'
    BY <2>1, <2>3, GoType, ReceiveType
       DEF TypeOK, LoopsOK, HistoryOK, Loop
  <2>5. Dialed'
    BY <2>1, <2>2 DEF TypeOK, Dialed, Entry, HasConn, Go, LoopsOK
  <2> QED BY <2>1, <2>4, <2>5 DEF TypeOK, ObjectsOK
<1>3. CASE HSetNX(p)
  <2>1. cur[p] \in Work \ {NoWork} /\ cur[p].id \in Field
    BY <1>3 DEF HSetNX, TypeOK, LoopsOK
  <2>2. LoopsOK'
    BY <1>3, <2>1, GoType, IdleType DEF HSetNX, TypeOK, LoopsOK, Loop
  <2>3. Dialed'
    BY <1>3 DEF HSetNX, TypeOK, Dialed, Entry, Go, Idle, LoopsOK
  <2> QED BY <1>3, <2>2, <2>3 DEF HSetNX, TypeOK, ObjectsOK, HistoryOK
<1>4. CASE HSetNXFails(p)
  <2>1. cur[p].id \in Field
    BY <1>4 DEF HSetNXFails, TypeOK, LoopsOK
  <2>2. LoopsOK' /\ HistoryOK'
    BY <1>4, <2>1, IdleType
       DEF HSetNXFails, Fault, TypeOK, LoopsOK, HistoryOK
  <2>3. Dialed'
    BY <1>4 DEF HSetNXFails, TypeOK, Dialed, Entry, Go, Idle, LoopsOK
  <2> QED BY <1>4, <2>2, <2>3 DEF HSetNXFails, TypeOK, ObjectsOK
<1>5. CASE WriteMessage(p)
  <2>1. cur[p].id \in Field
    BY <1>5 DEF WriteMessage, TypeOK, LoopsOK
  <2>2. LoopsOK' /\ HistoryOK'
    <3>2. writes' \in [Field -> Nat]
      BY <1>5, <2>1 DEF WriteMessage, TypeOK, HistoryOK
    <3> QED BY <1>5, <3>2, IdleType DEF WriteMessage, TypeOK, LoopsOK, HistoryOK
  <2>3. Dialed'
    BY <1>5 DEF WriteMessage, TypeOK, Dialed, Entry, Go, Idle, LoopsOK
  <2> QED BY <1>5, <2>2, <2>3 DEF WriteMessage, TypeOK, ObjectsOK
<1> QED BY <1>1, <1>2, <1>3, <1>4, <1>5

\* c.Stop() leaves a client with its connection, shut.
LEMMA StopType ==
  ASSUME TypeOK, NEW p \in Process, NEW b \in Bot, StopEntry(p, b)
  PROVE  /\ conn' \in [Client -> {"nil", "open", "shut"}]
         /\ stopped' \subseteq Client
         /\ \A c \in Client : conn[c] # "nil" => conn'[c] # "nil"
BY EntryType DEF StopEntry, TypeOK, ObjectsOK, HistoryOK

\* The commands about teams.
LEMMA TeamType ==
  ASSUME TypeOK, NEW p \in Process,
         \/ TeamAdded(p) \/ TeamAddedInVain(p) \/ LoginReturns(p)
         \/ Migrate(p) \/ TeamRemoved(p) \/ Remove(p)
  PROVE  TypeOK'
<1>1. CASE TeamAdded(p)
  <2> DEFINE new(c) == [bot |-> c.bot, nr |-> made[p][c.bot] + 1, id |-> Blank]
  <2>1. PICK c \in Command :
          /\ Receive(p, c) /\ c.bot \in bots
          /\ made[p][c.bot] + 1 \in Nr
          /\ StopEntry(p, c.bot)
          /\ made' = [made EXCEPT ![p][c.bot] = made[p][c.bot] + 1]
          /\ life' = [life EXCEPT ![<<p, c.bot, made[p][c.bot] + 1>>] = "login"]
          /\ Go(p, "start", new(c))
          /\ UNCHANGED <<redis, sub, clients, writes, tried, hit, late, budget>>
    BY <1>1 DEF TeamAdded
  <2>2. c.bot \in Bot /\ new(c) \in Work \ {NoWork}
    BY <2>1, WorkType DEF TypeOK, LoopsOK
  <2>3. /\ conn' \in [Client -> {"nil", "open", "shut"}]
        /\ stopped' \subseteq Client
        /\ \A d \in Client : conn[d] # "nil" => conn'[d] # "nil"
    BY <2>1, <2>2, StopType
  <2>4. ObjectsOK'
    <3>1. made' \in [Process -> [Bot -> 0..MaxClients]]
      BY <2>1, <2>2, NestedType DEF TypeOK, ObjectsOK, Nr
    <3> QED BY <2>1, <2>3, <3>1 DEF TypeOK, ObjectsOK, Life
  <2>5. LoopsOK' /\ HistoryOK'
    BY <2>1, <2>2, <2>3, GoType, ReceiveType
       DEF TypeOK, LoopsOK, HistoryOK, Loop
  <2>6. Dialed'
    <3>1. \A d \in Client : life'[d] \in {"dialed", "live"} => conn'[d] # "nil"
      BY <2>1, <2>3 DEF TypeOK, Dialed, ObjectsOK
    <3>2. \A q \in Process, b \in Bot :
            clients'[q][b] # 0 => conn'[Entry(q, b)'] # "nil"
      BY <2>1, <2>3, EntryType DEF TypeOK, Dialed, Entry
    <3>3. \A q \in Process : loop'[q] \in {"claim", "write"}
                              => conn'[<<q, cur'[q].bot, cur'[q].nr>>] # "nil"
      BY <2>1, <2>3 DEF TypeOK, Dialed, LoopsOK, Go, Work, Client, NoWork
    <3> QED BY <3>1, <3>2, <3>3 DEF Dialed
  <2> QED BY <2>4, <2>5, <2>6 DEF TypeOK
<1>2. CASE TeamAddedInVain(p) \/ TeamRemoved(p)
  <2>1. PICK c \in Command :
          /\ Receive(p, c) /\ StopEntry(p, c.bot)
          /\ faults' = faults \/ Fault
          /\ \/ UNCHANGED loops
             \/ /\ clients[p][c.bot] # 0
                /\ Go(p, "remove", [bot |-> c.bot, nr |-> clients[p][c.bot],
                                    id |-> Blank])
          /\ UNCHANGED <<redis, sub, clients, made, life, writes, tried, hit,
                         late, published>>
    BY <1>2 DEF TeamAddedInVain, TeamRemoved
  <2>2. c.bot \in Bot
    BY DEF Command
  <2>3. /\ conn' \in [Client -> {"nil", "open", "shut"}]
        /\ stopped' \subseteq Client
        /\ \A d \in Client : conn[d] # "nil" => conn'[d] # "nil"
    BY <2>1, <2>2, StopType
  <2>4. clients[p][c.bot] # 0
          => [bot |-> c.bot, nr |-> clients[p][c.bot], id |-> Blank]
               \in Work \ {NoWork}
    BY <2>2, WorkType DEF TypeOK, ObjectsOK, Nr
  <2>5. ObjectsOK' /\ HistoryOK'
    BY <2>1, <2>3 DEF TypeOK, ObjectsOK, HistoryOK, Fault
  <2>6. LoopsOK'
    <3>1. CASE UNCHANGED loops
      BY <2>1, <3>1, ReceiveType DEF TypeOK, LoopsOK
    <3>2. CASE ~ UNCHANGED loops
      BY <2>1, <2>4, <3>2, GoType, ReceiveType DEF TypeOK, LoopsOK, Loop
    <3> QED BY <3>1, <3>2
  <2>7. Dialed'
    <3>1. \A d \in Client : life'[d] \in {"dialed", "live"} => conn'[d] # "nil"
      BY <2>1, <2>3 DEF TypeOK, Dialed
    <3>2. \A q \in Process, b \in Bot :
            clients'[q][b] # 0 => conn'[Entry(q, b)'] # "nil"
      BY <2>1, <2>3, EntryType DEF TypeOK, Dialed, Entry
    <3>3. \A q \in Process : loop'[q] \in {"claim", "write"}
                              => conn'[<<q, cur'[q].bot, cur'[q].nr>>] # "nil"
      BY <2>1, <2>3 DEF TypeOK, Dialed, LoopsOK, Go, Work, Client, NoWork
    <3> QED BY <3>1, <3>2, <3>3 DEF Dialed
  <2> QED BY <2>5, <2>6, <2>7 DEF TypeOK
<1>3. CASE LoginReturns(p) \/ Migrate(p)
  <2>1. LoopsOK' /\ HistoryOK'
    BY <1>3, IdleType
       DEF LoginReturns, Migrate, Fault, TypeOK, LoopsOK, HistoryOK
  <2>2. Dialed'
    <3>1. Idle(p) /\ UNCHANGED <<clients, life, conn>>
      BY <1>3 DEF LoginReturns, Migrate
    <3> QED BY <3>1 DEF TypeOK, Dialed, Entry, Go, Idle, LoopsOK
  <2> QED BY <1>3, <2>1, <2>2 DEF LoginReturns, Migrate, TypeOK, ObjectsOK
<1>4. CASE Remove(p)
  <2>1. LoopsOK' /\ HistoryOK'
    BY <1>4, IdleType DEF Remove, TypeOK, LoopsOK, HistoryOK
  <2>2. cur[p].bot \in Bot
    BY <1>4 DEF Remove, TypeOK, LoopsOK, Work
  <2>3. /\ clients' \in [Process -> [Bot -> 0..MaxClients]]
        /\ \A q \in Process, b \in Bot : clients'[q][b] \in {0, clients[q][b]}
    BY <1>4, <2>2, NestedType DEF Remove, TypeOK, ObjectsOK
  <2>4. ObjectsOK'
    BY <1>4, <2>3 DEF Remove, TypeOK, ObjectsOK
  <2>5. Dialed'
    BY <1>4, <2>3 DEF Remove, TypeOK, Dialed, Entry, Go, Idle, LoopsOK
  <2> QED BY <2>1, <2>4, <2>5 DEF TypeOK
<1> QED BY <1>1, <1>2, <1>3, <1>4

\* The clients.
LEMMA ClientType ==
  ASSUME TypeOK, NEW c \in Client, ClientStep(c) \/ ServerCloses(c)
  PROVE  TypeOK'
<1>1. LoopsOK' /\ HistoryOK'
  BY DEF ClientStep, ServerCloses, Dial, GiveUp, Register, Reconnect, Fault,
         TypeOK, LoopsOK, HistoryOK
<1>2. /\ clients' \in [Process -> [Bot -> 0..MaxClients]]
      /\ \A q \in Process, d \in Bot :
           \/ clients'[q][d] = clients[q][d]
           \/ life[c] = "dialed" /\ c = <<q, d, clients'[q][d]>>
  <2>1. CASE Register(c)
    <3>1. /\ c[1] \in Process /\ c[2] \in Bot /\ c[3] \in 0..MaxClients
          /\ c = <<c[1], c[2], c[3]>>
      BY ClientParts DEF Nr
    <3>2. clients' = [clients EXCEPT ![c[1]][c[2]] = c[3]]
      BY <2>1 DEF Register
    <3>3. /\ clients' \in [Process -> [Bot -> 0..MaxClients]]
          /\ clients'[c[1]][c[2]] = c[3]
          /\ \A q \in Process, d \in Bot :
               <<q, d>> # <<c[1], c[2]>> => clients'[q][d] = clients[q][d]
      BY <3>1, <3>2, NestedType DEF TypeOK, ObjectsOK
    <3>4. \A q \in Process, d \in Bot :
            <<q, d>> = <<c[1], c[2]>> => c = <<q, d, clients'[q][d]>>
      BY <3>1, <3>3
    <3> QED BY <2>1, <3>3, <3>4 DEF Register
  <2>2. CASE UNCHANGED clients
    BY <2>2 DEF TypeOK, ObjectsOK
  <2>3. Register(c) \/ UNCHANGED clients
    BY DEF ClientStep, ServerCloses, Dial, GiveUp, Reconnect
  <2> QED BY <2>1, <2>2, <2>3
<1>7. ObjectsOK'
  BY <1>2 DEF ClientStep, ServerCloses, Dial, GiveUp, Register, Reconnect,
         TypeOK, ObjectsOK, Life
<1>3. \A d \in Client : conn[d] # "nil" => conn'[d] # "nil"
  BY DEF ClientStep, ServerCloses, Dial, GiveUp, Register, Reconnect, TypeOK,
         ObjectsOK
<1>4. \A d \in Client : life'[d] \in {"dialed", "live"} => conn'[d] # "nil"
  BY DEF ClientStep, ServerCloses, Dial, GiveUp, Register, Reconnect, TypeOK,
         ObjectsOK, Dialed
<1>5. \A p \in Process, b \in Bot :
        clients'[p][b] # 0 => conn'[Entry(p, b)'] # "nil"
  <2> SUFFICES ASSUME NEW p \in Process, NEW b \in Bot, clients'[p][b] # 0
               PROVE  conn'[Entry(p, b)'] # "nil"
    OBVIOUS
  <2>1. CASE clients'[p][b] = clients[p][b]
    BY <2>1, <1>3, EntryType DEF TypeOK, Dialed, Entry
  <2>2. CASE life[c] = "dialed" /\ c = <<p, b, clients'[p][b]>>
    BY <2>2, <1>3 DEF TypeOK, Dialed, Entry
  <2> QED BY <2>1, <2>2, <1>2
<1>6. \A p \in Process : loop'[p] \in {"claim", "write"}
                          => conn'[<<p, cur'[p].bot, cur'[p].nr>>] # "nil"
  <2>1. UNCHANGED <<loop, cur>>
    BY DEF ClientStep, ServerCloses, Dial, GiveUp, Register, Reconnect
  <2> QED BY <2>1, <1>3 DEF TypeOK, Dialed, LoopsOK, Work, Client, NoWork
<1> QED BY <1>1, <1>7, <1>4, <1>5, <1>6 DEF TypeOK, Dialed

\* A crash takes everything of one process.
LEMMA CrashType ==
  ASSUME TypeOK, NEW p \in Process, Crash(p)
  PROVE  TypeOK'
<1>1. LoopsOK'
  BY IdleType DEF Crash, TypeOK, LoopsOK, Sub
<1>2. HistoryOK'
  BY DEF Crash, Fault, TypeOK, LoopsOK, HistoryOK
<1>3. ObjectsOK'
  BY DEF Crash, TypeOK, ObjectsOK, Life
<1>4. Dialed'
  <2>1. \A c \in Client : life'[c] \in {"dialed", "live"} => conn'[c] # "nil"
    BY DEF Crash, TypeOK, Dialed
  <2>2. \A q \in Process, b \in Bot :
          clients'[q][b] # 0 => conn'[Entry(q, b)'] # "nil"
    BY EntryType DEF Crash, TypeOK, ObjectsOK, Dialed, Entry, Client
  <2>3. \A q \in Process : loop'[q] \in {"claim", "write"}
                            => conn'[<<q, cur'[q].bot, cur'[q].nr>>] # "nil"
    BY DEF Crash, TypeOK, Dialed, LoopsOK, Go, Idle, Work, Client, NoWork
  <2> QED BY <2>1, <2>2, <2>3 DEF Dialed
<1> QED BY <1>1, <1>2, <1>3, <1>4 DEF TypeOK

\* Every step keeps the types.
LEMMA TypeNext == TypeOK /\ [Next]_vars => TypeOK'
<1> SUFFICES ASSUME TypeOK, [Next]_vars PROVE TypeOK'
  OBVIOUS
<1>1. CASE UNCHANGED vars
  BY <1>1 DEF vars, TypeOK, ObjectsOK, LoopsOK, HistoryOK, Dialed, Entry
<1>2. CASE Next
  BY <1>2, PublishType, StartType, MessageType, TeamType, ClientType, CrashType
     DEF Next, LoopStep
<1> QED BY <1>1, <1>2

\* Every variable has its type, and the pubsub loop never calls WriteMessage on
\* a client without a connection (client.go:425 looks before the HSETNX).
THEOREM TypeCorrect == Spec => []TypeOK
BY TypeInit, TypeNext, PTL DEF Spec

-----------------------------------------------------------------------------
(* What the loops write.                                                   *)

\* What a claim means to the writes: every written field is claimed, and a
\* loop on its way to WriteMessage has a claimed field for itself that is not
\* written yet.
ClaimInv ==
  /\ \A f \in Field : Written(f) => f \in claimed
  /\ \A p \in Process :
       loop[p] = "write" => cur[p].id \in claimed /\ ~ Written(cur[p].id)
  /\ \A p, q \in Process :
       loop[p] = "write" /\ loop[q] = "write" /\ p # q
         => cur[p].id # cur[q].id

\* A claim that nothing has met is written or on its way.
WayInv ==
  \A f \in claimed :
    Written(f) \/ f \in hit \/ \E p \in Process : loop[p] = "write" /\ cur[p].id = f

\* The shape of the variables these invariants are about.
Shape == /\ loop \in [Process -> Loop] /\ DOMAIN cur = Process
         /\ writes \in [Field -> Nat]

WriteInv == Shape /\ ClaimInv /\ WayInv /\ WrittenOnce /\ TriedIsWritten

\* A step that writes and claims nothing, and takes no loop to or from a
\* message, keeps WriteInv.
LEMMA Quiet ==
  ASSUME WriteInv, UNCHANGED <<claimed, writes, tried, hit>>,
         loop' \in [Process -> Loop], DOMAIN cur' = Process,
         \A p \in Process : /\ Working(p) <=> Working(p)'
                            /\ Working(p) => cur'[p] = cur[p] /\ loop'[p] = loop[p]
  PROVE  WriteInv'
<1>1. ClaimInv'
  BY DEF WriteInv, ClaimInv, Written, Working
<1>2. \A f : Written(f)' <=> Written(f)
  BY DEF Written
<1>3. WayInv'
  BY <1>2 DEF WriteInv, WayInv, Working
<1>4. TriedIsWritten'
  BY <1>2 DEF WriteInv, TriedIsWritten, Working
<1> QED BY <1>1, <1>3, <1>4 DEF WriteInv, Shape, WrittenOnce

\* So does one that leaves the loops alone.
LEMMA SameLoops ==
  ASSUME WriteInv, UNCHANGED <<claimed, writes, tried, hit, loop, cur>>
  PROVE  WriteInv'
<1>1. \A p \in Process : Working(p) <=> Working(p)'
  BY DEF Working
<1> QED BY <1>1, Quiet DEF WriteInv, Shape

\* The loop of p, not at a message, goes on elsewhere.
LEMMA Elsewhere ==
  ASSUME WriteInv, UNCHANGED <<claimed, writes, tried, hit>>,
         NEW p \in Process, ~ Working(p), NEW l \in Loop \ {"claim", "write"},
         NEW w, Go(p, l, w)
  PROVE  WriteInv'
<1>1. loop' \in [Process -> Loop] /\ DOMAIN cur' = Process
  BY DEF WriteInv, Shape, Go
<1>2. \A q \in Process : /\ Working(q) <=> Working(q)'
                         /\ Working(q) => cur'[q] = cur[q] /\ loop'[q] = loop[q]
  BY DEF WriteInv, Shape, Go, Working
<1> QED BY <1>1, <1>2, Quiet

\* At the start nothing is claimed.
LEMMA WriteInit == Init => WriteInv
BY DEF Init, WriteInv, Shape, ClaimInv, WayInv, WrittenOnce, TriedIsWritten, Loop,
       Written

\* A loop at its HSETNX accounts for the field it tries.
LEMMA MessageStep ==
  ASSUME WriteInv, NEW p \in Process, Message(p)
  PROVE  WriteInv'
<1>1. PICK f, w : /\ Go(p, "claim", w) /\ w.id = f
                  /\ tried' = tried \cup {f}
                  /\ loop[p] = "idle"
                  /\ UNCHANGED <<claimed, writes, hit>>
  <2>1. PICK c \in Command, f \in Field :
          /\ Receive(p, c)
          /\ Go(p, "claim", [bot |-> c.bot, nr |-> clients[p][c.bot], id |-> f])
          /\ tried' = tried \cup {f}
          /\ UNCHANGED <<redis, writes, hit>>
    BY DEF Message
  <2> QED BY <2>1 DEF Receive, redis
<1>2. Shape'
  BY <1>1 DEF WriteInv, Shape, Go, Loop
<1>3. \A q \in Process : q # p => loop'[q] = loop[q] /\ cur'[q] = cur[q]
  BY <1>1 DEF WriteInv, Shape, Go
<1>4. loop'[p] = "claim" /\ cur'[p].id = f
  BY <1>1 DEF WriteInv, Shape, Go
<1>5. ClaimInv'
  BY <1>1, <1>3, <1>4 DEF WriteInv, ClaimInv, Written
<1>6. \A g : Written(g)' <=> Written(g)
  BY <1>1 DEF Written
<1>7. WayInv'
  BY <1>1, <1>3, <1>4, <1>6 DEF WriteInv, WayInv
<1>8. TriedIsWritten'
  BY <1>1, <1>3, <1>4, <1>6 DEF WriteInv, TriedIsWritten, Working
<1> QED BY <1>1, <1>2, <1>5, <1>7, <1>8 DEF WriteInv, WrittenOnce

\* A loop that loses the claim leaves the field to the one that has it.
LEMMA HSetNXStep ==
  ASSUME TypeOK, WriteInv, NEW p \in Process, HSetNX(p)
  PROVE  WriteInv'
<1>1. /\ loop[p] = "claim" /\ claimed' = claimed \cup {cur[p].id}
      /\ UNCHANGED <<writes, tried, hit>>
  BY DEF HSetNX, history
<1>2. \A q \in Process : q # p => loop'[q] = loop[q] /\ cur'[q] = cur[q]
  BY DEF HSetNX, WriteInv, Shape, Go, Idle
<1>3. Shape'
  BY DEF HSetNX, WriteInv, Shape, Go, Idle, Loop
<1>4. \A g : Written(g)' <=> Written(g)
  BY <1>1 DEF Written
<1>5. CASE cur[p].id \in claimed
  <2>1. loop'[p] = "idle" /\ claimed' = claimed
    BY <1>1, <1>5 DEF HSetNX, WriteInv, Shape, Go, Idle
  <2>2. ClaimInv'
    BY <1>1, <1>2, <2>1 DEF WriteInv, ClaimInv, Written
  <2>3. WayInv'
    BY <1>1, <1>2, <1>4, <2>1 DEF WriteInv, WayInv
  <2>4. TriedIsWritten'
    <3>1. SUFFICES ASSUME NEW f \in tried, ~ Written(f), f \notin hit
                   PROVE  \E q \in Process : Working(q)' /\ cur'[q].id = f
      BY <1>1, <1>4 DEF TriedIsWritten
    <3>2. PICK q \in Process : Working(q) /\ cur[q].id = f
      BY <3>1 DEF WriteInv, TriedIsWritten
    <3>3. CASE q # p
      BY <3>2, <3>3, <1>2 DEF Working
    <3>4. CASE q = p
      <4>1. PICK r \in Process : loop[r] = "write" /\ cur[r].id = f
        BY <3>1, <3>2, <3>4, <1>5 DEF WriteInv, WayInv
      <4> QED BY <4>1, <1>1, <1>2 DEF Working
    <3> QED BY <3>3, <3>4
  <2> QED BY <1>1, <1>3, <2>2, <2>3, <2>4 DEF WriteInv, WrittenOnce
<1>6. CASE cur[p].id \notin claimed
  <2>1. loop'[p] = "write" /\ cur'[p] = cur[p]
    BY <1>1, <1>6 DEF HSetNX, WriteInv, Shape, Go
  <2>2. ClaimInv'
    <3>1. cur[p].id \in Field
      BY <1>1 DEF TypeOK, LoopsOK
    <3> QED BY <1>1, <1>2, <1>6, <2>1, <3>1 DEF WriteInv, ClaimInv, Written
  <2>3. WayInv'
    BY <1>1, <1>2, <1>4, <2>1 DEF WriteInv, WayInv
  <2>4. TriedIsWritten'
    BY <1>1, <1>2, <1>4, <2>1 DEF WriteInv, TriedIsWritten, Working
  <2> QED BY <1>1, <1>3, <2>2, <2>3, <2>4 DEF WriteInv, WrittenOnce
<1> QED BY <1>5, <1>6

\* A failed HSETNX is remembered, executed or not.
LEMMA HSetNXFailsStep ==
  ASSUME WriteInv, NEW p \in Process, HSetNXFails(p)
  PROVE  WriteInv'
<1>1. /\ loop[p] = "claim" /\ claimed' \in {claimed, claimed \cup {cur[p].id}}
      /\ hit' = hit \cup {cur[p].id}
      /\ UNCHANGED <<writes, tried>>
  BY DEF HSetNXFails
<1>2. \A q \in Process : q # p => loop'[q] = loop[q] /\ cur'[q] = cur[q]
  BY DEF HSetNXFails, WriteInv, Shape, Go, Idle
<1>3. Shape' /\ loop'[p] = "idle"
  BY DEF HSetNXFails, WriteInv, Shape, Go, Idle, Loop
<1>4. \A g : Written(g)' <=> Written(g)
  BY <1>1 DEF Written
<1>5. ClaimInv'
  BY <1>1, <1>2, <1>3 DEF WriteInv, ClaimInv, Written
<1>6. WayInv'
  BY <1>1, <1>2, <1>3, <1>4 DEF WriteInv, WayInv
<1>7. TriedIsWritten'
  BY <1>1, <1>2, <1>3, <1>4 DEF WriteInv, TriedIsWritten, Working
<1> QED BY <1>1, <1>3, <1>5, <1>6, <1>7 DEF WriteInv, WrittenOnce

\* The owner of the claim is the only one to write.
LEMMA WriteMessageStep ==
  ASSUME TypeOK, WriteInv, NEW p \in Process, WriteMessage(p)
  PROVE  WriteInv'
<1>1. /\ writes' = [writes EXCEPT ![cur[p].id] = writes[cur[p].id] + 1]
      /\ loop[p] = "write" /\ cur[p].id \in Field
      /\ UNCHANGED <<claimed, tried, hit>>
  BY DEF WriteMessage, TypeOK, LoopsOK
<1>2. \A q \in Process : q # p => loop'[q] = loop[q] /\ cur'[q] = cur[q]
  BY DEF WriteMessage, WriteInv, Shape, Go, Idle
<1>3. Shape' /\ loop'[p] = "idle"
  BY <1>1 DEF WriteMessage, WriteInv, Shape, Go, Idle, Loop
<1>4. \A g \in Field : Written(g)' <=> Written(g) \/ g = cur[p].id
  BY <1>1 DEF Written, WriteInv, Shape
<1>9. claimed \subseteq Field /\ tried \subseteq Field
      /\ \A q \in Process : loop[q] = "write" => cur[q].id \in Field
  BY DEF TypeOK, LoopsOK, HistoryOK
<1>5. ClaimInv'
  <2>1. \A f \in Field : Written(f)' => f \in claimed'
    BY <1>1, <1>4 DEF WriteInv, ClaimInv
  <2>2. ASSUME NEW q \in Process, loop'[q] = "write"
        PROVE  cur'[q].id \in claimed' /\ ~ Written(cur[q].id)'
    BY <1>1, <1>2, <1>3, <1>4, <1>9, <2>2 DEF WriteInv, ClaimInv
  <2>3. \A q \in Process : loop'[q] = "write" => cur'[q] = cur[q]
    BY <1>2, <1>3
  <2>4. \A q \in Process : loop'[q] = "write" => ~ (writes'[cur'[q].id] > 0)
    BY <2>2, <2>3 DEF Written
  <2> QED BY <1>1, <1>2, <1>3, <2>1, <2>2, <2>4 DEF WriteInv, ClaimInv, Written
<1>6. WayInv'
  BY <1>1, <1>2, <1>3, <1>4, <1>9 DEF WriteInv, WayInv
<1>7. TriedIsWritten'
  BY <1>1, <1>2, <1>3, <1>4, <1>9 DEF WriteInv, TriedIsWritten, Working
<1>8. WrittenOnce'
  BY <1>1 DEF WriteInv, Shape, ClaimInv, Written, WrittenOnce
<1> QED BY <1>3, <1>5, <1>6, <1>7, <1>8 DEF WriteInv

\* A crash takes a loop away from its message; that is remembered.
LEMMA CrashStep ==
  ASSUME WriteInv, NEW p \in Process, Crash(p)
  PROVE  WriteInv'
<1>1. /\ hit' = IF loop[p] \in {"claim", "write"} THEN hit \cup {cur[p].id}
                                                 ELSE hit
      /\ UNCHANGED <<claimed, writes, tried>>
  BY DEF Crash, redis
<1>2. \A q \in Process : q # p => loop'[q] = loop[q] /\ cur'[q] = cur[q]
  BY DEF Crash, WriteInv, Shape, Go, Idle
<1>3. Shape' /\ loop'[p] = "idle"
  BY DEF Crash, WriteInv, Shape, Go, Idle, Loop
<1>4. \A g : Written(g)' <=> Written(g)
  BY <1>1 DEF Written
<1>5. ClaimInv'
  BY <1>1, <1>2, <1>3 DEF WriteInv, ClaimInv, Written
<1>6. WayInv'
  BY <1>1, <1>2, <1>3, <1>4 DEF WriteInv, WayInv
<1>7. TriedIsWritten'
  BY <1>1, <1>2, <1>3, <1>4 DEF WriteInv, TriedIsWritten, Working
<1> QED BY <1>1, <1>3, <1>5, <1>6, <1>7 DEF WriteInv, WrittenOnce

\* The steps of a loop outside a message.
LEMMA OtherLoopStep ==
  ASSUME WriteInv, NEW p \in Process,
         \/ Drop(p) \/ TeamAdded(p) \/ TeamAddedInVain(p) \/ LoginReturns(p)
         \/ Migrate(p) \/ TeamRemoved(p) \/ Remove(p)
  PROVE  WriteInv'
<1>1. CASE Drop(p) \/ TeamAddedInVain(p)
  BY <1>1, SameLoops DEF Drop, TeamAddedInVain
<1>2. CASE TeamAdded(p)
  <2>1. PICK w : Go(p, "start", w) /\ loop[p] = "idle"
    BY <1>2 DEF TeamAdded, Receive
  <2>2. UNCHANGED <<claimed, writes, tried, hit>>
    BY <1>2 DEF TeamAdded
  <2> QED BY <2>1, <2>2, Elsewhere DEF Working, Loop
<1>3. CASE LoginReturns(p) \/ Migrate(p) \/ Remove(p)
  <2>1. Go(p, "idle", NoWork) /\ ~ Working(p)
    BY <1>3 DEF LoginReturns, Migrate, Remove, Idle, Working
  <2>2. UNCHANGED <<claimed, writes, tried, hit>>
    BY <1>3 DEF LoginReturns, Migrate, Remove
  <2> QED BY <2>1, <2>2, Elsewhere DEF Loop
<1>4. CASE TeamRemoved(p)
  <2>1. loop[p] = "idle" /\ UNCHANGED <<claimed, writes, tried, hit>>
    BY <1>4 DEF TeamRemoved, Receive
  <2>2. UNCHANGED <<loop, cur>> \/ \E w : Go(p, "remove", w)
    BY <1>4 DEF TeamRemoved
  <2> QED BY <2>1, <2>2, SameLoops, Elsewhere DEF Working, Loop
<1> QED BY <1>1, <1>2, <1>3, <1>4

\* Every step keeps WriteInv.
LEMMA WriteNext == TypeOK /\ WriteInv /\ [Next]_vars => WriteInv'
<1> SUFFICES ASSUME TypeOK, WriteInv, [Next]_vars PROVE WriteInv'
  OBVIOUS
<1>1. CASE UNCHANGED vars
  BY <1>1, SameLoops DEF vars
<1>2. ASSUME NEW b \in Bot, \/ AddTeam(b) \/ RemoveTeam(b)
                            \/ \E i \in Id \cup {Blank} : Send(b, i)
      PROVE  WriteInv'
  BY <1>2, SameLoops DEF AddTeam, RemoveTeam, Send, Publish
<1>3. ASSUME NEW p \in Process, InitClients(p) \/ Subscribe(p) \/ Deafen(p)
      PROVE  WriteInv'
  BY <1>3, SameLoops DEF InitClients, Subscribe, Deafen
<1>4. ASSUME NEW p \in Process, LoopStep(p)
      PROVE  WriteInv'
  BY <1>4, MessageStep, HSetNXStep, HSetNXFailsStep, WriteMessageStep,
     OtherLoopStep DEF LoopStep
<1>5. ASSUME NEW p \in Process, Crash(p)
      PROVE  WriteInv'
  BY <1>5, CrashStep
<1>6. ASSUME NEW c \in Client, ClientStep(c) \/ ServerCloses(c)
      PROVE  WriteInv'
  BY <1>6, SameLoops DEF ClientStep, ServerCloses, Dial, GiveUp, Register, Reconnect
<1> QED BY <1>1, <1>2, <1>3, <1>4, <1>5, <1>6 DEF Next

\* However many processes hear a message command, however often its id is
\* published or one process hears it: the calls of WriteMessage for it, in all
\* processes together, are one at most (slack/client.go:427-434).
THEOREM WritesOnce == Spec => []WrittenOnce
<1>1. WriteInv => WrittenOnce
  BY DEF WriteInv
<1> QED BY <1>1, TypeInit, TypeNext, WriteInit, WriteNext, PTL DEF Spec

\* A message command that reached the HSETNX in some process is written by one,
\* unless a fault or a crash met it there.
THEOREM NoneForgotten == Spec => []TriedIsWritten
<1>1. WriteInv => TriedIsWritten
  BY DEF WriteInv
<1> QED BY <1>1, TypeInit, TypeNext, WriteInit, WriteNext, PTL DEF Spec
=============================================================================
