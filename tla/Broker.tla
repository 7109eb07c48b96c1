------------------------------- MODULE Broker -------------------------------
(***************************************************************************)
(* The commands that bots publish on RELAX_BOTS_PUBSUB, heard by several   *)
(* Relax processes side by side (InitClients and                           *)
(* startReadFromRedisPubSubLoop of slack/client.go).                       *)
(*                                                                         *)
(* Every process has a loop that takes one command after the other, and a  *)
(* map Clients from keys to clients.  A client is what module SlackClient  *)
(* describes in detail; here it logs in, dials, enters itself in Clients,  *)
(* and does all that again when its socket is closed, whoever closed it.   *)
(* A bot stands for its key in RELAX_BOTS_KEY and in Clients, the team or  *)
(* the namespace and the team.  Commands that do not parse, are of another *)
(* type or name no team change nothing and are left out.                   *)
(***************************************************************************)
EXTENDS Naturals, Sequences

CONSTANTS
  Process,      \* the Relax processes
  Bot,          \* the keys of RELAX_BOTS_KEY
  Id,           \* the ids bots give to their messages
  Nano,         \* what time.Now().Nanosecond() may show
  Blank,        \* the id of a message without one
  MaxCommands,  \* bound: commands published
  MaxClients,   \* bound: clients made for one bot in one process
  MaxFaults     \* bound: failures of Slack, Redis and connections, crashes

ASSUME IdAssumption == Blank \notin Id /\ Id \cap Nano = {}
ASSUME BoundAssumption ==
  MaxCommands \in Nat /\ MaxClients \in Nat /\ MaxFaults \in Nat

VARIABLES
  bots,       \* the fields of the RELAX_BOTS_KEY hash
  claimed,    \* the send_slack_message fields of the RELAX_MUTEX_KEY hash
  sub,        \* the subscription of each process
  inbox,      \* the commands on their way to each loop
  loop,       \* where the loop of each process is
  cur,        \* the bot, the client and the id the loop works on
  clients,    \* Clients of each process; 0: no entry
  made,       \* clients made for each bot in each process
  life,       \* where each client is
  conn,       \* c.conn of each client, with the state of its socket
  writes,     \* history: how often WriteMessage was called for each id
  tried,      \* history: ids whose HSETNX was called
  hit,        \* history: ids that met a fault or a crash at their HSETNX
  stopped,    \* history: clients that a loop has stopped
  late,       \* history: bots added between HGETALL and SUBSCRIBE
  published, faults   \* what the environment has done

redis   == <<bots, claimed>>
heard   == <<sub, inbox>>
loops   == <<loop, cur>>
objects == <<made, life, conn>>
history == <<writes, tried, hit, stopped, late>>
budget  == <<published, faults>>
vars == <<redis, heard, loops, clients, objects, history, budget>>

Nr     == 1..MaxClients
Client == Process \X Bot \X Nr
Field  == Id \cup Nano

Command == [type : {"message"}, bot : Bot, id : Id \cup {Blank}]
             \cup [type : {"team_added", "team_removed"}, bot : Bot]

\* off: not started; init: HGETALL done; deaf: no subscription any more.
Sub == {"off", "init", "on", "deaf"}
\* idle: in ReceiveTimeout; claim, write: at HSETNX, at WriteMessage; start:
\* inside LoginAndStart; remove: before Clients.Remove.
Loop == {"idle", "claim", "write", "start", "remove"}
\* login: in Login or before the dial; dialed: before Clients.Set; live: the
\* readers read; over: LoginAndStart has returned an error.
Life == {"none", "login", "dialed", "live", "over"}

NoWork == [bot |-> Blank, nr |-> 0, id |-> Blank]
Work == {NoWork} \cup [bot : Bot, nr : Nr, id : Field \cup {Blank}]

\* Redis may know bots from before.
Init ==
  /\ bots \in SUBSET Bot /\ claimed = {}
  /\ sub = [p \in Process |-> "off"]
  /\ inbox = [p \in Process |-> <<>>]
  /\ loop = [p \in Process |-> "idle"]
  /\ cur = [p \in Process |-> NoWork]
  /\ clients = [p \in Process |-> [b \in Bot |-> 0]]
  /\ made = [p \in Process |-> [b \in Bot |-> 0]]
  /\ life = [c \in Client |-> "none"]
  /\ conn = [c \in Client |-> "nil"]
  /\ writes = [f \in Field |-> 0] /\ tried = {} /\ hit = {} /\ stopped = {}
  /\ late = {}
  /\ published = 0 /\ faults = 0

Fault == faults < MaxFaults /\ faults' = faults + 1

-----------------------------------------------------------------------------
(* The bots.                                                               *)

\* PUBLISH: Redis passes the command to those who listen now.
Publish(c) ==
  /\ published < MaxCommands /\ published' = published + 1
  /\ inbox' = [p \in Process |-> IF sub[p] = "on" THEN Append(inbox[p], c)
                                                  ELSE inbox[p]]
  /\ UNCHANGED <<claimed, sub, loops, clients, objects, writes, tried, hit,
                 stopped, faults>>

\* HSET and PUBLISH in one transaction, as the README has it.
AddTeam(b) ==
  /\ Publish([type |-> "team_added", bot |-> b])
  /\ bots' = bots \cup {b}
  /\ late' = late \cup {<<p, b>> : p \in {q \in Process : sub[q] = "init"}}

RemoveTeam(b) ==
  /\ Publish([type |-> "team_removed", bot |-> b])
  /\ bots' = bots \ {b}
  /\ UNCHANGED late

Send(b, i) ==
  /\ Publish([type |-> "message", bot |-> b, id |-> i])
  /\ UNCHANGED <<bots, late>>

-----------------------------------------------------------------------------
(* InitClients.                                                            *)

\* HGETALL, and go c.LoginAndStart() for every bot; if it fails, for none.
InitClients(p) ==
  \E found \in {bots, {}} :
    LET new == {c \in Client : c[1] = p /\ c[2] \in found /\ c[3] = 1}
    IN /\ sub[p] = "off"
       /\ MaxClients > 0
       /\ IF found = bots THEN UNCHANGED faults ELSE Fault
       /\ sub' = [sub EXCEPT ![p] = "init"]
       /\ made' = [made EXCEPT ![p] = [b \in Bot |-> IF b \in found THEN 1
                                                                    ELSE 0]]
       /\ life' = [c \in Client |-> IF c \in new THEN "login" ELSE life[c]]
       /\ UNCHANGED <<redis, inbox, loops, clients, conn, history, published>>

Subscribe(p) ==
  /\ sub[p] = "init"
  /\ sub' = [sub EXCEPT ![p] = "on"]
  /\ UNCHANGED <<redis, inbox, loops, clients, objects, history, budget>>

\* Subscribe fails and the loop returns; or the subscription breaks later, and
\* the loop receives an error after the other from the same connection.
Deafen(p) ==
  /\ sub[p] \in {"init", "on"}
  /\ Fault
  /\ sub' = [sub EXCEPT ![p] = "deaf"]
  /\ inbox' = [inbox EXCEPT ![p] = <<>>]
  /\ UNCHANGED <<redis, loops, clients, objects, history, published>>

-----------------------------------------------------------------------------
(* startReadFromRedisPubSubLoop.                                           *)

\* The loop takes the next command, c.
Receive(p, c) ==
  /\ loop[p] = "idle" /\ inbox[p] # <<>>
  /\ c = Head(inbox[p])
  /\ inbox' = [inbox EXCEPT ![p] = Tail(@)]

\* The loop goes on with work w at l.
Go(p, l, w) ==
  /\ loop' = [loop EXCEPT ![p] = l]
  /\ cur' = [cur EXCEPT ![p] = w]

Idle(p) == Go(p, "idle", NoWork)

\* The client in Clients under the bot's key.
Entry(p, b) == <<p, b, clients[p][b]>>
HasConn(p, b) == clients[p][b] # 0 /\ conn[Entry(p, b)] # "nil"

\* message, for a bot without a client: dropped.
Drop(p) ==
  \E c \in Command :
    /\ Receive(p, c) /\ c.type = "message"
    /\ ~ HasConn(p, c.bot)
    /\ UNCHANGED <<redis, sub, loops, clients, objects, history, budget>>

\* message: on to the HSETNX; without an id it gets one from the clock.
Message(p) ==
  \E c \in Command : \E f \in Field :
    /\ Receive(p, c) /\ c.type = "message"
    /\ HasConn(p, c.bot)
    /\ IF c.id = Blank THEN f \in Nano ELSE f = c.id
    /\ Go(p, "claim", [bot |-> c.bot, nr |-> clients[p][c.bot], id |-> f])
    /\ tried' = tried \cup {f}
    /\ UNCHANGED <<redis, sub, clients, objects, writes, hit, stopped, late,
                   budget>>

\* Mutant: shouldSend is not looked at.
HSetNXUnchecked(p) ==
  /\ loop[p] = "claim"
  /\ claimed' = claimed \cup {cur[p].id}
  /\ Go(p, "write", cur[p])
  /\ UNCHANGED <<bots, heard, clients, objects, history, budget>>

\* Mutant: shouldSend is negated.
HSetNXNegated(p) ==
  /\ loop[p] = "claim"
  /\ claimed' = claimed \cup {cur[p].id}
  /\ IF cur[p].id \in claimed THEN Go(p, "write", cur[p]) ELSE Idle(p)
  /\ UNCHANGED <<bots, heard, clients, objects, history, budget>>

HSetNX(p) ==
  /\ loop[p] = "claim"
  /\ claimed' = claimed \cup {cur[p].id}
  /\ IF cur[p].id \in claimed THEN Idle(p) ELSE Go(p, "write", cur[p])
  /\ UNCHANGED <<bots, heard, clients, objects, history, budget>>

\* HSETNX fails, executed or not: boolCmd.Val() is false.
HSetNXFails(p) ==
  /\ loop[p] = "claim"
  /\ Fault
  /\ claimed' \in {claimed, claimed \cup {cur[p].id}}
  /\ hit' = hit \cup {cur[p].id}
  /\ Idle(p)
  /\ UNCHANGED <<bots, heard, clients, objects, writes, tried, stopped,
                 late, published>>

\* c.conn.WriteMessage, on what c.conn is by now, open or shut: nobody looks at
\* the result.  Every call is counted, those of one process too.
WriteMessage(p) ==
  /\ loop[p] = "write"
  /\ writes' = [writes EXCEPT ![cur[p].id] = @ + 1]
  /\ Idle(p)
  /\ UNCHANGED <<redis, heard, clients, objects, tried, hit, stopped, late,
                 budget>>

\* c.Stop() on the client in Clients, if there is one.
StopEntry(p, b) ==
  IF clients[p][b] = 0
  THEN UNCHANGED <<conn, stopped>>
  ELSE /\ conn' = [conn EXCEPT ![Entry(p, b)] = "shut"]
       /\ stopped' = stopped \cup {Entry(p, b)}

\* team_added: the old client is stopped, a new one logs in inside the loop.
TeamAdded(p) ==
  \E c \in Command :
    LET n == made[p][c.bot] + 1
    IN /\ Receive(p, c) /\ c.type = "team_added"
       /\ c.bot \in bots
       /\ n \in Nr
       /\ StopEntry(p, c.bot)
       /\ made' = [made EXCEPT ![p][c.bot] = n]
       /\ life' = [life EXCEPT ![<<p, c.bot, n>>] = "login"]
       /\ Go(p, "start", [bot |-> c.bot, nr |-> n, id |-> Blank])
       /\ UNCHANGED <<redis, sub, clients, writes, tried, hit, late, budget>>

\* team_added, but HGET fails or has no value: the old client is stopped, the
\* empty string is no client.
TeamAddedInVain(p) ==
  \E c \in Command :
    /\ Receive(p, c) /\ c.type = "team_added"
    /\ IF c.bot \in bots THEN Fault ELSE UNCHANGED faults
    /\ StopEntry(p, c.bot)
    /\ UNCHANGED <<redis, sub, loops, clients, made, life, writes, tried, hit,
                   late, published>>

\* Mutant: the loop waits for the client to be connected.
LoginReturnsLive(p) ==
  /\ loop[p] = "start"
  /\ life[<<p, cur[p].bot, cur[p].nr>>] = "live"
  /\ Idle(p)
  /\ UNCHANGED <<redis, heard, clients, objects, history, budget>>

\* LoginAndStart returns to the loop.
LoginReturns(p) ==
  /\ loop[p] = "start"
  /\ life[<<p, cur[p].bot, cur[p].nr>>] \in {"live", "over"}
  /\ Idle(p)
  /\ UNCHANGED <<redis, heard, clients, objects, history, budget>>

\* migration_in_progress: Start returns and LoginAndStart goes on elsewhere.
Migrate(p) ==
  /\ loop[p] = "start"
  /\ life[<<p, cur[p].bot, cur[p].nr>>] = "login"
  /\ Fault
  /\ Idle(p)
  /\ UNCHANGED <<redis, heard, clients, objects, history, published>>

\* team_removed: the client is stopped first ...
TeamRemoved(p) ==
  \E c \in Command :
    /\ Receive(p, c) /\ c.type = "team_removed"
    /\ StopEntry(p, c.bot)
    /\ IF clients[p][c.bot] = 0
       THEN UNCHANGED loops
       ELSE Go(p, "remove", [bot |-> c.bot, nr |-> clients[p][c.bot],
                             id |-> Blank])
    /\ UNCHANGED <<redis, sub, clients, made, life, writes, tried, hit,
                   late, budget>>

\* ... and then taken out, whoever is under the key by now.
Remove(p) ==
  /\ loop[p] = "remove"
  /\ clients' = [clients EXCEPT ![p][cur[p].bot] = 0]
  /\ Idle(p)
  /\ UNCHANGED <<redis, heard, objects, history, budget>>

-----------------------------------------------------------------------------
(* The clients (module SlackClient has the details).                       *)

\* Mutant: the new connection stays in a local variable.
DialShadowed(c) ==
  /\ life[c] = "login"
  /\ life' = [life EXCEPT ![c] = "dialed"]
  /\ UNCHANGED <<redis, heard, loops, clients, made, conn, history, budget>>

\* Login and the dial of Start succeed.
Dial(c) ==
  /\ life[c] = "login"
  /\ life' = [life EXCEPT ![c] = "dialed"]
  /\ conn' = [conn EXCEPT ![c] = "open"]
  /\ UNCHANGED <<redis, heard, loops, clients, made, history, budget>>

\* Backoff, a failed dial or a refused token end LoginAndStart.
GiveUp(c) ==
  /\ life[c] = "login"
  /\ Fault
  /\ life' = [life EXCEPT ![c] = "over"]
  /\ UNCHANGED <<redis, heard, loops, clients, made, conn, history, published>>

\* Mutant: only the first client of a key is entered in Clients.
RegisterFirst(c) ==
  /\ life[c] = "dialed"
  /\ life' = [life EXCEPT ![c] = "live"]
  /\ clients' = IF c[3] = 1 THEN [clients EXCEPT ![c[1]][c[2]] = c[3]]
                            ELSE clients
  /\ UNCHANGED <<redis, heard, loops, made, conn, history, budget>>

\* The end of Start: Clients.Set.
Register(c) ==
  /\ life[c] = "dialed"
  /\ life' = [life EXCEPT ![c] = "live"]
  /\ clients' = [clients EXCEPT ![c[1]][c[2]] = c[3]]
  /\ UNCHANGED <<redis, heard, loops, made, conn, history, budget>>

\* The reader of a closed socket calls LoginAndStart.
Reconnect(c) ==
  /\ life[c] = "live" /\ conn[c] = "shut"
  /\ life' = [life EXCEPT ![c] = "login"]
  /\ UNCHANGED <<redis, heard, loops, clients, made, conn, history, budget>>

ServerCloses(c) ==
  /\ conn[c] = "open"
  /\ Fault
  /\ conn' = [conn EXCEPT ![c] = "shut"]
  /\ UNCHANGED <<redis, heard, loops, clients, made, life, history, published>>

\* A process dies; what it was about to send is lost.
Crash(p) ==
  /\ sub[p] # "off"
  /\ Fault
  /\ sub' = [sub EXCEPT ![p] = "off"]
  /\ inbox' = [inbox EXCEPT ![p] = <<>>]
  /\ Idle(p)
  /\ hit' = IF loop[p] \in {"claim", "write"} THEN hit \cup {cur[p].id}
                                              ELSE hit
  /\ clients' = [clients EXCEPT ![p] = [b \in Bot |-> 0]]
  /\ made' = [made EXCEPT ![p] = [b \in Bot |-> 0]]
  /\ life' = [c \in Client |-> IF c[1] = p THEN "none" ELSE life[c]]
  /\ conn' = [c \in Client |-> IF c[1] = p THEN "nil" ELSE conn[c]]
  /\ stopped' = {c \in stopped : c[1] # p}
  /\ late' = {x \in late : x[1] # p}
  /\ UNCHANGED <<redis, writes, tried, published>>

-----------------------------------------------------------------------------
LoopStep(p) ==
  \/ Drop(p)
  \/ Message(p)
  \/ HSetNX(p)
  \/ HSetNXFails(p)
  \/ WriteMessage(p)
  \/ TeamAdded(p)
  \/ TeamAddedInVain(p)
  \/ LoginReturns(p)
  \/ Migrate(p)
  \/ TeamRemoved(p)
  \/ Remove(p)

ClientStep(c) ==
  \/ Dial(c)
  \/ GiveUp(c)
  \/ Register(c)
  \/ Reconnect(c)

Next ==
  \/ \E b \in Bot : \/ AddTeam(b)
                    \/ RemoveTeam(b)
                    \/ \E i \in Id \cup {Blank} : Send(b, i)
  \/ \E p \in Process : \/ InitClients(p)
                        \/ Subscribe(p)
                        \/ Deafen(p)
                        \/ LoopStep(p)
                        \/ Crash(p)
  \/ \E c \in Client : ClientStep(c) \/ ServerCloses(c)

Spec == Init /\ [][Next]_vars

\* Processes start and their goroutines are scheduled; calls of Redis and of
\* Slack's API end, with an answer or with an error.
FairSpec ==
  /\ Spec
  /\ \A p \in Process : /\ WF_vars(InitClients(p) \/ Subscribe(p))
                        /\ WF_vars(LoopStep(p))
  /\ \A c \in Client : WF_vars(ClientStep(c))

-----------------------------------------------------------------------------
(* Properties.                                                             *)

ObjectsOK ==
  /\ clients \in [Process -> [Bot -> 0..MaxClients]]
  /\ made \in [Process -> [Bot -> 0..MaxClients]]
  /\ life \in [Client -> Life] /\ conn \in [Client -> {"nil", "open", "shut"}]

LoopsOK ==
  /\ bots \subseteq Bot /\ claimed \subseteq Field
  /\ sub \in [Process -> Sub] /\ inbox \in [Process -> Seq(Command)]
  /\ loop \in [Process -> Loop] /\ cur \in [Process -> Work]
  /\ \A p \in Process : cur[p] = NoWork <=> loop[p] = "idle"
  /\ \A p \in Process : loop[p] \in {"claim", "write"} => cur[p].id \in Field

HistoryOK ==
  /\ writes \in [Field -> Nat]
  /\ tried \subseteq Field /\ hit \subseteq Field /\ stopped \subseteq Client
  /\ late \subseteq Process \X Bot
  /\ published \in 0..MaxCommands /\ faults \in 0..MaxFaults

\* A client has a socket before it is in Clients, and keeps one: the loop never
\* meets a nil c.conn.
Dialed ==
  /\ \A c \in Client : life[c] \in {"dialed", "live"} => conn[c] # "nil"
  /\ \A p \in Process, b \in Bot :
       clients[p][b] # 0 => conn[Entry(p, b)] # "nil"
  /\ \A p \in Process :
       loop[p] \in {"claim", "write"}
         => conn[<<p, cur[p].bot, cur[p].nr>>] # "nil"

\* Every variable has its type, and WriteMessage has a connection to write to.
TypeOK == ObjectsOK /\ LoopsOK /\ HistoryOK /\ Dialed

\* However many processes hear a message command, however often its id is
\* published and however often one process hears it: all of them together call
\* WriteMessage once for the id at most.
WrittenOnce == \A f \in Field : writes[f] <= 1

Written(f) == writes[f] > 0
Working(p) == loop[p] \in {"claim", "write"}

\* A message command that came as far as the HSETNX in some process is written
\* by one, unless a fault or a crash met it.
TriedIsWritten ==
  \A f \in tried :
    Written(f) \/ f \in hit \/ \E p \in Process : Working(p) /\ cur[p].id = f

\* No command, no login and no bot without a client holds up a loop for ever:
\* every backlog is worked off.
BacklogWorkedOff == \A p \in Process : inbox[p] # <<>> ~> inbox[p] = <<>>

\* "there can be multiple instances of Relax running and they all need to
\* start a Slack client" (slack/client.go:57): every process has a client for
\* every bot some time, unless the bot was added between the process' HGETALL
\* and its SUBSCRIBE, something failed, or somebody removes the bot.
BotStarted ==
  \A p \in Process, b \in Bot :
    b \in bots ~> (clients[p][b] # 0 \/ b \notin bots
                      \/ <<p, b>> \in late \/ faults > 0)

-----------------------------------------------------------------------------
(* What a test says; the code does otherwise.                              *)

\* "should stop the client" (slack/client_test.go:247): a client that a loop
\* has stopped does not open a socket again.
StoppedStaysStopped == \A c \in stopped : conn[c] # "open"
=============================================================================
