---------------------------- MODULE SlackClient -----------------------------
(***************************************************************************)
(* One Client and its goroutines: how it logs in, connects, notices that a *)
(* connection is gone and connects again (slack/client.go).                *)
(*                                                                         *)
(* Every call of LoginAndStart is a run, numbered in the order in which    *)
(* they are begun; run i opens socket i, makes ticker i and starts reader  *)
(* i (startReadFromSlackLoop) and pump i (startPingPump).  The goroutines  *)
(* of all runs share the fields of the Client: data, conn, pingTicker and  *)
(* heartBeatsMissed.  Only the increments and resets of the last are under *)
(* a mutex, so that every access to a field is a step of its own here.     *)
(***************************************************************************)
EXTENDS Naturals, FiniteSets

CONSTANTS
  MaxRuns,       \* bound: calls of LoginAndStart
  MaxFaults,     \* bound: failures of Slack's API and closes by its servers
  MaxStalls,     \* bound: sockets that go silent
  MaxRemovals,   \* bound: team_removed commands
  MaxPongs,      \* bound: pings of one socket that await their pong
  Prompt         \* the goroutines are at rest when, every 5 s, a ticker ticks

ASSUME BoundAssumption ==
  /\ MaxRuns \in Nat \ {0} /\ MaxPongs \in Nat \ {0}
  /\ MaxFaults \in Nat /\ MaxStalls \in Nat /\ MaxRemovals \in Nat
ASSUME PromptAssumption == Prompt \in BOOLEAN

Run == 1..MaxRuns
None == 0                 \* a nil pointer

VARIABLES
  used,         \* runs begun
  stage,        \* where each run is
  data,         \* c.data: the last answer of rtm.start that was stored
  conn,         \* c.conn
  ticker,       \* c.pingTicker
  missed,       \* c.heartBeatsMissed
  socket,       \* the state of each socket
  pongs,        \* pings that Slack will answer on each socket
  running,      \* tickers that have not been stopped
  due,          \* tickers with a tick in their channel
  reader,       \* where each reader is
  rconn,        \* the socket each reader reads from
  pump,         \* where each pump is
  pticker,      \* the ticker each pump ranges over
  registered,   \* the client is in Clients
  broker,       \* where the team_removed handler is
  faults, stalls, removals,   \* what the environment has done
  expired,      \* history: heartbeats that expired
  gaveUp        \* history: runs that ended for good

client  == <<data, conn, ticker, missed>>
wires   == <<socket, pongs>>
tickers == <<running, due>>
readers == <<reader, rconn>>
pumps   == <<pump, pticker>>
clients == <<registered, broker>>
budget  == <<faults, stalls, removals>>
history == <<expired, gaveUp>>
vars == <<used, stage, client, wires, tickers, readers, pumps, clients,
          budget, history>>

Stage  == {"free", "login", "limited", "start", "dialed", "spawned", "over"}
Answer == {"ok", "refused", "migrating"}
Socket == {"none", "open", "stalled", "closed"}

\* next: about to evaluate c.conn; read: inside ReadMessage; untick, close,
\* again: on the way from a read error to the next LoginAndStart.
Reader == {"none", "next", "read", "untick", "close", "again", "done"}
\* check: about to look at heartBeatsMissed; ping, expire: what it found.
Pump == {"none", "boot", "wait", "check", "ping", "expire", "untick", "close",
         "again", "done"}

Init ==
  /\ used = 1
  /\ stage = [i \in Run |-> IF i = 1 THEN "login" ELSE "free"]
  /\ data = "none" /\ conn = None /\ ticker = None /\ missed = 0
  /\ socket = [i \in Run |-> "none"]
  /\ pongs = [i \in Run |-> 0]
  /\ running = {} /\ due = {}
  /\ reader = [i \in Run |-> "none"]
  /\ rconn = [i \in Run |-> None]
  /\ pump = [i \in Run |-> "none"]
  /\ pticker = [i \in Run |-> None]
  /\ registered = FALSE /\ broker = "idle"
  /\ faults = 0 /\ stalls = 0 /\ removals = 0
  /\ expired = 0 /\ gaveUp = 0

\* go c.LoginAndStart(): the next run begins; st has the other runs' stages.
Begin(st) ==
  /\ used < MaxRuns
  /\ used' = used + 1
  /\ stage' = [st EXCEPT ![used + 1] = "login"]

\* A closed socket gives no more pongs.
Close(i) ==
  /\ socket' = [socket EXCEPT ![i] = "closed"]
  /\ pongs' = [pongs EXCEPT ![i] = 0]

\* c.Stop()
Stop == IF conn = None THEN UNCHANGED wires ELSE Close(conn)

Fault == faults < MaxFaults /\ faults' = faults + 1

-----------------------------------------------------------------------------
(* LoginAndStart.                                                          *)

\* Login stores Slack's answer; "refused" is any error but a migration.
LoginAnswered(i, a) ==
  /\ stage[i] = "login"
  /\ IF a = "ok" THEN UNCHANGED faults ELSE Fault
  /\ data' = a
  /\ stage' = [stage EXCEPT ![i] = "start"]
  /\ UNCHANGED <<used, conn, ticker, missed, wires, tickers, readers, pumps,
                 clients, stalls, removals, history>>

\* Login failed: backoff.Retry calls it again, or has been at it for too long.
Backoff(i) ==
  \/ /\ stage' = [stage EXCEPT ![i] = "login"]
     /\ UNCHANGED gaveUp
  \/ /\ stage' = [stage EXCEPT ![i] = "over"]
     /\ gaveUp' = gaveUp + 1

\* The call of rtm.start fails or its answer cannot be parsed.
LoginFails(i) ==
  /\ stage[i] = "login"
  /\ Fault
  /\ Backoff(i)
  /\ UNCHANGED <<used, client, wires, tickers, readers, pumps, clients,
                 stalls, removals, expired>>

\* Slack answers 429: Login sleeps before it calls again.
RateLimited(i) ==
  /\ stage[i] = "login"
  /\ Fault
  /\ stage' = [stage EXCEPT ![i] = "limited"]
  /\ UNCHANGED <<used, client, wires, tickers, readers, pumps, clients,
                 stalls, removals, history>>

\* Whatever the second call brings, an answer or an error, Login returns the
\* error of the first one: the err of the loop shadows the one of the function.
\* Another 429 is another sleep, the run stays where it is.
RetryAfter(i) ==
  /\ stage[i] = "limited"
  /\ Backoff(i)
  /\ UNCHANGED <<used, client, wires, tickers, readers, pumps, clients,
                 budget, expired>>

\* Mutant: the new connection stays in a local variable.
DialShadowed(i) ==
  /\ stage[i] = "start" /\ data = "ok"
  /\ socket' = [socket EXCEPT ![i] = "open"]
  /\ stage' = [stage EXCEPT ![i] = "dialed"]
  /\ UNCHANGED <<used, client, pongs, tickers, readers, pumps, clients, budget,
                 history>>

\* Start: the websocket is open and becomes the client's.
Dial(i) ==
  /\ stage[i] = "start" /\ data = "ok"
  /\ conn' = i
  /\ socket' = [socket EXCEPT ![i] = "open"]
  /\ stage' = [stage EXCEPT ![i] = "dialed"]
  /\ UNCHANGED <<used, data, ticker, missed, pongs, tickers, readers, pumps,
                 clients, budget, history>>

\* Start returns an error, which nobody looks at.
DialFails(i) ==
  /\ stage[i] = "start" /\ data = "ok"
  /\ Fault
  /\ stage' = [stage EXCEPT ![i] = "over"]
  /\ gaveUp' = gaveUp + 1
  /\ UNCHANGED <<used, client, wires, tickers, readers, pumps, clients,
                 stalls, removals, expired>>

Refused(i) ==
  /\ stage[i] = "start" /\ data = "refused"
  /\ stage' = [stage EXCEPT ![i] = "over"]
  /\ gaveUp' = gaveUp + 1
  /\ UNCHANGED <<used, client, wires, tickers, readers, pumps, clients,
                 budget, expired>>

\* migration_in_progress: a new run takes over.
Migrate(i) ==
  /\ stage[i] = "start" /\ data = "migrating"
  /\ Begin([stage EXCEPT ![i] = "over"])
  /\ UNCHANGED <<client, wires, tickers, readers, pumps, clients, budget,
                 history>>

\* Start makes the ticker and starts the two goroutines.
Spawn(i) ==
  /\ stage[i] = "dialed"
  /\ ticker' = i
  /\ running' = running \cup {i}
  /\ reader' = [reader EXCEPT ![i] = "next"]
  /\ pump' = [pump EXCEPT ![i] = "boot"]
  /\ stage' = [stage EXCEPT ![i] = "spawned"]
  /\ UNCHANGED <<used, data, conn, missed, wires, due, rconn, pticker, clients,
                 budget, history>>

\* After an HSET for the tests, Start enters the client in Clients.
Register(i) ==
  /\ stage[i] = "spawned"
  /\ registered' = TRUE
  /\ stage' = [stage EXCEPT ![i] = "over"]
  /\ UNCHANGED <<used, client, wires, tickers, readers, pumps, broker, budget,
                 history>>

-----------------------------------------------------------------------------
(* startReadFromSlackLoop                                                  *)

\* c.conn.ReadMessage() is called on what c.conn is now.
Read(i) ==
  /\ reader[i] = "next"
  /\ rconn' = [rconn EXCEPT ![i] = conn]
  /\ reader' = [reader EXCEPT ![i] = "read"]
  /\ UNCHANGED <<used, stage, client, wires, tickers, pumps, clients, budget,
                 history>>

\* A message that is not a pong (module SendEvent has what becomes of it).
Message(i) ==
  /\ reader[i] = "read" /\ socket[rconn[i]] = "open"
  /\ reader' = [reader EXCEPT ![i] = "next"]
  /\ rconn' = [rconn EXCEPT ![i] = None]
  /\ UNCHANGED <<used, stage, client, wires, tickers, pumps, clients,
                 budget, history>>

\* handleMessage of a pong.
Pong(i) ==
  /\ reader[i] = "read" /\ socket[rconn[i]] = "open" /\ pongs[rconn[i]] > 0
  /\ pongs' = [pongs EXCEPT ![rconn[i]] = @ - 1]
  /\ missed' = 0
  /\ reader' = [reader EXCEPT ![i] = "next"]
  /\ rconn' = [rconn EXCEPT ![i] = None]
  /\ UNCHANGED <<used, stage, data, conn, ticker, socket, tickers,
                 pumps, clients, budget, history>>

\* ReadMessage fails; ResetHeartBeatsMissed.
ReadFails(i) ==
  /\ reader[i] = "read" /\ socket[rconn[i]] = "closed"
  /\ missed' = 0
  /\ reader' = [reader EXCEPT ![i] = "untick"]
  /\ rconn' = [rconn EXCEPT ![i] = None]
  /\ UNCHANGED <<used, stage, data, conn, ticker, wires, tickers,
                 pumps, clients, budget, history>>

\* Mutant: the ticker is not stopped.
ReaderKeepsTicker(i) ==
  /\ reader[i] = "untick"
  /\ reader' = [reader EXCEPT ![i] = "close"]
  /\ UNCHANGED <<used, stage, client, wires, tickers, rconn, pumps, clients,
                 budget, history>>

\* c.pingTicker.Stop(): the client's ticker now; a tick in its channel stays.
ReaderStopsTicker(i) ==
  /\ reader[i] = "untick"
  /\ running' = running \ {ticker}
  /\ reader' = [reader EXCEPT ![i] = "close"]
  /\ UNCHANGED <<used, stage, client, wires, due, rconn, pumps, clients,
                 budget, history>>

\* Mutant: the loop ends without a new LoginAndStart.
ReaderEnds(i) ==
  /\ reader[i] = "close"
  /\ Stop
  /\ reader' = [reader EXCEPT ![i] = "done"]
  /\ UNCHANGED <<used, stage, client, tickers, rconn, pumps, clients,
                 budget, history>>

ReaderStops(i) ==
  /\ reader[i] = "close"
  /\ Stop
  /\ reader' = [reader EXCEPT ![i] = "again"]
  /\ UNCHANGED <<used, stage, client, tickers, rconn, pumps, clients,
                 budget, history>>

ReaderRestarts(i) ==
  /\ reader[i] = "again"
  /\ Begin(stage)
  /\ reader' = [reader EXCEPT ![i] = "done"]
  /\ UNCHANGED <<client, wires, tickers, rconn, pumps, clients, budget,
                 history>>

-----------------------------------------------------------------------------
(* startPingPump                                                           *)

\* The range expression is evaluated once.
PumpBoots(i) ==
  /\ pump[i] = "boot"
  /\ pticker' = [pticker EXCEPT ![i] = ticker]
  /\ pump' = [pump EXCEPT ![i] = "wait"]
  /\ UNCHANGED <<used, stage, client, wires, tickers, readers, clients,
                 budget, history>>

\* Mutant: the missed heartbeat is not counted.
TickUncounted(i) ==
  /\ pump[i] = "wait" /\ pticker[i] \in due
  /\ due' = due \ {pticker[i]}
  /\ pump' = [pump EXCEPT ![i] = "check"]
  /\ UNCHANGED <<used, stage, client, wires, running, readers, pticker,
                 clients, budget, history>>

\* A tick is received; IncrementHeartBeatsMissed.
Tick(i) ==
  /\ pump[i] = "wait" /\ pticker[i] \in due
  /\ due' = due \ {pticker[i]}
  /\ missed' = missed + 1
  /\ pump' = [pump EXCEPT ![i] = "check"]
  /\ UNCHANGED <<used, stage, data, conn, ticker, wires, running, readers,
                 pticker, clients, budget, history>>

\* The counter is looked at without its mutex; what it says is acted on later.
Check(i) ==
  /\ pump[i] = "check"
  /\ pump' = [pump EXCEPT ![i] = IF missed >= 3 THEN "expire" ELSE "ping"]
  /\ UNCHANGED <<used, stage, client, wires, tickers, readers, pticker,
                 clients, budget, history>>

\* A ping on what is the client's socket by now.
Ping(i) ==
  /\ pump[i] = "ping"
  /\ IF socket[conn] = "open"
     THEN /\ pongs[conn] < MaxPongs
          /\ pongs' = [pongs EXCEPT ![conn] = @ + 1]
     ELSE UNCHANGED pongs
  /\ pump' = [pump EXCEPT ![i] = "wait"]
  /\ UNCHANGED <<used, stage, client, socket, tickers, readers, pticker,
                 clients, budget, history>>

\* Mutant: the counter is not reset.
ExpireUnreset(i) ==
  /\ pump[i] = "expire"
  /\ expired' = expired + 1
  /\ pump' = [pump EXCEPT ![i] = "untick"]
  /\ UNCHANGED <<used, stage, client, wires, tickers, readers, pticker,
                 clients, budget, gaveUp>>

\* ResetHeartBeatsMissed, whatever the counter is by now: another pump, or a
\* pong, may have reset it since the check.
Expire(i) ==
  /\ pump[i] = "expire"
  /\ missed' = 0
  /\ expired' = expired + 1
  /\ pump' = [pump EXCEPT ![i] = "untick"]
  /\ UNCHANGED <<used, stage, data, conn, ticker, wires, tickers, readers,
                 pticker, clients, budget, gaveUp>>

PumpStopsTicker(i) ==
  /\ pump[i] = "untick"
  /\ running' = running \ {ticker}
  /\ pump' = [pump EXCEPT ![i] = "close"]
  /\ UNCHANGED <<used, stage, client, wires, due, readers, pticker, clients,
                 budget, history>>

PumpStops(i) ==
  /\ pump[i] = "close"
  /\ Stop
  /\ pump' = [pump EXCEPT ![i] = "again"]
  /\ UNCHANGED <<used, stage, client, tickers, readers, pticker,
                 clients, budget, history>>

PumpRestarts(i) ==
  /\ pump[i] = "again"
  /\ Begin(stage)
  /\ pump' = [pump EXCEPT ![i] = "done"]
  /\ pticker' = [pticker EXCEPT ![i] = None]
  /\ UNCHANGED <<client, wires, tickers, readers, clients, budget,
                 history>>

-----------------------------------------------------------------------------
(* team_removed, handled in startReadFromRedisPubSubLoop.                  *)

RemoveStops ==
  /\ broker = "idle" /\ registered
  /\ removals < MaxRemovals /\ removals' = removals + 1
  /\ Stop
  /\ broker' = "remove"
  /\ UNCHANGED <<used, stage, client, tickers, readers, pumps, registered,
                 faults, stalls, history>>

Remove ==
  /\ broker = "remove"
  /\ registered' = FALSE
  /\ broker' = "idle"
  /\ UNCHANGED <<used, stage, client, wires, tickers, readers, pumps, budget,
                 history>>

-----------------------------------------------------------------------------
(* Slack's servers, the network and the clock.                             *)

ServerCloses(i) ==
  /\ socket[i] = "open"
  /\ Fault
  /\ Close(i)
  /\ UNCHANGED <<used, stage, client, tickers, readers, pumps, clients, stalls,
                 removals, history>>

\* Nothing comes through any more, and nobody is told.
Stall(i) ==
  /\ socket[i] = "open"
  /\ stalls < MaxStalls /\ stalls' = stalls + 1
  /\ socket' = [socket EXCEPT ![i] = "stalled"]
  /\ pongs' = [pongs EXCEPT ![i] = 0]
  /\ UNCHANGED <<used, stage, client, tickers, readers, pumps, clients,
                 faults, removals, history>>

\* The goroutines of run i have nothing to do until the next tick.
AtRest(i) ==
  /\ stage[i] \notin {"dialed", "spawned"}
  /\ \/ reader[i] \in {"none", "done"}
     \/ /\ reader[i] = "read"
        /\ socket[rconn[i]] # "closed" /\ pongs[rconn[i]] = 0
  /\ \/ pump[i] \in {"none", "done"}
     \/ pump[i] = "wait" /\ pticker[i] \notin due

\* Five seconds have passed; the channel of a ticker holds one tick.
Fire(t) ==
  /\ t \in running \ due
  /\ Prompt => \A i \in Run : AtRest(i)
  /\ due' = due \cup {t}
  /\ UNCHANGED <<used, stage, client, wires, running, readers, pumps, clients,
                 budget, history>>

-----------------------------------------------------------------------------
RunStep(i) ==
  \/ \E a \in Answer : LoginAnswered(i, a)
  \/ LoginFails(i)
  \/ RateLimited(i)
  \/ RetryAfter(i)
  \/ Dial(i)
  \/ DialFails(i)
  \/ Refused(i)
  \/ Migrate(i)
  \/ Spawn(i)
  \/ Register(i)

ReaderStep(i) ==
  \/ Read(i)
  \/ Pong(i)
  \/ ReadFails(i)
  \/ ReaderStopsTicker(i)
  \/ ReaderStops(i)
  \/ ReaderRestarts(i)

PumpStep(i) ==
  \/ PumpBoots(i)
  \/ Tick(i)
  \/ Check(i)
  \/ Ping(i)
  \/ Expire(i)
  \/ PumpStopsTicker(i)
  \/ PumpStops(i)
  \/ PumpRestarts(i)

Next ==
  \/ \E i \in Run : \/ RunStep(i)
                    \/ ReaderStep(i)
                    \/ PumpStep(i)
                    \/ Message(i)
                    \/ ServerCloses(i)
                    \/ Stall(i)
                    \/ Fire(i)
  \/ RemoveStops
  \/ Remove

Spec == Init /\ [][Next]_vars

\* Goroutines are scheduled, calls of Slack's API end, tickers tick.
FairSpec ==
  /\ Spec
  /\ \A i \in Run : /\ WF_vars(RunStep(i))
                    /\ WF_vars(ReaderStep(i))
                    /\ WF_vars(PumpStep(i))
                    /\ WF_vars(Fire(i))

-----------------------------------------------------------------------------
(* Properties.                                                             *)

RunsOK == used \in Run /\ stage \in [Run -> Stage]

FieldsOK ==
  /\ data \in Answer \cup {"none"}
  /\ conn \in Run \cup {None} /\ ticker \in Run \cup {None}
  /\ missed \in Nat

WiresOK ==
  /\ socket \in [Run -> Socket] /\ pongs \in [Run -> 0..MaxPongs]
  /\ running \subseteq Run /\ due \subseteq Run

LoopsOK ==
  /\ reader \in [Run -> Reader] /\ rconn \in [Run -> Run \cup {None}]
  /\ pump \in [Run -> Pump] /\ pticker \in [Run -> Run \cup {None}]

CountersOK ==
  /\ registered \in BOOLEAN /\ broker \in {"idle", "remove"}
  /\ faults \in 0..MaxFaults /\ stalls \in 0..MaxStalls
  /\ removals \in 0..MaxRemovals
  /\ expired \in Nat /\ gaveUp \in Nat

PointersOK ==
  /\ \A i \in Run : stage[i] = "dialed" => conn # None
  /\ \A i \in Run : reader[i] = "read" => rconn[i] # None
  /\ \A i \in Run : reader[i] # "none" \/ pump[i] # "none"
                      => conn # None /\ ticker # None

\* Every variable has its type, and no goroutine uses a nil c.conn or
\* c.pingTicker.
TypeOK ==
  RunsOK /\ FieldsOK /\ WiresOK /\ LoopsOK /\ CountersOK /\ PointersOK

\* A run on its way to a socket, a reader, a pump on its way to a new run:
\* whatever keeps the client going.
Connecting(i)   == stage[i] \in {"login", "limited", "start", "dialed"}
Reading(i)      == reader[i] \notin {"none", "done"}
Reconnecting(i) == pump[i] \in {"untick", "close", "again"}

Lines == Cardinality({i \in Run : Connecting(i)})
           + Cardinality({i \in Run : Reading(i)})
           + Cardinality({i \in Run : Reconnecting(i)})

\* The reconnects neither die out nor multiply by themselves: every expired
\* heartbeat adds a line of goroutines for good (the pump and the reader it
\* disturbs both call LoginAndStart), every run that gives up ends one.
LinesConserved == Lines + gaveUp = 1 + expired

\* Pumps between their increment of the counter and their verdict on it: an
\* expired one is there until it has reset the counter.
Checking == {i \in Run : pump[i] \in {"check", "expire"}}

\* The counter of missed heartbeats exceeds 2 only by the pumps that have counted
\* a tick and not yet looked, or looked and not yet reset it: the check is not
\* under the mutex, several pumps may find one expiry, each of them resets.
MissedBounded == missed <= 2 + Cardinality(Checking)

\* As long as no heartbeat has expired, whatever Slack's servers do: one line,
\* and it owns the only socket in use and the only running ticker.
OneLine ==
  expired = 0 =>
    /\ \A i, j \in Run :
         (Connecting(i) \/ Reading(i)) /\ (Connecting(j) \/ Reading(j)) => i = j
    /\ \A i \in Run : socket[i] \in {"open", "stalled"}
         => i = conn /\ (stage[i] = "dialed" \/ Reading(i))
    /\ \A t \in running : t = ticker /\ reader[t] \in {"next", "read", "untick"}

\* The heartbeat does what it is for: a silent socket of the client is closed
\* or replaced.
StallNoticed ==
  \A i \in Run : (conn = i /\ socket[i] = "stalled")
                     ~> (conn # i \/ socket[i] = "closed")

\* A reader waits, or is about to, on an open socket that is the client's.
Connected ==
  \E i \in Run : /\ \/ reader[i] = "next" /\ conn # None
                    \/ reader[i] = "read" /\ rconn[i] = conn
                 /\ socket[conn] = "open"

\* A client whose connection is closed is connected again, unless a run gave up
\* or the bot was removed (a removed client is to stay away: module Broker).
Reconnects == ~ Connected ~> (Connected \/ gaveUp > 0 \/ removals > 0)
=============================================================================
