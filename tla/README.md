# Relax, specified

Relax is a broker between chat bots and Slack. A process keeps one websocket to
Slack's RealTime API for every bot (*team*) it finds in Redis, turns what Slack
says into events on a Redis list, and sends what bots say from a Redis pubsub
channel to Slack. Several processes may run side by side ("high availability"):
all connect every bot, and a hash in Redis (`RELAX_MUTEX_KEY`) decides which of
them acts.

This directory has TLA+ models of the parts of `src/` that are hard to test, the
TLC configurations that check them, and TLAPS proofs. `PROJECT.json` lists
components, runs, mutants, the map from definitions to source lines, findings,
hazards and theorems.

## Inventory

| Component | State | Operations | Meets | What is hard |
|---|---|---|---|---|
| Translation (`handleMessage`, `datatypes.go`) | metadata of a team: users, channels, IMs | one case per message type | Login, sendEvent | two timestamps per event; metadata that is out of date; which event falls on which mutex field |
| `sendEvent` | the mutex hash and the events queue, shared by all processes | HSETNX, then RPUSH | Redis, other processes | the two commands are not a transaction; the library retries; errors are dropped; crashes |
| Client lifecycle (`Login`, `Start`, `LoginAndStart`, `startReadFromSlackLoop`, `startPingPump`, `Stop`) | `data`, `conn`, `pingTicker`, `heartBeatsMissed`; a socket, a ticker, a reader and a pump for each LoginAndStart | login with backoff and rate limit, dial, read, ping, expire, reconnect | Slack, the clock, Clients | goroutines of several LoginAndStarts share unlocked fields; who reconnects; heartbeat against late pongs |
| Pubsub loop (`startReadFromRedisPubSubLoop`) | the subscription, the `Clients` map | message, team_added, team_removed | every client, Redis, other processes | claims before it writes; blocks in LoginAndStart; stops clients that reconnect; a broken subscription |
| `InitClients` | - | HGETALL, then subscribe | Redis | commands between the two are missed |
| Reading commands (`ReceiveTimeout`, the parser and `bufio` of redis.v3) | the buffer, the array being read | parse, time out | the pubsub loop | a timeout in the middle of a reply |
| Redis connections (`redisclient.Client`, redis.v3's pool, Multi, PubSub) | a mutex; the pool's list, counter and free channel; a connection per session | PING until PONG; Get, Put, Remove; retry | everybody who uses Redis | everybody waits; connections lost, shared or counted wrongly; the session's own connection |
| Websocket (`gorilla/websocket` as a client) | the write buffer, its position, the mutex, the message being read | WriteMessage, ReadMessage, answers to control frames, Close | pump, pubsub loop, reader | two writers on one buffer; a close frame between frames; fragments |
| `main`, health check, stop and restart (`grace`, `httpdown`) | processes and signals, the listening socket, the connections | SIGTERM, SIGUSR2, Stop, manage | the operator, net/http | two processes hand over one socket; channels closed under their senders; timeouts |
| Botmetrics | a field of the mutex hash | claim, one HTTP call | Redis, the pubsub loop | as sendEvent |
| `callSlack`, `callAPI`, backoff | - | one POST, repeated | Slack | modelled by their outcomes |
| `utils`, logging | - | - | - | nothing: pure I/O |

What makes them correct: an event is queued at most once, or as often as faults
explain; nothing is lost without a fault; one message never appears in two
versions; events name the messages they are about; a client always has a way
back to a connection, and one only; a dead socket is noticed; a command reaches
Slack once; the pubsub loop never stops listening; what is read from a socket is
what was written to it; a connection has one user at a time; everybody gets a
connection or an error; a restart drops no request.

## Modules

| Module | Content |
|---|---|
| `Events` | the translation as pure operators: metadata, `Sends`, `Learn`, `EventFor`, `KeyOf` |
| `Delivery` | abstract: what the consumer of the queue may rely on |
| `SendEvent` | `Events` in motion: processes, Redis, the library's retries, crashes, clocks |
| `SlackClient` | one client with all its goroutines |
| `Broker` | the commands: several processes, their pubsub loops and `Clients` maps, over an abstraction of `SlackClient` |
| `PubSubReader` | under `Broker`: how one loop gets its commands from the bytes of its connection |
| `RedisPool` | under `SendEvent` and `Broker`: how the goroutines of one process get and keep connections to Redis |
| `WebSocket` | under `SlackClient` and `Broker`: one connection to Slack, written by the pump and the loop, read by the reader |
| `GraceServer` | the processes themselves: start, hand-over, stop |
| `SendEventProofs`, `SlackClientProofs`, `BrokerProofs`, `WebSocketProofs`, `RedisPoolProofs`, `PubSubReaderProofs`, `GraceServerProofs` | theorems |
| `MC...` | instances for TLC |

Definitions called "Mutant" in their comment are plausible bugs. They are used
by no specification: each replaces the definition after it to see that a
property notices.

### SendEvent

A *sender* is a client in one process. `Connect` and `Refused` are the two ends
of `LoginAndStart`, `Disconnect` the end of the read loop, `HandleMessage` all of
`handleMessage` up to the call of `sendEvent`. From there `HSetNX`, `RPush`,
`HSetNXLost`, `RPushLost` and `CommandFails` are the outcomes of the two
commands: answered; broken off before or after Redis executed it and then tried
again (`Retry`, `baseClient.process` of redis.v3); refused (no connection or an
error reply), which is not tried again. `redis.Multi` without `Exec` sends each
command at once, so the steps of other processes may fall in between. `Crash`
takes all clients of a process down; Redis keeps what it has. `Tick` moves the
clock of one process on by a minute, which is all that `channel_joined` looks at.

`offered` and `hit` are history: the events handed to `sendEvent`, and the fields
whose event met a fault. The queue is everything ever pushed; the consumer's
LPOP does not change what is true of it.

A message has ids, timestamps and its type. An id that is absent, or that the
metadata does not know, is `Blank`, since a lookup in a Go map yields the zero
value. `parses` says whether the raw user or channel unmarshals.

### SlackClient

Every call of `LoginAndStart` is a *run*; run *i* opens socket *i*, makes ticker
*i* and starts reader *i* and pump *i*. All runs share the client's fields, and
each read or write of a field is a step of its own: `Read` picks up `c.conn`,
`PumpBoots` evaluates the range expression, `ReaderStopsTicker` and `ReaderStops`
work on whatever `c.pingTicker` and `c.conn` are by then. A tick is `Tick` (the
increment, under the mutex), `Check` (the comparison, outside of it) and then `Ping` or
`Expire` (the reset, under the mutex again), so that two pumps may both find the counter
at three. The other fields are read and written without a lock; the model takes each access as atomic and in program
order (a pointer or an `int64` is one word), and does not model the reorderings
that Go's memory model would allow. `Stop` of a ticker leaves a tick in its
channel and does not close it, so a pump whose ticker was stopped waits for ever
(`wait`, not `done`). The timeout branch of the read loop is not modelled: no
read deadline is ever set.

`Prompt` is a timing assumption used where a run says so: all goroutines have
come to rest when, every five seconds, a ticker ticks.

### Broker

A bot stands for its key in `RELAX_BOTS_KEY` and in `Clients`; a client is a
process, a bot and a number, since team_added makes a new one. `AddTeam`,
`RemoveTeam` and `Send` are what bots do (the README has HSET and PUBLISH in one
transaction); Redis passes a command to those who are subscribed at that moment.
`InitClients` and `Subscribe` are two steps, so that commands can fall between
them (`late` remembers which bots). `Deafen` is a subscription that breaks: the
loop then receives errors from the same connection for ever. A `message` command
is `Receive` and the look into `Clients` (`Message` or `Drop`), the HSETNX
(`HSetNX`, `HSetNXFails`) and the `WriteMessage`, each a step of its own;
`writes` counts the calls of
`WriteMessage` for every mutex field, of all processes together, whatever becomes of the
bytes. team_added blocks the loop in `start` until `LoginReturns`; team_removed is
`TeamRemoved` (Stop) and `Remove` (Clients.Remove). A client is `login`, `dialed`,
`live` or `over`: what `SlackClient` says of it in detail, without heartbeats.
Commands that do not parse, are of another type or name no team change nothing
and are left out.

### PubSubReader

A command is seven tokens: the head of the array, and a length and the data of
each of its three strings. The model begins when SUBSCRIBE has been sent: its reply is on
the wire before all commands, six tokens, since its third element is a number
(`ParseCount`). It can be torn like the others. A token may be cut anywhere, or between its text and
its line end. `Silence`, `DataCut`, `WrongCut` and `LineCut` are the places where
100 ms without a byte meet the parser. `ReadN` throws away what it has and returns
an error; `ReadLine` returns what it has as if it were a line, so that half a
length is taken for a length (`want = "wrong"`). The loop calls `ReceiveTimeout`
again after every error, in the middle of the reply. Rests that do not look like
a reply are errors; a string or a number outside an array, or an empty line, panics. The model
takes payloads as single-line JSON that is shorter than the buffer (4096 bytes);
the end of a payload that is read as something else is no command.

### RedisPool

The steps are what other goroutines can see: the atomic add of `Reserve` and its
undoing, a send or a receive on `freeConns`, a change of the list under its lock.
A caller sends a single command or runs `sendEvent`'s session, whose Multi keeps
its connection from the HSETNX to the UNWATCH of Close; the listener writes its
SUBSCRIBE (`Subscribed`) and keeps the connection for good, or, if the write fails,
removes it and is deaf. `Return` is what a caller does with a result: `redisclient.Client` repeats
PING inside the mutex, `sendEvent` goes on to UNWATCH. `Break` is a lost
connection, retried or not (`shouldRetry`), `Refuse` an error reply (`refused` counts
those to UNWATCH, the only ones that should cost a connection), `DialFails` a
failed dial, a refused AUTH or the dial rate limit, `AuthBreaks` a connection lost
during AUTH (which panics: that connection's pool is nil), `Silence` a Redis that
says nothing: to a command, or to the AUTH of a new connection in Get or in Remove,
which has no read timeout either. A PING may be refused without end: that is not
counted among the failures (`Refusal`). Relax sets no idle timeout and no read timeout and never closes the
pool: the reaper, `isIdle` and `Close` are left out. `Timeout` may fire whenever a
goroutine waits.

### WebSocket

A message is a number of pieces of which the write buffer holds `BufSize`.
`WriteMessage` is `NextWriter`, `BeginMessage`, then `NCopy` and `Copy` for every
piece, and for every frame `MakeFrame` (header, mask), `Lock`, `Put`, `Reset`.
Every access to a field of the `Conn` that another goroutine could fall between is a
step of its own. A piece remembers how often it was masked in the buffer: masked
once, the server reads it; not at all or twice, it does not. The reader takes the
frames the server sends, any in any order, `bad` ones included; a frame it answers
goes through `WriteControl`, which waits a second for the mutex
(`WriteControlTimeout`). The bytes of a write that misses its deadline may be on the
wire or not.

### GraceServer

A process is `exec`, `boot` (in InitClients), `serve`, `told`, `up`, `gone`; `stopper` is
`Stop` of httpdown, `manager` its `manage` goroutine, and each connection has its
state in net/http (`st`) and in manage's map (`known`). A `2` in front of a state
is connState before its send. `Usr2` starts a process with the listening socket,
`TellParent` sends SIGTERM to the parent when the new process serves, `Notify` is
signal.Notify, which runs later, in a goroutine that a goroutine starts; `Signal` is what
a signal does to a process that handles it and to one that does not, or not yet.
`Usr2Fails`, `ListenFails` and `AcceptFails` are the errors that end main. `forced` are the
processes that could not stop in order: killed, failed or timed out; `ordered` says that
the operator or an error has ended the service. `PORT` is
set; with port 0 a child would listen on another socket. net/http is external.

## Runs

| Run | Checks | Instance |
|---|---|---|
| `ha` | `OnceUnlessFault`, `CopiesBounded`, `OneVersionPerField`, `NoSilentLoss`, `LostStaysLost`, refinement `Delivers`, `EventuallySent` | 2 processes with metadata from before or after a change, 1 message, 1 retry, 1 crash |
| `kinds` | `OnlyTwinsShadow`, `IdentifiesTarget` | 1 process, 2 bots of one team in two namespaces; a message, its edit, its deletion, a reaction, a joined channel (unknown until then), and messages that handleMessage ignores; 3 messages handled, 1 field hit (`Few`) |
| `client` | `TypeOK`, `LinesConserved`, `MissedBounded`, `OneLine`, `StallNoticed` | 2 runs, 2 stalls, 1 failure or close, goroutines at any pace |
| `reconnect` | `Reconnects` | 4 runs, 3 failures, 1 team_removed, `Prompt` |
| `broker` | `TypeOK`, `WrittenOnce`, `TriedIsWritten` | 2 processes, 1 bot, 2 commands, 1 failure or crash |
| `loop` | `BacklogWorkedOff`, `BotStarted` | 1 process, 3 commands, 4 clients, 1 failure or crash |
| `torn` | `DeliveredInOrder`, `PanicIfTorn`, `Heard` | the reply to SUBSCRIBE and 3 commands, cut and delayed anywhere |
| `pool` | `Exclusive`, `PlacesCounted`, `SendsNeverBlock`, `LostByRefusal`, `OneLossSurvived`, `Answered`, `ClientReturns` | 2 callers and the loop on 1 connection with a password, 1 retry, 2 failures of any kind, PINGs refused any number of times |
| `frames` | `NothingAfterClose`, `IntactUnlessRaced`, `PanicIfRaced`, `ReadsWhole` | a ping of one piece, a command of three, a buffer of two, 2 frames of the server |
| `grace` | `TypeOK`, `SendsReceived`, `NothingCutOff`, `AlwaysServed`, `Leaves` | 3 processes, 2 signals or socket errors, 2 HTTP connections |
| `once`, `stopped` | one sentence each of a comment and of a test | the smallest that shows the disagreement |

Bounds. Two processes are enough to race, to disagree about metadata and to have
one die while the other goes on; a third adds only another loser of the claim.
One retry tells "once more" from "once"; the theorems hold for every bound. One
crash and one failed attempt already reach every point of `sendEvent` and of the
pubsub loop. In `client` a closed socket with a slow reader lets the heartbeat
expire (the second line of goroutines then shows as a reader about to begin a third
run), and the second socket may stall while the clean-up of the first run still
goes on. `reconnect` has one run more than its failures can use up (after the
removal `Reconnects` asks for nothing), so that no run is refused for the bound's sake;
`loop` likewise has a client more than team_added can make. In `kinds` two clients race
for every field, and three messages handled by them are enough for two that shadow each
other with a third that could be mistaken for one of them, or an edit and its message with
a metadata change between; failed commands have the run `ha` to themselves, one is left
here. `MaxPongs` bounds the pings on the way. In `pool`
three goroutines compete for one connection, so all the paths of `Get` (free,
dial, wait, timeout) are taken, and the second failure can hit while the first is
repaired. `frames` needs a message of more than one frame (three pieces in a buffer
of two), a second writer, and a control frame between them. In `torn` the third
command shows whether the reader is in step again after a torn one and the one it
may spoil. `frames` has room for two frames of the server, which cannot show a control frame
between two fragments: `MessagesWhole` is proved for any number. `grace` has a grandchild: a process that is started while its parent has
not yet left. `CHECK_DEADLOCK FALSE` stands in every configuration because every
instance is finite: messages, failures, runs and signals come to an end.

Fairness. `FairSpec` of `SendEvent` says that every Redis command ends, in any of
its outcomes. That is an assumption about Redis, not about the code: a wait for the
pool ends after a second and a dial after five, but the connections have no read
timeout. `RedisPool` has the silent Redis (`Silence`), and there `Answered` says who is
not affected and `ClientReturns` who is. `ClientReturns` has one assumption more (`SF` of
`PingServed`): Redis does not refuse every PING, and every dial for one, for ever. If it
does, one goroutine repeats PING inside the mutex and all others wait, as the loop in
`redisclient/client.go:49` is written. `FairSpec` of `SlackClient` and of `Broker`
says that goroutines are scheduled, tickers tick and calls of Slack's API end;
`callAPI`'s `http.Client` has no timeout either, so this too is said of Slack. Neither
says that Slack sends messages (`Message` is not fair), that logins succeed (the
budget of failures bounds how often they do not), or that sockets close.
`PubSubReader`: what was sent arrives, the loop runs, its timeouts fire.
`GraceServer`: the goroutines of a process that is to stop and of its connections run, and
timers fire; nothing is assumed of a process that starts (InitClients may take for ever),
of HTTP clients or of the length of a request.

### What the violations show

* `once`: the reply to an RPUSH is lost, redis.v3 sends it again, the queue has
  the event twice. "Send only once" (`client.go:321`) holds without faults
  (`OnceUnlessFault`), and in general up to `MaxRetries + 1` copies.
* `stopped`: the socket that team_added or team_removed closes is taken for a lost
  connection, and the stopped client comes back, beside the new one or after the
  removal.

What else the models show of the code, without a run of its own, since one reads it
off a definition or off the exception in a property:

* After one failed dial, or when backoff gives up, nothing ever starts the client
  again (`Reconnects` excepts it).
* An expired heartbeat leaves two lines of goroutines, and both readers take up the
  same `c.conn` (`OneLine`, `LinesConserved`).
* The mutex field has no namespace in it: of two bots of one team in different
  namespaces only one is told (`Key`, `OnlyTwinsShadow`).
* An event in a channel the client does not know names no channel (`IdentifiesTarget`
  says its timestamp still is the message's).
* `event_timestamp` is never the empty string that the README promises for three
  types (`StampedAt`); those events get their field from the local clock, so each
  process queues its own.
* After a 429 the answer to the second call is thrown away because of a shadowed
  `err` (`RetryAfter`): only backoff's next call can succeed.
* A bot added between HGETALL and SUBSCRIBE gets no client (`BotStarted`, `late`); a
  subscription that breaks is never renewed (`Deafen`).
* 100 ms of silence inside a command, or inside the reply to SUBSCRIBE, lose it, and can
  bring the process down (`PanicIfTorn`).
* A Redis that does not answer AUTH holds up the goroutine that dials for ever and, if it
  dials for the first PING, everybody who waits for the mutex of `redisclient.Client`
  (`Silence`, `ClientReturns`).
* A second connection lost while the first is being replaced panics with "conn not
  found in the list" (`OneLossSurvived`); a refused UNWATCH costs the pool a connection
  (`LostByRefusal`); AUTH on a connection that breaks panics (`AuthBreaks`).
* The pump and the pubsub loop write to one websocket without a lock, which the
  library forbids: frames are mixed, or a slice is out of bounds (`raced`).
* A stop timeout that meets the end of `manage` sends on a closed channel
  (`SendKill`).
* A signal that meets a new process after its SIGTERM to the parent and before its
  signal.Notify kills it, while the parent is stopping: nobody serves. `AlwaysServed`
  excepts this window by name.
* A failed accept ends main at once and cuts off the connections (`AcceptFails`).

## Proofs

Assumptions are those of the modules (`SenderAssumption`,
`EnvironmentAssumption`, `BoundAssumption`, `IdAssumption`, `SizeAssumption`, ...): the
types of the constants. Processes, messages, retries, runs, sizes and failures are
unbounded. Every invariant and every action property that a passing run checks is a
theorem of the specification, two of them under hypotheses about Slack.

`SendEventProofs`. The properties are not inductive: that two processes never
push under one field depends on who holds the claim. The invariant `Inv` adds:
everything queued and everything being pushed is claimed, and no two senders push
under one field (`ClaimInv`); what is queued under the field of a pusher is its
own event (`VersionInv`); a pusher has at most one copy in the queue for every
failed attempt (`CopiesInv`), none if it met no fault (`OnceInv`); a claimed field
is queued, hit or being pushed (`LossInv`). Lemma `StepShape` reduces the steps to
four kinds (quiet, a claim won, a claim made blindly, a push), and each part of
`Inv` is preserved by each kind. `SendsOnce`, `BoundedCopies`, `OneVersion` and
`NothingLostSilently` follow; `LostForever` is an action property from the same
invariant; `Implements` shows the refinement of `Delivery`: `mutex` is `claimed`,
a won or blind claim is `Claim`, a push is `Enqueue`, the rest stutters.

Two theorems about what the consumer reads have a hypothesis about Slack, since no
code can keep them without it; the instance `kinds` satisfies both. `TwinsOnly`: if Slack
gives what happens in one channel different times (`TimesTell`), an event is missing from
the queue only because another event of the same happening took its field, as the bots of
one team in different namespaces always do to each other, or because of a fault. It is not
assumed that fields are distinct. `OfferedInv` says that whatever is queued or being sent
was handed to `sendEvent`, `TellsInv` that every event with a timestamp of Slack's was made
from a message with the same team, type, channel and timestamps; so two events of one field
are of messages that `TimesTell` makes tell of the same. `TargetsIdentified`: if edits,
deletions and reactions are about messages that exist (`TargetsExist`), their events name
one, in its channel or, if the client did not know that channel, in none (`AboutInv`).

`SlackClientProofs`. `TypeCorrect` includes that no goroutine meets a nil
connection or ticker. `OneLineAtATime` rests on `LineInv`: runs that have not
begun left no trace, a run has no goroutines before its end, pumps reconnect
only after an expiry, and a reader about to call LoginAndStart has stopped the
only ticker and closed the only socket (`HandOver`). Lemma `Quiet` covers the steps
that bring nothing new into play. `HeartBeatsBounded` counts the pumps between their
increment and their ping or reset; each reset, however many pumps found the same expiry,
starts the count again. `LinesAlwaysConserved` counts too: the runs that connect, those
whose reader reads and those about to reconnect are finite sets, and every step moves a
line from one set to another (`LineReads`, `LineRestarts`), ends one together with
`gaveUp`, adds one together with `expired`, or leaves them alone; `LineInv` makes sure
that the run a line moves to had none.

`BrokerProofs`. That a command is written once depends on who is on the way to
write it: `WriteInv` adds that an id which is written, or which a loop is about to
write, is claimed; that no two loops are about to write one id; and that none is
about to write what is written; `writes` is a number, so a second call by whatever process
would show. `WritesOnce` follows. For `NoneForgotten` the
invariant also has that a claimed id is written, hit, or about to be written: so
whoever finds an id claimed may leave it to the others. `TypeCorrect` includes `Dialed`: no
client is in `Clients`, and no loop at its HSETNX, without a connection; it rests on
clients never losing the field.

`WebSocketProofs`. `NothingFollowsClose` rests on `CloseInv`: a close frame on the wire
is the last frame there, and `closeSent` was set with it, which every write looks at
under the mutex. `PanicsOnlyIfRaced` rests on `AloneInv`: as long as no two calls have
overlapped, one writer at most is inside WriteMessage, the position is inside the
buffer, and there is room when a piece is copied; it holds for every size of the
buffer and of the messages. `MessagesWhole` (the reader delivers exactly the
messages that came whole) rests on `MessageOpen`, which ties `readFinal` and the frame
at which the message began to the frames accepted so far. `IntactAlways` is about the one writer there is as
long as calls do not overlap: the pieces on the wire, those in the buffer and those
still to be copied are its message, in this order (`MessageInv`); between `Put` and
`Reset` they are on the wire and in the buffer both (`PutInv`); when nobody writes, the
wire ends with the end of a message (`AtEnd`), unless an error has stopped all writing.
Lemmas `ControlFrame` and `DataFrame` say what one more frame does to the frames before.

`RedisPoolProofs`. `Exclusive` holds because connections are numbered as they are
made (`NumberInv`) and who has one in hand is told by where the goroutine is
(`HandInv`). `ListedInv` adds that a connection in use or on offer is in the list or
about to be. Every step is one of a few moves of a connection (`Taken`, `Dialed`,
`Returned`, `Forgotten`, `Sent`, `Unlisted`), and the parts of `Inv` are preserved by moves, not by
actions. The rest is counting: `PlacesInv` keeps `connList.len` the size of finite
sets; from it and `Exclusive`, the connections on offer and the one in hand are
different members of a list that keeps to `PoolSize`, so a send has room
(`SendsHaveRoom`); the connections nobody has are at most the refused UNWATCHes
(`refused`), and the goroutines that replace one at most `broken` (`LossInv`).

`PubSubReaderProofs`. Tokens are numbered across replies (`Key`). What is in the buffer
and on the wire are consecutive numbers, and only the first may be the rest of a token,
only the last its beginning (`WireInv`, `BufInv`). The parser is in step with the reply it
reads, or that reply is torn (`ParseInv`, one part for each of its states). Lemma
`Unheard`: a command of which a token is still to be read has not been delivered. From
this follow the order and that a panic needs a torn command.

`GraceServerProofs`. `ProcInv` ties signals to a process's life: who handles signals
has not begun to stop, and who has not begun to stop serves. `StopInv` has the order of
Stop: the accept loop has ended before manage is told to stop, and manage has ended
before Stop is done, unless the timeout came. `ConnInv`: manage knows every connection
but those the accept loop is just reporting, and none is left when it ends; so no
connState sends to a manage that has gone (`SendsAlwaysReceived`) and nothing is cut off
(`NothingEverCutOff`). `ServedAlways` rests on `ServedInv`: some process is told or up and
has not been told to stop, because a parent gets its SIGTERM only from a child that stays;
where that child may yet be killed by a signal of the operator, `ordered` is set. The three
errors that end main have their common effect in lemma `FailsDoes`.

Only model-checked: the liveness properties (`EventuallySent`, `StallNoticed`,
`Reconnects`, `BacklogWorkedOff`, `BotStarted`, `Answered`, `ClientReturns`, `Heard`,
`Leaves`), which TLAPS cannot do. `TypeOK` of `SendEvent`, `WebSocket`, `RedisPool` and
`PubSubReader` is in no run: it is stated for the proofs.

## Not modelled

* Texts, attachments and names; the requests and answers of HTTP; logging.
* Botmetrics: `registerOnBotmetrics` claims a field with HSETNX and then makes one
  HTTP call whose result is only logged, the pattern of `sendEvent`. No state of Relax
  depends on it, except that the call has no timeout and runs inside LoginAndStart.
* The lengths of backoff's intervals; that `Login` may be called again is modelled.
* The websocket handshake, the server side of gorilla/websocket, read limits and
  JSON helpers; the constructors of redis.v3's commands, cluster, sentinel and
  pipelines: Relax does not call them, or they have no state.
* concurrent-map, which is used by its contract: Get, Set and Remove are atomic.
* Redis losing what it acknowledged; the memory model of Go below the level of single
  accesses; the abort of the process on a concurrent map access.
* ginkgo, gomega and the examples of the libraries, which are no part of the running
  program.

Most lines under `src/` belong to that last group and to the unused parts of the
libraries: of some 24,500 lines, Relax's own code is about 1,140, nearly all of it
modelled, and the libraries it runs on are modelled where its own goroutines meet in
them. The remaining lines carry no behaviour of Relax, which is why the map covers
about a tenth of the whole.

## Plan

1. An abstract `Connection` specification (connected, reconnecting, given up) that
   `SlackClient` implements and `Broker` uses, with the refinement proved.
2. Action properties from the invariants that are proved already: the mutex hash never
   forgets a claim, no client loses its connection field, a line of goroutines never
   takes over the run of another.
3. The lemmas on counting that `SlackClientProofs` and `RedisPoolProofs` each have, in a
   module of their own.
