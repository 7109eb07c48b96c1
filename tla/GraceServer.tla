---------------------------- MODULE GraceServer ----------------------------
(***************************************************************************)
(* The life of Relax processes: main, the health check server, and the     *)
(* libraries that stop and restart it without dropping requests:           *)
(* facebookgo's httpdown (Serve, manage, Stop) and grace (SIGTERM stops,   *)
(* SIGUSR2 starts a new process that inherits the listening socket and     *)
(* sends SIGTERM to the old one when it serves).                           *)
(*                                                                         *)
(* PORT is set, so that the inherited socket has the wanted address.       *)
(* net/http is external: its accept loop reports StateNew itself, the      *)
(* goroutine of a connection reports the states after that.                *)
(***************************************************************************)
EXTENDS Naturals, FiniteSets

CONSTANTS
  MaxGen,      \* bound: processes, numbered in the order they are started
  Conn,        \* HTTP connections
  MaxIncidents \* bound: signals sent by the operator, and socket errors

ASSUME GenAssumption == MaxGen \in Nat \ {0} /\ MaxIncidents \in Nat

VARIABLES
  life,      \* of each process
  ppid,      \* the process that started it; 0: init
  caught,    \* signals in the channel of signalHandler, taken in any order
  handler,   \* does signalHandler receive them?
  holds,     \* does the process have the listening socket open?
  serving,   \* is http.Server.Serve in its accept loop?
  stopper,   \* where Stop is
  manager,   \* where manage is
  owner,     \* the process that accepted each connection
  st,        \* the state of each connection in net/http
  known,     \* its state in the map of manage; "no": not in the map
  shut,      \* has manage closed it?
  forced,    \* history: processes that could not stop in good order
  ordered,   \* history: did the operator or an error end the service?
  incidents

procs == <<life, ppid, caught, handler>>
stop  == <<holds, serving, stopper, manager>>
conns == <<owner, st, known, shut>>
history == <<forced, ordered, incidents>>
vars == <<procs, stop, conns, history>>

Gen == 1..MaxGen

\* exec: started; boot: main is in InitClients; serve: Serve has called
\* a.serve; told: and sent SIGTERM to its parent, if any; up: signals are
\* handled; gone.
Life == {"none", "exec", "boot", "serve", "told", "up", "gone"}
Running == {"exec", "boot", "serve", "told", "up"}
Accepting == {"serve", "told", "up"}
\* close: before listener.Close; drain: before <-s.serveDone; send: at s.stop;
\* wait: for stopDone; kill: at s.kill.
Stopper == {"no", "close", "drain", "send", "wait", "kill", "done"}
Manager == {"run", "stopping", "ended"}
\* A state with a 2 in front: connState is about to send it.
Telling == {"2new", "2active", "2idle", "2closed"}
Told(s) == CASE s = "2new" -> "new" [] s = "2active" -> "active"
             [] s = "2idle" -> "idle"
State == {"free", "new", "active", "idle"} \cup Telling

Init ==
  /\ life = [g \in Gen |-> IF g = 1 THEN "boot" ELSE "none"]
  /\ ppid = [g \in Gen |-> 0]
  /\ caught = [g \in Gen |-> {}]
  /\ handler = [g \in Gen |-> FALSE]
  /\ holds = [g \in Gen |-> FALSE]
  /\ serving = [g \in Gen |-> FALSE]
  /\ stopper = [g \in Gen |-> "no"]
  /\ manager = [g \in Gen |-> "run"]
  /\ owner = [c \in Conn |-> 0]
  /\ st = [c \in Conn |-> "free"]
  /\ known = [c \in Conn |-> "no"]
  /\ shut = [c \in Conn |-> FALSE]
  /\ forced = {} /\ ordered = FALSE /\ incidents = 0

Put(f, x, v) == [f EXCEPT ![x] = v]

\* Process g ends, and its sockets with it.
Ends(g) ==
  /\ life' = Put(life, g, "gone")
  /\ holds' = Put(holds, g, FALSE)

\* The first process, before anybody else can serve.
First(g) == g = 1 /\ life[g] \in {"boot", "serve"}

Forces(g) == forced' = forced \cup {g}

Incident == incidents < MaxIncidents /\ incidents' = incidents + 1

-----------------------------------------------------------------------------
(* Signals.                                                                *)

\* What a signal does: it goes to signalHandler's channel, or ends a process
\* that does not listen for signals (yet, or any more).
Signal(g, s) ==
  IF handler[g]
  THEN /\ caught' = Put(caught, g, caught[g] \cup {s})
       /\ UNCHANGED <<life, holds, forced>>
  ELSE Ends(g) /\ Forces(g) /\ UNCHANGED caught

\* The operator ends the service with a SIGTERM that is handled, and with any
\* signal that hits a process without a parent to fall back on: the first one
\* while it starts, or one that has told its parent to stop but not yet called
\* signal.Notify.
Operator(g, s) ==
  /\ Incident
  /\ life[g] \in Running
  /\ Signal(g, s)
  /\ ordered' = (ordered \/ IF handler[g] THEN s = "TERM"
                             ELSE First(g) \/ life[g] = "told")
  /\ UNCHANGED <<ppid, handler, serving, stopper, manager, conns>>

\* signalHandler takes SIGTERM: it listens no more and starts Stop.
Term(g) ==
  /\ life[g] = "up" /\ handler[g]
  /\ "TERM" \in caught[g]
  /\ handler' = Put(handler, g, FALSE)
  /\ caught' = Put(caught, g, {})
  /\ stopper' = Put(stopper, g, "close")
  /\ UNCHANGED <<life, ppid, holds, serving, manager, conns, history>>

\* signalHandler takes SIGUSR2: StartProcess.  The new process has the socket.
Usr2(g) ==
  \E h \in Gen :
    /\ life[g] = "up" /\ handler[g]
    /\ "USR2" \in caught[g]
    /\ life[h] = "none" /\ \A i \in Gen : i < h => life[i] # "none"
    /\ caught' = Put(caught, g, caught[g] \ {"USR2"})
    /\ life' = Put(life, h, "exec")
    /\ ppid' = Put(ppid, h, g)
    /\ holds' = Put(holds, h, TRUE)
    /\ UNCHANGED <<handler, serving, stopper, manager, conns, history>>

\* StartProcess fails: Serve returns the error and main ends.
Usr2Fails(g) ==
  /\ life[g] = "up" /\ handler[g]
  /\ "USR2" \in caught[g]
  /\ Ends(g) /\ Forces(g)
  /\ ordered' = TRUE
  /\ UNCHANGED <<ppid, caught, handler, serving, stopper, manager, conns,
                 incidents>>

-----------------------------------------------------------------------------
(* main and gracehttp.Serve.                                               *)

\* Mutant: the new process sends SIGTERM at once.
BootTerm(g) ==
  /\ life[g] = "exec"
  /\ life' = Put(life, g, "boot")
  /\ caught' = Put(caught, ppid[g], caught[ppid[g]] \cup {"TERM"})
  /\ UNCHANGED <<ppid, handler, stop, conns, history>>

\* The package variable ppid: init is the parent of an orphan.
Boot(g) ==
  /\ life[g] = "exec"
  /\ life' = Put(life, g, "boot")
  /\ ppid' = Put(ppid, g, IF life[ppid[g]] = "gone" THEN 0 ELSE ppid[g])
  /\ UNCHANGED <<caught, handler, stop, conns, history>>

\* InitClients has returned: listen, and a.serve.
Serve(g) ==
  /\ life[g] = "boot"
  /\ life' = Put(life, g, "serve")
  /\ holds' = Put(holds, g, TRUE)
  /\ serving' = Put(serving, g, TRUE)
  /\ UNCHANGED <<ppid, caught, handler, stopper, manager, conns, history>>

Parent(g) == ppid[g] # 0

\* SIGTERM to the parent, if there is one.
TellParent(g) ==
  /\ life[g] = "serve"
  /\ IF Parent(g) THEN life[ppid[g]] # "gone" ELSE TRUE
  /\ IF Parent(g) /\ ~ handler[ppid[g]]
     THEN /\ life' = [life EXCEPT ![g] = "told", ![ppid[g]] = "gone"]
          /\ holds' = Put(holds, ppid[g], FALSE)
          /\ Forces(ppid[g])
          /\ UNCHANGED caught
     ELSE /\ life' = Put(life, g, "told")
          /\ caught' = IF Parent(g)
                       THEN Put(caught, ppid[g], caught[ppid[g]] \cup {"TERM"})
                       ELSE caught
          /\ UNCHANGED <<holds, forced>>
  /\ UNCHANGED <<ppid, handler, serving, stopper, manager, conns, ordered,
                 incidents>>

\* signal.Notify, in the goroutine that a.wait's goroutine starts.
Notify(g) ==
  /\ life[g] = "told"
  /\ life' = Put(life, g, "up")
  /\ handler' = Put(handler, g, TRUE)
  /\ UNCHANGED <<ppid, caught, stop, conns, history>>

\* net.Listen fails, and Serve returns its error: main ends.
ListenFails(g) ==
  /\ life[g] = "boot"
  /\ Incident
  /\ Ends(g) /\ Forces(g)
  /\ ordered' = (ordered \/ First(g))
  /\ UNCHANGED <<ppid, caught, handler, serving, stopper, manager, conns>>

\* The accept loop ends with an error, Wait returns it, and main ends.
AcceptFails(g) ==
  /\ life[g] \in {"told", "up"} /\ serving[g] /\ holds[g]
  /\ \A c \in Conn : ~ (owner[c] = g /\ st[c] = "2new")
  /\ Incident
  /\ Ends(g) /\ Forces(g)
  /\ ordered' = TRUE
  /\ UNCHANGED <<ppid, caught, handler, serving, stopper, manager, conns>>

\* The parent is gone: "failed to close parent", and main ends.
NoParent(g) ==
  /\ life[g] = "serve" /\ Parent(g)
  /\ life[ppid[g]] = "gone"
  /\ Ends(g) /\ Forces(g)
  /\ UNCHANGED <<ppid, caught, handler, serving, stopper, manager, conns,
                 ordered, incidents>>

-----------------------------------------------------------------------------
(* httpdown: Stop and manage.                                              *)

Of(g) == {c \in Conn : owner[c] = g /\ known[c] # "no"}
Closes(cs) == shut' = [c \in Conn |-> shut[c] \/ c \in cs]

\* Keep-alives off, listener.Close.
CloseListener(g) ==
  /\ life[g] = "up" /\ stopper[g] = "close"
  /\ holds' = Put(holds, g, FALSE)
  /\ stopper' = Put(stopper, g, "drain")
  /\ UNCHANGED <<procs, serving, manager, conns, history>>

\* Mutant: Stop does not wait for the accept loop.
ServeDoneEarly(g) ==
  /\ life[g] = "up" /\ stopper[g] = "drain"
  /\ serving' = Put(serving, g, FALSE)
  /\ stopper' = Put(stopper, g, "send")
  /\ UNCHANGED <<procs, holds, manager, conns, history>>

\* The accept loop meets the closed listener once it has reported the last
\* connection; <-s.serveDone.
ServeDone(g) ==
  /\ life[g] = "up" /\ stopper[g] = "drain"
  /\ \A c \in Conn : ~ (owner[c] = g /\ st[c] = "2new")
  /\ serving' = Put(serving, g, FALSE)
  /\ stopper' = Put(stopper, g, "send")
  /\ UNCHANGED <<procs, holds, manager, conns, history>>

\* Mutant: Stop does not wait for connections that are active.
SendStopIdle(g) ==
  /\ life[g] = "up" /\ stopper[g] = "send"
  /\ stopper' = Put(stopper, g, "wait")
  /\ manager' = Put(manager, g, IF \A c \in Of(g) : known[c] # "idle"
                                THEN "ended" ELSE "stopping")
  /\ Closes({c \in Of(g) : known[c] = "idle"})
  /\ UNCHANGED <<procs, holds, serving, owner, st, known, history>>

\* s.stop <- stopDone, and manage's case for it.
SendStop(g) ==
  /\ life[g] = "up" /\ stopper[g] = "send"
  /\ stopper' = Put(stopper, g, "wait")
  /\ IF Of(g) = {}
     THEN manager' = Put(manager, g, "ended") /\ UNCHANGED shut
     ELSE /\ manager' = Put(manager, g, "stopping")
          /\ Closes({c \in Of(g) : known[c] = "idle"})
  /\ UNCHANGED <<procs, holds, serving, owner, st, known, history>>

\* <-stopDone.
StopDone(g) ==
  /\ life[g] = "up" /\ stopper[g] = "wait"
  /\ manager[g] = "ended"
  /\ stopper' = Put(stopper, g, "done")
  /\ UNCHANGED <<procs, holds, serving, manager, conns, history>>

\* Mutant: no timeout.
Never(g) == FALSE /\ UNCHANGED vars

\* stopTimeout: time.After fires; manage may end before s.kill is sent.
StopTimeout(g) ==
  /\ life[g] = "up" /\ stopper[g] = "wait"
  /\ stopper' = Put(stopper, g, "kill")
  /\ Forces(g)
  /\ UNCHANGED <<procs, holds, serving, manager, conns, ordered, incidents>>

\* s.kill <- killDone, and manage's case for it; if manage has ended, the send
\* is on a closed channel, and panics.
SendKill(g) ==
  /\ life[g] = "up" /\ stopper[g] = "kill"
  /\ IF manager[g] = "ended"
     THEN Ends(g) /\ UNCHANGED <<stopper, shut>>
     ELSE /\ stopper' = Put(stopper, g, "done")
          /\ Closes(Of(g))
          /\ UNCHANGED <<life, holds>>
  /\ UNCHANGED <<ppid, caught, handler, serving, manager, owner, st, known,
                 history>>

\* Wait and Stop have returned, main ends.
Exit(g) ==
  /\ life[g] = "up" /\ stopper[g] = "done"
  /\ Ends(g)
  /\ UNCHANGED <<ppid, caught, handler, serving, stopper, manager, conns,
                 history>>

-----------------------------------------------------------------------------
(* Connections: net/http and connState.                                    *)

Alive(c) == owner[c] # 0 /\ life[owner[c]] \in Accepting
KeepAlive(c) == stopper[owner[c]] \in {"no", "close"}

Becomes(c, s) == st' = Put(st, c, s)

\* The accept loop takes a connection, one at a time.
Accept(c, g) ==
  /\ life[g] \in Accepting /\ serving[g] /\ holds[g]
  /\ owner[c] = 0
  /\ \A d \in Conn : ~ (owner[d] = g /\ st[d] = "2new")
  /\ owner' = Put(owner, c, g)
  /\ Becomes(c, "2new")
  /\ UNCHANGED <<procs, stop, known, shut, history>>

\* A request arrives.
Request(c) ==
  /\ Alive(c) /\ st[c] \in {"new", "idle"} /\ ~ shut[c]
  /\ Becomes(c, "2active")
  /\ UNCHANGED <<procs, stop, owner, known, shut, history>>

\* ServeHTTP has answered; a connection that is not kept alive is closed.
Respond(c) ==
  /\ Alive(c) /\ st[c] = "active"
  /\ \/ Becomes(c, "2closed")
     \/ KeepAlive(c) /\ ~ shut[c] /\ Becomes(c, "2idle")
  /\ UNCHANGED <<procs, stop, owner, known, shut, history>>

\* The client hangs up.
HangUp(c) ==
  /\ Alive(c) /\ st[c] \in {"new", "idle"}
  /\ Becomes(c, "2closed")
  /\ UNCHANGED <<procs, stop, owner, known, shut, history>>

\* The goroutine of a connection finds it closed.
FindShut(c) ==
  /\ Alive(c) /\ st[c] \in {"new", "active", "idle"} /\ shut[c]
  /\ Becomes(c, "2closed")
  /\ UNCHANGED <<procs, stop, owner, known, shut, history>>

\* Mutant: a closed connection stays in the map.
TellUndeleted(c) ==
  /\ Alive(c) /\ st[c] \in Telling /\ manager[owner[c]] # "ended"
  /\ IF st[c] = "2closed"
     THEN /\ Becomes(c, "free")
          /\ owner' = Put(owner, c, 0)
          /\ UNCHANGED known
     ELSE /\ Becomes(c, Told(st[c]))
          /\ known' = Put(known, c, Told(st[c]))
          /\ UNCHANGED owner
  /\ UNCHANGED <<procs, stop, shut, history>>

\* connState sends a state and manage takes it.  manage ends with the last
\* connection if it is to stop, and closes what becomes idle then.
Tell(c) ==
  LET g == owner[c]
      stopping == manager[g] = "stopping"
  IN /\ Alive(c) /\ st[c] \in Telling /\ manager[g] # "ended"
     /\ IF st[c] = "2closed"
        THEN /\ Becomes(c, "free")
             /\ known' = Put(known, c, "no")
             /\ owner' = Put(owner, c, 0)
             /\ shut' = Put(shut, c, FALSE)
             /\ manager' = Put(manager, g, IF stopping /\ Of(g) = {c}
                                           THEN "ended" ELSE manager[g])
        ELSE /\ Becomes(c, Told(st[c]))
             /\ known' = Put(known, c, Told(st[c]))
             /\ shut' = Put(shut, c, shut[c] \/ (stopping /\ st[c] = "2idle"))
             /\ UNCHANGED <<owner, manager>>
     /\ UNCHANGED <<procs, holds, serving, stopper, history>>

-----------------------------------------------------------------------------
StartStep(g) ==
  \/ Usr2(g)
  \/ Boot(g)
  \/ Serve(g)
  \/ TellParent(g)
  \/ Notify(g)
  \/ NoParent(g)

StopStep(g) ==
  \/ Term(g)
  \/ CloseListener(g)
  \/ ServeDone(g)
  \/ SendStop(g)
  \/ StopDone(g)
  \/ StopTimeout(g)
  \/ SendKill(g)
  \/ Exit(g)

ServerStep(c) == Tell(c) \/ FindShut(c)

Next ==
  \/ \E g \in Gen : \/ \E s \in {"TERM", "USR2"} : Operator(g, s)
                    \/ StartStep(g)
                    \/ StopStep(g)
                    \/ Usr2Fails(g) \/ ListenFails(g) \/ AcceptFails(g)
                    \/ \E c \in Conn : Accept(c, g)
  \/ \E c \in Conn : \/ ServerStep(c)
                     \/ Request(c)
                     \/ Respond(c)
                     \/ HangUp(c)

Spec == Init /\ [][Next]_vars

\* The goroutines of a process that is to stop are scheduled, and its timer
\* fires.  Nothing is assumed of other processes, of HTTP clients, or of how long
\* a request takes.
FairSpec ==
  /\ Spec
  /\ \A g \in Gen : WF_vars(StopStep(g))
  /\ \A c \in Conn : WF_vars(ServerStep(c))

-----------------------------------------------------------------------------
(* Properties.                                                             *)

\* Every variable has its type, and manage knows no connection that net/http
\* has done with.
TypeOK ==
  /\ life \in [Gen -> Life] /\ ppid \in [Gen -> 0..MaxGen]
  /\ caught \in [Gen -> SUBSET {"TERM", "USR2"}]
  /\ handler \in [Gen -> BOOLEAN] /\ holds \in [Gen -> BOOLEAN]
  /\ serving \in [Gen -> BOOLEAN]
  /\ stopper \in [Gen -> Stopper] /\ manager \in [Gen -> Manager]
  /\ owner \in [Conn -> 0..MaxGen] /\ st \in [Conn -> State]
  /\ known \in [Conn -> {"no", "new", "active", "idle"}]
  /\ shut \in [Conn -> BOOLEAN]
  /\ \A c \in Conn : known[c] # "no" => owner[c] # 0 /\ st[c] # "free"
  /\ forced \subseteq Gen /\ ordered \in BOOLEAN /\ incidents \in 0..MaxIncidents

\* Whenever connState has something to send, manage still receives (it closes
\* its channels when it ends, and a send on those panics), and it knows the
\* connection (decConn panics on one it does not).
SendsReceived ==
  \A c \in Conn :
    Alive(c) /\ st[c] \in Telling
      => manager[owner[c]] # "ended" /\ (st[c] = "2new" <=> known[c] = "no")

\* A process that ends on its own, before the stop timeout, leaves no
\* connection behind: no request is cut off.
NothingCutOff ==
  \A c \in Conn : owner[c] # 0 /\ life[owner[c]] = "gone" => owner[c] \in forced

\* However many restarts are asked for, and whatever new process is killed or
\* fails before it has told its parent to stop: once the first process serves some
\* process does, until the operator ends the service or StartProcess, an accept
\* or the first Listen fails.  The operator also ends it with a signal, SIGUSR2
\* included, to a process that has told its parent and not yet called Notify.
AlwaysServed ==
  \/ life[1] = "boot"
  \/ ordered
  \/ \E g \in Gen : life[g] \in Accepting /\ serving[g] /\ holds[g]

\* A process that is to stop ends, whatever HTTP clients do: so a restart ends
\* with one process again.
Leaves ==
  \A g \in Gen :
    ("TERM" \in caught[g] \/ stopper[g] # "no") ~> life[g] = "gone"
=============================================================================
