-------------------------- MODULE GraceServerProofs --------------------------
(***************************************************************************)
(* Proofs about GraceServer, for any number of processes, of connections   *)
(* and of signals.                                                         *)
(***************************************************************************)
EXTENDS GraceServer, TLAPS

USE GenAssumption
USE DEF procs, stop, conns, history, Put, Incident, Accepting

-----------------------------------------------------------------------------
(* The inductive invariant.                                                *)

Early == {"none", "exec", "boot", "serve", "told"}
Open == {"no", "close", "drain"}

\* A process listens for signals from Notify to SIGTERM, which starts
\* Stop; until Stop closes the listener, a process that serves has it open.
ProcInv ==
  /\ \A g \in Gen :
       /\ life[g] \in Early => stopper[g] = "no" /\ ~ handler[g]
       /\ ~ handler[g] => caught[g] = {}
       /\ life[g] = "up" => (handler[g] <=> stopper[g] = "no")
       /\ life[g] \in Accepting /\ stopper[g] = "no"
            => serving[g] /\ holds[g]
       /\ ppid[g] # g
  /\ ppid[1] = 0 /\ life[1] \notin {"none", "exec"}

\* Stop sends to manage when the accept loop has ended, and manage stops for
\* nothing else; Stop is done when manage is, unless the timeout came first.
StopInv ==
  \A g \in Gen :
    /\ stopper[g] \notin Open => ~ serving[g]
    /\ manager[g] # "run" => stopper[g] \in {"wait", "kill", "done"}
    /\ stopper[g] = "kill" => g \in forced
    /\ stopper[g] = "done" => g \in forced \/ manager[g] = "ended"

\* manage knows every connection but those the accept loop is reporting, of
\* which there are none when Stop has seen the loop end; when manage has ended
\* there is no connection.
ConnInv ==
  \A c \in Conn :
    /\ owner[c] = 0 <=> st[c] = "free"
    /\ known[c] = "no" <=> st[c] \in {"free", "2new"}
    /\ owner[c] # 0 =>
         /\ life[owner[c]] \in Accepting \cup {"gone"}
         /\ st[c] = "2new" => stopper[owner[c]] \in Open
         /\ manager[owner[c]] # "ended"

\* A process that is up and has not been told to stop, or is almost up.
Stays(g) == \/ life[g] = "told"
            \/ life[g] = "up" /\ handler[g] /\ "TERM" \notin caught[g]

\* The first process is starting, or some process stays: the parent only gets
\* its SIGTERM from a child that stays itself.
ServedInv == ordered \/ life[1] \in {"boot", "serve"} \/ \E g \in Gen : Stays(g)

Inv == TypeOK /\ ProcInv /\ StopInv /\ ConnInv /\ NothingCutOff /\ ServedInv

\* A function changed in two places.
LEMMA TwoChanged ==
  ASSUME NEW D, NEW S, NEW f \in [D -> S], NEW a \in D, NEW b \in D, a # b,
         NEW x, NEW y
  PROVE  LET h == [f EXCEPT ![a] = x, ![b] = y]
         IN h[a] = x /\ h[b] = y /\ \A d \in D \ {a, b} : h[d] = f[d]
OBVIOUS

\* What the three actions in which an error ends main have in common.
Fails(g) == Usr2Fails(g) \/ ListenFails(g) \/ AcceptFails(g)

LEMMA FailsDoes ==
  ASSUME TypeOK, NEW g \in Gen, Fails(g)
  PROVE  /\ life' = [life EXCEPT ![g] = "gone"]
         /\ holds' = [holds EXCEPT ![g] = FALSE]
         /\ forced' = forced \cup {g}
         /\ UNCHANGED <<ppid, caught, handler, serving, stopper, manager, conns>>
         /\ life[g] \in {"boot", "told", "up"}
         /\ ordered' \in BOOLEAN
         /\ incidents' \in 0..MaxIncidents
         /\ ordered \/ First(g) \/ life[g] # "boot" => ordered'
<1> USE DEF TypeOK, Ends, Forces
<1>1. CASE Usr2Fails(g)
  BY <1>1 DEF Usr2Fails
<1>2. CASE ListenFails(g)
  <2>1. (ordered \/ First(g)) \in BOOLEAN
    OBVIOUS
  <2>2. ordered' = (ordered \/ First(g))
    BY <1>2 DEF ListenFails
  <2>3. ordered' \in BOOLEAN
    BY <2>1, <2>2
  <2>4. ordered \/ First(g) => ordered'
    BY <2>2
  <2>5. incidents' \in 0..MaxIncidents
    BY <1>2 DEF ListenFails
  <2> QED BY <1>2, <2>3, <2>4, <2>5 DEF ListenFails
<1>3. CASE AcceptFails(g)
  BY <1>3 DEF AcceptFails
<1> QED BY <1>1, <1>2, <1>3 DEF Fails

\* Every step keeps ProcInv.
LEMMA ProcStep ==
  ASSUME TypeOK, ProcInv, Next
  PROVE  ProcInv'
<1> USE DEF TypeOK, Gen, ProcInv, Early
<1>1. ASSUME NEW g \in Gen, NEW s \in {"TERM", "USR2"}, Operator(g, s)
      PROVE  ProcInv'
  BY <1>1 DEF Operator, Signal, Ends, Forces
<1>2. ASSUME NEW g \in Gen, Term(g) PROVE ProcInv'
  BY <1>2 DEF Term
<1>3. ASSUME NEW g \in Gen, Usr2(g) PROVE ProcInv'
  BY <1>3 DEF Usr2
<1>4. ASSUME NEW g \in Gen, Boot(g) PROVE ProcInv'
  BY <1>4 DEF Boot
<1>5. ASSUME NEW g \in Gen, Serve(g) PROVE ProcInv'
  BY <1>5 DEF Serve
<1>6. ASSUME NEW g \in Gen, TellParent(g) PROVE ProcInv'
  <2>1. Parent(g) => ppid[g] \in Gen /\ ppid[g] # g
    BY DEF Parent
  <2>2. CASE Parent(g) /\ ~ handler[ppid[g]]
    <3>1. PICK q \in Gen : q = ppid[g] /\ q # g
      BY <2>1, <2>2
    <3>2. life' = [life EXCEPT ![g] = "told", ![q] = "gone"]
      BY <1>6, <2>2, <3>1 DEF TellParent
    <3>3. holds' = [holds EXCEPT ![q] = FALSE]
      BY <1>6, <2>2, <3>1 DEF TellParent
    <3>4. UNCHANGED <<ppid, caught, handler, serving, stopper>>
      BY <1>6, <2>2 DEF TellParent
    <3>5. life[g] = "serve"
      BY <1>6 DEF TellParent
    <3>6. /\ life'[g] = "told" /\ life'[q] = "gone" /\ holds'[g] = holds[g]
          /\ \A h \in Gen \ {g, q} : life'[h] = life[h] /\ holds'[h] = holds[h]
      <4>1. life \in [Gen -> Life] /\ holds \in [Gen -> BOOLEAN]
        OBVIOUS
      <4> HIDE DEF TypeOK, ProcInv, Gen
      <4>2. /\ life'[g] = "told" /\ life'[q] = "gone"
            /\ \A h \in Gen \ {g, q} : life'[h] = life[h]
        BY <3>1, <3>2, <4>1, TwoChanged
      <4>3. \A h \in Gen \ {q} : holds'[h] = holds[h]
        BY <3>1, <3>3, <4>1
      <4> QED BY <3>1, <4>2, <4>3
    <3>7. life'[1] \notin {"none", "exec"} /\ ppid'[1] = 0
      <4>1. 1 \in Gen /\ life[1] \notin {"none", "exec"} /\ ppid[1] = 0
        OBVIOUS
      <4> HIDE DEF TypeOK, ProcInv, Gen
      <4> QED BY <3>4, <3>6, <4>1
    <3>8. ASSUME NEW h \in Gen
          PROVE  /\ life'[h] \in Early => stopper'[h] = "no" /\ ~ handler'[h]
                 /\ ~ handler'[h] => caught'[h] = {}
                 /\ life'[h] = "up" => (handler'[h] <=> stopper'[h] = "no")
                 /\ life'[h] \in Accepting /\ stopper'[h] = "no"
                      => serving'[h] /\ holds'[h]
                 /\ ppid'[h] # h
      BY <3>4, <3>5, <3>6, <3>8
    <3> QED BY <3>7, <3>8
  <2>3. CASE ~ (Parent(g) /\ ~ handler[ppid[g]])
    <3>1. life' = [life EXCEPT ![g] = "told"]
      BY <1>6, <2>3 DEF TellParent
    <3>2. \A h \in Gen : ~ handler[h] => caught'[h] = caught[h]
      BY <1>6, <2>1, <2>3 DEF TellParent
    <3>3. UNCHANGED <<ppid, handler, holds, serving, stopper>>
      BY <1>6, <2>3 DEF TellParent
    <3> QED BY <1>6, <3>1, <3>2, <3>3 DEF TellParent
  <2> QED BY <2>2, <2>3
<1>19. ASSUME NEW g \in Gen, Notify(g) PROVE ProcInv'
  BY <1>19 DEF Notify
<1>7. ASSUME NEW g \in Gen, NoParent(g) PROVE ProcInv'
  BY <1>7 DEF NoParent, Parent, Ends, Forces
<1>8. ASSUME NEW g \in Gen, CloseListener(g) PROVE ProcInv'
  BY <1>8 DEF CloseListener
<1>9. ASSUME NEW g \in Gen, ServeDone(g) PROVE ProcInv'
  BY <1>9 DEF ServeDone
<1>10. ASSUME NEW g \in Gen, SendStop(g) PROVE ProcInv'
  BY <1>10 DEF SendStop, Closes, Of
<1>11. ASSUME NEW g \in Gen, StopDone(g) PROVE ProcInv'
  BY <1>11 DEF StopDone
<1>12. ASSUME NEW g \in Gen, StopTimeout(g) PROVE ProcInv'
  BY <1>12 DEF StopTimeout, Forces
<1>13. ASSUME NEW g \in Gen, SendKill(g) PROVE ProcInv'
  BY <1>13 DEF SendKill, Ends, Closes, Of
<1>14. ASSUME NEW g \in Gen, Exit(g) PROVE ProcInv'
  BY <1>14 DEF Exit, Ends
<1>15. ASSUME NEW g \in Gen, Fails(g) PROVE ProcInv'
  BY <1>15, FailsDoes
<1>16. ASSUME NEW g \in Gen, NEW c \in Conn, Accept(c, g) PROVE ProcInv'
  BY <1>16 DEF Accept, Becomes
<1>17. ASSUME NEW c \in Conn, Tell(c) PROVE ProcInv'
  BY <1>17 DEF Tell, Becomes, Alive, Of
<1>18. ASSUME NEW c \in Conn,
             FindShut(c) \/ Request(c) \/ Respond(c) \/ HangUp(c)
      PROVE  ProcInv'
  BY <1>18 DEF FindShut, Request, Respond, HangUp, Becomes
<1> QED BY <1>1, <1>2, <1>3, <1>4, <1>5, <1>6, <1>7, <1>8, <1>9, <1>10,
         <1>11, <1>12, <1>13, <1>14, <1>15, <1>16, <1>17, <1>18, <1>19
     DEF Next, StartStep, StopStep, ServerStep, Fails

\* Every step keeps StopInv.
LEMMA StopInvStep ==
  ASSUME TypeOK, ProcInv, StopInv, ConnInv, Next
  PROVE  StopInv'
<1> USE DEF TypeOK, StopInv, ProcInv, Early, Open
<1>1. ASSUME NEW g \in Gen, NEW s \in {"TERM", "USR2"}, Operator(g, s)
      PROVE  StopInv'
  BY <1>1 DEF Operator, Signal, Ends, Forces
<1>2. ASSUME NEW g \in Gen, Term(g) PROVE StopInv'
  BY <1>2 DEF Term
<1>3. ASSUME NEW g \in Gen, Usr2(g) PROVE StopInv'
  BY <1>3 DEF Usr2
<1>4. ASSUME NEW g \in Gen, Boot(g) PROVE StopInv'
  BY <1>4 DEF Boot
<1>5. ASSUME NEW g \in Gen, Serve(g) PROVE StopInv'
  BY <1>5 DEF Serve
<1>6. ASSUME NEW g \in Gen, TellParent(g) PROVE StopInv'
  BY <1>6 DEF TellParent, Parent, Forces
<1>19. ASSUME NEW g \in Gen, Notify(g) PROVE StopInv'
  BY <1>19 DEF Notify
<1>7. ASSUME NEW g \in Gen, NoParent(g) PROVE StopInv'
  BY <1>7 DEF NoParent, Parent, Ends, Forces
<1>8. ASSUME NEW g \in Gen, CloseListener(g) PROVE StopInv'
  BY <1>8 DEF CloseListener
<1>9. ASSUME NEW g \in Gen, ServeDone(g) PROVE StopInv'
  BY <1>9 DEF ServeDone
<1>10. ASSUME NEW g \in Gen, SendStop(g) PROVE StopInv'
  BY <1>10 DEF SendStop, Closes, Of
<1>11. ASSUME NEW g \in Gen, StopDone(g) PROVE StopInv'
  BY <1>11 DEF StopDone
<1>12. ASSUME NEW g \in Gen, StopTimeout(g) PROVE StopInv'
  BY <1>12 DEF StopTimeout, Forces
<1>13. ASSUME NEW g \in Gen, SendKill(g) PROVE StopInv'
  BY <1>13 DEF SendKill, Ends, Closes, Of
<1>14. ASSUME NEW g \in Gen, Exit(g) PROVE StopInv'
  BY <1>14 DEF Exit, Ends
<1>15. ASSUME NEW g \in Gen, Fails(g) PROVE StopInv'
  BY <1>15, FailsDoes
<1>16. ASSUME NEW g \in Gen, NEW c \in Conn, Accept(c, g) PROVE StopInv'
  BY <1>16 DEF Accept, Becomes
<1>17. ASSUME NEW c \in Conn, Tell(c) PROVE StopInv'
  BY <1>17 DEF Tell, Becomes, Alive, Of
<1>18. ASSUME NEW c \in Conn,
             FindShut(c) \/ Request(c) \/ Respond(c) \/ HangUp(c)
      PROVE  StopInv'
  BY <1>18 DEF FindShut, Request, Respond, HangUp, Becomes
<1> QED BY <1>1, <1>2, <1>3, <1>4, <1>5, <1>6, <1>7, <1>8, <1>9, <1>10,
         <1>11, <1>12, <1>13, <1>14, <1>15, <1>16, <1>17, <1>18, <1>19
     DEF Next, StartStep, StopStep, ServerStep, Fails

\* A connection that is accepted belongs to a process.
LEMMA OwnerType ==
  ASSUME TypeOK, NEW c \in Conn, owner[c] # 0
  PROVE  owner[c] \in Gen
BY DEF TypeOK, Gen

\* ConnInv depends on a process only through where Stop and manage are, and on
\* its life only as far as it has served.
LEMMA ConnKept ==
  ASSUME TypeOK, ConnInv, UNCHANGED <<owner, st, known, stopper, manager>>,
         \A h \in Gen : life[h] \in Accepting \cup {"gone"}
                          => life'[h] \in Accepting \cup {"gone"}
  PROVE  ConnInv'
BY OwnerType DEF ConnInv

\* Every step keeps ConnInv.
LEMMA ConnStep ==
  ASSUME TypeOK, ProcInv, StopInv, ConnInv, Next
  PROVE  ConnInv'
<1> USE DEF TypeOK, StopInv, ProcInv, ConnInv, Early, Open, State
<1>1. ASSUME NEW g \in Gen, NEW s \in {"TERM", "USR2"}, Operator(g, s)
      PROVE  ConnInv'
  <2>1. \A h \in Gen : life'[h] \in {life[h], "gone"}
    BY <1>1 DEF Operator, Signal, Ends
  <2> QED BY <1>1, <2>1, ConnKept DEF Operator
<1>2. ASSUME NEW g \in Gen, Term(g) PROVE ConnInv'
  BY <1>2 DEF Term
<1>3. ASSUME NEW g \in Gen, Usr2(g) PROVE ConnInv'
  BY <1>3 DEF Usr2
<1>4. ASSUME NEW g \in Gen, Boot(g) PROVE ConnInv'
  BY <1>4 DEF Boot
<1>5. ASSUME NEW g \in Gen, Serve(g) PROVE ConnInv'
  BY <1>5 DEF Serve
<1>6. ASSUME NEW g \in Gen, TellParent(g) PROVE ConnInv'
  <2>1. \A h \in Gen : life[h] \in Accepting \cup {"gone"}
                         => life'[h] \in Accepting \cup {"gone"}
    BY <1>6 DEF TellParent, Accepting
  <2> QED BY <1>6, <2>1, ConnKept DEF TellParent
<1>19. ASSUME NEW g \in Gen, Notify(g) PROVE ConnInv'
  BY <1>19, ConnKept DEF Notify, Accepting
<1>7. ASSUME NEW g \in Gen, NoParent(g) PROVE ConnInv'
  BY <1>7 DEF NoParent, Parent, Ends, Forces
<1>8. ASSUME NEW g \in Gen, CloseListener(g) PROVE ConnInv'
  BY <1>8 DEF CloseListener
<1>9. ASSUME NEW g \in Gen, ServeDone(g) PROVE ConnInv'
  BY <1>9 DEF ServeDone
<1>10. ASSUME NEW g \in Gen, SendStop(g) PROVE ConnInv'
  <2>1. \A c \in Conn : owner[c] = g => st[c] # "2new" /\ known[c] # "no"
    <3>1. g # 0 /\ stopper[g] = "send"
      BY <1>10 DEF SendStop, Gen
    <3> QED BY <3>1
  <2>2. CASE Of(g) = {}
    <3>1. \A c \in Conn : owner[c] # g
      BY <2>1, <2>2 DEF Of
    <3> QED BY <1>10, <2>2, <3>1, OwnerType DEF SendStop
  <2>3. CASE Of(g) # {}
    BY <1>10, <2>1, <2>3, OwnerType DEF SendStop
  <2> QED BY <2>2, <2>3
<1>11. ASSUME NEW g \in Gen, StopDone(g) PROVE ConnInv'
  BY <1>11 DEF StopDone
<1>12. ASSUME NEW g \in Gen, StopTimeout(g) PROVE ConnInv'
  BY <1>12 DEF StopTimeout, Forces
<1>13. ASSUME NEW g \in Gen, SendKill(g) PROVE ConnInv'
  <2>1. CASE manager[g] = "ended"
    BY <1>13, <2>1, ConnKept DEF SendKill, Ends
  <2>2. CASE manager[g] # "ended"
    BY <1>13, <2>2, OwnerType DEF SendKill
  <2> QED BY <2>1, <2>2
<1>14. ASSUME NEW g \in Gen, Exit(g) PROVE ConnInv'
  BY <1>14 DEF Exit, Ends
<1>15. ASSUME NEW g \in Gen, Fails(g) PROVE ConnInv'
  <2>1. \A h \in Gen : life'[h] \in {life[h], "gone"}
    BY <1>15, FailsDoes
  <2> QED BY <1>15, <2>1, FailsDoes, ConnKept
<1>16. ASSUME NEW g \in Gen, NEW c \in Conn, Accept(c, g) PROVE ConnInv'
  <2>1. g # 0 /\ stopper[g] \in Open /\ manager[g] # "ended"
    <3>1. stopper[g] \in Open
      BY <1>16 DEF Accept
    <3>2. manager[g] = "run"
      BY <3>1
    <3> QED BY <3>1, <3>2 DEF Gen
  <2>2. /\ owner' = [owner EXCEPT ![c] = g] /\ st' = [st EXCEPT ![c] = "2new"]
        /\ known[c] = "no"
    BY <1>16 DEF Accept, Becomes
  <2> QED BY <1>16, <2>1, <2>2, OwnerType DEF Accept
<1>17. ASSUME NEW c \in Conn, Tell(c) PROVE ConnInv'
  <2> DEFINE h == owner[c]
  <2>1. h \in Gen
    BY <1>17, OwnerType DEF Tell, Alive
  <2>2. CASE st[c] = "2closed"
    <3>1. \A d \in Conn \ {c} : owner[d] # 0 => manager'[owner[d]] # "ended"
      <4> SUFFICES ASSUME NEW d \in Conn \ {c}, owner[d] # 0
                   PROVE  manager'[owner[d]] # "ended"
        OBVIOUS
      <4>1. CASE owner[d] # h
        BY <1>17, <2>1, <2>2, <4>1, OwnerType DEF Tell
      <4>2. CASE owner[d] = h
        <5>1. manager[h] = "stopping" => d \in Of(h)
          BY <2>1, <4>2 DEF Of, Gen
        <5> QED BY <1>17, <2>1, <2>2, <4>2, <5>1 DEF Tell
      <4> QED BY <4>1, <4>2
    <3> QED BY <1>17, <2>2, <3>1, OwnerType DEF Tell, Becomes
  <2>3. CASE st[c] # "2closed"
    <3>1. /\ st[c] \in {"2new", "2active", "2idle"}
          /\ Told(st[c]) \in {"new", "active", "idle"}
      BY <1>17, <2>3 DEF Tell, Telling, Told
    <3>2. /\ st' = [st EXCEPT ![c] = Told(st[c])]
          /\ known' = [known EXCEPT ![c] = Told(st[c])]
          /\ UNCHANGED <<owner, manager, life, stopper>>
      BY <1>17, <2>3 DEF Tell, Becomes
    <3>3. h # 0
      BY <2>1 DEF Gen
    <3> QED BY <3>1, <3>2, <3>3, OwnerType
  <2> QED BY <2>2, <2>3
<1>18. ASSUME NEW c \in Conn,
             FindShut(c) \/ Request(c) \/ Respond(c) \/ HangUp(c)
      PROVE  ConnInv'
  BY <1>18 DEF FindShut, Request, Respond, HangUp, Becomes
<1> QED BY <1>1, <1>2, <1>3, <1>4, <1>5, <1>6, <1>7, <1>8, <1>9, <1>10,
         <1>11, <1>12, <1>13, <1>14, <1>15, <1>16, <1>17, <1>18, <1>19
     DEF Next, StartStep, StopStep, ServerStep, Fails

\* Every step keeps NothingCutOff.
LEMMA CutStep ==
  ASSUME TypeOK, ProcInv, StopInv, ConnInv, NothingCutOff, Next
  PROVE  NothingCutOff'
<1> USE DEF TypeOK, StopInv, ConnInv, NothingCutOff
<1>1. ASSUME NEW g \in Gen, NEW s \in {"TERM", "USR2"}, Operator(g, s)
      PROVE  NothingCutOff'
  <2>1. \A h \in Gen : life'[h] = life[h] \/ h \in forced'
    BY <1>1 DEF Operator, Signal, Ends, Forces
  <2>2. UNCHANGED owner /\ forced \subseteq forced'
    BY <1>1 DEF Operator, Signal, Forces
  <2> QED BY <2>1, <2>2, OwnerType
<1>2. ASSUME NEW g \in Gen, Term(g) PROVE NothingCutOff'
  BY <1>2 DEF Term
<1>3. ASSUME NEW g \in Gen, Usr2(g) PROVE NothingCutOff'
  BY <1>3 DEF Usr2
<1>4. ASSUME NEW g \in Gen, Boot(g) PROVE NothingCutOff'
  BY <1>4 DEF Boot
<1>5. ASSUME NEW g \in Gen, Serve(g) PROVE NothingCutOff'
  BY <1>5 DEF Serve
<1>19. ASSUME NEW g \in Gen, Notify(g) PROVE NothingCutOff'
  BY <1>19 DEF Notify
<1>6. ASSUME NEW g \in Gen, TellParent(g) PROVE NothingCutOff'
  <2>1. \A h \in Gen : life'[h] # "gone" \/ life'[h] = life[h] \/ h \in forced'
    BY <1>6 DEF TellParent, Forces
  <2>2. UNCHANGED owner /\ forced \subseteq forced'
    BY <1>6 DEF TellParent, Forces
  <2> QED BY <2>1, <2>2, OwnerType
<1>7. ASSUME NEW g \in Gen, NoParent(g) PROVE NothingCutOff'
  BY <1>7 DEF NoParent, Parent, Ends, Forces
<1>8. ASSUME NEW g \in Gen, CloseListener(g) PROVE NothingCutOff'
  BY <1>8 DEF CloseListener
<1>9. ASSUME NEW g \in Gen, ServeDone(g) PROVE NothingCutOff'
  BY <1>9 DEF ServeDone
<1>10. ASSUME NEW g \in Gen, SendStop(g) PROVE NothingCutOff'
  BY <1>10 DEF SendStop, Closes, Of
<1>11. ASSUME NEW g \in Gen, StopDone(g) PROVE NothingCutOff'
  BY <1>11 DEF StopDone
<1>12. ASSUME NEW g \in Gen, StopTimeout(g) PROVE NothingCutOff'
  BY <1>12 DEF StopTimeout, Forces
<1>13. ASSUME NEW g \in Gen, SendKill(g) PROVE NothingCutOff'
  <2>1. \A h \in Gen : life'[h] = life[h] \/ h \in forced
    BY <1>13 DEF SendKill, Ends
  <2> QED BY <1>13, <2>1, OwnerType DEF SendKill
<1>14. ASSUME NEW g \in Gen, Exit(g) PROVE NothingCutOff'
  BY <1>14 DEF Exit, Ends
<1>15. ASSUME NEW g \in Gen, Fails(g) PROVE NothingCutOff'
  <2>1. \A h \in Gen : life'[h] = life[h] \/ h \in forced'
    BY <1>15, FailsDoes
  <2>2. UNCHANGED owner /\ forced \subseteq forced'
    BY <1>15, FailsDoes
  <2> QED BY <2>1, <2>2, OwnerType
<1>16. ASSUME NEW g \in Gen, NEW c \in Conn, Accept(c, g) PROVE NothingCutOff'
  BY <1>16 DEF Accept, Becomes
<1>17. ASSUME NEW c \in Conn, Tell(c) PROVE NothingCutOff'
  BY <1>17 DEF Tell, Becomes, Alive, Of
<1>18. ASSUME NEW c \in Conn,
             FindShut(c) \/ Request(c) \/ Respond(c) \/ HangUp(c)
      PROVE  NothingCutOff'
  BY <1>18 DEF FindShut, Request, Respond, HangUp, Becomes
<1> QED BY <1>1, <1>2, <1>3, <1>4, <1>5, <1>6, <1>7, <1>8, <1>9, <1>10,
         <1>11, <1>12, <1>13, <1>14, <1>15, <1>16, <1>17, <1>18, <1>19
     DEF Next, StartStep, StopStep, ServerStep, Fails

\* Every step keeps ServedInv.
LEMMA ServedStep ==
  ASSUME TypeOK, ProcInv, ServedInv, Next
  PROVE  ServedInv'
<1> USE DEF TypeOK, ProcInv, ServedInv, Stays, Early, Gen
<1>1. ASSUME NEW g \in Gen, NEW s \in {"TERM", "USR2"}, Operator(g, s)
      PROVE  ServedInv'
  <2>1. CASE IF handler[g] THEN s = "TERM" ELSE First(g) \/ life[g] = "told"
    BY <1>1, <2>1 DEF Operator
  <2>2. CASE handler[g] /\ s # "TERM"
    <3>1. /\ life' = life /\ handler' = handler
          /\ \A h \in Gen : "TERM" \in caught'[h] => "TERM" \in caught[h]
      BY <1>1, <2>2 DEF Operator, Signal
    <3>2. ordered => ordered'
      BY <1>1 DEF Operator
    <3> QED BY <3>1, <3>2
  <2>3. CASE ~ handler[g] /\ ~ First(g) /\ life[g] # "told"
    <3>1. /\ caught' = caught /\ handler' = handler
          /\ \A h \in Gen \ {g} : life'[h] = life[h]
      BY <1>1, <2>3 DEF Operator, Signal, Ends
    <3>2. ordered => ordered'
      BY <1>1 DEF Operator
    <3>3. 1 \in Gen
      OBVIOUS
    <3>4. life[1] \in {"boot", "serve"} => g # 1
      BY <2>3 DEF First
    <3>5. \A h \in Gen : Stays(h) => h # g
      BY <2>3
    <3>6. \A h \in Gen : Stays(h) => Stays(h)'
      BY <3>1, <3>5
    <3>7. life[1] \in {"boot", "serve"} => life'[1] \in {"boot", "serve"}
      BY <3>1, <3>3, <3>4
    <3> HIDE DEF Stays
    <3> QED BY <3>2, <3>6, <3>7
  <2> QED BY <2>1, <2>2, <2>3
<1>2. ASSUME NEW g \in Gen, Term(g) PROVE ServedInv'
  BY <1>2 DEF Term
<1>3. ASSUME NEW g \in Gen, Usr2(g) PROVE ServedInv'
  BY <1>3 DEF Usr2
<1>4. ASSUME NEW g \in Gen, Boot(g) PROVE ServedInv'
  BY <1>4 DEF Boot
<1>5. ASSUME NEW g \in Gen, Serve(g) PROVE ServedInv'
  BY <1>5 DEF Serve
<1>6. ASSUME NEW g \in Gen, TellParent(g) PROVE ServedInv'
  BY <1>6 DEF TellParent, Parent, Forces
<1>19. ASSUME NEW g \in Gen, Notify(g) PROVE ServedInv'
  BY <1>19 DEF Notify
<1>7. ASSUME NEW g \in Gen, NoParent(g) PROVE ServedInv'
  BY <1>7 DEF NoParent, Parent, Ends, Forces
<1>8. ASSUME NEW g \in Gen, CloseListener(g) PROVE ServedInv'
  BY <1>8 DEF CloseListener
<1>9. ASSUME NEW g \in Gen, ServeDone(g) PROVE ServedInv'
  BY <1>9 DEF ServeDone
<1>10. ASSUME NEW g \in Gen, SendStop(g) PROVE ServedInv'
  BY <1>10 DEF SendStop, Closes, Of
<1>11. ASSUME NEW g \in Gen, StopDone(g) PROVE ServedInv'
  BY <1>11 DEF StopDone
<1>12. ASSUME NEW g \in Gen, StopTimeout(g) PROVE ServedInv'
  BY <1>12 DEF StopTimeout, Forces
<1>13. ASSUME NEW g \in Gen, SendKill(g) PROVE ServedInv'
  BY <1>13 DEF SendKill, Ends, Closes, Of
<1>14. ASSUME NEW g \in Gen, Exit(g) PROVE ServedInv'
  BY <1>14 DEF Exit, Ends
<1>15. ASSUME NEW g \in Gen, Fails(g) PROVE ServedInv'
  <2>1. CASE ordered \/ First(g) \/ life[g] # "boot"
    BY <1>15, <2>1, FailsDoes
  <2>2. CASE ~ ordered /\ ~ First(g) /\ life[g] = "boot"
    <3>1. \A h \in Gen \ {g} : life'[h] = life[h] /\ (Stays(h) => Stays(h)')
      BY <1>15, FailsDoes
    <3>2. g # 1
      BY <2>2 DEF First
    <3>3. 1 \in Gen
      OBVIOUS
    <3> QED BY <2>2, <3>1, <3>2, <3>3
  <2> QED BY <2>1, <2>2
<1>16. ASSUME NEW g \in Gen, NEW c \in Conn, Accept(c, g) PROVE ServedInv'
  BY <1>16 DEF Accept, Becomes
<1>17. ASSUME NEW c \in Conn, Tell(c) PROVE ServedInv'
  BY <1>17 DEF Tell, Becomes, Alive, Of
<1>18. ASSUME NEW c \in Conn,
             FindShut(c) \/ Request(c) \/ Respond(c) \/ HangUp(c)
      PROVE  ServedInv'
  <2>1. UNCHANGED <<procs, history>>
    BY <1>18 DEF FindShut, Request, Respond, HangUp
  <2> QED BY <2>1
<1> HIDE DEF TypeOK, ProcInv, ServedInv, Stays, Early, Gen
<1> QED BY <1>1, <1>2, <1>3, <1>4, <1>5, <1>6, <1>7, <1>8, <1>9, <1>10,
         <1>11, <1>12, <1>13, <1>14, <1>15, <1>16, <1>17, <1>18, <1>19
     DEF Next, StartStep, StopStep, ServerStep, Fails

\* Every step keeps TypeOK.
LEMMA TypeStep ==
  ASSUME TypeOK, ProcInv, ConnInv, ConnInv', Next
  PROVE  TypeOK'
<1> USE DEF TypeOK, Life, Stopper, Manager, State, Telling
<1>1. ASSUME NEW g \in Gen, NEW s \in {"TERM", "USR2"}, Operator(g, s)
      PROVE  TypeOK'
  <2>1. ordered' \in BOOLEAN
    <3>1. (ordered \/ IF handler[g] THEN s = "TERM"
                 ELSE First(g) \/ life[g] = "told")
            \in BOOLEAN
      OBVIOUS
    <3> QED BY <1>1, <3>1 DEF Operator
  <2>2. incidents' \in 0..MaxIncidents
    BY <1>1 DEF Operator
  <2>3. CASE handler[g]
    <3>1. caught' \in [Gen -> SUBSET {"TERM", "USR2"}]
      BY <1>1, <2>3 DEF Operator, Signal
    <3> QED BY <1>1, <2>1, <2>2, <2>3, <3>1 DEF Operator, Signal
  <2>4. CASE ~ handler[g]
    <3>1. life' \in [Gen -> Life] /\ holds' \in [Gen -> BOOLEAN]
      BY <1>1, <2>4 DEF Operator, Signal, Ends
    <3>2. forced' \subseteq Gen
      BY <1>1, <2>4 DEF Operator, Signal, Forces
    <3> QED BY <1>1, <2>1, <2>2, <2>4, <3>1, <3>2 DEF Operator, Signal
  <2> QED BY <2>3, <2>4
<1>2. ASSUME NEW g \in Gen, Term(g) PROVE TypeOK'
  BY <1>2 DEF Term
<1>3. ASSUME NEW g \in Gen, Usr2(g) PROVE TypeOK'
  <2>1. PICK h \in Gen : /\ caught' = [caught EXCEPT ![g] = caught[g] \ {"USR2"}]
                         /\ life' = [life EXCEPT ![h] = "exec"]
                         /\ ppid' = [ppid EXCEPT ![h] = g]
                         /\ holds' = [holds EXCEPT ![h] = TRUE]
    BY <1>3 DEF Usr2
  <2>2. ppid' \in [Gen -> 0..MaxGen]
    BY <2>1 DEF Gen
  <2>3. caught' \in [Gen -> SUBSET {"TERM", "USR2"}]
    <3>1. caught[g] \ {"USR2"} \in SUBSET {"TERM", "USR2"}
      OBVIOUS
    <3> QED BY <2>1, <3>1
  <2> QED BY <1>3, <2>1, <2>2, <2>3 DEF Usr2
<1>4. ASSUME NEW g \in Gen, Boot(g) PROVE TypeOK'
  BY <1>4 DEF Boot
<1>5. ASSUME NEW g \in Gen, Serve(g) PROVE TypeOK'
  BY <1>5 DEF Serve
<1>19. ASSUME NEW g \in Gen, Notify(g) PROVE TypeOK'
  BY <1>19 DEF Notify
<1>6. ASSUME NEW g \in Gen, TellParent(g) PROVE TypeOK'
  <2>1. Parent(g) => ppid[g] \in Gen
    BY DEF Parent, Gen
  <2>2. handler' \in [Gen -> BOOLEAN]
    BY <1>6 DEF TellParent
  <2>3. CASE Parent(g) /\ ~ handler[ppid[g]]
    <3>1. life' \in [Gen -> Life] /\ holds' \in [Gen -> BOOLEAN]
      BY <1>6, <2>1, <2>3 DEF TellParent
    <3>2. forced' \subseteq Gen /\ caught' = caught
      BY <1>6, <2>1, <2>3 DEF TellParent, Forces
    <3> QED BY <1>6, <2>2, <3>1, <3>2 DEF TellParent
  <2>4. CASE ~ (Parent(g) /\ ~ handler[ppid[g]])
    <3>1. life' \in [Gen -> Life] /\ UNCHANGED <<holds, forced>>
      BY <1>6, <2>4 DEF TellParent
    <3>2. caught' \in [Gen -> SUBSET {"TERM", "USR2"}]
      <4>1. CASE Parent(g)
        BY <1>6, <2>1, <2>4, <4>1 DEF TellParent
      <4>2. CASE ~ Parent(g)
        BY <1>6, <2>4, <4>2 DEF TellParent
      <4> QED BY <4>1, <4>2
    <3> QED BY <1>6, <2>2, <3>1, <3>2 DEF TellParent
  <2> QED BY <2>3, <2>4
<1>7. ASSUME NEW g \in Gen, NoParent(g) PROVE TypeOK'
  BY <1>7 DEF NoParent, Parent, Ends, Forces
<1>8. ASSUME NEW g \in Gen, CloseListener(g) PROVE TypeOK'
  BY <1>8 DEF CloseListener
<1>9. ASSUME NEW g \in Gen, ServeDone(g) PROVE TypeOK'
  BY <1>9 DEF ServeDone
<1>10. ASSUME NEW g \in Gen, SendStop(g) PROVE TypeOK'
  BY <1>10 DEF SendStop, Closes, Of
<1>11. ASSUME NEW g \in Gen, StopDone(g) PROVE TypeOK'
  BY <1>11 DEF StopDone
<1>12. ASSUME NEW g \in Gen, StopTimeout(g) PROVE TypeOK'
  BY <1>12 DEF StopTimeout, Forces
<1>13. ASSUME NEW g \in Gen, SendKill(g) PROVE TypeOK'
  BY <1>13 DEF SendKill, Ends, Closes, Of
<1>14. ASSUME NEW g \in Gen, Exit(g) PROVE TypeOK'
  BY <1>14 DEF Exit, Ends
<1>15. ASSUME NEW g \in Gen, Fails(g) PROVE TypeOK'
  <2>1. forced' \subseteq Gen /\ ordered' \in BOOLEAN
    BY <1>15, FailsDoes
  <2>2. life' \in [Gen -> Life] /\ holds' \in [Gen -> BOOLEAN]
    BY <1>15, FailsDoes
  <2>3. /\ UNCHANGED <<ppid, caught, handler, serving, stopper, manager, conns>>
        /\ incidents' \in 0..MaxIncidents
    BY <1>15, FailsDoes
  <2> QED BY <2>1, <2>2, <2>3
<1>16. ASSUME NEW g \in Gen, NEW c \in Conn, Accept(c, g) PROVE TypeOK'
  <2>1. owner' \in [Conn -> 0..MaxGen]
    BY <1>16 DEF Accept, Gen
  <2>2. st' \in [Conn -> State]
    BY <1>16 DEF Accept, Becomes
  <2> QED BY <1>16, <2>1, <2>2 DEF Accept, ConnInv
<1>17. ASSUME NEW c \in Conn, Tell(c) PROVE TypeOK'
  <2>1. \A d \in Conn : known'[d] # "no" => owner'[d] # 0 /\ st'[d] # "free"
    BY DEF ConnInv
  <2>2. CASE st[c] = "2closed"
    <3>1. owner' \in [Conn -> 0..MaxGen] /\ st' \in [Conn -> State]
      BY <1>17, <2>2 DEF Tell, Becomes
    <3>2. /\ known' \in [Conn -> {"no", "new", "active", "idle"}]
          /\ shut' \in [Conn -> BOOLEAN]
      BY <1>17, <2>2 DEF Tell
    <3>3. manager' \in [Gen -> Manager]
      BY <1>17, <2>2, OwnerType DEF Tell, Alive
    <3> QED BY <1>17, <2>1, <3>1, <3>2, <3>3 DEF Tell
  <2>3. CASE st[c] # "2closed"
    <3>1. Told(st[c]) \in {"new", "active", "idle"}
      BY <1>17, <2>3 DEF Tell, Told
    <3>2. (shut[c] \/ (manager[owner[c]] = "stopping" /\ st[c] = "2idle"))
            \in BOOLEAN
      OBVIOUS
    <3>3. shut' \in [Conn -> BOOLEAN]
      BY <1>17, <2>3, <3>2 DEF Tell
    <3> QED BY <1>17, <2>1, <2>3, <3>1, <3>3 DEF Tell, Becomes
  <2> QED BY <2>2, <2>3
<1>18. ASSUME NEW c \in Conn,
             FindShut(c) \/ Request(c) \/ Respond(c) \/ HangUp(c)
      PROVE  TypeOK'
  <2>1. PICK s \in {"2active", "2idle", "2closed"} : st' = [st EXCEPT ![c] = s]
    BY <1>18 DEF FindShut, Request, Respond, HangUp, Becomes
  <2>2. st' \in [Conn -> State]
    BY <2>1
  <2>3. UNCHANGED <<procs, stop, owner, known, shut, history>>
    BY <1>18 DEF FindShut, Request, Respond, HangUp
  <2> QED BY <2>2, <2>3 DEF ConnInv
<1> QED BY <1>1, <1>2, <1>3, <1>4, <1>5, <1>6, <1>7, <1>8, <1>9, <1>10,
         <1>11, <1>12, <1>13, <1>14, <1>15, <1>16, <1>17, <1>18, <1>19
     DEF Next, StartStep, StopStep, ServerStep, Fails

-----------------------------------------------------------------------------
(* The theorems.                                                           *)

\* The first process is in main, and there is nothing else.
LEMMA InvInit == Init => Inv
<1> SUFFICES ASSUME Init PROVE Inv
  OBVIOUS
<1>1. TypeOK
  <2>1. life \in [Gen -> Life] /\ ppid \in [Gen -> 0..MaxGen]
    BY DEF Init, Life
  <2>2. stopper \in [Gen -> Stopper] /\ manager \in [Gen -> Manager]
    BY DEF Init, Stopper, Manager
  <2>3. owner \in [Conn -> 0..MaxGen] /\ st \in [Conn -> State]
    BY DEF Init, State
  <2>4. /\ caught \in [Gen -> SUBSET {"TERM", "USR2"}]
        /\ handler \in [Gen -> BOOLEAN] /\ holds \in [Gen -> BOOLEAN]
        /\ serving \in [Gen -> BOOLEAN]
    BY DEF Init
  <2>5. /\ known \in [Conn -> {"no", "new", "active", "idle"}]
        /\ shut \in [Conn -> BOOLEAN]
        /\ \A c \in Conn : known[c] = "no"
    BY DEF Init
  <2>6. forced \subseteq Gen /\ incidents \in 0..MaxIncidents
    BY DEF Init
  <2>7. ordered \in BOOLEAN
    BY DEF Init
  <2> QED BY <2>1, <2>2, <2>3, <2>4, <2>5, <2>6, <2>7 DEF TypeOK
<1>2. ProcInv /\ StopInv
  BY DEF Init, ProcInv, StopInv, Early, Open, Gen
<1>3. ConnInv /\ NothingCutOff
  BY DEF Init, ConnInv, NothingCutOff
<1>4. ServedInv
  BY DEF Init, ServedInv, Gen
<1> QED BY <1>1, <1>2, <1>3, <1>4 DEF Inv

\* Inv is inductive.
LEMMA InvNext == Inv /\ [Next]_vars => Inv'
<1> SUFFICES ASSUME Inv, [Next]_vars PROVE Inv'
  OBVIOUS
<1>1. CASE Next
  <2>1. ProcInv' /\ StopInv' /\ ConnInv'
    BY <1>1, ProcStep, StopInvStep, ConnStep DEF Inv
  <2>2. NothingCutOff' /\ ServedInv'
    BY <1>1, CutStep, ServedStep DEF Inv
  <2>3. TypeOK'
    BY <1>1, <2>1, TypeStep DEF Inv
  <2> QED BY <2>1, <2>2, <2>3 DEF Inv
<1>2. CASE UNCHANGED vars
  BY <1>2 DEF vars, Inv, TypeOK, ProcInv, StopInv, ConnInv, NothingCutOff,
              ServedInv, Stays
<1> QED BY <1>1, <1>2

\* Every behaviour keeps Inv.
THEOREM InvAlways == Spec => []Inv
BY InvInit, InvNext, PTL DEF Spec

\* Every variable has its type, and manage knows no connection that net/http
\* has done with, however many processes follow each other.
THEOREM TypeCorrect == Spec => []TypeOK
<1>1. Inv => TypeOK
  BY DEF Inv
<1> QED BY <1>1, InvAlways, PTL

\* connState never sends on a channel that manage has closed, and never a
\* state of a connection that manage does not know.
THEOREM SendsAlwaysReceived == Spec => []SendsReceived
<1>1. Inv => SendsReceived
  BY DEF Inv, ConnInv, SendsReceived, Alive, Telling
<1> QED BY <1>1, InvAlways, PTL

\* A process that ends without having been forced to leaves no connection.
THEOREM NothingEverCutOff == Spec => []NothingCutOff
<1>1. Inv => NothingCutOff
  BY DEF Inv
<1> QED BY <1>1, InvAlways, PTL

\* From the moment the first process serves, some process accepts connections
\* until the operator or a failed StartProcess ends the service.
THEOREM ServedAlways == Spec => []AlwaysServed
<1>1. Inv => AlwaysServed
  <2> SUFFICES ASSUME Inv, ~ ordered, life[1] # "boot"
               PROVE  \E g \in Gen : /\ life[g] \in Accepting
                                     /\ serving[g] /\ holds[g]
    BY DEF AlwaysServed
  <2>1. PICK g \in Gen : \/ g = 1 /\ life[g] = "serve"
                         \/ Stays(g)
    BY DEF Inv, ServedInv, Gen
  <2>2. life[g] \in Accepting /\ stopper[g] = "no"
    BY <2>1 DEF Inv, ProcInv, Early, Stays, Accepting
  <2>3. serving[g] /\ holds[g]
    BY <2>2 DEF Inv, ProcInv
  <2> QED BY <2>2, <2>3
<1> QED BY <1>1, InvAlways, PTL
=============================================================================
