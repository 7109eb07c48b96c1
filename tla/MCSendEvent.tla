---------------------------- MODULE MCSendEvent -----------------------------
(* Instances of SendEvent for TLC.                                         *)
EXTENDS SendEvent, TLC

CONSTANTS s1, s2, p1, p2, u1, bot, c1, c2, t1, t2, t3, t4, t5, T1, n1

-----------------------------------------------------------------------------
(* Who runs where.                                                         *)

OneEach    == s1 :> p1 @@ s2 :> p2
SameBot    == [s \in Sender |-> [team |-> T1, namespace |-> Blank]]
OneProcess == s1 :> p1
Together   == [s \in Sender |-> p1]
Namespaces == s1 :> [team |-> T1, namespace |-> Blank]
              @@ s2 :> [team |-> T1, namespace |-> n1]

-----------------------------------------------------------------------------
(* What Slack says.                                                        *)

\* A new message of u1 in c1; the others are variations of it.
New == [team |-> T1, type |-> "message", subtype |-> "", user |-> u1,
        channel |-> c1, ts |-> t1, deleted_ts |-> Blank, event_ts |-> Blank,
        nested |-> Blank, parses |-> TRUE]

Nest(u, c, t) == [user |-> u, channel |-> c, ts |-> t]

Elsewhere == [New EXCEPT !.channel = c2]
EditOf    == [New EXCEPT !.subtype = "message_changed", !.user = Blank,
                         !.ts = t2, !.nested = Nest(u1, Blank, t1)]
DeleteOf  == [New EXCEPT !.subtype = "message_deleted", !.user = Blank,
                         !.ts = t3, !.deleted_ts = t1]
ReactTo   == [New EXCEPT !.type = "reaction_added", !.channel = Blank,
                         !.ts = Blank, !.event_ts = t4,
                         !.nested = Nest(Blank, c2, t1)]
Join      == [New EXCEPT !.type = "channel_joined", !.user = Blank,
                         !.channel = c2, !.ts = Blank]

\* Messages of one time in two channels and what can happen to them; the bots do
\* not know c2 until they are taken into it.  Their own words are ignored.
Conversation ==
  {New, Elsewhere, EditOf, DeleteOf, ReactTo, Join,
   [New EXCEPT !.user = bot, !.ts = t5]}

\* Bound: the two clients handle three messages, and the events of one field
\* meet faults.
Few ==
  /\ Cardinality(seen[s1]) + Cardinality(seen[s2]) <= 3
  /\ Cardinality(hit) <= 1

\* A message that both processes receive.
Said == {New}

\* rtm.start before and after u1 came to the team and the bot to c2.
Before == [self |-> bot, users |-> {bot}, ims |-> {}, channels |-> {c1},
           groups |-> {}]
Later  == [Before EXCEPT !.users = {u1, bot}, !.groups = {c2}]

OneAnswer  == {Before}
TwoAnswers == {Before, Later}
=============================================================================
