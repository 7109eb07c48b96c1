------------------------------- MODULE Events -------------------------------
(***************************************************************************)
(* What one message of Slack's RealTime API becomes: the metadata a client *)
(* keeps (built by Login, extended by handleMessage), the event that       *)
(* handleMessage hands to sendEvent, and the mutex field under which       *)
(* sendEvent claims it (slack/client.go, slack/datatypes.go).              *)
(*                                                                         *)
(* Texts, attachments, names and colours travel through the code untouched *)
(* and are left out.  Ids and Slack timestamps are members of constant     *)
(* sets, Blank is Go's empty string.                                       *)
(***************************************************************************)
EXTENDS Naturals

CONSTANTS
  User,            \* user ids
  Channel,         \* channel, group and IM ids
  Stamp,           \* timestamps written by Slack ("ts", "event_ts", ...)
  Team,            \* team ids
  Namespace,       \* namespaces of clients; Blank is "no namespace"
  Blank,           \* the empty string
  SendBotReplies   \* environment variable RELAX_SEND_BOT_REPLIES = "true"

ASSUME BlankAssumption == Blank \notin (User \cup Channel \cup Stamp)
ASSUME BotRepliesAssumption == SendBotReplies \in BOOLEAN

OrBlank(S) == S \cup {Blank}

-----------------------------------------------------------------------------
(* Metadata: what a client knows of its team.                              *)

\* channels holds every known channel, ims the ones whose Im flag is set.
\* An object that Slack sends without an id is filed under Blank.
Metadata == [self     : OrBlank(User),
             users    : SUBSET OrBlank(User),
             channels : SUBSET OrBlank(Channel),
             ims      : SUBSET OrBlank(Channel)]

\* A successful answer of rtm.start.
RtmStart == [self : User, users : SUBSET User, ims : SUBSET Channel,
             channels : SUBSET Channel, groups : SUBSET Channel]

\* Login: the IM list is entered first, channels and groups overwrite it.
LoginMetadata(r) ==
  [self     |-> r.self,
   users    |-> r.users,
   channels |-> r.ims \cup r.channels \cup r.groups,
   ims      |-> r.ims \ (r.channels \cup r.groups)]

\* The metadata of an answer that is not ok: it lists nothing.
EmptyMetadata ==
  [self |-> Blank, users |-> {}, channels |-> {}, ims |-> {}]

\* A lookup in a Go map yields the zero User or Channel for an unknown id.
LookupUser(d, u) == IF u \in d.users THEN u ELSE Blank
LookupChannel(d, c) == IF c \in d.channels THEN c ELSE Blank
LookupIm(d, c) == c \in d.channels /\ c \in d.ims

-----------------------------------------------------------------------------
(* Messages from Slack.                                                    *)

MessageType == {"message", "reaction_added", "reaction_removed", "team_join",
                "im_created", "group_joined", "channel_joined", "other"}

\* "other" stands for every subtype that handleMessage has no case for.
Subtype == {"", "message_changed", "message_deleted", "other"}

\* The object nested in "message" (an edit) or in "item" (a reaction).
Nested == [user : OrBlank(User), channel : OrBlank(Channel),
           ts : OrBlank(Stamp)]

\* parses: the raw user (team_join) or channel (im_created, *_joined)
\* unmarshals into the struct the handler wants.  team: whose socket it is on.
Message == [team       : Team,
            type       : MessageType,
            subtype    : Subtype,
            user       : OrBlank(User),
            channel    : OrBlank(Channel),
            ts         : OrBlank(Stamp),
            deleted_ts : OrBlank(Stamp),
            event_ts   : OrBlank(Stamp),
            nested     : Nested \cup {Blank},
            parses     : BOOLEAN]

Edited(m)   == m.type = "message" /\ m.subtype = "message_changed"
Deleted(m)  == m.type = "message" /\ m.subtype = "message_deleted"
Simple(m)   == m.type = "message" /\ m.subtype = ""
Reaction(m) == m.type \in {"reaction_added", "reaction_removed"}
Joined(m)   == m.type \in {"group_joined", "channel_joined"}

\* handleMessage reaches its sendEvent call for this message.
Sends(m, d) ==
  \/ Deleted(m)
  \/ Edited(m) /\ m.nested # Blank
  \/ Simple(m) /\ (m.user # d.self \/ SendBotReplies)
  \/ Reaction(m) /\ m.nested # Blank
  \/ (m.type \in {"team_join", "im_created"} \/ Joined(m)) /\ m.parses

\* The metadata after the message: new members, IMs and channels are learned.
Learn(m, d) ==
  CASE m.type = "team_join" /\ m.parses ->
         [d EXCEPT !.users = @ \cup {m.user}]
    [] m.type = "im_created" /\ m.parses ->
         [d EXCEPT !.channels = @ \cup {m.channel},
                   !.ims = @ \cup {m.channel}]
    [] Joined(m) /\ m.parses ->
         [d EXCEPT !.channels = @ \cup {m.channel},
                   !.ims = @ \ {m.channel}]
    [] OTHER -> d

-----------------------------------------------------------------------------
(* Events and their mutex fields.                                          *)

EventType == {"disable_bot", "message_new", "message_edited",
              "message_deleted", "reaction_added", "reaction_removed",
              "team_joined", "im_created", "channel_joined"}

\* Timestamps Relax makes up itself: of the minute of a join, of "now".
MinuteStamp == [minute : Nat, channel : OrBlank(Channel)]
NanoStamp   == [nano : Nat]
AnyStamp    == OrBlank(Stamp) \cup MinuteStamp \cup NanoStamp

\* Slack's "1405894322.002768" looks like neither.
ASSUME StampAssumption == Stamp \cap (MinuteStamp \cup NanoStamp) = {}

Event == [type            : EventType,
          team            : Team,
          namespace       : OrBlank(Namespace),
          user            : OrBlank(User),
          channel         : OrBlank(Channel),
          im              : BOOLEAN,
          bot             : OrBlank(User),
          timestamp       : AnyStamp,
          event_timestamp : AnyStamp]

EventTypeOf(m) ==
  CASE Deleted(m)            -> "message_deleted"
    [] Edited(m)             -> "message_edited"
    [] Simple(m)             -> "message_new"
    [] m.type = "team_join"  -> "team_joined"
    [] Joined(m)             -> "channel_joined"
    [] OTHER                 -> m.type

UserOf(m) ==
  IF Edited(m) THEN m.nested.user ELSE IF Joined(m) THEN Blank ELSE m.user

ChannelOf(m) ==
  IF Reaction(m) THEN m.nested.channel
  ELSE IF m.type = "team_join" THEN Blank ELSE m.channel

\* Mutant: the timestamp of an edit is the edit's own.
TimestampOfEnvelope(m, minute) ==
  CASE Deleted(m)             -> m.deleted_ts
    [] Edited(m) \/ Simple(m) -> m.ts
    [] Reaction(m)            -> m.nested.ts
    [] Joined(m)              -> [minute |-> minute, channel |-> m.channel]
    [] OTHER                  -> Blank

TimestampOf(m, minute) ==
  CASE Deleted(m)               -> m.deleted_ts
    [] Edited(m) \/ Reaction(m) -> m.nested.ts
    [] Simple(m)                -> m.ts
    [] Joined(m)                -> [minute |-> minute, channel |-> m.channel]
    [] OTHER                    -> Blank

\* Mutant: an edit and a deletion go by the timestamp of their message.
EventTimestampOfItem(m, minute) ==
  IF Edited(m) \/ Deleted(m) THEN TimestampOf(m, minute)
  ELSE CASE m.type = "message" -> m.ts
         [] Reaction(m)        -> m.event_ts
         [] Joined(m)          -> [minute |-> minute, channel |-> m.channel]
         [] OTHER              -> Blank

EventTimestampOf(m, minute) ==
  CASE m.type = "message" -> m.ts
    [] Reaction(m)        -> m.event_ts
    [] Joined(m)          -> [minute |-> minute, channel |-> m.channel]
    [] OTHER              -> Blank

\* sendEvent stamps an event that has no timestamp with the current time.
StampedAt(ts, now) == IF ts = Blank THEN [nano |-> now] ELSE ts

\* The Event struct for message m of a client of bot b; d is the metadata
\* after the message, minute and now are what the process's clock says.
EventFor(b, m, d, minute, now) ==
  [type            |-> EventTypeOf(m),
   team            |-> b.team,
   namespace       |-> b.namespace,
   user            |-> LookupUser(d, UserOf(m)),
   channel         |-> LookupChannel(d, ChannelOf(m)),
   im              |-> LookupIm(d, ChannelOf(m)),
   bot             |-> d.self,
   timestamp       |-> TimestampOf(m, minute),
   event_timestamp |-> StampedAt(EventTimestampOf(m, minute), now)]

\* Start: the event for a token that Slack refuses.
DisableBot(b, now) ==
  [type            |-> "disable_bot",
   team            |-> b.team,
   namespace       |-> b.namespace,
   user            |-> Blank,
   channel         |-> Blank,
   im              |-> FALSE,
   bot             |-> Blank,
   timestamp       |-> Blank,
   event_timestamp |-> StampedAt(Blank, now)]

\* Field "bot_message:<channel>:<event timestamp>" of the RELAX_MUTEX_KEY hash.
Key == OrBlank(Channel) \X AnyStamp
KeyOf(e) == <<e.channel, e.event_timestamp>>
=============================================================================
