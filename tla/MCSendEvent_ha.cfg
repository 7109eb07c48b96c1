\* Two processes serve one bot with different metadata; connections to Redis break,
\* a process crashes.
CONSTANTS
  s1 = s1  s2 = s2  p1 = p1  p2 = p2
  u1 = u1  bot = bot  c1 = c1  c2 = c2
  t1 = t1  t2 = t2  t3 = t3  t4 = t4  t5 = t5
  T1 = T1  n1 = n1
  User = {u1, bot}
  Channel = {c1, c2}
  Stamp = {t1}
  Team = {T1}
  Namespace = {n1}
  Blank = Blank
  SendBotReplies = FALSE
  Sender = {s1, s2}
  Process = {p1, p2}
  ProcessOf <- OneEach
  BotOf <- SameBot
  Input <- Said
  Answer <- TwoAnswers
  Clock = {1}
  MaxRetries = 1
  MaxCrashes = 1
  MaxMinute = 0
  NoEvent = NoEvent
SPECIFICATION FairSpec
INVARIANTS OnceUnlessFault CopiesBounded OneVersionPerField NoSilentLoss
PROPERTIES Delivers LostStaysLost EventuallySent
CHECK_DEADLOCK FALSE
