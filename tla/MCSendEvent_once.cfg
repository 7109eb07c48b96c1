\* The send-only-once requirement against a broken connection.
CONSTANTS
  s1 = s1  s2 = s2  p1 = p1  p2 = p2
  u1 = u1  bot = bot  c1 = c1  c2 = c2
  t1 = t1  t2 = t2  t3 = t3  t4 = t4  t5 = t5
  T1 = T1  n1 = n1
  User = {u1, bot}
  Channel = {c1, c2}
  Stamp = {t1, t2, t3, t4, t5}
  Team = {T1}
  Namespace = {n1}
  Blank = Blank
  SendBotReplies = FALSE
  Sender = {s1}
  Process = {p1}
  ProcessOf <- OneProcess
  BotOf <- SameBot
  Input <- Said
  Answer <- OneAnswer
  Clock = {1}
  MaxRetries = 1
  MaxCrashes = 0
  MaxMinute = 0
  NoEvent = NoEvent
SPECIFICATION Spec
INVARIANTS SendOnlyOnce
CHECK_DEADLOCK FALSE
