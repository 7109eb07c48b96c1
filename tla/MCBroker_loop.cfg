\* One process works through three commands; one failure or crash.
CONSTANTS
  p1 = p1  p2 = p2  b1 = b1  i1 = i1  t1 = t1  t2 = t2
  Process = {p1}
  Bot = {b1}
  Id = {i1}
  Nano = {t1}
  Blank = Blank
  MaxCommands = 3
  MaxClients = 4
  MaxFaults = 1
SPECIFICATION FairSpec
PROPERTIES BacklogWorkedOff BotStarted
CHECK_DEADLOCK FALSE
