\* Two processes hear two commands; one failure or crash.
CONSTANTS
  p1 = p1  p2 = p2  b1 = b1  i1 = i1  t1 = t1  t2 = t2
  Process = {p1, p2}
  Bot = {b1}
  Id = {i1}
  Nano = {t1, t2}
  Blank = Blank
  MaxCommands = 2
  MaxClients = 3
  MaxFaults = 1
SPECIFICATION Spec
INVARIANTS TypeOK WrittenOnce TriedIsWritten
CHECK_DEADLOCK FALSE
