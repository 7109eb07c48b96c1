\* A client that was stopped comes back.
CONSTANTS
  p1 = p1  p2 = p2  b1 = b1  i1 = i1  t1 = t1  t2 = t2
  Process = {p1}
  Bot = {b1}
  Id = {i1}
  Nano = {t1}
  Blank = Blank
  MaxCommands = 1
  MaxClients = 2
  MaxFaults = 0
SPECIFICATION Spec
INVARIANTS StoppedStaysStopped
CHECK_DEADLOCK FALSE
