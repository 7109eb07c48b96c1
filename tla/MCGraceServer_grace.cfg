SPECIFICATION FairSpec
CONSTANTS
  c1 = c1
  c2 = c2
  Conn = {c1, c2}
  MaxGen = 3
  MaxIncidents = 2
INVARIANTS TypeOK SendsReceived  AlwaysServed
PROPERTY Leaves
CHECK_DEADLOCK FALSE
