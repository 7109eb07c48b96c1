SPECIFICATION FairSpec
CONSTANTS
  g1 = g1
  g2 = g2
  loop = loop
  Caller = {g1, g2}
  Listener = {loop}
  Nobody = Nobody
  PoolSize = 1
  MaxRetries = 1
  Password = TRUE
  MaxFaults = 2
INVARIANTS Exclusive PlacesCounted SendsNeverBlock LostByRefusal OneLossSurvived
PROPERTIES Answered ClientReturns
CHECK_DEADLOCK FALSE
