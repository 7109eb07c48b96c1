\* A failure or a close, sockets that go silent, goroutines at any pace.
CONSTANTS
  MaxRuns = 2
  MaxFaults = 1
  MaxStalls = 2
  MaxRemovals = 0
  MaxPongs = 2
  Prompt = FALSE
SPECIFICATION FairSpec
INVARIANTS TypeOK LinesConserved MissedBounded OneLine
PROPERTIES StallNoticed
CHECK_DEADLOCK FALSE
