\* Slack's API and servers fail, the readers are quicker than the ticker.
CONSTANTS
  MaxRuns = 4
  MaxFaults = 3
  MaxStalls = 0
  MaxRemovals = 1
  MaxPongs = 2
  Prompt = TRUE
SPECIFICATION FairSpec
PROPERTIES Reconnects
CHECK_DEADLOCK FALSE
