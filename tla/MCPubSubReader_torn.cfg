\* Three commands, cut and delayed anywhere.
CONSTANTS
  MaxCommands = 3
SPECIFICATION FairSpec
INVARIANTS DeliveredInOrder PanicIfTorn
PROPERTIES Heard
CHECK_DEADLOCK FALSE
