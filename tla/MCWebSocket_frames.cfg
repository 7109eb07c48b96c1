\* The ping pump, the pubsub loop and the read loop on one connection.
CONSTANTS
  pump = pump  loop = loop
  Writer = {pump, loop}
  Size <- PingAndCommand
  BufSize = 2
  Sends <- FewFrames
  MaxMessages = 1
  MaxFrames = 2
SPECIFICATION Spec
INVARIANTS NothingAfterClose IntactUnlessRaced PanicIfRaced ReadsWhole
CHECK_DEADLOCK FALSE
