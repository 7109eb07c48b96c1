----------------------------- MODULE MCWebSocket -----------------------------
(* Instances of WebSocket for TLC.                                         *)
EXTENDS WebSocket

CONSTANTS pump, loop

\* A ping is short, a command fills the buffer more than once.
PingAndCommand == [w \in {pump, loop} |-> IF w = pump THEN 1 ELSE 3]

\* A message in two frames or in one, and the frames that are answered.
FewFrames ==
  {[kind |-> "text", final |-> FALSE], [kind |-> "text", final |-> TRUE],
   [kind |-> "continuation", final |-> TRUE],
   [kind |-> "ping"], [kind |-> "close"]}
=============================================================================
