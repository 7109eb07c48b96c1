--------------------------- MODULE MCSlackClient ----------------------------
(* Instances of SlackClient for TLC; the constants are numbers.            *)
EXTENDS SlackClient
=============================================================================
