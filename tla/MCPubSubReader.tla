--------------------------- MODULE MCPubSubReader ---------------------------
(* Instances of PubSubReader for TLC; the constant is a number.            *)
EXTENDS PubSubReader
=============================================================================
