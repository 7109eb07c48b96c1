------------------------------ MODULE MCBroker ------------------------------
(* Instances of Broker for TLC.                                            *)
EXTENDS Broker

CONSTANTS p1, p2, b1, i1, t1, t2
=============================================================================
