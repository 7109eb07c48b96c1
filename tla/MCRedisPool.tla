----------------------------- MODULE MCRedisPool -----------------------------
(* Instances of RedisPool for TLC.                                         *)
EXTENDS RedisPool

CONSTANTS g1, g2, loop
=============================================================================
