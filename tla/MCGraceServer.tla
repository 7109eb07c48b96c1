---------------------------- MODULE MCGraceServer ----------------------------
(* Instances of GraceServer for TLC.                                       *)
EXTENDS GraceServer

CONSTANTS c1, c2
=============================================================================
