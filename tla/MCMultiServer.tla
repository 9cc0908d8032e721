---------------------------- MODULE MCMultiServer ----------------------------
(* The instance of MultiServer for TLC.                                    *)
EXTENDS MultiServer

CONSTANTS s1, s2, r1, c1
=============================================================================
