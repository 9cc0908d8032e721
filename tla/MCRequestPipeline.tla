-------------------------- MODULE MCRequestPipeline --------------------------
(* The instance of RequestPipeline for TLC.                                *)
EXTENDS RequestPipeline

CONSTANTS c1, c2, c3, w1, w2, s1
=============================================================================
