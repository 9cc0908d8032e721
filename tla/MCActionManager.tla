--------------------------- MODULE MCActionManager ---------------------------
(* The instance of ActionManager for TLC.                                  *)
EXTENDS ActionManager

CONSTANTS e1, w1, w2, k1, k2
=============================================================================
