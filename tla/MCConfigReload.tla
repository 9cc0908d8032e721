---------------------------- MODULE MCConfigReload ----------------------------
(* The instance of ConfigReload for TLC.                                   *)
EXTENDS ConfigReload

CONSTANTS r1, r2, h1, stopper, d1, d2

\* Two configurations that enable external actions, and one that does not.
MCContents ==
    {[actions |-> TRUE, domains |-> {d1}],
     [actions |-> TRUE, domains |-> {d1, d2}],
     [actions |-> FALSE, domains |-> {d2}]}
=============================================================================
