--------------------------- MODULE MCDedicatedTabs --------------------------
(* DedicatedTabs for TLC: two tabs that may each lead and follow.            *)
EXTENDS DedicatedTabs
=============================================================================
