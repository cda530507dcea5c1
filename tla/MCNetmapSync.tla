---------------------------- MODULE MCNetmapSync ----------------------------
(***************************************************************************)
(* NetmapSync for TLC: one node, two handlers that race, two tables.       *)
(***************************************************************************)
EXTENDS NetmapSync
=============================================================================
