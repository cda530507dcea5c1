---------------------------- MODULE MCWebConsole ----------------------------
(***************************************************************************)
(* WebConsole for TLC.  Session ids are interchangeable, but a temporal    *)
(* property is checked, so no symmetry is used.                            *)
(***************************************************************************)
EXTENDS WebConsole
=============================================================================
