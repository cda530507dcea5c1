---------------------------- MODULE MCHostNames ----------------------------
(***************************************************************************)
(* HostNames for TLC.  Of the raw names one is what another becomes with a *)
(* number, and one has no usable character.                                *)
(***************************************************************************)
EXTENDS HostNames

MCSlug ==
  [NAS |-> Label("nas"), nas2 |-> [word |-> "nas", numbers |-> <<2>>], emoji |-> NoLabel]
MCRawNames == DOMAIN MCSlug
=============================================================================
