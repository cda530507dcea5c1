----------------------------- MODULE MCRegistry -----------------------------
(***************************************************************************)
(* Registry for TLC: requests, tokens and unique values are                *)
(* interchangeable.                                                        *)
(***************************************************************************)
EXTENDS Registry, TLC

Symmetry == Permutations(Requests) \union Permutations(Tokens) \union Permutations(Uniques)
=============================================================================
