--------------------------- MODULE MCNetworkLock ----------------------------
(***************************************************************************)
(* NetworkLock for TLC.                                                    *)
(***************************************************************************)
EXTENDS NetworkLock, TLC

Symmetry == Permutations(Admins) \union Permutations(LockKeys)
=============================================================================
