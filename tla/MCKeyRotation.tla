--------------------------- MODULE MCKeyRotation ---------------------------
(***************************************************************************)
(* One node.  At most seven keys are in use at a time: the four copies, a  *)
(* pair in rotateKey, the command's and a request's.                       *)
(***************************************************************************)
EXTENDS KeyRotation
=============================================================================
