--------------------------- MODULE MCStatusRoutes ---------------------------
(***************************************************************************)
(* StatusRoutes for TLC: a spoke in two subnets, which may retract one or  *)
(* get its list wrong, and the hub, which offers none and observes         *)
(* endpoints.                                                              *)
(***************************************************************************)
EXTENDS StatusRoutes, TLC

CONSTANTS hub, n1, s1, s2

MCAttached == (hub :> {}) @@ (n1 :> {s1, s2})
MCReoffers == (hub :> {}) @@ (n1 :> {{s1}, {BadRoute}})

\* For OneRouterPerRoute: both are in one subnet.
MCShared == [n \in Nodes |-> {s1}]
=============================================================================
