----------------------------- MODULE MCDataPlane ----------------------------
(***************************************************************************)
(* DataPlane for TLC: an open network, and two filtered ones that differ   *)
(* in every part.                                                          *)
(***************************************************************************)
EXTENDS DataPlane

Publishing(t) == [p \in Ports |-> t]
MCNetmaps ==
  {[hosts |-> "h0", publishes |-> Publishing(Nothing), enabled |-> FALSE, rules |-> Nothing,
    subnets |-> {}],
   [hosts |-> "h1", publishes |-> Publishing("t1"), enabled |-> TRUE, rules |-> "r1",
    subnets |-> {"lan"}],
   [hosts |-> "h2", publishes |-> Publishing("t2"), enabled |-> TRUE, rules |-> "r2",
    subnets |-> {"lan", "lab"}]}
=============================================================================
