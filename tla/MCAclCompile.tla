---------------------------- MODULE MCAclCompile ----------------------------
(* An instance of AclCompile: the hub (a router itself), two Linux nodes of *)
(* which one is a router, a macOS node and a phone; one tag, which the      *)
(* admin may write in his own way, and a label that has no slug.            *)
EXTENDS AclCompile

MCRouter == [x \in Subnets |-> IF x = "hubLan" THEN "hub" ELSE "linux1"]
MCSlug == [l \in Labels |-> IF l = "A" THEN "a" ELSE NoTag]
MCPackets == {[proto |-> "tcp", port |-> 80], [proto |-> "tcp", port |-> 8080],
              [proto |-> "udp", port |-> 53], [proto |-> "icmp", port |-> 0]}

Asking(S, D, proto, E) == [src |-> S, dst |-> D, proto |-> proto, ports |-> E, enabled |-> TRUE]
Web == {80, 443, 8080}

\* Policies on tags, on ports and on neither; labels and ports that normalisation drops
\* from a list, in part or altogether; requests that are refused.
MCPolicyReqs ==
  {Asking({"A"}, {}, "tcp", Web), Asking({}, {"A", "--"}, "tcp", Web),
   Asking({}, {}, "", {}), Asking({"A", "--"}, {"A"}, "any", {}),
   Asking({"--"}, {"A"}, "any", {}), Asking({"A"}, {"--"}, "tcp", Web),
   Asking({"A"}, {}, "tcp", {Blank}), Asking({}, {"A"}, "tcp", {Blank, 80}),
   Asking({}, {}, "icmp", {80}), Asking({}, {}, "tcp", {0, 80}), Asking({}, {}, "gre", {}),
   [Asking({}, {}, "any", {}) EXCEPT !.enabled = FALSE]}
=============================================================================
