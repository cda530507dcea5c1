----------------------------- MODULE AclCompile -----------------------------
(***************************************************************************)
(* Access policies: the admin's changes to tags, policies, approvals and   *)
(* subnets; the netmap buildNetmapFor compiles from them for each node;    *)
(* and the way of a new connection through the filters the agents install. *)
(*                                                                         *)
(* Every node is taken to have applied the current netmap (NetmapSync is   *)
(* about when it does, DataPlane about how).  A device stands for its /32. *)
(* Rule sets are sets: the order of ACCEPT rules does not matter.  Static  *)
(* peers send everything to the hub (a full-tunnel configuration).         *)
(***************************************************************************)
EXTENDS Naturals, Sequences, FiniteSets

CONSTANTS
  Hub,          \* the hub, a Linux node
  Spokes,       \* the other nodes
  Statics,      \* static peers
  Linux,        \* nodes whose agent enforces the filter
  Subnets,      \* LAN subnets
  Router,       \* Router[x]: the Linux node that advertises subnet x
  Tags,         \* tags as they are stored, slugs
  Labels,       \* tags as the admin writes them
  Slug,         \* Slug[l]: the slug of label l, or NoTag
  NoTag,        \* the empty slug, of a label without a letter or digit of ASCII
  Blank,        \* an entry of a port list that is white space
  PolicyReqs,   \* policy requests: [src, dst, proto, ports, enabled], lists as sets
  Packets,      \* first packets of connections: [proto, port]
  MultiportMax, \* ports in one iptables rule (15)
  MaxPolicies   \* bound: policies at the same time

Nodes == Spokes \union {Hub}
Devices == Nodes \union Statics

ASSUME AclAssumption ==
  /\ Hub \notin Spokes
  /\ Statics \intersect Nodes = {}
  /\ Hub \in Linux
  /\ Linux \subseteq Nodes
  /\ Router \in [Subnets -> Linux]
  /\ Subnets \intersect Devices = {}   \* normalizeRoutes refuses what overlaps the overlay
  /\ NoTag \notin Tags
  /\ Blank \notin Nat
  /\ Slug \in [Labels -> Tags \union {NoTag}]
  /\ PolicyReqs \subseteq [src : SUBSET Labels, dst : SUBSET Labels, proto : STRING,
                           ports : SUBSET (Nat \union {Blank}), enabled : BOOLEAN]
  /\ \A r \in PolicyReqs : Cardinality(r.ports \ {Blank}) \in Nat   \* lists are finite
  /\ \A k \in Packets : k.port \in Nat
  /\ MultiportMax \in Nat \ {0}
  /\ MaxPolicies \in Nat

VARIABLES
  tags,      \* tags[d]
  approved,  \* approved[n]
  enabled,   \* the subnets the admin enabled
  policies   \* rows [src, dst, proto, ports, enabled], and the request asked as history

aclVars == <<tags, approved, enabled, policies>>

\* normalizeTags: the labels' slugs; a label without one is dropped.
NormalizeTags(L) == {Slug[l] : l \in L} \ {NoTag}

PortNumbers == 1..65535

\* normalizePorts: blanks are dropped, the rest sorted without duplicates.  No result
\* when an entry is not a port.
NormalizePorts(E) ==
  LET S == E \ {Blank}
  IN  {q \in [1..Cardinality(S) -> S] :
         /\ S \subseteq PortNumbers
         /\ {q[i] : i \in DOMAIN q} = S
         /\ \A i, j \in DOMAIN q : i < j => q[i] < q[j]}

\* No protocol means any.
Protocol(r) == IF r.proto = "" THEN "any" ELSE r.proto

\* The row p is what handlePolicyCreate made of its request; ports go with tcp and udp.
RowOK(p) ==
  /\ p.asked \in PolicyReqs
  /\ p.src = NormalizeTags(p.asked.src)
  /\ p.dst = NormalizeTags(p.asked.dst)
  /\ p.proto = Protocol(p.asked)
  /\ p.proto \in {"any", "tcp", "udp", "icmp"}
  /\ p.ports \in NormalizePorts(p.asked.ports)
  /\ p.ports # <<>> => p.proto \in {"tcp", "udp"}

AclTypeOK ==
  /\ tags \in [Devices -> SUBSET Tags]
  /\ approved \in [Nodes -> BOOLEAN]
  /\ approved[Hub]
  /\ enabled \subseteq Subnets
  /\ \A p \in policies : RowOK(p)

AclInit ==
  /\ tags = [d \in Devices |-> {}]
  /\ approved \in {f \in [Nodes -> BOOLEAN] : f[Hub]}
  /\ enabled = {}
  /\ policies = {}

-----------------------------------------------------------------------------
(***************************************************************************)
(* The admin's handlers.                                                   *)
(***************************************************************************)

\* handleNodeTags, handleStaticPeerTags
SetTags(d, L) ==
  /\ tags' = [tags EXCEPT ![d] = NormalizeTags(L)]
  /\ UNCHANGED <<approved, enabled, policies>>

Approve(n) ==
  /\ ~approved[n]
  /\ approved' = [approved EXCEPT ![n] = TRUE]
  /\ UNCHANGED <<tags, enabled, policies>>

\* handleNodeRoutes, for an advertised subnet
SetEnabledRoutes(S) ==
  /\ enabled' = S
  /\ UNCHANGED <<tags, approved, policies>>

\* handlePolicyCreate; ports require tcp or udp.
CreatePolicy(r) ==
  /\ Cardinality(policies) < MaxPolicies
  /\ Protocol(r) \in {"any", "tcp", "udp", "icmp"}
  /\ \E q \in NormalizePorts(r.ports) :
       /\ q = <<>> \/ Protocol(r) \notin {"any", "icmp"}
       /\ policies' = policies \union
            {[src |-> NormalizeTags(r.src), dst |-> NormalizeTags(r.dst), proto |-> Protocol(r),
              ports |-> q, enabled |-> r.enabled, asked |-> r]}
  /\ UNCHANGED <<tags, approved, enabled>>

DeletePolicy(p) ==
  /\ policies' = policies \ {p}
  /\ UNCHANGED <<tags, approved, enabled>>

AclNext ==
  \/ \E d \in Devices, L \in SUBSET Labels : SetTags(d, L)
  \/ \E n \in Nodes : Approve(n)
  \/ \E S \in SUBSET Subnets : SetEnabledRoutes(S)
  \/ \E r \in PolicyReqs : CreatePolicy(r)
  \/ \E p \in policies : DeletePolicy(p)

AclSpec == AclInit /\ [][AclNext]_aclVars

-----------------------------------------------------------------------------
(***************************************************************************)
(* buildNetmapFor: what the netmap of node n says.                         *)
(***************************************************************************)

\* Unapproved nodes are invisible to everyone.
Visible == {n \in Nodes : approved[n]}

AnyEnabled == \E p \in policies : p.enabled

\* An empty tag list of a policy matches any device.
MatchTag(policyTags, deviceTags) ==
  policyTags = {} \/ policyTags \intersect deviceTags # {}

AclSources == Visible \union Statics

\* The sources one policy grants access from, the destination itself left out.
PolicySources(p, dst) ==
  {s \in AclSources : s # dst /\ MatchTag(p.src, tags[s])}

\* computeFilterRules: one rule for each enabled policy that concerns n.
FilterRules(n) ==
  {[src |-> PolicySources(p, n), proto |-> p.proto, ports |-> p.ports] :
     p \in {q \in policies : /\ q.enabled
                             /\ MatchTag(q.dst, tags[n])
                             /\ PolicySources(q, n) # {}}}

\* The enabled subnets node n advertises, with the tags of n.
OwnSubnets(n) ==
  {[cidr |-> x, tags |-> tags[n]] : x \in {y \in enabled : Router[y] = n}}

\* Seeded fault: the hub does not list static peers among what it relays to.
ForwardDstsNodesOnly(n) ==
  OwnSubnets(n) \union
  IF n = Hub
    THEN UNION {{[cidr |-> m, tags |-> tags[m]]} \union OwnSubnets(m) : m \in Visible \ {n}}
    ELSE {}

\* What n forwards to: its own subnets; the hub also every other device and the
\* subnets behind it.
ForwardDsts(n) ==
  OwnSubnets(n) \union
  IF n = Hub
    THEN (UNION {{[cidr |-> m, tags |-> tags[m]]} \union OwnSubnets(m) : m \in Visible \ {n}})
           \union {[cidr |-> x, tags |-> tags[x]] : x \in Statics}
    ELSE {}

\* computeForwardRules: per policy, the destinations grouped by their source set.
ForwardRules(n) ==
  UNION {LET dsts == {d \in ForwardDsts(n) : MatchTag(p.dst, d.tags)}
             groups == {PolicySources(p, d.cidr) : d \in dsts} \ {{}}
         IN  {[src |-> S, dst |-> {d.cidr : d \in {e \in dsts : PolicySources(p, e.cidr) = S}},
               proto |-> p.proto, ports |-> p.ports] : S \in groups} :
           p \in {q \in policies : q.enabled}}

\* Seeded fault: candidates are handed out whether or not both ends can filter.
CandidatesOffered(n) == Visible \ {n, Hub}

\* The peers n is given candidates for.  Agents that cannot filter get none, and
\* nobody gets any for them, while a policy is enabled.
Candidates(n) ==
  {m \in Visible \ {n, Hub} : n # Hub /\ (AnyEnabled => n \in Linux /\ m \in Linux)}

\* BuildNetmap: the AllowedIPs of the hub on spoke n, the whole overlay and the
\* subnets of the others ...
HubAllowed(n) == Devices \union {x \in enabled : Router[x] \in Visible \ {n}}

\* ... and of node m on the hub, its address and its subnets.
NodeAllowed(m) == {m} \union {x \in enabled : Router[x] = m}

-----------------------------------------------------------------------------
(***************************************************************************)
(* The chains on the nodes, and the way of a packet.                       *)
(***************************************************************************)

\* slices.Chunk: consecutive pieces of at most MultiportMax ports.
Chunks(ports) ==
  {SubSeq(ports, i, IF i + MultiportMax - 1 < Len(ports) THEN i + MultiportMax - 1 ELSE Len(ports)) :
     i \in {j \in 1..Len(ports) : (j - 1) % MultiportMax = 0}}

\* protoPortArgs: some rule generated for this protocol and port list takes k.
Matches(proto, ports, k) ==
  \/ proto = "any"
  \/ /\ proto = k.proto
     /\ \/ proto = "icmp"
        \/ ports = <<>>
        \/ \E c \in Chunks(ports), i \in 1..Len(ports) : i <= Len(c) /\ c[i] = k.port

\* syncFilter prepends these on the hub: its resolver is open to the overlay.
ResolverRules ==
  {[src |-> Devices, proto |-> x, ports |-> <<53>>] : x \in {"udp", "tcp"}}

\* KAI-FILTER on n.
InputAccepts(n, src, k) ==
  \/ ~AnyEnabled
  \/ n \notin Linux
  \/ \E r \in FilterRules(n) \union (IF n = Hub THEN ResolverRules ELSE {}) :
       src \in r.src /\ Matches(r.proto, r.ports, k)

\* KAI-FORWARD on n.
ForwardAccepts(n, src, dst, k) ==
  \/ ~AnyEnabled
  \/ \E r \in ForwardRules(n) : src \in r.src /\ dst \in r.dst /\ Matches(r.proto, r.ports, k)

\* A device takes the packet in: a node by its own filter, a static peer always.
Accepts(d, src, k) == d \in Nodes => InputAccepts(d, src, k)

\* Both ends were given candidates for each other and have found a direct path.
Direct(s, d) == s \in Nodes /\ d \in Candidates(s) /\ s \in Candidates(d)

DirectDelivers(s, d, k) == Direct(s, d) /\ Accepts(d, s, k)

\* By way of the hub.  Its own packets do not cross its FORWARD chain, and what
\* it sends on to a subnet leaves masqueraded with its own address.
RelayDelivers(s, d, k) ==
  /\ s \in Spokes => d \in HubAllowed(s)
  /\ d # Hub => s = Hub \/ ForwardAccepts(Hub, s, d, k)
  /\ \/ d \in Statics \union {Hub} /\ Accepts(d, s, k)
     \/ d \in Subnets /\ Router[d] = Hub
     \/ \E m \in Visible \ {Hub} :
          /\ d \in NodeAllowed(m)
          /\ IF d = m THEN Accepts(d, s, k) ELSE ForwardAccepts(m, Hub, d, k)

-----------------------------------------------------------------------------
(***************************************************************************)
(* Properties: what the policies mean, and that the filters amount to it.  *)
(***************************************************************************)

TagsOf(d) == IF d \in Devices THEN tags[d] ELSE tags[Router[d]]

\* One of the labels is a tag in T.
Names(L, T) == \E l \in L : Slug[l] \in T

\* The admin's request r asks for connection k of s to d to be allowed; an empty list
\* of tags or ports is no restriction.
Asks(r, s, d, k) ==
  /\ r.src = {} \/ Names(r.src, tags[s])
  /\ r.dst = {} \/ Names(r.dst, TagsOf(d))
  /\ \/ Protocol(r) = "any"
     \/ Protocol(r) = k.proto /\ (r.ports = {} \/ k.port \in r.ports)

\* No label of L names a tag.
Nameless(L) == \A l \in L : Slug[l] = NoTag

\* The request asks for a restriction, and no entry of that list is left in the row.
Widened(r) ==
  \/ r.src # {} /\ Nameless(r.src)
  \/ r.dst # {} /\ Nameless(r.dst)
  \/ r.ports = {Blank}

\* What such a row allows: its other restrictions still hold.
AsksWidely(r, s, d, k) ==
  /\ Nameless(r.src) \/ Names(r.src, tags[s])
  /\ Nameless(r.dst) \/ Names(r.dst, TagsOf(d))
  /\ \/ Protocol(r) = "any"
     \/ Protocol(r) = k.proto /\ (r.ports \subseteq {Blank} \/ k.port \in r.ports)

\* An enabled policy asks for the connection, or none is enabled, or it is a question
\* to the resolver.
Allowed(s, d, k) ==
  \/ ~AnyEnabled
  \/ d = Hub /\ k.port = 53 /\ k.proto \in {"tcp", "udp"}
  \/ \E p \in policies : p.enabled /\ Asks(p.asked, s, d, k)

\* A policy allows the connection only because it lost a restriction.
AllowedTooWidely(s, d, k) ==
  \E p \in policies : p.enabled /\ Widened(p.asked) /\ AsksWidely(p.asked, s, d, k)

Present == Visible \union Statics

\* Connections between two devices, and into the subnets of other nodes.
Connections ==
  {c \in Present \X (Present \union {x \in enabled : approved[Router[x]]}) :
     c[1] # c[2] /\ (c[2] \in Subnets => Router[c[2]] # c[1])}

Delivered(c, k) == DirectDelivers(c[1], c[2], k) \/ RelayDelivers(c[1], c[2], k)

\* On no path, direct or relayed, does a connection get through that no policy was
\* asked to allow: every path has a filter on it that knows the real source, although
\* macOS nodes and static peers filter nothing themselves, and normalisation loses no
\* part of a request but a list of which it leaves nothing.  (The hub's own connections
\* are the subject of HubIsFiltered, the lists of RestrictionsKept.)
OnlyAllowed ==
  \A c \in Connections, k \in Packets :
    c[1] # Hub /\ Delivered(c, k)
      => Allowed(c[1], c[2], k) \/ AllowedTooWidely(c[1], c[2], k)

\* A policy allows traffic "from any device tagged with a SrcTag to any device tagged
\* with a DstTag on a protocol/port set" (acl.go:18-20), and no other.
\* It does not hold of the code (README, Known divergences).
RestrictionsKept ==
  \A c \in Connections, k \in Packets :
    c[1] # Hub /\ Delivered(c, k) => Allowed(c[1], c[2], k)

\* What a policy allows gets through to every device, relayed and direct alike,
\* and into the hub's own subnets: being checked twice on the way does not hurt.
AllowedArrives ==
  \A c \in Connections, k \in Packets :
    Allowed(c[1], c[2], k) /\ (c[2] \in Subnets => Router[c[2]] = Hub)
      => /\ RelayDelivers(c[1], c[2], k)
         /\ Direct(c[1], c[2]) => DirectDelivers(c[1], c[2], k)

\* The same for the subnets behind the other routers (the comment on
\* computeForwardRules: traffic that is checked twice is treated identically).
\* It does not hold of the code (README, Known divergences).
SubnetsFollowPolicy ==
  \A c \in Connections, k \in Packets :
    Allowed(c[1], c[2], k) /\ c[2] \in Subnets => RelayDelivers(c[1], c[2], k)

\* Default-deny holds for connections of the hub as well (the comment at the top
\* of acl.go: the network is default-deny as soon as one policy exists).
\* It does not hold of the code (README, Known divergences).
HubIsFiltered ==
  \A c \in Connections, k \in Packets :
    c[1] = Hub /\ RelayDelivers(Hub, c[2], k) => Allowed(Hub, c[2], k)
=============================================================================
