----------------------------- MODULE FilterProofs ---------------------------
(***************************************************************************)
(* Proofs about AclCompile and DataPlane: what the compiled filters mean,  *)
(* and that the host has them, with the rest of what a netmap asks for.    *)
(*                                                                         *)
(* AclCompile: for every set of nodes, routers, static peers, labels and   *)
(* requests, and every size of an iptables port list, what the compiled    *)
(* filters let through is what the admin asked for, but for the lists that *)
(* normalisation empties.  The type invariant is inductive; the two halves *)
(* of the correspondence hold in every state that satisfies it, because    *)
(* buildNetmapFor compiles the rules anew from the tables.  Lemmas say     *)
(* what a row keeps of its request, what a rule's ports amount to once     *)
(* they are cut into chunks, what KAI-FILTER of a node lets in, and what   *)
(* KAI-FORWARD of the hub passes on.                                       *)
(*                                                                         *)
(* DataPlane: for every set of netmaps, prefixes and ports and any number *)
(* of failing commands and restarts, its IInv is inductive.  There is one  *)
(* lemma per part, and in it one step per action.  A netmap's rule set is  *)
(* opaque to DataPlane; the first half of this module is about what is in  *)
(* one.                                                                    *)
(***************************************************************************)
EXTENDS AclCompile, DataPlane, TLAPS

-----------------------------------------------------------------------------
(* AclCompile.                                                             *)

\* The policy tables stay well formed: known tags, the hub approved, ports with
\* tcp and udp only (handlePolicyCreate).
THEOREM PoliciesTypeCorrect == AclSpec => []AclTypeOK
<1>1. AclInit => AclTypeOK
  BY DEF AclInit, AclTypeOK
<1>2. AclTypeOK /\ [AclNext]_aclVars => AclTypeOK'
  <2> SUFFICES ASSUME AclTypeOK, [AclNext]_aclVars PROVE AclTypeOK'
    OBVIOUS
  <2> USE DEF AclTypeOK
  <2>1. ASSUME NEW d \in Devices, NEW L \in SUBSET Labels, SetTags(d, L) PROVE AclTypeOK'
    <3>1. NormalizeTags(L) \in SUBSET Tags
      BY AclAssumption DEF NormalizeTags
    <3> QED
      BY <2>1, <3>1 DEF SetTags
  <2>2. ASSUME NEW n \in Nodes, Approve(n) PROVE AclTypeOK'
    BY <2>2 DEF Approve, Nodes
  <2>3. ASSUME NEW S \in SUBSET Subnets, SetEnabledRoutes(S) PROVE AclTypeOK'
    BY <2>3 DEF SetEnabledRoutes
  <2>4. ASSUME NEW r \in PolicyReqs, CreatePolicy(r) PROVE AclTypeOK'
    <3>1. PICK q \in NormalizePorts(r.ports) :
            /\ q = <<>> \/ Protocol(r) \notin {"any", "icmp"}
            /\ policies' = policies \union
                 {[src |-> NormalizeTags(r.src), dst |-> NormalizeTags(r.dst),
                   proto |-> Protocol(r), ports |-> q, enabled |-> r.enabled, asked |-> r]}
      BY <2>4 DEF CreatePolicy
    <3>2. ASSUME NEW p \in policies' PROVE RowOK(p)
      BY <2>4, <3>1, <3>2 DEF CreatePolicy, RowOK
    <3> QED
      BY <2>4, <3>2 DEF CreatePolicy
  <2>5. ASSUME NEW p \in policies, DeletePolicy(p) PROVE AclTypeOK'
    BY <2>5 DEF DeletePolicy
  <2>6. CASE UNCHANGED aclVars
    BY <2>6 DEF aclVars
  <2> QED
    BY <2>1, <2>2, <2>3, <2>4, <2>5, <2>6 DEF AclNext
<1> QED
  BY <1>1, <1>2, PTL DEF AclSpec

-----------------------------------------------------------------------------
(* What a row keeps of its request.                                        *)

\* A row's tag list matches the devices that the labels name, and every device when
\* no label names a tag (normalizeTags, matchTag).
LEMMA TagsMeaning ==
  ASSUME NEW L \in SUBSET Labels, NEW T \in SUBSET Tags
  PROVE  MatchTag(NormalizeTags(L), T) <=> Nameless(L) \/ Names(L, T)
BY AclAssumption DEF MatchTag, NormalizeTags, Nameless, Names

\* A row's port list has the ports of the request and no others; it is empty when the
\* request has blanks only (normalizePorts).
LEMMA PortsMeaning ==
  ASSUME NEW r \in PolicyReqs, NEW q \in NormalizePorts(r.ports)
  PROVE  /\ q \in Seq(Nat)
         /\ q = <<>> <=> r.ports \subseteq {Blank}
         /\ \A x \in Nat : (\E i \in DOMAIN q : q[i] = x) <=> x \in r.ports
<1> DEFINE S == r.ports \ {Blank}
           n == Cardinality(S)
<1>0. S \subseteq Nat
  <2>1. r.ports \in SUBSET (Nat \union {Blank})
    BY AclAssumption
  <2> QED
    BY <2>1
<1>1. n \in Nat
  BY AclAssumption
<1>2. q \in [1..n -> S] /\ {q[i] : i \in DOMAIN q} = S
  BY DEF NormalizePorts
<1> HIDE DEF n, S
<1>3. q \in Seq(Nat) /\ DOMAIN q = 1..n /\ Len(q) = n
  <2>1. q \in [1..n -> Nat]
    BY <1>0, <1>2
  <2> QED
    BY <1>1, <2>1
<1>4. q = <<>> <=> S = {}
  BY <1>1, <1>2, <1>3
<1>5. S = {} <=> r.ports \subseteq {Blank}
  BY DEF S
<1>6. \A x \in Nat : x \in r.ports <=> x \in S
  BY AclAssumption DEF S
<1> QED
  BY <1>2, <1>3, <1>4, <1>5, <1>6

\* What the row p covers, and what the rows grant.
Covers(p, k) ==
  \/ p.proto = "any"
  \/ p.proto = k.proto /\ (p.ports = <<>> \/ \E i \in DOMAIN p.ports : p.ports[i] = k.port)

Granted(s, d, k) ==
  \/ ~AnyEnabled
  \/ d = Hub /\ k.port = 53 /\ k.proto \in {"tcp", "udp"}
  \/ \E p \in policies : /\ p.enabled
                         /\ MatchTag(p.src, tags[s])
                         /\ MatchTag(p.dst, TagsOf(d))
                         /\ Covers(p, k)

\* A row grants what its request asks for, and more only when it is widened.
LEMMA RowMeaning ==
  ASSUME AclTypeOK, NEW p \in policies, NEW s \in Devices, NEW d, TagsOf(d) \in SUBSET Tags,
         NEW k \in Packets
  PROVE  MatchTag(p.src, tags[s]) /\ MatchTag(p.dst, TagsOf(d)) /\ Covers(p, k)
           <=> AsksWidely(p.asked, s, d, k)
<1> DEFINE r == p.asked
<1>1. /\ r \in PolicyReqs /\ r.src \in SUBSET Labels /\ r.dst \in SUBSET Labels
      /\ p.src = NormalizeTags(r.src) /\ p.dst = NormalizeTags(r.dst)
      /\ p.proto = Protocol(r) /\ p.ports \in NormalizePorts(r.ports)
      /\ k.port \in Nat /\ tags[s] \in SUBSET Tags
  BY AclAssumption DEF AclTypeOK, RowOK
<1> HIDE DEF r
<1>2. /\ MatchTag(p.src, tags[s]) <=> Nameless(r.src) \/ Names(r.src, tags[s])
      /\ MatchTag(p.dst, TagsOf(d)) <=> Nameless(r.dst) \/ Names(r.dst, TagsOf(d))
  BY <1>1, TagsMeaning
<1>3. Covers(p, k) <=> \/ Protocol(r) = "any"
                       \/ Protocol(r) = k.proto /\ (r.ports \subseteq {Blank} \/ k.port \in r.ports)
  BY <1>1, PortsMeaning DEF Covers
<1> QED
  BY <1>2, <1>3 DEF AsksWidely, r

\* Between what was asked and what is granted there are the widened rows.
LEMMA Reading ==
  ASSUME AclTypeOK, NEW s \in Devices, NEW d, TagsOf(d) \in SUBSET Tags, NEW k \in Packets
  PROVE  /\ Allowed(s, d, k) => Granted(s, d, k)
         /\ Granted(s, d, k) => Allowed(s, d, k) \/ AllowedTooWidely(s, d, k)
<1>1. ASSUME NEW r PROVE Asks(r, s, d, k) => AsksWidely(r, s, d, k)
  BY DEF Asks, AsksWidely, Nameless
<1>2. ASSUME NEW r PROVE AsksWidely(r, s, d, k) => Asks(r, s, d, k) \/ Widened(r)
  BY DEF Asks, AsksWidely, Widened
<1> QED
  BY <1>1, <1>2, RowMeaning DEF Allowed, AllowedTooWidely, Granted

-----------------------------------------------------------------------------
(* What a rule's protocol and ports take in.                               *)

LEMMA DivMod ==
  ASSUME NEW a \in Nat, NEW b \in Nat \ {0}
  PROVE  /\ a \div b \in Nat /\ a % b \in 0..(b - 1)
         /\ a = b * (a \div b) + (a % b)
         /\ b * (a \div b) \in Nat /\ (b * (a \div b)) % b = 0
<1>1. a \div b \in Nat /\ a % b \in 0..(b - 1)
  BY SMT
<1>2. a = b * (a \div b) + (a % b)
  BY SMT
<1>3. \A q \in Nat : b * q \in Nat /\ (b * q) % b = 0
  BY SMT
<1> QED
  BY <1>1, <1>2, <1>3

\* The chunks of a port list hold its ports and no others (slices.Chunk).
LEMMA ChunkPorts ==
  ASSUME NEW ports \in Seq(Nat), NEW x
  PROVE  (\E c \in Chunks(ports), i \in 1..Len(ports) : i <= Len(c) /\ c[i] = x)
           <=> \E i \in DOMAIN ports : ports[i] = x
<1> DEFINE end(i) == IF i + MultiportMax - 1 < Len(ports) THEN i + MultiportMax - 1 ELSE Len(ports)
<1>0. MultiportMax \in Nat \ {0} /\ Len(ports) \in Nat /\ DOMAIN ports = 1..Len(ports)
  BY AclAssumption
<1>1. ASSUME NEW i \in 1..Len(ports)
      PROVE  /\ end(i) \in i..Len(ports)
             /\ Len(SubSeq(ports, i, end(i))) = end(i) - i + 1
             /\ \A j \in 1..(end(i) - i + 1) : SubSeq(ports, i, end(i))[j] = ports[i + j - 1]
  <2>1. end(i) \in i..Len(ports)
    BY <1>0, <1>1
  <2> HIDE DEF end
  <2> QED
    BY <1>0, <2>1
<1>2. ASSUME NEW c \in Chunks(ports), NEW j \in 1..Len(ports), j <= Len(c), c[j] = x
      PROVE  \E i \in DOMAIN ports : ports[i] = x
  <2>1. PICK i \in 1..Len(ports) : c = SubSeq(ports, i, end(i))
    BY <1>2 DEF Chunks
  <2> HIDE DEF end
  <2>2. /\ end(i) \in i..Len(ports) /\ Len(c) = end(i) - i + 1
        /\ \A n \in 1..(end(i) - i + 1) : c[n] = ports[i + n - 1]
    BY <1>1, <2>1
  <2>3. j \in 1..(end(i) - i + 1) /\ i + j - 1 \in 1..Len(ports)
    BY <1>0, <1>2, <2>2
  <2>4. ports[i + j - 1] = x
    BY <1>2, <2>2, <2>3
  <2> QED
    BY <1>0, <2>3, <2>4
<1>3. ASSUME NEW i \in DOMAIN ports, ports[i] = x
      PROVE  \E c \in Chunks(ports), j \in 1..Len(ports) : j <= Len(c) /\ c[j] = x
  <2> DEFINE base == MultiportMax * ((i - 1) \div MultiportMax)
             rest == (i - 1) % MultiportMax
             start == base + 1
             c == SubSeq(ports, start, end(start))
             j == i - start + 1
  <2>1. i - 1 \in Nat /\ i \in 1..Len(ports)
    BY <1>0, <1>3
  <2>2. /\ base \in Nat /\ rest \in 0..(MultiportMax - 1)
        /\ i - 1 = base + rest /\ base % MultiportMax = 0
    BY <1>0, <2>1, DivMod, Zenon
  <2> HIDE DEF base, rest
  <2>3. start \in 1..i /\ i <= start + MultiportMax - 1 /\ start - 1 = base
    BY <1>0, <2>1, <2>2
  <2>4. (start - 1) % MultiportMax = 0
    BY <2>2, <2>3
  <2> HIDE DEF start
  <2>5. start \in 1..Len(ports) /\ i <= end(start)
    BY <1>0, <2>1, <2>3
  <2>6. c \in Chunks(ports)
    BY <2>4, <2>5 DEF Chunks
  <2> HIDE DEF end
  <2>7. end(start) \in start..Len(ports)
    BY <1>1, <2>5
  <2>8. Len(c) = end(start) - start + 1 /\ \A n \in 1..(end(start) - start + 1) : c[n] = ports[start + n - 1]
    BY <1>1, <2>5
  <2> HIDE DEF c
  <2>9. j \in 1..(end(start) - start + 1) /\ j \in 1..Len(ports) /\ start + j - 1 = i
    <3> DEFINE e == end(start)
               n == Len(ports)
    <3>1. n \in Nat /\ i \in 1..n /\ start \in 1..i /\ e \in start..n /\ i <= e
      BY <1>0, <2>1, <2>3, <2>5, <2>7
    <3> HIDE DEF e, n
    <3>2. j \in 1..(e - start + 1) /\ j \in 1..n /\ start + j - 1 = i
      BY <3>1
    <3> QED
      BY <3>2 DEF e, n
  <2>10. j <= Len(c) /\ c[j] = x
    BY <1>3, <2>7, <2>8, <2>9
  <2> QED
    BY <2>6, <2>9, <2>10
<1> QED
  BY <1>2, <1>3

\* What iptables matches is what the policy covers, however long its port list is.
LEMMA MatchesCovers ==
  ASSUME AclTypeOK, NEW p \in policies, NEW k
  PROVE  Matches(p.proto, p.ports, k) <=> Covers(p, k)
<1>1. p.ports \in Seq(Nat)
  BY PortsMeaning DEF AclTypeOK, RowOK
<1>2. p.proto = "icmp" => p.ports = <<>>
  BY DEF AclTypeOK, RowOK
<1> QED
  BY <1>1, <1>2, ChunkPorts DEF Matches, Covers

\* The rules that open the hub's resolver take in DNS and nothing else.
LEMMA ResolverPorts ==
  ASSUME NEW k, NEW r \in ResolverRules
  PROVE  /\ r.src = Devices /\ r.proto \in {"tcp", "udp"}
         /\ Matches(r.proto, r.ports, k) <=> k.proto = r.proto /\ k.port = 53
<1>1. r.src = Devices /\ r.proto \in {"tcp", "udp"} /\ r.ports = <<53>>
  BY DEF ResolverRules
<1>2. <<53>> \in Seq(Nat) /\ <<53>> # <<>> /\ DOMAIN <<53>> = {1} /\ <<53>>[1] = 53
  OBVIOUS
<1>3. (\E c \in Chunks(<<53>>), i \in 1..Len(<<53>>) : i <= Len(c) /\ c[i] = k.port)
        <=> \E i \in DOMAIN <<53>> : <<53>>[i] = k.port
  <2> DEFINE dns == <<53>>
  <2>1. dns \in Seq(Nat)
    BY <1>2
  <2> HIDE DEF dns
  <2>2. (\E c \in Chunks(dns), i \in 1..Len(dns) : i <= Len(c) /\ c[i] = k.port)
          <=> \E i \in DOMAIN dns : dns[i] = k.port
    BY <2>1, ChunkPorts
  <2> QED
    BY <2>2 DEF dns
<1>4. (\E c \in Chunks(<<53>>), i \in 1..Len(<<53>>) : i <= Len(c) /\ c[i] = k.port)
        <=> k.port = 53
  BY <1>2, <1>3
<1> QED
  BY <1>1, <1>2, <1>4 DEF Matches

-----------------------------------------------------------------------------
(* The chains.                                                             *)

\* KAI-FILTER of an enforcing node lets in exactly what is granted.
LEMMA FilterMeaning ==
  ASSUME AclTypeOK, NEW n \in Visible, NEW s \in AclSources, s # n, NEW k
  PROVE  /\ n \in Linux => (InputAccepts(n, s, k) <=> Granted(s, n, k))
         /\ Granted(s, n, k) => InputAccepts(n, s, k)
<1>0. n \in Devices /\ s \in Devices /\ TagsOf(n) = tags[n]
  BY DEF AclTypeOK, Visible, AclSources, Devices, TagsOf
<1>1. ASSUME Granted(s, n, k), AnyEnabled PROVE InputAccepts(n, s, k)
  <2>1. CASE n = Hub /\ k.port = 53 /\ k.proto \in {"tcp", "udp"}
    <3> DEFINE r == [src |-> Devices, proto |-> k.proto, ports |-> <<53>>]
    <3>1. r \in ResolverRules /\ r.proto = k.proto /\ r.src = Devices
      BY <2>1 DEF ResolverRules
    <3>2. Matches(r.proto, r.ports, k)
      BY <2>1, <3>1, ResolverPorts
    <3> HIDE DEF r
    <3> QED
      BY <1>0, <2>1, <3>1, <3>2 DEF InputAccepts
  <2>2. ASSUME NEW p \in policies, p.enabled, MatchTag(p.src, tags[s]), MatchTag(p.dst, tags[n]),
               Covers(p, k)
        PROVE  InputAccepts(n, s, k)
    <3> DEFINE r == [src |-> PolicySources(p, n), proto |-> p.proto, ports |-> p.ports]
    <3>1. s \in PolicySources(p, n)
      BY <2>2 DEF PolicySources
    <3>2. r \in FilterRules(n)
      BY <2>2, <3>1 DEF FilterRules
    <3>3. Matches(r.proto, r.ports, k)
      BY <2>2, MatchesCovers
    <3>4. s \in r.src
      BY <3>1
    <3> HIDE DEF r
    <3> QED
      BY <3>2, <3>3, <3>4 DEF InputAccepts
  <2> QED
    BY <1>0, <1>1, <2>1, <2>2 DEF Granted, AnyEnabled
<1>2. ASSUME InputAccepts(n, s, k), AnyEnabled, n \in Linux PROVE Granted(s, n, k)
  <2>1. PICK r \in FilterRules(n) \union (IF n = Hub THEN ResolverRules ELSE {}) :
          s \in r.src /\ Matches(r.proto, r.ports, k)
    BY <1>2 DEF InputAccepts
  <2>2. CASE r \in FilterRules(n)
    <3>1. PICK p \in policies : /\ p.enabled /\ MatchTag(p.dst, tags[n])
                                /\ r = [src |-> PolicySources(p, n), proto |-> p.proto,
                                        ports |-> p.ports]
      BY <2>2 DEF FilterRules
    <3>2. MatchTag(p.src, tags[s]) /\ Covers(p, k)
      BY <2>1, <3>1, MatchesCovers DEF PolicySources
    <3> QED
      BY <1>0, <3>1, <3>2 DEF Granted
  <2>3. CASE n = Hub /\ r \in ResolverRules
    BY <2>1, <2>3, ResolverPorts DEF Granted
  <2> QED
    BY <2>1, <2>2, <2>3
<1>3. ~AnyEnabled => InputAccepts(n, s, k) /\ Granted(s, n, k)
  BY DEF InputAccepts, Granted, AnyEnabled
<1> QED
  BY <1>1, <1>2, <1>3

\* The destinations the hub forwards to, with the tags the policies see.
LEMMA HubDestinations ==
  ASSUME AclTypeOK
  PROVE  /\ \A e \in ForwardDsts(Hub) : e.tags = TagsOf(e.cidr)
         /\ \A d \in (Visible \ {Hub}) \union Statics
                       \union {x \in enabled : Router[x] \in Visible} :
              [cidr |-> d, tags |-> TagsOf(d)] \in ForwardDsts(Hub)
<1>1. \A x \in enabled : x \notin Devices /\ TagsOf(x) = tags[Router[x]]
  BY AclAssumption DEF AclTypeOK, TagsOf
<1>2. \A d \in Visible \union Statics : TagsOf(d) = tags[d]
  BY DEF Visible, Devices, TagsOf
<1>3. \A n : \A e \in OwnSubnets(n) : e.tags = TagsOf(e.cidr)
  BY <1>1 DEF OwnSubnets
<1>4. \A e \in ForwardDsts(Hub) : e.tags = TagsOf(e.cidr)
  BY <1>2, <1>3 DEF ForwardDsts
<1>5. ASSUME NEW d \in Visible \ {Hub} PROVE [cidr |-> d, tags |-> TagsOf(d)] \in ForwardDsts(Hub)
  BY <1>2 DEF ForwardDsts
<1>6. ASSUME NEW d \in Statics PROVE [cidr |-> d, tags |-> TagsOf(d)] \in ForwardDsts(Hub)
  BY <1>2 DEF ForwardDsts
<1>7. ASSUME NEW d \in enabled, Router[d] \in Visible
      PROVE  [cidr |-> d, tags |-> TagsOf(d)] \in ForwardDsts(Hub)
  <2>1. [cidr |-> d, tags |-> TagsOf(d)] \in OwnSubnets(Router[d])
    BY <1>1 DEF OwnSubnets
  <2> QED
    BY <1>7, <2>1 DEF ForwardDsts
<1> QED
  BY <1>4, <1>5, <1>6, <1>7

\* KAI-FORWARD of the hub passes on what is granted, and nothing else.
LEMMA ForwardMeaning ==
  ASSUME AclTypeOK, NEW s \in AclSources, NEW d, d # Hub, s # d, NEW k
  PROVE  /\ ForwardAccepts(Hub, s, d, k) => Granted(s, d, k)
         /\ Granted(s, d, k) /\ [cidr |-> d, tags |-> TagsOf(d)] \in ForwardDsts(Hub)
              => ForwardAccepts(Hub, s, d, k)
<1>1. ASSUME ForwardAccepts(Hub, s, d, k), AnyEnabled PROVE Granted(s, d, k)
  <2>1. PICK r \in ForwardRules(Hub) : s \in r.src /\ d \in r.dst /\ Matches(r.proto, r.ports, k)
    BY <1>1 DEF ForwardAccepts
  <2>2. PICK p \in policies, e \in ForwardDsts(Hub) :
          /\ p.enabled /\ MatchTag(p.dst, e.tags) /\ e.cidr = d
          /\ r.src = PolicySources(p, d) /\ r.proto = p.proto /\ r.ports = p.ports
    BY <2>1 DEF ForwardRules
  <2>3. MatchTag(p.dst, TagsOf(d)) /\ MatchTag(p.src, tags[s])
    BY <2>1, <2>2, HubDestinations DEF PolicySources
  <2>4. Covers(p, k)
    BY <2>1, <2>2, MatchesCovers
  <2> QED
    BY <2>2, <2>3, <2>4 DEF Granted
<1>2. ASSUME Granted(s, d, k), AnyEnabled, [cidr |-> d, tags |-> TagsOf(d)] \in ForwardDsts(Hub)
      PROVE  ForwardAccepts(Hub, s, d, k)
  <2> DEFINE e == [cidr |-> d, tags |-> TagsOf(d)]
  <2>1. PICK p \in policies : /\ p.enabled /\ Covers(p, k)
                              /\ MatchTag(p.src, tags[s]) /\ MatchTag(p.dst, TagsOf(d))
    BY <1>2 DEF Granted, AnyEnabled
  <2> DEFINE dsts == {x \in ForwardDsts(Hub) : MatchTag(p.dst, x.tags)}
             S == PolicySources(p, d)
             r == [src |-> S, dst |-> {x.cidr : x \in {y \in dsts : PolicySources(p, y.cidr) = S}},
                   proto |-> p.proto, ports |-> p.ports]
  <2>2. s \in S /\ e \in dsts /\ e.cidr = d
    BY <1>2, <2>1 DEF PolicySources
  <2>3. S \in {PolicySources(p, x.cidr) : x \in dsts} \ {{}}
    BY <2>2
  <2>4. r \in ForwardRules(Hub)
    <3> DEFINE to(o) == {x \in ForwardDsts(Hub) : MatchTag(o.dst, x.tags)}
               rules(o) == {[src |-> T,
                             dst |-> {x.cidr : x \in {y \in to(o) : PolicySources(o, y.cidr) = T}},
                             proto |-> o.proto, ports |-> o.ports] :
                              T \in {PolicySources(o, x.cidr) : x \in to(o)} \ {{}}}
    <3>1. ForwardRules(Hub) = UNION {rules(o) : o \in {q \in policies : q.enabled}}
      BY DEF ForwardRules
    <3>2. r \in rules(p)
      BY <2>3
    <3> HIDE DEF rules, r
    <3> QED
      BY <2>1, <3>1, <3>2
  <2>5. s \in r.src /\ d \in r.dst /\ Matches(r.proto, r.ports, k)
    BY <2>1, <2>2, MatchesCovers
  <2> HIDE DEF r
  <2> QED
    BY <2>4, <2>5 DEF ForwardAccepts
<1>3. ~AnyEnabled => ForwardAccepts(Hub, s, d, k) /\ Granted(s, d, k)
  BY DEF ForwardAccepts, Granted, AnyEnabled
<1> QED
  BY <1>1, <1>2, <1>3

-----------------------------------------------------------------------------
(* The ways of a connection.                                               *)

LEMMA Facts ==
  ASSUME AclTypeOK, NEW c \in Connections
  PROVE  /\ c[1] \in AclSources /\ c[1] # c[2]
         /\ c[2] \in Visible \union Statics \union {x \in enabled : Router[x] \in Visible}
         /\ c[2] \in enabled => c[2] \in Subnets /\ c[2] # Hub
         /\ Hub \in Visible /\ Hub \notin Statics
         /\ Visible \subseteq Nodes /\ Nodes \intersect Statics = {}
         /\ c[1] \in Devices /\ TagsOf(c[2]) \in SUBSET Tags
<1>1. c[1] \in Present /\ c[1] # c[2] /\ c[2] \in Present \union {x \in enabled : approved[Router[x]]}
  BY DEF Connections
<1>2. Hub \in Visible /\ Hub \notin Statics /\ Visible \subseteq Nodes
      /\ Nodes \intersect Statics = {} /\ \A x \in enabled : Router[x] \in Nodes /\ x # Hub
  BY AclAssumption DEF AclTypeOK, Visible, Nodes, Devices
<1>3. c[1] \in Devices /\ TagsOf(c[2]) \in SUBSET Tags
  BY <1>1, <1>2 DEF Present, Devices, TagsOf, AclTypeOK
<1> QED
  BY <1>1, <1>2, <1>3 DEF Present, AclSources, Visible, AclTypeOK

\* No connection gets through, direct or relayed, that no request asked to allow, but for
\* what a request asked to keep out by a list that normalizeTags or normalizePorts emptied
\* (handlePolicyCreate, computeFilterRules, computeForwardRules, the candidates withheld).
THEOREM NothingElse == AclSpec => []OnlyAllowed
<1>1. AclTypeOK => OnlyAllowed
  <2> SUFFICES ASSUME AclTypeOK, NEW c \in Connections, NEW k \in Packets, c[1] # Hub,
                      DirectDelivers(c[1], c[2], k) \/ RelayDelivers(c[1], c[2], k)
               PROVE  Granted(c[1], c[2], k)
    BY Facts, Reading DEF OnlyAllowed, Delivered
  <2> DEFINE s == c[1]
             d == c[2]
  <2>0. ~AnyEnabled => Granted(s, d, k)
    BY DEF Granted
  <2>1. CASE AnyEnabled /\ DirectDelivers(s, d, k)
    <3>1. d \in Visible /\ d \in Linux /\ d \in Nodes /\ InputAccepts(d, s, k)
      BY <2>1, Facts DEF DirectDelivers, Direct, Candidates, Accepts
    <3> QED
      BY <3>1, Facts, FilterMeaning
  <2>2. CASE RelayDelivers(s, d, k) /\ d # Hub
    BY <2>2, Facts, ForwardMeaning DEF RelayDelivers
  <2>3. CASE RelayDelivers(s, d, k) /\ d = Hub
    <3>1. \A m \in Visible \ {Hub} : d \notin NodeAllowed(m)
      BY <2>3, AclAssumption DEF NodeAllowed, AclTypeOK, Devices, Nodes
    <3>2. InputAccepts(Hub, s, k)
      BY <2>3, <3>1, AclAssumption DEF RelayDelivers, Accepts, Nodes, Devices
    <3> QED
      BY <2>3, <3>2, Facts, FilterMeaning, AclAssumption
  <2> QED
    BY <2>0, <2>1, <2>2, <2>3
<1> QED
  BY <1>1, PoliciesTypeCorrect, PTL

\* What a request asked to allow gets through to every device and into the hub's own
\* subnets, whichever path is taken and although it is checked twice on the way.
THEOREM PoliciesArrive == AclSpec => []AllowedArrives
<1>1. AclTypeOK => AllowedArrives
  <2> SUFFICES ASSUME AclTypeOK, NEW c \in Connections, NEW k \in Packets, Allowed(c[1], c[2], k),
                      c[2] \in Subnets => Router[c[2]] = Hub
               PROVE  /\ RelayDelivers(c[1], c[2], k)
                      /\ Direct(c[1], c[2]) => DirectDelivers(c[1], c[2], k)
    BY DEF AllowedArrives
  <2> DEFINE s == c[1]
             d == c[2]
  <2>0. Granted(s, d, k)
    BY Facts, Reading
  <2>1. d \in Visible \union Statics => Accepts(d, s, k)
    BY <2>0, Facts, FilterMeaning DEF Accepts
  <2>2. Direct(s, d) => DirectDelivers(s, d, k)
    BY <2>1 DEF Direct, DirectDelivers, Candidates
  <2>3. s \in Spokes => d \in HubAllowed(s)
    BY Facts, AclAssumption DEF HubAllowed, Devices, AclTypeOK
  <2>4. d # Hub => ForwardAccepts(Hub, s, d, k)
    BY <2>0, Facts, HubDestinations, ForwardMeaning
  <2>5. \/ d \in Statics \union {Hub} /\ Accepts(d, s, k)
        \/ d \in Subnets /\ Router[d] = Hub
        \/ \E m \in Visible \ {Hub} :
             /\ d \in NodeAllowed(m)
             /\ IF d = m THEN Accepts(d, s, k) ELSE ForwardAccepts(m, Hub, d, k)
    <3>1. CASE d \in Statics \union {Hub}
      BY <2>1, <3>1, Facts
    <3>2. CASE d \in enabled
      BY <3>2, Facts
    <3>3. CASE d \in Visible \ {Hub}
      BY <2>1, <3>3 DEF NodeAllowed
    <3> QED
      BY <3>1, <3>2, <3>3, Facts
  <2> QED
    BY <2>2, <2>3, <2>4, <2>5 DEF RelayDelivers
<1> QED
  BY <1>1, PoliciesTypeCorrect, PTL

-----------------------------------------------------------------------------
(* DataPlane.                                                              *)

\* What the actions leave alone, by the names they use for it.
USE DEF hostVars, chainVars, routeVars, procVars, ghostVars,
        Goroutines, Goto, Step, ChainStep, Running

\* The netmap of an agent that has none yet.
LEMMA NoNetmapFields ==
  /\ NoNetmap.hosts = Nothing /\ NoNetmap.enabled = FALSE /\ NoNetmap.rules = Nothing
  /\ NoNetmap.subnets = {} /\ NoNetmap.publishes = [p \in Ports |-> Nothing]
BY DEF NoNetmap

\* What every netmap the agent may hold is, NoNetmap included.
LEMMA NetmapFields ==
  ASSUME NEW m \in Netmaps \union {NoNetmap}
  PROVE  /\ m.publishes = [p \in Ports |-> m.publishes[p]]
         /\ m.subnets \subseteq Prefixes
         /\ m.enabled \in BOOLEAN
         /\ Key(m) # NoKey
<1>1. /\ m.publishes = [p \in Ports |-> m.publishes[p]]
      /\ m.subnets \subseteq Prefixes
      /\ m.enabled \in BOOLEAN
  <2>1. CASE m \in Netmaps
    BY <2>1, ConstantsAssumption
  <2>2. CASE m = NoNetmap
    <3>1. m.publishes = [p \in Ports |-> Nothing]
      BY <2>2, NoNetmapFields
    <3>2. m.publishes = [p \in Ports |-> m.publishes[p]]
      BY <3>1
    <3> QED
      BY <2>2, <3>2, NoNetmapFields
  <2> QED
    BY <2>1, <2>2
<1>2. Key(m) # NoKey
  <2>1. Key(m).enabled = m.enabled /\ NoKey.enabled = Nothing
    BY DEF Key, NoKey
  <2> QED
    BY <1>1, <2>1, ConstantsAssumption
<1> QED
  BY <1>1, <1>2

\* The bounds are numbers.
LEMMA Bounds == {MaxApplies, MaxFaults, MaxRestarts} \subseteq Nat
BY ConstantsAssumption

\* Only SyncRoutes, what others do to the table, and the device's end touch the routes.
LEMMA DeviceKept ==
  ASSUME [Next]_vars, ~SyncRoutes, ~Exit, ~Start,
         \A p \in Prefixes : ~RouteTouched(p)
  PROVE  UNCHANGED routeVars
<1>1. ASSUME NEW m \in Netmaps, Receive(m) PROVE UNCHANGED routeVars
  BY <1>1 DEF Receive
<1>2. ASSUME NEW g \in Goroutines,
             HostsStep(g) \/ Detach(g) \/ DeleteChain(g)
      PROVE  UNCHANGED routeVars
  BY <1>2 DEF HostsStep, HostsRead, HostsWrite, HostsRename, Detach,
     DeleteChain
<1>3. ASSUME ApplyPeers \/ ApplyPublishes \/ TeardownPublishes
      PROVE UNCHANGED routeVars
  BY <1>3 DEF ApplyPeers, ApplyPublishes, TeardownPublishes
<1>4. ASSUME FilterStart \/ Flush \/ AppendRules \/ Hook \/ Save \/ Shutdown
      PROVE UNCHANGED routeVars
  BY <1>4 DEF FilterStart, Flush, AppendRules, Hook, Save, Shutdown
<1>5. CASE UNCHANGED vars
  BY <1>5 DEF vars
<1> QED
  BY <1>1, <1>2, <1>3, <1>4, <1>5 DEF Next

\* Where the process and its goroutines are, action by action.
LEMMA PhasesKept == TypeOK /\ [Next]_vars => PhasesOK'
<1> SUFFICES ASSUME TypeOK, [Next]_vars PROVE PhasesOK'
  OBVIOUS
<1> USE DEF TypeOK, PhasesOK
<1>1. ASSUME NEW m \in Netmaps, Receive(m) PROVE PhasesOK'
  BY <1>1 DEF Receive
<1>2. ASSUME NEW g \in Goroutines, HostsRead(g) PROVE PhasesOK'
  BY <1>2 DEF HostsRead, AfterHosts
<1>3. ASSUME NEW g \in Goroutines, HostsWrite(g) PROVE PhasesOK'
  BY <1>3 DEF HostsWrite, AfterHosts
<1>4. ASSUME NEW g \in Goroutines, HostsRename(g) PROVE PhasesOK'
  BY <1>4 DEF HostsRename, AfterHosts
<1>5. ASSUME NEW g \in Goroutines, Detach(g) PROVE PhasesOK'
  BY <1>5 DEF Detach
<1>6. ASSUME NEW g \in Goroutines, DeleteChain(g) PROVE PhasesOK'
  BY <1>6 DEF DeleteChain, EmptyAndDelete, FilterNext
<1>7. CASE ApplyPeers
  BY <1>7 DEF ApplyPeers, ApplyOver, deviceFrame
<1>8. CASE SyncRoutes
  BY <1>8 DEF SyncRoutes, RouteDel, RouteConflict, RouteReplace,
              RoutesDone, RoutesReturn, RouteFrame, deviceFrame
<1>9. ASSUME NEW p \in Prefixes, RouteTouched(p) PROVE PhasesOK'
  BY <1>9 DEF RouteTouched
<1>10. CASE ApplyPublishes
  BY <1>10 DEF ApplyPublishes, SyncPublishes
<1>11. CASE TeardownPublishes
  BY <1>11 DEF TeardownPublishes, SyncPublishes
<1>12. CASE FilterStart
  BY <1>12 DEF FilterStart
<1>13. CASE Flush
  BY <1>13 DEF Flush, FilterError, FilterFrame
<1>14. CASE AppendRules
  BY <1>14 DEF AppendRules, FilterError, FilterFrame
<1>15. CASE Hook
  BY <1>15 DEF Hook, FilterError, FilterFrame, FilterNext
<1>16. CASE Save
  BY <1>16 DEF Save, ApplyOver
<1>17. CASE Shutdown
  BY <1>17 DEF Shutdown
<1>18. CASE Exit
  BY <1>18 DEF Exit, DeviceClosed
<1>19. CASE Start
  BY <1>19 DEF Start, DeviceClosed
<1>20. CASE UNCHANGED vars
  BY <1>20 DEF vars
<1> QED
  BY <1>1, <1>2, <1>3, <1>4, <1>5, <1>6, <1>7, <1>8, <1>9, <1>10, <1>11, <1>12, <1>13, <1>14,
     <1>15, <1>16, <1>17, <1>18, <1>19, <1>20 DEF Next, HostsStep

\* A chain that is gone stays empty and without jumps: AppendRules and Hook need it to
\* exist, DeleteChain leaves one that is jumped to.
LEMMA ChainsKept == TypeOK /\ [Next]_vars => ChainsOK'
<1> SUFFICES ASSUME TypeOK, [Next]_vars PROVE ChainsOK'
  OBVIOUS
<1> USE DEF TypeOK, ChainsOK, Chains, Removals
<1>1. ASSUME NEW m \in Netmaps, Receive(m) PROVE ChainsOK'
  BY <1>1 DEF Receive
<1>2. ASSUME NEW g \in Goroutines, HostsRead(g) PROVE ChainsOK'
  BY <1>2 DEF HostsRead, AfterHosts
<1>3. ASSUME NEW g \in Goroutines, HostsWrite(g) PROVE ChainsOK'
  BY <1>3 DEF HostsWrite, AfterHosts
<1>4. ASSUME NEW g \in Goroutines, HostsRename(g) PROVE ChainsOK'
  BY <1>4 DEF HostsRename, AfterHosts
<1>5. ASSUME NEW g \in Goroutines, Detach(g) PROVE ChainsOK'
  <2>1. chain[g] \in Chains /\ <<chain[g], "-D">> \in Chains \X Removals
    BY DEF Goroutines
  <2>2. ignored' \subseteq Chains \X Removals
    BY <1>5, <2>1 DEF Detach
  <2>3. hooked' \in [Chains -> BOOLEAN] /\ \A c \in Chains : hooked'[c] => hooked[c]
    BY <1>5, <2>1 DEF Detach
  <2> QED
    BY <1>5, <2>2, <2>3 DEF Detach
<1>6. ASSUME NEW g \in Goroutines, DeleteChain(g) PROVE ChainsOK'
  BY <1>6 DEF DeleteChain, EmptyAndDelete, FilterNext
<1>7. CASE ApplyPeers
  BY <1>7 DEF ApplyPeers, ApplyOver, deviceFrame
<1>8. CASE SyncRoutes
  BY <1>8 DEF SyncRoutes, RouteDel, RouteConflict, RouteReplace,
              RoutesDone, RoutesReturn, RouteFrame, deviceFrame
<1>9. ASSUME NEW p \in Prefixes, RouteTouched(p) PROVE ChainsOK'
  BY <1>9 DEF RouteTouched
<1>10. CASE ApplyPublishes
  BY <1>10 DEF ApplyPublishes, SyncPublishes
<1>11. CASE TeardownPublishes
  BY <1>11 DEF TeardownPublishes, SyncPublishes
<1>12. CASE FilterStart
  BY <1>12 DEF FilterStart
<1>13. CASE Flush
  BY <1>13 DEF Flush, FilterError, FilterFrame
<1>14. CASE AppendRules
  BY <1>14 DEF AppendRules, FilterError, FilterFrame
<1>15. CASE Hook
  <2>1. UNCHANGED <<exists, body, ignored>> /\ chain' \in [Goroutines -> Chains]
    BY <1>15 DEF Hook, FilterError, FilterNext
  <2>2. \/ UNCHANGED hooked
        \/ exists[chain["sync"]] /\ hooked' = [hooked EXCEPT ![chain["sync"]] = TRUE]
    BY <1>15 DEF Hook
  <2>3. hooked' \in [Chains -> BOOLEAN] /\ \A c \in Chains : hooked'[c] => hooked[c] \/ exists[c]
    BY <2>2
  <2>4. \A c \in Chains : ~exists'[c] => body'[c] = NoBody /\ ~hooked'[c]
    BY <2>1, <2>3
  <2> QED
    BY <2>1, <2>3, <2>4
<1>16. CASE Save
  BY <1>16 DEF Save, ApplyOver
<1>17. CASE Shutdown
  BY <1>17 DEF Shutdown
<1>18. CASE Exit
  BY <1>18 DEF Exit, DeviceClosed
<1>19. CASE Start
  BY <1>19 DEF Start, DeviceClosed
<1>20. CASE UNCHANGED vars
  BY <1>20 DEF vars
<1> QED
  BY <1>1, <1>2, <1>3, <1>4, <1>5, <1>6, <1>7, <1>8, <1>9, <1>10, <1>11, <1>12, <1>13, <1>14,
     <1>15, <1>16, <1>17, <1>18, <1>19, <1>20 DEF Next, HostsStep

\* What the agent applies, caches and has applied is a netmap.
LEMMA NetmapsKept ==
  TypeOK /\ [Next]_vars => NetmapsOK'
<1> SUFFICES ASSUME TypeOK, [Next]_vars PROVE NetmapsOK'
  OBVIOUS
<1> USE DEF TypeOK, NetmapsOK
<1>1. ASSUME NEW m \in Netmaps, Receive(m) PROVE NetmapsOK'
  BY <1>1 DEF Receive
<1>2. ASSUME NEW g \in Goroutines, HostsRead(g) PROVE NetmapsOK'
  BY <1>2 DEF HostsRead, AfterHosts
<1>3. ASSUME NEW g \in Goroutines, HostsWrite(g) PROVE NetmapsOK'
  BY <1>3 DEF HostsWrite, AfterHosts
<1>4. ASSUME NEW g \in Goroutines, HostsRename(g) PROVE NetmapsOK'
  BY <1>4 DEF HostsRename, AfterHosts
<1>5. ASSUME NEW g \in Goroutines, Detach(g) PROVE NetmapsOK'
  BY <1>5 DEF Detach
<1>6. ASSUME NEW g \in Goroutines, DeleteChain(g) PROVE NetmapsOK'
  BY <1>6 DEF DeleteChain, EmptyAndDelete, FilterNext
<1>7. CASE ApplyPeers
  BY <1>7 DEF ApplyPeers, ApplyOver, deviceFrame
<1>8. CASE SyncRoutes
  BY <1>8 DEF SyncRoutes, RouteDel, RouteConflict, RouteReplace,
              RoutesDone, RoutesReturn, RouteFrame, deviceFrame
<1>9. ASSUME NEW p \in Prefixes, RouteTouched(p) PROVE NetmapsOK'
  BY <1>9 DEF RouteTouched
<1>10. CASE ApplyPublishes
  BY <1>10 DEF ApplyPublishes, SyncPublishes
<1>11. CASE TeardownPublishes
  BY <1>11 DEF TeardownPublishes, SyncPublishes
<1>12. CASE FilterStart
  BY <1>12 DEF FilterStart
<1>13. CASE Flush
  BY <1>13 DEF Flush, FilterError, FilterFrame
<1>14. CASE AppendRules
  BY <1>14 DEF AppendRules, FilterError, FilterFrame
<1>15. CASE Hook
  BY <1>15 DEF Hook, FilterError, FilterFrame, FilterNext
<1>16. CASE Save
  BY <1>16 DEF Save, ApplyOver
<1>17. CASE Shutdown
  BY <1>17 DEF Shutdown
<1>18. CASE Exit
  BY <1>18 DEF Exit, DeviceClosed
<1>19. CASE Start
  BY <1>19 DEF Start, DeviceClosed
<1>20. CASE UNCHANGED vars
  BY <1>20 DEF vars
<1> QED
  BY <1>1, <1>2, <1>3, <1>4, <1>5, <1>6, <1>7, <1>8, <1>9, <1>10, <1>11, <1>12, <1>13, <1>14,
     <1>15, <1>16, <1>17, <1>18, <1>19, <1>20 DEF Next, HostsStep

\* The bounds hold.
LEMMA BoundsKept == TypeOK /\ [Next]_vars => BoundsOK'
<1> SUFFICES ASSUME TypeOK, [Next]_vars PROVE BoundsOK'
  OBVIOUS
<1> USE Bounds DEF TypeOK, BoundsOK, Fault
<1>1. ASSUME NEW m \in Netmaps, Receive(m) PROVE BoundsOK'
  BY <1>1 DEF Receive
<1>2. ASSUME NEW g \in Goroutines, HostsRead(g) PROVE BoundsOK'
  BY <1>2 DEF HostsRead, AfterHosts
<1>3. ASSUME NEW g \in Goroutines, HostsWrite(g) PROVE BoundsOK'
  BY <1>3 DEF HostsWrite, AfterHosts
<1>4. ASSUME NEW g \in Goroutines, HostsRename(g) PROVE BoundsOK'
  BY <1>4 DEF HostsRename, AfterHosts
<1>5. ASSUME NEW g \in Goroutines, Detach(g) PROVE BoundsOK'
  BY <1>5 DEF Detach
<1>6. ASSUME NEW g \in Goroutines, DeleteChain(g) PROVE BoundsOK'
  BY <1>6 DEF DeleteChain, EmptyAndDelete, FilterNext
<1>7. CASE ApplyPeers
  BY <1>7 DEF ApplyPeers, ApplyOver, deviceFrame
<1>8. CASE SyncRoutes
  BY <1>8 DEF SyncRoutes, RouteDel, RouteConflict, RouteReplace,
              RoutesDone, RoutesReturn, RouteFrame, deviceFrame
<1>9. ASSUME NEW p \in Prefixes, RouteTouched(p) PROVE BoundsOK'
  BY <1>9 DEF RouteTouched
<1>10. CASE ApplyPublishes
  BY <1>10 DEF ApplyPublishes, SyncPublishes
<1>11. CASE TeardownPublishes
  BY <1>11 DEF TeardownPublishes, SyncPublishes
<1>12. CASE FilterStart
  BY <1>12 DEF FilterStart
<1>13. CASE Flush
  BY <1>13 DEF Flush, FilterError, FilterFrame
<1>14. CASE AppendRules
  BY <1>14 DEF AppendRules, FilterError, FilterFrame
<1>15. CASE Hook
  BY <1>15 DEF Hook, FilterError, FilterFrame, FilterNext
<1>16. CASE Save
  BY <1>16 DEF Save, ApplyOver
<1>17. CASE Shutdown
  BY <1>17 DEF Shutdown
<1>18. CASE Exit
  BY <1>18 DEF Exit, DeviceClosed
<1>19. CASE Start
  BY <1>19 DEF Start, DeviceClosed
<1>20. CASE UNCHANGED vars
  BY <1>20 DEF vars
<1> QED
  BY <1>1, <1>2, <1>3, <1>4, <1>5, <1>6, <1>7, <1>8, <1>9, <1>10, <1>11, <1>12, <1>13, <1>14,
     <1>15, <1>16, <1>17, <1>18, <1>19, <1>20 DEF Next, HostsStep

\* SyncRoutes step by step, and what others do to the table.
LEMMA DeviceStepKept ==
  TypeOK /\ DeviceKnown /\ [Next]_vars
    => DeviceOK' /\ DeviceKnown'
<1> SUFFICES ASSUME TypeOK, DeviceKnown, [Next]_vars
             PROVE DeviceOK' /\ DeviceKnown'
  OBVIOUS
<1> USE DEF TypeOK, DeviceOK, DeviceKnown, Installed
<1>1. ASSUME NEW p \in Prefixes, RouteDel(p) PROVE DeviceOK' /\ DeviceKnown'
  BY <1>1 DEF RouteDel, RoutesReturn
<1>2. ASSUME NEW p \in Prefixes, RouteConflict(p) PROVE DeviceOK' /\ DeviceKnown'
  BY <1>2 DEF RouteConflict
<1>3. ASSUME NEW p \in Prefixes, RouteReplace(p) PROVE DeviceOK' /\ DeviceKnown'
  BY <1>3 DEF RouteReplace, RoutesReturn
<1>4. CASE RoutesDone
  BY <1>4 DEF RoutesDone, RoutesReturn
<1>5. ASSUME NEW p \in Prefixes, RouteTouched(p) PROVE DeviceOK' /\ DeviceKnown'
  BY <1>5 DEF RouteTouched
<1>6. CASE Exit \/ Start
  BY <1>6 DEF Exit, Start, DeviceClosed
<1>7. CASE UNCHANGED routeVars
  BY <1>7 DEF routeVars
<1> QED
  BY <1>1, <1>2, <1>3, <1>4, <1>5, <1>6, <1>7, DeviceKept DEF SyncRoutes

\* Run begins its cleanup when ctx is done and never before.
LEMMA MainPhasesKept ==
  TypeOK /\ MainPhases /\ [Next]_vars
    => MainPhases'
<1> SUFFICES ASSUME TypeOK, MainPhases, [Next]_vars
             PROVE MainPhases'
  OBVIOUS
<1> USE DEF TypeOK, PhasesOK, MainPhases
<1>1. ASSUME NEW m \in Netmaps, Receive(m) PROVE MainPhases'
  BY <1>1 DEF Receive
<1>2. ASSUME NEW g \in Goroutines, HostsRead(g) PROVE MainPhases'
  BY <1>2 DEF HostsRead, AfterHosts
<1>3. ASSUME NEW g \in Goroutines, HostsWrite(g) PROVE MainPhases'
  BY <1>3 DEF HostsWrite, AfterHosts
<1>4. ASSUME NEW g \in Goroutines, HostsRename(g) PROVE MainPhases'
  BY <1>4 DEF HostsRename, AfterHosts
<1>5. ASSUME NEW g \in Goroutines, Detach(g) PROVE MainPhases'
  BY <1>5 DEF Detach
<1>6. ASSUME NEW g \in Goroutines, DeleteChain(g) PROVE MainPhases'
  BY <1>6 DEF DeleteChain, EmptyAndDelete, FilterNext
<1>7. CASE ApplyPeers
  BY <1>7 DEF ApplyPeers, ApplyOver, deviceFrame
<1>8. CASE SyncRoutes
  BY <1>8 DEF SyncRoutes, RouteDel, RouteConflict, RouteReplace,
              RoutesDone, RoutesReturn, RouteFrame, deviceFrame
<1>9. ASSUME NEW p \in Prefixes, RouteTouched(p) PROVE MainPhases'
  BY <1>9 DEF RouteTouched
<1>10. CASE ApplyPublishes
  BY <1>10 DEF ApplyPublishes, SyncPublishes
<1>11. CASE TeardownPublishes
  BY <1>11 DEF TeardownPublishes, SyncPublishes
<1>12. CASE FilterStart
  BY <1>12 DEF FilterStart
<1>13. CASE Flush
  BY <1>13 DEF Flush, FilterError, FilterFrame
<1>14. CASE AppendRules
  BY <1>14 DEF AppendRules, FilterError, FilterFrame
<1>15. CASE Hook
  BY <1>15 DEF Hook, FilterError, FilterFrame, FilterNext
<1>16. CASE Save
  BY <1>16 DEF Save, ApplyOver
<1>17. CASE Shutdown
  BY <1>17 DEF Shutdown
<1>18. CASE Exit
  BY <1>18 DEF Exit, DeviceClosed
<1>19. CASE Start
  BY <1>19 DEF Start, DeviceClosed
<1>20. CASE UNCHANGED vars
  BY <1>20 DEF vars
<1> QED
  BY <1>1, <1>2, <1>3, <1>4, <1>5, <1>6, <1>7, <1>8, <1>9, <1>10, <1>11, <1>12, <1>13, <1>14,
     <1>15, <1>16, <1>17, <1>18, <1>19, <1>20 DEF Next, HostsStep

\* SyncRoutes returns without an error only when d.routes is what the netmap wants.
LEMMA RoutesInvKept ==
  TypeOK /\ MainPhases /\ RoutesInv /\ [Next]_vars
    => RoutesInv'
<1> SUFFICES ASSUME TypeOK, MainPhases, RoutesInv,
                    [Next]_vars
             PROVE RoutesInv'
  OBVIOUS
<1> USE DEF TypeOK, PhasesOK, MainPhases, RoutesInv, PartInForce,
            Outside, PastRoutes, PastHosts, PastPublishes,
            AtChains
<1>1. ASSUME NEW m \in Netmaps, Receive(m) PROVE RoutesInv'
  BY <1>1 DEF Receive
<1>2. ASSUME NEW g \in Goroutines, HostsRead(g) PROVE RoutesInv'
  BY <1>2 DEF HostsRead, AfterHosts
<1>3. ASSUME NEW g \in Goroutines, HostsWrite(g) PROVE RoutesInv'
  BY <1>3 DEF HostsWrite, AfterHosts
<1>4. ASSUME NEW g \in Goroutines, HostsRename(g) PROVE RoutesInv'
  BY <1>4 DEF HostsRename, AfterHosts
<1>5. ASSUME NEW g \in Goroutines, Detach(g) PROVE RoutesInv'
  BY <1>5 DEF Detach
<1>6. ASSUME NEW g \in Goroutines, DeleteChain(g) PROVE RoutesInv'
  BY <1>6 DEF DeleteChain, EmptyAndDelete, FilterNext
<1>7. CASE ApplyPeers
  BY <1>7 DEF ApplyPeers, ApplyOver, deviceFrame
<1>8. CASE SyncRoutes
  BY <1>8 DEF SyncRoutes, RouteDel, RouteConflict, RouteReplace,
              RoutesDone, RoutesReturn, RouteFrame, deviceFrame
<1>9. ASSUME NEW p \in Prefixes, RouteTouched(p) PROVE RoutesInv'
  BY <1>9 DEF RouteTouched
<1>10. CASE ApplyPublishes
  BY <1>10 DEF ApplyPublishes, SyncPublishes
<1>11. CASE TeardownPublishes
  BY <1>11 DEF TeardownPublishes, SyncPublishes
<1>12. CASE FilterStart
  BY <1>12 DEF FilterStart
<1>13. CASE Flush
  BY <1>13 DEF Flush, FilterError, FilterFrame
<1>14. CASE AppendRules
  BY <1>14 DEF AppendRules, FilterError, FilterFrame
<1>15. CASE Hook
  BY <1>15 DEF Hook, FilterError, FilterFrame, FilterNext
<1>16. CASE Save
  BY <1>16 DEF Save, ApplyOver
<1>17. CASE Shutdown
  BY <1>17 DEF Shutdown
<1>18. CASE Exit
  BY <1>18 DEF Exit, DeviceClosed
<1>19. CASE Start
  BY <1>19 DEF Start, DeviceClosed
<1>20. CASE UNCHANGED vars
  BY <1>20 DEF vars
<1> QED
  BY <1>1, <1>2, <1>3, <1>4, <1>5, <1>6, <1>7, <1>8, <1>9, <1>10, <1>11, <1>12, <1>13, <1>14,
     <1>15, <1>16, <1>17, <1>18, <1>19, <1>20 DEF Next, HostsStep

\* updateHostsFile: what it compared, or wrote and renamed, is the netmap's block.
LEMMA HostsInvKept ==
  TypeOK /\ MainPhases /\ HostsInv /\ [Next]_vars
    => HostsInv'
<1> SUFFICES ASSUME TypeOK, MainPhases, HostsInv,
                    [Next]_vars
             PROVE HostsInv'
  OBVIOUS
<1> USE DEF TypeOK, PhasesOK, MainPhases, HostsInv, PartInForce,
            Outside, PastHosts, PastPublishes, AtChains, NetmapsOK,
            Wanted
<1>1. ASSUME NEW m \in Netmaps, Receive(m) PROVE HostsInv'
  BY <1>1 DEF Receive
<1>2. ASSUME NEW g \in Goroutines, HostsRead(g) PROVE HostsInv'
  BY <1>2 DEF HostsRead, AfterHosts
<1>3. ASSUME NEW g \in Goroutines, HostsWrite(g) PROVE HostsInv'
  BY <1>3 DEF HostsWrite, AfterHosts
<1>4. ASSUME NEW g \in Goroutines, HostsRename(g) PROVE HostsInv'
  BY <1>4 DEF HostsRename, AfterHosts
<1>5. ASSUME NEW g \in Goroutines, Detach(g) PROVE HostsInv'
  BY <1>5 DEF Detach
<1>6. ASSUME NEW g \in Goroutines, DeleteChain(g) PROVE HostsInv'
  BY <1>6 DEF DeleteChain, EmptyAndDelete, FilterNext
<1>7. CASE ApplyPeers
  BY <1>7 DEF ApplyPeers, ApplyOver, deviceFrame
<1>8. CASE SyncRoutes
  BY <1>8 DEF SyncRoutes, RouteDel, RouteConflict, RouteReplace,
              RoutesDone, RoutesReturn, RouteFrame, deviceFrame
<1>9. ASSUME NEW p \in Prefixes, RouteTouched(p) PROVE HostsInv'
  BY <1>9 DEF RouteTouched
<1>10. CASE ApplyPublishes
  BY <1>10 DEF ApplyPublishes, SyncPublishes
<1>11. CASE TeardownPublishes
  BY <1>11 DEF TeardownPublishes, SyncPublishes
<1>12. CASE FilterStart
  BY <1>12 DEF FilterStart
<1>13. CASE Flush
  BY <1>13 DEF Flush, FilterError, FilterFrame
<1>14. CASE AppendRules
  BY <1>14 DEF AppendRules, FilterError, FilterFrame
<1>15. CASE Hook
  BY <1>15 DEF Hook, FilterError, FilterFrame, FilterNext
<1>16. CASE Save
  BY <1>16 DEF Save, ApplyOver
<1>17. CASE Shutdown
  BY <1>17 DEF Shutdown
<1>18. CASE Exit
  BY <1>18 DEF Exit, DeviceClosed
<1>19. CASE Start
  BY <1>19 DEF Start, DeviceClosed
<1>20. CASE UNCHANGED vars
  BY <1>20 DEF vars
<1> QED
  BY <1>1, <1>2, <1>3, <1>4, <1>5, <1>6, <1>7, <1>8, <1>9, <1>10, <1>11, <1>12, <1>13, <1>14,
     <1>15, <1>16, <1>17, <1>18, <1>19, <1>20 DEF Next, HostsStep

\* syncPublishes: without an error the listeners are the wanted ones.
LEMMA PublishesInvKept ==
  TypeOK /\ MainPhases /\ PublishesInv /\ [Next]_vars
    => PublishesInv'
<1> SUFFICES ASSUME TypeOK, MainPhases, PublishesInv,
                    [Next]_vars
             PROVE PublishesInv'
  OBVIOUS
<1> USE DEF TypeOK, PhasesOK, MainPhases, PublishesInv, PartInForce,
            Outside, PastPublishes, AtChains, NetmapsOK, KeptForwarders
<1>1. ASSUME NEW m \in Netmaps, Receive(m) PROVE PublishesInv'
  BY <1>1 DEF Receive
<1>2. ASSUME NEW g \in Goroutines, HostsRead(g) PROVE PublishesInv'
  BY <1>2 DEF HostsRead, AfterHosts
<1>3. ASSUME NEW g \in Goroutines, HostsWrite(g) PROVE PublishesInv'
  BY <1>3 DEF HostsWrite, AfterHosts
<1>4. ASSUME NEW g \in Goroutines, HostsRename(g) PROVE PublishesInv'
  BY <1>4 DEF HostsRename, AfterHosts
<1>5. ASSUME NEW g \in Goroutines, Detach(g) PROVE PublishesInv'
  BY <1>5 DEF Detach
<1>6. ASSUME NEW g \in Goroutines, DeleteChain(g) PROVE PublishesInv'
  BY <1>6 DEF DeleteChain, EmptyAndDelete, FilterNext
<1>7. CASE ApplyPeers
  BY <1>7 DEF ApplyPeers, ApplyOver, deviceFrame
<1>8. CASE SyncRoutes
  BY <1>8 DEF SyncRoutes, RouteDel, RouteConflict, RouteReplace,
              RoutesDone, RoutesReturn, RouteFrame, deviceFrame
<1>9. ASSUME NEW p \in Prefixes, RouteTouched(p) PROVE PublishesInv'
  BY <1>9 DEF RouteTouched
<1>10. CASE ApplyPublishes
  <2> USE <1>10 DEF ApplyPublishes
  <2>1. pc["sync"] = "publishes" /\ pc'["sync"] = "filter" /\ UNCHANGED <<nm, run, applied>>
    OBVIOUS
  <2>2. CASE "publishes" \notin broken'
    <3>1. forwarders' = [p \in Ports |-> IF KeptForwarders(nm.publishes)[p] = Nothing
                              THEN nm.publishes[p] ELSE KeptForwarders(nm.publishes)[p]]
      BY <2>2 DEF SyncPublishes
    <3>2. \A p \in Ports : forwarders'[p] = nm.publishes[p]
      BY <3>1
    <3>3. nm.publishes = [p \in Ports |-> nm.publishes[p]]
      BY NetmapFields
    <3>4. forwarders' = nm.publishes
      BY <3>1, <3>2, <3>3
    <3> QED
      BY <2>1, <3>4
  <2> QED
    BY <2>2
<1>11. CASE TeardownPublishes
  BY <1>11 DEF TeardownPublishes, SyncPublishes
<1>12. CASE FilterStart
  BY <1>12 DEF FilterStart
<1>13. CASE Flush
  BY <1>13 DEF Flush, FilterError, FilterFrame
<1>14. CASE AppendRules
  BY <1>14 DEF AppendRules, FilterError, FilterFrame
<1>15. CASE Hook
  BY <1>15 DEF Hook, FilterError, FilterFrame, FilterNext
<1>16. CASE Save
  BY <1>16 DEF Save, ApplyOver
<1>17. CASE Shutdown
  BY <1>17 DEF Shutdown
<1>18. CASE Exit
  BY <1>18 DEF Exit, DeviceClosed
<1>19. CASE Start
  BY <1>19 DEF Start, DeviceClosed
<1>20. CASE UNCHANGED vars
  BY <1>20 DEF vars
<1> QED
  BY <1>1, <1>2, <1>3, <1>4, <1>5, <1>6, <1>7, <1>8, <1>9, <1>10, <1>11, <1>12, <1>13, <1>14,
     <1>15, <1>16, <1>17, <1>18, <1>19, <1>20 DEF Next, HostsStep

\* syncFilter and applyFilter: the fingerprint is recorded only when both chains are
\* done, and an error that leaves the old one marks the filter as broken.
LEMMA FilterInvKept ==
  TypeOK /\ MainPhases /\ FilterInv /\ [Next]_vars
    => FilterInv'
<1> SUFFICES ASSUME TypeOK, MainPhases, FilterInv,
                    [Next]_vars
             PROVE FilterInv'
  OBVIOUS
<1> USE DEF TypeOK, PhasesOK, MainPhases, FilterInv, PartInForce,
            Outside, AtChains, ChainsOK, Chains, NetmapsOK,
            ChainEnforces, ChainsEnforce, ChainGone, Removals, Key
<1>1. ASSUME NEW m \in Netmaps, Receive(m) PROVE FilterInv'
  BY <1>1 DEF Receive
<1>2. ASSUME NEW g \in Goroutines, HostsRead(g) PROVE FilterInv'
  BY <1>2 DEF HostsRead, AfterHosts
<1>3. ASSUME NEW g \in Goroutines, HostsWrite(g) PROVE FilterInv'
  BY <1>3 DEF HostsWrite, AfterHosts
<1>4. ASSUME NEW g \in Goroutines, HostsRename(g) PROVE FilterInv'
  BY <1>4 DEF HostsRename, AfterHosts
<1>5. ASSUME NEW g \in Goroutines, Detach(g) PROVE FilterInv'
  BY <1>5 DEF Detach
<1>6. ASSUME NEW g \in Goroutines, DeleteChain(g) PROVE FilterInv'
  BY <1>6 DEF DeleteChain, EmptyAndDelete, FilterNext
<1>7. CASE ApplyPeers
  BY <1>7 DEF ApplyPeers, ApplyOver, deviceFrame
<1>8. CASE SyncRoutes
  <2> USE DEF SyncRoutes, RouteDel, RouteConflict, RouteReplace,
              RoutesDone, RoutesReturn, RouteFrame, deviceFrame
  <2>1. UNCHANGED <<run, nm, applied, lastFilter, chain, exists, body, hooked, ignored>>
    BY <1>8
  <2>2. pc["sync"] = "routes" /\ pc'["sync"] \in {"routes", "hosts"}
    BY <1>8
  <2>3. "filter" \in broken' <=> "filter" \in broken
    BY <1>8
  <2> QED
    BY <2>1, <2>2, <2>3
<1>9. ASSUME NEW p \in Prefixes, RouteTouched(p) PROVE FilterInv'
  BY <1>9 DEF RouteTouched
<1>10. CASE ApplyPublishes
  BY <1>10 DEF ApplyPublishes, SyncPublishes
<1>11. CASE TeardownPublishes
  BY <1>11 DEF TeardownPublishes, SyncPublishes
<1>12. CASE FilterStart
  <2> USE DEF FilterStart
  <2>1. /\ UNCHANGED <<run, nm, applied, lastFilter, exists, body, hooked, broken, ignored>>
        /\ pc["sync"] = "filter"
    BY <1>12
  <2>2. CASE UnchangedFilter(nm)
    <3>1. lastFilter = Key(nm) /\ pc'["sync"] = "save" /\ chain' = chain
      BY <1>12, <2>2 DEF UnchangedFilter
    <3> QED
      BY <2>1, <3>1
  <2>3. CASE ~UnchangedFilter(nm)
    <3>1. pc'["sync"] = (IF nm.enabled THEN "flush" ELSE "detach") /\ chain'["sync"] = "KAI-FILTER"
      BY <1>12, <2>3
    <3> QED
      BY <2>1, <3>1
  <2> QED
    BY <2>2, <2>3
<1>13. CASE Flush
  BY <1>13 DEF Flush, FilterError, FilterFrame
<1>14. CASE AppendRules
  <2> USE DEF AppendRules, FilterError, FilterFrame
  <2>1. /\ UNCHANGED <<run, nm, applied, lastFilter, chain, hooked, ignored>>
        /\ pc["sync"] \in {"append", "tail"}
    BY <1>14
  <2>2. CASE pc'["sync"] = "save"
    <3>1. "filter" \in broken'
      BY <1>14, <2>2
    <3> QED
      BY <2>2, <3>1
  <2>3. CASE pc'["sync"] # "save"
    <3>1. /\ body' = [body EXCEPT ![chain["sync"]] =
                          [of |-> nm.rules, full |-> pc["sync"] = "tail"]]
          /\ pc'["sync"] = (IF pc["sync"] = "append" THEN "tail" ELSE "hook")
          /\ UNCHANGED broken
      BY <1>14, <2>3
    <3>2. /\ chain["sync"] \in Chains
          /\ chain["sync"] = "KAI-FORWARD" => body'["KAI-FILTER"] = body["KAI-FILTER"]
      BY <3>1
    <3>3. pc["sync"] = "tail" => body'[chain["sync"]] = [of |-> nm.rules, full |-> TRUE]
      BY <3>1
    <3> QED
      BY <2>1, <3>1, <3>2, <3>3
  <2> QED
    BY <2>2, <2>3
<1>15. CASE Hook
  BY <1>15 DEF Hook, FilterError, FilterFrame, FilterNext
<1>16. CASE Save
  BY <1>16 DEF Save, ApplyOver
<1>17. CASE Shutdown
  BY <1>17 DEF Shutdown
<1>18. CASE Exit
  BY <1>18 DEF Exit, DeviceClosed
<1>19. CASE Start
  BY <1>19 DEF Start, DeviceClosed
<1>20. CASE UNCHANGED vars
  BY <1>20 DEF vars
<1> QED
  BY <1>1, <1>2, <1>3, <1>4, <1>5, <1>6, <1>7, <1>8, <1>9, <1>10, <1>11, <1>12, <1>13, <1>14,
     <1>15, <1>16, <1>17, <1>18, <1>19, <1>20 DEF Next, HostsStep

\* Run's cleanup, with the sync loop idle: the names, then one chain, then the other.
LEMMA CleanupInvKept ==
  TypeOK /\ MainPhases /\ CleanupInv /\ [Next]_vars
    => CleanupInv'
<1> SUFFICES ASSUME TypeOK, MainPhases, CleanupInv,
                    [Next]_vars
             PROVE CleanupInv'
  OBVIOUS
<1> USE DEF TypeOK, PhasesOK, MainPhases, CleanupInv, PartInForce,
            Outside, ChainsOK, Chains, ChainGone, Removals, NetmapsOK, Wanted
<1>1. ASSUME NEW m \in Netmaps, Receive(m) PROVE CleanupInv'
  BY <1>1 DEF Receive
<1>2. ASSUME NEW g \in Goroutines, HostsRead(g) PROVE CleanupInv'
  BY <1>2 DEF HostsRead, AfterHosts
<1>3. ASSUME NEW g \in Goroutines, HostsWrite(g) PROVE CleanupInv'
  BY <1>3 DEF HostsWrite, AfterHosts
<1>4. ASSUME NEW g \in Goroutines, HostsRename(g) PROVE CleanupInv'
  BY <1>4 DEF HostsRename, AfterHosts
<1>5. ASSUME NEW g \in Goroutines, Detach(g) PROVE CleanupInv'
  BY <1>5 DEF Detach
<1>6. ASSUME NEW g \in Goroutines, DeleteChain(g) PROVE CleanupInv'
  BY <1>6 DEF DeleteChain, EmptyAndDelete, FilterNext
<1>7. CASE ApplyPeers
  BY <1>7 DEF ApplyPeers, ApplyOver, deviceFrame
<1>8. CASE SyncRoutes
  BY <1>8 DEF SyncRoutes, RouteDel, RouteConflict, RouteReplace,
              RoutesDone, RoutesReturn, RouteFrame, deviceFrame
<1>9. ASSUME NEW p \in Prefixes, RouteTouched(p) PROVE CleanupInv'
  BY <1>9 DEF RouteTouched
<1>10. CASE ApplyPublishes
  BY <1>10 DEF ApplyPublishes, SyncPublishes
<1>11. CASE TeardownPublishes
  BY <1>11 DEF TeardownPublishes, SyncPublishes
<1>12. CASE FilterStart
  BY <1>12 DEF FilterStart
<1>13. CASE Flush
  BY <1>13 DEF Flush, FilterError, FilterFrame
<1>14. CASE AppendRules
  BY <1>14 DEF AppendRules, FilterError, FilterFrame
<1>15. CASE Hook
  BY <1>15 DEF Hook, FilterError, FilterFrame, FilterNext
<1>16. CASE Save
  BY <1>16 DEF Save, ApplyOver
<1>17. CASE Shutdown
  BY <1>17 DEF Shutdown
<1>18. CASE Exit
  BY <1>18 DEF Exit, DeviceClosed
<1>19. CASE Start
  BY <1>19 DEF Start, DeviceClosed
<1>20. CASE UNCHANGED vars
  BY <1>20 DEF vars
<1> QED
  BY <1>1, <1>2, <1>3, <1>4, <1>5, <1>6, <1>7, <1>8, <1>9, <1>10, <1>11, <1>12, <1>13, <1>14,
     <1>15, <1>16, <1>17, <1>18, <1>19, <1>20 DEF Next, HostsStep

-----------------------------------------------------------------------------
(* The invariant and what follows from it.                                 *)

\* A first process on a host that no agent has touched.
LEMMA InitIInv == Init => IInv
<1> SUFFICES ASSUME Init PROVE IInv
  OBVIOUS
<1> USE DEF Init
<1>1. /\ run = "up" /\ pc["sync"] = "idle" /\ pc["main"] = "run"
      /\ applied = NoNetmap /\ lastFilter = NoKey
  OBVIOUS
<1>2. TypeOK
  <2>1. PhasesOK
    BY DEF PhasesOK, Goroutines
  <2>2. ChainsOK
    BY DEF ChainsOK, Chains, Goroutines
  <2>3. DeviceOK
    BY DEF DeviceOK
  <2>4. NetmapsOK
    BY DEF NetmapsOK, Goroutines
  <2>5. BoundsOK
    BY Bounds DEF BoundsOK
  <2> QED
    BY <2>1, <2>2, <2>3, <2>4, <2>5 DEF TypeOK
<1>3. MainPhases
  BY <1>1 DEF MainPhases
<1>4. DeviceKnown
  BY DEF DeviceKnown, Installed
<1>5. RoutesInv /\ HostsInv /\ PublishesInv /\ FilterInv
  BY <1>1 DEF RoutesInv, HostsInv, PublishesInv, FilterInv,
              PartInForce,
     Outside, PastRoutes,
              PastHosts, PastPublishes, AtChains
<1>6. CleanupInv
  BY <1>1 DEF CleanupInv
<1> QED
  BY <1>2, <1>3, <1>4, <1>5, <1>6 DEF IInv

\* The type invariant by itself.
LEMMA TypeStep ==
  TypeOK /\ DeviceKnown /\ [Next]_vars => TypeOK'
BY PhasesKept, ChainsKept, NetmapsKept, BoundsKept, DeviceStepKept DEF TypeOK

\* IInv of DataPlane is inductive: what each command of applyNetmap and of Run's
\* cleanup leaves to the next, whichever of them fail and wherever the process dies.
THEOREM Inductive == Spec => []IInv
<1>1. IInv /\ [Next]_vars => IInv'
  BY TypeStep, DeviceStepKept, MainPhasesKept, RoutesInvKept, HostsInvKept, PublishesInvKept,
     FilterInvKept, CleanupInvKept DEF IInv
<1> QED
  BY <1>1, InitIInv, PTL DEF Spec

\* The type invariant of DataPlane: in particular a chain that iptables -X removed has
\* neither rules nor jumps.
THEOREM TypeCorrect == Spec => []TypeOK
BY Inductive, PTL DEF IInv

\* Whatever command fails in SyncRoutes, every route in the host's table is one that
\* d.routes remembers.
THEOREM RoutesKnown == Spec => []NoRouteLeaks
<1>1. IInv => NoRouteLeaks
  BY DEF IInv, DeviceKnown, NoRouteLeaks
<1> QED
  BY <1>1, Inductive, PTL

\* An apply that is over has brought every part whose command did not fail in line
\* with the netmap, though syncFilter and syncPublishes skip what they take to be
\* unchanged and an earlier process may have died half way.
THEOREM InForce == Spec => []AppliedIsInForce
<1>1. IInv => AppliedIsInForce
  <2> SUFFICES ASSUME IInv, Idle PROVE AppliedIsInForce
    BY DEF AppliedIsInForce
  <2>1. /\ run = "up" /\ applied # NoNetmap
        /\ pc["sync"] \in Outside /\ pc["sync"] \notin AtChains
    BY DEF Idle, Outside, AtChains
  <2>2. "hosts" \notin broken => hosts = applied.hosts
    BY <2>1 DEF IInv, HostsInv, PartInForce
  <2>3. "publishes" \notin broken => forwarders = applied.publishes
    BY <2>1 DEF IInv, PublishesInv, PartInForce
  <2>4. "routes" \notin broken => Installed = applied.subnets \ lost
    BY <2>1 DEF IInv, RoutesInv, DeviceKnown, PartInForce
  <2>5. ASSUME "filter" \notin broken PROVE ChainsEnforce(applied)
    <3>1. lastFilter = Key(applied) /\ lastFilter # NoKey
      BY <2>1, <2>5, NetmapFields DEF IInv, FilterInv, PartInForce, TypeOK,
                                      NetmapsOK
    <3>2. ChainsEnforce(lastFilter)
      BY <2>1, <2>5, <3>1 DEF IInv, FilterInv
    <3> QED
      BY <3>1, <3>2 DEF ChainsEnforce, ChainEnforces, Key
  <2> QED
    BY <2>2, <2>3, <2>4, <2>5 DEF AppliedIsInForce
<1> QED
  BY <1>1, Inductive, PTL

\* An orderly exit of Run with no apply under way leaves no names, and of a chain only what
\* the iptables command that removes it failed at.
THEOREM ExitIsClean == Spec => []CleanExit
<1>1. IInv => CleanExit
  BY DEF IInv, MainPhases, CleanupInv, CleanExit
<1> QED
  BY <1>1, Inductive, PTL
=============================================================================
