---------------------------- MODULE ProberProofs ----------------------------
(***************************************************************************)
(* Proofs about Prober: its types, NoCandidatesNoPath and                  *)
(* RoutesFollowProbes, for any peers, candidate lists and thresholds and   *)
(* any number of netmaps, failed applies and changes of paths.             *)
(*                                                                         *)
(* The argument: under applyMu what is about to be installed is what the   *)
(* probes say now, unless the probe loop has decided something since; then *)
(* it owes an apply, and the device is not settled.                        *)
(***************************************************************************)
EXTENDS Prober, SequenceTheorems, WellFoundedInduction, TLAPS

\* The thresholds are numbers, and so are the lengths of the lists.
LEMMA Bounds ==
  /\ MaxCandidates \in Nat \ {0} /\ CandidateWindow \in Nat \ {0}
  /\ DirectStaleAfter \in Nat \ {0} /\ RetryAfterFail \in Nat \ {0}
  /\ RetryAfterDemote \in Nat \ {0} /\ MaxNetmaps \in Nat /\ MaxFaults \in Nat
  /\ 1 \in 1..(MaxCandidates + 1) /\ 0 \in 0..(CandidateWindow + 1)
BY ConstantsAssumption

USE Bounds

-----------------------------------------------------------------------------
(* validCandidates returns at most MaxCandidates candidates, all dialable. *)
(* The proof is by induction over the list.                                *)

\* A set of numbers that is not empty has a least one.
LEMMA LeastNat ==
  ASSUME NEW S, S \subseteq Nat, S # {}
  PROVE  \E n \in S : \A m \in Nat : m < n => m \notin S
<1> DEFINE R == OpToRel(<, Nat)
<1>1. IsWellFoundedOn(R, Nat)
  BY NatLessThanWellFounded
<1>2. \A m, k \in Nat : m < k => <<m, k>> \in R
  BY DEF OpToRel
<1> HIDE DEF R
<1>3. PICK n \in S : \A m \in S : ~ (<<m, n>> \in R)
  BY <1>1, WFMin
<1>4. \A m \in Nat : m < n => m \notin S
  BY <1>2, <1>3
<1> QED
  BY <1>4

Short == {s \in Seq(Dialable) : Len(s) <= MaxCandidates}

\* The body of the loop, and the loop over the first n elements.
Longer(s, c) == IF c \in Dialable /\ Len(s) < MaxCandidates THEN Append(s, c) ELSE s

Walk(l, n, g) ==
  g = [i \in 0..n |-> IF i = 0 THEN <<>> ELSE Longer(g[i - 1], l[i])]

\* The body keeps the list short.
LEMMA LongerShort == ASSUME NEW s \in Short, NEW c PROVE Longer(s, c) \in Short
<1>1. CASE c \in Dialable /\ Len(s) < MaxCandidates
  <2>1. s \in Seq(Dialable) /\ Len(s) \in Nat
    BY LenProperties DEF Short
  <2>2. Append(s, c) \in Seq(Dialable) /\ Len(Append(s, c)) = Len(s) + 1
    BY <1>1, <2>1, AppendProperties
  <2> QED
    BY <1>1, <2>1, <2>2 DEF Short, Longer
<1> QED
  BY <1>1 DEF Longer

\* So does the loop ...
LEMMA WalkShort ==
  ASSUME NEW l, NEW n \in Nat, NEW g, Walk(l, n, g)
  PROVE  \A i \in 0..n : g[i] \in Short
<1> DEFINE Bad == {i \in 0..n : g[i] \notin Short}
<1> SUFFICES ASSUME Bad # {} PROVE FALSE
  OBVIOUS
<1>1. Bad \subseteq Nat
  OBVIOUS
<1>2. PICK i \in Bad : \A j \in Nat : j < i => j \notin Bad
  BY <1>1, LeastNat
<1>3. i \in 0..n /\ g[i] \notin Short /\ (i # 0 => g[i - 1] \in Short)
  BY <1>2
<1>4. <<>> \in Short
  <2>1. <<>> \in Seq(Dialable) /\ Len(<<>>) = 0
    BY EmptySeq
  <2> QED
    BY <2>1 DEF Short
<1>5. g[i] = IF i = 0 THEN <<>> ELSE Longer(g[i - 1], l[i])
  BY <1>3 DEF Walk
<1> QED
  BY <1>3, <1>4, <1>5, LongerShort

\* ... which ends, however long the list is.
LEMMA WalkExists ==
  ASSUME NEW l, NEW n \in Nat
  PROVE  \E g : Walk(l, n, g)
<1> DEFINE Bad == {m \in Nat : ~ \E g : Walk(l, m, g)}
<1> SUFFICES ASSUME Bad # {} PROVE FALSE
  OBVIOUS
<1>1. PICK m \in Nat : m \in Bad /\ \A j \in Nat : j < m => j \notin Bad
  BY LeastNat
<1>2. CASE m = 0
  <2>1. Walk(l, 0, [i \in 0..0 |-> <<>>])
    BY DEF Walk
  <2> QED
    BY <1>1, <1>2, <2>1
<1>3. CASE m # 0
  <2>1. PICK g : Walk(l, m - 1, g)
    BY <1>1, <1>3
  <2> DEFINE h == [i \in 0..m |-> IF i = m THEN Longer(g[m - 1], l[m]) ELSE g[i]]
  <2>2. \A i \in 0..m : h[i] = IF i = 0 THEN <<>> ELSE Longer(h[i - 1], l[i])
    BY <1>3, <2>1 DEF Walk
  <2>3. Walk(l, m, h)
    BY <2>2 DEF Walk
  <2> QED
    BY <1>1, <2>3
<1> QED
  BY <1>2, <1>3

\* What validCandidates returns.
LEMMA ValidShort == ASSUME NEW l \in CandLists PROVE ValidCandidates(l) \in Short
<1> DEFINE F == CHOOSE g : Walk(l, Len(l), g)
<1>1. Len(l) \in Nat
  BY ConstantsAssumption, LenProperties
<1>2. Walk(l, Len(l), F)
  BY <1>1, WalkExists, Zenon
<1>3. ValidCandidates(l) = F[Len(l)]
  BY Zenon DEF ValidCandidates, Walk, Longer
<1> HIDE DEF F
<1> QED
  BY <1>1, <1>2, <1>3, WalkShort

-----------------------------------------------------------------------------
(* What a netmap and a decision make of one probe.                         *)

\* The parts of the invariant that are about one probe.
Sound(s) ==
  /\ s \in Probe /\ Len(s.cands) <= MaxCandidates
  /\ s.phase = "probing" => s.idx <= Len(s.cands)
  /\ s.phase = "direct" => s.confirmed
  /\ s.cands = <<>> => s.phase \in {"none", "idle"}

LEMMA NoProbeSound == Sound(NoProbe) /\ Sound(FreshProbe)
<1>1. <<>> \in Seq(Dialable) /\ Len(<<>>) = 0
  BY EmptySeq
<1>2. NoProbe \in Probe /\ FreshProbe \in Probe
  BY <1>1 DEF Probe, NoProbe, FreshProbe
<1>3. /\ NoProbe.phase = "none" /\ NoProbe.cands = <<>>
      /\ FreshProbe.phase = "idle" /\ FreshProbe.cands = <<>>
  BY DEF NoProbe, FreshProbe
<1> QED
  BY <1>1, <1>2, <1>3 DEF Sound

\* syncProbes: a probe that points nowhere any more starts anew or ends.
LEMMA SyncedSound ==
  ASSUME NEW s, Sound(s), NEW p \in Peers, NEW m \in Netmap
  PROVE  /\ Sound(Synced(s, p, m))
         /\ p \notin m.in => Synced(s, p, m).phase = "none"
<1> DEFINE old == IF s.phase = "none" THEN FreshProbe ELSE s
           cs == ValidCandidates(m.cands[p])
<1>1. Sound(old)
  BY NoProbeSound
<1>2. cs \in Seq(Dialable) /\ Len(cs) <= MaxCandidates /\ Len(cs) \in Nat /\ (cs # <<>> => 1 <= Len(cs))
  <2>1. m.cands[p] \in CandLists
    BY DEF Netmap
  <2>2. cs \in Short
    BY <2>1, ValidShort
  <2> HIDE DEF cs
  <2>3. cs \in Seq(Dialable) /\ Len(cs) <= MaxCandidates /\ Len(cs) \in Nat
    BY <2>2, LenProperties DEF Short
  <2> QED
    BY <2>3, EmptySeq
<1>3. CASE p \notin m.in
  BY <1>3, NoProbeSound DEF Synced, NoProbe
<1>4. CASE p \in m.in /\ cs = old.cands
  BY <1>1, <1>4 DEF Synced
<1>5. CASE p \in m.in /\ cs # old.cands
  <2>1. Synced(s, p, m) =
          [phase |-> IF cs = <<>> THEN "idle" ELSE old.phase,
           cands |-> cs,
           idx |-> IF old.phase = "probing" THEN 1 ELSE old.idx,
           att |-> IF old.phase = "probing" THEN 0 ELSE old.att,
           retry |-> IF old.phase = "idle" THEN 0 ELSE old.retry,
           confirmed |-> old.confirmed /\ (cs # <<>> \/ old.phase = "idle")]
    BY <1>5 DEF Synced
  <2> HIDE DEF old, cs
  <2> QED
    BY <1>1, <1>2, <1>5, <2>1 DEF Sound, Probe
<1> QED
  BY <1>3, <1>4, <1>5

\* probeStep: no decision leaves the list of candidates, and a handshake it trusts
\* comes with an endpoint.
LEMMA DecidedSound ==
  ASSUME NEW s, Sound(s), NEW age \in Age, NEW known \in BOOLEAN,
         age < DirectStaleAfter => known
  PROVE  /\ Sound(Decided(s, age, known))
         /\ s.phase = "none" => Decided(s, age, known) = s
<1>1. Len(s.cands) \in Nat /\ (s.cands # <<>> => 1 <= Len(s.cands))
  BY LenProperties, EmptySeq DEF Sound, Probe
<1>2. Sound(Demoted(s)) 
  <2>1. s \in Probe /\ RetryAfterDemote \in Nat
    BY DEF Sound
  <2>2. Demoted(s) \in Probe
    BY <2>1 DEF Demoted, Probe
  <2>3. Demoted(s).phase = "idle" /\ Demoted(s).cands = s.cands
    BY <2>1 DEF Demoted, Probe
  <2> QED
    BY <2>2, <2>3 DEF Sound
<1>3. ASSUME known, s.cands # <<>> PROVE Sound(Promoted(s, known))
  <2>1. s \in Probe
    BY DEF Sound
  <2>2. Promoted(s, known) \in Probe
    BY <2>1 DEF Promoted, Probe
  <2>3. /\ Promoted(s, known).phase = "direct" /\ Promoted(s, known).cands = s.cands
        /\ Promoted(s, known).confirmed = known
    BY <2>1 DEF Promoted, Probe
  <2> QED
    BY <1>3, <2>2, <2>3 DEF Sound
<1>4. ASSUME s.phase = "probing" PROVE Sound(NextCandidate(s))
  <2>1. s \in Probe /\ s.idx + 1 \in 1..(MaxCandidates + 1) /\ s.cands # <<>>
    BY <1>1, <1>4 DEF Sound, Probe
  <2>2. NextCandidate(s) \in Probe
    BY <1>1, <1>4, <2>1 DEF NextCandidate, Probe
  <2>3. /\ NextCandidate(s).phase = IF s.idx + 1 > Len(s.cands) THEN "idle" ELSE "probing"
        /\ NextCandidate(s).cands = s.cands /\ NextCandidate(s).idx = s.idx + 1
    BY <1>4, <2>1 DEF NextCandidate, Probe
  <2> QED
    BY <1>1, <2>1, <2>2, <2>3 DEF Sound
<1>5. ASSUME s.cands # <<>> PROVE Sound([s EXCEPT !.phase = "probing", !.idx = 1, !.att = 0])
  <2> DEFINE t == [s EXCEPT !.phase = "probing", !.idx = 1, !.att = 0]
  <2>1. s \in Probe
    BY DEF Sound
  <2>2. t \in Probe /\ t.phase = "probing" /\ t.idx = 1 /\ t.cands = s.cands
    BY <2>1 DEF Probe
  <2> HIDE DEF t
  <2>3. Sound(t)
    BY <1>1, <1>5, <2>2 DEF Sound
  <2> QED
    BY <2>3 DEF t
<1>6. s.phase = "probing" => s.cands # <<>>
  BY DEF Sound
<1>7. \/ s.phase = "direct" /\ Decided(s, age, known) = Demoted(s)
      \/ /\ s.phase \in {"probing", "idle"} /\ s.cands # <<>> /\ known
         /\ Decided(s, age, known) = Promoted(s, known)
      \/ s.phase = "probing" /\ Decided(s, age, known) = NextCandidate(s)
      \/ /\ s.phase = "idle" /\ s.cands # <<>>
         /\ Decided(s, age, known) = [s EXCEPT !.phase = "probing", !.idx = 1, !.att = 0]
      \/ Decided(s, age, known) = s
  BY <1>6 DEF Decided
<1> QED
  BY <1>2, <1>3, <1>4, <1>5, <1>7
-----------------------------------------------------------------------------
(* The invariant, put together the way the steps change it.                *)

ProbeInv ==
  /\ ps \in [Peers -> Probe]
  /\ \A p \in Peers : Sound(ps[p]) /\ (p \notin nm.in => ps[p].phase = "none")

LockInv == InstallerHolds /\ ConfIsCurrent /\ DeviceIsCurrent

Parts == ProbeInv /\ AgentTypes /\ DeviceTypes /\ LockInv /\ HandshakesHaveEndpoints

LEMMA Split == Parts <=> IInv
BY DEF Parts, IInv, TypeOK, ProbeTypes, ProbeInv, Sound, LockInv, DirectIsConfirmed,
       NoCandidatesNoPath

\* A composed entry is one, and depends on nothing that the passing of time changes.
LEMMA ComposedFacts ==
  ASSUME NEW s, NEW p, NEW m
  PROVE  /\ Composed(s, p, m) \in PeerEntry
         /\ Composed(s, p, m).present <=> p \in m.in
         /\ Composed(s, p, m).routed <=> p \in m.in /\ s.phase = "direct"
         /\ s.phase = "direct" /\ s.confirmed => Composed(s, p, m).dial
         /\ s.phase = "none" => ~Composed(s, p, m).dial
<1>1. Composed(s, p, m) \in PeerEntry
  BY DEF Composed, HasCandidate, PeerEntry
<1>2. /\ Composed(s, p, m).present <=> p \in m.in
      /\ Composed(s, p, m).routed <=> p \in m.in /\ s.phase = "direct"
  BY DEF Composed
<1>3. Composed(s, p, m).dial <=> \/ s.phase = "probing" /\ HasCandidate(s)
                                 \/ s.phase = "direct" /\ (s.confirmed \/ HasCandidate(s))
  BY DEF Composed
<1> QED
  BY <1>1, <1>2, <1>3

LEMMA NoNetmapType == NoNetmap \in Netmap
BY ConstantsAssumption DEF NoNetmap, Netmap

LEMMA InitInv == Init => Parts
<1> SUFFICES ASSUME Init PROVE Parts
  OBVIOUS
<1>1. NoNetmap \in Netmap /\ NoPeer \in PeerEntry
  BY NoNetmapType DEF NoPeer, PeerEntry
<1>2. Never \in Age /\ ~(Never < DirectStaleAfter)
  BY DEF Never, Age
<1>3. ProbeInv
  <2>1. NoProbe \in Probe /\ Sound(NoProbe) /\ NoProbe.phase = "none"
    BY NoProbeSound DEF Sound, NoProbe
  <2> QED
    BY <2>1 DEF Init, ProbeInv
<1>4. AgentTypes /\ DeviceTypes
  <2>1. AgentTypes
    BY <1>1, <1>2 DEF Init, AgentTypes
  <2>2. DeviceTypes
    <3>1. dev \in [Peers -> PeerEntry] /\ hs \in [Peers -> Age] /\ silent \in [Peers -> Age]
      BY <1>1, <1>2 DEF Init
    <3>2. ep \in [Peers -> BOOLEAN] /\ alive \in [Peers -> BOOLEAN] /\ failed \in BOOLEAN
      BY DEF Init
    <3>3. netmaps \in 0..MaxNetmaps /\ faults \in 0..MaxFaults
      BY DEF Init
    <3> QED
      BY <3>1, <3>2, <3>3 DEF DeviceTypes
  <2> QED
    BY <2>1, <2>2
<1>5. \A p \in Peers : Composed(NoProbe, p, NoNetmap) = NoPeer
  <2> SUFFICES ASSUME NEW p \in Peers PROVE Composed(NoProbe, p, NoNetmap) = NoPeer
    OBVIOUS
  <2>1. NoNetmap.in = {} /\ NoProbe.phase = "none"
    BY DEF NoNetmap, NoProbe
  <2> DEFINE c == Composed(NoProbe, p, NoNetmap)
  <2>2. c \in PeerEntry /\ c.present = FALSE /\ c.routed = FALSE /\ c.dial = FALSE
    BY <2>1, ComposedFacts DEF PeerEntry
  <2> HIDE DEF c
  <2>3. c = NoPeer
    BY <2>2 DEF PeerEntry, NoPeer
  <2> QED
    BY <2>3 DEF c
<1>6. LockInv
  BY <1>5 DEF Init, LockInv, InstallerHolds, ConfIsCurrent, DeviceIsCurrent, Current
<1>7. HandshakesHaveEndpoints
  BY <1>2 DEF Init, HandshakesHaveEndpoints
<1> QED
  BY <1>3, <1>4, <1>6, <1>7 DEF Parts

-----------------------------------------------------------------------------
(* The steps.                                                              *)

\* The part of applyNetmap under a.mu, of either loop.
LEMMA ReconcileInv ==
  ASSUME ProbeInv, NEW m \in Netmap, Reconcile(m)
  PROVE  ProbeInv' /\ conf' = Current' /\ conf' \in [Peers -> PeerEntry] /\ nm' \in Netmap
<1>1. \A p \in Peers : /\ ps'[p] = Synced(ps[p], p, m) /\ Sound(ps'[p])
                       /\ p \notin nm'.in => ps'[p].phase = "none"
  BY SyncedSound DEF Reconcile, ProbeInv
<1>2. ProbeInv'
  BY <1>1 DEF ProbeInv, Reconcile, Sound
<1>3. conf' = Current' /\ conf' \in [Peers -> PeerEntry]
  BY <1>1, ComposedFacts DEF Reconcile, Current
<1> QED
  BY <1>2, <1>3 DEF Reconcile

\* ApplyPeers succeeds or fails; nothing but the device changes.
LEMMA InstallInv ==
  ASSUME DeviceTypes, AgentTypes, HandshakesHaveEndpoints, Install \/ InstallError,
         UNCHANGED <<silent, netmaps, seen>>
  PROVE  DeviceTypes' /\ HandshakesHaveEndpoints' /\ (failed' \/ dev' = conf)
<1>1. Never \in Age /\ ~(Never < DirectStaleAfter)
  BY DEF Never, Age
<1>2. CASE Install
  <2>1. \A p \in Peers : conf[p].dial \in BOOLEAN
    BY DEF AgentTypes, PeerEntry
  <2> QED
    BY <1>1, <1>2, <2>1 DEF Install, DeviceTypes, AgentTypes, HandshakesHaveEndpoints
<1>3. CASE InstallError
  BY <1>3 DEF InstallError, DeviceTypes, deviceVars, HandshakesHaveEndpoints
<1> QED
  BY <1>2, <1>3

LEMMA SyncInv ==
  ASSUME Parts, (\E m \in Netmap : Receive(m)) \/ SyncStep
  PROVE  Parts'
<1>0. ProbeInv /\ AgentTypes /\ DeviceTypes /\ LockInv /\ HandshakesHaveEndpoints
  BY DEF Parts
<1>1. ASSUME NEW m \in Netmap, Receive(m) PROVE Parts'
  <2>1. ProbeInv' /\ AgentTypes' /\ DeviceTypes' /\ HandshakesHaveEndpoints'
    BY <1>0, <1>1 DEF Receive, ProbeInv, AgentTypes, DeviceTypes, deviceVars,
                      HandshakesHaveEndpoints
  <2>2. LockInv'
    BY <1>0, <1>1 DEF Receive, LockInv, InstallerHolds, ConfIsCurrent, DeviceIsCurrent, Settled,
                      Current, deviceVars
  <2> QED
    BY <2>1, <2>2 DEF Parts
<1>2. CASE SyncCompose
  <2>1. /\ incoming \in Netmap /\ Reconcile(incoming) /\ applyMu = "free" /\ applyMu' = "sync"
        /\ spc' = "install" /\ UNCHANGED <<ppc, incoming, captured, seen, deviceVars, silent, failed,
                                          netmaps, faults>>
    BY <1>0, <1>2 DEF SyncCompose, AgentTypes
  <2>2. ProbeInv' /\ conf' = Current' /\ conf' \in [Peers -> PeerEntry] /\ nm' \in Netmap
    BY <1>0, <2>1, ReconcileInv
  <2>3. AgentTypes' /\ DeviceTypes' /\ HandshakesHaveEndpoints'
    BY <1>0, <2>1, <2>2 DEF AgentTypes, DeviceTypes, deviceVars, HandshakesHaveEndpoints
  <2>4. LockInv'
    BY <1>0, <2>1, <2>2 DEF LockInv, InstallerHolds, ConfIsCurrent, DeviceIsCurrent, Settled
  <2> QED
    BY <2>2, <2>3, <2>4 DEF Parts
<1>3. CASE SyncInstall
  <2>1. /\ spc = "install" /\ applyMu' = "free" /\ spc' \in {"idle", "compose"}
        /\ incoming' \in {incoming, NoNetmap}
        /\ Install \/ InstallError
        /\ UNCHANGED <<nm, ps, ppc, seen, captured, conf, latest, silent, netmaps>>
    BY <1>3 DEF SyncInstall
  <2>2. DeviceTypes' /\ HandshakesHaveEndpoints' /\ (failed' \/ dev' = conf)
    BY <1>0, <2>1, InstallInv
  <2>3. ProbeInv' /\ AgentTypes'
    <3>1. ProbeInv'
      BY <1>0, <2>1 DEF ProbeInv
    <3>2. {nm', incoming', captured'} \subseteq Netmap
      BY <1>0, <2>1, NoNetmapType DEF AgentTypes
    <3>3. AgentTypes'
      BY <1>0, <2>1, <3>2 DEF AgentTypes
    <3> QED
      BY <3>1, <3>3
  <2>4. LockInv'
    <3>1. Current' = Current /\ applyMu # "free" /\ applyMu' = "free"
      BY <1>0, <2>1 DEF Current, LockInv, InstallerHolds
    <3>2. InstallerHolds' /\ ConfIsCurrent'
      BY <1>0, <2>1, <3>1 DEF LockInv, InstallerHolds, ConfIsCurrent
    <3>3. Settled' => dev' = conf /\ ppc # "compose"
      BY <2>1, <2>2 DEF Settled
    <3>4. DeviceIsCurrent'
      BY <1>0, <3>1, <3>3 DEF LockInv, ConfIsCurrent, DeviceIsCurrent
    <3> QED
      BY <3>2, <3>4 DEF LockInv
  <2> QED
    BY <2>2, <2>3, <2>4 DEF Parts
<1> QED
  BY <1>1, <1>2, <1>3 DEF SyncStep

LEMMA ProbeStepInv == ASSUME Parts, ProbeStep PROVE Parts'
<1>0. ProbeInv /\ AgentTypes /\ DeviceTypes /\ LockInv /\ HandshakesHaveEndpoints
  BY DEF Parts
<1>1. CASE ProbeRead
  <2>1. ProbeInv' /\ AgentTypes' /\ DeviceTypes' /\ HandshakesHaveEndpoints'
    BY <1>0, <1>1 DEF ProbeRead, ProbeInv, AgentTypes, DeviceTypes, deviceVars,
                      HandshakesHaveEndpoints
  <2>2. LockInv'
    BY <1>0, <1>1 DEF ProbeRead, LockInv, InstallerHolds, ConfIsCurrent, DeviceIsCurrent, Settled,
                      Current, deviceVars
  <2> QED
    BY <2>1, <2>2 DEF Parts
<1>2. CASE ProbeDecide
  <2>1. /\ ppc = "decide" /\ ps' = [p \in Peers |-> Decided(ps[p], seen.hs[p], seen.ep[p])]
        /\ captured' \in {nm, NoNetmap} /\ ppc' = IF ps' # ps THEN "compose" ELSE "idle"
        /\ UNCHANGED <<nm, applyMu, spc, incoming, seen, conf, dev, hs, ep, alive, latest, silent,
                       failed, netmaps, faults>>
    BY <1>2 DEF ProbeDecide, deviceVars
  <2>2. \A p \in Peers : /\ seen.hs[p] \in Age /\ seen.ep[p] \in BOOLEAN
                         /\ seen.hs[p] < DirectStaleAfter => seen.ep[p]
    BY <1>0 DEF AgentTypes, HandshakesHaveEndpoints
  <2>3. \A p \in Peers : Sound(ps'[p]) /\ (p \notin nm'.in => ps'[p].phase = "none")
    BY <1>0, <2>1, <2>2, DecidedSound DEF ProbeInv
  <2>4. ProbeInv'
    BY <2>1, <2>3 DEF ProbeInv, Sound
  <2>5. AgentTypes' /\ DeviceTypes' /\ HandshakesHaveEndpoints'
    BY <1>0, <2>1, NoNetmapType DEF AgentTypes, DeviceTypes, HandshakesHaveEndpoints
  <2>6. LockInv'
    <3>1. CASE ps' = ps
      BY <1>0, <2>1, <3>1 DEF LockInv, InstallerHolds, ConfIsCurrent, DeviceIsCurrent, Settled, Current
    <3>2. CASE ps' # ps
      BY <1>0, <2>1, <3>2 DEF LockInv, InstallerHolds, ConfIsCurrent, DeviceIsCurrent, Settled
    <3> QED
      BY <3>1, <3>2
  <2> QED
    BY <2>4, <2>5, <2>6 DEF Parts
<1>3. CASE ProbeCompose
  <2>1. /\ captured \in Netmap /\ Reconcile(captured) /\ applyMu = "free" /\ applyMu' = "probe"
        /\ ppc' = "install" /\ UNCHANGED <<spc, incoming, captured, seen, deviceVars, silent, failed,
                                          netmaps, faults>>
    BY <1>0, <1>3 DEF ProbeCompose, AgentTypes
  <2>2. ProbeInv' /\ conf' = Current' /\ conf' \in [Peers -> PeerEntry] /\ nm' \in Netmap
    BY <1>0, <2>1, ReconcileInv
  <2>3. AgentTypes' /\ DeviceTypes' /\ HandshakesHaveEndpoints'
    BY <1>0, <2>1, <2>2 DEF AgentTypes, DeviceTypes, deviceVars, HandshakesHaveEndpoints
  <2>4. LockInv'
    BY <1>0, <2>1, <2>2 DEF LockInv, InstallerHolds, ConfIsCurrent, DeviceIsCurrent, Settled
  <2> QED
    BY <2>2, <2>3, <2>4 DEF Parts
<1>4. CASE ProbeInstall
  <2>1. /\ ppc = "install" /\ applyMu' = "free" /\ ppc' = "idle"
        /\ captured' = NoNetmap
        /\ Install \/ InstallError
        /\ UNCHANGED <<nm, ps, spc, seen, incoming, conf, latest, silent, netmaps>>
    BY <1>4 DEF ProbeInstall
  <2>2. DeviceTypes' /\ HandshakesHaveEndpoints' /\ (failed' \/ dev' = conf)
    BY <1>0, <2>1, InstallInv
  <2>3. ProbeInv' /\ AgentTypes'
    <3>1. ProbeInv'
      BY <1>0, <2>1 DEF ProbeInv
    <3>2. {nm', incoming', captured'} \subseteq Netmap
      BY <1>0, <2>1, NoNetmapType DEF AgentTypes
    <3>3. AgentTypes'
      BY <1>0, <2>1, <3>2 DEF AgentTypes
    <3> QED
      BY <3>1, <3>3
  <2>4. LockInv'
    <3>1. Current' = Current /\ applyMu # "free" /\ applyMu' = "free"
      BY <1>0, <2>1 DEF Current, LockInv, InstallerHolds
    <3>2. InstallerHolds' /\ ConfIsCurrent'
      BY <1>0, <2>1, <3>1 DEF LockInv, InstallerHolds, ConfIsCurrent
    <3>3. Settled' => dev' = conf /\ ppc # "compose"
      BY <2>1, <2>2 DEF Settled
    <3>4. DeviceIsCurrent'
      BY <1>0, <3>1, <3>3 DEF LockInv, ConfIsCurrent, DeviceIsCurrent
    <3> QED
      BY <3>2, <3>4 DEF LockInv
  <2> QED
    BY <2>2, <2>3, <2>4 DEF Parts
<1> QED
  BY <1>1, <1>2, <1>3, <1>4 DEF ProbeStep
\* Handshakes, changes of paths, and time.
LEMMA WorldInv ==
  ASSUME Parts, (\E p \in Peers : Handshake(p) \/ PathChange(p)) \/ Tick
  PROVE  Parts'
<1>0. ProbeInv /\ AgentTypes /\ DeviceTypes /\ LockInv /\ HandshakesHaveEndpoints
  BY DEF Parts
<1>1. ASSUME NEW p \in Peers, Handshake(p) \/ PathChange(p) PROVE Parts'
  <2>1. /\ UNCHANGED <<nm, ps, applyMu, spc, incoming, ppc, seen, captured, conf, dev, latest,
                       failed, netmaps>>
        /\ \/ hs' = [hs EXCEPT ![p] = 0] /\ ep' = [ep EXCEPT ![p] = TRUE]
              /\ silent' = [silent EXCEPT ![p] = 0] /\ UNCHANGED <<alive, faults>>
           \/ alive' = [alive EXCEPT ![p] = ~@] /\ faults' = faults + 1 /\ faults < MaxFaults
              /\ UNCHANGED <<hs, ep, silent>>
    BY <1>1 DEF Handshake, PathChange, agentVars
  <2>2. 0 \in Age
    BY DEF Age, Never
  <2>3. ProbeInv' /\ AgentTypes'
    BY <1>0, <2>1 DEF ProbeInv, AgentTypes
  <2>4. DeviceTypes'
    <3>1. hs' \in [Peers -> Age] /\ silent' \in [Peers -> Age]
      BY <1>0, <2>1, <2>2 DEF DeviceTypes
    <3>2. ep' \in [Peers -> BOOLEAN] /\ alive' \in [Peers -> BOOLEAN]
      BY <1>0, <2>1 DEF DeviceTypes
    <3>3. faults' \in 0..MaxFaults
      BY <1>0, <2>1 DEF DeviceTypes
    <3> QED
      BY <1>0, <2>1, <3>1, <3>2, <3>3 DEF DeviceTypes
  <2>5. HandshakesHaveEndpoints'
    BY <1>0, <2>1 DEF HandshakesHaveEndpoints, DeviceTypes
  <2>6. LockInv'
    BY <1>0, <2>1 DEF LockInv, InstallerHolds, ConfIsCurrent, DeviceIsCurrent, Settled, Current
  <2> QED
    BY <2>3, <2>4, <2>5, <2>6 DEF Parts
<1>2. CASE Tick
  <2>1. /\ UNCHANGED <<nm, applyMu, spc, incoming, ppc, seen, captured, conf, dev, ep, alive, latest,
                       failed, netmaps, faults>>
        /\ hs' = [p \in Peers |-> Older(hs[p], Never)]
        /\ silent' = [p \in Peers |-> Older(silent[p], Never)]
        /\ ps' = [p \in Peers |-> [ps[p] EXCEPT !.att = Older(@, CandidateWindow + 1),
                                                !.retry = IF @ > 0 THEN @ - 1 ELSE 0]]
    BY <1>2 DEF Tick
  <2>2. \A a \in Age : Older(a, Never) \in Age /\ (Older(a, Never) < DirectStaleAfter => a < DirectStaleAfter)
    BY DEF Age, Never, Older
  <2>3. ASSUME NEW p \in Peers
        PROVE  /\ ps'[p] \in Probe /\ ps'[p].phase = ps[p].phase /\ ps'[p].cands = ps[p].cands
               /\ ps'[p].idx = ps[p].idx /\ ps'[p].confirmed = ps[p].confirmed
    <3>1. ps[p] \in Probe
      BY <1>0 DEF ProbeInv
    <3>2. PICK a \in 0..(CandidateWindow + 1), r \in Nat :
            ps'[p] = [ps[p] EXCEPT !.att = a, !.retry = r]
      <4>1. Older(ps[p].att, CandidateWindow + 1) \in 0..(CandidateWindow + 1)
        BY <3>1 DEF Older, Probe
      <4>2. (IF ps[p].retry > 0 THEN ps[p].retry - 1 ELSE 0) \in Nat
        BY <3>1 DEF Probe
      <4> QED
        BY <2>1, <3>1, <4>1, <4>2 DEF Probe
    <3> QED
      BY <3>1, <3>2 DEF Probe
  <2>4. ProbeInv'
    <3>1. ASSUME NEW p \in Peers PROVE Sound(ps'[p])
      <4>1. Sound(ps[p])
        BY <1>0 DEF ProbeInv
      <4> QED
        BY <2>3, <4>1 DEF Sound
    <3> QED
      BY <1>0, <2>1, <2>3, <3>1 DEF ProbeInv
  <2>5. AgentTypes' /\ DeviceTypes'
    BY <1>0, <2>1, <2>2 DEF AgentTypes, DeviceTypes
  <2>6. HandshakesHaveEndpoints'
    <3>1. \A p \in Peers : hs'[p] < DirectStaleAfter => hs[p] < DirectStaleAfter
      BY <1>0, <2>1, <2>2 DEF DeviceTypes
    <3> QED
      BY <1>0, <2>1, <3>1 DEF HandshakesHaveEndpoints
  <2>7. Current' = Current
    <3>1. nm' = nm
      BY <2>1
    <3>2. \A p \in Peers : Composed(ps'[p], p, nm) = Composed(ps[p], p, nm)
      BY <2>3 DEF Composed, HasCandidate
    <3> QED
      BY <3>1, <3>2 DEF Current
  <2>8. LockInv'
    BY <1>0, <2>1, <2>7 DEF LockInv, InstallerHolds, ConfIsCurrent, DeviceIsCurrent, Settled
  <2> QED
    BY <2>4, <2>5, <2>6, <2>8 DEF Parts
<1> QED
  BY <1>1, <1>2

-----------------------------------------------------------------------------
(* The theorems.                                                           *)

\* Every step keeps the invariant.
LEMMA InvStep == Parts /\ [Next]_vars => Parts'
<1> SUFFICES ASSUME Parts, [Next]_vars PROVE Parts'
  OBVIOUS
<1>1. CASE Next
  BY <1>1, SyncInv, ProbeStepInv, WorldInv DEF Next
<1>2. CASE UNCHANGED vars
  <2> USE <1>2 DEF vars, agentVars, deviceVars
  <2>1. ProbeInv' /\ AgentTypes' /\ DeviceTypes' /\ HandshakesHaveEndpoints'
    BY DEF Parts, ProbeInv, AgentTypes, DeviceTypes, HandshakesHaveEndpoints
  <2>2. LockInv'
    BY DEF Parts, LockInv, InstallerHolds, ConfIsCurrent, DeviceIsCurrent, Settled, Current
  <2> QED
    BY <2>1, <2>2 DEF Parts
<1> QED
  BY <1>1, <1>2

LEMMA Inductive == Spec => []IInv
BY InitInv, InvStep, Split, PTL DEF Spec

\* Probes, netmaps and the device keep their types, and a probe that is under way
\* points at one of its candidates.
THEOREM TypeCorrect == Spec => []TypeOK
<1>1. IInv => TypeOK
  BY DEF IInv
<1> QED
  BY <1>1, Inductive, PTL

\* Whoever has no candidates is on the relay.
THEOREM WithoutCandidates == Spec => []NoCandidatesNoPath
<1>1. IInv => NoCandidatesNoPath
  BY DEF IInv
<1> QED
  BY <1>1, Inductive, PTL

\* A device that nobody is about to change has the /32 of exactly the peers whose probe
\* is direct, with an endpoint.
THEOREM DeviceFollows == Spec => []RoutesFollowProbes
<1>1. IInv => RoutesFollowProbes
  <2> SUFFICES ASSUME IInv, Settled, NEW p \in Peers
               PROVE  /\ dev[p].routed <=> ps[p].phase = "direct"
                      /\ dev[p].routed => dev[p].present /\ dev[p].dial
    BY DEF RoutesFollowProbes
  <2>1. dev[p] = Composed(ps[p], p, nm)
    BY DEF IInv, DeviceIsCurrent, Current
  <2>2. ps[p].phase = "direct" => p \in nm.in /\ ps[p].confirmed
    BY DEF IInv, DirectIsConfirmed
  <2> QED
    BY <2>1, <2>2, ComposedFacts
<1> QED
  BY <1>1, Inductive, PTL
=============================================================================
