------------------------------- MODULE Prober -------------------------------
(***************************************************************************)
(* Direct paths between spokes.  The probe loop reads the device without a *)
(* lock, decides under a.mu, and re-applies the netmap it found; the sync  *)
(* loop applies netmaps as they arrive.  applyMu makes one apply wait for  *)
(* the other, but it is taken only after the decision; within an apply,    *)
(* a.mu covers the reconciliation of the probe states and the composition  *)
(* of the peer set, not its installation.                                  *)
(*                                                                         *)
(* Time is counted in probe ticks, as ages capped just above the largest   *)
(* threshold they are compared with.  Every peer here is another spoke     *)
(* (probeManaged); the hub's own peer entry never changes.                 *)
(***************************************************************************)
EXTENDS Integers, Sequences

CONSTANTS
  Peers,             \* the other spokes, by WireGuard key
  CandLists,         \* candidate lists netmaps may carry
  Dialable,          \* the candidates validCandidates lets through
  MaxCandidates,     \* maxCandidates
  CandidateWindow,   \* candidateWindow, in ticks
  DirectStaleAfter,  \* directStaleAfter, in ticks
  RetryAfterFail,    \* retryAfterFail, in ticks
  RetryAfterDemote,  \* retryAfterDemote, in ticks
  MaxNetmaps,        \* bound: netmaps received
  MaxFaults          \* bound: failed applies and changes of a path

ASSUME ConstantsAssumption ==
  /\ CandLists \subseteq Seq(UNION {{l[i] : i \in DOMAIN l} : l \in CandLists})
  /\ <<>> \in CandLists
  /\ {MaxCandidates, CandidateWindow, DirectStaleAfter, RetryAfterFail,
      RetryAfterDemote} \subseteq Nat \ {0}
  /\ {MaxNetmaps, MaxFaults} \subseteq Nat

VARIABLES
  nm,        \* a.nm: the peers in it and their candidates
  ps,        \* a.probes
  applyMu,   \* who holds applyMu
  spc,       \* program counter of the sync loop
  incoming,  \* the netmap the sync loop received
  ppc,       \* program counter of the probe loop
  seen,      \* dev.Peers() as probeStep read it
  captured,  \* the netmap probeStep is about to apply
  conf,      \* the composed peer set about to be installed
  dev,       \* peers on the device: [present, routed, dial]
  hs,        \* age of the device's last handshake with each peer
  ep,        \* whether the device knows an endpoint of the peer
  alive,     \* whether the direct path carries packets
  (* history and bounds *)
  latest,    \* the netmap the sync loop applied last
  silent,    \* ticks since a handshake with the peer, whatever the device says
  failed,    \* the last apply failed
  netmaps, faults

agentVars == <<nm, ps, applyMu, spc, incoming, ppc, seen, captured, conf>>
deviceVars == <<dev, hs, ep, alive>>
vars == <<agentVars, deviceVars, latest, silent, failed, netmaps, faults>>

Never == DirectStaleAfter + 1
Age == 0..Never
Netmap == [in : SUBSET Peers, cands : [Peers -> CandLists]]
NoNetmap == [in |-> {}, cands |-> [p \in Peers |-> <<>>]]

NoProbe == [phase |-> "none", cands |-> <<>>, idx |-> 1, att |-> 0, retry |-> 0,
            confirmed |-> FALSE]
FreshProbe == [NoProbe EXCEPT !.phase = "idle"]
NoPeer == [present |-> FALSE, routed |-> FALSE, dial |-> FALSE]

Probe == [phase : {"none", "idle", "probing", "direct"}, cands : Seq(Dialable),
          idx : 1..(MaxCandidates + 1), att : 0..(CandidateWindow + 1), retry : Nat,
          confirmed : BOOLEAN]
PeerEntry == [present : BOOLEAN, routed : BOOLEAN, dial : BOOLEAN]

\* A probing state points at one of its candidates (candIdx is an index into a
\* list that a netmap may replace at any time).
ProbeTypes ==
  /\ ps \in [Peers -> Probe]
  /\ \A p \in Peers : /\ Len(ps[p].cands) <= MaxCandidates
                      /\ ps[p].phase = "probing" => ps[p].idx <= Len(ps[p].cands)

AgentTypes ==
  /\ {nm, incoming, captured} \subseteq Netmap
  /\ applyMu \in {"free", "sync", "probe"}
  /\ spc \in {"idle", "compose", "install"}
  /\ ppc \in {"idle", "decide", "compose", "install"}
  /\ seen \in [hs : [Peers -> Age], ep : [Peers -> BOOLEAN]]
  /\ conf \in [Peers -> PeerEntry]

DeviceTypes ==
  /\ dev \in [Peers -> PeerEntry]
  /\ hs \in [Peers -> Age] /\ silent \in [Peers -> Age]
  /\ ep \in [Peers -> BOOLEAN] /\ alive \in [Peers -> BOOLEAN]
  /\ failed \in BOOLEAN
  /\ netmaps \in 0..MaxNetmaps /\ faults \in 0..MaxFaults

TypeOK == ProbeTypes /\ AgentTypes /\ DeviceTypes

\* A running agent before its first netmap.
Init ==
  /\ nm = NoNetmap
  /\ ps = [p \in Peers |-> NoProbe]
  /\ applyMu = "free"
  /\ spc = "idle"
  /\ incoming = NoNetmap
  /\ ppc = "idle"
  /\ seen = [hs |-> [p \in Peers |-> Never], ep |-> [p \in Peers |-> FALSE]]
  /\ captured = NoNetmap
  /\ conf = [p \in Peers |-> NoPeer]
  /\ dev = [p \in Peers |-> NoPeer]
  /\ hs = [p \in Peers |-> Never]
  /\ ep = [p \in Peers |-> FALSE]
  /\ alive = [p \in Peers |-> TRUE]
  /\ latest = NoNetmap
  /\ silent = [p \in Peers |-> Never]
  /\ failed = FALSE
  /\ netmaps = 0
  /\ faults = 0

-----------------------------------------------------------------------------
(***************************************************************************)
(* What a netmap makes of a probe state, and of a peer.                    *)
(***************************************************************************)

\* validCandidates: what cannot be dialled is dropped, the rest is capped.
ValidCandidates(l) ==
  LET out[i \in 0..Len(l)] ==
        IF i = 0 THEN <<>>
        ELSE IF l[i] \in Dialable /\ Len(out[i - 1]) < MaxCandidates
               THEN Append(out[i - 1], l[i])
               ELSE out[i - 1]
  IN  out[Len(l)]

\* Seeded fault: the index survives a change of the list it points into.
SyncedStaleIndex(s, p, m) ==
  LET old == IF s.phase = "none" THEN FreshProbe ELSE s
      cs == ValidCandidates(m.cands[p]) IN
  IF p \notin m.in THEN NoProbe
  ELSE [old EXCEPT !.cands = cs, !.phase = IF cs = <<>> THEN "idle" ELSE @]

\* Seeded fault: withdrawn candidates stop probing but leave a direct path.
SyncedKeepingDirect(s, p, m) ==
  LET old == IF s.phase = "none" THEN FreshProbe ELSE s
      cs == ValidCandidates(m.cands[p]) IN
  IF p \notin m.in THEN NoProbe
  ELSE IF cs = old.cands THEN old
  ELSE [phase |-> IF cs = <<>> /\ old.phase = "probing" THEN "idle" ELSE old.phase,
        cands |-> cs,
        idx |-> IF old.phase = "probing" THEN 1 ELSE old.idx,
        att |-> IF old.phase = "probing" THEN 0 ELSE old.att,
        retry |-> IF old.phase = "idle" THEN 0 ELSE old.retry,
        confirmed |-> old.confirmed]

\* syncProbes for one peer: new candidates restart a probe and end a pause, no
\* candidates end a direct path as well, a peer that left is forgotten.
Synced(s, p, m) ==
  LET old == IF s.phase = "none" THEN FreshProbe ELSE s
      cs == ValidCandidates(m.cands[p]) IN
  IF p \notin m.in THEN NoProbe
  ELSE IF cs = old.cands THEN old
  ELSE [phase |-> IF cs = <<>> THEN "idle" ELSE old.phase,
        cands |-> cs,
        idx |-> IF old.phase = "probing" THEN 1 ELSE old.idx,
        att |-> IF old.phase = "probing" THEN 0 ELSE old.att,
        retry |-> IF old.phase = "idle" THEN 0 ELSE old.retry,
        confirmed |-> old.confirmed /\ (cs # <<>> \/ old.phase = "idle")]

\* endpoint(): the candidate the index points at, if there is one.
HasCandidate(s) == s.idx <= Len(s.cands)

\* composePeers for one peer: the /32 only on a direct path, an endpoint to dial
\* only while probing or direct.
Composed(s, p, m) ==
  [present |-> p \in m.in,
   routed |-> p \in m.in /\ s.phase = "direct",
   dial |-> \/ s.phase = "probing" /\ HasCandidate(s)
            \/ s.phase = "direct" /\ (s.confirmed \/ HasCandidate(s))]

\* The part of applyNetmap under a.mu.
Reconcile(m) ==
  /\ nm' = m
  /\ ps' = [p \in Peers |-> Synced(ps[p], p, m)]
  /\ conf' = [p \in Peers |-> Composed(Synced(ps[p], p, m), p, m)]

\* ApplyPeers replaces every peer: the device forgets sessions and endpoints.
Install ==
  /\ dev' = conf
  /\ hs' = [p \in Peers |-> Never]
  /\ ep' = [p \in Peers |-> conf[p].dial]
  /\ failed' = FALSE
  /\ UNCHANGED <<alive, faults>>

InstallError ==
  /\ faults < MaxFaults
  /\ faults' = faults + 1
  /\ failed' = TRUE
  /\ UNCHANGED deviceVars

-----------------------------------------------------------------------------
(***************************************************************************)
(* The sync loop.                                                          *)
(***************************************************************************)
Receive(m) ==
  /\ spc = "idle"
  /\ netmaps < MaxNetmaps
  /\ netmaps' = netmaps + 1
  /\ incoming' = m
  /\ spc' = "compose"
  /\ UNCHANGED <<nm, ps, applyMu, ppc, seen, captured, conf, deviceVars, latest, silent,
                 failed, faults>>

SyncCompose ==
  /\ spc = "compose"
  /\ applyMu = "free"
  /\ applyMu' = "sync"
  /\ Reconcile(incoming)
  /\ latest' = incoming
  /\ spc' = "install"
  /\ UNCHANGED <<incoming, ppc, seen, captured, deviceVars, silent, failed, netmaps, faults>>

\* After a failure st.Netmap is the old one, so the next poll brings this one again.
SyncInstall ==
  /\ spc = "install"
  /\ \/ Install /\ spc' = "idle" /\ incoming' = NoNetmap
     \/ InstallError /\ spc' = "compose" /\ UNCHANGED incoming
  /\ applyMu' = "free"
  /\ UNCHANGED <<nm, ps, ppc, seen, captured, conf, latest, silent, netmaps>>

-----------------------------------------------------------------------------
(***************************************************************************)
(* The probe loop: probeStep.                                              *)
(***************************************************************************)
ProbeRead ==
  /\ ppc = "idle"
  /\ seen' = [hs |-> hs, ep |-> ep]
  /\ ppc' = "decide"
  /\ UNCHANGED <<nm, ps, applyMu, spc, incoming, captured, conf, deviceVars, latest, silent,
                 failed, netmaps, faults>>

\* Seeded fault: a direct path is kept whatever its age.
DemotedNot(s) == s

\* A direct path without handshakes: back to the hub, retried soon.
Demoted(s) == [s EXCEPT !.phase = "idle", !.confirmed = FALSE, !.retry = RetryAfterDemote]

\* A handshake proves the path.
Promoted(s, known) == [s EXCEPT !.phase = "direct", !.confirmed = known]

\* The candidate had its window: the next one, or a long pause after the last.
NextCandidate(s) ==
  [s EXCEPT !.idx = @ + 1,
            !.att = 0,
            !.phase = IF s.idx + 1 > Len(s.cands) THEN "idle" ELSE @,
            !.retry = IF s.idx + 1 > Len(s.cands) THEN RetryAfterFail ELSE @]

\* Seeded fault: the pause is compared the wrong way round.
RetryDueInverted(s) == s.retry > 0

\* now.After(nextRetryAt)
RetryDue(s) == s.retry = 0

\* The next state of a probe, given the age of the last handshake and whether
\* the device knows the peer's endpoint.
Decided(s, age, known) ==
  CASE s.phase = "direct" /\ age > DirectStaleAfter -> Demoted(s)
    [] s.phase = "probing" /\ age < DirectStaleAfter -> Promoted(s, known)
    [] s.phase = "probing" /\ age >= DirectStaleAfter /\ s.att > CandidateWindow ->
         NextCandidate(s)
    [] s.phase = "idle" /\ s.cands # <<>> /\ age < DirectStaleAfter /\ known ->
         Promoted(s, known)
    [] s.phase = "idle" /\ s.cands # <<>> /\ ~(age < DirectStaleAfter /\ known)
         /\ RetryDue(s) ->
         [s EXCEPT !.phase = "probing", !.idx = 1, !.att = 0]
    [] OTHER -> s

\* Seeded fault: a lost direct path does not count as a change.
ProbeDecideQuiet ==
  /\ ppc = "decide"
  /\ ps' = [p \in Peers |-> Decided(ps[p], seen.hs[p], seen.ep[p])]
  /\ LET changed == \E p \in Peers : ps'[p] # ps[p] /\ ps[p].phase # "direct" IN
       /\ captured' = IF changed THEN nm ELSE NoNetmap
       /\ ppc' = IF changed THEN "compose" ELSE "idle"
  /\ UNCHANGED <<nm, applyMu, spc, incoming, seen, conf, deviceVars, latest, silent, failed,
                 netmaps, faults>>

\* Under a.mu: every probe, then the capture of a.nm.  A change is applied.
ProbeDecide ==
  /\ ppc = "decide"
  /\ ps' = [p \in Peers |-> Decided(ps[p], seen.hs[p], seen.ep[p])]
  /\ captured' = IF ps' # ps THEN nm ELSE NoNetmap
  /\ ppc' = IF ps' # ps THEN "compose" ELSE "idle"
  /\ UNCHANGED <<nm, applyMu, spc, incoming, seen, conf, deviceVars, latest, silent, failed,
                 netmaps, faults>>

ProbeCompose ==
  /\ ppc = "compose"
  /\ applyMu = "free"
  /\ applyMu' = "probe"
  /\ Reconcile(captured)
  /\ ppc' = "install"
  /\ UNCHANGED <<spc, incoming, seen, captured, deviceVars, latest, silent, failed, netmaps,
                 faults>>

ProbeInstall ==
  /\ ppc = "install"
  /\ Install \/ InstallError
  /\ applyMu' = "free"
  /\ ppc' = "idle"
  /\ captured' = NoNetmap
  /\ UNCHANGED <<nm, ps, spc, incoming, seen, conf, latest, silent, netmaps>>

-----------------------------------------------------------------------------
(***************************************************************************)
(* The world: packets and time.  Between reading the device and deciding,  *)
(* probeStep works with one value of now, so no tick falls there.          *)
(***************************************************************************)

\* Handshakes ignore AllowedIPs: either side may start one.
Handshake(p) ==
  /\ dev[p].present
  /\ alive[p]
  /\ hs' = [hs EXCEPT ![p] = 0]
  /\ ep' = [ep EXCEPT ![p] = TRUE]
  /\ silent' = [silent EXCEPT ![p] = 0]
  /\ UNCHANGED <<agentVars, dev, alive, latest, failed, netmaps, faults>>

PathChange(p) ==
  /\ faults < MaxFaults
  /\ faults' = faults + 1
  /\ alive' = [alive EXCEPT ![p] = ~@]
  /\ UNCHANGED <<agentVars, dev, hs, ep, latest, silent, failed, netmaps>>

Older(age, cap) == IF age < cap THEN age + 1 ELSE age

Tick ==
  /\ ppc # "decide"
  /\ hs' = [p \in Peers |-> Older(hs[p], Never)]
  /\ silent' = [p \in Peers |-> Older(silent[p], Never)]
  /\ ps' = [p \in Peers |-> [ps[p] EXCEPT !.att = Older(@, CandidateWindow + 1),
                                          !.retry = IF @ > 0 THEN @ - 1 ELSE 0]]
  /\ UNCHANGED <<nm, applyMu, spc, incoming, ppc, seen, captured, conf, dev, ep, alive, latest,
                 failed, netmaps, faults>>

-----------------------------------------------------------------------------
SyncStep == SyncCompose \/ SyncInstall
ProbeStep == ProbeRead \/ ProbeDecide \/ ProbeCompose \/ ProbeInstall

Next ==
  \/ \E m \in Netmap : Receive(m)
  \/ SyncStep
  \/ ProbeStep
  \/ \E p \in Peers : Handshake(p) \/ PathChange(p)
  \/ Tick

Spec == Init /\ [][Next]_vars

\* Time passes, the ticker keeps running probeStep, a mutex that is free again
\* and again is acquired.  Handshakes need not happen.
FairSpec ==
  /\ Spec
  /\ SF_vars(Tick)
  /\ WF_vars(ProbeRead \/ ProbeDecide \/ ProbeInstall)
  /\ WF_vars(SyncInstall)
  /\ SF_vars(SyncCompose)
  /\ SF_vars(ProbeCompose)

-----------------------------------------------------------------------------
(***************************************************************************)
(* Properties.                                                             *)
(***************************************************************************)

\* Without candidates there is neither a probe nor a direct path, whatever the
\* probe loop had read before the netmap that withdrew them.
NoCandidatesNoPath ==
  \A p \in Peers : ps[p].cands = <<>> => ps[p].phase \in {"none", "idle"}

Settled == applyMu = "free" /\ ppc \in {"idle", "decide"} /\ ~failed

\* The device follows the prober: once no apply is under way or owed, a peer has
\* its /32 exactly when its probe says direct, and then an endpoint to send to.
RoutesFollowProbes ==
  Settled =>
    \A p \in Peers :
      /\ dev[p].routed <=> ps[p].phase = "direct"
      /\ dev[p].routed => dev[p].present /\ dev[p].dial

\* A path that stays dead does not keep the traffic: it goes back to the hub,
\* even when the apply that should have moved it failed.
DeadPathRelayed == \A p \in Peers : <>[](~alive[p]) => <>[](~dev[p].routed)

\* A spoke that has candidates never stops trying.
KeepsHunting ==
  \A p \in Peers : <>[](ps[p].cands # <<>>) => []<>(ps[p].phase # "idle")

\* Withdrawn candidates keep a pair on the relay (the comments in syncProbes and
\* probeStep): the netmap the sync loop applied last decides.
\* It does not hold of the code (README, Known divergences).
WithdrawnIsRelayed ==
  \A p \in Peers :
    Settled /\ p \in latest.in /\ ValidCandidates(latest.cands[p]) = <<>> => ~dev[p].routed

\* A direct path is given up only after directStaleAfter without a handshake
\* (the comment on directStaleAfter), unless a netmap takes it away.
\* It does not hold of the code (README, Known divergences).
DemotedOnlyWhenSilent ==
  [][\A p \in Peers :
       ProbeDecide /\ ps[p].phase = "direct" /\ ps'[p].phase = "idle"
         => silent[p] > DirectStaleAfter]_vars
-----------------------------------------------------------------------------
(***************************************************************************)
(* The inductive invariant behind the safety properties.                   *)
(***************************************************************************)

\* Whoever is about to install holds applyMu.
InstallerHolds ==
  /\ applyMu = "sync" <=> spc = "install"
  /\ applyMu = "probe" <=> ppc = "install"

\* What the probes and the netmap of this moment make of the peers.
Current == [p \in Peers |-> Composed(ps[p], p, nm)]

\* The peer set about to be installed is that, unless the probe loop has decided
\* something since and is going to apply it.
ConfIsCurrent == applyMu # "free" /\ ppc # "compose" => conf = Current

DeviceIsCurrent == Settled => dev = Current

\* A direct path is one of a peer in the netmap, over an endpoint the device knew:
\* a device that remembers a handshake knows an endpoint.
DirectIsConfirmed ==
  \A p \in Peers :
    /\ p \notin nm.in => ps[p].phase = "none"
    /\ ps[p].phase = "direct" => ps[p].confirmed

HandshakesHaveEndpoints ==
  \A p \in Peers : /\ hs[p] < DirectStaleAfter => ep[p]
                   /\ seen.hs[p] < DirectStaleAfter => seen.ep[p]

IInv ==
  /\ TypeOK /\ InstallerHolds /\ ConfIsCurrent /\ DeviceIsCurrent
  /\ DirectIsConfirmed /\ HandshakesHaveEndpoints /\ NoCandidatesNoPath
=============================================================================
