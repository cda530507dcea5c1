----------------------------- MODULE NetmapSync -----------------------------
(***************************************************************************)
(* Distribution of the netmap: the coordinator's mutating handlers, its    *)
(* long-poll handler, and the sync and probe loops of the agents.          *)
(*                                                                         *)
(* The coordinator keeps its tables in SQLite on one connection, so every  *)
(* store call is one atomic step, but a handler makes several calls and    *)
(* handlers run concurrently.  A mutating handler commits its row, then    *)
(* increments the netmap version, then closes the wake channel.  The       *)
(* long-poll handler reads its node row, captures the wake channel, reads  *)
(* the version, and either reads the tables one by one or parks.           *)
(*                                                                         *)
(* The content of a table is abstracted to a revision number, the number   *)
(* of commits to it; a netmap is the version it was stamped with, the      *)
(* revision of each table it was built from and the revision of the        *)
(* requesting node's own row from which its filter rules were compiled.    *)
(***************************************************************************)
EXTENDS Naturals, Sequences

CONSTANTS
  Nodes,           \* enrolled nodes, each running one agent
  Writers,         \* coordinator goroutines running mutating handlers
  NTables,         \* tables buildNetmapFor reads, numbered in reading order
  Cascaded,        \* tables whose rows go with a node row (ON DELETE CASCADE)
  MaxWrites,       \* bound: commits by mutating handlers
  MaxDisturbances  \* bound: crashes, errors, lost replies and probe re-applies

Table == 1..NTables

\* The table of nodes is the first one buildNetmapFor reads.
NodesTable == 1

ASSUME ConstantsAssumption ==
  /\ NTables \in Nat \ {0}
  /\ Cascaded \subseteq Table
  /\ MaxWrites \in Nat
  /\ MaxDisturbances \in Nat

VARIABLES
  (* the store, persistent *)
  version,      \* meta.netmap_version
  tbl,          \* tbl[t]: revision of table t
  row,          \* row[n]: revision of the nodes table that last changed n's row
  approved,     \* nodes.approved
  registered,   \* whether n's row still exists
  (* the coordinator process, volatile *)
  wakeCh,       \* identity of the open wake channel; smaller ones are closed
  wpc,          \* program counter of each mutating handler
  (* the long-poll of each node *)
  ppc,          \* program counter of handleNetmap, then of the reply
  since,        \* the ?since= of the request
  node,         \* the handler's copy of the node row: [rev, approved]
  wake,         \* the channel the handler captured
  hver,         \* the version the handler read
  nread,        \* tables read so far by buildNetmapFor
  built,        \* built[n][t]: revision of table t read for the reply
  (* the agents *)
  nm,           \* st.Netmap: the netmap applied and remembered
  live,         \* a.nm: the netmap the probe loop captures
  disk,         \* the netmap in the state file
  probeNm,      \* the netmap probeStep captured and has yet to apply
  (* history and bounds *)
  log,          \* log[v]: the tables when the version became v
  orphaned,     \* a handler died between its commit and its bump since then
  writes,       \* commits so far
  disturbances  \* crashes, errors, lost replies and probe re-applies so far

storeVars == <<version, tbl, row, approved, registered>>
pollVars == <<ppc, since, node, wake, hver, nread, built>>
agentVars == <<nm, live, disk, probeNm>>
ghostVars == <<log, orphaned>>
vars == <<storeVars, wakeCh, wpc, pollVars, agentVars, ghostVars,
          writes, disturbances>>

(***************************************************************************)
(* A netmap; the nil netmap of a fresh agent has version 0, which no       *)
(* coordinator ever stamps.                                                *)
(***************************************************************************)
Revisions == [Table -> Nat]
Netmap == [version : Nat, content : Revisions, self : Nat]
NoContent == [t \in Table |-> 0]
NoNetmap == [version |-> 0, content |-> NoContent, self |-> 0]
NoRow == [rev |-> 0, approved |-> FALSE]

WriterPC == {"idle", "bump", "notify"}
PollPC == {"idle", "auth", "loop", "version", "parkedUnapproved", "refetch",
           "parked", "build", "reply", "got"}

StoreTypeOK ==
  /\ version \in Nat \ {0}
  /\ tbl \in Revisions
  /\ row \in [Nodes -> Nat]
  /\ approved \in [Nodes -> BOOLEAN]
  /\ registered \in [Nodes -> BOOLEAN]

PollTypeOK ==
  /\ ppc \in [Nodes -> PollPC]
  /\ since \in [Nodes -> Nat]
  /\ node \in [Nodes -> [rev : Nat, approved : BOOLEAN]]
  /\ wake \in [Nodes -> Nat]
  /\ hver \in [Nodes -> Nat]
  /\ nread \in [Nodes -> 0..NTables]
  /\ \A n \in Nodes : ppc[n] = "build" => nread[n] < NTables
  /\ built \in [Nodes -> Revisions]

AgentTypeOK ==
  /\ nm \in [Nodes -> Netmap]
  /\ live \in [Nodes -> Netmap]
  /\ disk \in [Nodes -> Netmap]
  /\ probeNm \in [Nodes -> Netmap]

\* The type invariant: the store, the coordinator's memory, the long-polls (a
\* handler that is still building has a table left to read), the agents.
TypeOK ==
  /\ StoreTypeOK
  /\ wakeCh \in Nat
  /\ wpc \in [Writers -> WriterPC]
  /\ PollTypeOK
  /\ AgentTypeOK
  /\ log \in Seq(Revisions)
  /\ Len(log) = version
  /\ orphaned \in BOOLEAN
  /\ writes \in Nat
  /\ disturbances \in Nat

(* Nodes are enrolled, some still unapproved; nobody has polled yet.       *)
Init ==
  /\ version = 1
  /\ tbl = NoContent
  /\ row = [n \in Nodes |-> 0]
  /\ approved \in [Nodes -> BOOLEAN]
  /\ registered = [n \in Nodes |-> TRUE]
  /\ wakeCh = 0
  /\ wpc = [w \in Writers |-> "idle"]
  /\ ppc = [n \in Nodes |-> "idle"]
  /\ since = [n \in Nodes |-> 0]
  /\ node = [n \in Nodes |-> NoRow]
  /\ wake = [n \in Nodes |-> 0]
  /\ hver = [n \in Nodes |-> 0]
  /\ nread = [n \in Nodes |-> 0]
  /\ built = [n \in Nodes |-> NoContent]
  /\ nm = [n \in Nodes |-> NoNetmap]
  /\ live = [n \in Nodes |-> NoNetmap]
  /\ disk = [n \in Nodes |-> NoNetmap]
  /\ probeNm = [n \in Nodes |-> NoNetmap]
  /\ log = <<NoContent>>
  /\ orphaned = FALSE
  /\ writes = 0
  /\ disturbances = 0

Disturb ==
  /\ disturbances < MaxDisturbances
  /\ disturbances' = disturbances + 1

-----------------------------------------------------------------------------
(***************************************************************************)
(* Mutating handlers: the commit, then bumpNetmap's two steps.             *)
(***************************************************************************)

\* One SQL statement changes the tables T; the handler now owes a bump.
Commit(w, T) ==
  /\ wpc[w] = "idle"
  /\ writes < MaxWrites
  /\ writes' = writes + 1
  /\ tbl' = [t \in Table |-> IF t \in T THEN tbl[t] + 1 ELSE tbl[t]]
  /\ wpc' = [wpc EXCEPT ![w] = "bump"]
  /\ UNCHANGED <<version, wakeCh, pollVars, agentVars, ghostVars, disturbances>>

\* handleNodeTags, handleNodeRoutes, handleRekey: fields of n's own row.
WriteRow(w, n) ==
  /\ registered[n]
  /\ Commit(w, {NodesTable})
  /\ row' = [row EXCEPT ![n] = tbl[NodesTable] + 1]
  /\ UNCHANGED <<approved, registered>>

\* handleNodeApprove returns early for a node that is approved already.
Approve(w, n) ==
  /\ registered[n]
  /\ ~approved[n]
  /\ Commit(w, {NodesTable})
  /\ row' = [row EXCEPT ![n] = tbl[NodesTable] + 1]
  /\ approved' = [approved EXCEPT ![n] = TRUE]
  /\ UNCHANGED registered

\* handleNodeDelete: the row and the rows that cascade with it.
Delete(w, n) ==
  /\ registered[n]
  /\ Commit(w, {NodesTable} \union Cascaded)
  /\ registered' = [registered EXCEPT ![n] = FALSE]
  /\ UNCHANGED <<row, approved>>

\* Policies, publishes, static peers, endpoints, the lock: no row of a poller.
WriteTable(w, t) ==
  /\ Commit(w, {t})
  /\ UNCHANGED <<row, approved, registered>>

\* store.BumpNetmapVersion
BumpVersion(w) ==
  /\ wpc[w] = "bump"
  /\ version' = version + 1
  /\ log' = Append(log, tbl)
  /\ orphaned' = FALSE
  /\ wpc' = [wpc EXCEPT ![w] = "notify"]
  /\ UNCHANGED <<tbl, row, approved, registered, wakeCh, pollVars, agentVars,
                 writes, disturbances>>

\* Seeded fault: the wake-up is skipped (a return between the two steps).
NotifySkipped(w) ==
  /\ wpc[w] = "notify"
  /\ wpc' = [wpc EXCEPT ![w] = "idle"]
  /\ UNCHANGED <<storeVars, wakeCh, pollVars, agentVars, ghostVars, writes, disturbances>>

\* notifyNetmapChanged closes the channel and replaces it under s.mu.
Notify(w) ==
  /\ wpc[w] = "notify"
  /\ wakeCh' = wakeCh + 1
  /\ wpc' = [wpc EXCEPT ![w] = "idle"]
  /\ UNCHANGED <<storeVars, pollVars, agentVars, ghostVars, writes, disturbances>>

\* BumpNetmapVersion fails: the handler answers 500, its row stays committed.
BumpError(w) ==
  /\ wpc[w] = "bump"
  /\ Disturb
  /\ wpc' = [wpc EXCEPT ![w] = "idle"]
  /\ orphaned' = TRUE
  /\ UNCHANGED <<storeVars, wakeCh, pollVars, agentVars, log, writes>>

-----------------------------------------------------------------------------
(***************************************************************************)
(* The long-poll: the agent's request, withNode, handleNetmap.             *)
(***************************************************************************)

\* The request is over: the handler's locals are gone with it.
Return(n) ==
  /\ ppc' = [ppc EXCEPT ![n] = "idle"]
  /\ since' = [since EXCEPT ![n] = 0]
  /\ node' = [node EXCEPT ![n] = NoRow]
  /\ wake' = [wake EXCEPT ![n] = 0]
  /\ hver' = [hver EXCEPT ![n] = 0]
  /\ nread' = [nread EXCEPT ![n] = 0]
  /\ built' = [built EXCEPT ![n] = NoContent]

\* Seeded fault: since is the version the agent wants next, not the one it has.
RequestNext(n) ==
  /\ ppc[n] = "idle"
  /\ ppc' = [ppc EXCEPT ![n] = "auth"]
  /\ since' = [since EXCEPT ![n] = nm[n].version + 1]
  /\ UNCHANGED <<storeVars, wakeCh, wpc, node, wake, hver, nread, built,
                 agentVars, ghostVars, writes, disturbances>>

\* syncLoop: since is the version of st.Netmap at the time of the request.
Request(n) ==
  /\ ppc[n] = "idle"
  /\ ppc' = [ppc EXCEPT ![n] = "auth"]
  /\ since' = [since EXCEPT ![n] = nm[n].version]
  /\ UNCHANGED <<storeVars, wakeCh, wpc, node, wake, hver, nread, built,
                 agentVars, ghostVars, writes, disturbances>>

\* withNode: the row as it is now, or 401 for a node that was deleted.
Authenticate(n) ==
  /\ ppc[n] = "auth"
  /\ IF registered[n]
       THEN /\ node' = [node EXCEPT ![n] =
                          [rev |-> row[n], approved |-> approved[n]]]
            /\ ppc' = [ppc EXCEPT ![n] = "loop"]
            /\ UNCHANGED <<since, wake, hver, nread, built>>
       ELSE Return(n)
  /\ UNCHANGED <<storeVars, wakeCh, wpc, agentVars, ghostVars, writes,
                 disturbances>>

\* Top of the loop: capture the channel, then branch on the handler's row.
CaptureWake(n) ==
  /\ ppc[n] = "loop"
  /\ wake' = [wake EXCEPT ![n] = wakeCh]
  /\ ppc' = [ppc EXCEPT ![n] = IF node[n].approved THEN "version"
                                                   ELSE "parkedUnapproved"]
  /\ UNCHANGED <<storeVars, wakeCh, wpc, since, node, hver, nread, built,
                 agentVars, ghostVars, writes, disturbances>>

\* NetmapVersion, and the comparison with since that decides to reply or park.
ReadVersion(n) ==
  /\ ppc[n] = "version"
  /\ hver' = [hver EXCEPT ![n] = version]
  /\ nread' = [nread EXCEPT ![n] = 0]
  /\ ppc' = [ppc EXCEPT ![n] = IF version > since[n] THEN "build" ELSE "parked"]
  /\ UNCHANGED <<storeVars, wakeCh, wpc, since, node, wake, built,
                 agentVars, ghostVars, writes, disturbances>>

\* The select wakes when the captured channel is closed.
Woken(n) ==
  /\ wake[n] < wakeCh
  /\ \/ ppc[n] = "parked" /\ ppc' = [ppc EXCEPT ![n] = "loop"]
     \/ ppc[n] = "parkedUnapproved" /\ ppc' = [ppc EXCEPT ![n] = "refetch"]
  /\ UNCHANGED <<storeVars, wakeCh, wpc, since, node, wake, hver, nread, built,
                 agentVars, ghostVars, writes, disturbances>>

\* NodeByID after a wake-up; an error keeps the old copy.
Refetch(n) ==
  /\ ppc[n] = "refetch"
  /\ node' = IF registered[n]
               THEN [node EXCEPT ![n] = [rev |-> row[n], approved |-> approved[n]]]
               ELSE node
  /\ ppc' = [ppc EXCEPT ![n] = "loop"]
  /\ UNCHANGED <<storeVars, wakeCh, wpc, since, wake, hver, nread, built,
                 agentVars, ghostVars, writes, disturbances>>

\* Seeded fault: the reading loop runs once too often.
ReadTableOneMore(n) ==
  /\ ppc[n] = "build"
  /\ nread' = [nread EXCEPT ![n] = nread[n] + 1]
  /\ built' = [built EXCEPT ![n][nread[n] + 1] = tbl[nread[n] + 1]]
  /\ ppc' = [ppc EXCEPT ![n] = IF nread[n] + 1 > NTables THEN "reply" ELSE "build"]
  /\ UNCHANGED <<storeVars, wakeCh, wpc, since, node, wake, hver,
                 agentVars, ghostVars, writes, disturbances>>

\* buildNetmapFor reads the next table.
ReadTable(n) ==
  /\ ppc[n] = "build"
  /\ nread' = [nread EXCEPT ![n] = nread[n] + 1]
  /\ built' = [built EXCEPT ![n][nread[n] + 1] = tbl[nread[n] + 1]]
  /\ ppc' = [ppc EXCEPT ![n] = IF nread[n] + 1 = NTables THEN "reply" ELSE "build"]
  /\ UNCHANGED <<storeVars, wakeCh, wpc, since, node, wake, hver,
                 agentVars, ghostVars, writes, disturbances>>

\* writeJSON reaches the agent.
Deliver(n) ==
  /\ ppc[n] = "reply"
  /\ ppc' = [ppc EXCEPT ![n] = "got"]
  /\ UNCHANGED <<storeVars, wakeCh, wpc, since, node, wake, hver, nread, built,
                 agentVars, ghostVars, writes, disturbances>>

\* The 55 s deadline of a parked handler: 304, and the agent polls again.
PollDeadline(n) ==
  /\ ppc[n] \in {"parked", "parkedUnapproved"}
  /\ Return(n)
  /\ UNCHANGED <<storeVars, wakeCh, wpc, agentVars, ghostVars, writes,
                 disturbances>>

\* A store error (500), a lost request or reply, or a client that went away.
PollError(n) ==
  /\ ppc[n] \notin {"idle", "got"}
  /\ Disturb
  /\ Return(n)
  /\ UNCHANGED <<storeVars, wakeCh, wpc, agentVars, ghostVars, writes>>

-----------------------------------------------------------------------------
(***************************************************************************)
(* The agent.  applyMu serializes applyNetmap, so an apply is one step.    *)
(***************************************************************************)

\* Seeded fault: the netmap is stamped with the version of the moment it is sent.
ReceivedStampedLate(n) == [version |-> version, content |-> built[n], self |-> node[n].rev]

\* The netmap a reply carries: the version read before the tables.
Received(n) == [version |-> hver[n], content |-> built[n], self |-> node[n].rev]

\* syncLoop applies the reply; the state file follows unless Save fails.
ApplyReply(n) ==
  /\ ppc[n] = "got"
  /\ Return(n)
  /\ nm' = [nm EXCEPT ![n] = Received(n)]
  /\ live' = [live EXCEPT ![n] = Received(n)]
  /\ \/ disk' = [disk EXCEPT ![n] = Received(n)] /\ UNCHANGED disturbances
     \/ UNCHANGED disk /\ Disturb
  /\ UNCHANGED <<storeVars, wakeCh, wpc, probeNm, ghostVars, writes>>

\* applyNetmap fails: in enforceLock before a.nm is set, or on the device after.
ApplyError(n) ==
  /\ ppc[n] = "got"
  /\ Disturb
  /\ Return(n)
  /\ \/ live' = [live EXCEPT ![n] = Received(n)]
     \/ UNCHANGED live
  /\ UNCHANGED <<storeVars, wakeCh, wpc, nm, disk, probeNm, ghostVars, writes>>

\* probeStep changed a phase: it copies a.nm under a.mu and lets go of a.mu ...
ProbeCapture(n) ==
  /\ probeNm[n] = NoNetmap
  /\ live[n] # NoNetmap
  /\ Disturb
  /\ probeNm' = [probeNm EXCEPT ![n] = live[n]]
  /\ UNCHANGED <<storeVars, wakeCh, wpc, pollVars, nm, live, disk, ghostVars, writes>>

\* Seeded fault: the copy is applied under the version the agent has by then.
ProbeApplyRestamped(n) ==
  /\ probeNm[n] # NoNetmap
  /\ LET m == [probeNm[n] EXCEPT !.version = nm[n].version] IN
       /\ nm' = [nm EXCEPT ![n] = m]
       /\ live' = [live EXCEPT ![n] = m]
       /\ disk' = [disk EXCEPT ![n] = m]
  /\ probeNm' = [probeNm EXCEPT ![n] = NoNetmap]
  /\ UNCHANGED <<storeVars, wakeCh, wpc, pollVars, ghostVars, writes, disturbances>>

\* ... and applies the copy later, whatever was applied in between.  A failure is
\* logged and the copy dropped: in enforceLock, or on the device when a.nm is set.
ProbeApply(n) ==
  /\ probeNm[n] # NoNetmap
  /\ probeNm' = [probeNm EXCEPT ![n] = NoNetmap]
  /\ \/ /\ nm' = [nm EXCEPT ![n] = probeNm[n]]
        /\ live' = [live EXCEPT ![n] = probeNm[n]]
        /\ \/ /\ disk' = [disk EXCEPT ![n] = IF nm[n] = probeNm[n] THEN @ ELSE probeNm[n]]
              /\ UNCHANGED disturbances
           \/ UNCHANGED disk /\ Disturb
     \/ /\ Disturb
        /\ \/ live' = [live EXCEPT ![n] = probeNm[n]]
           \/ UNCHANGED live
        /\ UNCHANGED <<nm, disk>>
  /\ UNCHANGED <<storeVars, wakeCh, wpc, pollVars, ghostVars, writes>>

\* The agent process dies and Run applies the cached netmap.
AgentRestart(n) ==
  /\ Disturb
  /\ Return(n)
  /\ nm' = [nm EXCEPT ![n] = disk[n]]
  /\ live' = [live EXCEPT ![n] = disk[n]]
  /\ probeNm' = [probeNm EXCEPT ![n] = NoNetmap]
  /\ UNCHANGED <<storeVars, wakeCh, wpc, disk, ghostVars, writes>>

\* The coordinator dies and starts again: every handler is gone, a reply that
\* left it may still be with the agent, the database is as it was.
CoordinatorRestart ==
  /\ Disturb
  /\ wpc' = [w \in Writers |-> "idle"]
  /\ orphaned' = (orphaned \/ \E w \in Writers : wpc[w] = "bump")
  /\ ppc' = [n \in Nodes |-> IF ppc[n] = "got" THEN "got" ELSE "idle"]
  /\ wakeCh' = 0
  /\ wake' = [n \in Nodes |-> 0]
  /\ UNCHANGED <<storeVars, since, node, hver, nread, built, agentVars,
                 log, writes>>

-----------------------------------------------------------------------------
WriterStep(w) ==
  \/ \E n \in Nodes : WriteRow(w, n) \/ Approve(w, n) \/ Delete(w, n)
  \/ \E t \in Table : WriteTable(w, t)
  \/ BumpVersion(w)
  \/ Notify(w)
  \/ BumpError(w)

PollStep(n) ==
  \/ Request(n)
  \/ Authenticate(n)
  \/ CaptureWake(n)
  \/ ReadVersion(n)
  \/ Woken(n)
  \/ Refetch(n)
  \/ ReadTable(n)
  \/ Deliver(n)
  \/ PollDeadline(n)
  \/ PollError(n)

AgentStep(n) ==
  \/ ApplyReply(n)
  \/ ApplyError(n)
  \/ ProbeCapture(n)
  \/ ProbeApply(n)
  \/ AgentRestart(n)

Next ==
  \/ \E w \in Writers : WriterStep(w)
  \/ \E n \in Nodes : PollStep(n) \/ AgentStep(n)
  \/ CoordinatorRestart

Spec == Init /\ [][Next]_vars

(***************************************************************************)
(* Goroutines that can run do run: a handler finishes its bump, a poll     *)
(* advances, an agent that holds a netmap applies it, and the deadline of  *)
(* a parked poll fires.  Nothing makes an admin write or a fault happen.   *)
(***************************************************************************)
Fairness ==
  /\ \A w \in Writers : WF_vars(BumpVersion(w)) /\ WF_vars(Notify(w))
  /\ \A n \in Nodes :
       /\ WF_vars(Request(n))
       /\ WF_vars(Authenticate(n))
       /\ WF_vars(CaptureWake(n))
       /\ WF_vars(ReadVersion(n))
       /\ WF_vars(Woken(n) \/ PollDeadline(n))
       /\ WF_vars(Refetch(n))
       /\ WF_vars(ReadTable(n))
       /\ WF_vars(Deliver(n))
       /\ WF_vars(ApplyReply(n))
       /\ WF_vars(ProbeApply(n))

FairSpec == Spec /\ Fairness

-----------------------------------------------------------------------------
(***************************************************************************)
(* Properties.                                                             *)
(***************************************************************************)

\* Some handler has committed a row and is still to announce it.
BumpOwed == \E w \in Writers : wpc[w] = "bump"

NotifyOwed == \E w \in Writers : wpc[w] = "notify"

\* An applied netmap that lacks a committed change can be told apart by its
\* version: the coordinator's is greater, or a handler is still to make it so,
\* or a handler died before it could (which the next bump repairs).  This is
\* what reading the version before the tables, and bumping after the commit,
\* buys; it covers the tables a netmap is assembled from one at a time.
StaleNetmapIsOutdated ==
  \A n \in Nodes, t \in Table :
    nm[n].content[t] < tbl[t]
      => nm[n].version < version \/ BumpOwed \/ orphaned

\* No lost wake-up: a poll that waits on the open channel has nothing new to
\* fetch, unless the goroutine that changed that is about to close the channel.
NoLostWakeup ==
  \A n \in Nodes :
    ppc[n] = "parked" /\ wake[n] = wakeCh => version <= since[n] \/ NotifyOwed

\* The same promise for a node that waits for approval (the comment in
\* handleNetmap: waiting on the wake channel picks the approval up at once).
\* It does not hold of the code (README, Known divergences).
ApprovalWakesPoll ==
  \A n \in Nodes :
    ppc[n] = "parkedUnapproved" /\ wake[n] = wakeCh /\ registered[n]
      => ~approved[n] \/ BumpOwed \/ NotifyOwed \/ orphaned

\* The rules a node enforces for itself are compiled from its row in the store:
\* a netmap with an older copy of the row is outdated like any other.
\* It does not hold of the code (README, Known divergences).
SelfRulesAreCurrent ==
  \A n \in Nodes :
    registered[n] /\ nm[n].self < row[n]
      => nm[n].version < version \/ BumpOwed \/ orphaned

\* No apply replaces the applied netmap by an older one (an agent that starts
\* again has only its state file, so a restart is not an apply).
\* It does not hold of the code (README, Known divergences).
ApplyNeverGoesBack ==
  [][\A n \in Nodes : nm'[n].version < nm[n].version => AgentRestart(n)]_vars

\* Once the writes and the faults are over, every approved node comes to hold
\* the last announced version with all that was committed, and keeps it.  Only
\* a commit whose handler died before its bump may still be missing from it.
Converges ==
  <>[](\A n \in Nodes :
         registered[n] /\ approved[n]
           => /\ nm[n].version = version
              /\ nm[n].content = tbl \/ orphaned)

-----------------------------------------------------------------------------
(***************************************************************************)
(* The abstract specification, and the inductive invariant.                *)
(***************************************************************************)

Promise == INSTANCE NetmapPromise WITH tables <- tbl, held <- nm

\* However commits, bumps, reads of single tables, late applies, probe
\* re-applies, failed saves and restarts of either side interleave, the netmap
\* an agent acts on contains everything announced up to its version and nothing
\* that was never committed; handlers and polls that die half way show nothing
\* in between.  It is what the version of a netmap means to its reader.
KeepsPromise == Promise!Spec

\* What the last bump announced has been committed; anything committed since
\* is owed a bump.
CommitsAnnounced ==
  \A t \in Table :
    /\ \A v \in 1..version : log[v][t] <= tbl[t]
    /\ log[version][t] < tbl[t] => BumpOwed \/ orphaned

Sound(m) == Promise!Faithful(m)

AgentsSound ==
  \A n \in Nodes : Sound(nm[n]) /\ Sound(live[n]) /\ Sound(disk[n]) /\ Sound(probeNm[n])

\* The same for the netmap a handler is assembling, table by table.
PollSound(n) ==
  /\ hver[n] <= version
  /\ ppc[n] \in {"reply", "got"} => nread[n] = NTables
  /\ ppc[n] \in {"build", "reply", "got"}
       => \A t \in 1..nread[n] :
            Promise!Announced(hver[n])[t] <= built[n][t] /\ built[n][t] <= tbl[t]

PollsSound == \A n \in Nodes : PollSound(n)

\* A captured channel is the open one or an older one.
WakesKnown == \A n \in Nodes : wake[n] <= wakeCh

IInv ==
  /\ TypeOK
  /\ CommitsAnnounced
  /\ AgentsSound
  /\ PollsSound
  /\ WakesKnown
  /\ NoLostWakeup
=============================================================================
