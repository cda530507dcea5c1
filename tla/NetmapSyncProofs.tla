-------------------------- MODULE NetmapSyncProofs --------------------------
(***************************************************************************)
(* Proofs about NetmapSync: its type invariant, that it implements         *)
(* NetmapPromise, that an applied netmap which lacks a commit is outdated, *)
(* and that no wake-up of an approved poll is lost, for any number of      *)
(* nodes, handlers and tables and any number of writes and faults.         *)
(***************************************************************************)
EXTENDS NetmapSync, TLAPS

USE ConstantsAssumption

-----------------------------------------------------------------------------
(* Types.                                                                  *)

\* The end of a request (Return) leaves the long-poll state well typed.
LEMMA ReturnType ==
  ASSUME PollTypeOK, NEW n \in Nodes, Return(n)
  PROVE  PollTypeOK'
<1>1. NoRow \in [rev : Nat, approved : BOOLEAN] /\ NoContent \in Revisions
  BY DEF NoRow, NoContent, Revisions
<1>2. "idle" \in PollPC
  BY DEF PollPC
<1>3. \A m \in Nodes : ppc'[m] = "build" => nread'[m] < NTables
  BY DEF Return, PollTypeOK
<1> QED
  BY <1>1, <1>2, <1>3 DEF Return, PollTypeOK

\* A commit to any tables (Commit) keeps the revisions and counters well typed.
LEMMA CommitType ==
  ASSUME TypeOK, NEW w \in Writers, NEW T, Commit(w, T)
  PROVE  /\ tbl' \in Revisions
         /\ tbl[NodesTable] \in Nat
         /\ wpc' \in [Writers -> WriterPC]
         /\ writes' \in Nat
BY DEF Commit, TypeOK, StoreTypeOK, Revisions, Table, NodesTable, WriterPC

\* What ApplyReply installs is a netmap.
LEMMA ReceivedType ==
  ASSUME TypeOK, NEW n \in Nodes
  PROVE  Received(n) \in Netmap
BY DEF Received, Netmap, TypeOK, PollTypeOK

\* The value of a fresh agent is a netmap.
LEMMA NoNetmapType == NoNetmap \in Netmap
BY DEF NoNetmap, Netmap, NoContent, Revisions

\* Every action keeps every variable of NetmapSync within its type.
LEMMA TypeStep == TypeOK /\ [Next]_vars => TypeOK'
<1> SUFFICES ASSUME TypeOK, [Next]_vars
             PROVE  TypeOK'
  OBVIOUS
<1> USE DEF TypeOK, storeVars, pollVars, agentVars, ghostVars
<1>1. ASSUME NEW w \in Writers, NEW n \in Nodes, WriteRow(w, n)
      PROVE  TypeOK'
  <2>1. /\ tbl' \in Revisions
        /\ tbl[NodesTable] \in Nat
        /\ wpc' \in [Writers -> WriterPC]
        /\ writes' \in Nat
    BY <1>1, CommitType DEF WriteRow
  <2>2. StoreTypeOK'
    BY <1>1, <2>1 DEF WriteRow, Commit, StoreTypeOK
  <2> QED
    BY <1>1, <2>1, <2>2 DEF WriteRow, Commit, PollTypeOK, AgentTypeOK
<1>2. ASSUME NEW w \in Writers, NEW n \in Nodes, Approve(w, n)
      PROVE  TypeOK'
  <2>1. /\ tbl' \in Revisions
        /\ tbl[NodesTable] \in Nat
        /\ wpc' \in [Writers -> WriterPC]
        /\ writes' \in Nat
    BY <1>2, CommitType DEF Approve
  <2>2. StoreTypeOK'
    BY <1>2, <2>1 DEF Approve, Commit, StoreTypeOK
  <2> QED
    BY <1>2, <2>1, <2>2 DEF Approve, Commit, PollTypeOK, AgentTypeOK
<1>3. ASSUME NEW w \in Writers, NEW n \in Nodes, Delete(w, n)
      PROVE  TypeOK'
  BY <1>3, CommitType DEF Delete, Commit, StoreTypeOK, PollTypeOK, AgentTypeOK
<1>4. ASSUME NEW w \in Writers, NEW t \in Table, WriteTable(w, t)
      PROVE  TypeOK'
  BY <1>4, CommitType DEF WriteTable, Commit, StoreTypeOK, PollTypeOK, AgentTypeOK
<1>5. ASSUME NEW w \in Writers, BumpVersion(w)
      PROVE  TypeOK'
  <2>1. version' \in Nat \ {0}
    BY <1>5 DEF BumpVersion, StoreTypeOK
  <2>2. log' \in Seq(Revisions) /\ Len(log') = version'
    BY <1>5 DEF BumpVersion, StoreTypeOK
  <2> QED
    BY <1>5, <2>1, <2>2 DEF BumpVersion, WriterPC, StoreTypeOK, PollTypeOK, AgentTypeOK
<1>6. ASSUME NEW w \in Writers, Notify(w)
      PROVE  TypeOK'
  BY <1>6 DEF Notify, WriterPC, StoreTypeOK, PollTypeOK, AgentTypeOK
<1>7. ASSUME NEW w \in Writers, BumpError(w)
      PROVE  TypeOK'
  BY <1>7 DEF BumpError, Disturb, WriterPC, StoreTypeOK, PollTypeOK, AgentTypeOK
<1>8. ASSUME NEW n \in Nodes, Request(n)
      PROVE  TypeOK'
  <2>1. PollTypeOK'
    BY <1>8 DEF Request, PollTypeOK, PollPC, AgentTypeOK, Netmap
  <2> QED
    BY <1>8, <2>1 DEF Request, StoreTypeOK, AgentTypeOK
<1>9. ASSUME NEW n \in Nodes, Authenticate(n)
      PROVE  TypeOK'
  <2>1. PollTypeOK'
    <3>1. CASE registered[n]
      <4> node' \in [Nodes -> [rev : Nat, approved : BOOLEAN]]
        <5>1. [rev |-> row[n], approved |-> approved[n]] \in [rev : Nat, approved : BOOLEAN]
          BY DEF StoreTypeOK
        <5>2. node' = [node EXCEPT ![n] = [rev |-> row[n], approved |-> approved[n]]]
          BY <1>9, <3>1 DEF Authenticate
        <5> QED
          BY <5>1, <5>2 DEF PollTypeOK
      <4> QED
        BY <1>9, <3>1 DEF Authenticate, PollTypeOK, PollPC
    <3>2. CASE ~registered[n]
      BY <1>9, <3>2, ReturnType DEF Authenticate
    <3> QED
      BY <3>1, <3>2
  <2> QED
    BY <1>9, <2>1 DEF Authenticate, StoreTypeOK, AgentTypeOK
<1>10. ASSUME NEW n \in Nodes, CaptureWake(n)
      PROVE  TypeOK'
  <2>1. PollTypeOK'
    BY <1>10 DEF CaptureWake, PollTypeOK, PollPC
  <2> QED
    BY <1>10, <2>1 DEF CaptureWake, StoreTypeOK, AgentTypeOK
<1>11. ASSUME NEW n \in Nodes, ReadVersion(n)
      PROVE  TypeOK'
  <2>1. PollTypeOK'
    BY <1>11 DEF ReadVersion, PollTypeOK, PollPC, StoreTypeOK
  <2> QED
    BY <1>11, <2>1 DEF ReadVersion, StoreTypeOK, AgentTypeOK
<1>12. ASSUME NEW n \in Nodes, Woken(n)
      PROVE  TypeOK'
  <2>1. PollTypeOK'
    BY <1>12 DEF Woken, PollTypeOK, PollPC
  <2> QED
    BY <1>12, <2>1 DEF Woken, StoreTypeOK, AgentTypeOK
<1>13. ASSUME NEW n \in Nodes, Refetch(n)
      PROVE  TypeOK'
  <2>1. PollTypeOK'
    BY <1>13 DEF Refetch, PollTypeOK, PollPC, StoreTypeOK
  <2> QED
    BY <1>13, <2>1 DEF Refetch, StoreTypeOK, AgentTypeOK
<1>14. ASSUME NEW n \in Nodes, ReadTable(n)
      PROVE  TypeOK'
  <2>1. PollTypeOK'
    <3>1. nread[n] + 1 \in Table
      BY <1>14 DEF ReadTable, Table, PollTypeOK
    <3>2. built' \in [Nodes -> Revisions]
      BY <1>14, <3>1 DEF ReadTable, Revisions, PollTypeOK, StoreTypeOK
    <3>3. nread' \in [Nodes -> 0..NTables] /\ ppc' \in [Nodes -> PollPC]
      BY <1>14, <3>1 DEF ReadTable, PollPC, Table, PollTypeOK
    <3>4. \A m \in Nodes : ppc'[m] = "build" => nread'[m] < NTables
      BY <1>14, <3>1, <3>3, SMTT(30) DEF ReadTable, Table, PollTypeOK
    <3> QED
      BY <1>14, <3>2, <3>3, <3>4 DEF ReadTable, PollTypeOK
  <2> QED
    BY <1>14, <2>1 DEF ReadTable, StoreTypeOK, AgentTypeOK
<1>15. ASSUME NEW n \in Nodes, Deliver(n)
      PROVE  TypeOK'
  <2>1. PollTypeOK'
    BY <1>15 DEF Deliver, PollTypeOK, PollPC
  <2> QED
    BY <1>15, <2>1 DEF Deliver, StoreTypeOK, AgentTypeOK
<1>16. ASSUME NEW n \in Nodes, PollDeadline(n)
      PROVE  TypeOK'
  BY <1>16, ReturnType DEF PollDeadline, StoreTypeOK, AgentTypeOK
<1>17. ASSUME NEW n \in Nodes, PollError(n)
      PROVE  TypeOK'
  BY <1>17, ReturnType DEF PollError, Disturb, StoreTypeOK, AgentTypeOK
<1>18. ASSUME NEW n \in Nodes, ApplyReply(n)
      PROVE  TypeOK'
  <2>1. AgentTypeOK'
    BY <1>18, ReceivedType DEF ApplyReply, AgentTypeOK
  <2>2. PollTypeOK'
    BY <1>18, ReturnType DEF ApplyReply
  <2> QED
    BY <1>18, <2>1, <2>2 DEF ApplyReply, Disturb, StoreTypeOK
<1>19. ASSUME NEW n \in Nodes, ApplyError(n)
      PROVE  TypeOK'
  <2>1. AgentTypeOK'
    BY <1>19, ReceivedType DEF ApplyError, AgentTypeOK
  <2>2. PollTypeOK'
    BY <1>19, ReturnType DEF ApplyError
  <2> QED
    BY <1>19, <2>1, <2>2 DEF ApplyError, Disturb, StoreTypeOK
<1>20. ASSUME NEW n \in Nodes, ProbeCapture(n)
      PROVE  TypeOK'
  BY <1>20 DEF ProbeCapture, Disturb, StoreTypeOK, PollTypeOK, AgentTypeOK
<1>21. ASSUME NEW n \in Nodes, ProbeApply(n)
      PROVE  TypeOK'
  <2>1. AgentTypeOK'
    <3>1. /\ nm' \in {nm, [nm EXCEPT ![n] = probeNm[n]]}
          /\ live' \in {live, [live EXCEPT ![n] = probeNm[n]]}
          /\ disk' \in {disk, [disk EXCEPT ![n] = probeNm[n]]}
          /\ probeNm' = [probeNm EXCEPT ![n] = NoNetmap]
      BY <1>21 DEF ProbeApply, AgentTypeOK
    <3> QED
      BY <3>1, NoNetmapType DEF AgentTypeOK
  <2>2. PollTypeOK' /\ StoreTypeOK'
    BY <1>21 DEF ProbeApply, StoreTypeOK, PollTypeOK, storeVars, pollVars
  <2>3. disturbances' \in Nat
    BY <1>21 DEF ProbeApply, Disturb
  <2> QED
    BY <1>21, <2>1, <2>2, <2>3 DEF ProbeApply, ghostVars, storeVars
<1>22. ASSUME NEW n \in Nodes, AgentRestart(n)
      PROVE  TypeOK'
  BY <1>22, ReturnType, NoNetmapType DEF AgentRestart, Disturb, StoreTypeOK, AgentTypeOK
<1>23. CASE CoordinatorRestart
  <2>1. PollTypeOK'
    BY <1>23 DEF CoordinatorRestart, PollTypeOK, PollPC
  <2> QED
    BY <1>23, <2>1 DEF CoordinatorRestart, Disturb, WriterPC, StoreTypeOK, AgentTypeOK
<1>24. CASE UNCHANGED vars
  BY <1>24 DEF vars, StoreTypeOK, PollTypeOK, AgentTypeOK
<1> QED
  BY <1>1, <1>2, <1>3, <1>4, <1>5, <1>6, <1>7, <1>8, <1>9, <1>10, <1>11, <1>12,
     <1>13, <1>14, <1>15, <1>16, <1>17, <1>18, <1>19, <1>20, <1>21, <1>22,
     <1>23, <1>24
  DEF Next, WriterStep, PollStep, AgentStep

\* NetmapSync's type invariant holds in every state of every instance.
THEOREM TypeCorrect == Spec => []TypeOK
<1>1. Init => TypeOK
  <2> SUFFICES ASSUME Init PROVE TypeOK
    OBVIOUS
  <2>1. NoRow \in [rev : Nat, approved : BOOLEAN] /\ NoContent \in Revisions
    BY DEF NoRow, NoContent, Revisions
  <2>2. StoreTypeOK /\ AgentTypeOK
    BY <2>1, NoNetmapType DEF Init, StoreTypeOK, AgentTypeOK
  <2>3. PollTypeOK
    BY <2>1 DEF Init, PollTypeOK, PollPC
  <2>4. log \in Seq(Revisions) /\ Len(log) = version
    BY <2>1 DEF Init
  <2> QED
    BY <2>1, <2>2, <2>3, <2>4 DEF Init, TypeOK, WriterPC
<1> QED
  BY <1>1, TypeStep, PTL DEF Spec

-----------------------------------------------------------------------------
(* What the three kinds of processes leave alone.                          *)

\* Mutating handlers touch neither the polls nor the agents.
LEMMA WriterFrame ==
  ASSUME NEW w \in Writers, WriterStep(w)
  PROVE  UNCHANGED <<pollVars, agentVars>>
BY DEF WriterStep, WriteRow, Approve, Delete, WriteTable, Commit, BumpVersion,
       Notify, BumpError

\* A poll reads the store and changes only its own request.
LEMMA PollFrame ==
  ASSUME NEW n \in Nodes, PollStep(n)
  PROVE  UNCHANGED <<storeVars, wakeCh, wpc, agentVars, ghostVars>>
BY DEF PollStep, Request, Authenticate, CaptureWake, ReadVersion, Woken, Refetch,
       ReadTable, Deliver, PollDeadline, PollError

\* An agent changes neither the store nor the coordinator.
LEMMA AgentFrame ==
  ASSUME NEW n \in Nodes, AgentStep(n)
  PROVE  UNCHANGED <<storeVars, wakeCh, wpc, ghostVars>>
BY DEF AgentStep, ApplyReply, ApplyError, ProbeCapture, ProbeApply, AgentRestart

-----------------------------------------------------------------------------
(* The inductive invariant, conjunct by conjunct.                          *)

\* Tables only move forward, and the log only grows, by what they hold.
LEMMA StoreStep ==
  ASSUME TypeOK, [Next]_vars
  PROVE  /\ \A t \in Table : tbl[t] <= tbl'[t]
         /\ \/ UNCHANGED <<log, version>>
            \/ log' = Append(log, tbl) /\ version' = version + 1 /\ UNCHANGED tbl
<1> tbl \in [Table -> Nat]
  BY DEF TypeOK, StoreTypeOK, Revisions
<1>1. ASSUME NEW w \in Writers, NEW T, Commit(w, T)
      PROVE  /\ \A t \in Table : tbl[t] <= tbl'[t]
             /\ UNCHANGED <<log, version>>
  BY <1>1 DEF Commit, ghostVars
<1>2. ASSUME NEW w \in Writers, BumpVersion(w)
      PROVE  log' = Append(log, tbl) /\ version' = version + 1 /\ UNCHANGED tbl
  BY <1>2 DEF BumpVersion
<1>3. CASE UNCHANGED <<storeVars, log>>
  BY <1>3 DEF storeVars
<1>4. \/ \E w \in Writers : (\E T : Commit(w, T)) \/ BumpVersion(w)
      \/ UNCHANGED <<storeVars, log>>
  BY PollFrame, AgentFrame
  DEF Next, WriterStep, WriteRow, Approve, Delete, WriteTable, Notify, BumpError,
      CoordinatorRestart, vars, ghostVars
<1> QED
  BY <1>1, <1>2, <1>3, <1>4

\* What an earlier version stands for stays as it was announced.
LEMMA AnnouncedKept ==
  ASSUME TypeOK, [Next]_vars, NEW v \in 0..version
  PROVE  /\ Promise!Announced(v)' = Promise!Announced(v)
         /\ v \in 0..Len(log')
         /\ Promise!Announced(v) \in Revisions
<1>1. /\ log \in Seq(Revisions) /\ Len(log) = version /\ version \in Nat
      /\ tbl \in Revisions
  BY DEF TypeOK, StoreTypeOK
<1>2. CASE UNCHANGED <<log, version>>
  BY <1>1, <1>2 DEF Promise!Announced, Revisions
<1>3. CASE log' = Append(log, tbl)
  BY <1>1, <1>3 DEF Promise!Announced, Revisions
<1> QED
  BY <1>2, <1>3, StoreStep

\* A netmap that is faithful stays so, whatever is committed and announced.
LEMMA SoundKept ==
  ASSUME TypeOK, [Next]_vars, NEW m \in Netmap, Sound(m)
  PROVE  Sound(m)'
<1>1. m.version \in 0..version
  BY DEF Sound, Promise!Faithful, TypeOK
<1>2. /\ Promise!Announced(m.version)' = Promise!Announced(m.version)
      /\ m.version \in 0..Len(log')
  BY <1>1, AnnouncedKept
<1>3. ASSUME NEW t \in Table
      PROVE  m.content[t] <= tbl'[t]
  <2>1. m.content[t] \in Nat /\ tbl[t] \in Nat /\ tbl'[t] \in Nat
    BY TypeStep DEF Netmap, Revisions, TypeOK, StoreTypeOK
  <2>2. m.content[t] <= tbl[t] /\ tbl[t] <= tbl'[t]
    BY StoreStep DEF Sound, Promise!Faithful
  <2> QED
    BY <2>1, <2>2
<1> QED
  BY <1>2, <1>3 DEF Sound, Promise!Faithful

\* A commit leaves a handler that owes a bump; a bump covers every commit.
LEMMA AnnouncedStep == IInv /\ [Next]_vars => CommitsAnnounced'
<1> SUFFICES ASSUME IInv, [Next]_vars
             PROVE  CommitsAnnounced'
  OBVIOUS
<1> USE DEF IInv, CommitsAnnounced, BumpOwed
<1> /\ tbl \in [Table -> Nat] /\ wpc \in [Writers -> WriterPC]
    /\ log \in Seq([Table -> Nat]) /\ Len(log) = version /\ version \in Nat \ {0}
  BY DEF TypeOK, StoreTypeOK, Revisions
<1> \A v \in 1..version, t \in Table : log[v][t] \in Nat
  OBVIOUS
<1>1. ASSUME NEW w \in Writers, NEW T, Commit(w, T)
      PROVE  CommitsAnnounced'
  BY <1>1 DEF Commit, ghostVars
<1>2. ASSUME NEW w \in Writers, BumpVersion(w)
      PROVE  CommitsAnnounced'
  <2>1. /\ log' = Append(log, tbl) /\ version' = version + 1
        /\ UNCHANGED tbl
    BY <1>2 DEF BumpVersion
  <2>2. log'[version'] = tbl /\ \A v \in 1..version : log'[v] = log[v]
    BY <2>1
  <2>3. ASSUME NEW t \in Table, NEW v \in 1..version'
        PROVE  log'[v][t] <= tbl'[t]
    BY <2>1, <2>2
  <2> QED
    BY <2>1, <2>2, <2>3
<1>3. ASSUME NEW w \in Writers, Notify(w)
      PROVE  CommitsAnnounced'
  BY <1>3 DEF Notify, storeVars, ghostVars
<1>4. ASSUME NEW w \in Writers, BumpError(w)
      PROVE  CommitsAnnounced'
  BY <1>4 DEF BumpError, storeVars
<1>5. CASE CoordinatorRestart
  BY <1>5 DEF CoordinatorRestart, storeVars
<1>6. CASE UNCHANGED <<storeVars, wpc, ghostVars>>
  BY <1>6 DEF storeVars, ghostVars
<1> QED
  BY <1>1, <1>2, <1>3, <1>4, <1>5, <1>6, PollFrame, AgentFrame
  DEF Next, WriterStep, WriteRow, Approve, Delete, WriteTable, vars

\* A reply that reached its agent carries a faithful netmap.
LEMMA ReceivedSound ==
  ASSUME IInv, NEW n \in Nodes, ppc[n] = "got"
  PROVE  Sound(Received(n))
<1>1. /\ hver[n] \in Nat /\ hver[n] <= version /\ Len(log) = version /\ version \in Nat
      /\ nread[n] = NTables
  BY DEF IInv, TypeOK, PollTypeOK, StoreTypeOK, PollsSound, PollSound
<1>2. \A t \in Table : Promise!Announced(hver[n])[t] <= built[n][t] /\ built[n][t] <= tbl[t]
  BY <1>1 DEF IInv, PollsSound, PollSound, Table
<1> QED
  BY <1>1, <1>2 DEF Sound, Promise!Faithful, Received

\* Having no netmap is faithful.
LEMMA NoNetmapSound ==
  ASSUME TypeOK
  PROVE  Sound(NoNetmap)
<1>1. 0 \in 0..Len(log) /\ tbl \in [Table -> Nat]
  BY DEF TypeOK, StoreTypeOK, Revisions
<1> QED
  BY <1>1 DEF Sound, Promise!Faithful, Promise!Announced, NoNetmap, NoContent

\* An agent's copies of a netmap come from a reply or from one another.
LEMMA AgentsStep == IInv /\ [Next]_vars => AgentsSound'
<1> SUFFICES ASSUME IInv, [Next]_vars
             PROVE  AgentsSound'
  OBVIOUS
<1>0. TypeOK /\ AgentsSound /\ AgentTypeOK
  BY DEF IInv, TypeOK
<1>1. \A m \in Netmap : Sound(m) => Sound(m)'
  BY <1>0, SoundKept
<1>2. CASE UNCHANGED agentVars
  BY <1>0, <1>1, <1>2 DEF AgentsSound, AgentTypeOK, agentVars
<1>3. ASSUME NEW n \in Nodes, AgentStep(n)
      PROVE  AgentsSound'
  <2> USE <1>0, <1>1 DEF AgentsSound, AgentTypeOK
  <2>1. ppc[n] = "got" => \E m \in Netmap : m = Received(n) /\ Sound(m)'
    BY ReceivedSound, ReceivedType
  <2>2. Sound(NoNetmap)'
    BY NoNetmapSound, NoNetmapType
  <2>3. CASE ApplyReply(n)
    BY <2>1, <2>3 DEF ApplyReply
  <2>4. CASE ApplyError(n)
    BY <2>1, <2>4 DEF ApplyError
  <2>5. CASE ProbeCapture(n)
    BY <2>5 DEF ProbeCapture
  <2>6. CASE ProbeApply(n)
    BY <2>2, <2>6 DEF ProbeApply
  <2>7. CASE AgentRestart(n)
    BY <2>2, <2>7 DEF AgentRestart
  <2> QED
    BY <1>3, <2>3, <2>4, <2>5, <2>6, <2>7 DEF AgentStep
<1> QED
  BY <1>2, <1>3, WriterFrame, PollFrame DEF Next, CoordinatorRestart, vars

\* A request that does not move stays sound while others commit and announce.
LEMMA PollKept ==
  ASSUME TypeOK, [Next]_vars, NEW n \in Nodes, PollSound(n),
         ppc'[n] = ppc[n] \/ ppc'[n] \notin {"build", "reply", "got"},
         hver'[n] = hver[n], nread'[n] = nread[n], built'[n] = built[n]
  PROVE  PollSound(n)'
<1>1. /\ hver[n] \in 0..version /\ nread[n] \in 0..NTables /\ version' >= version
      /\ version \in Nat /\ version' \in Nat /\ built[n] \in Revisions
  <2>1. version \in Nat /\ version' \in Nat
    BY TypeStep DEF TypeOK, StoreTypeOK
  <2>2. version' >= version
    BY <2>1, StoreStep
  <2>3. hver[n] \in Nat /\ nread[n] \in 0..NTables /\ built[n] \in Revisions
    BY DEF TypeOK, PollTypeOK
  <2> QED
    BY <2>1, <2>2, <2>3 DEF PollSound
<1>2. Promise!Announced(hver[n])' = Promise!Announced(hver[n])
  <2>1. \A v \in 0..version : Promise!Announced(v)' = Promise!Announced(v)
    BY AnnouncedKept
  <2> QED
    BY <1>1, <2>1 DEF Promise!Announced
<1>3. ASSUME ppc'[n] = ppc[n], ppc[n] \in {"build", "reply", "got"}, NEW t \in 1..nread[n]
      PROVE  built[n][t] <= tbl'[t]
  <2>1. t \in Table
    BY <1>1 DEF Table
  <2>2. built[n][t] \in Nat /\ tbl[t] \in Nat /\ tbl'[t] \in Nat
    BY <1>1, <2>1, TypeStep DEF Revisions, TypeOK, StoreTypeOK
  <2>3. built[n][t] <= tbl[t] /\ tbl[t] <= tbl'[t]
    BY <1>3, <2>1, StoreStep DEF PollSound
  <2> QED
    BY <2>2, <2>3
<1> QED
  BY <1>1, <1>2, <1>3 DEF PollSound

\* The end of a request leaves nothing that PollsSound speaks about.
LEMMA ReturnSound ==
  ASSUME TypeOK, NEW n \in Nodes, Return(n), UNCHANGED version
  PROVE  PollSound(n)'
BY DEF PollSound, Return, TypeOK, PollTypeOK, StoreTypeOK

\* Every table is read after the version, so it holds what that version covers.
LEMMA PollsStep == IInv /\ [Next]_vars => PollsSound'
<1> SUFFICES ASSUME IInv, [Next]_vars, NEW n \in Nodes
             PROVE  PollSound(n)'
  BY DEF PollsSound
<1>0. TypeOK /\ PollSound(n)
  BY DEF IInv, PollsSound
<1>1. ASSUME UNCHANGED <<ppc[n], hver[n], nread[n], built[n]>>
      PROVE  PollSound(n)'
  BY <1>0, <1>1, PollKept
<1>2. CASE PollStep(n)
  <2>0. UNCHANGED <<version, log, tbl>>
    BY <1>2, PollFrame DEF storeVars, ghostVars
  <2> USE <1>0 DEF TypeOK, PollTypeOK
  <2>1. CASE Request(n)
    BY <2>0, <2>1 DEF Request, PollSound
  <2>2. CASE Authenticate(n)
    <3>1. CASE registered[n]
      BY <2>0, <2>2, <3>1 DEF Authenticate, PollSound
    <3>2. CASE ~registered[n]
      BY <2>0, <2>2, <3>2, ReturnSound DEF Authenticate
    <3> QED
      BY <3>1, <3>2
  <2>3. CASE CaptureWake(n)
    BY <2>0, <2>3 DEF CaptureWake, PollSound
  <2>4. CASE ReadVersion(n)
    BY <2>0, <2>4 DEF ReadVersion, PollSound, StoreTypeOK
  <2>5. CASE Woken(n)
    BY <2>0, <2>5 DEF Woken, PollSound
  <2>6. CASE Refetch(n)
    BY <2>0, <2>6 DEF Refetch, PollSound
  <2>7. CASE ReadTable(n)
    <3>1. nread[n] + 1 \in Table /\ nread[n] \in Nat /\ hver[n] \in 0..version
      BY <2>7, SMTT(30) DEF ReadTable, Table, PollSound, StoreTypeOK
    <3>2. /\ Promise!Announced(hver[n])[nread[n] + 1] <= tbl[nread[n] + 1]
          /\ tbl[nread[n] + 1] \in Nat
      BY <3>1 DEF IInv, CommitsAnnounced, Promise!Announced, StoreTypeOK, Revisions
    <3>3. /\ nread'[n] = nread[n] + 1
          /\ built'[n] = [built[n] EXCEPT ![nread[n] + 1] = tbl[nread[n] + 1]]
          /\ hver'[n] = hver[n]
          /\ ppc'[n] = "reply" => nread[n] + 1 = NTables
          /\ ppc'[n] \in {"build", "reply"}
      BY <2>7 DEF ReadTable
    <3>4. Promise!Announced(hver[n])' = Promise!Announced(hver[n])
      BY <2>0, <3>3 DEF Promise!Announced
    <3>5. ASSUME NEW t \in 1..nread'[n]
          PROVE  /\ Promise!Announced(hver[n])[t] <= built'[n][t]
                 /\ built'[n][t] <= tbl[t]
      <4>1. CASE t = nread[n] + 1
        BY <3>1, <3>2, <3>3, <4>1 DEF Revisions
      <4>2. CASE t # nread[n] + 1
        <5>1. t \in 1..nread[n] /\ t \in Table
          BY <3>1, <3>3, <4>2 DEF Table
        <5> QED
          BY <2>7, <3>3, <4>2, <5>1 DEF ReadTable, PollSound, Revisions
      <4> QED
        BY <4>1, <4>2
    <3> QED
      BY <2>0, <3>1, <3>3, <3>4, <3>5 DEF PollSound
  <2>8. CASE Deliver(n)
    <3>1. /\ nread[n] = NTables /\ ppc'[n] = "got"
          /\ UNCHANGED <<hver, nread, built>>
      BY <2>8 DEF Deliver, PollSound
    <3>2. Promise!Announced(hver[n])' = Promise!Announced(hver[n])
      BY <2>0, <3>1 DEF Promise!Announced
    <3> QED
      BY <2>0, <2>8, <3>1, <3>2 DEF Deliver, PollSound
  <2>9. CASE PollDeadline(n)
    BY <2>0, <2>9, ReturnSound DEF PollDeadline
  <2>10. CASE PollError(n)
    BY <2>0, <2>10, ReturnSound DEF PollError
  <2> QED
    BY <1>2, <2>1, <2>2, <2>3, <2>4, <2>5, <2>6, <2>7, <2>8, <2>9, <2>10 DEF PollStep
<1>3. CASE AgentStep(n)
  <2>1. UNCHANGED version
    BY <1>3, AgentFrame DEF storeVars
  <2>2. Return(n) \/ UNCHANGED pollVars
    BY <1>3 DEF AgentStep, ApplyReply, ApplyError, ProbeCapture, ProbeApply, AgentRestart
  <2>3. CASE UNCHANGED pollVars
    BY <1>1, <2>3 DEF pollVars
  <2> QED
    BY <1>0, <2>1, <2>2, <2>3, ReturnSound
<1>4. ASSUME NEW m \in Nodes, m # n, PollStep(m) \/ AgentStep(m)
      PROVE  PollSound(n)'
  <2> USE <1>0 DEF TypeOK, PollTypeOK
  <2>1. ASSUME Return(m)
        PROVE  UNCHANGED <<ppc[n], hver[n], nread[n], built[n]>>
    BY <1>4, <2>1 DEF Return
  <2>2. CASE PollStep(m)
    BY <1>1, <1>4, <2>1, <2>2
    DEF PollStep, Request, Authenticate, CaptureWake, ReadVersion, Woken, Refetch,
        ReadTable, Deliver, PollDeadline, PollError
  <2>3. CASE AgentStep(m)
    BY <1>1, <1>4, <2>1, <2>3
    DEF AgentStep, ApplyReply, ApplyError, ProbeCapture, ProbeApply, AgentRestart, pollVars
  <2> QED
    BY <1>4, <2>2, <2>3
<1>5. ASSUME NEW w \in Writers, WriterStep(w)
      PROVE  PollSound(n)'
  BY <1>1, <1>5, WriterFrame DEF pollVars
<1>6. CASE CoordinatorRestart
  <2>1. /\ ppc'[n] = ppc[n] \/ ppc'[n] \notin {"build", "reply", "got"}
        /\ UNCHANGED <<hver[n], nread[n], built[n]>>
    BY <1>0, <1>6 DEF CoordinatorRestart, TypeOK, PollTypeOK
  <2> QED
    BY <1>0, <2>1, PollKept
<1>7. CASE UNCHANGED vars
  BY <1>1, <1>7 DEF vars, pollVars
<1> QED
  BY <1>2, <1>3, <1>4, <1>5, <1>6, <1>7 DEF Next

\* Channels are captured from the open one, which only moves forward while the
\* process lives; a closing channel wakes whoever had captured it.
LEMMA WakeStep == IInv /\ [Next]_vars => WakesKnown' /\ NoLostWakeup'
<1> SUFFICES ASSUME IInv, [Next]_vars
             PROVE  WakesKnown' /\ NoLostWakeup'
  OBVIOUS
<1> USE DEF IInv, WakesKnown, NoLostWakeup, NotifyOwed
<1> /\ wake \in [Nodes -> Nat] /\ wakeCh \in Nat /\ ppc \in [Nodes -> PollPC]
    /\ since \in [Nodes -> Nat] /\ wpc \in [Writers -> WriterPC] /\ version \in Nat
  BY DEF TypeOK, PollTypeOK, StoreTypeOK
<1>1. ASSUME NEW n \in Nodes, Return(n), UNCHANGED <<version, wakeCh, wpc>>
      PROVE  WakesKnown' /\ NoLostWakeup'
  BY <1>1 DEF Return
<1>2. ASSUME NEW n \in Nodes, PollStep(n)
      PROVE  WakesKnown' /\ NoLostWakeup'
  <2>1. UNCHANGED <<version, wakeCh, wpc>>
    BY <1>2, PollFrame DEF storeVars
  <2>2. CASE Request(n)
    BY <2>1, <2>2 DEF Request
  <2>3. CASE Authenticate(n)
    BY <1>1, <2>1, <2>3 DEF Authenticate
  <2>4. CASE CaptureWake(n)
    BY <2>1, <2>4 DEF CaptureWake
  <2>5. CASE ReadVersion(n)
    BY <2>1, <2>5 DEF ReadVersion
  <2>6. CASE Woken(n)
    BY <2>1, <2>6 DEF Woken
  <2>7. CASE Refetch(n)
    BY <2>1, <2>7 DEF Refetch
  <2>8. CASE ReadTable(n)
    BY <2>1, <2>8 DEF ReadTable
  <2>9. CASE Deliver(n)
    BY <2>1, <2>9 DEF Deliver
  <2>10. CASE PollDeadline(n) \/ PollError(n)
    BY <1>1, <2>1, <2>10 DEF PollDeadline, PollError
  <2> QED
    BY <1>2, <2>2, <2>3, <2>4, <2>5, <2>6, <2>7, <2>8, <2>9, <2>10 DEF PollStep
<1>3. ASSUME NEW n \in Nodes, AgentStep(n)
      PROVE  WakesKnown' /\ NoLostWakeup'
  <2>1. UNCHANGED <<version, wakeCh, wpc>>
    BY <1>3, AgentFrame DEF storeVars
  <2>2. Return(n) \/ UNCHANGED pollVars
    BY <1>3 DEF AgentStep, ApplyReply, ApplyError, ProbeCapture, ProbeApply, AgentRestart
  <2> QED
    BY <1>1, <2>1, <2>2 DEF pollVars
<1>4. ASSUME NEW w \in Writers, WriterStep(w)
      PROVE  WakesKnown' /\ NoLostWakeup'
  <2>1. UNCHANGED <<wake, ppc, since>>
    BY <1>4, WriterFrame DEF pollVars
  <2>2. ASSUME NEW T, Commit(w, T)
        PROVE  WakesKnown' /\ NoLostWakeup'
    BY <2>1, <2>2 DEF Commit
  <2>3. CASE BumpVersion(w)
    BY <2>1, <2>3 DEF BumpVersion
  <2>4. CASE Notify(w)
    BY <2>1, <2>4 DEF Notify
  <2>5. CASE BumpError(w)
    BY <2>1, <2>5 DEF BumpError, storeVars
  <2> QED
    BY <1>4, <2>2, <2>3, <2>4, <2>5 DEF WriterStep, WriteRow, Approve, Delete, WriteTable
<1>5. CASE CoordinatorRestart
  BY <1>5 DEF CoordinatorRestart
<1>6. CASE UNCHANGED vars
  BY <1>6 DEF vars, storeVars, pollVars
<1> QED
  BY <1>2, <1>3, <1>4, <1>5, <1>6 DEF Next

\* Init establishes what the invariant adds to the types.
LEMMA InitSound == Init /\ TypeOK => IInv
<1> SUFFICES ASSUME Init, TypeOK PROVE IInv
  OBVIOUS
<1>1. log[1] = NoContent /\ version = 1 /\ tbl = NoContent /\ NoContent \in [Table -> Nat]
  BY DEF Init, NoContent
<1>2. CommitsAnnounced
  BY <1>1 DEF CommitsAnnounced, NoContent
<1>3. AgentsSound
  BY NoNetmapSound DEF Init, AgentsSound
<1>4. PollsSound /\ WakesKnown /\ NoLostWakeup
  BY DEF Init, PollsSound, PollSound, WakesKnown, NoLostWakeup
<1> QED
  BY <1>2, <1>3, <1>4 DEF IInv

\* The inductive invariant holds in every state.
THEOREM Inductive == Spec => []IInv
<1>1. IInv /\ [Next]_vars => IInv'
  BY TypeStep, AnnouncedStep, AgentsStep, PollsStep, WakeStep DEF IInv
<1> QED
  BY <1>1, InitSound, TypeCorrect, PTL DEF Spec

\* Every step of the handlers, polls and agents is a step of NetmapPromise: a
\* commit, an announcement, an agent coming to hold a faithful netmap, or
\* nothing that shows.
LEMMA PromiseStep == IInv /\ IInv' /\ [Next]_vars => [Promise!Next]_(Promise!vars)
<1> SUFFICES ASSUME IInv, IInv', [Next]_vars
             PROVE  Promise!Next \/ UNCHANGED Promise!vars
  OBVIOUS
<1>0. TypeOK /\ nm \in [Nodes -> Netmap] /\ nm' \in [Nodes -> Netmap]
  BY DEF IInv, TypeOK, AgentTypeOK
<1>1. ASSUME NEW w \in Writers, NEW T \in SUBSET Table, Commit(w, T)
      PROVE  Promise!Next
  BY <1>1 DEF Commit, Promise!Next, Promise!Commit, ghostVars, agentVars
<1>2. ASSUME NEW w \in Writers, BumpVersion(w)
      PROVE  Promise!Next
  BY <1>2 DEF BumpVersion, Promise!Next, Promise!Announce, agentVars
<1>3. ASSUME NEW n \in Nodes, AgentStep(n)
      PROVE  Promise!Next
  <2>1. UNCHANGED <<tbl, log>>
    BY <1>3, AgentFrame DEF storeVars, ghostVars
  <2>2. nm' = [nm EXCEPT ![n] = nm'[n]]
    BY <1>0, <1>3
    DEF AgentStep, ApplyReply, ApplyError, ProbeCapture, ProbeApply, AgentRestart
  <2>3. Promise!Faithful(nm'[n])
    BY <2>1 DEF IInv, AgentsSound, Sound, Promise!Faithful, Promise!Announced
  <2> QED
    BY <2>1, <2>2, <2>3 DEF Promise!Next, Promise!Hold
<1>4. CASE UNCHANGED <<tbl, log, nm>>
  BY <1>4 DEF Promise!vars
<1>5. NodesTable \in Table /\ {NodesTable} \union Cascaded \in SUBSET Table
  BY DEF NodesTable, Table
<1> QED
  BY <1>1, <1>2, <1>3, <1>4, <1>5, PollFrame
  DEF Next, WriterStep, WriteRow, Approve, Delete, WriteTable, Notify, BumpError,
      CoordinatorRestart, vars, storeVars, ghostVars, agentVars

\* NetmapSync implements NetmapPromise: whatever interleaves, fails or restarts,
\* an agent acts on a netmap that has all that was announced up to its version
\* and nothing that was never committed.
THEOREM ImplementsPromise == Spec => KeepsPromise
<1>1. Init /\ IInv => Promise!Init
  BY DEF Init, IInv, AgentsSound, Sound, Promise!Init, NoContent
<1> QED
  BY <1>1, Inductive, PromiseStep, PTL DEF Spec, KeepsPromise, Promise!Spec

\* An applied netmap that lacks a commit is always outdated by its version, or a
\* bump for that commit is owed, or its handler died: reading the version before
\* the tables and bumping after the commit is enough, for any set of tables.
THEOREM StaleNetmapDetected == Spec => []StaleNetmapIsOutdated
<1>1. IInv => StaleNetmapIsOutdated
  <2> SUFFICES ASSUME IInv, NEW n \in Nodes, NEW t \in Table,
                      nm[n].content[t] < tbl[t], ~(nm[n].version < version)
               PROVE  BumpOwed \/ orphaned
    BY DEF StaleNetmapIsOutdated
  <2>1. nm[n] \in Netmap /\ tbl[t] \in Nat /\ version \in Nat \ {0}
        /\ log[version][t] \in Nat /\ Len(log) = version
    BY DEF IInv, TypeOK, AgentTypeOK, StoreTypeOK, Revisions
  <2>2. nm[n].version = version
    BY <2>1 DEF IInv, AgentsSound, Sound, Promise!Faithful, Netmap
  <2>3. log[version][t] <= nm[n].content[t]
    BY <2>1, <2>2 DEF IInv, AgentsSound, Sound, Promise!Faithful, Promise!Announced
  <2>4. nm[n].content[t] \in Nat
    BY <2>1 DEF Netmap, Revisions
  <2>5. log[version][t] < tbl[t]
    BY <2>1, <2>3, <2>4
  <2> QED
    BY <2>5 DEF IInv, CommitsAnnounced
<1> QED
  BY <1>1, Inductive, PTL

\* The wake-up of an approved node's parked poll is never lost: capturing the
\* channel before reading the version, and closing it after the bump, is enough.
THEOREM WakeupNeverLost == Spec => []NoLostWakeup
<1>1. IInv => NoLostWakeup
  BY DEF IInv
<1> QED
  BY <1>1, Inductive, PTL
=============================================================================
