------------------------- MODULE StatusRoutesProofs -------------------------
(***************************************************************************)
(* Proofs about StatusRoutes: its types and EnabledByAdminOnly, for any    *)
(* nodes, routes and admins and any number of requests and changes.        *)
(*                                                                         *)
(* The argument: what a heartbeat between the read and the update of       *)
(* SetAdvertisedRoutes is going to write (InFlight) is the admin's word,   *)
(* or it was in flight already when the admin's last word was stored.      *)
(***************************************************************************)
EXTENDS StatusRoutes, TLAPS

USE ConstantsAssumption

\* No report is a report with nothing in it.
LEMMA NoReportType ==
  /\ NoReport \in [addr : MaybeAddr, routes : Offers, seen : [Nodes -> MaybeAddr]]
  /\ NoReport.routes = {}
BY DEF NoReport, MaybeAddr, Offers, Unseen

\* What is left to announce is of two kinds.
LEMMA TouchedType ==
  ASSUME unsent \subseteq {"endpoints", "routes"}, Touched
  PROVE  unsent' \subseteq {"endpoints", "routes"}
BY DEF Touched

\* Init establishes the invariant: nothing is advertised, enabled or under way.
LEMMA InitInv == Init => IInv
<1> SUFFICES ASSUME Init PROVE IInv
  OBVIOUS
<1>1. TypeOK
  <2>1. (CHOOSE x \in Addrs : TRUE) \in Addrs
    OBVIOUS
  <2>2. addr \in [Nodes -> Addrs]
    BY <2>1 DEF Init
  <2> QED
    BY <2>2, NoReportType DEF Init, TypeOK, MaybeAddr, Offers
<1>2. EnabledByAdminOnly /\ ReadApproved /\ ReportsChecked
  BY DEF Init, EnabledByAdminOnly, ReadApproved, InFlight, ReportsChecked
<1> QED
  BY <1>1, <1>2 DEF IInv

\* StatusReturn: a handler that ends forgets what it read.
LEMMA ReturnInv ==
  ASSUME IInv, NEW n \in Nodes, StatusReturn(n), UNCHANGED wordVars
  PROVE  /\ spc' \in [Nodes -> {"idle", "local", "read", "write", "nodes", "observe", "bump"}]
         /\ rep' \in [Nodes -> [addr : MaybeAddr, routes : Offers, seen : [Nodes -> MaybeAddr]]]
         /\ oldAdv' \in [Nodes -> SUBSET Routes]
         /\ oldEn' \in [Nodes -> SUBSET Routes]
         /\ need' \in [Nodes -> BOOLEAN]
         /\ todo' \in [Nodes -> SUBSET Nodes]
         /\ ReadApproved' /\ ReportsChecked'
<1>1. /\ spc' \in [Nodes -> {"idle", "local", "read", "write", "nodes", "observe", "bump"}]
      /\ rep' \in [Nodes -> [addr : MaybeAddr, routes : Offers, seen : [Nodes -> MaybeAddr]]]
      /\ oldAdv' \in [Nodes -> SUBSET Routes]
      /\ oldEn' \in [Nodes -> SUBSET Routes]
      /\ need' \in [Nodes -> BOOLEAN]
      /\ todo' \in [Nodes -> SUBSET Nodes]
  BY NoReportType DEF IInv, TypeOK, StatusReturn
<1>2. ReadApproved'
  BY DEF IInv, TypeOK, StatusReturn, ReadApproved, InFlight, wordVars
<1>3. ReportsChecked'
  BY DEF IInv, TypeOK, StatusReturn, ReportsChecked
<1> QED
  BY <1>1, <1>2, <1>3

-----------------------------------------------------------------------------
(* One lemma per actor, one case per action.                               *)

\* Agents: Move and Offer change nothing the coordinator has.
LEMMA AgentStep ==
  ASSUME IInv, NEW n \in Nodes, Move(n) \/ Offer(n)
  PROVE  IInv'
<1>1. CASE Move(n)
  <2>1. TypeOK'
    BY <1>1 DEF IInv, TypeOK, Move, storeVars, statusVars, adminVars, wordVars
  <2> QED
    BY <1>1, <2>1 DEF IInv, Move, storeVars, statusVars, EnabledByAdminOnly, ReadApproved,
         InFlight, ReportsChecked, wordVars
<1>2. CASE Offer(n)
  <2>1. offered' \in [Nodes -> Offers]
    <3>1. Reoffers[n] \subseteq Offers
      OBVIOUS
    <3>2. PICK x \in Reoffers[n] : offered' = [offered EXCEPT ![n] = x]
      BY <1>2 DEF Offer
    <3> QED
      BY <3>1, <3>2 DEF IInv, TypeOK
  <2>2. TypeOK'
    BY <1>2, <2>1 DEF IInv, TypeOK, Offer, storeVars, statusVars, adminVars, wordVars
  <2> QED
    BY <1>2, <2>2 DEF IInv, Offer, storeVars, statusVars, EnabledByAdminOnly, ReadApproved,
         InFlight, ReportsChecked, wordVars
<1> QED
  BY <1>1, <1>2

\* handleStatus
LEMMA HandlerStep ==
  ASSUME IInv, NEW n \in Nodes, StatusStep(n)
  PROVE  IInv'
<1> USE DEF IInv
<1>1. CASE Report(n)
  <2>1. \A o \in ObservedPeers(n) : o \in [Nodes -> MaybeAddr]
    BY DEF TypeOK, ObservedPeers, Unseen, MaybeAddr
  <2>2. TypeOK'
    <3>1. PICK o \in ObservedPeers(n) :
            rep' = [rep EXCEPT ![n] = [addr |-> addr[n], routes |-> offered[n], seen |-> o]]
      BY <1>1 DEF Report
    <3>2. rep' \in [Nodes -> [addr : MaybeAddr, routes : Offers, seen : [Nodes -> MaybeAddr]]]
      BY <2>1, <3>1 DEF TypeOK, MaybeAddr
    <3> QED
      BY <1>1, <3>2 DEF TypeOK, Report, agentVars, storeVars, adminVars, wordVars
  <2>3. ReportsChecked'
    BY <1>1 DEF Report, TypeOK, ReportsChecked
  <2> QED
    BY <1>1, <2>2, <2>3 DEF Report, storeVars, EnabledByAdminOnly, ReadApproved, InFlight,
         wordVars
<1>2. CASE StoreLocal(n)
  <2>1. local' \in [Nodes -> MaybeAddr]
    BY <1>2 DEF StoreLocal, TypeOK
  <2>2. CASE StatusReturn(n)
    <3>1. TypeOK' /\ ReadApproved' /\ ReportsChecked'
      BY <1>2, <2>1, <2>2, ReturnInv, TouchedType DEF StoreLocal, TypeOK, agentVars, adminVars,
           wordVars
    <3> QED
      BY <1>2, <3>1 DEF StoreLocal, EnabledByAdminOnly, wordVars
  <2>3. CASE ~StatusReturn(n)
    <3>1. /\ BadRoute \notin rep[n].routes
          /\ spc' = [spc EXCEPT ![n] = "read"]
          /\ need' = [need EXCEPT ![n] = local[n] # rep[n].addr]
          /\ UNCHANGED <<rep, oldAdv, oldEn, todo>>
      BY <1>2, <2>3 DEF StoreLocal
    <3>2. rep[n].routes \in Offers
      BY DEF TypeOK
    <3>3. rep[n].routes \subseteq Routes
      BY <3>1, <3>2 DEF Offers
    <3>4. need' \in [Nodes -> BOOLEAN]
      BY <3>1 DEF TypeOK
    <3>5. TypeOK'
      BY <1>2, <2>1, <3>1, <3>4, TouchedType DEF StoreLocal, TypeOK, agentVars, adminVars,
           wordVars
    <3>6. ReportsChecked'
      BY <3>1, <3>3 DEF TypeOK, ReportsChecked
    <3> QED
      BY <1>2, <3>1, <3>5, <3>6 DEF StoreLocal, EnabledByAdminOnly, ReadApproved, InFlight,
           wordVars
  <2> QED
    BY <2>2, <2>3
<1>3. CASE ReadRoutes(n)
  <2>1. CASE StatusReturn(n)
    <3>1. TypeOK' /\ ReadApproved' /\ ReportsChecked'
      BY <1>3, <2>1, ReturnInv DEF ReadRoutes, TypeOK, agentVars, storeVars, adminVars, wordVars
    <3> QED
      BY <1>3, <3>1 DEF ReadRoutes, storeVars, EnabledByAdminOnly, wordVars
  <2>2. CASE ~StatusReturn(n)
    <3>1. /\ oldAdv' = [oldAdv EXCEPT ![n] = adv[n]]
          /\ oldEn' = [oldEn EXCEPT ![n] = en[n]]
          /\ spc' = [spc EXCEPT ![n] = "write"]
          /\ UNCHANGED <<rep, need, todo>>
      BY <1>3, <2>2 DEF ReadRoutes
    <3>2. TypeOK'
      BY <1>3, <3>1 DEF ReadRoutes, TypeOK, agentVars, storeVars, adminVars, wordVars
    <3>3. ReadApproved'
      BY <1>3, <3>1 DEF ReadRoutes, TypeOK, ReadApproved, InFlight, EnabledByAdminOnly, wordVars
    <3>4. ReportsChecked'
      BY <1>3, <3>1 DEF ReadRoutes, TypeOK, ReportsChecked
    <3> QED
      BY <1>3, <3>2, <3>3, <3>4 DEF ReadRoutes, storeVars, EnabledByAdminOnly, wordVars
  <2> QED
    BY <2>1, <2>2
<1>4. CASE WriteRoutes(n)
  <2>1. rep[n].routes \subseteq Routes
    BY <1>4 DEF WriteRoutes, ReportsChecked
  <2>2. KeptRoutes(n) \subseteq oldEn[n] /\ KeptRoutes(n) \subseteq Routes
    BY DEF KeptRoutes, TypeOK
  <2>3. adv' \in [Nodes -> SUBSET Routes] /\ en' \in [Nodes -> SUBSET Routes]
    <3>1. adv \in [Nodes -> SUBSET Routes] /\ en \in [Nodes -> SUBSET Routes]
      BY DEF TypeOK
    <3>2. \/ UNCHANGED <<adv, en>>
          \/ /\ adv' = [adv EXCEPT ![n] = rep[n].routes]
             /\ en' = [en EXCEPT ![n] = KeptRoutes(n)]
      BY <1>4 DEF WriteRoutes
    <3> QED
      BY <2>1, <2>2, <3>1, <3>2
  <2>4. need' \in [Nodes -> BOOLEAN]
    BY <1>4 DEF WriteRoutes, TypeOK
  <2>5. TypeOK'
    BY <1>4, <2>3, <2>4, TouchedType DEF WriteRoutes, TypeOK, agentVars, adminVars, wordVars
  <2>6. EnabledByAdminOnly'
    <3>1. UNCHANGED en \/ en' = [en EXCEPT ![n] = InFlight(n)]
      BY <1>4 DEF WriteRoutes, KeptRoutes, InFlight
    <3> QED
      <4>1. UNCHANGED wordVars /\ en \in [Nodes -> SUBSET Routes]
        BY <1>4 DEF WriteRoutes, TypeOK
      <4>2. \A m \in Nodes : en'[m] \subseteq en[m] \union InFlight(m)
        BY <3>1, <4>1
      <4> QED
        BY <4>1, <4>2 DEF wordVars, EnabledByAdminOnly, ReadApproved
  <2>7. ReportsChecked'
    BY <1>4 DEF WriteRoutes, TypeOK, ReportsChecked
  <2> QED
    BY <1>4, <2>5, <2>6, <2>7 DEF WriteRoutes, ReadApproved, InFlight, wordVars
<1>5. CASE ListNodes(n)
  <2>1. TypeOK'
    BY <1>5 DEF ListNodes, TypeOK, agentVars, storeVars, adminVars, wordVars
  <2>2. ReportsChecked'
    BY <1>5 DEF ListNodes, TypeOK, ReportsChecked
  <2> QED
    BY <1>5, <2>1, <2>2 DEF ListNodes, storeVars, EnabledByAdminOnly, ReadApproved, InFlight,
         wordVars
<1>6. CASE StoreObserved(n)
  <2>1. CASE StatusReturn(n) /\ UNCHANGED observed
    <3>1. TypeOK' /\ ReadApproved' /\ ReportsChecked'
      BY <1>6, <2>1, ReturnInv, TouchedType DEF StoreObserved, TypeOK, agentVars, adminVars,
           wordVars
    <3> QED
      BY <1>6, <3>1 DEF StoreObserved, EnabledByAdminOnly, wordVars
  <2>2. CASE ~(StatusReturn(n) /\ UNCHANGED observed)
    <3>1. PICK m \in todo[n] :
            /\ observed' = [observed EXCEPT ![m] = rep[n].seen[m]]
            /\ need' = [need EXCEPT ![n] = @ \/ observed[m] # rep[n].seen[m]]
            /\ todo' = [todo EXCEPT ![n] = @ \ {m}]
            /\ UNCHANGED <<spc, rep, oldAdv, oldEn>>
      BY <1>6, <2>2 DEF StoreObserved
    <3>2. m \in Nodes
      BY DEF TypeOK
    <3>3. rep[n].seen[m] \in MaybeAddr
      BY <3>2 DEF TypeOK
    <3>4. /\ observed' \in [Nodes -> MaybeAddr]
          /\ need' \in [Nodes -> BOOLEAN]
          /\ todo' \in [Nodes -> SUBSET Nodes]
      BY <3>1, <3>3 DEF TypeOK
    <3>5. TypeOK'
      BY <1>6, <3>1, <3>4, TouchedType DEF StoreObserved, TypeOK, agentVars, adminVars, wordVars
    <3> QED
      BY <1>6, <3>1, <3>5 DEF StoreObserved, EnabledByAdminOnly, ReadApproved, InFlight,
           ReportsChecked, wordVars
  <2> QED
    BY <2>1, <2>2
<1>7. CASE ObserveDone(n)
  <2>1. TypeOK'
    BY <1>7 DEF ObserveDone, TypeOK, agentVars, storeVars, adminVars, wordVars
  <2>2. ReportsChecked'
    BY <1>7 DEF ObserveDone, TypeOK, ReportsChecked
  <2> QED
    BY <1>7, <2>1, <2>2 DEF ObserveDone, storeVars, EnabledByAdminOnly, ReadApproved, InFlight,
         wordVars
<1>8. CASE StatusBump(n)
  <2>1. TypeOK' /\ ReadApproved' /\ ReportsChecked'
    BY <1>8, ReturnInv DEF StatusBump, TypeOK, agentVars, storeVars, adminVars, wordVars
  <2> QED
    BY <1>8, <2>1 DEF StatusBump, storeVars, EnabledByAdminOnly, wordVars
<1> QED
  BY <1>1, <1>2, <1>3, <1>4, <1>5, <1>6, <1>7, <1>8 DEF StatusStep

\* handleNodeRoutes and handleNodeDelete
LEMMA AdminInv ==
  ASSUME IInv, NEW a \in Admins,
         \/ AdminStep(a)
         \/ \E n \in Nodes : DeleteNode(a, n) \/ \E S \in SUBSET Routes : EnableRead(a, n, S)
  PROVE  IInv'
<1> USE DEF IInv
<1>1. ASSUME NEW n \in Nodes, NEW S \in SUBSET Routes, EnableRead(a, n, S)
      PROVE  IInv'
  <2>1. TypeOK'
    BY <1>1 DEF EnableRead, TypeOK, agentVars, storeVars, statusVars, wordVars
  <2> QED
    BY <1>1, <2>1 DEF EnableRead, storeVars, statusVars, EnabledByAdminOnly, ReadApproved,
         InFlight, ReportsChecked, wordVars
<1>2. ASSUME NEW n \in Nodes, DeleteNode(a, n)
      PROVE  IInv'
  <2>1. TypeOK'
    BY <1>2, TouchedType DEF DeleteNode, TypeOK, MaybeAddr, agentVars, statusVars, wordVars
  <2>2. EnabledByAdminOnly'
    BY <1>2 DEF DeleteNode, TypeOK, EnabledByAdminOnly, wordVars
  <2> QED
    BY <1>2, <2>1, <2>2 DEF DeleteNode, statusVars, ReadApproved, InFlight, ReportsChecked,
         wordVars
<1>3. CASE EnableCheck(a)
  <2>1. ASSUME AdminReturn(a) PROVE TypeOK'
    BY <1>3, <2>1 DEF EnableCheck, AdminReturn, TypeOK, agentVars, storeVars, statusVars, wordVars
  <2>2. ASSUME apc' = [apc EXCEPT ![a] = "set"], UNCHANGED <<anode, areq>>
        PROVE  TypeOK'
    BY <1>3, <2>2 DEF EnableCheck, TypeOK, agentVars, storeVars, statusVars, wordVars
  <2>3. AdminReturn(a) \/ (apc' = [apc EXCEPT ![a] = "set"] /\ UNCHANGED <<anode, areq>>)
    BY <1>3 DEF EnableCheck
  <2>4. TypeOK'
    BY <2>1, <2>2, <2>3
  <2> QED
    BY <1>3, <2>4 DEF EnableCheck, storeVars, statusVars, EnabledByAdminOnly, ReadApproved,
         InFlight, ReportsChecked, wordVars
<1>4. CASE EnableSet(a)
  <2> DEFINE n == anode[a]
  <2>1. CASE exists[n]
    <3>1. /\ en' = [en EXCEPT ![n] = areq[a]]
          /\ word' = [word EXCEPT ![n] = areq[a]]
          /\ crossed' = [crossed EXCEPT ![n] = InFlight(n)]
          /\ apc' = [apc EXCEPT ![a] = "bump"]
          /\ UNCHANGED <<anode, areq>>
      BY <1>4, <2>1 DEF EnableSet
    <3>2. /\ n \in Nodes /\ areq[a] \in SUBSET Routes
          /\ en \in [Nodes -> SUBSET Routes]
          /\ word \in [Nodes -> SUBSET Routes] /\ crossed \in [Nodes -> SUBSET Routes]
          /\ InFlight(n) \in SUBSET Routes
      BY DEF TypeOK, InFlight
    <3> HIDE DEF n
    <3>3. /\ en' \in [Nodes -> SUBSET Routes]
          /\ word' \in [Nodes -> SUBSET Routes] /\ crossed' \in [Nodes -> SUBSET Routes]
      BY <3>1, <3>2
    <3>4. TypeOK'
      BY <1>4, <3>1, <3>3, TouchedType DEF EnableSet, TypeOK, agentVars, statusVars, wordVars
    <3>5. \A m \in Nodes : InFlight(m)' = InFlight(m)
      BY <1>4 DEF EnableSet, statusVars, InFlight
    <3>6. EnabledByAdminOnly'
      BY <3>1, <3>2 DEF EnabledByAdminOnly
    <3>7. ReadApproved'
      BY <3>1, <3>2, <3>5 DEF ReadApproved
    <3> QED
      BY <1>4, <3>4, <3>6, <3>7 DEF EnableSet, statusVars, ReportsChecked
  <2>2. CASE ~exists[n]
    <3>1. AdminReturn(a) /\ UNCHANGED <<en, wordVars>>
      BY <1>4, <2>2 DEF EnableSet
    <3>2. TypeOK'
      BY <1>4, <3>1, TouchedType DEF EnableSet, AdminReturn, TypeOK, agentVars, statusVars,
           wordVars
    <3> QED
      BY <1>4, <3>1, <3>2 DEF EnableSet, statusVars, EnabledByAdminOnly, ReadApproved, InFlight,
           ReportsChecked, wordVars
  <2> QED
    BY <2>1, <2>2
<1>5. CASE AdminBump(a)
  <2>1. TypeOK'
    BY <1>5 DEF AdminBump, AdminReturn, TypeOK, agentVars, storeVars, statusVars, wordVars
  <2> QED
    BY <1>5, <2>1 DEF AdminBump, storeVars, statusVars, EnabledByAdminOnly, ReadApproved,
         InFlight, ReportsChecked, wordVars
<1> QED
  BY <1>1, <1>2, <1>3, <1>4, <1>5 DEF AdminStep

\* Every step keeps the invariant.
LEMMA InvStep == IInv /\ [Next]_vars => IInv'
<1> SUFFICES ASSUME IInv, [Next]_vars PROVE IInv'
  OBVIOUS
<1>1. CASE UNCHANGED vars
  <2>1. TypeOK'
    BY <1>1 DEF IInv, TypeOK, vars, agentVars, storeVars, statusVars, adminVars, wordVars
  <2> QED
    BY <1>1, <2>1 DEF IInv, vars, storeVars, statusVars, EnabledByAdminOnly, ReadApproved,
         InFlight, ReportsChecked, wordVars
<1>2. CASE Next
  BY <1>2, AgentStep, HandlerStep, AdminInv DEF Next
<1> QED
  BY <1>1, <1>2

\* Every variable of handleStatus and handleNodeRoutes keeps its type; in particular a
\* list that normalizeRoutes refuses never reaches the tables.
THEOREM TypeCorrect == Spec => []TypeOK
<1>1. IInv => TypeOK
  BY DEF IInv
<1> QED
  BY <1>1, InitInv, InvStep, PTL DEF Spec

\* An enabled route is in the admin's last word for that node, or a heartbeat that had read
\* the node before that word was about to write it back; heartbeats, requests and deletions
\* between the read and the write of SetAdvertisedRoutes enable nothing else.
THEOREM AdminEnables == Spec => []EnabledByAdminOnly
<1>1. IInv => EnabledByAdminOnly
  BY DEF IInv
<1> QED
  BY <1>1, InitInv, InvStep, PTL DEF Spec
=============================================================================
