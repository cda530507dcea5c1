---------------------------- MODULE StatusRoutes ----------------------------
(***************************************************************************)
(* Status heartbeats and subnet routes: handleStatus stores what an agent  *)
(* reports (its endpoints, the subnets it advertises and, for the hub, the *)
(* endpoints it observed), handleNodeRoutes lets the admin enable a subset *)
(* of the advertised subnets.  Both are sequences of store calls without a *)
(* lock; SetAdvertisedRoutes itself is a read followed by an update.       *)
(*                                                                         *)
(* An agent's list of local endpoints is abstracted to one address.        *)
(* Routes are in the canonical form of normalizeRoutes; BadRoute stands    *)
(* for one it refuses (a default route, one that overlaps the overlay).    *)
(* The bump is one step here; NetmapSync looks inside it.                  *)
(***************************************************************************)
EXTENDS Naturals

CONSTANTS
  Nodes,        \* enrolled nodes, each sending heartbeats
  Hub,          \* the one whose reports carry observed endpoints
  Routes,       \* subnets
  Attached,     \* Attached[n]: the subnets n is in, which it offers to route at first
  Reoffers,     \* Reoffers[n]: what it may be configured to advertise later
  Addrs,        \* endpoints
  NoAddr,       \* no endpoint known
  BadRoute,     \* a route that normalizeRoutes refuses
  Admins,       \* goroutines running handleNodeRoutes
  MaxChanges,   \* bound: changes of an agent's endpoint or advertised subnets
  MaxRequests   \* bound: admin requests, deletions included

\* What an agent may be configured to advertise, right or wrong.
Offers == (SUBSET Routes) \union {{BadRoute}}

ASSUME ConstantsAssumption ==
  /\ Hub \in Nodes
  /\ Attached \in [Nodes -> SUBSET Routes]
  /\ Reoffers \in [Nodes -> SUBSET Offers]
  /\ Addrs # {}
  /\ NoAddr \notin Addrs
  /\ BadRoute \notin Routes
  /\ MaxChanges \in Nat
  /\ MaxRequests \in Nat

VARIABLES
  (* agents *)
  addr,       \* addr[n]: the endpoint n is reachable at
  offered,    \* offered[n]: what n is configured to advertise
  (* store *)
  exists,     \* whether n's row exists
  local,      \* endpoints of kind local
  observed,   \* endpoints of kind observed
  adv,        \* routes_advertised
  en,         \* routes_enabled
  (* status handlers, one per node *)
  spc, rep, oldAdv, oldEn, need, todo,
  (* admin handlers *)
  apc, anode, areq,
  (* history and bounds *)
  unsent,     \* what changed in the tables since the netmap version last grew
  word,       \* word[n]: the routes of the last SetEnabledRoutes for n
  crossed,    \* crossed[n]: routes that a heartbeat had read by then, to be written later
  changes, requests

agentVars == <<addr, offered>>
storeVars == <<exists, local, observed, adv, en>>
statusVars == <<spc, rep, oldAdv, oldEn, need, todo>>
adminVars == <<apc, anode, areq>>
wordVars == <<word, crossed>>
vars == <<agentVars, storeVars, statusVars, adminVars, unsent, wordVars, changes, requests>>

MaybeAddr == Addrs \union {NoAddr}
Unseen == [n \in Nodes |-> NoAddr]

NoReport == [addr |-> NoAddr, routes |-> {}, seen |-> Unseen]

TypeOK ==
  /\ addr \in [Nodes -> Addrs]
  /\ offered \in [Nodes -> Offers]
  /\ exists \in [Nodes -> BOOLEAN]
  /\ local \in [Nodes -> MaybeAddr]
  /\ observed \in [Nodes -> MaybeAddr]
  /\ adv \in [Nodes -> SUBSET Routes]
  /\ en \in [Nodes -> SUBSET Routes]
  /\ spc \in [Nodes -> {"idle", "local", "read", "write", "nodes", "observe", "bump"}]
  /\ rep \in [Nodes -> [addr : MaybeAddr, routes : Offers, seen : [Nodes -> MaybeAddr]]]
  /\ oldAdv \in [Nodes -> SUBSET Routes]
  /\ oldEn \in [Nodes -> SUBSET Routes]
  /\ need \in [Nodes -> BOOLEAN]
  /\ todo \in [Nodes -> SUBSET Nodes]
  /\ apc \in [Admins -> {"idle", "others", "set", "bump"}]
  /\ anode \in [Admins -> Nodes]
  /\ areq \in [Admins -> SUBSET Routes]
  /\ word \in [Nodes -> SUBSET Routes]
  /\ crossed \in [Nodes -> SUBSET Routes]
  /\ unsent \subseteq {"endpoints", "routes"}
  /\ changes \in 0..MaxChanges
  /\ requests \in 0..MaxRequests

\* Agents have started with their --advertise-routes and nobody has reported yet.
\* Where a node is at first makes no difference: its address is only ever compared
\* with what was stored for the same node.
Init ==
  /\ addr = [n \in Nodes |-> CHOOSE x \in Addrs : TRUE]
  /\ offered = Attached
  /\ exists = [n \in Nodes |-> TRUE]
  /\ local = [n \in Nodes |-> NoAddr]
  /\ observed = [n \in Nodes |-> NoAddr]
  /\ adv = [n \in Nodes |-> {}]
  /\ en = [n \in Nodes |-> {}]
  /\ spc = [n \in Nodes |-> "idle"]
  /\ rep = [n \in Nodes |-> NoReport]
  /\ oldAdv = [n \in Nodes |-> {}]
  /\ oldEn = [n \in Nodes |-> {}]
  /\ need = [n \in Nodes |-> FALSE]
  /\ todo = [n \in Nodes |-> {}]
  /\ apc = [a \in Admins |-> "idle"]
  /\ anode = [a \in Admins |-> Hub]
  /\ areq = [a \in Admins |-> {}]
  /\ unsent = {}
  /\ word = [n \in Nodes |-> {}]
  /\ crossed = [n \in Nodes |-> {}]
  /\ changes = 0
  /\ requests = 0

\* A step that may change what netmaps are made of: what is left to announce.
Touched ==
  unsent' = unsent
    \union (IF UNCHANGED <<local, observed>> THEN {} ELSE {"endpoints"})
    \union (IF UNCHANGED en THEN {} ELSE {"routes"})

(***************************************************************************)
(* Agents: they move, and restart with other --advertise-routes.           *)
(***************************************************************************)
Move(n) ==
  /\ changes < MaxChanges
  /\ changes' = changes + 1
  /\ \E x \in Addrs \ {addr[n]} : addr' = [addr EXCEPT ![n] = x]
  /\ UNCHANGED <<offered, storeVars, statusVars, adminVars, unsent, wordVars, requests>>

Offer(n) ==
  /\ changes < MaxChanges
  /\ changes' = changes + 1
  /\ \E x \in Reoffers[n] \ {offered[n]} : offered' = [offered EXCEPT ![n] = x]
  /\ UNCHANGED <<addr, storeVars, statusVars, adminVars, unsent, wordVars, requests>>

-----------------------------------------------------------------------------
(***************************************************************************)
(* handleStatus                                                            *)
(***************************************************************************)

\* The handler returns without a bump; its locals are gone.
StatusReturn(n) ==
  /\ spc' = [spc EXCEPT ![n] = "idle"]
  /\ rep' = [rep EXCEPT ![n] = NoReport]
  /\ oldAdv' = [oldAdv EXCEPT ![n] = {}]
  /\ oldEn' = [oldEn EXCEPT ![n] = {}]
  /\ need' = [need EXCEPT ![n] = FALSE]
  /\ todo' = [todo EXCEPT ![n] = {}]

\* observedPeers: the hub sees the peers whose handshake is fresh.
ObservedPeers(n) ==
  IF n = Hub
    THEN {[m \in Nodes |-> IF m \in Fresh THEN addr[m] ELSE NoAddr] :
            Fresh \in SUBSET (Nodes \ {Hub})}
    ELSE {Unseen}

\* reportStatus, accepted by withNode.
Report(n) ==
  /\ spc[n] = "idle"
  /\ exists[n]
  /\ spc' = [spc EXCEPT ![n] = "local"]
  /\ \E o \in ObservedPeers(n) :
       rep' = [rep EXCEPT ![n] = [addr |-> addr[n], routes |-> offered[n], seen |-> o]]
  /\ UNCHANGED <<agentVars, storeVars, oldAdv, oldEn, need, todo, adminVars, unsent,
                 wordVars, changes, requests>>

\* ReplaceEndpoints of kind local, then normalizeRoutes: a refused list ends the
\* request with 400.  For a deleted node the insert fails on its foreign key.
StoreLocal(n) ==
  /\ spc[n] = "local"
  /\ IF ~exists[n]
       THEN StatusReturn(n) /\ UNCHANGED local
       ELSE /\ local' = [local EXCEPT ![n] = rep[n].addr]
            /\ IF BadRoute \in rep[n].routes
                 THEN StatusReturn(n)
                 ELSE /\ spc' = [spc EXCEPT ![n] = "read"]
                      /\ need' = [need EXCEPT ![n] = local[n] # rep[n].addr]
                      /\ UNCHANGED <<rep, oldAdv, oldEn, todo>>
  /\ UNCHANGED <<agentVars, exists, observed, adv, en, adminVars, wordVars,
                 changes, requests>>
  /\ Touched

\* SetAdvertisedRoutes: the read.
ReadRoutes(n) ==
  /\ spc[n] = "read"
  /\ IF exists[n]
       THEN /\ oldAdv' = [oldAdv EXCEPT ![n] = adv[n]]
            /\ oldEn' = [oldEn EXCEPT ![n] = en[n]]
            /\ spc' = [spc EXCEPT ![n] = "write"]
            /\ UNCHANGED <<rep, need, todo>>
       ELSE StatusReturn(n)
  /\ UNCHANGED <<agentVars, storeVars, adminVars, unsent, wordVars, changes, requests>>

\* Seeded fault: what a node advertises is enabled right away.
KeptRoutesAll(n) == rep[n].routes

\* Seeded fault: an enabled route survives its retraction.
KeptRoutesOld(n) == oldEn[n]

\* The enabled routes the report still advertises, of those that were read.
KeptRoutes(n) == oldEn[n] \intersect rep[n].routes

\* SetAdvertisedRoutes: the update, skipped when nothing changed.
WriteRoutes(n) ==
  /\ spc[n] = "write"
  /\ IF exists[n] /\ (rep[n].routes # oldAdv[n] \/ KeptRoutes(n) # oldEn[n])
       THEN /\ adv' = [adv EXCEPT ![n] = rep[n].routes]
            /\ en' = [en EXCEPT ![n] = KeptRoutes(n)]
       ELSE UNCHANGED <<adv, en>>
  /\ need' = [need EXCEPT ![n] = @ \/ KeptRoutes(n) # oldEn[n]]
  /\ spc' = [spc EXCEPT ![n] = IF rep[n].seen # Unseen THEN "nodes" ELSE "bump"]
  /\ UNCHANGED <<agentVars, exists, local, observed, rep, oldAdv, oldEn, todo, adminVars,
                 wordVars, changes, requests>>
  /\ Touched

\* The hub's report: which of the observed keys belong to nodes.
ListNodes(n) ==
  /\ spc[n] = "nodes"
  /\ todo' = [todo EXCEPT ![n] = {m \in Nodes : exists[m] /\ rep[n].seen[m] # NoAddr}]
  /\ spc' = [spc EXCEPT ![n] = "observe"]
  /\ UNCHANGED <<agentVars, storeVars, rep, oldAdv, oldEn, need, adminVars, unsent,
                 wordVars, changes, requests>>

\* ReplaceEndpoints of kind observed, peer by peer; a peer deleted meanwhile
\* fails on its foreign key and ends the request with 500.
StoreObserved(n) ==
  /\ spc[n] = "observe"
  /\ \E m \in todo[n] :
       IF exists[m]
         THEN /\ observed' = [observed EXCEPT ![m] = rep[n].seen[m]]
              /\ need' = [need EXCEPT ![n] = @ \/ observed[m] # rep[n].seen[m]]
              /\ todo' = [todo EXCEPT ![n] = @ \ {m}]
              /\ UNCHANGED <<spc, rep, oldAdv, oldEn>>
         ELSE StatusReturn(n) /\ UNCHANGED observed
  /\ UNCHANGED <<agentVars, exists, local, adv, en, adminVars, wordVars,
                 changes, requests>>
  /\ Touched

ObserveDone(n) ==
  /\ spc[n] = "observe"
  /\ todo[n] = {}
  /\ spc' = [spc EXCEPT ![n] = "bump"]
  /\ UNCHANGED <<agentVars, storeVars, rep, oldAdv, oldEn, need, todo, adminVars, unsent,
                 wordVars, changes, requests>>

\* bumpNetmap when something changed, and the reply.
StatusBump(n) ==
  /\ spc[n] = "bump"
  /\ unsent' = IF need[n] THEN {} ELSE unsent
  /\ StatusReturn(n)
  /\ UNCHANGED <<agentVars, storeVars, adminVars, wordVars, changes, requests>>

-----------------------------------------------------------------------------
(***************************************************************************)
(* handleNodeRoutes, handleNodeDelete                                      *)
(***************************************************************************)

AdminReturn(a) ==
  /\ apc' = [apc EXCEPT ![a] = "idle"]
  /\ anode' = [anode EXCEPT ![a] = Hub]
  /\ areq' = [areq EXCEPT ![a] = {}]

\* nodeOr404 and the check that every route is advertised by the node.
EnableRead(a, n, S) ==
  /\ apc[a] = "idle"
  /\ requests < MaxRequests
  /\ exists[n]
  /\ S \subseteq adv[n]
  /\ requests' = requests + 1
  /\ apc' = [apc EXCEPT ![a] = "others"]
  /\ anode' = [anode EXCEPT ![a] = n]
  /\ areq' = [areq EXCEPT ![a] = S]
  /\ UNCHANGED <<agentVars, storeVars, statusVars, unsent, wordVars, changes>>

\* The check that no other node serves one of the routes.
EnableCheck(a) ==
  /\ apc[a] = "others"
  /\ IF \E m \in Nodes \ {anode[a]} : exists[m] /\ en[m] \intersect areq[a] # {}
       THEN AdminReturn(a)
       ELSE /\ apc' = [apc EXCEPT ![a] = "set"]
            /\ UNCHANGED <<anode, areq>>
  /\ UNCHANGED <<agentVars, storeVars, statusVars, unsent, wordVars, changes, requests>>

\* What a heartbeat of n between its read and its update is going to write.
InFlight(n) ==
  LET kept == oldEn[n] \intersect rep[n].routes
  IN  IF spc[n] = "write" /\ (rep[n].routes # oldAdv[n] \/ kept # oldEn[n]) THEN kept ELSE {}

\* SetEnabledRoutes; a row that is gone ends the request with 500.
EnableSet(a) ==
  /\ apc[a] = "set"
  /\ IF exists[anode[a]]
       THEN /\ en' = [en EXCEPT ![anode[a]] = areq[a]]
            /\ word' = [word EXCEPT ![anode[a]] = areq[a]]
            /\ crossed' = [crossed EXCEPT ![anode[a]] = InFlight(anode[a])]
            /\ apc' = [apc EXCEPT ![a] = "bump"]
            /\ UNCHANGED <<anode, areq>>
       ELSE AdminReturn(a) /\ UNCHANGED <<en, wordVars>>
  /\ UNCHANGED <<agentVars, exists, local, observed, adv, statusVars, changes,
                 requests>>
  /\ Touched

\* DeleteNode: the row and, by cascade, its endpoints.
DeleteNode(a, n) ==
  /\ apc[a] = "idle"
  /\ requests < MaxRequests
  /\ exists[n]
  /\ requests' = requests + 1
  /\ exists' = [exists EXCEPT ![n] = FALSE]
  /\ local' = [local EXCEPT ![n] = NoAddr]
  /\ observed' = [observed EXCEPT ![n] = NoAddr]
  /\ adv' = [adv EXCEPT ![n] = {}]
  /\ en' = [en EXCEPT ![n] = {}]
  /\ apc' = [apc EXCEPT ![a] = "bump"]
  /\ UNCHANGED <<agentVars, statusVars, anode, areq, wordVars, changes>>
  /\ Touched

AdminBump(a) ==
  /\ apc[a] = "bump"
  /\ unsent' = {}
  /\ AdminReturn(a)
  /\ UNCHANGED <<agentVars, storeVars, statusVars, wordVars, changes, requests>>

-----------------------------------------------------------------------------
StatusStep(n) ==
  \/ Report(n)
  \/ StoreLocal(n)
  \/ ReadRoutes(n)
  \/ WriteRoutes(n)
  \/ ListNodes(n)
  \/ StoreObserved(n)
  \/ ObserveDone(n)
  \/ StatusBump(n)

AdminStep(a) ==
  \/ EnableCheck(a)
  \/ EnableSet(a)
  \/ AdminBump(a)

Next ==
  \/ \E n \in Nodes : Move(n) \/ Offer(n) \/ StatusStep(n)
  \/ \E a \in Admins :
       \/ AdminStep(a)
       \/ \E n \in Nodes : DeleteNode(a, n) \/ \E S \in SUBSET Routes : EnableRead(a, n, S)

Spec == Init /\ [][Next]_vars

\* Agents keep sending heartbeats and handlers finish.
FairSpec ==
  /\ Spec
  /\ \A n \in Nodes : WF_vars(StatusStep(n))
  /\ \A a \in Admins : WF_vars(AdminStep(a))

-----------------------------------------------------------------------------
(***************************************************************************)
(* Properties.                                                             *)
(***************************************************************************)

\* Only the admin puts a subnet into netmaps: whatever races with whatever, an enabled
\* route is in the admin's last word for that node.  The one way around it is a heartbeat
\* that read the node before that word was stored and updates it afterwards, with no
\* more than it had read and still reports.
EnabledByAdminOnly == \A n \in Nodes : en[n] \subseteq word[n] \union crossed[n]

\* What the admin disabled stays off: SetEnabledRoutes "stores the admin-approved subset"
\* (store.go:365), heartbeats only drop from it (store.go:332-333).
\* It does not hold of the code (README, Known divergences).
DisableSticks == \A n \in Nodes : en[n] \subseteq word[n]

\* The routes of a node are back within what it advertises, for good, once its
\* agent and the admin are left alone: the next heartbeat drops what a race had
\* left enabled.  An agent whose list is refused is never heard.
EnabledConverges ==
  <>[](\A n \in Nodes :
         exists[n] /\ BadRoute \notin offered[n] => en[n] \subseteq offered[n])

\* A route is served by one node at a time (the comment on handleNodeRoutes).
\* It does not hold of the code (README, Known divergences).
OneRouterPerRoute ==
  \A n, m \in Nodes : n # m => en[n] \intersect en[m] = {}

\* Enabled routes are a subset of the advertised ones (the comments on
\* handleNodeRoutes and SetAdvertisedRoutes).
\* It does not hold of the code (README, Known divergences).
EnabledIsAdvertised == \A n \in Nodes : en[n] \subseteq adv[n]

Quiet == (\A n \in Nodes : spc[n] = "idle") /\ (\A a \in Admins : apc[a] = "idle")

\* Changes of endpoints reach the long-polls: with no handler under way, what
\* the tables hold is what the last bump announced.
\* It does not hold of the code (README, Known divergences).
EndpointsAnnounced ==
  Quiet => "endpoints" \notin unsent

\* The same for enabled routes: a retraction always bumps the netmap.
\* It does not hold of the code (README, Known divergences).
RoutesAnnounced == Quiet => "routes" \notin unsent

-----------------------------------------------------------------------------
(***************************************************************************)
(* The inductive invariant behind EnabledByAdminOnly.                      *)
(***************************************************************************)

\* What SetAdvertisedRoutes read as enabled, and may write back later, is the admin's
\* word or was overtaken by it.
ReadApproved == \A n \in Nodes : InFlight(n) \subseteq word[n] \union crossed[n]

\* A report that gets as far as the routes has passed normalizeRoutes.
ReportsChecked == \A n \in Nodes : spc[n] \in {"read", "write"} => rep[n].routes \subseteq Routes

IInv == TypeOK /\ EnabledByAdminOnly /\ ReadApproved /\ ReportsChecked
=============================================================================
