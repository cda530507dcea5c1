-------------------------- MODULE EnrollmentPromise -------------------------
(***************************************************************************)
(* What enrollment promises, without handlers, locks, reads of addresses,  *)
(* DNS, static peers or crashes.  A request becomes a node in one step,    *)
(* which spends a token that is good at that moment and takes an address   *)
(* that is free at that moment, the hub's for a hub and another for        *)
(* everybody else.  It does so once, whatever becomes of the node later,   *)
(* and it is told so only afterwards.  Registry implements this            *)
(* specification.                                                          *)
(***************************************************************************)
CONSTANTS Requests, Tokens, Keys, Addresses, HubAddress

VARIABLES
  token,  \* state of each enroll token
  node,   \* node[r]: the node that request r has become, or Absent
  made,   \* made[t]: the requests that became nodes with token t
  told    \* requests that were told they have succeeded

vars == <<token, node, made, told>>

Absent == [kind |-> "none", key |-> "none", ip |-> 0]
Node == [kind : {"hub", "node"}, key : Keys, ip : Addresses]

Enrolled == UNION {made[t] : t \in Tokens}

Init ==
  /\ token = [t \in Tokens |-> "unknown"]
  /\ node = [r \in Requests |-> Absent]
  /\ made = [t \in Tokens |-> {}]
  /\ told = {}

Issue(t) ==
  /\ token[t] = "unknown"
  /\ token' = [token EXCEPT ![t] = "valid"]
  /\ UNCHANGED <<node, made, told>>

Expire(t) ==
  /\ token[t] = "valid"
  /\ token' = [token EXCEPT ![t] = "expired"]
  /\ UNCHANGED <<node, made, told>>

\* Node n may join those that are there.
Admissible(n) ==
  /\ n.ip = HubAddress <=> n.kind = "hub"
  /\ \A q \in Requests : node[q] # Absent => node[q].ip # n.ip /\ node[q].key # n.key

Enroll(r, t) ==
  /\ token[t] = "valid" /\ made[t] = {} /\ r \notin Enrolled
  /\ \E n \in Node : Admissible(n) /\ node' = [node EXCEPT ![r] = n]
  /\ token' = [token EXCEPT ![t] = "used"]
  /\ made' = [made EXCEPT ![t] = {r}]
  /\ UNCHANGED told

Tell(r) ==
  /\ r \in Enrolled
  /\ told' = told \union {r}
  /\ UNCHANGED <<token, node, made>>

Remove(r) ==
  /\ node[r] # Absent
  /\ node' = [node EXCEPT ![r] = Absent]
  /\ UNCHANGED <<token, made, told>>

Next ==
  \/ \E t \in Tokens : Issue(t) \/ Expire(t)
  \/ \E r \in Requests : Tell(r) \/ Remove(r) \/ \E t \in Tokens : Enroll(r, t)

Spec == Init /\ [][Next]_vars
=============================================================================
