---------------------------- MODULE NetmapPromise ----------------------------
(***************************************************************************)
(* What netmap distribution promises, without handlers, polls, channels,   *)
(* probes or crashes.  Tables change; now and then their content is        *)
(* announced under the next version number; at any time a node may come to *)
(* hold a netmap, an older one than it had included, provided the netmap   *)
(* is faithful: it has everything announced up to its version, and nothing *)
(* that was not committed.  NetmapSync implements this specification.      *)
(***************************************************************************)
EXTENDS Naturals, Sequences

CONSTANTS Nodes, Table

VARIABLES
  tables,  \* tables[t]: revision of table t, as committed
  log,     \* log[v]: the tables when version v was announced
  held     \* held[n]: the netmap node n acts on

vars == <<tables, log, held>>

\* What a version stands for; version 0 is a node's that never had a netmap.
Announced(v) == IF v = 0 THEN [t \in Table |-> 0] ELSE log[v]

Faithful(m) ==
  /\ m.version \in 0..Len(log)
  /\ \A t \in Table :
       Announced(m.version)[t] <= m.content[t] /\ m.content[t] <= tables[t]

Init ==
  /\ tables = [t \in Table |-> 0]
  /\ log = <<tables>>
  /\ \A n \in Nodes : Faithful(held[n])

Commit(T) ==
  /\ tables' = [t \in Table |-> IF t \in T THEN tables[t] + 1 ELSE tables[t]]
  /\ UNCHANGED <<log, held>>

Announce ==
  /\ log' = Append(log, tables)
  /\ UNCHANGED <<tables, held>>

Hold(n) ==
  /\ Faithful(held'[n])
  /\ held' = [held EXCEPT ![n] = held'[n]]
  /\ UNCHANGED <<tables, log>>

Next ==
  \/ \E T \in SUBSET Table : Commit(T)
  \/ Announce
  \/ \E n \in Nodes : Hold(n)

Spec == Init /\ [][Next]_vars
=============================================================================
