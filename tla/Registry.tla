------------------------------ MODULE Registry ------------------------------
(***************************************************************************)
(* The coordinator's registry: one-time enroll tokens, enrollment of nodes *)
(* and of the hub, static peers, overlay addresses, DNS records, deletion  *)
(* and the DNS backfill.  Requests run concurrently; each store call, each *)
(* call to the DNS provider and each lock operation is one step.  Only     *)
(* enrollment takes enrollMu.                                              *)
(*                                                                         *)
(* Overlay hosts are numbered 1..MaxHost (network and broadcast addresses  *)
(* are not hosts); host 1 is the hub's.  DNS labels are random and taken   *)
(* to be fresh: the n-th record ever made has the name n, and 0 stands for *)
(* the empty name.                                                         *)
(***************************************************************************)
EXTENDS Naturals, Sequences

CONSTANTS
  Requests,     \* enroll and static-peer requests, each made once
  Tokens,       \* enroll tokens, by their hash
  Uniques,      \* values of a UNIQUE column: a node's wg key, a static peer's name
  MaxHost,      \* bound: hosts in the overlay range
  Domain,       \* whether a DNS domain is configured (cfg.Domain # "")
  MaxDeletes,   \* bound: deletions by the admin
  MaxRestarts,  \* bound: coordinator crashes
  NoRequest     \* no holder of enrollMu

Hosts == 1..MaxHost
HubIP == 1
NoName == 0

ASSUME ConstantsAssumption ==
  /\ MaxHost \in Nat \ {0}
  /\ Domain \in BOOLEAN
  /\ MaxDeletes \in Nat
  /\ MaxRestarts \in Nat
  /\ NoRequest \notin Requests

VARIABLES
  (* the store *)
  rows,      \* rows[r]: the row request r created, or NoRow
  token,     \* state of each enroll token
  (* the DNS provider *)
  records,   \* records[f]: the address of name f, or 0 once it is gone
  (* requests *)
  pc, kind, tok, uniq, used, ip, dns,
  enrollMu,  \* the request holding enrollMu
  outcome,   \* what the client of r was told
  (* one deletion at a time by the admin *)
  del,
  (* the backfill goroutine of this process *)
  fill,
  (* history and bounds *)
  spent,     \* spent[t]: the requests whose row consumed token t
  deletes,
  restarts

reqVars == <<pc, kind, tok, uniq, used, ip, dns, outcome>>
storeVars == <<rows, token, spent>>
bounds == <<deletes, restarts>>
vars == <<storeVars, records, reqVars, enrollMu, del, fill, bounds>>

Kinds == {"hub", "node", "static"}
NoRow == [kind |-> "none", uniq |-> "none", ip |-> 0, dns |-> NoName]
Idle == [pc |-> "idle", id |-> NoRequest, dns |-> NoName]
FillOff == [pc |-> "off", todo |-> {}, id |-> NoRequest, dns |-> NoName]

Exists(r) == rows[r].kind # "none"
IsNode(r) == rows[r].kind \in {"hub", "node"}
IsStatic(r) == rows[r].kind = "static"
NodeRows == {r \in Requests : IsNode(r)}
StaticRows == {r \in Requests : IsStatic(r)}

StoreTypes ==
  /\ rows \in [Requests -> [kind : Kinds \union {"none"}, uniq : Uniques \union {"none"},
                            ip : Hosts \union {0}, dns : Nat]]
  /\ token \in [Tokens -> {"unknown", "valid", "used", "expired"}]
  /\ records \in Seq(Hosts \union {0})
  /\ spent \in [Tokens -> SUBSET Requests]

RequestTypes ==
  /\ pc \in [Requests -> {"new", "lock", "check", "hub", "ips", "staticIps",
                          "dns", "insert", "bump", "done"}]
  /\ kind \in [Requests -> Kinds \union {"none"}]
  /\ tok \in [Requests -> Tokens \union {"none"}]
  /\ uniq \in [Requests -> Uniques \union {"none"}]
  /\ used \in [Requests -> SUBSET Hosts]
  /\ ip \in [Requests -> Hosts \union {0}]
  /\ dns \in [Requests -> Nat]
  /\ enrollMu \in Requests \union {NoRequest}
  /\ outcome \in [Requests -> {"none", "ok", "error", "lost"}]

TaskTypes ==
  /\ del \in [pc : {"idle", "row", "dns", "bump"}, id : Requests \union {NoRequest}, dns : Nat]
  /\ fill \in [pc : {"off", "nodes", "ensureNode", "setNode", "statics", "ensureStatic",
                     "setStatic"},
               todo : SUBSET Requests, id : Requests \union {NoRequest}, dns : Nat]
  /\ deletes \in 0..MaxDeletes
  /\ restarts \in 0..MaxRestarts

TypeOK == StoreTypes /\ RequestTypes /\ TaskTypes

Init ==
  /\ rows = [r \in Requests |-> NoRow]
  /\ token = [t \in Tokens |-> "unknown"]
  /\ records = <<>>
  /\ pc = [r \in Requests |-> "new"]
  /\ kind = [r \in Requests |-> "none"]
  /\ tok = [r \in Requests |-> "none"]
  /\ uniq = [r \in Requests |-> "none"]
  /\ used = [r \in Requests |-> {}]
  /\ ip = [r \in Requests |-> 0]
  /\ dns = [r \in Requests |-> NoName]
  /\ enrollMu = NoRequest
  /\ outcome = [r \in Requests |-> "none"]
  /\ del = Idle
  /\ fill = FillOff
  /\ spent = [t \in Tokens |-> {}]
  /\ deletes = 0
  /\ restarts = 0

-----------------------------------------------------------------------------
(***************************************************************************)
(* Tokens.  Time passes by turning a valid token into an expired one.      *)
(***************************************************************************)

\* handleTokenCreate, CreateEnrollToken
CreateToken(t) ==
  /\ token[t] = "unknown"
  /\ token' = [token EXCEPT ![t] = "valid"]
  /\ UNCHANGED <<rows, spent, records, reqVars, enrollMu, del, fill, bounds>>

\* now reaches expires_at
ExpireToken(t) ==
  /\ token[t] = "valid"
  /\ token' = [token EXCEPT ![t] = "expired"]
  /\ UNCHANGED <<rows, spent, records, reqVars, enrollMu, del, fill, bounds>>

-----------------------------------------------------------------------------
(***************************************************************************)
(* Requests.                                                               *)
(***************************************************************************)

Goto(r, label) == pc' = [pc EXCEPT ![r] = label]

\* The handler returns; a deferred unlock releases enrollMu if it holds it.
Reply(r, result) ==
  /\ Goto(r, "done")
  /\ outcome' = [outcome EXCEPT ![r] = result]
  /\ enrollMu' = IF enrollMu = r THEN NoRequest ELSE enrollMu

\* handleEnroll up to the lock; malformed requests are turned away before it.
StartEnroll(r) ==
  /\ pc[r] = "new"
  /\ \E k \in {"hub", "node"}, t \in Tokens, u \in Uniques :
       /\ kind' = [kind EXCEPT ![r] = k]
       /\ tok' = [tok EXCEPT ![r] = t]
       /\ uniq' = [uniq EXCEPT ![r] = u]
  /\ Goto(r, "lock")
  /\ UNCHANGED <<storeVars, records, used, ip, dns, outcome, enrollMu, del, fill, bounds>>

\* handleStaticPeerCreate up to its first store call.
StartStatic(r) ==
  /\ pc[r] = "new"
  /\ kind' = [kind EXCEPT ![r] = "static"]
  /\ \E u \in Uniques : uniq' = [uniq EXCEPT ![r] = u]
  /\ Goto(r, "hub")
  /\ UNCHANGED <<storeVars, records, tok, used, ip, dns, outcome, enrollMu, del, fill, bounds>>

\* Seeded fault: the enrollment goes on without the lock.
LockEnrollNot(r) ==
  /\ pc[r] = "lock"
  /\ Goto(r, "check")
  /\ UNCHANGED <<storeVars, records, kind, tok, uniq, used, ip, dns, outcome, enrollMu,
                 del, fill, bounds>>

\* s.enrollMu.Lock()
LockEnroll(r) ==
  /\ pc[r] = "lock"
  /\ enrollMu = NoRequest
  /\ enrollMu' = r
  /\ Goto(r, "check")
  /\ UNCHANGED <<storeVars, records, kind, tok, uniq, used, ip, dns, outcome, del, fill, bounds>>

\* The first read of the nodes table: only one hub, which has a fixed address.
CheckHub(r) ==
  /\ pc[r] = "check"
  /\ \/ /\ kind[r] = "hub"
        /\ \E h \in NodeRows : rows[h].kind = "hub"
        /\ Reply(r, "error")
        /\ UNCHANGED ip
     \/ /\ kind[r] = "hub"
        /\ \A h \in NodeRows : rows[h].kind # "hub"
        /\ ip' = [ip EXCEPT ![r] = HubIP]
        /\ Goto(r, "dns")
        /\ UNCHANGED <<outcome, enrollMu>>
     \/ /\ kind[r] = "node"
        /\ Goto(r, "ips")
        /\ UNCHANGED <<ip, outcome, enrollMu>>
  /\ UNCHANGED <<storeVars, records, kind, tok, uniq, used, dns, del, fill, bounds>>

\* hubNode: no static peer without a hub.
FindHub(r) ==
  /\ pc[r] = "hub"
  /\ IF \E h \in NodeRows : rows[h].kind = "hub"
       THEN Goto(r, "ips") /\ UNCHANGED <<outcome, enrollMu>>
       ELSE Reply(r, "error")
  /\ UNCHANGED <<storeVars, records, kind, tok, uniq, used, ip, dns, del, fill, bounds>>

\* AllocatedIPs, first query: the nodes table.
ReadNodeIPs(r) ==
  /\ pc[r] = "ips"
  /\ used' = [used EXCEPT ![r] = {rows[n].ip : n \in NodeRows}]
  /\ Goto(r, "staticIps")
  /\ UNCHANGED <<storeVars, records, kind, tok, uniq, ip, dns, outcome, enrollMu, del, fill, bounds>>

\* Seeded fault: the hub's address is not reserved.
AllocateHubToo(taken) == {a \in Hosts \ taken : \A b \in Hosts \ taken : a <= b}

\* allocateIP: the lowest free host, the hub's address always reserved.  Empty
\* when the range is exhausted.
Allocate(taken) ==
  LET free == Hosts \ (taken \union {HubIP})
  IN  {a \in free : \A b \in free : a <= b}

\* AllocatedIPs, second query, and AllocateIP over what the two found.
ReadStaticIPs(r) ==
  /\ pc[r] = "staticIps"
  /\ LET choice == Allocate(used[r] \union {rows[n].ip : n \in StaticRows})
     IN  IF choice = {}
           THEN Reply(r, "error") /\ UNCHANGED ip
           ELSE /\ \E a \in choice : ip' = [ip EXCEPT ![r] = a]
                /\ Goto(r, "dns")
                /\ UNCHANGED <<outcome, enrollMu>>
  /\ used' = [used EXCEPT ![r] = {}]
  /\ UNCHANGED <<storeVars, records, kind, tok, uniq, dns, del, fill, bounds>>

\* EnsureA for a fresh name: it is made, or the call fails, or it is made and the
\* answer is lost.  ensureDNS returns the name only in the first case.
EnsureA(address, name) ==
  \/ records' = Append(records, address) /\ name = Len(records) + 1
  \/ UNCHANGED records /\ name = NoName
  \/ records' = Append(records, address) /\ name = NoName

\* ensureDNS: nothing is published without a domain.
EnsureDNS(r) ==
  /\ pc[r] = "dns"
  /\ IF Domain
       THEN \E f \in 0..(Len(records) + 1) :
              EnsureA(ip[r], f) /\ dns' = [dns EXCEPT ![r] = f]
       ELSE UNCHANGED <<records, dns>>
  /\ Goto(r, "insert")
  /\ UNCHANGED <<storeVars, kind, tok, uniq, used, ip, outcome, enrollMu, del, fill, bounds>>

\* The UNIQUE columns of the table the row goes to.
Insertable(r, table) ==
  /\ \A n \in table : rows[n].ip # ip[r] /\ rows[n].uniq # uniq[r]

NewRow(r) == [kind |-> kind[r], uniq |-> uniq[r], ip |-> ip[r], dns |-> dns[r]]

\* Seeded fault: the token is consumed outside the transaction of the insert.
InsertNodeBurning(r) ==
  /\ pc[r] = "insert"
  /\ kind[r] \in {"hub", "node"}
  /\ \/ /\ token[tok[r]] # "valid"
        /\ Reply(r, "error")
        /\ UNCHANGED storeVars
     \/ /\ token[tok[r]] = "valid"
        /\ ~Insertable(r, NodeRows)
        /\ token' = [token EXCEPT ![tok[r]] = "used"]
        /\ Reply(r, "error")
        /\ UNCHANGED <<rows, spent>>
     \/ /\ token[tok[r]] = "valid"
        /\ Insertable(r, NodeRows)
        /\ rows' = [rows EXCEPT ![r] = NewRow(r)]
        /\ token' = [token EXCEPT ![tok[r]] = "used"]
        /\ spent' = [spent EXCEPT ![tok[r]] = @ \union {r}]
        /\ Goto(r, "bump")
        /\ UNCHANGED <<outcome, enrollMu>>
  /\ UNCHANGED <<records, kind, tok, uniq, used, ip, dns, del, fill, bounds>>

\* Seeded fault: the transaction does not look at expires_at.
InsertNodeExpired(r) ==
  /\ pc[r] = "insert"
  /\ kind[r] \in {"hub", "node"}
  /\ IF token[tok[r]] \in {"valid", "expired"} /\ Insertable(r, NodeRows)
       THEN /\ rows' = [rows EXCEPT ![r] = NewRow(r)]
            /\ token' = [token EXCEPT ![tok[r]] = "used"]
            /\ spent' = [spent EXCEPT ![tok[r]] = @ \union {r}]
            /\ Goto(r, "bump")
            /\ UNCHANGED <<outcome, enrollMu>>
       ELSE Reply(r, "error") /\ UNCHANGED storeVars
  /\ UNCHANGED <<records, kind, tok, uniq, used, ip, dns, del, fill, bounds>>

\* store.EnrollNode: token and row in one transaction.
InsertNode(r) ==
  /\ pc[r] = "insert"
  /\ kind[r] \in {"hub", "node"}
  /\ IF token[tok[r]] = "valid" /\ Insertable(r, NodeRows)
       THEN /\ rows' = [rows EXCEPT ![r] = NewRow(r)]
            /\ token' = [token EXCEPT ![tok[r]] = "used"]
            /\ spent' = [spent EXCEPT ![tok[r]] = @ \union {r}]
            /\ Goto(r, "bump")
            /\ UNCHANGED <<outcome, enrollMu>>
       ELSE Reply(r, "error") /\ UNCHANGED storeVars
  /\ UNCHANGED <<records, kind, tok, uniq, used, ip, dns, del, fill, bounds>>

\* store.CreateStaticPeer
InsertStatic(r) ==
  /\ pc[r] = "insert"
  /\ kind[r] = "static"
  /\ IF Insertable(r, StaticRows)
       THEN /\ rows' = [rows EXCEPT ![r] = NewRow(r)]
            /\ Goto(r, "bump")
            /\ UNCHANGED <<outcome, enrollMu>>
       ELSE Reply(r, "error") /\ UNCHANGED rows
  /\ UNCHANGED <<token, spent, records, kind, tok, uniq, used, ip, dns, del, fill, bounds>>

\* bumpNetmap and the reply: it arrives, the bump fails (500), or it is lost.
BumpAndReply(r) ==
  /\ pc[r] = "bump"
  /\ \E result \in {"ok", "error", "lost"} : Reply(r, result)
  /\ UNCHANGED <<storeVars, records, kind, tok, uniq, used, ip, dns, del, fill, bounds>>

-----------------------------------------------------------------------------
(***************************************************************************)
(* handleNodeDelete and handleStaticPeerDelete.                            *)
(***************************************************************************)

RemoveRecord(f) == IF f = NoName THEN records ELSE [records EXCEPT ![f] = 0]

\* Seeded fault: the DNS record goes before the row does.
DeleteReadDNSFirst(r) ==
  /\ del.pc = "idle"
  /\ deletes < MaxDeletes
  /\ Exists(r)
  /\ deletes' = deletes + 1
  /\ records' = RemoveRecord(rows[r].dns)
  /\ del' = [pc |-> "row", id |-> r, dns |-> rows[r].dns]
  /\ UNCHANGED <<storeVars, reqVars, enrollMu, fill, restarts>>

\* nodeOr404, staticPeerOr404
DeleteRead(r) ==
  /\ del.pc = "idle"
  /\ deletes < MaxDeletes
  /\ Exists(r)
  /\ deletes' = deletes + 1
  /\ del' = [pc |-> "row", id |-> r, dns |-> rows[r].dns]
  /\ UNCHANGED <<storeVars, records, reqVars, enrollMu, fill, restarts>>

DeleteRow ==
  /\ del.pc = "row"
  /\ rows' = [rows EXCEPT ![del.id] = NoRow]
  /\ del' = [del EXCEPT !.pc = IF del.dns # NoName THEN "dns" ELSE "bump"]
  /\ UNCHANGED <<token, spent, records, reqVars, enrollMu, fill, bounds>>

\* DeleteA may fail, which is only logged.
DeleteDNS ==
  /\ del.pc = "dns"
  /\ records' \in {records, RemoveRecord(del.dns)}
  /\ del' = [del EXCEPT !.pc = "bump"]
  /\ UNCHANGED <<storeVars, reqVars, enrollMu, fill, bounds>>

DeleteDone ==
  /\ del.pc = "bump"
  /\ del' = Idle
  /\ UNCHANGED <<storeVars, records, reqVars, enrollMu, fill, bounds>>

-----------------------------------------------------------------------------
(***************************************************************************)
(* BackfillDNS: one pass over a snapshot of the nodes that lack a name,    *)
(* then one over the static peers.                                         *)
(***************************************************************************)

FillList ==
  /\ \/ /\ fill.pc = "nodes"
        /\ fill' = [fill EXCEPT !.pc = "ensureNode",
                                !.todo = {r \in NodeRows : rows[r].dns = NoName}]
     \/ /\ fill.pc = "statics"
        /\ fill' = [fill EXCEPT !.pc = "ensureStatic",
                                !.todo = {r \in StaticRows : rows[r].dns = NoName}]
  /\ UNCHANGED <<storeVars, records, reqVars, enrollMu, del, bounds>>

\* The next device of the snapshot.  Its address is the one read with the
\* snapshot, which is the row's for as long as the row exists.
FillEnsure ==
  /\ fill.pc \in {"ensureNode", "ensureStatic"}
  /\ \E r \in fill.todo, f \in 0..(Len(records) + 1) :
       /\ EnsureA(ip[r], f)
       /\ fill' = [fill EXCEPT !.todo = @ \ {r}, !.id = r, !.dns = f,
                               !.pc = IF f = NoName THEN @
                                      ELSE IF @ = "ensureNode" THEN "setNode" ELSE "setStatic"]
  /\ UNCHANGED <<storeVars, reqVars, enrollMu, del, bounds>>

\* SetNodeDNSName, SetStaticPeerDNSName: a row that is gone is left alone.
FillSet ==
  /\ fill.pc \in {"setNode", "setStatic"}
  /\ rows' = IF Exists(fill.id) THEN [rows EXCEPT ![fill.id].dns = fill.dns] ELSE rows
  /\ fill' = [fill EXCEPT !.pc = IF @ = "setNode" THEN "ensureNode" ELSE "ensureStatic",
                          !.id = NoRequest, !.dns = NoName]
  /\ UNCHANGED <<token, spent, records, reqVars, enrollMu, del, bounds>>

FillNextPass ==
  /\ fill.pc \in {"ensureNode", "ensureStatic"}
  /\ fill.todo = {}
  /\ fill' = IF fill.pc = "ensureNode" THEN [FillOff EXCEPT !.pc = "statics"] ELSE FillOff
  /\ UNCHANGED <<storeVars, records, reqVars, enrollMu, del, bounds>>

\* The coordinator dies and starts again: its handlers are gone with their locks,
\* their clients see the connection break, and the backfill runs.
Restart ==
  /\ restarts < MaxRestarts
  /\ restarts' = restarts + 1
  /\ pc' = [r \in Requests |-> IF pc[r] = "new" THEN "new" ELSE "done"]
  /\ outcome' = [r \in Requests |-> IF pc[r] \in {"new", "done"} THEN outcome[r] ELSE "lost"]
  /\ enrollMu' = NoRequest
  /\ del' = Idle
  /\ fill' = IF Domain THEN [FillOff EXCEPT !.pc = "nodes"] ELSE FillOff
  /\ UNCHANGED <<storeVars, records, kind, tok, uniq, used, ip, dns, deletes>>

-----------------------------------------------------------------------------
RequestStep(r) ==
  \/ StartEnroll(r)
  \/ StartStatic(r)
  \/ LockEnroll(r)
  \/ CheckHub(r)
  \/ FindHub(r)
  \/ ReadNodeIPs(r)
  \/ ReadStaticIPs(r)
  \/ EnsureDNS(r)
  \/ InsertNode(r)
  \/ InsertStatic(r)
  \/ BumpAndReply(r)

DeleteStep ==
  \/ \E r \in Requests : DeleteRead(r)
  \/ DeleteRow
  \/ DeleteDNS
  \/ DeleteDone

FillStep == FillList \/ FillEnsure \/ FillSet \/ FillNextPass

Next ==
  \/ \E t \in Tokens : CreateToken(t) \/ ExpireToken(t)
  \/ \E r \in Requests : RequestStep(r)
  \/ DeleteStep
  \/ FillStep
  \/ Restart

Spec == Init /\ [][Next]_vars

-----------------------------------------------------------------------------
(***************************************************************************)
(* Properties.                                                             *)
(***************************************************************************)

\* A one-time token that is used has made exactly one node, and a token that is
\* not used has made none: no failure before the insert burns it, and no two
\* enrollments share it.
TokenMakesOneNode ==
  \A t \in Tokens :
    IF token[t] = "used" THEN \E r \in Requests : spent[t] = {r}
                         ELSE spent[t] = {}

\* An address that enrollment allocated is still free in the nodes table when
\* the row is inserted: enrollMu makes the read and the write one step, so an
\* enrollment never fails on the UNIQUE address column.
EnrollAddressStaysFree ==
  \A r \in Requests :
    pc[r] \in {"dns", "insert"} /\ kind[r] \in {"hub", "node"}
      => \A n \in NodeRows : rows[n].ip # ip[r]

\* The hub and nobody else has the hub's address, so there is at most one hub
\* and its enrollment never finds its address taken.
HubAddressReserved ==
  /\ \A r \in Requests : Exists(r) => (rows[r].ip = HubIP <=> rows[r].kind = "hub")
  /\ \A r, q \in Requests : rows[r].kind = "hub" /\ rows[q].kind = "hub" => r = q

\* A device that has a DNS name is found under it: the record is made before the
\* row names it and removed after the row is gone, whatever backfill, deletion
\* and crashes do.
NamedDevicesResolve ==
  \A r \in Requests :
    Exists(r) /\ rows[r].dns # NoName
      => rows[r].dns <= Len(records) /\ records[rows[r].dns] = rows[r].ip

\* The node that request r has become, without its DNS name.
NodeOf(r) ==
  IF IsNode(r) THEN [kind |-> rows[r].kind, key |-> rows[r].uniq, ip |-> rows[r].ip]
               ELSE [kind |-> "none", key |-> "none", ip |-> 0]

Promise == INSTANCE EnrollmentPromise
  WITH node <- [r \in Requests |-> NodeOf(r)],
       made <- spent,
       told <- {r \in Requests : kind[r] # "static" /\ outcome[r] = "ok"},
       Keys <- Uniques, Addresses <- Hosts, HubAddress <- HubIP

\* Checking the hub, choosing an address, publishing a name and storing the row with
\* its token amount to one step: however enrollments, static peers, expiries,
\* deletions, backfill and crashes interleave with them, a token that is good when it
\* is used makes one node, with an address that no node has, the hub's for the hub, and
\* who is told so has been enrolled (node.go:28-30, store.go:256-257).
EnrollsAtomically == Promise!Spec

\* No two devices of the overlay share an address (allocateIP hands out the next
\* FREE overlay address, to nodes and static peers alike).
\* It does not hold of the code (README, Known divergences).
AddressesUnique ==
  \A r, q \in Requests :
    Exists(r) /\ Exists(q) /\ rows[r].ip = rows[q].ip => r = q

\* An enrollment that was refused or failed has not burnt its token.
\* It does not hold of the code (README, Known divergences).
FailedEnrollKeepsToken ==
  \A t \in Tokens, r \in Requests : r \in spent[t] => outcome[r] # "error"
-----------------------------------------------------------------------------
(***************************************************************************)
(* The inductive invariant behind the safety properties.                   *)
(***************************************************************************)

\* A row is what its request asked for, and the request is past its insert.
RowsFromRequests ==
  \A r \in Requests :
    Exists(r) => /\ pc[r] \in {"bump", "done"}
                 /\ rows[r].kind = kind[r] /\ rows[r].ip = ip[r] /\ ip[r] \in Hosts

\* What a request has found out by the time it reaches a step.
KindsFit ==
  \A r \in Requests :
    /\ kind[r] \in {"hub", "node"} => tok[r] \in Tokens
    /\ pc[r] \in {"lock", "check"} => kind[r] \in {"hub", "node"}
    /\ pc[r] = "hub" => kind[r] = "static"
    /\ pc[r] \in {"ips", "staticIps"} => kind[r] \in {"node", "static"}
    /\ pc[r] \in {"dns", "insert"} =>
         /\ kind[r] \in Kinds /\ ip[r] \in Hosts
         /\ ip[r] = HubIP <=> kind[r] = "hub"

\* From its first read to its insert an enrollment holds enrollMu.
OneEnrollment ==
  \A r \in Requests :
    pc[r] \in {"check", "ips", "staticIps", "dns", "insert"} /\ kind[r] \in {"hub", "node"}
      => enrollMu = r

\* Between its two reads an enrollment has not missed a node: nobody else adds one.
AddressesSeen ==
  \A r \in Requests :
    pc[r] = "staticIps" /\ kind[r] = "node" => \A n \in NodeRows : rows[n].ip \in used[r]

\* The name that r's device has, or is about to get with its row.
NameOf(r) ==
  IF Exists(r) THEN rows[r].dns ELSE IF pc[r] = "insert" THEN dns[r] ELSE NoName

NamesResolve ==
  \A r \in Requests :
    NameOf(r) # NoName => NameOf(r) \in 1..Len(records) /\ records[NameOf(r)] = ip[r]

NamesApart ==
  \A r, q \in Requests : NameOf(r) = NameOf(q) /\ NameOf(r) # NoName => r = q

NamesComeLate ==
  \A r \in Requests : pc[r] \notin {"insert", "bump", "done"} => dns[r] = NoName

\* The record that a deletion is going to remove is nobody else's, and once the
\* row is gone nobody's at all.
DeletionApart ==
  /\ del.pc = "row" => del.id \in Requests /\ Exists(del.id)
  /\ del.pc \in {"row", "dns"} /\ del.dns # NoName =>
       /\ del.dns \in 1..Len(records)
       /\ \A r \in Requests : NameOf(r) = del.dns => del.pc = "row" /\ r = del.id

\* The record that the backfill has made is there for its device, no device has its
\* name yet and no deletion is going to remove it.
FillApart ==
  /\ \A r \in fill.todo : pc[r] \in {"bump", "done"}
  /\ fill.pc \in {"setNode", "setStatic"} =>
       /\ fill.id \in Requests /\ pc[fill.id] \in {"bump", "done"}
       /\ fill.dns \in 1..Len(records) /\ records[fill.dns] = ip[fill.id]
       /\ \A r \in Requests : NameOf(r) # fill.dns
       /\ del.pc \in {"row", "dns"} => del.dns # fill.dns

AddressInv ==
  /\ RowsFromRequests /\ KindsFit /\ OneEnrollment /\ AddressesSeen
  /\ EnrollAddressStaysFree /\ HubAddressReserved

NameInv == NamesResolve /\ NamesApart /\ NamesComeLate /\ DeletionApart /\ FillApart

IInv == TypeOK /\ TokenMakesOneNode /\ AddressInv /\ NameInv

\* What the refinement of EnrollmentPromise needs besides: what a request asked for is
\* known once it is under way, a request that became a node is past its insert, and one
\* that is about to be told so, or was, did become a node.
AnswersInv ==
  \A r \in Requests :
    /\ pc[r] # "new" => uniq[r] \in Uniques
    /\ r \in Promise!Enrolled => pc[r] \in {"bump", "done"}
    /\ outcome[r] = "ok" => pc[r] = "done"
    /\ kind[r] # "static" /\ (pc[r] = "bump" \/ outcome[r] = "ok") => r \in Promise!Enrolled
=============================================================================
