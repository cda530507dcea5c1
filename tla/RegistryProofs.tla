--------------------------- MODULE RegistryProofs ---------------------------
(***************************************************************************)
(* Proofs about Registry: its types, TokenMakesOneNode,                    *)
(* EnrollAddressStaysFree, HubAddressReserved and NamedDevicesResolve, and *)
(* that it implements EnrollmentPromise, for any number of requests,       *)
(* tokens, hosts, deletions and restarts.                                  *)
(*                                                                         *)
(* The argument has two halves.  Addresses: enrollMu is held from the read *)
(* of the addresses to the insert, so what was free stays free.  Names: a  *)
(* record is made for one device before its row names it, a deletion       *)
(* removes one that no row names any more, and the backfill's is in        *)
(* nobody's hands but its own.  With them, the insert of a node maps to an *)
(* Enroll of the promise, and the reads before it to nothing.              *)
(***************************************************************************)
EXTENDS Registry, SequenceTheorems, TLAPS

USE ConstantsAssumption DEF Hosts, HubIP, NoName

\* Init establishes the invariant.
LEMMA InitInv == Init => IInv
<1> SUFFICES ASSUME Init PROVE IInv
  OBVIOUS
<1>1. StoreTypes
  <2>1. records = <<>>
    BY DEF Init
  <2>2. records \in Seq(Hosts \union {0})
    BY <2>1
  <2> QED
    BY <2>2 DEF Init, StoreTypes, NoRow
<1>2. RequestTypes /\ TaskTypes
  BY DEF Init, RequestTypes, TaskTypes, Idle, FillOff
<1>3. TokenMakesOneNode
  BY DEF Init, TokenMakesOneNode
<1>4. \A r \in Requests : ~Exists(r) /\ NameOf(r) = NoName
  BY DEF Init, Exists, NameOf, NoRow
<1>5. AddressInv
  BY <1>4 DEF Init, AddressInv, RowsFromRequests, KindsFit, OneEnrollment, AddressesSeen,
              EnrollAddressStaysFree, HubAddressReserved, Exists, NodeRows, IsNode, NoRow
<1>6. NameInv
  BY <1>4 DEF Init, NameInv, NamesResolve, NamesApart, NamesComeLate, DeletionApart, FillApart,
              Idle, FillOff
<1> QED
  BY <1>1, <1>2, <1>3, <1>5, <1>6 DEF IInv, TypeOK

-----------------------------------------------------------------------------
(* What the operators do to the records.                                   *)

\* EnsureA adds at most one record, at the end, and returns its name or none.
LEMMA EnsureFacts ==
  ASSUME StoreTypes, NEW a \in Hosts \union {0}, NEW f, EnsureA(a, f)
  PROVE  /\ records' \in Seq(Hosts \union {0}) /\ Len(records) <= Len(records')
         /\ \A i \in 1..Len(records) : records'[i] = records[i]
         /\ f = NoName \/ (f = Len(records) + 1 /\ f \in 1..Len(records') /\ records'[f] = a)
         /\ Len(records) \in Nat
<1>1. records \in Seq(Hosts \union {0}) /\ Len(records) \in Nat
  BY LenProperties DEF StoreTypes
<1>2. CASE UNCHANGED records /\ f = NoName
  BY <1>1, <1>2
<1>3. CASE records' = Append(records, a)
  BY <1>1, <1>3, AppendProperties DEF EnsureA
<1> QED
  BY <1>2, <1>3 DEF EnsureA

\* Removing a record leaves the other names alone.
LEMMA RemoveFacts ==
  ASSUME StoreTypes, NEW f \in 0..Len(records)
  PROVE  /\ RemoveRecord(f) \in Seq(Hosts \union {0}) /\ Len(RemoveRecord(f)) = Len(records)
         /\ \A i \in 1..Len(records) : i # f => RemoveRecord(f)[i] = records[i]
<1>1. records \in Seq(Hosts \union {0}) /\ Len(records) \in Nat
  BY LenProperties DEF StoreTypes
<1>2. CASE f = NoName
  BY <1>1, <1>2 DEF RemoveRecord
<1>3. CASE f \in 1..Len(records)
  BY <1>1, <1>3, ExceptSeq, 0 \in Hosts \union {0} DEF RemoveRecord
<1> QED
  BY <1>1, <1>2, <1>3

\* The address that was chosen is a host that is not taken and not the hub's.
LEMMA AllocateFacts ==
  ASSUME NEW taken, NEW a \in Allocate(taken)
  PROVE  a \in Hosts /\ a \notin taken /\ a # HubIP
BY DEF Allocate

-----------------------------------------------------------------------------
(* What a step that leaves a part alone keeps.                             *)

\* The addresses: a step of the admin or of the backfill, which touches neither the
\* requests nor the addresses of rows.
LEMMA AddressesKept ==
  ASSUME AddressInv, UNCHANGED <<pc, kind, tok, used, ip, enrollMu>>,
         \A n \in Requests : /\ rows'[n].kind = rows[n].kind \/ rows'[n].kind = "none"
                             /\ rows'[n].ip = rows[n].ip \/ rows'[n].kind = "none"
  PROVE  AddressInv'
<1>1. \A n \in Requests : Exists(n)' => Exists(n)
  BY DEF Exists
<1>2. \A n \in NodeRows' : n \in NodeRows /\ rows'[n].ip = rows[n].ip
  BY DEF NodeRows, IsNode
<1>3. RowsFromRequests' /\ KindsFit' /\ OneEnrollment'
  BY <1>1 DEF AddressInv, RowsFromRequests, KindsFit, OneEnrollment, Exists
<1>4. AddressesSeen' /\ EnrollAddressStaysFree'
  BY <1>2 DEF AddressInv, AddressesSeen, EnrollAddressStaysFree
<1>5. HubAddressReserved'
  BY DEF AddressInv, HubAddressReserved, Exists
<1> QED
  BY <1>3, <1>4, <1>5 DEF AddressInv

\* The names: a step that gives out no name, removes no record and does not take part
\* in a deletion or in the backfill.
LEMMA NamesKept ==
  ASSUME TypeOK, NameInv, UNCHANGED <<dns, del, fill, records>>,
         \A r \in Requests :
           /\ NameOf(r)' \in {NameOf(r), NoName}
           /\ NameOf(r) # NoName => ip'[r] = ip[r]
           /\ pc[r] \in {"bump", "done"} => pc'[r] \in {"bump", "done"} /\ ip'[r] = ip[r]
           /\ pc'[r] \notin {"insert", "bump", "done"} => pc[r] \notin {"insert", "bump", "done"}
           /\ Exists(r) => Exists(r)'
  PROVE  NameInv'
<1>1. NamesResolve'
  BY DEF NameInv, NamesResolve
<1>2. NamesApart'
  BY DEF NameInv, NamesApart
<1>3. NamesComeLate'
  BY DEF NameInv, NamesComeLate
<1>4. DeletionApart'
  BY DEF NameInv, DeletionApart
<1>5. FillApart'
  BY DEF NameInv, FillApart, TypeOK, TaskTypes
<1> QED
  BY <1>1, <1>2, <1>3, <1>4, <1>5 DEF NameInv
-----------------------------------------------------------------------------
(* Requests before their insert, and after it.                             *)

\* The steps of r that leave the store and the DNS provider alone.
ReadingStep(r) ==
  \/ StartEnroll(r) \/ StartStatic(r) \/ LockEnroll(r) \/ CheckHub(r) \/ FindHub(r)
  \/ ReadNodeIPs(r) \/ ReadStaticIPs(r) \/ BumpAndReply(r)

\* What they have in common: r alone moves, no row is behind it unless it is about to
\* reply, and no name.
LEMMA ReadingMoves ==
  ASSUME IInv, NEW r \in Requests, ReadingStep(r)
  PROVE  /\ UNCHANGED <<storeVars, records, dns, del, fill, bounds>>
         /\ RequestTypes'
         /\ \A q \in Requests \ {r} :
              /\ pc'[q] = pc[q] /\ kind'[q] = kind[q] /\ tok'[q] = tok[q]
              /\ ip'[q] = ip[q] /\ used'[q] = used[q]
              /\ enrollMu = q => enrollMu' = q
         /\ pc[r] \in {"new", "lock", "check", "hub", "ips", "staticIps", "bump"}
         /\ pc'[r] \in {"lock", "check", "hub", "ips", "staticIps", "dns", "done"}
         /\ pc[r] = "bump" => pc'[r] = "done" /\ ip'[r] = ip[r] /\ kind'[r] = kind[r]
         /\ pc[r] # "bump" => ~Exists(r)
<1> USE DEF IInv, TypeOK, RequestTypes, Goto, Reply
<1>1. CASE StartEnroll(r) \/ StartStatic(r)
  BY <1>1 DEF StartEnroll, StartStatic, Kinds, AddressInv, RowsFromRequests
<1>2. CASE LockEnroll(r)
  BY <1>2 DEF LockEnroll, AddressInv, RowsFromRequests
<1>3. CASE CheckHub(r)
  BY <1>3 DEF CheckHub, AddressInv, RowsFromRequests
<1>4. CASE FindHub(r)
  BY <1>4 DEF FindHub, AddressInv, RowsFromRequests
<1>5. CASE ReadNodeIPs(r)
  <2>1. {rows[n].ip : n \in NodeRows} \subseteq Hosts
    BY DEF AddressInv, RowsFromRequests, NodeRows, IsNode, Exists
  <2> QED
    BY <1>5, <2>1 DEF ReadNodeIPs, AddressInv, RowsFromRequests
<1>6. CASE ReadStaticIPs(r)
  BY <1>6, AllocateFacts DEF ReadStaticIPs, AddressInv, RowsFromRequests
<1>7. CASE BumpAndReply(r)
  BY <1>7 DEF BumpAndReply, AddressInv, RowsFromRequests
<1> QED
  BY <1>1, <1>2, <1>3, <1>4, <1>5, <1>6, <1>7 DEF ReadingStep

\* What r has found out when it gets on.
LEMMA ReadingFinds ==
  ASSUME IInv, NEW r \in Requests, ReadingStep(r), NEW l, pc'[r] = l
  PROVE  /\ kind'[r] \in {"hub", "node"} => tok'[r] \in Tokens
         /\ l \in {"lock", "check"} => kind'[r] \in {"hub", "node"}
         /\ l = "hub" => kind'[r] = "static"
         /\ l \in {"ips", "staticIps"} => kind'[r] \in {"node", "static"}
         /\ l = "dns" => /\ kind'[r] \in Kinds /\ ip'[r] \in Hosts
                         /\ ip'[r] = HubIP <=> kind'[r] = "hub"
                         /\ kind'[r] # "static" => \A n \in NodeRows : rows[n].ip # ip'[r]
         /\ l = "staticIps" => \A n \in NodeRows : rows[n].ip \in used'[r]
         /\ l \notin {"lock", "hub", "done"} /\ kind'[r] # "static" => enrollMu' = r
<1> USE DEF IInv, TypeOK, RequestTypes, AddressInv, KindsFit, OneEnrollment, Goto, Reply
<1>1. CASE StartEnroll(r) \/ StartStatic(r)
  BY <1>1 DEF StartEnroll, StartStatic
<1>2. CASE LockEnroll(r)
  BY <1>2 DEF LockEnroll
<1>3. CASE CheckHub(r)
  <2>1. \A n \in NodeRows : rows[n].kind # "hub" => rows[n].ip # HubIP
    BY DEF HubAddressReserved, NodeRows, IsNode, Exists
  <2> QED
    BY <1>3, <2>1 DEF CheckHub, Kinds
<1>4. CASE FindHub(r)
  BY <1>4 DEF FindHub
<1>5. CASE ReadNodeIPs(r)
  BY <1>5 DEF ReadNodeIPs
<1>6. CASE ReadStaticIPs(r)
  BY <1>6, AllocateFacts DEF ReadStaticIPs, AddressesSeen, Kinds
<1>7. CASE BumpAndReply(r)
  BY <1>7 DEF BumpAndReply
<1> QED
  BY <1>1, <1>2, <1>3, <1>4, <1>5, <1>6, <1>7 DEF ReadingStep

LEMMA ReadingInv ==
  ASSUME IInv, NEW r \in Requests, ReadingStep(r)
  PROVE  IInv'
<1>1. TypeOK' /\ TokenMakesOneNode'
  <2>1. UNCHANGED <<rows, token, spent, records, del, fill, deletes, restarts>> /\ RequestTypes'
    BY ReadingMoves DEF storeVars, bounds
  <2>2. StoreTypes' /\ TaskTypes'
    BY <2>1 DEF IInv, TypeOK, StoreTypes, TaskTypes
  <2>3. TokenMakesOneNode'
    BY <2>1 DEF IInv, TokenMakesOneNode
  <2> QED
    BY <2>1, <2>2, <2>3 DEF TypeOK
<1>2. NameInv'
  <2>1. \A q \in Requests : Exists(q)' <=> Exists(q)
    BY ReadingMoves DEF Exists, storeVars
  <2>2. \A q \in Requests : NameOf(q)' = NameOf(q)
    BY <2>1, ReadingMoves DEF NameOf, storeVars
  <2>3. NameOf(r) # NoName => pc[r] = "bump"
    BY ReadingMoves DEF NameOf
  <2> QED
    BY <2>1, <2>2, <2>3, ReadingMoves, NamesKept DEF IInv
<1>3. AddressInv'
  <2>1. /\ \A q \in Requests : Exists(q)' <=> Exists(q)
        /\ NodeRows' = NodeRows /\ rows' = rows
    BY ReadingMoves DEF Exists, NodeRows, IsNode, storeVars
  <2>2. RowsFromRequests'
    BY <2>1, ReadingMoves DEF IInv, AddressInv, RowsFromRequests
  <2>3. KindsFit'
    BY ReadingMoves, ReadingFinds DEF IInv, AddressInv, KindsFit
  <2>4. OneEnrollment' /\ AddressesSeen'
    BY <2>1, ReadingMoves, ReadingFinds DEF IInv, AddressInv, OneEnrollment, AddressesSeen
  <2>5. EnrollAddressStaysFree'
    BY <2>1, ReadingMoves, ReadingFinds DEF IInv, AddressInv, EnrollAddressStaysFree
  <2>6. HubAddressReserved'
    BY <2>1 DEF IInv, AddressInv, HubAddressReserved
  <2> QED
    BY <2>2, <2>3, <2>4, <2>5, <2>6 DEF AddressInv
<1> QED
  BY <1>1, <1>2, <1>3 DEF IInv
-----------------------------------------------------------------------------
(* The record and the row.                                                 *)

\* The name that ensureDNS got is a new record's.
LEMMA EnsureInv ==
  ASSUME IInv, NEW r \in Requests, EnsureDNS(r)
  PROVE  IInv'
<1> USE DEF IInv, TypeOK
<1>1. /\ UNCHANGED <<rows, token, spent, kind, tok, uniq, used, ip, outcome, enrollMu, del, fill,
                     deletes, restarts>>
      /\ pc[r] = "dns" /\ pc' = [pc EXCEPT ![r] = "insert"]
  BY DEF EnsureDNS, Goto, storeVars, bounds
<1>2. PICK f \in Nat :
        /\ records' \in Seq(Hosts \union {0}) /\ Len(records) <= Len(records')
        /\ \A i \in 1..Len(records) : records'[i] = records[i]
        /\ f = NoName \/ (f = Len(records) + 1 /\ f \in 1..Len(records') /\ records'[f] = ip[r])
        /\ Len(records) \in Nat
        /\ dns' = [dns EXCEPT ![r] = f]
  <2>1. records \in Seq(Hosts \union {0}) /\ Len(records) \in Nat /\ ip[r] \in Hosts \union {0}
    BY LenProperties DEF StoreTypes, RequestTypes
  <2>2. CASE Domain
    BY <2>1, <2>2, EnsureFacts DEF EnsureDNS
  <2>3. CASE ~Domain
    <3>1. dns' = [dns EXCEPT ![r] = NoName] /\ records' = records
      BY <1>1, <2>3 DEF EnsureDNS, RequestTypes, NameInv, NamesComeLate
    <3> WITNESS 0 \in Nat
    <3> QED
      BY <2>1, <3>1
  <2> QED
    BY <2>2, <2>3
<1>3. TypeOK' /\ TokenMakesOneNode'
  <2>1. StoreTypes' /\ TaskTypes'
    BY <1>1, <1>2 DEF StoreTypes, TaskTypes
  <2>2. RequestTypes'
    BY <1>1, <1>2 DEF RequestTypes
  <2>3. TokenMakesOneNode'
    BY <1>1 DEF TokenMakesOneNode
  <2> QED
    BY <2>1, <2>2, <2>3
<1>4. /\ \A q \in Requests : Exists(q)' <=> Exists(q)
      /\ NodeRows' = NodeRows
  BY <1>1 DEF Exists, NodeRows, IsNode
<1>5. AddressInv'
  <2>1. RowsFromRequests' /\ KindsFit'
    BY <1>1, <1>4 DEF AddressInv, RowsFromRequests, KindsFit, RequestTypes
  <2>2. OneEnrollment' /\ AddressesSeen' /\ EnrollAddressStaysFree'
    BY <1>1, <1>4 DEF AddressInv, OneEnrollment, AddressesSeen, EnrollAddressStaysFree, RequestTypes
  <2>3. HubAddressReserved'
    BY <1>1, <1>4 DEF AddressInv, HubAddressReserved
  <2> QED
    BY <2>1, <2>2, <2>3 DEF AddressInv
<1>6. NameInv'
  <2>1. /\ NameOf(r) = NoName /\ NameOf(r)' = f
        /\ \A q \in Requests \ {r} : NameOf(q)' = NameOf(q)
    <3>1. ~Exists(r) /\ pc[r] # "insert" /\ ~Exists(r)' /\ pc'[r] = "insert" /\ dns'[r] = f
      BY <1>1, <1>2, <1>4 DEF RequestTypes, AddressInv, RowsFromRequests
    <3>2. \A q \in Requests \ {r} : pc'[q] = pc[q] /\ dns'[q] = dns[q] /\ rows'[q] = rows[q]
      BY <1>1, <1>2 DEF RequestTypes
    <3>3. NameOf(r) = NoName /\ NameOf(r)' = f
      BY <3>1 DEF NameOf
    <3> QED
      BY <1>4, <3>2, <3>3 DEF NameOf
  <2>2. \A q \in Requests : NameOf(q) <= Len(records)
    BY <1>2 DEF NameInv, NamesResolve
  <2>3. NamesResolve'
    BY <1>1, <1>2, <2>1 DEF NameInv, NamesResolve
  <2>4. NamesApart'
    BY <1>2, <2>1, <2>2 DEF NameInv, NamesApart
  <2>5. NamesComeLate'
    BY <1>1, <1>2 DEF NameInv, NamesComeLate, RequestTypes
  <2>6. DeletionApart'
    BY <1>1, <1>2, <1>4, <2>1 DEF NameInv, DeletionApart, TaskTypes
  <2>7. FillApart'
    BY <1>1, <1>2, <2>1 DEF NameInv, FillApart, RequestTypes, TaskTypes
  <2> QED
    BY <2>3, <2>4, <2>5, <2>6, <2>7 DEF NameInv
<1> QED
  BY <1>3, <1>5, <1>6

\* A refused insert leaves nothing behind but the record.
LEMMA RefusedInv ==
  ASSUME IInv, NEW r \in Requests, pc[r] = "insert", Reply(r, "error"),
         UNCHANGED <<storeVars, records, kind, tok, uniq, used, ip, dns, del, fill, bounds>>
  PROVE  IInv'
<1> USE DEF IInv, TypeOK, storeVars, bounds
<1>1. /\ pc' = [pc EXCEPT ![r] = "done"] /\ outcome' = [outcome EXCEPT ![r] = "error"]
      /\ enrollMu' = IF enrollMu = r THEN NoRequest ELSE enrollMu
  BY DEF Reply, Goto
<1>2. TypeOK' /\ TokenMakesOneNode'
  <2>1. StoreTypes' /\ TaskTypes' /\ TokenMakesOneNode'
    BY DEF StoreTypes, TaskTypes, TokenMakesOneNode
  <2>2. RequestTypes'
    BY <1>1 DEF RequestTypes
  <2> QED
    BY <2>1, <2>2
<1>3. /\ \A q \in Requests : Exists(q)' <=> Exists(q)
      /\ NodeRows' = NodeRows
  BY DEF Exists, NodeRows, IsNode
<1>4. AddressInv'
  <2>1. RowsFromRequests' /\ KindsFit'
    BY <1>1, <1>3 DEF AddressInv, RowsFromRequests, KindsFit, RequestTypes
  <2>2. OneEnrollment' /\ AddressesSeen' /\ EnrollAddressStaysFree'
    BY <1>1, <1>3 DEF AddressInv, OneEnrollment, AddressesSeen, EnrollAddressStaysFree, RequestTypes
  <2>3. HubAddressReserved'
    BY <1>3 DEF AddressInv, HubAddressReserved
  <2> QED
    BY <2>1, <2>2, <2>3 DEF AddressInv
<1>5. NameInv'
  <2>1. \A q \in Requests : NameOf(q)' \in {NameOf(q), NoName}
    BY <1>1, <1>3 DEF NameOf, RequestTypes
  <2> QED
    BY <1>1, <1>3, <2>1, NamesKept DEF RequestTypes
<1> QED
  BY <1>2, <1>4, <1>5

\* The new row has the address and the name that its request had.
LEMMA InsertedInv ==
  ASSUME IInv, NEW r \in Requests, pc[r] = "insert", Goto(r, "bump"),
         rows' = [rows EXCEPT ![r] = NewRow(r)],
         UNCHANGED <<records, kind, tok, uniq, used, ip, dns, outcome, enrollMu, del, fill, bounds>>,
         \/ kind[r] = "static" /\ UNCHANGED <<token, spent>>
         \/ /\ kind[r] \in {"hub", "node"} /\ token[tok[r]] = "valid"
            /\ token' = [token EXCEPT ![tok[r]] = "used"]
            /\ spent' = [spent EXCEPT ![tok[r]] = @ \union {r}]
  PROVE  IInv'
<1> USE DEF IInv, TypeOK
<1>1. /\ pc' = [pc EXCEPT ![r] = "bump"] /\ UNCHANGED <<deletes, restarts>>
      /\ rows'[r] = NewRow(r) /\ \A q \in Requests \ {r} : rows'[q] = rows[q]
  BY DEF Goto, bounds, StoreTypes
<1>2. /\ kind[r] \in Kinds /\ ip[r] \in Hosts /\ (ip[r] = HubIP <=> kind[r] = "hub")
      /\ kind[r] # "static" => enrollMu = r /\ tok[r] \in Tokens
      /\ kind[r] # "static" => \A n \in NodeRows : rows[n].ip # ip[r]
      /\ ~Exists(r)
  BY DEF AddressInv, KindsFit, OneEnrollment, EnrollAddressStaysFree, RowsFromRequests, Kinds
<1>3. NewRow(r) \in [kind : Kinds \union {"none"}, uniq : Uniques \union {"none"},
                     ip : Hosts \union {0}, dns : Nat]
  BY DEF NewRow, RequestTypes
<1>4. TypeOK'
  <2>1. token' \in [Tokens -> {"unknown", "valid", "used", "expired"}]
        /\ spent' \in [Tokens -> SUBSET Requests]
    <3>1. CASE kind[r] = "static"
      BY <3>1 DEF StoreTypes
    <3>2. CASE kind[r] # "static"
      <4>1. /\ tok[r] \in Tokens
            /\ token' = [token EXCEPT ![tok[r]] = "used"]
            /\ spent' = [spent EXCEPT ![tok[r]] = @ \union {r}]
        BY <1>2, <3>2
      <4> QED
        BY <4>1 DEF StoreTypes
    <3> QED
      BY <3>1, <3>2
  <2>2. rows' \in [Requests -> [kind : Kinds \union {"none"}, uniq : Uniques \union {"none"},
                                ip : Hosts \union {0}, dns : Nat]]
    BY <1>3 DEF StoreTypes
  <2>3. RequestTypes' /\ TaskTypes'
    BY <1>1 DEF RequestTypes, TaskTypes
  <2> QED
    BY <2>1, <2>2, <2>3 DEF StoreTypes
<1>5. TokenMakesOneNode'
  <2>1. CASE kind[r] = "static"
    BY <2>1 DEF TokenMakesOneNode
  <2>2. CASE kind[r] # "static"
    <3>1. /\ token[tok[r]] = "valid" /\ tok[r] \in Tokens
          /\ token' = [token EXCEPT ![tok[r]] = "used"]
          /\ spent' = [spent EXCEPT ![tok[r]] = @ \union {r}]
      BY <1>2, <2>2
    <3>2. token'[tok[r]] = "used" /\ spent'[tok[r]] = {r}
      BY <3>1 DEF TokenMakesOneNode, StoreTypes
    <3>3. \A t \in Tokens \ {tok[r]} : token'[t] = token[t] /\ spent'[t] = spent[t]
      BY <3>1 DEF StoreTypes
    <3> QED
      BY <3>2, <3>3 DEF TokenMakesOneNode
  <2> QED
    BY <2>1, <2>2
<1>6. /\ \A q \in Requests : Exists(q)' <=> Exists(q) \/ q = r
      /\ kind[r] = "static" => NodeRows' = NodeRows
      /\ kind[r] # "static" => NodeRows' = NodeRows \union {r}
  BY <1>1, <1>2 DEF Exists, NodeRows, IsNode, NewRow, Kinds
<1>7. AddressInv'
  <2>1. RowsFromRequests' /\ KindsFit'
    BY <1>1, <1>2, <1>6 DEF AddressInv, RowsFromRequests, KindsFit, RequestTypes, NewRow
  <2>2. OneEnrollment'
    BY <1>1 DEF AddressInv, OneEnrollment, RequestTypes
  <2>3. \A q \in Requests \ {r} : pc[q] \in {"staticIps", "dns", "insert"} /\ kind[q] \in {"hub", "node"}
                                    => kind[r] = "static"
    BY <1>2 DEF AddressInv, OneEnrollment
  <2>4. \A n \in NodeRows : rows'[n] = rows[n]
    BY <1>1, <1>2 DEF NodeRows, IsNode, Exists
  <2>5. AddressesSeen' /\ EnrollAddressStaysFree'
    BY <1>1, <1>6, <2>3, <2>4 DEF AddressInv, AddressesSeen, EnrollAddressStaysFree, RequestTypes
  <2>6. HubAddressReserved'
    BY <1>1, <1>2, <1>6 DEF AddressInv, HubAddressReserved, NewRow, Exists, NodeRows, IsNode
  <2> QED
    BY <2>1, <2>2, <2>5, <2>6 DEF AddressInv
<1>8. NameInv'
  <2>1. \A q \in Requests : NameOf(q)' = NameOf(q)
    BY <1>1, <1>2, <1>6 DEF NameOf, RequestTypes, NewRow
  <2> QED
    BY <1>1, <1>6, <2>1, NamesKept DEF RequestTypes
<1> QED
  BY <1>4, <1>5, <1>7, <1>8

LEMMA InsertInv ==
  ASSUME IInv, NEW r \in Requests, InsertNode(r) \/ InsertStatic(r)
  PROVE  IInv'
<1>1. CASE InsertNode(r)
  BY <1>1, RefusedInv, InsertedInv DEF InsertNode
<1>2. CASE InsertStatic(r)
  BY <1>2, RefusedInv, InsertedInv DEF InsertStatic, storeVars
<1> QED
  BY <1>1, <1>2
-----------------------------------------------------------------------------
(* The admin: tokens and deletions.                                        *)

LEMMA TokenInv ==
  ASSUME IInv, NEW t \in Tokens, CreateToken(t) \/ ExpireToken(t)
  PROVE  IInv'
<1> USE DEF IInv, TypeOK
<1>1. /\ UNCHANGED <<rows, spent, records, pc, kind, tok, uniq, used, ip, dns, outcome, enrollMu,
                     del, fill, deletes, restarts>>
      /\ token[t] # "used"
      /\ \E s \in {"valid", "expired"} : token' = [token EXCEPT ![t] = s]
  BY DEF CreateToken, ExpireToken, reqVars, bounds
<1>2. TypeOK'
  BY <1>1, SMTT(30) DEF StoreTypes, RequestTypes, TaskTypes
<1>3. TokenMakesOneNode'
  BY <1>1 DEF TokenMakesOneNode, StoreTypes
<1>4. AddressInv'
  BY <1>1, AddressesKept
<1>5. NameInv'
  <2>1. \A q \in Requests : NameOf(q)' = NameOf(q) /\ (Exists(q)' <=> Exists(q))
    BY <1>1 DEF NameOf, Exists
  <2> QED
    BY <1>1, <2>1, NamesKept
<1> QED
  BY <1>2, <1>3, <1>4, <1>5

\* A deletion reads a row: its name is nobody else's.
LEMMA DeleteReadInv ==
  ASSUME IInv, NEW r \in Requests, DeleteRead(r)
  PROVE  IInv'
<1> USE DEF IInv, TypeOK
<1>1. /\ UNCHANGED <<rows, token, spent, records, pc, kind, tok, uniq, used, ip, dns, outcome,
                     enrollMu, fill, restarts>>
      /\ del' = [pc |-> "row", id |-> r, dns |-> rows[r].dns] /\ Exists(r)
      /\ deletes' \in 0..MaxDeletes
  BY DEF DeleteRead, storeVars, reqVars, TaskTypes
<1>2. TypeOK'
  BY <1>1 DEF StoreTypes, RequestTypes, TaskTypes
<1>3. TokenMakesOneNode' /\ AddressInv'
  BY <1>1, AddressesKept DEF TokenMakesOneNode
<1>4. \A q \in Requests : NameOf(q)' = NameOf(q) /\ (Exists(q)' <=> Exists(q))
  BY <1>1 DEF NameOf, Exists
<1>5. NameInv'
  <2>1. NamesResolve' /\ NamesApart' /\ NamesComeLate'
    BY <1>1, <1>4 DEF NameInv, NamesResolve, NamesApart, NamesComeLate
  <2>2. NameOf(r) = rows[r].dns
    BY <1>1 DEF NameOf
  <2>3. DeletionApart'
    BY <1>1, <1>4, <2>2 DEF NameInv, DeletionApart, NamesApart, NamesResolve
  <2>4. FillApart'
    BY <1>1, <1>4, <2>2 DEF NameInv, FillApart
  <2> QED
    BY <2>1, <2>3, <2>4 DEF NameInv
<1> QED
  BY <1>2, <1>3, <1>5

\* The row goes, and with it the last use of its name.
LEMMA DeleteRowInv == IInv /\ DeleteRow => IInv'
<1> SUFFICES ASSUME IInv, DeleteRow PROVE IInv'
  OBVIOUS
<1> USE DEF IInv, TypeOK
<1>1. /\ UNCHANGED <<token, spent, records, pc, kind, tok, uniq, used, ip, dns, outcome,
                     enrollMu, fill, deletes, restarts>>
      /\ del.pc = "row" /\ del.id \in Requests /\ Exists(del.id)
      /\ del' = [del EXCEPT !.pc = IF del.dns # NoName THEN "dns" ELSE "bump"]
      /\ rows' = [rows EXCEPT ![del.id] = NoRow]
  BY DEF DeleteRow, reqVars, bounds, NameInv, DeletionApart
<1>2. /\ rows'[del.id] = NoRow
      /\ \A q \in Requests : q # del.id => rows'[q] = rows[q]
  BY <1>1 DEF StoreTypes
<1>3. TypeOK'
  BY <1>1 DEF StoreTypes, RequestTypes, TaskTypes, NoRow
<1>4. TokenMakesOneNode' /\ AddressInv'
  BY <1>1, <1>2, AddressesKept DEF TokenMakesOneNode, NoRow
<1>5. /\ NameOf(del.id)' = NoName
      /\ \A q \in Requests : q # del.id => NameOf(q)' = NameOf(q)
  BY <1>1, <1>2 DEF NameOf, Exists, NoRow, AddressInv, RowsFromRequests
<1>6. NameInv'
  <2>1. NamesResolve' /\ NamesApart' /\ NamesComeLate'
    BY <1>1, <1>5 DEF NameInv, NamesResolve, NamesApart, NamesComeLate
  <2>2. del'.dns = del.dns /\ del'.pc \in {"dns", "bump"}
    BY <1>1 DEF TaskTypes
  <2>3. DeletionApart'
    BY <1>1, <1>5, <2>2 DEF NameInv, DeletionApart
  <2>4. FillApart'
    BY <1>1, <1>5, <2>2 DEF NameInv, FillApart
  <2> QED
    BY <2>1, <2>3, <2>4 DEF NameInv
<1> QED
  BY <1>3, <1>4, <1>6

\* The record goes, which nobody uses any more.
LEMMA DeleteDNSInv == IInv /\ (DeleteDNS \/ DeleteDone) => IInv'
<1> SUFFICES ASSUME IInv, DeleteDNS \/ DeleteDone PROVE IInv'
  OBVIOUS
<1> USE DEF IInv, TypeOK
<1>1. /\ UNCHANGED <<rows, token, spent, pc, kind, tok, uniq, used, ip, dns, outcome,
                     enrollMu, fill, deletes, restarts>>
      /\ del'.pc \in {"bump", "idle"}
      /\ del' \in [pc : {"idle", "row", "dns", "bump"}, id : Requests \union {NoRequest}, dns : Nat]
  BY DEF DeleteDNS, DeleteDone, storeVars, reqVars, bounds, TaskTypes, Idle
<1>2. /\ records' \in Seq(Hosts \union {0}) /\ Len(records') = Len(records)
      /\ \A q \in Requests : NameOf(q) # NoName => records'[NameOf(q)] = records[NameOf(q)]
      /\ fill.pc \in {"setNode", "setStatic"} => records'[fill.dns] = records[fill.dns]
  <2>1. CASE records' = records
    BY <2>1 DEF StoreTypes
  <2>2. CASE del.pc = "dns" /\ records' = RemoveRecord(del.dns)
    <3>1. CASE del.dns = NoName
      BY <2>1, <2>2, <3>1 DEF RemoveRecord
    <3>2. CASE del.dns # NoName
      <4>1. /\ del.dns \in 1..Len(records) /\ Len(records) \in Nat
            /\ \A q \in Requests : NameOf(q) # del.dns
            /\ fill.pc \in {"setNode", "setStatic"} => del.dns # fill.dns
        BY <2>2, <3>2, LenProperties DEF NameInv, DeletionApart, FillApart, StoreTypes
      <4>2. /\ records' \in Seq(Hosts \union {0}) /\ Len(records') = Len(records)
            /\ \A i \in 1..Len(records) : i # del.dns => records'[i] = records[i]
        BY <2>2, <4>1, RemoveFacts
      <4> QED
        BY <4>1, <4>2 DEF NameInv, NamesResolve, FillApart
    <3> QED
      BY <3>1, <3>2
  <2> QED
    BY <2>1, <2>2 DEF DeleteDNS, DeleteDone
<1>3. TypeOK'
  BY <1>1, <1>2 DEF StoreTypes, RequestTypes, TaskTypes
<1>4. TokenMakesOneNode' /\ AddressInv'
  BY <1>1, AddressesKept DEF TokenMakesOneNode
<1>5. \A q \in Requests : NameOf(q)' = NameOf(q)
  BY <1>1 DEF NameOf, Exists
<1>6. NameInv'
  <2>1. NamesResolve' /\ NamesApart' /\ NamesComeLate'
    BY <1>1, <1>2, <1>5 DEF NameInv, NamesResolve, NamesApart, NamesComeLate
  <2>2. DeletionApart' /\ FillApart'
    BY <1>1, <1>2, <1>5 DEF NameInv, DeletionApart, FillApart
  <2> QED
    BY <2>1, <2>2 DEF NameInv
<1> QED
  BY <1>3, <1>4, <1>6
-----------------------------------------------------------------------------
(* The backfill and the restart.                                           *)

\* Its steps leave the addresses and the requests alone, and rows keep what they are.
LEMMA FillFrame ==
  ASSUME IInv,
         UNCHANGED <<token, spent, reqVars, enrollMu, del, bounds>>,
         \/ UNCHANGED rows
         \/ \E r \in Requests, f \in Nat : Exists(r) /\ rows' = [rows EXCEPT ![r].dns = f]
  PROVE  /\ RequestTypes' /\ TokenMakesOneNode' /\ AddressInv'
         /\ rows' \in [Requests -> [kind : Kinds \union {"none"}, uniq : Uniques \union {"none"},
                                    ip : Hosts \union {0}, dns : Nat]]
         /\ \A q \in Requests : Exists(q)' <=> Exists(q)
<1> USE DEF IInv, TypeOK, reqVars, bounds
<1>1. RequestTypes' /\ TokenMakesOneNode'
  BY DEF RequestTypes, TokenMakesOneNode
<1>2. /\ rows' \in [Requests -> [kind : Kinds \union {"none"}, uniq : Uniques \union {"none"},
                                 ip : Hosts \union {0}, dns : Nat]]
      /\ \A n \in Requests : rows'[n].kind = rows[n].kind /\ rows'[n].ip = rows[n].ip
  <2>1. CASE UNCHANGED rows
    BY <2>1 DEF StoreTypes
  <2>2. ASSUME NEW r \in Requests, NEW f \in Nat, rows' = [rows EXCEPT ![r].dns = f]
        PROVE  /\ rows' \in [Requests -> [kind : Kinds \union {"none"}, uniq : Uniques \union {"none"},
                                          ip : Hosts \union {0}, dns : Nat]]
               /\ \A n \in Requests : rows'[n].kind = rows[n].kind /\ rows'[n].ip = rows[n].ip
    <3> DEFINE Rows == [kind : Kinds \union {"none"}, uniq : Uniques \union {"none"},
                        ip : Hosts \union {0}, dns : Nat]
               row == [rows[r] EXCEPT !.dns = f]
    <3>1. rows \in [Requests -> Rows] /\ rows[r] \in Rows
      BY DEF StoreTypes
    <3>2. row \in Rows /\ row.kind = rows[r].kind /\ row.ip = rows[r].ip
      BY <3>1
    <3>3. rows' = [rows EXCEPT ![r] = row]
      BY <2>2
    <3> HIDE DEF Rows, row
    <3>4. /\ rows' \in [Requests -> Rows]
          /\ \A n \in Requests : rows'[n].kind = rows[n].kind /\ rows'[n].ip = rows[n].ip
      BY <3>1, <3>2, <3>3
    <3> QED
      BY <3>4 DEF Rows
  <2> QED
    BY <2>1, <2>2
<1>3. AddressInv'
  BY <1>2, AddressesKept
<1> QED
  BY <1>1, <1>2, <1>3 DEF Exists

\* It takes a snapshot, and goes from one pass to the next.
LEMMA FillListInv == IInv /\ (FillList \/ FillNextPass) => IInv'
<1> SUFFICES ASSUME IInv, FillList \/ FillNextPass PROVE IInv'
  OBVIOUS
<1> USE DEF IInv, TypeOK
<1>1. /\ UNCHANGED <<rows, token, spent, records, reqVars, enrollMu, del, bounds>>
      /\ fill'.pc \in {"off", "statics", "ensureNode", "ensureStatic"}
      /\ fill' \in [pc : {"off", "nodes", "ensureNode", "setNode", "statics", "ensureStatic",
                          "setStatic"},
                    todo : SUBSET Requests, id : Requests \union {NoRequest}, dns : Nat]
      /\ \A r \in fill'.todo : Exists(r)
  <2>1. CASE FillList
    <3>1. PICK S \in {NodeRows, StaticRows}, l \in {"ensureNode", "ensureStatic"} :
            fill' = [fill EXCEPT !.pc = l, !.todo = {r \in S : rows[r].dns = NoName}]
      BY <2>1 DEF FillList
    <3>2. \A r \in S : r \in Requests /\ Exists(r)
      BY DEF NodeRows, IsNode, StaticRows, IsStatic, Exists
    <3> QED
      BY <2>1, <3>1, <3>2 DEF FillList, TaskTypes, storeVars
  <2>2. CASE FillNextPass
    BY <2>2 DEF FillNextPass, TaskTypes, storeVars, FillOff
  <2> QED
    BY <2>1, <2>2
<1>2. RequestTypes' /\ TokenMakesOneNode' /\ AddressInv'
  BY <1>1, FillFrame
<1>3. StoreTypes' /\ TaskTypes'
  BY <1>1 DEF StoreTypes, TaskTypes, bounds
<1>4. NameInv'
  <2>1. \A q \in Requests : NameOf(q)' = NameOf(q) /\ (Exists(q)' <=> Exists(q))
    BY <1>1 DEF NameOf, Exists, reqVars
  <2>2. NamesResolve' /\ NamesApart' /\ NamesComeLate' /\ DeletionApart'
    BY <1>1, <2>1 DEF NameInv, NamesResolve, NamesApart, NamesComeLate, DeletionApart, reqVars
  <2>3. FillApart'
    BY <1>1 DEF FillApart, AddressInv, RowsFromRequests, TaskTypes, reqVars
  <2> QED
    BY <2>2, <2>3 DEF NameInv
<1> QED
  BY <1>2, <1>3, <1>4

\* It makes a record for the next device of the snapshot.
LEMMA FillEnsureInv == IInv /\ FillEnsure => IInv'
<1> SUFFICES ASSUME IInv, FillEnsure PROVE IInv'
  OBVIOUS
<1> USE DEF IInv, TypeOK
<1>1. /\ UNCHANGED <<rows, token, spent, reqVars, enrollMu, del, bounds>>
      /\ UNCHANGED <<pc, kind, tok, uniq, used, ip, dns, outcome, deletes, restarts>>
  BY DEF FillEnsure, storeVars, reqVars, bounds
<1>2. PICK r \in fill.todo, f \in 0..(Len(records) + 1) :
        /\ EnsureA(ip[r], f)
        /\ fill' = [fill EXCEPT !.todo = @ \ {r}, !.id = r, !.dns = f,
                                !.pc = IF f = NoName THEN @
                                       ELSE IF @ = "ensureNode" THEN "setNode" ELSE "setStatic"]
  BY DEF FillEnsure
<1>3. /\ r \in Requests /\ pc[r] \in {"bump", "done"} /\ ip[r] \in Hosts \union {0}
      /\ fill.pc \in {"ensureNode", "ensureStatic"}
  BY DEF FillEnsure, NameInv, FillApart, TaskTypes, RequestTypes
<1>4. /\ records' \in Seq(Hosts \union {0}) /\ Len(records) <= Len(records')
      /\ \A i \in 1..Len(records) : records'[i] = records[i]
      /\ f = NoName \/ (f = Len(records) + 1 /\ f \in 1..Len(records') /\ records'[f] = ip[r])
      /\ Len(records) \in Nat /\ Len(records') \in Nat
  BY <1>2, <1>3, EnsureFacts, LenProperties
<1>5. /\ fill'.todo = fill.todo \ {r} /\ fill'.id = r /\ fill'.dns = f
      /\ fill'.pc = IF f = NoName THEN fill.pc
                    ELSE IF fill.pc = "ensureNode" THEN "setNode" ELSE "setStatic"
      /\ fill' \in [pc : {"off", "nodes", "ensureNode", "setNode", "statics", "ensureStatic",
                          "setStatic"},
                    todo : SUBSET Requests, id : Requests \union {NoRequest}, dns : Nat]
  <2>1. PICK l \in {"ensureNode", "ensureStatic", "setNode", "setStatic"} :
          /\ l = IF f = NoName THEN fill.pc
                 ELSE IF fill.pc = "ensureNode" THEN "setNode" ELSE "setStatic"
          /\ fill' = [fill EXCEPT !.todo = @ \ {r}, !.id = r, !.dns = f, !.pc = l]
    BY <1>2, <1>3 DEF TaskTypes
  <2>2. f \in Nat
    BY <1>4
  <2> QED
    BY <1>3, <2>1, <2>2 DEF TaskTypes
<1>6. RequestTypes' /\ TokenMakesOneNode' /\ AddressInv'
  BY <1>1, FillFrame
<1>7. StoreTypes' /\ TaskTypes'
  BY <1>1, <1>4, <1>5 DEF StoreTypes, TaskTypes
<1>8. NameInv'
  <2>1. \A q \in Requests : NameOf(q)' = NameOf(q) /\ (Exists(q)' <=> Exists(q))
    BY <1>1 DEF NameOf, Exists
  <2>2. \A q \in Requests : NameOf(q) # Len(records) + 1
    BY <1>4 DEF NameInv, NamesResolve
  <2>3. NamesResolve'
    BY <1>1, <1>4, <2>1 DEF NameInv, NamesResolve
  <2>4. NamesApart' /\ NamesComeLate'
    BY <1>1, <2>1 DEF NameInv, NamesApart, NamesComeLate
  <2>5. DeletionApart'
    BY <1>1, <1>4, <2>1 DEF NameInv, DeletionApart
  <2>6. FillApart'
    <3>1. \A q \in fill'.todo : pc'[q] \in {"bump", "done"}
      BY <1>1, <1>5 DEF NameInv, FillApart
    <3>2. CASE f = NoName
      BY <1>3, <1>5, <3>1, <3>2 DEF FillApart
    <3>3. CASE f # NoName
      <4>1. /\ \A q \in Requests : NameOf(q)' # f
            /\ del'.pc \in {"row", "dns"} => del'.dns # f
        BY <1>1, <1>4, <2>1, <2>2, <3>3 DEF NameInv, DeletionApart
      <4> QED
        BY <1>1, <1>3, <1>4, <1>5, <3>1, <3>3, <4>1 DEF FillApart
    <3> QED
      BY <3>2, <3>3
  <2> QED
    BY <2>3, <2>4, <2>5, <2>6 DEF NameInv
<1> QED
  BY <1>6, <1>7, <1>8

\* It names the device, if that is still there.
LEMMA FillSetInv == IInv /\ FillSet => IInv'
<1> SUFFICES ASSUME IInv, FillSet PROVE IInv'
  OBVIOUS
<1> USE DEF IInv, TypeOK
<1>1. /\ UNCHANGED <<token, spent, records, reqVars, enrollMu, del, bounds>>
      /\ UNCHANGED <<pc, kind, tok, uniq, used, ip, dns, outcome, deletes, restarts>>
      /\ rows' = IF Exists(fill.id) THEN [rows EXCEPT ![fill.id].dns = fill.dns] ELSE rows
      /\ fill.pc \in {"setNode", "setStatic"}
      /\ fill' = [fill EXCEPT !.pc = IF @ = "setNode" THEN "ensureNode" ELSE "ensureStatic",
                              !.id = NoRequest, !.dns = NoName]
  BY DEF FillSet, reqVars, bounds
<1>2. PICK d \in Requests, f \in Nat :
        /\ fill.id = d /\ fill.dns = f /\ pc[d] \in {"bump", "done"}
        /\ f \in 1..Len(records) /\ records[f] = ip[d]
        /\ \A r \in Requests : NameOf(r) # f
        /\ del.pc \in {"row", "dns"} => del.dns # f
  BY <1>1 DEF NameInv, FillApart, TaskTypes
<1>3. /\ RequestTypes' /\ TokenMakesOneNode' /\ AddressInv'
      /\ rows' \in [Requests -> [kind : Kinds \union {"none"}, uniq : Uniques \union {"none"},
                                 ip : Hosts \union {0}, dns : Nat]]
      /\ \A q \in Requests : Exists(q)' <=> Exists(q)
  BY <1>1, <1>2, FillFrame
<1>4. StoreTypes' /\ TaskTypes'
  BY <1>1, <1>3 DEF StoreTypes, TaskTypes
<1>5. /\ NameOf(d)' = NameOf(d) \/ NameOf(d)' = f
      /\ \A q \in Requests : q # d => NameOf(q)' = NameOf(q)
  <2>1. CASE Exists(d)
    BY <1>1, <1>2, <1>3, <2>1 DEF NameOf, StoreTypes
  <2>2. CASE ~Exists(d)
    BY <1>1, <1>2, <1>3, <2>2 DEF NameOf
  <2> QED
    BY <2>1, <2>2
<1>6. NameInv'
  <2>1. NamesResolve'
    BY <1>1, <1>2, <1>5 DEF NameInv, NamesResolve
  <2>2. NamesApart' /\ NamesComeLate'
    BY <1>1, <1>2, <1>5 DEF NameInv, NamesApart, NamesComeLate
  <2>3. DeletionApart'
    BY <1>1, <1>2, <1>3, <1>5 DEF NameInv, DeletionApart
  <2>4. FillApart'
    BY <1>1 DEF NameInv, FillApart, TaskTypes
  <2> QED
    BY <2>1, <2>2, <2>3, <2>4 DEF NameInv
<1> QED
  BY <1>3, <1>4, <1>6
\* The process starts again: whoever was under way is answered nothing, and no name
\* was his yet.
LEMMA RestartInv == IInv /\ Restart => IInv'
<1> SUFFICES ASSUME IInv, Restart PROVE IInv'
  OBVIOUS
<1> USE DEF IInv, TypeOK
<1>1. /\ UNCHANGED <<rows, token, spent, records, kind, tok, uniq, used, ip, dns, deletes>>
      /\ \A r \in Requests : pc'[r] = IF pc[r] = "new" THEN "new" ELSE "done"
      /\ del' = Idle /\ fill' \in {FillOff, [FillOff EXCEPT !.pc = "nodes"]}
  BY DEF Restart, storeVars
<1>2. TypeOK'
  <2>1. RequestTypes'
    BY DEF Restart, RequestTypes
  <2>2. StoreTypes' /\ TaskTypes'
    BY <1>1, SMTT(30) DEF Restart, StoreTypes, TaskTypes, Idle, FillOff
  <2> QED
    BY <2>1, <2>2
<1>3. TokenMakesOneNode'
  BY <1>1 DEF TokenMakesOneNode
<1>4. \A q \in Requests : Exists(q)' <=> Exists(q)
  BY <1>1 DEF Exists
<1>5. AddressInv'
  <2>1. RowsFromRequests' /\ KindsFit' /\ OneEnrollment' /\ AddressesSeen' /\ EnrollAddressStaysFree'
    BY <1>1, <1>4 DEF AddressInv, RowsFromRequests, KindsFit, OneEnrollment, AddressesSeen,
                      EnrollAddressStaysFree
  <2>2. HubAddressReserved'
    BY <1>1, <1>4 DEF AddressInv, HubAddressReserved
  <2> QED
    BY <2>1, <2>2 DEF AddressInv
<1>6. NameInv'
  <2>1. \A q \in Requests : NameOf(q)' = NameOf(q) \/ NameOf(q)' = NoName
    BY <1>1, <1>4 DEF NameOf
  <2>2. NamesResolve' /\ NamesApart' /\ NamesComeLate'
    BY <1>1, <2>1 DEF NameInv, NamesResolve, NamesApart, NamesComeLate
  <2>3. DeletionApart' /\ FillApart'
    BY <1>1 DEF DeletionApart, FillApart, Idle, FillOff
  <2> QED
    BY <2>2, <2>3 DEF NameInv
<1> QED
  BY <1>2, <1>3, <1>5, <1>6

-----------------------------------------------------------------------------
(* The theorems.                                                           *)

\* Every step keeps the invariant.
LEMMA InvStep == IInv /\ [Next]_vars => IInv'
<1> SUFFICES ASSUME IInv, [Next]_vars PROVE IInv'
  OBVIOUS
<1>1. ASSUME NEW t \in Tokens, CreateToken(t) \/ ExpireToken(t) PROVE IInv'
  BY <1>1, TokenInv
<1>2. ASSUME NEW r \in Requests, RequestStep(r) PROVE IInv'
  BY <1>2, ReadingInv, EnsureInv, InsertInv DEF RequestStep, ReadingStep
<1>3. CASE DeleteStep
  BY <1>3, DeleteReadInv, DeleteRowInv, DeleteDNSInv DEF DeleteStep
<1>4. CASE FillStep
  BY <1>4, FillListInv, FillEnsureInv, FillSetInv DEF FillStep
<1>5. CASE Restart
  BY <1>5, RestartInv
<1>6. CASE UNCHANGED vars
  <2> USE <1>6 DEF vars, storeVars, reqVars, bounds
  <2>1. TypeOK' /\ TokenMakesOneNode'
    BY DEF IInv, TypeOK, StoreTypes, RequestTypes, TaskTypes, TokenMakesOneNode
  <2>2. AddressInv'
    BY AddressesKept DEF IInv
  <2>3. \A q \in Requests : NameOf(q)' = NameOf(q) /\ (Exists(q)' <=> Exists(q))
    BY DEF NameOf, Exists
  <2>4. NameInv'
    BY <2>3, NamesKept DEF IInv
  <2> QED
    BY <2>1, <2>2, <2>4 DEF IInv
<1> QED
  BY <1>1, <1>2, <1>3, <1>4, <1>5, <1>6 DEF Next

LEMMA Inductive == Spec => []IInv
BY InitInv, InvStep, PTL DEF Spec

\* The store, the requests, the deletion and the backfill keep their types; a host
\* that was allocated is in the overlay range.
THEOREM TypeCorrect == Spec => []TypeOK
<1>1. IInv => TypeOK
  BY DEF IInv
<1> QED
  BY <1>1, Inductive, PTL

\* A one-time token makes one node when it is used, and none otherwise.
THEOREM OneNode == Spec => []TokenMakesOneNode
<1>1. IInv => TokenMakesOneNode
  BY DEF IInv
<1> QED
  BY <1>1, Inductive, PTL

\* Under enrollMu the address that was free when it was chosen is free at the insert.
THEOREM StaysFree == Spec => []EnrollAddressStaysFree
<1>1. IInv => EnrollAddressStaysFree
  BY DEF IInv, AddressInv
<1> QED
  BY <1>1, Inductive, PTL

\* The hub alone has the hub's address, and there is one hub.
THEOREM HubReserved == Spec => []HubAddressReserved
<1>1. IInv => HubAddressReserved
  BY DEF IInv, AddressInv
<1> QED
  BY <1>1, Inductive, PTL

\* A device that has a name is found under it, through deletions, backfills and
\* restarts.
THEOREM NamesWork == Spec => []NamedDevicesResolve
<1>1. IInv => NamedDevicesResolve
  <2> SUFFICES ASSUME IInv, NEW r \in Requests, Exists(r), rows[r].dns # NoName
               PROVE  rows[r].dns <= Len(records) /\ records[rows[r].dns] = rows[r].ip
    BY DEF NamedDevicesResolve
  <2>1. NameOf(r) = rows[r].dns /\ rows[r].ip = ip[r]
    BY DEF NameOf, IInv, AddressInv, RowsFromRequests
  <2> QED
    BY <2>1 DEF IInv, NameInv, NamesResolve
<1> QED
  BY <1>1, Inductive, PTL

-----------------------------------------------------------------------------
(* The refinement of EnrollmentPromise.                                    *)

\* Init establishes it: nothing is enrolled and nobody told anything.
LEMMA AnswersInit == Init => AnswersInv
<1> SUFFICES ASSUME Init PROVE AnswersInv
  OBVIOUS
<1>1. Promise!Enrolled = {}
  BY DEF Init, Promise!Enrolled
<1>2. \A r \in Requests : pc[r] = "new" /\ outcome[r] = "none"
  BY DEF Init
<1> QED
  BY <1>1, <1>2 DEF AnswersInv

\* An insert enrolls its request and no other.
LEMMA EnrolledGrows ==
  ASSUME TypeOK, NEW r \in Requests, NEW t \in Tokens,
         spent' = [spent EXCEPT ![t] = @ \union {r}]
  PROVE  Promise!Enrolled' = Promise!Enrolled \union {r}
<1>1. spent \in [Tokens -> SUBSET Requests]
  BY DEF TypeOK, StoreTypes
<1>2. \A u \in Tokens : spent'[u] = IF u = t THEN spent[u] \union {r} ELSE spent[u]
  BY <1>1
<1> QED
  BY <1>2 DEF Promise!Enrolled

\* Every step keeps AnswersInv: only an insert enrolls, and only BumpAndReply says ok.
LEMMA AnswersStep == IInv /\ AnswersInv /\ [Next]_vars => AnswersInv'
<1> SUFFICES ASSUME IInv, AnswersInv, [Next]_vars PROVE AnswersInv'
  OBVIOUS
<1> USE DEF AnswersInv
<1>0. RequestTypes /\ TypeOK
  BY DEF IInv, TypeOK
<1>1. ASSUME NEW r \in Requests, ReadingStep(r) PROVE AnswersInv'
  <2>1. UNCHANGED spent /\ Promise!Enrolled' = Promise!Enrolled
    BY <1>1, ReadingMoves DEF storeVars, Promise!Enrolled
  <2>2. \A q \in Requests \ {r} : /\ pc'[q] = pc[q] /\ kind'[q] = kind[q]
                                 /\ uniq'[q] = uniq[q] /\ outcome'[q] = outcome[q]
    BY <1>0, <1>1 DEF ReadingStep, StartEnroll, StartStatic, LockEnroll, CheckHub, FindHub,
                      ReadNodeIPs, ReadStaticIPs, BumpAndReply, Goto, Reply, RequestTypes
  <2>3. pc'[r] \in {"lock", "check", "hub", "ips", "staticIps", "dns", "done"}
    BY <1>1, ReadingMoves
  <2>4. uniq'[r] \in Uniques
    BY <1>0, <1>1 DEF ReadingStep, StartEnroll, StartStatic, LockEnroll, CheckHub, FindHub,
                      ReadNodeIPs, ReadStaticIPs, BumpAndReply, Goto, Reply, RequestTypes
  <2>5. CASE BumpAndReply(r)
    <3>1. pc[r] = "bump" /\ pc'[r] = "done" /\ kind' = kind
      BY <1>0, <2>5 DEF BumpAndReply, Goto, Reply, RequestTypes
    <3> QED
      BY <2>1, <2>2, <2>4, <3>1
  <2>6. CASE ~BumpAndReply(r)
    <3>1. outcome'[r] # "ok" /\ pc[r] \notin {"bump", "done"}
      BY <1>0, <1>1, <2>6 DEF ReadingStep, StartEnroll, StartStatic, LockEnroll, CheckHub,
            FindHub, ReadNodeIPs, ReadStaticIPs, Goto, Reply, RequestTypes
    <3> QED
      BY <2>1, <2>2, <2>3, <2>4, <3>1
  <2> QED
    BY <2>5, <2>6
<1>2. ASSUME NEW r \in Requests, InsertNode(r) \/ InsertStatic(r) PROVE AnswersInv'
  <2>1. pc[r] = "insert" /\ UNCHANGED <<kind, uniq>>
    BY <1>2 DEF InsertNode, InsertStatic
  <2>2. CASE /\ pc' = [pc EXCEPT ![r] = "done"] /\ outcome' = [outcome EXCEPT ![r] = "error"]
             /\ UNCHANGED spent
    BY <1>0, <2>1, <2>2 DEF RequestTypes, Promise!Enrolled
  <2>3. CASE /\ pc' = [pc EXCEPT ![r] = "bump"] /\ UNCHANGED <<outcome, spent>>
             /\ kind[r] = "static"
    BY <1>0, <2>1, <2>3 DEF RequestTypes, Promise!Enrolled
  <2>4. CASE /\ pc' = [pc EXCEPT ![r] = "bump"] /\ UNCHANGED outcome
             /\ kind[r] \in {"hub", "node"}
             /\ spent' = [spent EXCEPT ![tok[r]] = @ \union {r}]
    <3>1. tok[r] \in Tokens
      BY <2>4 DEF IInv, AddressInv, KindsFit
    <3>2. Promise!Enrolled' = Promise!Enrolled \union {r}
      BY <1>0, <2>4, <3>1, EnrolledGrows
    <3> QED
      BY <1>0, <2>1, <2>4, <3>2 DEF RequestTypes
  <2> QED
    BY <1>2, <2>2, <2>3, <2>4 DEF InsertNode, InsertStatic, Goto, Reply, storeVars
<1>3. ASSUME NEW r \in Requests, EnsureDNS(r) PROVE AnswersInv'
  BY <1>0, <1>3 DEF EnsureDNS, Goto, RequestTypes, storeVars, Promise!Enrolled
<1>4. CASE Restart
  BY <1>0, <1>4 DEF Restart, RequestTypes, storeVars, Promise!Enrolled
<1>5. CASE UNCHANGED <<spent, pc, kind, uniq, outcome>>
  BY <1>5 DEF Promise!Enrolled
<1>6. CASE DeleteStep \/ FillStep \/ \E t \in Tokens : CreateToken(t) \/ ExpireToken(t)
  BY <1>5, <1>6 DEF DeleteStep, DeleteRead, DeleteRow, DeleteDNS, DeleteDone, FillStep, FillList,
        FillEnsure, FillSet, FillNextPass, CreateToken, ExpireToken, storeVars, reqVars
<1> QED
  BY <1>1, <1>2, <1>3, <1>4, <1>5, <1>6
  DEF Next, RequestStep, ReadingStep, vars, storeVars, reqVars

\* The node of a row, and none of another row.
LEMMA NodeOfFacts ==
  ASSUME NEW r \in Requests
  PROVE  /\ NodeOf(r) # Promise!Absent <=> IsNode(r)
         /\ IsNode(r) => /\ NodeOf(r).kind = rows[r].kind /\ NodeOf(r).key = rows[r].uniq
                         /\ NodeOf(r).ip = rows[r].ip
BY DEF NodeOf, IsNode, Promise!Absent

\* Who was told that it is enrolled.
Told == {r \in Requests : kind[r] # "static" /\ outcome[r] = "ok"}

\* A step that changes no node, no token and no answer is none of the promise.
LEMMA Stutters ==
  ASSUME UNCHANGED <<token, spent, Told>>, \A r \in Requests : NodeOf(r)' = NodeOf(r)
  PROVE  UNCHANGED Promise!vars
BY DEF Promise!vars, Told

\* An insert of a node is its enrollment: the token is good, the address is free among
\* the nodes, and the hub's for a hub only.
LEMMA InsertEnrolls ==
  ASSUME IInv, AnswersInv, NEW r \in Requests, InsertNode(r),
         token[tok[r]] = "valid", Insertable(r, NodeRows)
  PROVE  Promise!Enroll(r, tok[r])
<1>0. TypeOK /\ TypeOK'
  BY InvStep DEF IInv, Next, RequestStep
<1>1. /\ pc[r] = "insert" /\ kind[r] \in {"hub", "node"} /\ tok[r] \in Tokens
      /\ ip[r] \in Hosts /\ (ip[r] = HubIP <=> kind[r] = "hub") /\ uniq[r] \in Uniques
  BY DEF InsertNode, IInv, AddressInv, KindsFit, AnswersInv
<1>2. /\ rows' = [rows EXCEPT ![r] = NewRow(r)] /\ token' = [token EXCEPT ![tok[r]] = "used"]
      /\ spent' = [spent EXCEPT ![tok[r]] = @ \union {r}] /\ UNCHANGED <<kind, outcome>>
  BY DEF InsertNode
<1>3. spent[tok[r]] = {}
  BY <1>1 DEF IInv, TokenMakesOneNode
<1>4. r \notin Promise!Enrolled
  BY <1>1 DEF AnswersInv
<1>5. /\ rows'[r] = NewRow(r) /\ \A q \in Requests \ {r} : rows'[q] = rows[q]
  BY <1>0, <1>2 DEF TypeOK, StoreTypes
<1>6. NodeOf(r)' = [kind |-> kind[r], key |-> uniq[r], ip |-> ip[r]]
  BY <1>1, <1>5 DEF NodeOf, IsNode, NewRow
<1>7. \A q \in Requests \ {r} : NodeOf(q)' = NodeOf(q)
  BY <1>5 DEF NodeOf, IsNode
<1>8. NodeOf(r)' \in Promise!Node /\ Promise!Admissible(NodeOf(r)')
  <2>1. NodeOf(r)' \in Promise!Node
    BY <1>1, <1>6 DEF Promise!Node
  <2>2. ASSUME NEW q \in Requests, NodeOf(q) # Promise!Absent
        PROVE  NodeOf(q).ip # ip[r] /\ NodeOf(q).key # uniq[r]
    BY <2>2, NodeOfFacts DEF Insertable, NodeRows
  <2> QED
    BY <1>1, <1>6, <2>1, <2>2 DEF Promise!Admissible
<1> DEFINE before == [q \in Requests |-> NodeOf(q)]
           after == [q \in Requests |-> NodeOf(q)']
<1>9. after = [before EXCEPT ![r] = after[r]]
  BY <1>7
<1>10. spent' = [spent EXCEPT ![tok[r]] = {r}]
  BY <1>2, <1>3
<1> QED
  BY <1>1, <1>2, <1>3, <1>4, <1>8, <1>9, <1>10 DEF Promise!Enroll

\* A row that a deletion removes is a node's, which goes, or a static peer's.
LEMMA DeleteRemoves ==
  ASSUME IInv, DeleteRow
  PROVE  Promise!Next \/ UNCHANGED Promise!vars
<1>1. PICK k \in Requests : k = del.id
  BY DEF DeleteRow, IInv, NameInv, DeletionApart
<1>2. /\ rows' = [rows EXCEPT ![k] = NoRow]
      /\ UNCHANGED <<token, spent, kind, outcome>>
  BY <1>1 DEF DeleteRow, reqVars
<1>3. /\ rows'[k] = NoRow /\ \A q \in Requests \ {k} : rows'[q] = rows[q]
  BY <1>1, <1>2 DEF IInv, TypeOK, StoreTypes
<1>4. NodeOf(k)' = Promise!Absent
  BY <1>1, <1>3 DEF NodeOf, IsNode, NoRow, Promise!Absent
<1>5. \A q \in Requests \ {k} : NodeOf(q)' = NodeOf(q)
  BY <1>3 DEF NodeOf, IsNode
<1>6. CASE IsNode(k)
  <2> DEFINE before == [q \in Requests |-> NodeOf(q)]
             after == [q \in Requests |-> NodeOf(q)']
  <2>1. before[k] # Promise!Absent
    BY <1>1, <1>6, NodeOfFacts
  <2>2. after = [before EXCEPT ![k] = Promise!Absent]
    BY <1>1, <1>4, <1>5
  <2>3. Promise!Remove(k)
    BY <1>2, <2>1, <2>2 DEF Promise!Remove
  <2> QED
    BY <1>1, <2>3 DEF Promise!Next
<1>7. CASE ~IsNode(k)
  <2>1. \A q \in Requests : NodeOf(q)' = NodeOf(q)
    BY <1>1, <1>4, <1>5, <1>7, NodeOfFacts
  <2>2. Told' = Told
    BY <1>2 DEF Told
  <2> QED
    BY <1>2, <2>1, <2>2, Stutters
<1> QED
  BY <1>6, <1>7

\* Every step is one of the promise or changes nothing of it.
LEMMA PromiseStep ==
  ASSUME IInv, AnswersInv, [Next]_vars
  PROVE  Promise!Next \/ UNCHANGED Promise!vars
<1>0. RequestTypes
  BY DEF IInv, TypeOK
<1>1. ASSUME NEW t \in Tokens, CreateToken(t) \/ ExpireToken(t)
      PROVE  Promise!Next
  <2>1. UNCHANGED <<rows, spent, kind, outcome>>
    BY <1>1 DEF CreateToken, ExpireToken, reqVars
  <2>2. \A q \in Requests : NodeOf(q)' = NodeOf(q)
    BY <2>1 DEF NodeOf, IsNode
  <2>3. Promise!Issue(t) \/ Promise!Expire(t)
    BY <1>1, <2>1, <2>2 DEF CreateToken, ExpireToken, Promise!Issue, Promise!Expire
  <2> QED
    BY <2>3 DEF Promise!Next
<1>2. ASSUME UNCHANGED <<rows, token, spent, Told>>
      PROVE  UNCHANGED Promise!vars
  BY <1>2, Stutters DEF NodeOf, IsNode
<1>3. ASSUME NEW r \in Requests, InsertNode(r)
      PROVE  Promise!Next \/ UNCHANGED Promise!vars
  <2>1. CASE token[tok[r]] = "valid" /\ Insertable(r, NodeRows)
    <3>1. tok[r] \in Tokens
      BY <1>3 DEF InsertNode, IInv, AddressInv, KindsFit
    <3> QED
      BY <1>3, <2>1, <3>1, InsertEnrolls DEF Promise!Next
  <2>2. CASE ~(token[tok[r]] = "valid" /\ Insertable(r, NodeRows))
    <3>1. UNCHANGED <<rows, token, spent, kind>> /\ outcome' = [outcome EXCEPT ![r] = "error"]
          /\ pc[r] = "insert"
      BY <1>3, <2>2 DEF InsertNode, Reply, storeVars
    <3>2. Told' = Told
      BY <1>0, <3>1 DEF AnswersInv, Told, RequestTypes
    <3> QED
      BY <1>2, <3>1, <3>2
  <2> QED
    BY <2>1, <2>2
<1>4. ASSUME NEW r \in Requests, InsertStatic(r)
      PROVE  UNCHANGED Promise!vars
  <2>1. /\ pc[r] = "insert" /\ kind[r] = "static" /\ UNCHANGED <<token, spent, kind>>
        /\ \A q \in Requests \ {r} : outcome'[q] = outcome[q]
        /\ rows' \in {rows, [rows EXCEPT ![r] = NewRow(r)]}
    BY <1>0, <1>4 DEF InsertStatic, Reply, RequestTypes
  <2>2. Told' = Told
    BY <2>1 DEF Told
  <2>3. ~IsNode(r)
    BY <2>1 DEF IInv, AddressInv, RowsFromRequests, IsNode, Exists
  <2>4. \A q \in Requests : rows'[q] = rows[q] \/ (q = r /\ rows'[q].kind = "static")
    BY <2>1 DEF IInv, TypeOK, StoreTypes, NewRow
  <2>5. \A q \in Requests : NodeOf(q)' = NodeOf(q)
    BY <2>3, <2>4 DEF NodeOf, IsNode
  <2> QED
    BY <2>1, <2>2, <2>5, Stutters
<1>5. ASSUME NEW r \in Requests, ReadingStep(r), ~BumpAndReply(r)
      PROVE  UNCHANGED Promise!vars
  <2>1. UNCHANGED <<rows, token, spent>>
    BY <1>5, ReadingMoves DEF storeVars
  <2>2. \A q \in Requests \ {r} : kind'[q] = kind[q] /\ outcome'[q] = outcome[q]
    BY <1>0, <1>5 DEF ReadingStep, StartEnroll, StartStatic, LockEnroll, CheckHub, FindHub,
                      ReadNodeIPs, ReadStaticIPs, Reply, RequestTypes
  <2>3. outcome'[r] # "ok" /\ outcome[r] # "ok"
    BY <1>0, <1>5 DEF ReadingStep, StartEnroll, StartStatic, LockEnroll, CheckHub, FindHub,
                      ReadNodeIPs, ReadStaticIPs, Reply, RequestTypes, AnswersInv
  <2>4. Told' = Told
    BY <2>2, <2>3 DEF Told
  <2> QED
    BY <1>2, <2>1, <2>4
<1>6. ASSUME NEW r \in Requests, BumpAndReply(r)
      PROVE  Promise!Next \/ UNCHANGED Promise!vars
  <2>1. /\ UNCHANGED <<rows, token, spent, kind>> /\ pc[r] = "bump"
        /\ \A q \in Requests \ {r} : outcome'[q] = outcome[q]
    BY <1>0, <1>6 DEF BumpAndReply, Reply, storeVars, RequestTypes
  <2>2. outcome[r] # "ok"
    BY <2>1 DEF AnswersInv
  <2>3. CASE kind[r] # "static" /\ outcome'[r] = "ok"
    <3>1. Told' = Told \union {r}
      BY <2>1, <2>3 DEF Told
    <3>2. r \in Promise!Enrolled
      BY <2>1, <2>3 DEF AnswersInv
    <3>3. \A q \in Requests : NodeOf(q)' = NodeOf(q)
      BY <2>1 DEF NodeOf, IsNode
    <3>4. Promise!Tell(r)
      BY <2>1, <3>1, <3>2, <3>3 DEF Promise!Tell, Told
    <3> QED
      BY <3>4 DEF Promise!Next
  <2>4. CASE ~(kind[r] # "static" /\ outcome'[r] = "ok")
    <3>1. Told' = Told
      BY <2>1, <2>2, <2>4 DEF Told
    <3> QED
      BY <1>2, <2>1, <3>1
  <2> QED
    BY <2>3, <2>4
<1>7. ASSUME FillSet
      PROVE  UNCHANGED Promise!vars
  <2>1. UNCHANGED <<token, spent, Told>>
    BY <1>7 DEF FillSet, reqVars, Told
  <2>2. \A q \in Requests : /\ rows'[q].kind = rows[q].kind /\ rows'[q].uniq = rows[q].uniq
                            /\ rows'[q].ip = rows[q].ip
    BY <1>7 DEF FillSet, IInv, TypeOK, StoreTypes
  <2>3. \A q \in Requests : NodeOf(q)' = NodeOf(q)
    BY <2>2 DEF NodeOf, IsNode
  <2> QED
    BY <2>1, <2>3, Stutters
<1>8. ASSUME Restart
      PROVE  UNCHANGED Promise!vars
  <2>1. UNCHANGED <<rows, token, spent, kind>>
    BY <1>8 DEF Restart, storeVars
  <2>2. \A q \in Requests : outcome'[q] = "ok" <=> outcome[q] = "ok"
    BY <1>0, <1>8 DEF Restart, AnswersInv, RequestTypes
  <2>3. Told' = Told
    BY <2>1, <2>2 DEF Told
  <2> QED
    BY <1>2, <2>1, <2>3
<1>9. ASSUME UNCHANGED <<rows, token, spent, kind, outcome>>
      PROVE  UNCHANGED Promise!vars
  BY <1>2, <1>9 DEF Told
<1>10. CASE (\E r \in Requests : DeleteRead(r) \/ EnsureDNS(r)) \/ DeleteDNS \/ DeleteDone
  BY <1>9, <1>10 DEF DeleteRead, EnsureDNS, DeleteDNS, DeleteDone, storeVars, reqVars
<1>11. CASE FillList \/ FillEnsure \/ FillNextPass \/ UNCHANGED vars
  BY <1>9, <1>11 DEF FillList, FillEnsure, FillNextPass, vars, storeVars, reqVars
<1> QED
  BY <1>1, <1>3, <1>4, <1>5, <1>6, <1>7, <1>8, <1>10, <1>11, DeleteRemoves
  DEF Next, RequestStep, ReadingStep, DeleteStep, FillStep

\* Registry implements EnrollmentPromise: the transaction of token and row with its
\* UNIQUE columns makes an enrollment one step, whatever runs beside it.  (That the
\* address column is not what it fails on is StaysFree.)
THEOREM EnrollmentIsAtomic == Spec => EnrollsAtomically
<1>1. Init => Promise!Init
  BY DEF Init, NodeOf, IsNode, NoRow, Promise!Init, Promise!Absent
<1>2. Spec => []AnswersInv
  BY AnswersInit, AnswersStep, Inductive, PTL DEF Spec
<1>3. IInv /\ AnswersInv /\ [Next]_vars => [Promise!Next]_(Promise!vars)
  BY PromiseStep
<1> QED
  BY <1>1, <1>2, <1>3, Inductive, PTL DEF Spec, EnrollsAtomically, Promise!Spec
=============================================================================
