----------------------------- MODULE HostNames -----------------------------
(***************************************************************************)
(* Device names.  The coordinator derives one `*.kai` name per visible     *)
(* device from two tables that it reads one after the other; the hub's     *)
(* agent carries the list into the managed block of /etc/hosts, which      *)
(* other programs edit as well, into the records of the overlay's DNS      *)
(* responder and into the status that the command line resolves names by.  *)
(*                                                                         *)
(* A label is a word and the numbers behind it: the word nas and <<2>> are *)
(* nas-2.kai, whether a device is called so or the number was added.  Slug *)
(* gives the label of a raw name, NoLabel when nothing usable remains.     *)
(* Enrollment and its races are in Registry, the poll in NetmapSync, the   *)
(* shutdown in DataPlane.                                                  *)
(***************************************************************************)
EXTENDS Naturals, Sequences, SequencesExt, FiniteSetsExt

CONSTANTS
  RawNames,        \* what devices are called
  Slug,            \* text.Slug: the label of each raw name
  HubName,         \* the hub's raw name
  Addrs,           \* overlay addresses for other devices, naturals above 0
  Foreign,         \* lines of /etc/hosts that are not the agent's, as words
  MaxWrites,       \* bound: changes of the tables
  MaxDisturbances  \* bound: edits of /etc/hosts, errors and crashes

Label(word) == [word |-> word, numbers |-> <<>>]
NoLabel == Label("")

ASSUME HostsAssumption ==
  /\ Slug \in [RawNames -> [word : STRING, numbers : Seq(Nat)]]
  /\ HubName \in RawNames
  /\ Addrs \subseteq Nat \ {0}
  /\ {MaxWrites, MaxDisturbances} \subseteq Nat

VARIABLES
  (* the store *)
  nodes,    \* rows of nodes, in the order of created_at
  statics,  \* rows of static_peers, in the order of created_at
  version,  \* meta.netmap_version
  owed,     \* handlers between their commit and their bump
  (* the hub's agent *)
  up,       \* the process runs
  pc,       \* where the sync loop is: at the coordinator, then in applyNetmap
  hver,     \* the version handleNetmap read
  rnodes,   \* the rows of nodes that buildNetmapFor read
  got,      \* the netmap being applied: [version, hosts]
  live,     \* a.nm, which the status API reports
  nm,       \* st.Netmap, in memory and in the state file
  read,     \* /etc/hosts as updateHostsFile read it
  dns,      \* the records of the DNS responder
  file,     \* the lines of /etc/hosts
  (* history and bounds *)
  broken,   \* the last apply was cut short or could not write the file
  writes, disturbances

storeVars == <<nodes, statics, version, owed>>
pollVars == <<pc, hver, rnodes, got>>
hostVars == <<live, nm, read, dns, file>>
vars == <<storeVars, up, pollVars, hostVars, broken, writes, disturbances>>

HubIP == 0
NoList == [version |-> 0, hosts |-> <<>>]

(* The lines of /etc/hosts *)
Begin == [kind |-> "begin", name |-> NoLabel, ip |-> 0]
End == [kind |-> "end", name |-> NoLabel, ip |-> 0]
ForeignLine(x) == [kind |-> "foreign", name |-> Label(x), ip |-> 0]
ForeignLines == {ForeignLine(x) : x \in Foreign}
HostLine(e) == [kind |-> "host", name |-> e.name, ip |-> e.ip]

Row == [name : RawNames, ip : Addrs \union {HubIP}, approved : BOOLEAN]
Words == {Slug[r].word : r \in RawNames} \union {"device"}
Labels == [word : Words, numbers : Seq(Nat)]
Entries == [name : Labels \ {NoLabel}, ip : Addrs \union {HubIP}]
Lists == [version : Nat, hosts : Seq(Entries)]
Lines ==
  {Begin, End} \union ForeignLines
    \union [kind : {"host"}, name : Labels \ {NoLabel}, ip : Addrs \union {HubIP}]

RowsOK == nodes \in Seq(Row) /\ statics \in Seq(Row) /\ rnodes \in Seq(Row)

CountersOK ==
  /\ version \in Nat \ {0} /\ hver \in 0..version /\ owed \in 0..writes
  /\ writes \in 0..MaxWrites /\ disturbances \in 0..MaxDisturbances

LoopOK ==
  /\ pc \in {"down", "idle", "nodes", "statics", "got", "hosts", "rename", "dns"}
  /\ up \in BOOLEAN /\ broken \in BOOLEAN

NamesOK ==
  /\ got \in Lists /\ live \in Lists /\ nm \in Lists
  /\ dns \subseteq Entries
  /\ file \in Seq(Lines) /\ read \in Seq(Lines)

TypeOK == RowsOK /\ CountersOK /\ LoopOK /\ NamesOK

(* The hub is enrolled and its agent is about to start for the first time.  *)
Init ==
  /\ nodes = <<[name |-> HubName, ip |-> HubIP, approved |-> TRUE]>>
  /\ statics = <<>>
  /\ version = 1 /\ owed = 0
  /\ up = FALSE /\ pc = "down"
  /\ hver = 0 /\ rnodes = <<>>
  /\ got = NoList /\ live = NoList /\ nm = NoList
  /\ read = <<>> /\ dns = {}
  /\ \E x \in Foreign : file = <<ForeignLine(x)>>
  /\ broken = FALSE /\ writes = 0 /\ disturbances = 0

Disturb ==
  /\ disturbances < MaxDisturbances
  /\ disturbances' = disturbances + 1

----------------------------------------------------------------------------
(* The elements of s in S, in their order: a loop that appends, as the code *)
(* has it, which says of every prefix what it is.                           *)
OnlyIn(s, S) ==
  LET kept[i \in 0..Len(s)] ==
        IF i = 0 THEN <<>>
        ELSE IF s[i] \in S THEN Append(kept[i - 1], s[i]) ELSE kept[i - 1]
  IN  kept[Len(s)]

----------------------------------------------------------------------------
(* buildHosts                                                               *)

(* sanitizeHostLabel *)
Sanitized(name) == IF Slug[name] = NoLabel THEN Label("device") ELSE Slug[name]

Numbered(base, i) == [base EXCEPT !.numbers = Append(@, i)]

(* Seeded fault: the numbered label is not looked up again. *)
FreeLabelOnce(base, out) ==
  IF \A i \in DOMAIN out : out[i].name # base THEN base ELSE Numbered(base, 2)

(* The base itself, or the base with the least number from 2 that is free. *)
FreeLabel(base, out) ==
  LET used == {out[i].name : i \in DOMAIN out} IN
    IF base \notin used
      THEN base
      ELSE Numbered(base, Min({i \in 2..(Len(out) + 2) : Numbered(base, i) \notin used}))

AddHost(out, d) ==
  Append(out, [name |-> FreeLabel(Sanitized(d.name), out), ip |-> d.ip])

(* One device after the other. *)
Named(ds) ==
  LET hosts[i \in 0..Len(ds)] == IF i = 0 THEN <<>> ELSE AddHost(hosts[i - 1], ds[i])
  IN  hosts[Len(ds)]

(* Seeded fault: the static peers come first. *)
BuildHostsStaticsFirst(ns, ps) == Named(ps \o ns)

BuildHosts(ns, ps) == Named(ns \o ps)

(* "Unapproved nodes are invisible to everyone." *)
Visible(ns) == OnlyIn(ns, {n \in Row : n.approved})

Current == BuildHosts(Visible(nodes), statics)

----------------------------------------------------------------------------
(* The handlers that change the tables; each owes a bump until it is made.  *)

Commit ==
  /\ writes < MaxWrites /\ writes' = writes + 1
  /\ owed' = owed + 1
  /\ UNCHANGED <<version, up, pollVars, hostVars, broken, disturbances>>

IPs(rows) == {rows[i].ip : i \in DOMAIN rows}

(* allocateIP: the lowest free address. *)
Allocate ==
  LET free == Addrs \ (IPs(nodes) \union IPs(statics))
  IN  {a \in free : \A b \in free : a <= b}

(* handleEnroll; whether a node starts approved is the coordinator's        *)
(* configuration.  Names of nodes need not differ.                          *)
Enroll(name, approved) ==
  /\ Commit
  /\ \E a \in Allocate :
       nodes' = Append(nodes, [name |-> name, ip |-> a, approved |-> approved])
  /\ UNCHANGED statics

Approve(i) ==
  /\ Commit
  /\ ~nodes[i].approved
  /\ nodes' = [nodes EXCEPT ![i].approved = TRUE]
  /\ UNCHANGED statics

(* handleNodeDelete, of any node but the hub, whose agent this is about. *)
DeleteNode(i) ==
  /\ Commit
  /\ nodes[i].ip # HubIP
  /\ nodes' = RemoveAt(nodes, i)
  /\ UNCHANGED statics

(* handleStaticPeerCreate; static_peers.name is UNIQUE. *)
CreateStatic(name) ==
  /\ Commit
  /\ \A i \in DOMAIN statics : statics[i].name # name
  /\ \E a \in Allocate :
       statics' = Append(statics, [name |-> name, ip |-> a, approved |-> TRUE])
  /\ UNCHANGED nodes

DeleteStatic(i) ==
  /\ Commit
  /\ statics' = RemoveAt(statics, i)
  /\ UNCHANGED nodes

Bump ==
  /\ owed > 0 /\ owed' = owed - 1
  /\ version' = version + 1
  /\ UNCHANGED <<nodes, statics, up, pollVars, hostVars, broken, writes, disturbances>>

----------------------------------------------------------------------------
(* The sync loop: the long-poll, which reads the version and then the two   *)
(* tables, and applyNetmap.                                                 *)

Goto(l) == pc' = l

Poll ==
  /\ pc = "idle" /\ version > nm.version
  /\ hver' = version /\ Goto("nodes")
  /\ UNCHANGED <<storeVars, up, rnodes, got, hostVars, broken, writes, disturbances>>

ReadNodes ==
  /\ pc = "nodes"
  /\ rnodes' = Visible(nodes) /\ Goto("statics")
  /\ UNCHANGED <<storeVars, up, hver, got, hostVars, broken, writes, disturbances>>

(* Seeded fault: the netmap gets the version of the moment it is complete. *)
ReadStaticsStampedLate ==
  /\ pc = "statics"
  /\ got' = [version |-> version, hosts |-> BuildHosts(rnodes, statics)]
  /\ rnodes' = <<>> /\ hver' = 0 /\ Goto("got")
  /\ UNCHANGED <<storeVars, up, hostVars, broken, writes, disturbances>>

ReadStatics ==
  /\ pc = "statics"
  /\ got' = [version |-> hver, hosts |-> BuildHosts(rnodes, statics)]
  /\ rnodes' = <<>> /\ hver' = 0 /\ Goto("got")
  /\ UNCHANGED <<storeVars, up, hostVars, broken, writes, disturbances>>

(* A store error, a lost request or reply. *)
PollError ==
  /\ pc \in {"nodes", "statics"} /\ Disturb
  /\ rnodes' = <<>> /\ hver' = 0 /\ Goto("idle")
  /\ UNCHANGED <<storeVars, up, got, hostVars, broken, writes>>

(* applyNetmap: enforceLock, which may refuse the netmap before anything    *)
(* changes, a.nm, then the device, which may refuse the peers.  A refused   *)
(* netmap of the coordinator is fetched again, because st.Netmap is still   *)
(* the old one; a refused cached netmap is not.                             *)
Adopt ==
  /\ pc = "got"
  /\ \/ /\ Goto("hosts") /\ live' = got /\ broken' = FALSE
        /\ UNCHANGED <<got, disturbances>>
     \/ /\ Disturb /\ Goto("idle") /\ got' = NoList
        /\ \/ UNCHANGED <<live, broken>>
           \/ live' = got /\ broken' = TRUE
  /\ UNCHANGED <<storeVars, up, hver, rnodes, nm, read, dns, file, writes>>

----------------------------------------------------------------------------
(* /etc/hosts                                                               *)

RenderBlock(hosts) ==
  IF hosts = <<>>
    THEN <<>>
    ELSE <<Begin>> \o [i \in DOMAIN hosts |-> HostLine(hosts[i])] \o <<End>>

Index(f, line) == Min({i \in DOMAIN f : f[i] = line})

(* Seeded fault: a block without its end marker is left alone. *)
StripManagedBlockIntact(f) ==
  IF ~Contains(f, Begin) \/ ~Contains(f, End)
    THEN f
    ELSE SubSeq(f, 1, Index(f, Begin) - 1) \o SubSeq(f, Index(f, End) + 1, Len(f))

(* Seeded fault: the line after the block goes with it. *)
StripManagedBlockLine(f) ==
  IF ~Contains(f, Begin)
    THEN f
    ELSE SubSeq(f, 1, Index(f, Begin) - 1)
           \o (IF Contains(f, End) THEN SubSeq(f, Index(f, End) + 2, Len(f)) ELSE <<>>)

(* A missing end marker takes everything after the begin marker along. *)
StripManagedBlock(f) ==
  IF ~Contains(f, Begin)
    THEN f
    ELSE SubSeq(f, 1, Index(f, Begin) - 1)
           \o (IF Contains(f, End) THEN SubSeq(f, Index(f, End) + 1, Len(f)) ELSE <<>>)

Updated(f, hosts) == StripManagedBlock(f) \o RenderBlock(hosts)

(* Seeded fault: files of the same length are taken for equal. *)
HostsReadByLength ==
  /\ pc = "hosts"
  /\ read' = file
  /\ Goto(IF Len(Updated(file, got.hosts)) = Len(file) THEN "dns" ELSE "rename")
  /\ UNCHANGED <<storeVars, up, hver, rnodes, got, live, nm, dns, file, broken, writes,
                 disturbances>>

(* updateHostsFile reads the file and is done if nothing would change ... *)
HostsRead ==
  /\ pc = "hosts"
  /\ read' = file
  /\ Goto(IF Updated(file, got.hosts) = file THEN "dns" ELSE "rename")
  /\ UNCHANGED <<storeVars, up, hver, rnodes, got, live, nm, dns, file, broken, writes,
                 disturbances>>

(* ... or replaces it by what it made of the copy it read.  syncHosts logs  *)
(* an error and the apply goes on.                                          *)
HostsRename ==
  /\ pc = "rename" /\ Goto("dns")
  /\ \/ file' = Updated(read, got.hosts) /\ UNCHANGED <<broken, disturbances>>
     \/ Disturb /\ broken' = TRUE /\ UNCHANGED file
  /\ UNCHANGED <<storeVars, up, hver, rnodes, got, live, nm, read, dns, writes>>

(* Seeded fault: new records are added to the old ones. *)
SetHostsMerged ==
  /\ pc = "dns" /\ Goto("idle")
  /\ dns' = dns \union ToSet(got.hosts) /\ nm' = got
  /\ got' = NoList /\ read' = <<>>
  /\ UNCHANGED <<storeVars, up, hver, rnodes, live, file, broken, writes, disturbances>>

(* dns.setHosts replaces the records; the netmap is remembered and saved. *)
SetHosts ==
  /\ pc = "dns" /\ Goto("idle")
  /\ dns' = ToSet(got.hosts) /\ nm' = got
  /\ got' = NoList /\ read' = <<>>
  /\ UNCHANGED <<storeVars, up, hver, rnodes, live, file, broken, writes, disturbances>>

(* The process dies; what it had in memory is gone. *)
Crash ==
  /\ up /\ Disturb
  /\ up' = FALSE /\ Goto("down")
  /\ hver' = 0 /\ rnodes' = <<>> /\ got' = NoList /\ live' = NoList /\ read' = <<>> /\ dns' = {}
  /\ broken' = TRUE
  /\ UNCHANGED <<storeVars, nm, file, writes>>

(* Run applies the cached netmap, if there is one, before it polls. *)
Start ==
  /\ ~up /\ up' = TRUE
  /\ got' = nm
  /\ Goto(IF nm = NoList THEN "idle" ELSE "got")
  /\ UNCHANGED <<storeVars, hver, rnodes, hostVars, broken, writes, disturbances>>

(* Somebody else adds a line at either end of the file or removes one ...   *)
Edit ==
  /\ Disturb
  /\ \E x \in Foreign :
       LET l == ForeignLine(x) IN
         IF Contains(file, l)
           THEN file' = RemoveAt(file, Index(file, l))
           ELSE file' \in {<<l>> \o file, Append(file, l)}
  /\ UNCHANGED <<storeVars, up, pollVars, live, nm, read, dns, broken, writes>>

(* ... or loses the end marker of the block. *)
EditEnd ==
  /\ Disturb
  /\ Contains(file, End)
  /\ file' = RemoveAt(file, Index(file, End))
  /\ UNCHANGED <<storeVars, up, pollVars, live, nm, read, dns, broken, writes>>

----------------------------------------------------------------------------
AdminStep ==
  \/ \E name \in RawNames : CreateStatic(name) \/ \E b \in BOOLEAN : Enroll(name, b)
  \/ \E i \in DOMAIN nodes : Approve(i) \/ DeleteNode(i)
  \/ \E i \in DOMAIN statics : DeleteStatic(i)

AgentStep ==
  \/ Poll \/ ReadNodes \/ ReadStatics \/ Adopt
  \/ HostsRead \/ HostsRename \/ SetHosts \/ Start

Next == AdminStep \/ Bump \/ AgentStep \/ PollError \/ Crash \/ Edit \/ EditEnd

Spec == Init /\ [][Next]_vars

(* Handlers finish, the sync loop goes on, systemd restarts the agent.      *)
FairSpec == Spec /\ WF_vars(Bump) /\ WF_vars(AgentStep)

----------------------------------------------------------------------------
(* Properties                                                               *)

Lookup(entries, name) == {e.ip : e \in {d \in entries : d.name = name}}

(* The command line (resolveDevice), the resolver and the DNS responder,    *)
(* asked for a name of a host list.  What is in no list the command line    *)
(* also looks for among the raw names of the peers, which neither of the    *)
(* others knows: that is left out.                                          *)
ResolveDevice(name) == Lookup(ToSet(live.hosts), name)
HostLines == {l \in ToSet(file) : l.kind = "host"}
ResolveFile(name) == Lookup(HostLines, name)
AnswerKai(name) == Lookup(dns, name)

KnownNames ==
  {e.name : e \in ToSet(live.hosts) \union dns} \union {l.name : l \in HostLines}

(* Every device has a name and no two have the same, though the added       *)
(* numbers can collide with what a device is really called, nothing of a    *)
(* name may be usable, and the two tables can change between their reads.   *)
OneDevicePerName ==
  \A l \in {got, live, nm} :
    \A i, j \in DOMAIN l.hosts :
      l.hosts[i].name # NoLabel /\ (l.hosts[i].name = l.hosts[j].name => i = j)

(* A list that is current by its version names every visible device once    *)
(* and no other: what a change between the two reads tears apart is never   *)
(* taken for current.                                                       *)
CurrentListIsExact ==
  live.version = version /\ owed = 0
    => /\ Len(live.hosts) = Len(Visible(nodes)) + Len(statics)
       /\ IPs(live.hosts) = IPs(Visible(nodes)) \union IPs(statics)

(* After an apply that went through, a name means the same to the command   *)
(* line, to the hub itself and to the devices that ask the hub.             *)
ViewsAgree ==
  pc = "idle" /\ ~broken
    => \A n \in KnownNames :
         ResolveFile(n) = ResolveDevice(n) /\ AnswerKai(n) = ResolveDevice(n)

(* A new static peer renames nobody, and a new node renames no node         *)
(* ("duplicates get -2, -3, ... in enrollment order", netmap.go:17).        *)
NewcomersRenameNoNode ==
  [][\A ns \in {nodes'}, ps \in {statics'} :
       LET after == ToSet(BuildHosts(Visible(ns), ps)) IN
         /\ Len(ps) > Len(statics) => ToSet(Current) \subseteq after
         /\ Len(ns) > Len(nodes) => ToSet(BuildHosts(Visible(nodes), <<>>)) \subseteq after]_vars

(* "a stable name" (netmap.go:16): nobody is renamed by a device that comes *)
(* after it.  It does not hold of the code (README, Known divergences).     *)
StableNames ==
  [][\A ns \in {nodes'}, ps \in {statics'} :
       Len(ns) >= Len(nodes) /\ Len(ps) >= Len(statics)
         => ToSet(Current) \subseteq ToSet(BuildHosts(Visible(ns), ps))]_vars

(* Rewriting the block keeps the lines of others, in their order, unless    *)
(* the end marker is missing or the file changed since it was read.         *)
ForeignLinesKept ==
  [][HostsRename /\ read = file /\ (Contains(file, Begin) => Contains(file, End))
       => OnlyIn(file', ForeignLines) = OnlyIn(file, ForeignLines)]_vars

(* An edit that falls between the read and the rename survives it.          *)
(* It does not hold of the code (README, Known divergences).                *)
EditsSurvive ==
  [][HostsRename /\ (Contains(file, Begin) => Contains(file, End))
       => OnlyIn(file', ForeignLines) = OnlyIn(file, ForeignLines)]_vars

(* Whatever crashes, edits and lost markers do, there is one block at most, *)
(* and every name in the file is inside it.                                 *)
OneBlock ==
  /\ \A i, j \in DOMAIN file : file[i] = Begin /\ file[j] = Begin => i = j
  /\ \A i \in DOMAIN file :
       file[i].kind = "host" => \E j \in 1..(i - 1) : file[j] = Begin /\ End \notin
         {file[k] : k \in j..i}

(* Once the changes end, the names arrive: /etc/hosts and the responder     *)
(* have the coordinator's list, and keep it.  Two things are not repeated   *)
(* before the next netmap: a failed write of the file, and the cached       *)
(* netmap that the device refused at start.                                 *)
NamesArrive ==
  <>[](/\ up
       /\ dns = ToSet(Current) \/ (broken /\ dns = {})
       /\ broken \/ \A n \in KnownNames : ResolveFile(n) = Lookup(ToSet(Current), n))

(* The cached netmap is there "so the data plane comes back after a reboot" *)
(* (agent.go:280).  It does not hold of the code (README, Known             *)
(* divergences): the poll after a refused cached netmap asks for a newer    *)
(* one than the cached.                                                     *)
NamesComeBack == <>[](dns = ToSet(Current))

----------------------------------------------------------------------------
(* The inductive invariant behind OneDevicePerName, CurrentListIsExact,     *)
(* ViewsAgree and OneBlock.                                                 *)

Distinct(hosts) ==
  \A i, j \in DOMAIN hosts : hosts[i].name = hosts[j].name => i = j

NamesInv == \A l \in {got, live, nm} : Distinct(l.hosts)

IsExact(hosts) ==
  /\ Len(hosts) = Len(Visible(nodes)) + Len(statics)
  /\ IPs(hosts) = IPs(Visible(nodes)) \union IPs(statics)

(* The version is read before the tables and grows after them: a list that  *)
(* is behind one of them is behind the version, now or when the handler     *)
(* has made its bump.                                                       *)
ExactInv ==
  /\ \A l \in {got, live, nm} :
       /\ l.version <= version
       /\ l.version = version /\ owed = 0 => IsExact(l.hosts)
  /\ pc = "statics" /\ hver = version /\ owed = 0 => rnodes = Visible(nodes)

(* One block at most; its end after its begin; the names in it or, when its *)
(* end is lost, behind its begin; nothing of others between the two.        *)
WellFormed(f) ==
  /\ \A i, j \in DOMAIN f : f[i] = f[j] /\ f[i] \in {Begin, End} => i = j
  /\ \A k \in DOMAIN f : f[k] = End => \E j \in 1..(k - 1) : f[j] = Begin
  /\ \A i \in DOMAIN f : f[i].kind = "host"
       => \E j \in 1..(i - 1) : f[j] = Begin /\ \A k \in j..i : f[k] # End
  /\ \A i, j, k \in DOMAIN f :
       f[j] = Begin /\ f[k] = End /\ j < i /\ i < k => f[i] \notin ForeignLines

FileInv == WellFormed(file) /\ WellFormed(read)

FileHas(hosts) == HostLines = {HostLine(e) : e \in ToSet(hosts)}

(* What the file and the responder have, by the place of the apply.         *)
ViewsInv ==
  /\ ~up => pc = "down"
  /\ pc \in {"hosts", "rename", "dns"} => live = got
  /\ ~broken /\ pc = "dns" => FileHas(got.hosts)
  /\ ~broken /\ pc \in {"down", "idle", "nodes", "statics", "got"}
       => FileHas(live.hosts) /\ dns = ToSet(live.hosts)

IInv ==
  /\ TypeOK
  /\ NamesInv
  /\ ExactInv
  /\ FileInv
  /\ ViewsInv
=============================================================================
