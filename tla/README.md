# home-kai: TLA+ models, checks and proofs

home-kai is a small mesh VPN. One **coordinator** (`kai-coordinator`) keeps the
registry of devices in SQLite and serves each device a *netmap*; an **agent**
(`kai-agent`) on every node turns its netmap into WireGuard peers, names, port
forwards and iptables chains; the admin uses **home-kai**, a command line, or the
web page. This directory models the parts of that system whose correctness depends
on the order in which things happen, checks them with TLC on small instances, and
proves with TLAPS, for every instance, every safety property it checks, of all ten
components: that netmap distribution and enrollment implement what they promise, that tokens,
addresses and names are given out once, that a heartbeat enables nothing the admin did not, that a pinned agent
installs signed peers only, that the device follows the prober, that the compiled filters
amount to the policies, that the host is what the last netmap says or knows which part
failed, that key rotation brings the copies of a key together, that a name is one device
for everybody who asks, and that certificates and sessions last.

Paths below are relative to `src/`. `PROJECT.json` maps every definition to the
lines it models.

## 1. Inventory

| Component | State | Operations | What makes it correct |
|---|---|---|---|
| Netmap distribution (`coordinator/server.go`, `node.go`, `netmap.go`; `agent/agent.go`) | `meta.netmap_version`, the tables, the wake channel; the agent's applied, remembered and saved netmap | mutating handlers (commit, bump, notify), long-poll handler, sync loop, probe loop's re-apply | a netmap that lacks a commit is recognisable by its version; no poll sleeps through a bump; every agent ends up with all that was committed |
| Registry (`node.go`, `staticpeer.go`, `ipam.go`, `server.go`, `dns/`) | tokens, node and static-peer rows, overlay addresses, DNS records, `enrollMu` | token creation and expiry, enroll, static-peer creation, deletion, DNS backfill | a token makes one node; addresses are unique, the hub's is the hub's; named devices resolve |
| Heartbeats and routes (`node.go`, `routes.go`, `store/store.go`) | endpoints, observed endpoints, advertised and enabled routes | `handleStatus`, `handleNodeRoutes`, deletion | only the admin enables a route; one router per route; enabled within advertised; changes are announced |
| Network lock (`coordinator/lock.go`, `agent/lock.go`, `cmd/home-kai/lock.go`) | lock key, active flag, signatures; pin and cached netmap in the agent's state file | init, sign, disable, rekey; pin, filter, save, restart | a pinned agent installs signed peers only; a persisted pin sticks |
| Prober (`agent/probe.go`, `agent/agent.go`, `agent/wgdev`) | probe state per peer, device peers, `a.mu`, `applyMu` | read, decide, compose, install; the same from the sync loop | the device follows the probe states; dead paths fall back; probing never stops |
| Data plane (`agent/agent.go`, `hosts.go`, `publish.go`, `nat_linux.go`, `wgdev/wgdev_linux.go`) | OS routes and the device's record of them, `/etc/hosts` block, listeners, two iptables chains, the filter fingerprint | apply, shutdown, death, restart | what the last netmap says is in force; no route of the agent's is forgotten; exit cleans up |
| ACL (`coordinator/acl.go`, `netmap.go`; `agent/filterspec.go`, `nat_linux.go`) | tags, policies, approvals, enabled subnets | admin changes and their normalisation; compilation; filtering | what arrives is what the admin asked for |
| Key rotation (`agent/rekey.go`, `state.go`; `node.go`; `cmd/kai-agent/main.go`) | the WireGuard key in the coordinator's row, the state file, the daemon and the device | re-assert, rotation, offline command, `handleRekey` | the four copies come together again where rotation is configured |
| Host names and DNS proxy (`coordinator/netmap.go`, `agent/hosts.go`, `dnsproxy.go`, `cmd/home-kai/local.go`) | the list in the netmap, the managed block among other lines of `/etc/hosts`, the responder's records | derive, apply, restart; others edit the file | one device per name, the same for everybody who asks; newcomers take nobody's name; foreign lines stay |
| TLS certificates (`coordinator/tlscert.go`, `cmd/kai-coordinator/main.go`) | the pair agents pin, the UI's pair, each in two files; the cached UI pair | create, load, reload; the renewal hook | what agents pinned stays valid; the UI always has a pair that matches and gets the renewed one |
| Sessions, login (`coordinator/session.go`) | in-memory sessions | login with sweep, check, logout, expiry | a session ends for a reason and then for good |
| Events, webhook, metrics | append-only log | record, list | nothing else reads it |
| Store (`coordinator/store/store.go`) | SQLite on one connection | one statement or one transaction per call | each call is atomic: every module uses that |
| Device drivers (`agent/wgdev`) | kernel device | bring-up, `ApplyPeers`, `SyncRoutes`, `SetPrivateKey` | used by Prober, DataPlane and KeyRotation; the rest is I/O |
| Local status API (`agent/localapi.go`) | a socket | status | its presence (`kai-agent rekey`) and the host list it reports |
| Command line, HTTP client, text, output, web page | none | one request each | transport and formatting |

**Interactions.** Handlers share the database and, for enrollment only, `enrollMu`;
each store call is atomic, a handler is not. Every mutating handler ends in
`bumpNetmap`, which increments the version and closes the wake channel on which
long-polls park. In an agent three goroutines (sync, probe, rekey) share the state;
`applyMu` serialises applies, `a.mu` protects the probe states, and `Run` cleans up
at exit under neither. Agent and coordinator talk over HTTP: a request may be
refused, lost on either leg, or outlive its sender.

**Hard behaviours.** Read-check-write sequences of concurrent handlers; a version
read before the data it describes; state captured under one lock and applied under
another; a crash between commit and bump, between registering a key and saving it,
between two iptables commands, between the two files of a certificate; a DNS provider
that did the work and lost the answer; a pin and a cached netmap in one file; files and
routes that other programs change as well; timers that decide when a path is dead. The
concrete places are the "hazards" of `PROJECT.json`.

## 2. Modules

Each module is one component; its `MC...` module and `.cfg` instantiate it for TLC.
Program counters name the point between two atomic steps at which a goroutine
stands; an atomic step is one store call, one lock operation, one request leg, one
file write or one command.

**NetmapSync.** `version`, `tbl`, `row`, `approved`, `registered` are the store;
`wakeCh` the identity of the open channel; `wpc` the mutating handlers (`WriteRow`,
`Approve`, `Delete` or `WriteTable`, then `BumpVersion`, then `Notify`); `ppc` and its
companions the long-poll (`Request`, `Authenticate`, `CaptureWake`, `ReadVersion`,
park or `ReadTable` one table at a time, `Deliver`); `nm`, `live`, `disk`, `probeNm`
the netmaps in `st.Netmap`, `a.nm`, the state file and the probe step's hands. A
table's content is the number of commits to it. `log` and `orphaned` are history:
the tables at the moment of each bump, and whether a handler has died between its
commit and its bump since.

**NetmapPromise.** What NetmapSync is for, in three actions: tables change (`Commit`),
their content is announced under the next version (`Announce`), a node comes to hold
a netmap (`Hold`), be it an older one, provided it is faithful: everything announced
up to its version, nothing uncommitted. NetmapSync implements it (`KeepsPromise`) with
`tables` mapped to `tbl`, `held` to `nm`, and the auxiliary variable `log` to itself:
a bump is an `Announce`, a save of a netmap or a crash is a `Hold`, everything else
but a commit stutters.

**Registry.** One process per request, walking through `handleEnroll` or
`handleStaticPeerCreate`; deletion and backfill are processes of their own.
`Allocate` is `allocateIP`'s walk over the range. A DNS call may do its work and
still report an error.

**EnrollmentPromise.** What an enrollment amounts to, without handlers, locks, reads or
crashes: a request becomes a node in one step (`Enroll`) that spends a token good at
that moment and takes an address free at that moment, the hub's for a hub; it does so
once, and is told of it only afterwards (`Tell`); tokens are issued and expire, nodes are
removed. Registry implements it (`EnrollsAtomically`) with `node` mapped to the node rows
without their DNS names, `made` to the history variable `spent`, and `told` to the
enrollments answered `ok`. Static peers are not part of the promise: their addresses come
from the same range without `enrollMu`, and `registry_addresses` shows what follows.

**StatusRoutes.** `handleStatus` and `handleNodeRoutes`, store call by store call;
`SetAdvertisedRoutes` is a read and a write, as in the code. Three variables are
history: `unsent`, which tables changed since the last bump; `word`, the routes of the
admin's last request for a node; `crossed`, what a heartbeat between its read and its
write was about to write back (`InFlight`) when that request went through.

**NetworkLock.** The coordinator's handlers, the client commands that drive them,
rekeys, and an agent's `enforceLock`, installs, saves and restarts. A signature is
its signer and the generation of the key it covers; cryptography is perfect.

**Prober.** `syncProbes`, `probeStep`, `composePeers` with `a.mu` and `applyMu` as
the code takes them; ages are counted in probe ticks and capped just above the
largest threshold. The device (external) resets handshake times when all peers are
replaced, as wireguard does for `ReplacePeers`.

**DataPlane.** `applyNetmap`'s host part and `Run`'s clean-up, command by command,
each of which may fail. Where the code ignores the failure (`iptablesRule.remove`, the
`-F` and `-X` of a removal) the step goes on as if it had worked, and `ignored` remembers
which command it was. A process may die anywhere and start again on the host it
left. `SyncRoutes` is one netlink call at a time: `RouteDel`, then per missing prefix
the look for a conflict and `RouteReplace`; `table` is the host's routing table, which
others touch (`RouteTouched`), `routes` the device's record of what it installed. It is
the Linux device: macOS has no conflict check.

**AclCompile.** Admin changes as actions; `buildNetmapFor`'s rules, candidate
withholding and allowed IPs as operators; `RelayDelivers` and `DirectDelivers`
follow a connection through the filters and the NAT. A policy is created from a request
with labels and port entries as the admin writes them: `NormalizeTags` keeps the slugs
(`Slug` is a parameter; a label may have none), `NormalizePorts` drops blanks, sorts and
refuses what is no port, and the row keeps its request (`asked`) as history. `Allowed` is
the reference meaning of requests, stated without normalisation, rules or chains. A
port entry is its number or blank: `80` and `080`, which the code stores both, are one.

**KeyRotation.** The rekey loop, the offline command and `handleRekey`, one place
of the key at a time. Keys that are nowhere in use are as good as new ones, so a
finite set stands for all. Whether the agent rotates by itself (`auto`, `RekeyDays > 0`;
the default is not to) is part of the state it starts with. `disturbances` bounds everything that comes from outside:
errors, lost messages, crashes, offline commands, lock operations.

**HostNames.** The rows that have names, `buildHosts` over them (`BuildHosts`, one
device after the other, as a recursive function), the poll that reads the two tables in
two steps, and `applyNetmap`'s use of the list on the hub: `a.nm`, which the command
line resolves by (a name of the list; the fallback of `resolveDevice` to the raw names of
peers is left out), `/etc/hosts` as a sequence of lines, the responder's records, the
remembered netmap. A label is a word and the numbers behind it, so that a device called
`nas-2` collides with the second `nas`. Others add and remove lines of the file and
lose the block's end marker at any moment. `Slug` is a parameter.

**WebConsole.** The coordinator's process: `LoadOrCreateCert` file by file, with a stat
that finds the certificate, does not find it or fails (`missed` has the pairs that a failed
stat hid until they are loaded again), `reload`
as stat, certificate, key, with the hook of certbot truncating and writing either file
in between, the listeners, and the session map. A pair is a number. It starts over
whenever it ends.

**Seeded faults.** Next to some definitions stands a variant marked "Seeded fault",
with the bug that a small change to the code would introduce. It is used by no
specification; `PROJECT.json` ("mutants") names, for every property, the variant
that breaks it.

## 3. Runs

`tlc -config X.cfg MCModule` in this directory. Every run is exhaustive for its
bounds and takes from seconds to two and a half minutes with two workers.

| Run | Checks | Shows |
|---|---|---|
| `netmap` | `TypeOK`, `StaleNetmapIsOutdated`, `NoLostWakeup`, `KeepsPromise`, `Converges` | Two handlers racing with a long-poll that reads two tables one after the other, with a failed bump, lost replies, probe re-applies and crashes on either side: an agent that misses a commit has an older version, a parked poll misses no bump, agents converge, and the whole implements NetmapPromise. |
| `registry` | `TokenMakesOneNode`, `EnrollAddressStaysFree`, `HubAddressReserved`, `NamedDevicesResolve`, `EnrollsAtomically` | One token, one node, whatever fails before the insert; an enrollment's address is not taken by another enrollment while it waits for DNS; the hub's address is never handed out, not even by an exhausted range; a named device's record exists and is its own; enrollments, however they interleave, are single steps of EnrollmentPromise. |
| `routes` | `EnabledByAdminOnly`, `EnabledConverges` | What is enabled is what the admin asked for last, or what a heartbeat was writing back at that moment: the unlocked read and write of `SetAdvertisedRoutes` brings back nothing older. Heartbeats bring the enabled routes back within the advertised ones. |
| `lock_safety` | `TypeOK`, `PinnedInstallsSigned`, `PersistedPinSticks` | Whatever the coordinator's tables hold, a pinned agent installs only bindings its pinned key signed; a pin that reached the file survives. |
| `prober` | `TypeOK`, `NoCandidatesNoPath`, `RoutesFollowProbes`, `DeadPathRelayed`, `KeepsHunting` | Two loops, two mutexes, failing installs: the device follows the probe states, dead paths are relayed, probing goes on. |
| `dataplane_safety` | `AppliedIsInForce`, `CleanExit`, `NoRouteLeaks` | The host is what the last netmap says unless a command on that very part failed (or others took a route), also for a process that inherits a half-built host; every route it put into the host is one it still knows of; an exit that no apply races leaves a jump, a rule or a chain only where the command that removes it failed. |
| `acl_semantics` | `OnlyAllowed`, `AllowedArrives` | Normalisation, input filters, forward filters, withheld candidates and allowed IPs together amount to what the admin asked for, except for the three cases of section 6. |
| `rekey` | `SettledKeysAgree`, `KeysComeTogether` | After a re-assert or rotation that nothing disturbed, registered, daemon's and device's key agree, whatever had failed before; an agent that rotates by itself and is not locked repairs a rotation cut short by the next one, without a restart. |
| `host_names` | `OneDevicePerName`, `CurrentListIsExact`, `ViewsAgree`, `OneBlock`, `NewcomersRenameNoNode`, `ForeignLinesKept`, `NamesArrive` | Whatever devices are called and whenever the tables change, a name is one device; a list that is current by its version is exact; after an apply the command line, the hosts file and the responder give one answer; the block is one block and foreign lines stay; the names arrive in the end. |
| `web_console` | `PinsStayValid`, `UIHasPair`, `RefusedForGood`, `RenewalPickedUp`, `SessionsKept` | Agents are shown no second certificate unless a stat of the first one fails; the UI has a matching pair at every moment it is up and serves the renewed one in the end, however the copies fall between the steps of a reload; a session ends by expiry, logout or restart only, and never comes back. |
| `registry_addresses` | `AddressesUnique` (violated) | A static peer, created without `enrollMu`, and an enrollment get one address. |
| `lock_rearm` | `SignaturesByLockKey` (violated) | `init k1`, `sign`, `disable`, `init k2`: the signatures of `k1` are kept and count as signed. |

The type invariant is proved for every module (section 5), in some without a run that
lists it: a run lists what can really go wrong.

### Bounds

- `netmap`: one node, because polls and agents of different nodes share nothing but
  the store, which two handlers disturb in every order (the proofs of section 5 are
  for any number); two tables, so that a commit can fall before, between and after
  the reads; one of them cascades when a node is deleted; two writes and two
  disturbances (`MaxWrites`, `MaxDisturbances`), enough for a write behind a fault.
- `registry`: two requests, each an enrollment of a node, of the hub, or a static
  peer; two tokens, two unique values (equal and different keys); two hosts, so that
  the range is exhausted and a deleted address reused; one deletion, one crash.
  `registry_addresses` uses three requests and three hosts.
- `routes`: the hub, which advertises nothing, and a spoke with two subnets, so that a
  heartbeat which retracts one writes the other back; two addresses, one admin goroutine
  with two requests (to enable, and to disable while the write-back is under way), one
  later change on the agents' side (a move, a retraction, a list the coordinator refuses).
- `lock_safety`: one device, two lock keys, two admin commands at a time out of
  three, one rekey, two faults; peers are filtered one by one, so devices do not
  interact. `lock_rearm` has a node and a static peer and four commands.
- `prober`: one peer (probe states are independent; what they share, `applyMu` and
  the netmap, is contended by the two loops); lists with two dialable candidates and
  one that is not, and a shorter one; windows of 1 and 2 ticks keep the order of the
  real constants that matters (an attempt ends before a path is stale); two netmaps,
  two faults.
- `dataplane_safety`: one published port, an open netmap and two filtered ones that
  differ in every part, with no, one and two subnets; two applies and a third, of the
  cached netmap, after the one restart; two failures or foreign route changes (one to
  disturb, one in the repair).
- `acl_semantics`: a hub, two Linux nodes, a macOS node and a phone, so that each
  pair of kinds occurs; a subnet behind the hub and one behind a spoke; one tag, a label
  that is written differently and one without a slug; two policies out of twelve requests
  with lists that normalisation leaves, shortens, empties or refuses; `MultiportMax = 2`
  and three ports, so that the last piece is a partial one.
- `rekey`: seven keys, the most that can be in use at a time; two disturbances; agents
  that rotate by themselves and agents that do not.
- `host_names`: names that collide as they are (`nas` twice), that collide with a
  number (`nas-2`) and that leave no label; two changes of the tables beside the hub,
  three addresses (none is reused within a run unless freed), one foreign line, two
  disturbances, so that an edit can meet a failure or a crash.
- `web_console`: two sessions that live one tick of two, so that one expires beside a
  live one; two renewals, the second during the reload of the first; two faults, so
  that a crash of the first start can be followed by another, and a failed stat by a
  crash before, between or after the two writes.

`CHECK_DEADLOCK FALSE` is set where the system may really come to rest: all requests
made (registry), all nodes deleted (routes), the process exited for good (data plane),
no more changes (host names, web console).

### Fairness

- `netmap`: goroutines that can run do run (a handler finishes, a poll advances, the
  agent asks again and applies, the prober applies what it copied); the 55 s deadline of a parked poll fires
  (`longPollTimeout`, `coordinator/server.go:31`). Writes and faults are never fair. An apply
  is assumed to succeed eventually.
- `routes`: `Run`'s 60 s ticker (`statusInterval`) keeps sending heartbeats; handlers finish.
- `prober`: the probe ticker and time go on; a mutex that is free again and again is
  acquired (strong fairness: Go mutexes hand over to starving waiters). Handshakes
  are not fair.
- `rekey`: systemd restarts the agent (`Restart=always` in
  `deploy/systemd/kai-agent.service`), handlers and loops run, keys grow old, a command
  that was started is carried through. Disturbances are not fair. A rotation comes only
  to an agent with `RekeyDays > 0`, and `KeysComeTogether` promises something only to it.
- `host_names`: handlers make their bump, the sync loop goes on, systemd restarts the
  agent. Changes, edits, errors and crashes are not fair. `NamesArrive` excuses a failed
  write of the file and a cached netmap refused at start, which the code does not repeat.
- `web_console`: systemd restarts the coordinator, its steps and the hook's copies
  finish, connections keep coming (the page polls), and the 30 s between two looks at the
  file (`certStatInterval`) pass. `RenewalPickedUp` excuses a pair of the coordinator's own that was cut short
  when it was written (`ComesUpAgain`, section 6).

## 4. Hazards and properties

`PROJECT.json` lists each hazard at its line with the properties that would catch it.
Those without a property, and those which a property covers in part, say why: the
promise is known to be broken (section 6).

The list leaves aside what follows, places where the order of steps shows but the code
makes no promise: a sign request refused half way keeps its earlier signatures
(`coordinator/lock.go:150`); a netmap that cannot be applied is fetched again without
backoff (`agent/agent.go:231`); a hooked chain has no final DROP between its flush and its
last append (`agent/nat_linux.go:170`); endpoints age out of the netmap without a bump
(`coordinator/node.go:187`). NetworkLock and DataPlane contain the first and the third as
steps of their own. The pin asked for before a rotation (`agent/rekey.go:40`) and the NAT
in front of a filter (`agent/nat_linux.go:86`) are in section 6.

## 5. Proofs

`tlapm XProofs.tla` in this directory, for

| Proof module | About |
|---|---|
| `NetmapSyncProofs` | NetmapSync and its refinement of NetmapPromise |
| `RegistryProofs` | Registry and its refinement of EnrollmentPromise |
| `StatusRoutesProofs` | StatusRoutes |
| `NetworkLockProofs` | NetworkLock |
| `ProberProofs` | Prober |
| `FilterProofs` | AclCompile and DataPlane: what the filters mean, and that the host has them |
| `CredentialsProofs` | KeyRotation and WebConsole |
| `HostNamesProofs` | HostNames |

Two of them extend two modules; AclCompile's and WebConsole's specifications therefore
have names of their own (`AclSpec`, `AclTypeOK`; `ConsoleSpec`, `ConsoleTypeOK`,
`ConsoleInv`). Every theorem is about the module's specification without fairness, for
every value of the constants; the bounds on writes, faults and commands are constants
too, so any finite number of disturbances is covered. Each inductive invariant was checked
by TLC on the run's instance before it was proved, and is defined at the end of its module.

### Netmap distribution

The theorems are about `NetmapSync!Spec` for every set of nodes and handlers, every
number of tables, writes and faults; the assumptions are `ConstantsAssumption` (at least
one table, `Cascaded` a set of tables, bounds natural numbers) and nothing else.

- `TypeCorrect`: `Spec => []TypeOK`.
- `Inductive`: `Spec => []IInv`.
- `StaleNetmapDetected`: `Spec => []StaleNetmapIsOutdated`.
- `WakeupNeverLost`: `Spec => []NoLostWakeup`.
- `ImplementsPromise`: `Spec => KeepsPromise`, the refinement of NetmapPromise.

`StaleNetmapIsOutdated` is not inductive: it speaks of the applied netmap only, and a
step that applies a reply says nothing about what the reply holds. `IInv` follows the
content from the commit to the agent:

- `CommitsAnnounced`: what was announced is committed, and what is committed is in the
  last entry of `log` or some handler owes its bump (or died owing it);
- `PollsSound`: the tables a handler has read so far have everything announced under the
  version it read first, and nothing uncommitted;
- `AgentsSound`: every netmap an agent holds, applied, live, captured by the prober or on
  disk, is `Faithful` in NetmapPromise's sense;
- `WakesKnown`: a captured channel is the open one or an older one, which makes
  `NoLostWakeup` inductive, because the channel was captured before the version
  was read and is closed after the bump.

The proof is one lemma per conjunct, one case per action that can disturb it, and
frame lemmas for the rest. The refinement needs nothing more: `AgentsSound` after a step
is the guard of `Hold` (`PromiseStep`).

### Key rotation

For every number of keys and disturbances (`BoundsAssumption`):

- `KeysInductive`: `Spec => []IInv`.
- `KeysSettle`: `Spec => []SettledKeysAgree`.

`SettledKeysAgree` speaks of the state after a change; that the change leads there
depends on who else can still write the coordinator's row and on the copies at every
point of the loop. `IInv` adds to the types: `RequestsOK` (a request exists only while
somebody waits for it or has abandoned it, and carries a key), `NobodyElse` (while the
loop is alone or settled no other request can reach the row), `LoopOK` (at each program
point which of row, daemon and device have the key; `Reached`: a request past the write
is what the row says). One lemma per actor (coordinator, abandoned requests and lock,
daemon, loop, command), one case per action.

### Routes

For every set of nodes, routes, addresses and admins and every number of requests and
changes (`ConstantsAssumption`):

- `TypeCorrect`: `Spec => []TypeOK`.
- `AdminEnables`: `Spec => []EnabledByAdminOnly`.

`EnabledByAdminOnly` is not inductive: `SetAdvertisedRoutes` writes a part of the enabled
routes it read earlier, and between the two an admin may have replaced them or a deletion
emptied them. `IInv` adds `ReadApproved` (what a handler is about to write back is in the
admin's word or was crossed by it) and `ReportsChecked` (past `normalizeRoutes` a report
holds no refused prefix, which the types need). A request that replaces the word takes
what is in flight at that moment into `crossed`, so no write-back can bring more than one
request's past with it. One lemma per actor: agent, `handleStatus`, admin.

### Registry

For every set of requests, tokens and unique values, every size of the range, with and without a
DNS domain, any number of deletions and crashes (`ConstantsAssumption`):

- `TypeCorrect`: `Spec => []TypeOK`.
- `OneNode`: `Spec => []TokenMakesOneNode`.
- `StaysFree`: `Spec => []EnrollAddressStaysFree`.
- `HubReserved`: `Spec => []HubAddressReserved`.
- `NamesWork`: `Spec => []NamedDevicesResolve`.
- `EnrollmentIsAtomic`: `Spec => EnrollsAtomically`, the refinement of EnrollmentPromise.

`TokenMakesOneNode` is inductive with the types, since token and row change in one
transaction. The others need what a handler knows between two of its calls:

- `RowsFromRequests`, `KindsFit`: which fields are settled at which step, and that a row
  is what its request asked for;
- `OneEnrollment`: from its first read to its insert an enrollment holds `enrollMu`, so
  no other enrollment is between those points;
- `AddressesSeen`: between the read of the nodes and that of the static peers no node has
  appeared. This is where the argument fails for static peers, which take no lock
  (`registry_addresses` is the counterexample);
- `NamesResolve`, `NamesApart`, `NamesComeLate`: a name that a row has, or an insert is
  about to store, has its record, and nobody else has that name;
- `DeletionApart`, `FillApart`: the record a deletion is going to remove belongs to no
  other device, and the one a backfill has made belongs to nobody yet.

Of the walk of `allocateIP` the proofs use only that what it finds is a free host other
than the hub's (`AllocateFacts`).

For the refinement every step is mapped (`PromiseStep`): an insert is `Enroll`, the deletion
of a node's row `Remove`, an answer `ok` to an enrollment `Tell`, issue and expiry of a
token themselves; the rest stutters. `AnswersInv` adds that a request that became a node is
past its insert and that only such a request is about to be told so. That the step is one
comes from the transaction and the UNIQUE columns alone; `enrollMu` is why the address
column is not what an insert fails on (`StaysFree`).

### Network lock

For every set of devices, agents, admins and lock keys, any number of commands, rekeys
and faults (`ConstantsAssumption`):

- `TypeCorrect`: `Spec => []TypeOK`.
- `PinsProtect`: `Spec => PinnedInstallsSigned`, an action property.
- `PinsStick`: `Spec => PersistedPinSticks`, an action property.

An install shows peers that passed `enforceLock` long before: on an earlier poll, in the
prober's copy, or in the file before a restart. `IInv` therefore says that wherever a
binding with a signature is kept, the signature was really made: `RowsSigned` in the
tables, `RequestsSigned` in a sign request on its way, `AgentsSigned` in every netmap an
agent fetched, holds, cached, captured or saved. Signatures are never unmade. `PinsAgree`
(a pin in the file is the one in memory) is the rest: each save writes the memory's pin.

### Prober

For every set of peers, every set of candidate lists, all thresholds, any number of
netmaps and faults (`ConstantsAssumption`; a netmap may also carry no candidates):

- `TypeCorrect`: `Spec => []TypeOK`, which includes that a probing peer's index points
  into its list.
- `WithoutCandidates`: `Spec => []NoCandidatesNoPath`.
- `DeviceFollows`: `Spec => []RoutesFollowProbes`.

`RoutesFollowProbes` speaks of moments at which nothing is under way. `IInv` follows the
peer set there: `InstallerHolds` (who is about to install holds `applyMu`),
`ConfIsCurrent` (what it is about to install is what the probes and the netmap of this
moment make of the peers, unless the probe loop has decided something since and still owes
its own apply), `DeviceIsCurrent` (so is the device once all is settled).
`DirectIsConfirmed` and `HandshakesHaveEndpoints` give the endpoint: a path becomes direct
only on a handshake, and a device that remembers a handshake knows an endpoint.

That `validCandidates` returns at most `maxCandidates` dialable entries is an induction
over the list. It is done with the well-foundedness of the naturals instead of an
induction theorem: take the least prefix of the list that violates the claim, and look at
the one before it (`LeastNat`, `WalkShort`, `ValidShort`).

### ACL

For every set of nodes, static peers, subnets, tags and policies and every multiport
limit (`AclAssumption`: nodes, static peers and subnets are different things, the
last because `normalizeRoutes` refuses what overlaps the overlay; the hub is a Linux
node, and so is every router; requests are well-typed, not necessarily valid):

- `PoliciesTypeCorrect`: `AclSpec => []AclTypeOK`.
- `NothingElse`: `AclSpec => []OnlyAllowed`.
- `PoliciesArrive`: `AclSpec => []AllowedArrives`.

`AclTypeOK` says of every row that it is what normalisation makes of its request. Rules are
compiled anew from the tables, so both properties hold in every state of that type; the
work is in the equivalences. `TagsMeaning`, `PortsMeaning`, `RowMeaning` and `Reading`: a
row covers what its request asks for, and more only if one of its lists lost all its
entries. `ChunkPorts`: cutting a port list into pieces loses no port
and adds none, by division with remainder. `MatchesCovers`: what iptables matches is what a
policy covers; it needs from the types that ports never go with icmp. `FilterMeaning`: a
node's input chain accepts exactly what is allowed to reach it. `HubDestinations` and
`ForwardMeaning`: so does the hub's forward chain, grouping of destinations included. The
theorems then follow a connection along its paths.

### Data plane

For every set of netmaps, prefixes and ports and every number of applies, failing commands,
foreign route changes, deaths and restarts (`ConstantsAssumption`: a netmap publishes a
target, or nothing, on each port, has subnets out of the prefixes, and is either filtered or
not):

- `Inductive`: `Spec => []IInv`.
- `TypeCorrect`: `Spec => []TypeOK`.
- `RoutesKnown`: `Spec => []NoRouteLeaks`.
- `InForce`: `Spec => []AppliedIsInForce`.
- `ExitIsClean`: `Spec => []CleanExit`.

`AppliedIsInForce` speaks of the moments between two applies. `IInv` says it of each part
of the host at each place of the apply, unless a command on that part failed
(`PartInForce`): past its commands the part is what the new netmap asks for, and outside
an apply what the applied one asked for. The parts are independent, so there is one
conjunct, and one lemma, for each: `RoutesInv`, `HostsInv` (the file is replaced by
what was written for this netmap), `PublishesInv`, `FilterInv`. The last one carries the
argument about `lastFilter`: a rebuild is skipped when the fingerprint is the one of the
last complete rebuild, which is safe because nothing but a rebuild touches the chains, and
because `KAI-FILTER` is complete before `KAI-FORWARD` is begun. `DeviceKnown` (what the
agent installed and others left is in the device's record) is `NoRouteLeaks` at every call
of `SyncRoutes`. `MainPhases` and `CleanupInv` are for the exit: when no apply was under
way, `Run` alone touches the host, part after part, and a chain it is done with is gone
but for what an ignored failure left (`ChainGone`).

### Web console

For any sessions, session lifetime, renewals and faults (`ConsoleAssumption`):

- `ConsoleTypeCorrect`: `ConsoleSpec => []ConsoleTypeOK`.
- `PinsValid`: `ConsoleSpec => []PinsStayValid`.
- `UIServed`: `ConsoleSpec => []UIHasPair`.
- `Refusals`: `ConsoleSpec => []RefusedForGood`.
- `SessionsLast`: `ConsoleSpec => SessionsKept`, an action property.

`ConsoleInv` adds `OwnPair` (what is served is the complete pair on the disk, and so is what
agents were shown unless a failed stat hid it; a start that writes the files finds no agent
with a pair that was not hidden), `UIPairs` (the hook
writes issued pairs only, so a reload can find nothing else) and `SessionsApart` (a
refused session is not in the map, and no login takes its identifier again).

### Host names

For any names and whatever slug of them, any addresses and foreign lines, and every number
of changes, edits, crashes and refusals (`HostsAssumption`: a slug is a word and numbers,
the hub has a name, addresses are not 0):

- `Inductive`: `Spec => []IInv`.
- `TypeCorrect`: `Spec => []TypeOK`.
- `NamesDiffer`: `Spec => []OneDevicePerName`.
- `CurrentIsExact`: `Spec => []CurrentListIsExact`.
- `ViewsTheSame`: `Spec => []ViewsAgree`.
- `BlockStaysOne`: `Spec => []OneBlock`.
- `OthersLinesStay`: `Spec => ForeignLinesKept`, an action property.
- `NewcomersHarmless`: `Spec => NewcomersRenameNoNode`, an action property.

Most of the work is in what the loops of the code compute for a list of any length:

- `OnlyIn`, the loop that keeps some elements: `OnlyInAppend`, `OnlyInConcat`;
- `Named`, the loop of `buildHosts`: one round adds one entry (`NamedAppend`); among the
  labels with a number from 2 up to one more than there are entries one is free
  (`SomeNumberFree`, the pigeonhole principle on the finite set of names), so the loop that
  counts up ends on a free one (`FreeLabelIsFree`); hence `NamedGood` (every device once, all
  names different) and `NamedPrefix` (the names of a list are kept when devices are added
  behind it), which is `NewcomersHarmless`;
- `StripManagedBlock` and `RenderBlock`: from any well-formed file all of the agent's
  lines go and the lines of others stay in their order, and what is written is
  well formed again (`Stripped`, `BlockBehind`, `UpdatedGood`, `UpdatedKeeps`); the edits of
  others keep a file well formed (`Thinned`, `Added`).

Each recursion is unfolded by an existence and an agreement lemma (`KeptExists`,
`KeptAgree`), and each claim about a list is proved by taking the least list that violates
it and the one without its last element (`LeastNat`, `SeqInduction`), as for the prober's
`validCandidates`.

`IInv` adds to the types `NamesInv` (the names of every list around are distinct),
`ExactInv`, `FileInv` and `ViewsInv`. `ExactInv` is the argument of the long-poll: a list is
exact if its version is the coordinator's and no handler owes its bump, and so are the
nodes that a poll has read so far under such a version. `FileInv` says that the file, and the
copy that a rewrite has read, are `WellFormed`: markers occur once, an end marker has a
begin before it, names are behind the begin marker and before the end marker, others'
lines are not between the two. Without the second half an edit that removes the end marker
could leave a name outside the block for the next rewrite. `ViewsInv` follows the list through the apply,
from `a.nm` to the file to the responder.

### Only model-checked

Liveness under fairness is out of the prover's reach: `Converges`, `EnabledConverges`,
`DeadPathRelayed`, `KeepsHunting`, `KeysComeTogether`, `NamesArrive` and `RenewalPickedUp`
are checked by TLC on the instances of section 3. Every other property of a passing run is
a theorem.

## 6. Known divergences

Modelling met places where the code does not do what a comment in it says. Two have
a run of their own (section 3) and an entry under "findings". The others are defined
at the end of their modules, each with the comment it quotes; the shortest
counterexample appears when the property replaces the ones of the module's `.cfg`
(with the specification without fairness unless the property is a liveness property;
`OneRouterPerRoute` with `Attached <- MCShared`, `Admins = {a1, a2}` and `MaxChanges = 0`).

| Property | Where | What happens |
|---|---|---|
| `ApprovalWakesPoll` | `coordinator/node.go:248` | The node row is read before the wake channel is captured. An approval whose commit, bump and close fall in between leaves the poll asleep until its deadline; lines 246-247 say it is picked up "at once". |
| `SelfRulesAreCurrent` | `coordinator/node.go:229` | A node's own filter rules are compiled from the row of the request's start, the version is read later: a tag change in between is missing under a version that covers it, until the next bump. |
| `ApplyNeverGoesBack`, `WithdrawnIsRelayed` | `agent/probe.go:229` | `probeStep` copies the netmap under `a.mu` and applies the copy later under `applyMu`: an older netmap, with withdrawn candidates, replaces a newer one until the next poll; `agent.go:85-87`, `probe.go:212-214`. |
| `DemotedOnlyWhenSilent` | `agent/probe.go:186` | Replacing all peers resets handshake times, and the next step takes a live path for a dead one; `probe.go:30`. |
| `FailedEnrollKeepsToken` | `coordinator/node.go:114` | The token is consumed when a failed bump turns the answer into a 500; lines 29-30. |
| `OneRouterPerRoute` | `coordinator/node.go:501` | `handleNodeRoutes` reads all nodes, checks and writes in separate calls without a lock, so two requests both pass and one subnet has two routers; lines 473-474. |
| `DisableSticks` | `coordinator/store/store.go:337` | The admin disables a route between the read and the write of a heartbeat whose list has changed; the heartbeat writes back what it read, and the route is enabled again until somebody notices; lines 332-333 and 365. |
| `EnabledIsAdvertised` | `coordinator/node.go:520` | A route retracted between the check and the write stays enabled until the next heartbeat; `store.go:332-333`. |
| `RoutesAnnounced` | `coordinator/store/store.go:354` | A route enabled between the read and the write of `SetAdvertisedRoutes` is dropped without a bump; lines 334-335. |
| `EndpointsAnnounced` | `coordinator/node.go:339` | A report whose routes are refused has already replaced the endpoints, and nothing is bumped, then or later; lines 383-384. |
| `SignaturesCoverKeys` | `coordinator/lock.go:157` | A rekey between the sign handler's read and write leaves a signature of the old key on the new one; `store.go:404-405`. |
| `NothingToSignIsActive` | `cmd/home-kai/lock.go:137` | After a disable, `init` with the same key finds nothing pending, `sign` posts nothing, and the lock stays inactive; `coordinator/lock.go:194`. |
| `ClearedPinIsGone` | `agent/lock.go:22` | The cached netmap in the same state file pins the cleared key again at start; line 29 tells the operator to clear it. |
| `ExitLeavesNothing` | `agent/agent.go:192` | The clean-up takes no lock and waits for nobody; an apply under way puts names and chains back. A removal that fails is ignored (`nat_linux.go:42-46`, `162-163`), and the exit is called clean. |
| `FailedFilterKeepsPrevious`, `QuietFilterInForce` | `agent/nat_linux.go:167`, `agent/agent.go:309` | A rebuild flushes first, so a failure leaves neither rule set; and a return to the last good rules is then taken for unchanged; `agent.go:293-296`. Turning the filter off ignores a jump that cannot be removed and records the network as open (`nat_linux.go:158-164`). |
| `RoutesMatchExactly` | `agent/wgdev/wgdev_linux.go:134` | A route of `d.routes` that others removed is never added again; once it is no longer wanted its `RouteDel` fails at every apply and nothing behind it is added or removed; `wgdev.go:40-42`. |
| `LocalRoutesKept` | `agent/wgdev/wgdev_linux.go:141` | A local network that appears after the look for a conflict, or whose listing failed, loses its route to `RouteReplace`; lines 95-98. |
| `RestrictionsKept` | `coordinator/acl.go:252` | `normalizeTags` drops labels without a slug, Cyrillic ones for instance. A policy restricted to such labels only is stored without tags, which means any device; likewise a port list of blanks means all ports; lines 18-20. |
| `SubnetsFollowPolicy` | `agent/nat_linux.go:86` | The hub masquerades what it relays to a spoke's subnet, so the router's filter judges the hub instead of the source; `acl.go:160-161`. |
| `HubIsFiltered` | `agent/nat_linux.go:198` | The hub's own packets to static peers and macOS nodes cross no filter; `acl.go:23-24`. |
| `StateFirst` | `agent/rekey.go:64` | The new key is registered before it is saved; line 56 has it the other way round. |
| `ReassertConverges` | `agent/rekey.go:23` | A rotation request that outlives its process lands after the restarted agent's re-assert; lines 56-57. The next rotation repairs it (`KeysComeTogether`) where there is one: with `RekeyDays` 0, the default, or under a lock only the re-assert of a later restart does. |
| `LockStopsRotation` | `agent/rekey.go:40` | The loop asks its own pin: an agent that has not seen the lock yet rotates to an unsigned key; line 16. |
| `OfflineRekeyNeedsStop` | `cmd/kai-agent/main.go:166` | The status socket opens after the device is up, so a starting daemon is taken for a stopped one; lines 157-160. |
| `StableNames` | `coordinator/netmap.go:33` | Static peers are numbered after all nodes, whenever they were made: a node enrolled or approved later takes a phone's name, and a publish to that name reaches the node; lines 16-17. |
| `EditsSurvive` | `agent/hosts.go:57` | An edit of `/etc/hosts` between the read and the rename is lost; the file is shared. |
| `NamesComeBack` | `agent/agent.go:161` | A cached netmap that the device refuses at start is not applied again, because the poll asks for a newer one: no names, and no peers, until the next change; lines 280-281. |
| `ComesUpAgain` | `coordinator/tlscert.go:30` | A first start that dies after `coordinator.crt` and before `coordinator.key` leaves a certificate that is loaded, and fails, at every later start; lines 22-23. |
| `PinsAlwaysValid` | `coordinator/tlscert.go:30` | Any error of `os.Stat`, not only that the file is missing, is taken for a first start: a new pair overwrites the one every agent has pinned; lines 22-23. |
| `UIIsAuxiliary` | `cmd/kai-coordinator/main.go:167` | A start that meets the UI's pair half renewed ends the process before the agents' listener is up; lines 182-183. |

## 7. Not modelled

Events, webhook and metrics are written and never read by the rest. Bringing devices up,
macOS routes and UAPI, the HTTP client, formatting, the command line (but for the lock
commands, `kai-agent rekey` and name resolution) and the web page are I/O. DNS queries
outside `.kai` are forwarded and leave no state. The age of endpoints
(`endpointFreshness`) is not part of a table's revision: endpoints leave the netmap with
time and without a bump. In HostNames the hub is never deleted, since its agent is the
one modelled, the begin marker of the block is never edited, and names are resolved by the
host list only.

## 8. Plan

Done: all ten components; NetmapPromise and EnrollmentPromise as the abstract
specifications of NetmapSync and Registry; proofs of every safety property. Next: a
composition of NetmapSync with Prober, for the stale re-apply and its repair.
