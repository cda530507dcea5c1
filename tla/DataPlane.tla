------------------------------ MODULE DataPlane -----------------------------
(***************************************************************************)
(* What an agent does to its host: applyNetmap brings the device's peers   *)
(* and routes, /etc/hosts, the published ports and the iptables chains in  *)
(* line with a netmap, one command after the other under applyMu; Run      *)
(* takes them away again when it shuts down, without applyMu; a process    *)
(* may die between any two commands and a new one starts from the cached   *)
(* netmap.                                                                 *)
(*                                                                         *)
(* The agent is a Linux hub, the one that uses all of these.  A rule set   *)
(* stands for the bodies filterChainSpecs and forwardChainSpecs produce,   *)
(* which end in DROP; which peers are installed is left to Prober.         *)
(***************************************************************************)
EXTENDS Naturals

CONSTANTS
  Netmaps,      \* netmaps: [hosts, publishes, enabled, rules, subnets]
  Prefixes,     \* subnets that may be routed
  Ports,        \* ports that may be published
  Nothing,      \* no managed block, no target, no rule set
  MaxApplies,   \* bound: netmaps received
  MaxFaults,    \* bound: commands that fail, routes that others touch
  MaxRestarts   \* bound: process starts after the first

Chains == {"KAI-FILTER", "KAI-FORWARD"}

\* The commands on a chain whose errors rebuildFilterChain ignores.
Removals == {"-D", "-F", "-X"}

\* Nothing is not a truth value: no netmap has the fingerprint of a fresh process.
ASSUME ConstantsAssumption ==
  /\ \A m \in Netmaps :
       /\ m.publishes = [p \in Ports |-> m.publishes[p]]
       /\ m.subnets \subseteq Prefixes
       /\ m.enabled \in BOOLEAN
  /\ Nothing \notin BOOLEAN
  /\ {MaxApplies, MaxFaults, MaxRestarts} \subseteq Nat

VARIABLES
  (* the host; survives the process *)
  hosts,     \* the managed block of /etc/hosts
  tmp,       \* /etc/hosts.kai-tmp: {} or the block in it
  exists,    \* exists[c]: chain c has been created
  body,      \* body[c]: [of, full] the rule set in the chain, its DROP tail included or not
  hooked,    \* hooked[c]: the jumps into c
  cached,    \* the netmap in the state file
  table,     \* table[p]: where the host routes p: none, kai0 or another interface
  (* the process *)
  run,       \* up, stopping (ctx is done), exited
  pc,        \* program counters of the sync loop and of Run
  nm,        \* the netmap the sync loop is applying
  next,      \* what updateHostsFile is about to write, per goroutine
  chain,     \* the chain applyFilter is at, per goroutine
  routes,    \* d.routes: the subnets that SyncRoutes takes to be installed
  skipped,   \* the conflicts of the SyncRoutes under way
  checked,   \* the subnets that SyncRoutes found free and is about to add
  lastFilter,\* fingerprint of the last applied rule set
  forwarders,\* running listeners
  (* history and bounds *)
  applied,   \* the netmap applied last by this process
  lost,      \* routes of d.routes that others have taken from the host
  prev,      \* the filter in force before the last attempt: [enabled, rules]
  lastErr,   \* the last syncFilter logged an error
  broken,    \* the parts whose last command failed
  ignored,   \* <<c, op>>: op failed, unnoticed, when this process last removed chain c
  raced,     \* an apply was under way while Run was cleaning up
  applies, faults, restarts

hostVars == <<hosts, tmp, exists, body, hooked, cached>>
chainVars == <<exists, body, hooked>>
routeVars == <<table, routes, skipped, checked, lost>>
procVars == <<run, pc, nm, next, chain, lastFilter, forwarders>>
ghostVars == <<applied, prev, lastErr, broken, ignored, raced>>
vars == <<hostVars, routeVars, procVars, ghostVars, applies, faults, restarts>>

Goroutines == {"sync", "main"}
NoNetmap == [hosts |-> Nothing, publishes |-> [p \in Ports |-> Nothing], enabled |-> FALSE,
             rules |-> Nothing, subnets |-> {}]
NoBody == [of |-> Nothing, full |-> FALSE]

\* The key syncFilter compares.
Key(m) == [enabled |-> m.enabled, rules |-> m.rules]
NoKey == [enabled |-> Nothing, rules |-> Nothing]

\* Where the process and its two goroutines are.
PhasesOK ==
  /\ run \in {"up", "stopping", "exited"}
  /\ DOMAIN pc = Goroutines
  /\ pc["sync"] \in {"idle", "peers", "routes", "hosts", "hostsWrite", "hostsRename", "publishes", "filter",
                     "flush", "append", "tail", "hook", "detach", "delete", "save"}
  /\ pc["main"] \in {"start", "run", "hosts", "hostsWrite", "hostsRename", "publishes", "detach",
                     "delete", "exit"}
  /\ broken \subseteq {"routes", "hosts", "publishes", "filter"}
  /\ raced \in BOOLEAN

\* A chain that does not exist is neither filled nor hooked.
ChainsOK ==
  /\ exists \in [Chains -> BOOLEAN]
  /\ hooked \in [Chains -> BOOLEAN]
  /\ DOMAIN body = Chains
  /\ chain \in [Goroutines -> Chains]
  /\ ignored \subseteq Chains \X Removals
  /\ \A c \in Chains : ~exists[c] => body[c] = NoBody /\ ~hooked[c]

DeviceOK ==
  /\ table \in [Prefixes -> {"none", "kai0", "local"}]
  /\ routes \subseteq Prefixes
  /\ skipped \subseteq Prefixes
  /\ checked \subseteq Prefixes
  /\ lost \subseteq Prefixes

NetmapsOK ==
  /\ nm \in Netmaps \union {NoNetmap}
  /\ cached \in Netmaps \union {NoNetmap}
  /\ applied \in Netmaps \union {NoNetmap}
  /\ DOMAIN next = Goroutines
  /\ DOMAIN forwarders = Ports

BoundsOK ==
  /\ applies \in 0..MaxApplies
  /\ faults \in 0..MaxFaults
  /\ restarts \in 0..MaxRestarts

TypeOK ==
  /\ PhasesOK
  /\ ChainsOK
  /\ DeviceOK
  /\ NetmapsOK
  /\ BoundsOK

Init ==
  /\ hosts = Nothing
  /\ tmp = {}
  /\ exists = [c \in Chains |-> FALSE]
  /\ body = [c \in Chains |-> NoBody]
  /\ hooked = [c \in Chains |-> FALSE]
  /\ cached = NoNetmap
  /\ table = [p \in Prefixes |-> "none"]
  /\ routes = {} /\ skipped = {} /\ checked = {} /\ lost = {}
  /\ run = "up"
  /\ pc = [sync |-> "idle", main |-> "run"]
  /\ nm = NoNetmap
  /\ next = [g \in Goroutines |-> Nothing]
  /\ chain = [g \in Goroutines |-> "KAI-FILTER"]
  /\ lastFilter = NoKey
  /\ forwarders = [p \in Ports |-> Nothing]
  /\ applied = NoNetmap
  /\ prev = Key(NoNetmap)
  /\ lastErr = FALSE
  /\ broken = {}
  /\ ignored = {}
  /\ raced = FALSE
  /\ applies = 0
  /\ faults = 0
  /\ restarts = 0

Fault ==
  /\ faults < MaxFaults
  /\ faults' = faults + 1

Goto(g, l) == pc' = [pc EXCEPT ![g] = l]

\* Steps of one goroutine of a running process; the bounds that stay.
Running ==
  /\ run # "exited"
  /\ raced' = (raced \/ (run = "stopping" /\ pc["sync"] # "idle"))
  /\ UNCHANGED <<run, applies, restarts>>

\* Those that leave the device alone, and those that remove no chain either.
ChainStep(g) == Running /\ UNCHANGED routeVars
Step(g) == ChainStep(g) /\ UNCHANGED ignored

-----------------------------------------------------------------------------
(***************************************************************************)
(* The device: ApplyPeers, then SyncRoutes, which removes what is not      *)
(* wanted and then adds what is missing, prefix by prefix.                 *)
(***************************************************************************)
deviceFrame == <<hostVars, nm, next, chain, lastFilter, forwarders, applied, prev, lastErr>>

\* An apply ends.  Run applies the cached netmap itself before it starts the loops
\* and looks at ctx.
ApplyOver ==
  pc' = [sync |-> "idle", main |-> IF pc["main"] = "start" THEN "run" ELSE pc["main"]]

\* A device that refuses the peers ends the apply; the netmap is not cached.
ApplyPeers ==
  /\ Step("sync")
  /\ pc["sync"] = "peers"
  /\ \/ Goto("sync", "routes") /\ UNCHANGED faults
     \/ Fault /\ ApplyOver
  /\ UNCHANGED <<deviceFrame, broken>>

RouteFrame == UNCHANGED <<deviceFrame, ignored>>

\* applyNetmap logs what SyncRoutes returns and goes on.
RoutesReturn(failed) ==
  /\ Goto("sync", "hosts")
  /\ broken' = IF failed THEN broken \union {"routes"} ELSE broken \ {"routes"}
  /\ skipped' = {} /\ checked' = {}

\* Seeded fault: a route is forgotten before it is removed.
RouteDelForgets(p) ==
  /\ Running
  /\ pc["sync"] = "routes"
  /\ p \in routes \ nm.subnets
  /\ routes' = routes \ {p}
  /\ \/ /\ table[p] = "kai0"
        /\ table' = [table EXCEPT ![p] = "none"]
        /\ UNCHANGED <<pc, broken, skipped, checked, lost, faults>>
     \/ Fault /\ RoutesReturn(TRUE) /\ UNCHANGED <<table, lost>>
  /\ RouteFrame

\* netlink.RouteDel; a route that is not there is an error and ends SyncRoutes.
RouteDel(p) ==
  /\ Running
  /\ pc["sync"] = "routes"
  /\ p \in routes \ nm.subnets
  /\ \/ /\ table[p] = "kai0"
        /\ table' = [table EXCEPT ![p] = "none"]
        /\ routes' = routes \ {p}
        /\ UNCHANGED <<pc, broken, skipped, checked, lost, faults>>
     \/ table[p] # "kai0" /\ RoutesReturn(TRUE) /\ UNCHANGED <<table, routes, lost, faults>>
     \/ Fault /\ RoutesReturn(TRUE) /\ UNCHANGED <<table, routes, lost>>
  /\ RouteFrame

\* routeConflict: a route of another interface is left alone, a failed listing is
\* taken for no conflict.
RouteConflict(p) ==
  /\ Running
  /\ pc["sync"] = "routes"
  /\ routes \subseteq nm.subnets /\ checked = {}
  /\ p \in nm.subnets \ (routes \union skipped)
  /\ \/ table[p] = "local" /\ skipped' = skipped \union {p} /\ UNCHANGED <<checked, faults>>
     \/ table[p] # "local" /\ checked' = {p} /\ UNCHANGED <<skipped, faults>>
     \/ Fault /\ checked' = {p} /\ UNCHANGED skipped
  /\ UNCHANGED <<pc, broken, table, routes, lost>>
  /\ RouteFrame

\* netlink.RouteReplace, whatever is there by now.
RouteReplace(p) ==
  /\ Running
  /\ pc["sync"] = "routes"
  /\ p \in checked
  /\ \/ /\ table' = [table EXCEPT ![p] = "kai0"]
        /\ routes' = routes \union {p}
        /\ checked' = {}
        /\ UNCHANGED <<pc, broken, skipped, lost, faults>>
     \/ Fault /\ RoutesReturn(TRUE) /\ UNCHANGED <<table, routes, lost>>
  /\ RouteFrame

\* Conflicts make an error of a SyncRoutes that did all the rest.
RoutesDone ==
  /\ Running
  /\ pc["sync"] = "routes"
  /\ routes \subseteq nm.subnets /\ checked = {}
  /\ nm.subnets \subseteq routes \union skipped
  /\ RoutesReturn(skipped # {})
  /\ UNCHANGED <<table, routes, lost, faults>>
  /\ RouteFrame

SyncRoutes ==
  \/ \E p \in Prefixes : RouteDel(p) \/ RouteConflict(p) \/ RouteReplace(p)
  \/ RoutesDone

\* Others take a route of kai0 from the host, or bring a network of their own (a
\* docker bridge, say) and take it away again.
RouteTouched(p) ==
  /\ Fault
  /\ table' = [table EXCEPT ![p] = IF @ = "none" THEN "local" ELSE "none"]
  /\ lost' = IF table[p] = "kai0" THEN lost \union {p} ELSE lost
  /\ UNCHANGED <<hostVars, routes, skipped, checked, procVars, ghostVars, applies, restarts>>

\* The device is gone and its routes with it.
DeviceClosed ==
  /\ table' = [p \in Prefixes |-> IF table[p] = "kai0" THEN "none" ELSE table[p]]
  /\ routes' = {} /\ skipped' = {} /\ checked' = {} /\ lost' = {}

-----------------------------------------------------------------------------
(***************************************************************************)
(* updateHostsFile: read and compare, write the temporary file, rename it. *)
(* Both goroutines use the same temporary name.                            *)
(***************************************************************************)
Wanted(g) == IF g = "sync" THEN nm.hosts ELSE Nothing

AfterHosts(g) == Goto(g, "publishes")

HostsRead(g) ==
  /\ Step(g)
  /\ pc[g] = "hosts"
  /\ IF hosts = Wanted(g)
       THEN AfterHosts(g) /\ broken' = broken \ {"hosts"} /\ UNCHANGED next
       ELSE /\ next' = [next EXCEPT ![g] = Wanted(g)]
            /\ Goto(g, "hostsWrite")
            /\ UNCHANGED broken
  /\ UNCHANGED <<hostVars, nm, chain, lastFilter, forwarders, applied, prev, lastErr, faults>>

\* A failure is logged and the apply goes on.
HostsWrite(g) ==
  /\ Step(g)
  /\ pc[g] = "hostsWrite"
  /\ \/ tmp' = {next[g]} /\ Goto(g, "hostsRename") /\ UNCHANGED <<broken, faults>>
     \/ Fault /\ AfterHosts(g) /\ broken' = broken \union {"hosts"} /\ UNCHANGED tmp
  /\ UNCHANGED <<hosts, chainVars, cached, nm, next, chain, lastFilter, forwarders, applied,
                 prev, lastErr>>

\* The rename moves whatever the temporary file holds by now, if it is still there.
HostsRename(g) ==
  /\ Step(g)
  /\ pc[g] = "hostsRename"
  /\ \/ hosts' \in tmp /\ broken' = broken \ {"hosts"}
     \/ tmp = {} /\ broken' = broken \union {"hosts"} /\ UNCHANGED hosts
  /\ tmp' = {}
  /\ AfterHosts(g)
  /\ UNCHANGED <<chainVars, cached, nm, next, chain, lastFilter, forwarders, applied, prev,
                 lastErr, faults>>

-----------------------------------------------------------------------------
(***************************************************************************)
(* syncPublishes, under pubMu: stop what is not wanted as it is, then      *)
(* listen on what is missing.                                              *)
(***************************************************************************)

\* A listener stays only when its target is still the wanted one.
KeptForwarders(want) ==
  [p \in Ports |-> IF forwarders[p] = want[p] THEN forwarders[p] ELSE Nothing]

SyncPublishes(want) ==
  \/ /\ forwarders' = [p \in Ports |-> IF KeptForwarders(want)[p] = Nothing
                                         THEN want[p] ELSE KeptForwarders(want)[p]]
     /\ broken' = broken \ {"publishes"}
     /\ UNCHANGED faults
  \/ /\ Fault
     /\ \E p \in Ports :
          /\ want[p] # Nothing
          /\ KeptForwarders(want)[p] = Nothing
          /\ forwarders' = [q \in Ports |-> IF q = p THEN Nothing
                                            ELSE IF KeptForwarders(want)[q] = Nothing
                                              THEN want[q] ELSE KeptForwarders(want)[q]]
     /\ broken' = broken \union {"publishes"}

ApplyPublishes ==
  /\ Step("sync")
  /\ pc["sync"] = "publishes"
  /\ SyncPublishes(nm.publishes)
  /\ Goto("sync", "filter")
  /\ UNCHANGED <<hostVars, nm, next, chain, lastFilter, applied, prev, lastErr>>

\* Seeded fault: shutdown forgets applyFilter(false, ...).
TeardownPublishesOnly ==
  /\ Step("main")
  /\ pc["main"] = "publishes"
  /\ SyncPublishes(NoNetmap.publishes)
  /\ Goto("main", "exit")
  /\ UNCHANGED <<hostVars, nm, next, chain, lastFilter, applied, prev, lastErr>>

TeardownPublishes ==
  /\ Step("main")
  /\ pc["main"] = "publishes"
  /\ SyncPublishes(NoNetmap.publishes)
  /\ Goto("main", "detach")
  /\ UNCHANGED <<hostVars, nm, next, chain, lastFilter, applied, prev, lastErr>>

-----------------------------------------------------------------------------
(***************************************************************************)
(* syncFilter and applyFilter: KAI-FILTER, then KAI-FORWARD.               *)
(***************************************************************************)

\* Seeded fault: a disabled filter is taken for unchanged.
UnchangedFilterWhenOff(m) == Key(m) = lastFilter \/ ~m.enabled

\* The rule set is the one applied last.
UnchangedFilter(m) == Key(m) = lastFilter

FilterStart ==
  /\ Step("sync")
  /\ pc["sync"] = "filter"
  /\ IF UnchangedFilter(nm)
       THEN Goto("sync", "save") /\ lastErr' = FALSE /\ UNCHANGED chain
       ELSE /\ chain' = [chain EXCEPT !["sync"] = "KAI-FILTER"]
            /\ Goto("sync", IF nm.enabled THEN "flush" ELSE "detach")
            /\ UNCHANGED lastErr
  /\ UNCHANGED <<hostVars, nm, next, lastFilter, forwarders, applied, prev, broken, faults>>

\* iptables refuses the command: syncFilter logs it and the apply goes on.
FilterError ==
  /\ Goto("sync", "save")
  /\ lastErr' = TRUE
  /\ broken' = broken \union {"filter"}
  /\ UNCHANGED <<chain, lastFilter, prev>>

\* The chain is done: the next one, or the fingerprint is recorded.
FilterNext ==
  /\ IF chain["sync"] = "KAI-FILTER"
       THEN /\ chain' = [chain EXCEPT !["sync"] = "KAI-FORWARD"]
            /\ Goto("sync", IF nm.enabled THEN "flush" ELSE "detach")
            /\ UNCHANGED <<lastFilter, prev, lastErr, broken>>
       ELSE /\ lastFilter' = Key(nm)
            /\ prev' = Key(nm)
            /\ lastErr' = FALSE
            /\ broken' = broken \ {"filter"}
            /\ Goto("sync", "save")
            /\ UNCHANGED chain

FilterFrame == UNCHANGED <<hosts, tmp, cached, nm, next, forwarders, applied>>

\* iptables -N, whose failure is taken for "exists", and -F, which also fails when
\* there is no chain.
Flush ==
  /\ Step("sync")
  /\ pc["sync"] = "flush"
  /\ \/ /\ exists' = [exists EXCEPT ![chain["sync"]] = TRUE]
        /\ body' = [body EXCEPT ![chain["sync"]] = NoBody]
        /\ Goto("sync", "append")
        /\ UNCHANGED <<chain, lastFilter, prev, lastErr, broken, faults>>
     \/ /\ Fault /\ FilterError
        /\ exists' \in {exists, [exists EXCEPT ![chain["sync"]] = TRUE]}
        /\ UNCHANGED body
  /\ UNCHANGED hooked
  /\ FilterFrame

\* iptables -A, rule by rule, the DROP tail last.  A chain that shutdown deleted
\* meanwhile refuses the rule.
AppendRules ==
  /\ Step("sync")
  /\ pc["sync"] \in {"append", "tail"}
  /\ \/ /\ exists[chain["sync"]]
        /\ body' = [body EXCEPT ![chain["sync"]] =
                      [of |-> nm.rules, full |-> pc["sync"] = "tail"]]
        /\ Goto("sync", IF pc["sync"] = "append" THEN "tail" ELSE "hook")
        /\ UNCHANGED <<chain, lastFilter, prev, lastErr, broken, faults>>
     \/ Fault /\ FilterError /\ UNCHANGED body
     \/ ~exists[chain["sync"]] /\ FilterError /\ UNCHANGED <<body, faults>>
  /\ UNCHANGED <<exists, hooked>>
  /\ FilterFrame

\* The jump: -C, or else -I.
Hook ==
  /\ Step("sync")
  /\ pc["sync"] = "hook"
  /\ \/ /\ exists[chain["sync"]]
        /\ hooked' = [hooked EXCEPT ![chain["sync"]] = TRUE]
        /\ FilterNext
        /\ UNCHANGED faults
     \/ Fault /\ FilterError /\ UNCHANGED hooked
     \/ ~exists[chain["sync"]] /\ FilterError /\ UNCHANGED <<hooked, faults>>
  /\ UNCHANGED <<exists, body>>
  /\ FilterFrame

\* A disabled filter: -C and -D take the jumps away, or fail unnoticed and they stay.
Detach(g) ==
  LET c == chain[g]
      before == {i \in ignored : i[1] # c}
  IN  /\ ChainStep(g)
      /\ pc[g] = "detach"
      /\ \/ /\ hooked' = [hooked EXCEPT ![c] = FALSE]
            /\ ignored' = before
            /\ UNCHANGED faults
         \/ /\ hooked[c]
            /\ Fault
            /\ ignored' = before \union {<<c, "-D">>}
            /\ UNCHANGED hooked
      /\ Goto(g, "delete")
      /\ UNCHANGED <<hosts, tmp, exists, body, cached, nm, next, chain, lastFilter, forwarders,
                     applied, prev, lastErr, broken>>

\* -F and -X, either of which may fail unnoticed.  A chain that is jumped to or not
\* empty cannot be deleted.
EmptyAndDelete(c) ==
  \/ /\ body' = [body EXCEPT ![c] = NoBody]
     /\ exists' = [exists EXCEPT ![c] = hooked[c]]
     /\ UNCHANGED <<ignored, faults>>
  \/ /\ body[c] # NoBody
     /\ Fault
     /\ ignored' = ignored \union {<<c, "-F">>}
     /\ UNCHANGED <<body, exists>>
  \/ /\ exists[c]
     /\ Fault
     /\ ignored' = ignored \union {<<c, "-X">>}
     /\ body' = [body EXCEPT ![c] = NoBody]
     /\ UNCHANGED exists

\* The second half of a removal.  syncFilter takes it for done and records the
\* fingerprint, shutdown goes on to the next chain.
DeleteChain(g) ==
  /\ ChainStep(g)
  /\ pc[g] = "delete"
  /\ EmptyAndDelete(chain[g])
  /\ IF g = "sync"
       THEN FilterNext
       ELSE /\ IF chain[g] = "KAI-FILTER"
                 THEN chain' = [chain EXCEPT ![g] = "KAI-FORWARD"] /\ Goto(g, "detach")
                 ELSE Goto(g, "exit") /\ UNCHANGED chain
            /\ UNCHANGED <<lastFilter, prev, lastErr, broken>>
  /\ UNCHANGED <<hosts, tmp, hooked, cached, nm, next, forwarders, applied>>

-----------------------------------------------------------------------------
(***************************************************************************)
(* The apply as a whole, shutdown, death and start.                        *)
(***************************************************************************)

\* syncLoop received m; after ctx is done it asks for no further netmap.
Receive(m) ==
  /\ run = "up"
  /\ pc["sync"] = "idle"
  /\ applies < MaxApplies
  /\ applies' = applies + 1
  /\ nm' = m
  /\ Goto("sync", "peers")
  /\ UNCHANGED <<hostVars, routeVars, run, next, chain, lastFilter, forwarders, ghostVars, faults, restarts>>

\* The netmap is cached and the apply over.
Save ==
  /\ Step("sync")
  /\ pc["sync"] = "save"
  /\ cached' = nm
  /\ applied' = nm
  /\ ApplyOver
  /\ UNCHANGED <<hosts, tmp, chainVars, nm, next, chain, lastFilter, forwarders, prev, lastErr,
                 broken, faults>>

\* ctx is done: Run cleans up, beginning with /etc/hosts.
Shutdown ==
  /\ run = "up"
  /\ pc["main"] = "run"
  /\ run' = "stopping"
  /\ Goto("main", "hosts")
  /\ chain' = [chain EXCEPT !["main"] = "KAI-FILTER"]
  /\ raced' = (pc["sync"] # "idle")
  /\ UNCHANGED <<hostVars, routeVars, nm, next, lastFilter, forwarders, applied, prev, lastErr,
                 broken, ignored, applies, faults, restarts>>

\* Run returned, which closes the device, and main with it; the sync goroutine dies
\* wherever it is.
Exit ==
  /\ run = "stopping"
  /\ pc["main"] = "exit"
  /\ run' = "exited"
  /\ DeviceClosed
  /\ UNCHANGED <<hostVars, pc, nm, next, chain, lastFilter, forwarders, ghostVars, applies,
                 faults, restarts>>

\* A new process, after an exit or a death at any point: it replaces the device and
\* applies the cached netmap, its memory is new, the host is as it was left.
Start ==
  /\ restarts < MaxRestarts
  /\ restarts' = restarts + 1
  /\ run' = "up"
  /\ DeviceClosed
  /\ pc' = [sync |-> IF cached = NoNetmap THEN "idle" ELSE "peers",
            main |-> IF cached = NoNetmap THEN "run" ELSE "start"]
  /\ nm' = cached
  /\ next' = [g \in Goroutines |-> Nothing]
  /\ chain' = [g \in Goroutines |-> "KAI-FILTER"]
  /\ lastFilter' = NoKey
  /\ forwarders' = [p \in Ports |-> Nothing]
  /\ applied' = NoNetmap
  /\ prev' = NoKey
  /\ lastErr' = FALSE
  /\ broken' = {}
  /\ ignored' = {}
  /\ raced' = FALSE
  /\ UNCHANGED <<hostVars, applies, faults>>

HostsStep(g) == HostsRead(g) \/ HostsWrite(g) \/ HostsRename(g)

Next ==
  \/ \E m \in Netmaps : Receive(m)
  \/ \E g \in Goroutines : HostsStep(g) \/ Detach(g) \/ DeleteChain(g)
  \/ ApplyPeers
  \/ SyncRoutes
  \/ \E p \in Prefixes : RouteTouched(p)
  \/ ApplyPublishes
  \/ TeardownPublishes
  \/ FilterStart
  \/ Flush
  \/ AppendRules
  \/ Hook
  \/ Save
  \/ Shutdown
  \/ Exit
  \/ Start

Spec == Init /\ [][Next]_vars

-----------------------------------------------------------------------------
(***************************************************************************)
(* Properties.                                                             *)
(***************************************************************************)

\* Chain c is removed, but for what its last removal failed at unnoticed.
ChainGone(c) ==
  /\ hooked[c] => <<c, "-D">> \in ignored
  /\ body[c] # NoBody => <<c, "-F">> \in ignored
  /\ exists[c] => \E op \in Removals : <<c, op>> \in ignored

\* Chain c holds and enforces the filter k, or is removed when k is off.
ChainEnforces(c, k) ==
  IF k.enabled
    THEN hooked[c] /\ body[c] = [of |-> k.rules, full |-> TRUE]
    ELSE ChainGone(c)

ChainsEnforce(k) == \A c \in Chains : ChainEnforces(c, k)

Idle == run = "up" /\ pc["sync"] = "idle" /\ applied # NoNetmap

Installed == {p \in Prefixes : table[p] = "kai0"}

\* After an apply the host is what the netmap says, part by part, unless the
\* last command on that part failed: whatever an earlier process, killed or cleaning
\* up against an apply, left behind half done, and although syncFilter and
\* syncPublishes skip what they take to be unchanged.
AppliedIsInForce ==
  Idle =>
    /\ "hosts" \notin broken => hosts = applied.hosts
    /\ "publishes" \notin broken => forwarders = applied.publishes
    /\ "filter" \notin broken => ChainsEnforce(applied)
    /\ "routes" \notin broken => Installed = applied.subnets \ lost

\* Whatever command fails, the agent knows of every route it has put into the
\* host's table, so that a later SyncRoutes can still take it away.
NoRouteLeaks == Installed \subseteq routes

\* "SyncRoutes makes the set of extra OS routes ... match exactly the given prefixes,
\* adding and removing as needed.  Idempotent." (wgdev.go:42)
\* It does not hold of the code (README, Known divergences).
RoutesMatchExactly == Idle /\ "routes" \notin broken => Installed = applied.subnets

\* A prefix that another interface serves is skipped, "not fought over"
\* (wgdev_linux.go:98).
\* It does not hold of the code (README, Known divergences).
LocalRoutesKept ==
  [][\A p \in Prefixes : table[p] = "local" /\ table'[p] # "local" => RouteTouched(p)]_vars

\* An orderly exit with no apply under way leaves no names and no chains: a jump, a
\* rule or a chain stays only if the very command that takes it away failed, and no
\* failure keeps shutdown from the commands after it.
CleanExit ==
  run = "exited" /\ ~raced =>
    /\ "hosts" \notin broken => hosts = Nothing
    /\ \A c \in Chains : ChainGone(c)

\* The same without the provisos: Run's comments say that shutdown leaves no
\* stale names behind and removes the ACL chains.
\* It does not hold of the code (README, Known divergences).
ExitLeavesNothing ==
  run = "exited" /\ "hosts" \notin broken
    => hosts = Nothing /\ \A c \in Chains : ~exists[c]

\* A filter that could not be applied degrades to the previous rules (the
\* comment on syncFilter).
\* It does not hold of the code (README, Known divergences).
FailedFilterKeepsPrevious ==
  Idle /\ lastErr /\ prev # NoKey /\ prev.enabled => ChainsEnforce(prev)

\* When the last syncFilter had nothing to complain about, the netmap's rules
\* are in force (the comment on syncFilter: skipped only when they are the ones
\* last applied), or the network is open (the comment on rebuildFilterChain).
\* It does not hold of the code (README, Known divergences).
QuietFilterInForce ==
  Idle /\ ~lastErr =>
    IF applied.enabled THEN ChainsEnforce(applied) ELSE \A c \in Chains : ~hooked[c]

-----------------------------------------------------------------------------
(***************************************************************************)
(* The inductive invariant behind AppliedIsInForce, NoRouteLeaks and       *)
(* CleanExit: what each command leaves to the ones after it.               *)
(***************************************************************************)

\* The places of the sync loop: between applies, at the chains, after a part.
Outside == {"idle", "peers"}
AtChains == {"flush", "append", "tail", "hook", "detach", "delete"}
PastPublishes == {"filter", "save"} \union AtChains
PastHosts == {"publishes"} \union PastPublishes
PastRoutes == {"hosts", "hostsWrite", "hostsRename"} \union PastHosts

\* One part's "the host is what was asked for", before and after its command.
PartInForce(part, past, isApplied, isWanted) ==
  part \notin broken =>
    /\ pc["sync"] \in Outside /\ applied # NoNetmap => isApplied
    /\ pc["sync"] \in past => isWanted

\* Run is where the state of the process says.
MainPhases ==
  /\ run = "up" => pc["main"] \in {"start", "run"}
  /\ run = "stopping" => pc["main"] \notin {"start", "run"}
  /\ run = "exited" => pc["main"] = "exit"

\* The agent's set of routes is what is in the table and what others took.
DeviceKnown ==
  /\ Installed = routes \ lost
  /\ lost \subseteq routes
  /\ checked \intersect routes = {}

RoutesInv ==
  run = "up" =>
    PartInForce("routes", PastRoutes, routes = applied.subnets, routes = nm.subnets)

\* The sync loop alone writes /etc/hosts while Run has nothing to clean up.
HostsInv ==
  run = "up" =>
    /\ pc["sync"] = "hostsWrite" => next["sync"] = nm.hosts
    /\ pc["sync"] = "hostsRename" => tmp = {nm.hosts}
    /\ PartInForce("hosts", PastHosts, hosts = applied.hosts, hosts = nm.hosts)

PublishesInv ==
  run = "up" =>
    PartInForce("publishes", PastPublishes, forwarders = applied.publishes,
                forwarders = nm.publishes)

\* A fingerprint that no command has broken since is that of chains in force; on the
\* way to a new one KAI-FILTER is done before KAI-FORWARD is begun.
FilterInv ==
  run = "up" =>
    /\ pc["sync"] \in {"flush", "append", "tail", "hook"} => nm.enabled
    /\ pc["sync"] \in {"detach", "delete"} => ~nm.enabled
    /\ pc["sync"] = "hook" => body[chain["sync"]] = [of |-> nm.rules, full |-> TRUE]
    /\ pc["sync"] = "delete" /\ hooked[chain["sync"]] => <<chain["sync"], "-D">> \in ignored
    /\ pc["sync"] \in AtChains /\ chain["sync"] = "KAI-FORWARD"
         => ChainEnforces("KAI-FILTER", Key(nm))
    /\ "filter" \notin broken /\ pc["sync"] \notin AtChains /\ lastFilter # NoKey
         => ChainsEnforce(lastFilter)
    /\ PartInForce("filter", {"save"}, lastFilter = Key(applied), lastFilter = Key(nm))

\* Shutdown with no apply under way: Run alone touches the host, part after part.
CleanupInv ==
  run # "up" /\ ~raced =>
    /\ pc["sync"] = "idle"
    /\ pc["main"] = "hostsWrite" => next["main"] = Nothing
    /\ pc["main"] = "hostsRename" => tmp = {Nothing}
    /\ pc["main"] \in {"publishes", "detach", "delete", "exit"} /\ "hosts" \notin broken
         => hosts = Nothing
    /\ pc["main"] \in {"hosts", "hostsWrite", "hostsRename", "publishes"}
         => chain["main"] = "KAI-FILTER"
    /\ pc["main"] = "delete" /\ hooked[chain["main"]] => <<chain["main"], "-D">> \in ignored
    /\ pc["main"] \in {"detach", "delete"} /\ chain["main"] = "KAI-FORWARD"
         => ChainGone("KAI-FILTER")
    /\ pc["main"] = "exit" => \A c \in Chains : ChainGone(c)

IInv ==
  /\ TypeOK
  /\ MainPhases
  /\ DeviceKnown
  /\ RoutesInv
  /\ HostsInv
  /\ PublishesInv
  /\ FilterInv
  /\ CleanupInv
=============================================================================
