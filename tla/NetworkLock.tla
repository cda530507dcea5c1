---------------------------- MODULE NetworkLock -----------------------------
(***************************************************************************)
(* The network lock: the coordinator stores signatures of (WireGuard key,  *)
(* overlay address) bindings, the admin's command line makes them with a   *)
(* key the coordinator never sees, agents pin the lock key and drop peers  *)
(* whose binding it did not sign.                                          *)
(*                                                                         *)
(* A handler makes several store calls and shares no lock with the others. *)
(* A device's address never changes, so a binding is the device and the    *)
(* generation of its WireGuard key; a signature is who made it and over    *)
(* which generation.  Listing the nodes and listing the static peers are   *)
(* one step.  Bumps are left out: an agent may fetch a netmap at any time  *)
(* (when it does is the subject of NetmapSync).                            *)
(***************************************************************************)
EXTENDS Integers

CONSTANTS
  Devices,      \* nodes and static peers, as their peers see them
  Static,       \* the static peers among them: their keys never change
  LockKeys,     \* lock keys on admin machines
  NoKey,        \* the empty string in place of a lock key
  Admins,       \* runs of the home-kai command line
  Agents,       \* agents that install the devices as peers
  MaxCommands,  \* bound: lock init, sign and disable commands
  MaxRekeys,    \* bound: key rotations of a device
  MaxFaults     \* bound: failed saves, device errors, restarts and probe re-applies

ASSUME ConstantsAssumption ==
  /\ Static \subseteq Devices
  /\ NoKey \notin LockKeys
  /\ MaxCommands \in Nat
  /\ MaxRekeys \in Nat
  /\ MaxFaults \in Nat

VARIABLES
  (* the store *)
  pub,       \* meta.lock_pubkey
  active,    \* meta.lock_active = "1"
  exists,    \* exists[d]: d's row
  key,       \* key[d]: generation of its WireGuard key
  sig,       \* sig[d]: lock_sig
  (* the command line and the handler that serves it *)
  apc,       \* program counter
  akey,      \* the lock key on this admin machine
  apub,      \* the lock_pubkey the handler read
  req,       \* bindings to be signed, then sent: device -> generation
  todo,      \* devices of req whose signature is still to be stored
  rows,      \* bindings the sign handler read: device -> generation
  (* the agents *)
  npc,       \* program counter of the fetch
  fetched,   \* the netmap under construction or received
  pin,       \* st.LockPublicKey
  held,      \* a.nm
  cached,    \* st.Netmap
  installed, \* peers on the WireGuard device
  captured,  \* the netmap probeStep captured
  disk,      \* the state file: [pin, nm]
  (* history and bounds *)
  signed,    \* signatures ever made on an admin machine
  commands, faults

storeVars == <<pub, active, exists, key, sig>>
adminVars == <<apc, akey, apub, req, todo, rows>>
agentVars == <<npc, fetched, pin, held, cached, installed, captured, disk>>
vars == <<storeVars, adminVars, agentVars, signed, commands, faults>>

MaybeKey == LockKeys \union {NoKey}
Sig == [by : MaybeKey, gen : Nat]
NoSig == [by |-> NoKey, gen |-> 0]
Peer == [dev : Devices, gen : Nat, sig : Sig]
Netmap == [lock : MaybeKey, peers : SUBSET Peer]
NoNetmap == [lock |-> NoKey, peers |-> {}]

\* Rows a handler read: the generation of each device that had a row.
Bindings == [Devices -> Nat \union {-1}]
NoBindings == [d \in Devices |-> -1]

StoreTypes ==
  /\ pub \in MaybeKey
  /\ active \in BOOLEAN
  /\ exists \in [Devices -> BOOLEAN]
  /\ key \in [Devices -> Nat]
  /\ sig \in [Devices -> Sig]

AdminTypes ==
  /\ apc \in [Admins -> {"idle", "initPub", "initActive", "initClear", "initClearStatic",
                         "initSet", "status", "pending", "nothing", "signPub", "signRows",
                         "signStore", "signActivate", "disableActive"}]
  /\ akey \in [Admins -> MaybeKey]
  /\ apub \in [Admins -> MaybeKey]
  /\ \A a \in Admins : apc[a] \in {"signRows", "signStore"} => apub[a] # NoKey
  /\ req \in [Admins -> Bindings]
  /\ todo \in [Admins -> SUBSET Devices]
  /\ rows \in [Admins -> Bindings]

AgentTypes ==
  /\ npc \in [Agents -> {"idle", "pub", "active", "got"}]
  /\ pin \in [Agents -> MaybeKey]
  /\ fetched \in [Agents -> Netmap] /\ captured \in [Agents -> Netmap]
  /\ held \in [Agents -> Netmap] /\ cached \in [Agents -> Netmap]
  /\ installed \in [Agents -> SUBSET Peer]
  /\ disk \in [Agents -> [pin : MaybeKey, nm : Netmap]]

\* The type invariant; a handler that verifies signatures has a key to do it with.
TypeOK ==
  /\ StoreTypes /\ AdminTypes /\ AgentTypes
  /\ commands \in 0..MaxCommands
  /\ faults \in 0..MaxFaults

\* Some devices are enrolled, nothing is signed, every agent is fresh.
Init ==
  /\ pub = NoKey
  /\ active = FALSE
  /\ exists \in [Devices -> BOOLEAN]
  /\ key = [d \in Devices |-> 0]
  /\ sig = [d \in Devices |-> NoSig]
  /\ apc = [a \in Admins |-> "idle"]
  /\ akey = [a \in Admins |-> NoKey]
  /\ apub = [a \in Admins |-> NoKey]
  /\ req = [a \in Admins |-> NoBindings]
  /\ todo = [a \in Admins |-> {}]
  /\ rows = [a \in Admins |-> NoBindings]
  /\ npc = [n \in Agents |-> "idle"]
  /\ fetched = [n \in Agents |-> NoNetmap]
  /\ pin = [n \in Agents |-> NoKey]
  /\ held = [n \in Agents |-> NoNetmap]
  /\ cached = [n \in Agents |-> NoNetmap]
  /\ installed = [n \in Agents |-> {}]
  /\ captured = [n \in Agents |-> NoNetmap]
  /\ disk = [n \in Agents |-> [pin |-> NoKey, nm |-> NoNetmap]]
  /\ signed = {}
  /\ commands = 0
  /\ faults = 0

Fault ==
  /\ faults < MaxFaults
  /\ faults' = faults + 1

-----------------------------------------------------------------------------
(***************************************************************************)
(* Devices come, rotate their keys and go.                                 *)
(***************************************************************************)

\* handleEnroll, handleStaticCreate: a row without a signature.
AddDevice(d) ==
  /\ ~exists[d]
  /\ key[d] < MaxRekeys
  /\ exists' = [exists EXCEPT ![d] = TRUE]
  /\ key' = [key EXCEPT ![d] = @ + 1]
  /\ sig' = [sig EXCEPT ![d] = NoSig]
  /\ UNCHANGED <<pub, active, adminVars, agentVars, signed, commands, faults>>

DeleteDevice(d) ==
  /\ exists[d]
  /\ exists' = [exists EXCEPT ![d] = FALSE]
  /\ UNCHANGED <<pub, active, key, sig, adminVars, agentVars, signed, commands, faults>>

\* SetNodeKey: one statement stores the new key and clears the signature.
Rekey(d) ==
  /\ exists[d]
  /\ d \notin Static
  /\ key[d] < MaxRekeys
  /\ key' = [key EXCEPT ![d] = @ + 1]
  /\ sig' = [sig EXCEPT ![d] = NoSig]
  /\ UNCHANGED <<pub, active, exists, adminVars, agentVars, signed, commands, faults>>

-----------------------------------------------------------------------------
(***************************************************************************)
(* The commands and their handlers.                                        *)
(***************************************************************************)

Goto(a, l) == apc' = [apc EXCEPT ![a] = l]

\* The command is over.
Exit(a) ==
  /\ Goto(a, "idle")
  /\ akey' = [akey EXCEPT ![a] = NoKey]
  /\ apub' = [apub EXCEPT ![a] = NoKey]
  /\ req' = [req EXCEPT ![a] = NoBindings]
  /\ todo' = [todo EXCEPT ![a] = {}]
  /\ rows' = [rows EXCEPT ![a] = NoBindings]

Command(a, l) ==
  /\ apc[a] \in {"idle", "nothing"}
  /\ commands < MaxCommands
  /\ commands' = commands + 1
  /\ Goto(a, l)
  /\ \E k \in LockKeys : akey' = [akey EXCEPT ![a] = k]
  /\ UNCHANGED <<storeVars, apub, req, todo, rows, agentVars, signed, faults>>

\* home-kai lock init, home-kai lock sign
CmdLockInit(a) == Command(a, "initPub")
CmdLockSign(a) == Command(a, "status")

\* handleLockInit reads lock_pubkey, then lock_active.
InitReadPub(a) ==
  /\ apc[a] = "initPub"
  /\ apub' = [apub EXCEPT ![a] = pub]
  /\ Goto(a, "initActive")
  /\ UNCHANGED <<storeVars, akey, req, todo, rows, agentVars, signed, commands, faults>>

\* Another key under an active lock is a conflict; under an armed one it clears
\* the signatures made so far.
InitReadActive(a) ==
  /\ apc[a] = "initActive"
  /\ IF apub[a] \in {NoKey, akey[a]}
       THEN Goto(a, "initSet") /\ UNCHANGED <<akey, apub, req, todo, rows>>
       ELSE IF active
         THEN Exit(a)
         ELSE Goto(a, "initClear") /\ UNCHANGED <<akey, apub, req, todo, rows>>
  /\ UNCHANGED <<storeVars, agentVars, signed, commands, faults>>

\* ClearLockSigs: the nodes, then the static peers.
InitClear(a) ==
  /\ \/ /\ apc[a] = "initClear"
        /\ sig' = [d \in Devices |-> IF d \in Static THEN sig[d] ELSE NoSig]
        /\ Goto(a, "initClearStatic")
     \/ /\ apc[a] = "initClearStatic"
        /\ sig' = [d \in Devices |-> IF d \in Static THEN NoSig ELSE sig[d]]
        /\ Goto(a, "initSet")
  /\ UNCHANGED <<pub, active, exists, key, akey, apub, req, todo, rows, agentVars, signed,
                 commands, faults>>

InitSet(a) ==
  /\ apc[a] = "initSet"
  /\ pub' = akey[a]
  /\ Exit(a)
  /\ UNCHANGED <<active, exists, key, sig, agentVars, signed, commands, faults>>

Unsigned == {d \in Devices : exists[d] /\ sig[d] = NoSig}

\* handleLockStatus: without a key there is nothing to sign under.
StatusPub(a) ==
  /\ apc[a] = "status"
  /\ IF pub = NoKey
       THEN Exit(a)
       ELSE Goto(a, "pending") /\ UNCHANGED <<akey, apub, req, todo, rows>>
  /\ UNCHANGED <<storeVars, agentVars, signed, commands, faults>>

\* cmdLockSign signs what handleLockStatus lists as pending; when that is
\* nothing it stops without calling the sign handler.
StatusPending(a) ==
  /\ apc[a] = "pending"
  /\ IF Unsigned = {}
       THEN Goto(a, "nothing") /\ UNCHANGED <<req, todo, signed>>
       ELSE /\ Goto(a, "signPub")
            /\ req' = [req EXCEPT ![a] =
                         [d \in Devices |-> IF d \in Unsigned THEN key[d] ELSE -1]]
            /\ todo' = [todo EXCEPT ![a] = Unsigned]
            /\ signed' = signed \union {[by |-> akey[a], dev |-> d, gen |-> key[d]] : d \in Unsigned}
  /\ UNCHANGED <<storeVars, akey, apub, rows, agentVars, commands, faults>>

\* Seeded fault: handleLockSign does not refuse a lock that was disabled meanwhile.
SignPubUnchecked(a) ==
  /\ apc[a] = "signPub"
  /\ apub' = [apub EXCEPT ![a] = pub]
  /\ Goto(a, "signRows")
  /\ UNCHANGED <<storeVars, akey, req, todo, rows, agentVars, signed, commands, faults>>

\* handleLockSign: the key to verify with ...
SignPub(a) ==
  /\ apc[a] = "signPub"
  /\ IF pub = NoKey
       THEN Exit(a)
       ELSE /\ apub' = [apub EXCEPT ![a] = pub]
            /\ Goto(a, "signRows")
            /\ UNCHANGED <<akey, req, todo, rows>>
  /\ UNCHANGED <<storeVars, agentVars, signed, commands, faults>>

\* ... the bindings to verify against ...
SignRows(a) ==
  /\ apc[a] = "signRows"
  /\ rows' = [rows EXCEPT ![a] = [d \in Devices |-> IF exists[d] THEN key[d] ELSE -1]]
  /\ Goto(a, "signStore")
  /\ UNCHANGED <<storeVars, akey, apub, req, todo, agentVars, signed, commands, faults>>

\* The signature was made by the lock key over the binding as the handler read it.
Accepted(a, d) == rows[a][d] # -1 /\ akey[a] = apub[a] /\ req[a][d] = rows[a][d]

\* ... then signature by signature; the first refused one ends the request.
SignStore(a) ==
  /\ apc[a] = "signStore"
  /\ \E d \in todo[a] :
       IF Accepted(a, d) /\ exists[d]
         THEN /\ sig' = [sig EXCEPT ![d] = [by |-> akey[a], gen |-> req[a][d]]]
              /\ todo' = [todo EXCEPT ![a] = @ \ {d}]
              /\ UNCHANGED <<apc, akey, apub, req, rows>>
         ELSE Exit(a) /\ UNCHANGED sig
  /\ UNCHANGED <<pub, active, exists, key, agentVars, signed, commands, faults>>

\* pendingBindings once more: the lock becomes active when nothing is pending.
SignPending(a) ==
  /\ apc[a] = "signStore"
  /\ todo[a] = {}
  /\ IF Unsigned = {}
       THEN Goto(a, "signActivate") /\ UNCHANGED <<akey, apub, req, todo, rows>>
       ELSE Exit(a)
  /\ UNCHANGED <<storeVars, agentVars, signed, commands, faults>>

SignActivate(a) ==
  /\ apc[a] = "signActivate"
  /\ active' = TRUE
  /\ Exit(a)
  /\ UNCHANGED <<pub, exists, key, sig, agentVars, signed, commands, faults>>

\* handleLockDisable deletes lock_pubkey, then lock_active; signatures stay.
DisablePub(a) ==
  /\ apc[a] \in {"idle", "nothing"}
  /\ commands < MaxCommands
  /\ commands' = commands + 1
  /\ pub' = NoKey
  /\ Goto(a, "disableActive")
  /\ UNCHANGED <<active, exists, key, sig, akey, apub, req, todo, rows, agentVars, signed, faults>>

DisableActive(a) ==
  /\ apc[a] = "disableActive"
  /\ active' = FALSE
  /\ Exit(a)
  /\ UNCHANGED <<pub, exists, key, sig, agentVars, signed, commands, faults>>

-----------------------------------------------------------------------------
(***************************************************************************)
(* Agents: the fetch reads the devices, then the two lock settings.        *)
(***************************************************************************)
FetchRows(n) ==
  /\ npc[n] = "idle"
  /\ npc' = [npc EXCEPT ![n] = "pub"]
  /\ fetched' = [fetched EXCEPT ![n] =
                   [lock |-> NoKey,
                    peers |-> {[dev |-> d, gen |-> key[d], sig |-> sig[d]] :
                                 d \in {e \in Devices : exists[e]}}]]
  /\ UNCHANGED <<storeVars, adminVars, pin, held, cached, installed, captured, disk, signed,
                 commands, faults>>

FetchPub(n) ==
  /\ npc[n] = "pub"
  /\ npc' = [npc EXCEPT ![n] = "active"]
  /\ fetched' = [fetched EXCEPT ![n].lock = pub]
  /\ UNCHANGED <<storeVars, adminVars, pin, held, cached, installed, captured, disk, signed,
                 commands, faults>>

\* A lock that is not active is not distributed.
FetchActive(n) ==
  /\ npc[n] = "active"
  /\ npc' = [npc EXCEPT ![n] = "got"]
  /\ fetched' = [fetched EXCEPT ![n].lock = IF active THEN @ ELSE NoKey]
  /\ UNCHANGED <<storeVars, adminVars, pin, held, cached, installed, captured, disk, signed,
                 commands, faults>>

(***************************************************************************)
(* applyNetmap(nm), serialized by applyMu, with the lock enforced first.   *)
(***************************************************************************)

\* Seeded fault: the pin follows the netmap.
PinAfterLatest(p, nm) == nm.lock

\* The pin after enforceLock saw nm: the first key sticks.
PinAfter(p, nm) == IF p = NoKey THEN nm.lock ELSE p

\* A pinned agent refuses a netmap with another key.
Refused(p, nm) == p # NoKey /\ nm.lock # NoKey /\ nm.lock # p

\* Seeded fault: the agent verifies only what the netmap itself says is locked.
VerifiedIfLocked(p, nm) ==
  IF nm.lock = NoKey THEN nm.peers
  ELSE {q \in nm.peers : q.sig.by = nm.lock /\ q.sig.gen = q.gen}

\* Peers whose binding the pinned key signed; all of them when nothing is pinned.
Verified(p, nm) ==
  IF p = NoKey THEN nm.peers
  ELSE {q \in nm.peers : q.sig.by = p /\ q.sig.gen = q.gen}

\* What is left of nm once enforceLock stripped it in place.
Enforced(p, nm) == [nm EXCEPT !.peers = Verified(PinAfter(p, nm), nm)]

\* The whole apply, the state file included.
Apply(n, nm) ==
  LET new == Enforced(pin[n], nm) IN
  /\ ~Refused(pin[n], nm)
  /\ pin' = [pin EXCEPT ![n] = PinAfter(@, nm)]
  /\ held' = [held EXCEPT ![n] = new]
  /\ cached' = [cached EXCEPT ![n] = new]
  /\ installed' = [installed EXCEPT ![n] = new.peers]
  /\ disk' = [disk EXCEPT ![n] = [pin |-> PinAfter(pin[n], nm), nm |-> new]]

\* The pin cannot be saved: it stays in memory and the apply is given up.
ApplyPinUnsaved(n, nm) ==
  /\ pin[n] = NoKey
  /\ nm.lock # NoKey
  /\ pin' = [pin EXCEPT ![n] = nm.lock]
  /\ UNCHANGED <<held, cached, installed, disk>>

\* The device refuses the peers: a.nm is set, st.Netmap is not; a pin was saved.
ApplyDeviceError(n, nm) ==
  /\ ~Refused(pin[n], nm)
  /\ pin' = [pin EXCEPT ![n] = PinAfter(@, nm)]
  /\ held' = [held EXCEPT ![n] = Enforced(pin[n], nm)]
  /\ disk' = [disk EXCEPT ![n] = IF pin[n] # NoKey THEN @
                                 ELSE IF nm.lock = NoKey THEN @
                                 ELSE [pin |-> nm.lock, nm |-> cached[n]]]
  /\ UNCHANGED <<cached, installed>>

\* The cache cannot be saved: logged, the netmap is in force all the same.
ApplyUnsaved(n, nm) ==
  LET new == Enforced(pin[n], nm) IN
  /\ ~Refused(pin[n], nm)
  /\ pin' = [pin EXCEPT ![n] = PinAfter(@, nm)]
  /\ held' = [held EXCEPT ![n] = new]
  /\ installed' = [installed EXCEPT ![n] = new.peers]
  /\ disk' = [disk EXCEPT ![n] = IF pin[n] # NoKey THEN @
                                 ELSE IF nm.lock = NoKey THEN @
                                 ELSE [pin |-> nm.lock, nm |-> cached[n]]]
  /\ cached' = [cached EXCEPT ![n] = new]

\* One of these ends every apply; the failures count as faults.
ApplyOrFail(n, nm) ==
  \/ Apply(n, nm) /\ UNCHANGED faults
  \/ Refused(pin[n], nm) /\ UNCHANGED <<pin, held, cached, installed, disk, faults>>
  \/ Fault /\ (ApplyPinUnsaved(n, nm) \/ ApplyDeviceError(n, nm) \/ ApplyUnsaved(n, nm))

\* syncLoop
ApplyFetched(n) ==
  /\ npc[n] = "got"
  /\ npc' = [npc EXCEPT ![n] = "idle"]
  /\ fetched' = [fetched EXCEPT ![n] = NoNetmap]
  /\ ApplyOrFail(n, fetched[n])
  /\ UNCHANGED <<storeVars, adminVars, captured, signed, commands>>

\* probeStep copies a.nm, releases the mutex, and applies the copy.
ProbeCapture(n) ==
  /\ captured[n] = NoNetmap
  /\ held[n] # NoNetmap
  /\ Fault
  /\ captured' = [captured EXCEPT ![n] = held[n]]
  /\ UNCHANGED <<storeVars, adminVars, npc, fetched, pin, held, cached, installed, disk, signed,
                 commands>>

ProbeApply(n) ==
  /\ captured[n] # NoNetmap
  /\ captured' = [captured EXCEPT ![n] = NoNetmap]
  /\ ApplyOrFail(n, captured[n])
  /\ UNCHANGED <<storeVars, adminVars, npc, fetched, signed, commands>>

\* Run: the state file is loaded and its netmap applied to a new device.
StartFrom(n, p, nm) ==
  /\ npc' = [npc EXCEPT ![n] = "idle"]
  /\ fetched' = [fetched EXCEPT ![n] = NoNetmap]
  /\ captured' = [captured EXCEPT ![n] = NoNetmap]
  /\ pin' = [pin EXCEPT ![n] = PinAfter(p, nm)]
  /\ cached' = [cached EXCEPT ![n] = IF Refused(p, nm) THEN nm ELSE Enforced(p, nm)]
  /\ held' = [held EXCEPT ![n] = IF Refused(p, nm) THEN NoNetmap ELSE Enforced(p, nm)]
  /\ installed' = [installed EXCEPT ![n] = IF Refused(p, nm) THEN {} ELSE Enforced(p, nm).peers]
  /\ disk' = [disk EXCEPT ![n] = [pin |-> PinAfter(p, nm), nm |-> nm]]

AgentRestart(n) ==
  /\ Fault
  /\ StartFrom(n, disk[n].pin, disk[n].nm)
  /\ UNCHANGED <<storeVars, adminVars, signed, commands>>

\* The remedy enforceLock names once the lock was rotated: clear lock_public_key
\* in the state file of the agent that refuses the new key.
ClearPinAndRestart(n) ==
  /\ Fault
  /\ npc[n] = "got"
  /\ Refused(pin[n], fetched[n])
  /\ StartFrom(n, NoKey, disk[n].nm)
  /\ UNCHANGED <<storeVars, adminVars, signed, commands>>

-----------------------------------------------------------------------------
DeviceStep == \E d \in Devices : AddDevice(d) \/ DeleteDevice(d) \/ Rekey(d)

AdminStep(a) ==
  \/ CmdLockInit(a)
  \/ InitReadPub(a)
  \/ InitReadActive(a)
  \/ InitClear(a)
  \/ InitSet(a)
  \/ CmdLockSign(a)
  \/ StatusPub(a)
  \/ StatusPending(a)
  \/ SignPub(a)
  \/ SignRows(a)
  \/ SignStore(a)
  \/ SignPending(a)
  \/ SignActivate(a)
  \/ DisablePub(a)
  \/ DisableActive(a)

AgentStep(n) ==
  \/ FetchRows(n)
  \/ FetchPub(n)
  \/ FetchActive(n)
  \/ ApplyFetched(n)
  \/ ProbeCapture(n)
  \/ ProbeApply(n)
  \/ AgentRestart(n)
  \/ ClearPinAndRestart(n)

Next ==
  \/ DeviceStep
  \/ \E a \in Admins : AdminStep(a)
  \/ \E n \in Agents : AgentStep(n)

Spec == Init /\ [][Next]_vars

-----------------------------------------------------------------------------
(***************************************************************************)
(* Properties.                                                             *)
(***************************************************************************)

\* What the lock is for: once an agent has pinned a key, no peer enters its
\* device whose (key, address) binding the holder of that very key did not sign,
\* whatever netmap it is given, re-applied by the prober or read back from the
\* state file, and whichever save failed in between.
PinnedInstallsSigned ==
  [][\A n \in Agents :
       installed'[n] # installed[n] /\ pin'[n] # NoKey
         => \A p \in installed'[n] :
              [by |-> pin'[n], dev |-> p.dev, gen |-> p.gen] \in signed']_vars

\* Trust on first use happens once: a pin that reached the state file is never
\* replaced, in memory or on disk, unless the operator clears it.
PersistedPinSticks ==
  [][\A n \in Agents :
       disk[n].pin # NoKey /\ ~ClearPinAndRestart(n)
         => disk'[n].pin = disk[n].pin /\ pin'[n] = disk[n].pin]_vars

\* A stored signature covers the key in its row: a rotation clears it (the
\* comment on SetNodeKey), so what needs signing again is listed as pending.
\* It does not hold of the code (README, Known divergences).
SignaturesCoverKeys ==
  \A d \in Devices : exists[d] /\ sig[d] # NoSig => sig[d].gen = key[d]

\* Stored signatures are by the lock key in place: arming with a new key drops
\* those made with the old one (the comment in handleLockInit).
\* It does not hold of the code (README, Known divergences).
SignaturesByLockKey ==
  pub # NoKey /\ (\A a \in Admins : apc[a] \in {"idle", "nothing"})
    => \A d \in Devices : exists[d] /\ sig[d] # NoSig => sig[d].by = pub

\* A lock whose bindings are all signed is active: `lock sign` that finds nothing
\* left to sign leaves it so (signatures are kept in case it is re-enabled, says
\* handleLockDisable).
\* It does not hold of the code (README, Known divergences).
NothingToSignIsActive ==
  (\E d \in Devices : exists[d]) => \A a \in Admins : apc[a] = "nothing" => active

\* The remedy of enforceLock's message works: an agent whose pin was cleared
\* comes back without the old pin.
\* It does not hold of the code (README, Known divergences).
ClearedPinIsGone ==
  [][\A n \in Agents : ClearPinAndRestart(n) => pin'[n] # pin[n]]_vars

-----------------------------------------------------------------------------
(***************************************************************************)
(* The inductive invariant behind them.                                    *)
(***************************************************************************)

Made(d, s) == [by |-> s.by, dev |-> d, gen |-> s.gen] \in signed

\* Whatever is taken for a signature was made on an admin machine, in the tables ...
RowsSigned == \A d \in Devices : sig[d].by # NoKey => Made(d, sig[d])

\* ... and, for what a request still has to store, with the key at hand.
RequestsSigned ==
  \A a \in Admins :
    /\ apc[a] \notin {"signPub", "signRows", "signStore"} => todo[a] = {}
    /\ \A d \in todo[a] : Made(d, [by |-> akey[a], gen |-> req[a][d]])

\* The same in a netmap, whatever enforceLock would make of it.
PeersSigned(m) == \A p \in m.peers : p.sig.by # NoKey => Made(p.dev, p.sig)

AgentsSigned ==
  \A n \in Agents :
    /\ PeersSigned(fetched[n]) /\ PeersSigned(held[n]) /\ PeersSigned(cached[n])
    /\ PeersSigned(captured[n]) /\ PeersSigned(disk[n].nm)

\* A pin that reached the file is the one in memory.
PinsAgree == \A n \in Agents : disk[n].pin # NoKey => pin[n] = disk[n].pin

IInv == TypeOK /\ RowsSigned /\ RequestsSigned /\ AgentsSigned /\ PinsAgree
=============================================================================
