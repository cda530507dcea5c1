------------------------- MODULE NetworkLockProofs -------------------------
(***************************************************************************)
(* Proofs about NetworkLock: its types, PinnedInstallsSigned and           *)
(* PersistedPinSticks, for any devices, lock keys, admins and agents and   *)
(* any number of commands, rotations and faults.                           *)
(*                                                                         *)
(* The argument: nothing on the way from an admin machine to an agent's    *)
(* device makes a signature up.  The tables, a request that is half        *)
(* stored, and every netmap an agent has somewhere carry made signatures   *)
(* only, so what survives enforceLock under a pin was signed by that pin.  *)
(***************************************************************************)
EXTENDS NetworkLock, TLAPS

USE ConstantsAssumption

\* The values everything starts with are of the right type, and carry no signature.
LEMMA Nothing ==
  /\ NoSig \in Sig /\ NoBindings \in Bindings /\ NoNetmap \in Netmap
  /\ NoKey \in MaybeKey /\ PeersSigned(NoNetmap)
BY DEF NoSig, Sig, NoBindings, Bindings, NoNetmap, Netmap, MaybeKey, PeersSigned

\* Init establishes the invariant: nothing is signed, pinned or under way.
LEMMA InitInv == Init => IInv
<1> SUFFICES ASSUME Init PROVE IInv
  OBVIOUS
<1>1. TypeOK
  <2>1. StoreTypes
    BY Nothing DEF Init, StoreTypes
  <2>2. AdminTypes
    BY Nothing DEF Init, AdminTypes
  <2>3. AgentTypes
    BY Nothing DEF Init, AgentTypes
  <2>4. commands \in 0..MaxCommands /\ faults \in 0..MaxFaults
    BY DEF Init
  <2> QED
    BY <2>1, <2>2, <2>3, <2>4 DEF TypeOK
<1>2. RowsSigned /\ RequestsSigned /\ PinsAgree
  BY DEF Init, RowsSigned, RequestsSigned, PinsAgree, NoSig
<1>3. AgentsSigned
  BY Nothing DEF Init, AgentsSigned
<1> QED
  BY <1>1, <1>2, <1>3 DEF IInv

\* Signatures, once made, stay made; so whoever is left alone stays sound.
LEMMA SignedStays ==
  ASSUME signed \subseteq signed'
  PROVE  /\ RowsSigned /\ UNCHANGED sig => RowsSigned'
         /\ RequestsSigned /\ UNCHANGED <<apc, akey, req, todo>> => RequestsSigned'
         /\ AgentsSigned /\ UNCHANGED agentVars => AgentsSigned'
<1>1. RowsSigned /\ UNCHANGED sig => RowsSigned'
  BY DEF RowsSigned, Made
<1>2. RequestsSigned /\ UNCHANGED <<apc, akey, req, todo>> => RequestsSigned'
  BY DEF RequestsSigned, Made
<1>3. AgentsSigned /\ UNCHANGED agentVars => AgentsSigned'
  BY DEF AgentsSigned, agentVars, PeersSigned, Made
<1> QED
  BY <1>1, <1>2, <1>3

-----------------------------------------------------------------------------
(* Devices: a new row and a new key come without a signature.              *)

LEMMA DeviceInv == ASSUME IInv, DeviceStep PROVE IInv'
<1> USE DEF IInv
<1> PICK d \in Devices : AddDevice(d) \/ DeleteDevice(d) \/ Rekey(d)
  BY DEF DeviceStep
<1>1. UNCHANGED <<pub, active, adminVars, agentVars, signed, commands, faults>>
  BY DEF AddDevice, DeleteDevice, Rekey
<1>2. StoreTypes'
  <2>1. sig' \in [Devices -> Sig] /\ exists' \in [Devices -> BOOLEAN]
    BY Nothing DEF AddDevice, DeleteDevice, Rekey, TypeOK, StoreTypes
  <2>2. key' \in [Devices -> Nat]
    BY DEF AddDevice, DeleteDevice, Rekey, TypeOK, StoreTypes
  <2> QED
    BY <1>1, <2>1, <2>2 DEF TypeOK, StoreTypes
<1>3. TypeOK'
  BY <1>1, <1>2 DEF TypeOK, AdminTypes, AgentTypes, adminVars, agentVars
<1>4. RowsSigned'
  BY DEF AddDevice, DeleteDevice, Rekey, TypeOK, StoreTypes, RowsSigned, Made, NoSig
<1>5. RequestsSigned' /\ AgentsSigned' /\ PinsAgree'
  BY <1>1, SignedStays DEF adminVars, agentVars, PinsAgree
<1> QED
  BY <1>3, <1>4, <1>5

-----------------------------------------------------------------------------
(* The commands and their handlers.                                        *)

\* A command that ends has nothing left to store.
LEMMA ExitInv ==
  ASSUME AdminTypes, RequestsSigned, NEW a \in Admins, Exit(a), signed \subseteq signed'
  PROVE  AdminTypes' /\ RequestsSigned'
<1>1. AdminTypes'
  BY Nothing DEF AdminTypes, Exit, Goto
<1>2. RequestsSigned'
  BY DEF AdminTypes, RequestsSigned, Made, Exit, Goto
<1> QED
  BY <1>1, <1>2

\* A handler that goes on: not into one of the program points that store.
LEMMA GoInv ==
  ASSUME AdminTypes, RequestsSigned, NEW a \in Admins,
         NEW l \in {"initPub", "initActive", "initClear", "initClearStatic", "initSet",
                    "status", "pending", "nothing", "signActivate", "disableActive"},
         Goto(a, l), UNCHANGED <<akey, req, todo, rows>>,
         apub' \in [Admins -> MaybeKey], \A b \in Admins \ {a} : apub'[b] = apub[b],
         todo[a] = {}, signed \subseteq signed'
  PROVE  AdminTypes' /\ RequestsSigned'
<1>1. AdminTypes'
  BY DEF AdminTypes, Goto
<1>2. RequestsSigned'
  BY DEF AdminTypes, RequestsSigned, Made, Goto
<1> QED
  BY <1>1, <1>2

\* What a command does to its own state.
LEMMA AdminRequests ==
  ASSUME IInv, NEW a \in Admins, AdminStep(a)
  PROVE  AdminTypes' /\ RequestsSigned'
<1> USE DEF IInv, TypeOK
<1>1. CASE CmdLockInit(a) \/ CmdLockSign(a)
  <2>1. PICK l \in {"initPub", "status"} : Command(a, l)
    BY <1>1 DEF CmdLockInit, CmdLockSign
  <2>2. AdminTypes'
    BY <2>1 DEF Command, Goto, AdminTypes, MaybeKey
  <2>3. RequestsSigned'
    BY <2>1 DEF Command, Goto, AdminTypes, RequestsSigned, Made
  <2> QED
    BY <2>2, <2>3
<1>2. CASE InitReadPub(a)
  BY <1>2, GoInv DEF InitReadPub, AdminTypes, StoreTypes, RequestsSigned
<1>3. CASE InitReadActive(a)
  <2>1. Exit(a) \/ \E l \in {"initSet", "initClear"} :
                    Goto(a, l) /\ UNCHANGED <<akey, apub, req, todo, rows>>
    BY <1>3 DEF InitReadActive
  <2>2. todo[a] = {} /\ apub \in [Admins -> MaybeKey]
    BY <1>3 DEF InitReadActive, AdminTypes, RequestsSigned
  <2>3. UNCHANGED signed
    BY <1>3 DEF InitReadActive
  <2> QED
    BY <2>1, <2>2, <2>3, ExitInv, GoInv
<1>4. CASE InitClear(a)
  <2>1. \E l \in {"initClearStatic", "initSet"} :
          Goto(a, l) /\ UNCHANGED <<akey, apub, req, todo, rows, signed>>
    BY <1>4 DEF InitClear
  <2>2. todo[a] = {} /\ apub \in [Admins -> MaybeKey]
    BY <1>4 DEF InitClear, AdminTypes, RequestsSigned
  <2> QED
    BY <2>1, <2>2, GoInv
<1>5. CASE InitSet(a) \/ SignActivate(a) \/ DisableActive(a)
  BY <1>5, ExitInv DEF InitSet, SignActivate, DisableActive
<1>6. CASE StatusPub(a)
  <2>1. Exit(a) \/ (Goto(a, "pending") /\ UNCHANGED <<akey, apub, req, todo, rows>>)
    BY <1>6 DEF StatusPub
  <2>2. todo[a] = {} /\ apub \in [Admins -> MaybeKey] /\ UNCHANGED signed
    BY <1>6 DEF StatusPub, AdminTypes, RequestsSigned
  <2> QED
    BY <2>1, <2>2, ExitInv, GoInv
<1>7. CASE StatusPending(a)
  <2>1. apc[a] = "pending" /\ todo[a] = {} /\ UNCHANGED <<akey, apub, rows>>
    BY <1>7 DEF StatusPending, RequestsSigned
  <2>2. ASSUME Unsigned = {} PROVE AdminTypes' /\ RequestsSigned'
    BY <1>7, <2>1, <2>2, GoInv DEF StatusPending, AdminTypes
  <2>3. ASSUME Unsigned # {} PROVE AdminTypes' /\ RequestsSigned'
    <3> DEFINE asked == [d \in Devices |-> IF d \in Unsigned THEN key[d] ELSE -1]
    <3>1. /\ Goto(a, "signPub")
          /\ req' = [req EXCEPT ![a] = asked] /\ todo' = [todo EXCEPT ![a] = Unsigned]
          /\ signed' = signed \union {[by |-> akey[a], dev |-> d, gen |-> key[d]] : d \in Unsigned}
      BY <1>7, <2>3 DEF StatusPending
    <3>2. asked \in Bindings /\ Unsigned \subseteq Devices
      BY DEF Bindings, Unsigned, StoreTypes
    <3>3. \A d \in Unsigned : [by |-> akey[a], dev |-> d, gen |-> asked[d]] \in signed'
      BY <3>1, <3>2
    <3> HIDE DEF asked
    <3>4. AdminTypes'
      BY <2>1, <3>1, <3>2 DEF AdminTypes, Goto
    <3>5. RequestsSigned'
      BY <2>1, <3>1, <3>2, <3>3 DEF AdminTypes, RequestsSigned, Made, Goto
    <3> QED
      BY <3>4, <3>5
  <2> QED
    BY <2>2, <2>3
<1>8. CASE SignPub(a)
  <2>1. apc[a] = "signPub" /\ UNCHANGED signed
    BY <1>8 DEF SignPub
  <2>2. Exit(a) \/ /\ pub # NoKey /\ Goto(a, "signRows") /\ apub' = [apub EXCEPT ![a] = pub]
                   /\ UNCHANGED <<akey, req, todo, rows>>
    BY <1>8 DEF SignPub
  <2>3. ASSUME pub # NoKey, Goto(a, "signRows"), apub' = [apub EXCEPT ![a] = pub],
               UNCHANGED <<akey, req, todo, rows>>
        PROVE  AdminTypes' /\ RequestsSigned'
    <3>1. AdminTypes'
      BY <2>3 DEF AdminTypes, StoreTypes, Goto
    <3>2. RequestsSigned'
      BY <2>1, <2>3 DEF AdminTypes, RequestsSigned, Made, Goto
    <3> QED
      BY <3>1, <3>2
  <2> QED
    BY <2>1, <2>2, <2>3, ExitInv
<1>9. CASE SignRows(a)
  <2> DEFINE read == [d \in Devices |-> IF exists[d] THEN key[d] ELSE -1]
  <2>1. read \in Bindings
    BY DEF Bindings, StoreTypes
  <2>2. /\ apc[a] = "signRows" /\ Goto(a, "signStore") /\ rows' = [rows EXCEPT ![a] = read]
        /\ UNCHANGED <<akey, apub, req, todo, signed>>
    BY <1>9 DEF SignRows
  <2> HIDE DEF read
  <2>3. AdminTypes'
    BY <2>1, <2>2 DEF AdminTypes, Goto
  <2>4. RequestsSigned'
    BY <2>2 DEF AdminTypes, RequestsSigned, Made, Goto
  <2> QED
    BY <2>3, <2>4
<1>10. CASE SignStore(a)
  <2>1. UNCHANGED signed
    BY <1>10 DEF SignStore
  <2>2. Exit(a) \/ \E d \in todo[a] : /\ todo' = [todo EXCEPT ![a] = @ \ {d}]
                                     /\ UNCHANGED <<apc, akey, apub, req, rows>>
    BY <1>10 DEF SignStore
  <2>3. ASSUME NEW d \in todo[a], todo' = [todo EXCEPT ![a] = @ \ {d}],
               UNCHANGED <<apc, akey, apub, req, rows>>
        PROVE  AdminTypes' /\ RequestsSigned'
    <3>1. AdminTypes'
      BY <2>3 DEF AdminTypes
    <3>2. RequestsSigned'
      BY <2>1, <2>3 DEF AdminTypes, RequestsSigned, Made
    <3> QED
      BY <3>1, <3>2
  <2> QED
    BY <2>1, <2>2, <2>3, ExitInv
<1>11. CASE SignPending(a)
  <2>1. Exit(a) \/ (Goto(a, "signActivate") /\ UNCHANGED <<akey, apub, req, todo, rows>>)
    BY <1>11 DEF SignPending
  <2>2. todo[a] = {} /\ apub \in [Admins -> MaybeKey] /\ UNCHANGED signed
    BY <1>11 DEF SignPending, AdminTypes
  <2> QED
    BY <2>1, <2>2, ExitInv, GoInv
<1>12. CASE DisablePub(a)
  <2>1. Goto(a, "disableActive") /\ UNCHANGED <<akey, apub, req, todo, rows, signed>>
    BY <1>12 DEF DisablePub
  <2>2. todo[a] = {} /\ apub \in [Admins -> MaybeKey]
    BY <1>12 DEF DisablePub, AdminTypes, RequestsSigned
  <2> QED
    BY <2>1, <2>2, GoInv
<1> QED
  BY <1>1, <1>2, <1>3, <1>4, <1>5, <1>6, <1>7, <1>8, <1>9, <1>10, <1>11, <1>12 DEF AdminStep

\* ... and to the tables: a stored signature is one of the request's.
LEMMA AdminInv == ASSUME IInv, NEW a \in Admins, AdminStep(a) PROVE IInv'
<1> USE DEF IInv
<1>1. /\ UNCHANGED <<exists, key, agentVars, faults>> /\ signed \subseteq signed'
      /\ commands' \in 0..MaxCommands
  BY DEF AdminStep, CmdLockInit, CmdLockSign, Command, InitReadPub, InitReadActive, InitClear,
         InitSet, StatusPub, StatusPending, SignPub, SignRows, SignStore, SignPending,
         SignActivate, DisablePub, DisableActive, storeVars, TypeOK
<1>2. pub' \in MaybeKey /\ active' \in BOOLEAN
  BY Nothing
     DEF AdminStep, CmdLockInit, CmdLockSign, Command, InitReadPub, InitReadActive, InitClear,
         InitSet, StatusPub, StatusPending, SignPub, SignRows, SignStore, SignPending,
         SignActivate, DisablePub, DisableActive, storeVars, TypeOK, StoreTypes, AdminTypes
<1>3. sig' \in [Devices -> Sig] /\ RowsSigned'
  <2>1. CASE UNCHANGED sig
    BY <1>1, <2>1, SignedStays DEF TypeOK, StoreTypes
  <2>2. CASE InitClear(a)
    BY <2>2, Nothing DEF InitClear, TypeOK, StoreTypes, RowsSigned, Made, NoSig
  <2>3. CASE SignStore(a) /\ sig' # sig
    <3>1. PICK d \in todo[a] : /\ Accepted(a, d)
                               /\ sig' = [sig EXCEPT ![d] = [by |-> akey[a], gen |-> req[a][d]]]
      BY <2>3 DEF SignStore
    <3>2. d \in Devices /\ req[a][d] \in Nat /\ akey[a] \in MaybeKey
      BY <3>1 DEF Accepted, TypeOK, AdminTypes, Bindings
    <3>3. Made(d, [by |-> akey[a], gen |-> req[a][d]])
      BY DEF RequestsSigned
    <3> DEFINE s == [by |-> akey[a], gen |-> req[a][d]]
    <3>4. s \in Sig /\ Made(d, s)
      BY <3>2, <3>3 DEF Sig
    <3> HIDE DEF s
    <3>5. sig' = [sig EXCEPT ![d] = s]
      BY <3>1 DEF s
    <3>6. sig' \in [Devices -> Sig]
      BY <3>4, <3>5 DEF TypeOK, StoreTypes
    <3>7. RowsSigned'
      BY <1>1, <3>2, <3>4, <3>5 DEF TypeOK, StoreTypes, RowsSigned, Made
    <3> QED
      BY <3>6, <3>7
  <2>4. sig' = sig \/ InitClear(a) \/ SignStore(a)
    BY DEF AdminStep, CmdLockInit, CmdLockSign, Command, InitReadPub, InitReadActive,
           InitSet, StatusPub, StatusPending, SignPub, SignRows, SignPending,
           SignActivate, DisablePub, DisableActive, storeVars
  <2> QED
    BY <2>1, <2>2, <2>3, <2>4
<1>4. StoreTypes'
  BY <1>1, <1>2, <1>3 DEF TypeOK, StoreTypes
<1>5. AdminTypes' /\ RequestsSigned'
  BY AdminRequests
<1>6. TypeOK'
  BY <1>1, <1>4, <1>5 DEF TypeOK, AgentTypes, agentVars
<1>7. AgentsSigned' /\ PinsAgree'
  BY <1>1, SignedStays DEF agentVars, PinsAgree
<1> QED
  BY <1>3, <1>5, <1>6, <1>7

-----------------------------------------------------------------------------
(* Agents.                                                                 *)

\* What enforceLock makes of a netmap: a pin is in it only if the netmap brought
\* it, and under a pin the peers left are those whose binding it signed.
LEMMA EnforcedSound ==
  ASSUME NEW p \in MaybeKey, NEW m \in Netmap, PeersSigned(m)
  PROVE  /\ PinAfter(p, m) \in MaybeKey /\ (p # NoKey => PinAfter(p, m) = p)
         /\ Enforced(p, m) \in Netmap /\ PeersSigned(Enforced(p, m))
         /\ PinAfter(p, m) # NoKey =>
              \A q \in Enforced(p, m).peers :
                [by |-> PinAfter(p, m), dev |-> q.dev, gen |-> q.gen] \in signed
<1>1. PinAfter(p, m) \in MaybeKey /\ (p # NoKey => PinAfter(p, m) = p)
  BY DEF PinAfter, Netmap
<1> DEFINE k == PinAfter(p, m)
<1>2. Verified(k, m) \subseteq m.peers /\ m.peers \in SUBSET Peer
  BY DEF Verified, Netmap
<1>3. Enforced(p, m).peers = Verified(k, m) /\ Enforced(p, m) \in Netmap
  BY <1>2 DEF Enforced, Netmap
<1>4. PeersSigned(Enforced(p, m))
  BY <1>2, <1>3 DEF PeersSigned
<1>5. k # NoKey => \A q \in Verified(k, m) : [by |-> k, dev |-> q.dev, gen |-> q.gen] \in signed
  BY DEF Verified, PeersSigned, Made
<1> QED
  BY <1>1, <1>3, <1>4, <1>5

\* The variables an apply may change, and what holds of them afterwards.
LEMMA ApplySound ==
  ASSUME IInv, NEW n \in Agents, NEW m \in Netmap, PeersSigned(m), ApplyOrFail(n, m)
  PROVE  /\ pin' \in [Agents -> MaybeKey]
         /\ held' \in [Agents -> Netmap] /\ cached' \in [Agents -> Netmap]
         /\ installed' \in [Agents -> SUBSET Peer]
         /\ disk' \in [Agents -> [pin : MaybeKey, nm : Netmap]]
         /\ \A k \in Agents :
              PeersSigned(held'[k]) /\ PeersSigned(cached'[k]) /\ PeersSigned(disk'[k].nm)
         /\ PinsAgree'
<1> DEFINE new == Enforced(pin[n], m)
           new_pin == PinAfter(pin[n], m)
           Goal == /\ pin' \in [Agents -> MaybeKey]
                   /\ held' \in [Agents -> Netmap] /\ cached' \in [Agents -> Netmap]
                   /\ installed' \in [Agents -> SUBSET Peer]
                   /\ disk' \in [Agents -> [pin : MaybeKey, nm : Netmap]]
                   /\ \A k \in Agents : /\ PeersSigned(held'[k]) /\ PeersSigned(cached'[k])
                                        /\ PeersSigned(disk'[k].nm)
                   /\ PinsAgree'
<1> USE DEF IInv, TypeOK
<1>1. /\ pin[n] \in MaybeKey /\ m.lock \in MaybeKey
      /\ new \in Netmap /\ PeersSigned(new) /\ new_pin \in MaybeKey
      /\ new.peers \in SUBSET Peer /\ new_pin = (IF pin[n] = NoKey THEN m.lock ELSE pin[n])
  BY EnforcedSound DEF AgentTypes, Netmap, PinAfter
<1>2. ASSUME NEW d \in [pin : MaybeKey, nm : Netmap], PeersSigned(d.nm),
             d.pin # NoKey => d.pin = new_pin,
             pin' = [pin EXCEPT ![n] = new_pin], held' = [held EXCEPT ![n] = new],
             cached' \in {cached, [cached EXCEPT ![n] = new]},
             installed' \in {installed, [installed EXCEPT ![n] = new.peers]},
             disk' = [disk EXCEPT ![n] = d]
      PROVE  Goal
  <2> HIDE DEF new, new_pin
  <2>1. pin' \in [Agents -> MaybeKey] /\ held' \in [Agents -> Netmap]
    BY <1>1, <1>2 DEF AgentTypes
  <2>2. cached' \in [Agents -> Netmap]
    BY <1>1, <1>2 DEF AgentTypes
  <2>6. installed' \in [Agents -> SUBSET Peer]
    BY <1>1, <1>2 DEF AgentTypes
  <2>3. disk' \in [Agents -> [pin : MaybeKey, nm : Netmap]]
    BY <1>2 DEF AgentTypes
  <2>4. ASSUME NEW k \in Agents
        PROVE  PeersSigned(held'[k]) /\ PeersSigned(cached'[k]) /\ PeersSigned(disk'[k].nm)
    BY <1>1, <1>2 DEF AgentTypes, AgentsSigned
  <2>5. PinsAgree'
    BY <1>2, <2>1, <2>3 DEF AgentTypes, PinsAgree
  <2> QED
    BY <2>1, <2>2, <2>3, <2>4, <2>5, <2>6
<1>3. CASE Apply(n, m)
  <2> DEFINE d == [pin |-> new_pin, nm |-> new]
  <2>1. d \in [pin : MaybeKey, nm : Netmap] /\ PeersSigned(d.nm) /\ d.pin = new_pin
    BY <1>1
  <2>2. /\ pin' = [pin EXCEPT ![n] = new_pin] /\ held' = [held EXCEPT ![n] = new]
        /\ cached' = [cached EXCEPT ![n] = new]
        /\ installed' = [installed EXCEPT ![n] = new.peers]
        /\ disk' = [disk EXCEPT ![n] = d]
    BY <1>3 DEF Apply
  <2> HIDE DEF d, new, new_pin
  <2> QED
    BY <1>2, <2>1, <2>2
<1>4. CASE UNCHANGED <<pin, held, cached, installed, disk>>
  BY <1>4 DEF AgentTypes, AgentsSigned, PinsAgree
<1>5. CASE ApplyPinUnsaved(n, m)
  BY <1>1, <1>5 DEF ApplyPinUnsaved, AgentTypes, AgentsSigned, PinsAgree
<1>6. CASE ApplyDeviceError(n, m) \/ ApplyUnsaved(n, m)
  <2> DEFINE saved == [pin |-> m.lock, nm |-> cached[n]]
             d == IF pin[n] # NoKey THEN disk[n] ELSE IF m.lock = NoKey THEN disk[n] ELSE saved
  <2>1. saved \in [pin : MaybeKey, nm : Netmap] /\ PeersSigned(saved.nm) /\ saved.pin = m.lock
    BY <1>1 DEF AgentTypes, AgentsSigned
  <2>2. disk[n] \in [pin : MaybeKey, nm : Netmap] /\ PeersSigned(disk[n].nm)
    BY DEF AgentTypes, AgentsSigned
  <2>3. disk[n].pin # NoKey => disk[n].pin = new_pin
    BY <1>1 DEF PinsAgree
  <2>4. d \in [pin : MaybeKey, nm : Netmap] /\ PeersSigned(d.nm)
    BY <2>1, <2>2
  <2>5. d.pin # NoKey => d.pin = new_pin
    BY <1>1, <2>1, <2>3
  <2>6. /\ pin' = [pin EXCEPT ![n] = new_pin] /\ held' = [held EXCEPT ![n] = new]
        /\ cached' \in {cached, [cached EXCEPT ![n] = new]}
        /\ installed' \in {installed, [installed EXCEPT ![n] = new.peers]}
    BY <1>6 DEF ApplyDeviceError, ApplyUnsaved
  <2>7. disk' = [disk EXCEPT ![n] = d]
    BY <1>6 DEF ApplyDeviceError, ApplyUnsaved
  <2> HIDE DEF d, new, new_pin
  <2> QED
    BY <1>2, <2>4, <2>5, <2>6, <2>7
<1> QED
  BY <1>3, <1>4, <1>5, <1>6 DEF ApplyOrFail
\* An apply changes the device and the pins of one agent; under a pin it installs
\* what that pin signed, and it does not touch a pin that is in the file.
LEMMA ApplyPromises ==
  ASSUME IInv, NEW n \in Agents, NEW m \in Netmap, PeersSigned(m), ApplyOrFail(n, m)
  PROVE  /\ \A k \in Agents \ {n} : /\ installed'[k] = installed[k]
                                    /\ pin'[k] = pin[k] /\ disk'[k] = disk[k]
         /\ installed'[n] # installed[n] /\ pin'[n] # NoKey
              => \A q \in installed'[n] :
                   [by |-> pin'[n], dev |-> q.dev, gen |-> q.gen] \in signed
         /\ disk[n].pin # NoKey => disk'[n].pin = disk[n].pin /\ pin'[n] = disk[n].pin
<1> USE DEF IInv, TypeOK
<1>0. /\ pin[n] \in MaybeKey
      /\ disk[n].pin # NoKey => pin[n] = disk[n].pin /\ PinAfter(pin[n], m) = pin[n]
  BY DEF AgentTypes, PinsAgree, PinAfter
<1>1. ASSUME NEW k \in Agents \ {n}
      PROVE  installed'[k] = installed[k] /\ pin'[k] = pin[k] /\ disk'[k] = disk[k]
  BY DEF ApplyOrFail, Apply, ApplyPinUnsaved, ApplyDeviceError, ApplyUnsaved, AgentTypes
<1>2. ASSUME installed'[n] # installed[n], pin'[n] # NoKey
      PROVE  \A q \in installed'[n] : [by |-> pin'[n], dev |-> q.dev, gen |-> q.gen] \in signed
  <2>1. Apply(n, m) \/ ApplyUnsaved(n, m)
    BY <1>2 DEF ApplyOrFail, ApplyPinUnsaved, ApplyDeviceError
  <2>2. /\ pin'[n] = PinAfter(pin[n], m)
        /\ installed'[n] = Enforced(pin[n], m).peers
    BY <2>1 DEF Apply, ApplyUnsaved, AgentTypes
  <2> QED
    BY <1>0, <1>2, <2>2, EnforcedSound
<1>3. ASSUME disk[n].pin # NoKey
      PROVE  disk'[n].pin = disk[n].pin /\ pin'[n] = disk[n].pin
  <2>1. CASE Apply(n, m)
    BY <1>0, <1>3, <2>1 DEF Apply, AgentTypes
  <2>2. CASE UNCHANGED <<pin, held, cached, installed, disk>>
    BY <1>0, <1>3, <2>2
  <2>3. CASE ApplyPinUnsaved(n, m)
    BY <1>0, <1>3, <2>3 DEF ApplyPinUnsaved
  <2>4. CASE ApplyDeviceError(n, m) \/ ApplyUnsaved(n, m)
    <3>1. disk'[n] = disk[n] /\ pin'[n] = PinAfter(pin[n], m)
      BY <1>0, <1>3, <2>4 DEF ApplyDeviceError, ApplyUnsaved, AgentTypes
    <3> QED
      BY <1>0, <1>3, <3>1
  <2> QED
    BY <2>1, <2>2, <2>3, <2>4 DEF ApplyOrFail
<1> QED
  BY <1>1, <1>2, <1>3

\* The same for a start from the state file, with the pin p in it (or cleared).
LEMMA StartSound ==
  ASSUME IInv, NEW n \in Agents, NEW p \in MaybeKey, NEW m \in Netmap, PeersSigned(m),
         StartFrom(n, p, m), UNCHANGED signed
  PROVE  /\ AgentTypes' /\ AgentsSigned' /\ PinsAgree'
         /\ \A k \in Agents \ {n} : /\ installed'[k] = installed[k]
                                    /\ pin'[k] = pin[k] /\ disk'[k] = disk[k]
         /\ pin'[n] # NoKey => \A q \in installed'[n] :
                                 [by |-> pin'[n], dev |-> q.dev, gen |-> q.gen] \in signed
         /\ p # NoKey => disk'[n].pin = p /\ pin'[n] = p
<1> DEFINE new == Enforced(p, m)
           new_pin == PinAfter(p, m)
           c == IF Refused(p, m) THEN m ELSE new
           h == IF Refused(p, m) THEN NoNetmap ELSE new
           i == IF Refused(p, m) THEN {} ELSE new.peers
           d == [pin |-> new_pin, nm |-> m]
<1> USE DEF IInv, TypeOK
<1>1. /\ new_pin \in MaybeKey /\ (p # NoKey => new_pin = p)
      /\ new \in Netmap /\ PeersSigned(new)
      /\ new_pin # NoKey => \A q \in new.peers :
                              [by |-> new_pin, dev |-> q.dev, gen |-> q.gen] \in signed
  BY EnforcedSound
<1>2. /\ c \in Netmap /\ PeersSigned(c) /\ h \in Netmap /\ PeersSigned(h)
      /\ i \in SUBSET Peer
  BY <1>1, Nothing DEF Netmap
<1>3. d \in [pin : MaybeKey, nm : Netmap] /\ d.pin = new_pin /\ d.nm = m
  BY <1>1
<1>4. new_pin # NoKey => \A q \in i : [by |-> new_pin, dev |-> q.dev, gen |-> q.gen] \in signed
  BY <1>1
<1>5. /\ npc' = [npc EXCEPT ![n] = "idle"] /\ fetched' = [fetched EXCEPT ![n] = NoNetmap]
      /\ captured' = [captured EXCEPT ![n] = NoNetmap] /\ pin' = [pin EXCEPT ![n] = new_pin]
      /\ cached' = [cached EXCEPT ![n] = c] /\ held' = [held EXCEPT ![n] = h]
      /\ installed' = [installed EXCEPT ![n] = i] /\ disk' = [disk EXCEPT ![n] = d]
  BY DEF StartFrom
<1> HIDE DEF new, new_pin, c, h, i, d
<1>6. AgentTypes'
  <2>1. /\ npc' \in [Agents -> {"idle", "pub", "active", "got"}]
        /\ pin' \in [Agents -> MaybeKey] /\ installed' \in [Agents -> SUBSET Peer]
    BY <1>1, <1>2, <1>5 DEF AgentTypes
  <2>2. fetched' \in [Agents -> Netmap] /\ captured' \in [Agents -> Netmap]
    BY <1>5, Nothing DEF AgentTypes
  <2>3. held' \in [Agents -> Netmap] /\ cached' \in [Agents -> Netmap]
    BY <1>2, <1>5 DEF AgentTypes
  <2>4. disk' \in [Agents -> [pin : MaybeKey, nm : Netmap]]
    BY <1>3, <1>5 DEF AgentTypes
  <2> QED
    BY <2>1, <2>2, <2>3, <2>4 DEF AgentTypes
<1>7. AgentsSigned'
  <2>1. ASSUME NEW k \in Agents
        PROVE  /\ PeersSigned(fetched'[k]) /\ PeersSigned(held'[k]) /\ PeersSigned(cached'[k])
               /\ PeersSigned(captured'[k]) /\ PeersSigned(disk'[k].nm)
    BY <1>2, <1>3, <1>5, Nothing DEF AgentTypes, AgentsSigned
  <2> QED
    BY <2>1 DEF AgentsSigned, PeersSigned, Made
<1>8. PinsAgree'
  BY <1>3, <1>5 DEF AgentTypes, PinsAgree
<1>9. \A k \in Agents \ {n} : /\ installed'[k] = installed[k]
                             /\ pin'[k] = pin[k] /\ disk'[k] = disk[k]
  BY <1>5 DEF AgentTypes
<1>10. pin'[n] = new_pin /\ installed'[n] = i /\ disk'[n].pin = new_pin
  BY <1>3, <1>5 DEF AgentTypes
<1> QED
  BY <1>1, <1>4, <1>6, <1>7, <1>8, <1>9, <1>10
\* A step of an agent keeps the invariant.
LEMMA AgentInv == ASSUME IInv, NEW n \in Agents, AgentStep(n) PROVE IInv'
<1> USE DEF IInv, TypeOK
<1>1. UNCHANGED <<storeVars, adminVars, signed, commands>> /\ faults' \in 0..MaxFaults
  BY DEF AgentStep, FetchRows, FetchPub, FetchActive, ApplyFetched, ProbeCapture, ProbeApply,
         AgentRestart, ClearPinAndRestart, ApplyOrFail, Fault
<1>2. StoreTypes' /\ AdminTypes' /\ RowsSigned' /\ RequestsSigned'
  BY <1>1, SignedStays DEF storeVars, adminVars, StoreTypes, AdminTypes
<1>3. CASE FetchRows(n)
  <2> DEFINE got == [lock |-> NoKey,
                     peers |-> {[dev |-> d, gen |-> key[d], sig |-> sig[d]] :
                                  d \in {e \in Devices : exists[e]}}]
  <2>1. got.peers \in SUBSET Peer /\ got.lock \in MaybeKey
    BY Nothing DEF Peer, StoreTypes
  <2>2. got \in Netmap
    BY <2>1 DEF Netmap
  <2>3. PeersSigned(got)
    BY DEF PeersSigned, RowsSigned
  <2>4. /\ fetched' = [fetched EXCEPT ![n] = got] /\ npc' = [npc EXCEPT ![n] = "pub"]
        /\ UNCHANGED <<pin, held, cached, installed, captured, disk>>
    BY <1>3 DEF FetchRows
  <2> HIDE DEF got
  <2>5. AgentTypes'
    BY <2>2, <2>4 DEF AgentTypes
  <2>6. AgentsSigned' /\ PinsAgree'
    BY <1>1, <2>3, <2>4 DEF AgentTypes, AgentsSigned, PeersSigned, Made, PinsAgree
  <2> QED
    BY <1>1, <1>2, <2>5, <2>6
<1>4. CASE FetchPub(n) \/ FetchActive(n)
  <2>1. PICK l \in MaybeKey : fetched' = [fetched EXCEPT ![n].lock = l]
    BY <1>4, Nothing DEF FetchPub, FetchActive, AgentTypes, StoreTypes, Netmap
  <2>2. npc' \in [Agents -> {"idle", "pub", "active", "got"}]
        /\ UNCHANGED <<pin, held, cached, installed, captured, disk>>
    BY <1>4 DEF FetchPub, FetchActive, AgentTypes
  <2>3. fetched' \in [Agents -> Netmap] /\ \A k \in Agents : fetched'[k].peers = fetched[k].peers
    BY <2>1, SMTT(30) DEF AgentTypes, Netmap
  <2>4. AgentTypes'
    BY <2>2, <2>3 DEF AgentTypes
  <2>5. AgentsSigned' /\ PinsAgree'
    BY <1>1, <2>2, <2>3 DEF AgentsSigned, PeersSigned, Made, PinsAgree
  <2> QED
    BY <1>1, <1>2, <2>4, <2>5
<1>5. CASE ApplyFetched(n) \/ ProbeApply(n)
  <2>1. PICK m \in Netmap : PeersSigned(m) /\ ApplyOrFail(n, m)
    BY <1>5 DEF ApplyFetched, ProbeApply, AgentTypes, AgentsSigned
  <2>2. /\ npc' \in [Agents -> {"idle", "pub", "active", "got"}]
        /\ fetched' \in {fetched, [fetched EXCEPT ![n] = NoNetmap]}
        /\ captured' \in {captured, [captured EXCEPT ![n] = NoNetmap]}
    BY <1>5 DEF ApplyFetched, ProbeApply, AgentTypes
  <2>3. fetched' \in [Agents -> Netmap] /\ captured' \in [Agents -> Netmap]
    BY <2>2, Nothing, SMTT(30) DEF AgentTypes
  <2>4. \A k \in Agents : PeersSigned(fetched'[k]) /\ PeersSigned(captured'[k])
    BY <2>2, Nothing DEF AgentTypes, AgentsSigned
  <2>5. AgentTypes'
    BY <2>1, <2>2, <2>3, ApplySound DEF AgentTypes
  <2>6. AgentsSigned' /\ PinsAgree'
    <3>1. /\ \A k \in Agents :
               PeersSigned(held'[k]) /\ PeersSigned(cached'[k]) /\ PeersSigned(disk'[k].nm)
          /\ PinsAgree'
      BY <2>1, ApplySound
    <3> QED
      BY <1>1, <2>4, <3>1 DEF AgentsSigned, PeersSigned, Made
  <2> QED
    BY <1>1, <1>2, <2>5, <2>6
<1>6. CASE ProbeCapture(n)
  <2>1. /\ captured' = [captured EXCEPT ![n] = held[n]]
        /\ UNCHANGED <<npc, fetched, pin, held, cached, installed, disk>>
    BY <1>6 DEF ProbeCapture
  <2>2. AgentTypes'
    BY <2>1 DEF AgentTypes
  <2>3. AgentsSigned' /\ PinsAgree'
    BY <1>1, <2>1 DEF AgentTypes, AgentsSigned, PeersSigned, Made, PinsAgree
  <2> QED
    BY <1>1, <1>2, <2>2, <2>3
<1>7. CASE AgentRestart(n) \/ ClearPinAndRestart(n)
  <2>1. PICK p \in MaybeKey : StartFrom(n, p, disk[n].nm)
    BY <1>7, Nothing DEF AgentRestart, ClearPinAndRestart, AgentTypes
  <2>2. disk[n].nm \in Netmap /\ PeersSigned(disk[n].nm)
    BY DEF AgentTypes, AgentsSigned
  <2> QED
    BY <1>1, <1>2, <2>1, <2>2, StartSound
<1> QED
  BY <1>3, <1>4, <1>5, <1>6, <1>7 DEF AgentStep

\* ... and the two promises, which speak of the step itself.
LEMMA AgentPromises ==
  ASSUME IInv, NEW a \in Agents, AgentStep(a), NEW n \in Agents
  PROVE  /\ installed'[n] # installed[n] /\ pin'[n] # NoKey
              => \A q \in installed'[n] :
                   [by |-> pin'[n], dev |-> q.dev, gen |-> q.gen] \in signed'
         /\ disk[n].pin # NoKey /\ ~ClearPinAndRestart(n)
              => disk'[n].pin = disk[n].pin /\ pin'[n] = disk[n].pin
<1> USE DEF IInv, TypeOK
<1>0. disk[n].pin # NoKey => pin[n] = disk[n].pin
  BY DEF PinsAgree
<1>1. CASE UNCHANGED <<pin, installed, disk>>
  BY <1>0, <1>1
<1>2. CASE ApplyFetched(a) \/ ProbeApply(a)
  <2>1. PICK m \in Netmap : PeersSigned(m) /\ ApplyOrFail(a, m)
    BY <1>2 DEF ApplyFetched, ProbeApply, AgentTypes, AgentsSigned
  <2>2. UNCHANGED signed
    BY <1>2 DEF ApplyFetched, ProbeApply
  <2> QED
    BY <1>0, <2>1, <2>2, ApplyPromises
<1>3. CASE AgentRestart(a)
  <2>1. /\ disk[a].pin \in MaybeKey /\ disk[a].nm \in Netmap /\ PeersSigned(disk[a].nm)
        /\ StartFrom(a, disk[a].pin, disk[a].nm) /\ UNCHANGED signed
    BY <1>3 DEF AgentRestart, AgentTypes, AgentsSigned
  <2> QED
    BY <1>0, <2>1, StartSound
<1>4. CASE ClearPinAndRestart(a)
  <2>1. /\ disk[a].nm \in Netmap /\ PeersSigned(disk[a].nm)
        /\ StartFrom(a, NoKey, disk[a].nm) /\ UNCHANGED signed
    BY <1>4 DEF ClearPinAndRestart, AgentTypes, AgentsSigned
  <2> QED
    BY <1>0, <1>4, <2>1, StartSound, Nothing
<1>5. UNCHANGED <<pin, installed, disk>> \/ ApplyFetched(a) \/ ProbeApply(a)
      \/ AgentRestart(a) \/ ClearPinAndRestart(a)
  BY DEF AgentStep, FetchRows, FetchPub, FetchActive, ProbeCapture
<1> QED
  BY <1>1, <1>2, <1>3, <1>4, <1>5

-----------------------------------------------------------------------------
(* The theorems.                                                           *)

\* Every step keeps the invariant.
LEMMA InvStep == IInv /\ [Next]_vars => IInv'
<1> SUFFICES ASSUME IInv, [Next]_vars PROVE IInv'
  OBVIOUS
<1>1. CASE UNCHANGED vars
  <2>1. TypeOK'
    BY <1>1 DEF IInv, TypeOK, StoreTypes, AdminTypes, AgentTypes, vars, storeVars, adminVars,
               agentVars
  <2> QED
    BY <1>1, <2>1, SignedStays DEF IInv, vars, storeVars, adminVars, agentVars, PinsAgree
<1>2. CASE Next
  BY <1>2, DeviceInv, AdminInv, AgentInv DEF Next
<1> QED
  BY <1>1, <1>2

\* The tables, the handlers and the agents keep their types; a handler verifies
\* signatures only when there is a lock key to verify them with.
THEOREM TypeCorrect == Spec => []TypeOK
<1>1. IInv => TypeOK
  BY DEF IInv
<1> QED
  BY <1>1, InitInv, InvStep, PTL DEF Spec

\* Under a pin an agent installs only bindings that the holder of the pinned key has
\* signed, whatever the coordinator's tables say.
THEOREM PinsProtect == Spec => PinnedInstallsSigned
<1> DEFINE Promise == \A n \in Agents :
             installed'[n] # installed[n] /\ pin'[n] # NoKey
               => \A p \in installed'[n] :
                    [by |-> pin'[n], dev |-> p.dev, gen |-> p.gen] \in signed'
<1>1. IInv /\ [Next]_vars => [Promise]_vars
  <2> SUFFICES ASSUME IInv, Next PROVE Promise
    OBVIOUS
  <2>1. CASE \E a \in Agents : AgentStep(a)
    BY <2>1, AgentPromises
  <2>2. CASE UNCHANGED installed
    BY <2>2
  <2>3. DeviceStep \/ (\E a \in Admins : AdminStep(a)) => UNCHANGED installed
    BY DEF DeviceStep, AddDevice, DeleteDevice, Rekey, AdminStep, CmdLockInit, CmdLockSign,
           Command, InitReadPub, InitReadActive, InitClear, InitSet, StatusPub, StatusPending,
           SignPub, SignRows, SignStore, SignPending, SignActivate, DisablePub, DisableActive,
           agentVars
  <2> QED
    BY <2>1, <2>2, <2>3 DEF Next
<1> QED
  BY <1>1, InitInv, InvStep, PTL DEF Spec, PinnedInstallsSigned

\* A pin that reached the state file stays, in memory and in the file, until the
\* operator clears it.
THEOREM PinsStick == Spec => PersistedPinSticks
<1> DEFINE Promise == \A n \in Agents :
             disk[n].pin # NoKey /\ ~ClearPinAndRestart(n)
               => disk'[n].pin = disk[n].pin /\ pin'[n] = disk[n].pin
<1>1. IInv /\ [Next]_vars => [Promise]_vars
  <2> SUFFICES ASSUME IInv, Next PROVE Promise
    OBVIOUS
  <2>1. CASE \E a \in Agents : AgentStep(a)
    BY <2>1, AgentPromises
  <2>2. CASE UNCHANGED <<disk, pin>>
    BY <2>2 DEF IInv, PinsAgree
  <2>3. DeviceStep \/ (\E a \in Admins : AdminStep(a)) => UNCHANGED <<disk, pin>>
    BY DEF DeviceStep, AddDevice, DeleteDevice, Rekey, AdminStep, CmdLockInit, CmdLockSign,
           Command, InitReadPub, InitReadActive, InitClear, InitSet, StatusPub, StatusPending,
           SignPub, SignRows, SignStore, SignPending, SignActivate, DisablePub, DisableActive,
           agentVars
  <2> QED
    BY <2>1, <2>2, <2>3 DEF Next
<1> QED
  BY <1>1, InitInv, InvStep, PTL DEF Spec, PersistedPinSticks
=============================================================================
