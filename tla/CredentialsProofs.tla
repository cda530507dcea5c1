------------------------- MODULE CredentialsProofs -------------------------
(***************************************************************************)
(* Proofs about the credentials of a node and of the coordinator: the      *)
(* WireGuard key (KeyRotation), and the certificates and admin sessions    *)
(* (WebConsole).  The two share no state.                                  *)
(*                                                                         *)
(* KeyRotation: its type invariant and SettledKeysAgree, for any number of *)
(* keys, faults, offline commands and lock operations.                     *)
(*                                                                         *)
(* The argument: an accepted request of the loop has put its key into the  *)
(* row, and stays what the row says unless somebody else can write it; so  *)
(* the invariant follows who can, and which of the four copies already     *)
(* have the new key at each point of the loop.                             *)
(***************************************************************************)
EXTENDS KeyRotation, WebConsole, TLAPS

USE BoundsAssumption

\* A record of the state: the field updates of the loop and the command.
AnyState ==
  [key : Keys \union {NoKey}, age : {"unset", "fresh", "due"}, pin : BOOLEAN, auto : BOOLEAN]

\* A state is a record with a key; having none is the record with no key.
LEMMA StateType ==
  /\ State \subseteq AnyState /\ NoState \in AnyState /\ NoState \notin State
  /\ \A s \in AnyState : s # NoState /\ s.key \in Keys => s \in State
  /\ \A s \in State : s.key \in Keys /\ s # NoState
  /\ NoKey \notin Keys
BY DEF State, NoState, AnyState, Keys, NoKey

\* Sending a request (Send) leaves the requests well typed.
LEMMA SendType ==
  ASSUME TypeOK, NEW c \in Clients, NEW k \in Keys, NEW p \in Purposes, Send(c, k, p)
  PROVE  /\ req' \in [Clients -> [pc : {"none", "sent", "set", "bump", "ok", "err"},
                                  key : Keys \union {NoKey}, for : Purposes]]
         /\ req'[c].pc = "sent" /\ req'[c].key = k
         /\ \A d \in Clients \ {c} : req'[d] = req[d]
BY DEF TypeOK, Send

\* Init establishes the invariant: the daemon is stopped and nothing is sent.
LEMMA InitInv == Init => IInv
<1> SUFFICES ASSUME Init PROVE IInv
  OBVIOUS
<1>1. 1 \in Keys /\ NoKey \notin Keys
  BY DEF Keys, NoKey
<1>2. NoRequest \in [pc : {"none", "sent", "set", "bump", "ok", "err"},
                     key : Keys \union {NoKey}, for : Purposes]
  BY DEF NoRequest, Purposes
<1>3. disk \in State
  BY <1>1 DEF Init, State
<1>4. TypeOK
  <2>1. req \in [Clients -> [pc : {"none", "sent", "set", "bump", "ok", "err"},
                              key : Keys \union {NoKey}, for : Purposes]]
    BY <1>2 DEF Init
  <2>2. run <=> mem # NoState /\ dev # NoKey
    BY DEF Init
  <2>3. /\ sig \in BOOLEAN /\ locked \in BOOLEAN /\ run \in BOOLEAN /\ sock \in BOOLEAN
        /\ alone \in BOOLEAN /\ settled \in BOOLEAN
    BY DEF Init
  <2>4. /\ reg \in Keys /\ mem = NoState /\ cst = NoState /\ dev = NoKey /\ want = NoKey
        /\ rpc = "off" /\ cpc = "idle"
        /\ disturbances \in 0..MaxDisturbances
    BY <1>1 DEF Init
  <2> QED
    BY <1>3, <2>1, <2>2, <2>3, <2>4 DEF TypeOK
<1>5. RequestsOK /\ NobodyElse /\ LoopOK /\ SettledKeysAgree
  BY DEF Init, RequestsOK, NobodyElse, LoopOK, SettledKeysAgree, Live, NoRequest, Clients
<1> QED
  BY <1>4, <1>5 DEF IInv

-----------------------------------------------------------------------------
(* Steps of the coordinator.                                               *)

\* What a step that only moves the pc of one request on has to respect.
LEMMA RequestStep ==
  ASSUME IInv, NEW c \in Clients, NEW pc \in {"set", "bump", "ok", "err"},
         Live(c), req' = [req EXCEPT ![c].pc = pc],
         UNCHANGED <<disk, daemonVars, cmdVars, ghostVars, locked>>, sig' \in BOOLEAN,
         disturbances' \in 0..MaxDisturbances,
         reg' \in Keys,
         c \in {"stray", "cmd"} /\ Alone => reg' = reg,
         Unfinished(c)' => Unfinished(c),
         c = "loop" /\ pc \in {"bump", "ok"}
           => reg' = req[c].key \/ (req[c].pc \in {"bump", "ok"} /\ reg' = reg),
         pc \in {"set", "err"} => reg' = reg
  PROVE  IInv'
<1> DEFINE R == [pc : {"none", "sent", "set", "bump", "ok", "err"},
                 key : Keys \union {NoKey}, for : Purposes]
<1>1. /\ req \in [Clients -> R] /\ req' \in [Clients -> R]
      /\ req'[c].pc = pc /\ req'[c].key = req[c].key
      /\ \A d \in Clients \ {c} : req'[d] = req[d]
  BY DEF IInv, TypeOK
<1>2. TypeOK'
  BY <1>1 DEF IInv, TypeOK, daemonVars, cmdVars, ghostVars
<1>3. RequestsOK'
  BY <1>1 DEF IInv, RequestsOK, Live, daemonVars, cmdVars, Clients
<1>4. Alone => Alone' /\ (c = "cmd" => FALSE)
  BY <1>1 DEF IInv, RequestsOK, Live, Alone, Unfinished, cmdVars, Clients
<1>5. NobodyElse'
  BY <1>4 DEF IInv, NobodyElse, ghostVars
<1>6. c # "loop" /\ (alone \/ settled) => reg' = reg
  BY DEF IInv, NobodyElse, Clients
<1>7. c = "loop" => rpc \in {"asserting", "rotating"}
  BY DEF IInv, RequestsOK, Live
<1>8. ASSUME NEW k, k = mem.key \/ k = want, Reached(k)
      PROVE  /\ Live("loop")' => req'["loop"].key = k
             /\ alone' /\ req'["loop"].pc \in {"bump", "ok"} => reg' = k
  BY <1>1, <1>6, <1>8 DEF Reached, Live, ghostVars, Clients
<1>9. LoopOK'
  BY <1>1, <1>6, <1>7, <1>8 DEF IInv, LoopOK, Reached, Live, daemonVars, ghostVars
<1>10. SettledKeysAgree'
  BY <1>6, <1>7 DEF IInv, SettledKeysAgree, LoopOK, daemonVars, ghostVars
<1> QED
  BY <1>2, <1>3, <1>5, <1>9, <1>10 DEF IInv

\* Every step of a handler, and every error or timeout of a request.
LEMMA CoordinatorStep ==
  ASSUME IInv, NEW c \in Clients, HandlerStep(c) \/ RekeyError(c) \/ Timeout(c)
  PROVE  IInv'
<1> USE DEF coordVars
<1>0. reg \in Keys /\ disturbances \in 0..MaxDisturbances /\ sig \in BOOLEAN
  BY DEF IInv, TypeOK
<1>1. CASE RekeyRead(c)
  <2> DEFINE pc == IF reg = req[c].key THEN "ok" ELSE "set"
  <2>1. req' = [req EXCEPT ![c].pc = pc] /\ pc \in {"set", "bump", "ok", "err"}
    BY <1>1 DEF RekeyRead
  <2>2. Unfinished(c)' => Unfinished(c)
    BY <1>1 DEF RekeyRead, Unfinished
  <2> QED
    BY <1>0, <1>1, <2>1, <2>2, RequestStep DEF RekeyRead, Live
<1>2. CASE SetNodeKey(c)
  <2>1. req[c].key \in Keys /\ (Alone => c = "loop")
    BY <1>2 DEF SetNodeKey, IInv, RequestsOK, Live, Alone, Unfinished, Clients
  <2>2. Unfinished(c)
    BY <1>2 DEF SetNodeKey, Unfinished
  <2>3. /\ reg' = req[c].key
        /\ UNCHANGED <<disk, daemonVars, cmdVars, ghostVars, locked, disturbances>>
        /\ req' = [req EXCEPT ![c].pc = "bump"] /\ sig' = FALSE
    BY <1>2 DEF SetNodeKey
  <2> QED
    BY <1>0, <1>2, <2>1, <2>2, <2>3, RequestStep DEF SetNodeKey, Live
<1>3. CASE RekeyBump(c)
  <2>1. ~Unfinished(c)' \/ Unfinished(c)
    BY <1>3 DEF RekeyBump, Unfinished
  <2> QED
    BY <1>0, <1>3, <2>1, RequestStep DEF RekeyBump, Live
<1>4. CASE RekeyError(c)
  <2>1. ~Unfinished(c)' /\ disturbances' \in 0..MaxDisturbances
    BY <1>0, <1>4 DEF RekeyError, Unfinished, Disturb, IInv, TypeOK
  <2> QED
    BY <1>0, <1>4, <2>1, RequestStep DEF RekeyError, Live
<1>5. CASE Timeout(c)
  <2> DEFINE R == [pc : {"none", "sent", "set", "bump", "ok", "err"},
                   key : Keys \union {NoKey}, for : Purposes]
  <2>1. c \in Clients \ {"stray"} /\ Unfinished(c) /\ "stray" \in Clients
    BY <1>5 DEF Timeout, Clients
  <2>2. NoRequest \in R
    BY DEF NoRequest, Purposes
  <2>3. /\ req \in [Clients -> R] /\ req' \in [Clients -> R]
        /\ req'[c].pc = "err" /\ req'["stray"] = req[c]
        /\ \A d \in Clients \ {c, "stray"} : req'[d] = req[d]
    BY <1>5, <2>1, <2>2 DEF Timeout, Abandoned, IInv, TypeOK
  <2>4. alone' = FALSE /\ settled' = FALSE /\ disturbances' \in 0..MaxDisturbances
        /\ UNCHANGED <<coordVars, disk, daemonVars, cmdVars>>
    BY <1>0, <1>5 DEF Timeout, Disturb
  <2>5. TypeOK'
    <3>1. alone' \in BOOLEAN /\ settled' \in BOOLEAN
      BY <2>4
    <3> QED
      BY <2>3, <2>4, <3>1 DEF IInv, TypeOK, daemonVars, cmdVars
  <2>6. RequestsOK'
    BY <2>1, <2>3, <2>4 DEF IInv, RequestsOK, Live, Unfinished, daemonVars, cmdVars, Clients
  <2>7. LoopOK' /\ NobodyElse' /\ SettledKeysAgree'
    BY <2>1, <2>3, <2>4
    DEF IInv, LoopOK, NobodyElse, SettledKeysAgree, Reached, Live, daemonVars, Clients
  <2> QED
    BY <2>5, <2>6, <2>7 DEF IInv
<1> QED
  BY <1>1, <1>2, <1>3, <1>4, <1>5 DEF HandlerStep

\* An abandoned request ends, or the administrator changes the lock.
LEMMA StrayLockStep ==
  ASSUME IInv, StrayDone \/ LockSign \/ LockDisable
  PROVE  IInv'
<1>1. CASE StrayDone
  <2> DEFINE R == [pc : {"none", "sent", "set", "bump", "ok", "err"},
                   key : Keys \union {NoKey}, for : Purposes]
  <2>1. /\ req \in [Clients -> R] /\ req' \in [Clients -> R]
        /\ req'["stray"].pc = "none"
        /\ \A d \in Clients \ {"stray"} : req'[d] = req[d]
    BY <1>1 DEF StrayDone, IInv, TypeOK, NoRequest, Purposes, Clients
  <2>2. UNCHANGED <<coordVars, disk, daemonVars, cmdVars, ghostVars, disturbances>>
    BY <1>1 DEF StrayDone
  <2>3. TypeOK'
    BY <2>1, <2>2 DEF IInv, TypeOK, coordVars, daemonVars, cmdVars, ghostVars
  <2>4. RequestsOK' /\ NobodyElse' /\ LoopOK' /\ SettledKeysAgree'
    BY <2>1, <2>2
    DEF IInv, RequestsOK, NobodyElse, LoopOK, SettledKeysAgree, Reached, Live, Alone,
        Unfinished, coordVars, daemonVars, cmdVars, ghostVars, Clients
  <2> QED
    BY <2>3, <2>4 DEF IInv
<1>2. CASE LockSign \/ LockDisable
  <2>1. /\ UNCHANGED <<reg, req, disk, daemonVars, cmdVars, ghostVars>>
        /\ sig' \in BOOLEAN /\ locked' \in BOOLEAN /\ disturbances' \in 0..MaxDisturbances
    <3>1. locked \in BOOLEAN /\ sig \in BOOLEAN /\ disturbances \in 0..MaxDisturbances
      BY DEF IInv, TypeOK
    <3>2. CASE LockSign
      BY <3>1, <3>2 DEF LockSign, Disturb
    <3>3. CASE LockDisable
      <4>1. locked' = FALSE /\ disturbances' = disturbances + 1 /\ disturbances < MaxDisturbances
            /\ UNCHANGED <<reg, sig, req, disk, daemonVars, cmdVars, ghostVars>>
        BY <3>3 DEF LockDisable, Disturb
      <4>2. disturbances' \in 0..MaxDisturbances
        BY <3>1, <4>1
      <4>3. locked' \in BOOLEAN /\ sig' \in BOOLEAN
        BY <3>1, <4>1
      <4> QED
        BY <4>1, <4>2, <4>3
    <3> QED
      BY <1>2, <3>2, <3>3
  <2>2. TypeOK'
    BY <2>1 DEF IInv, TypeOK, daemonVars, cmdVars, ghostVars
  <2>3. RequestsOK' /\ NobodyElse' /\ LoopOK' /\ SettledKeysAgree'
    BY <2>1
    DEF IInv, RequestsOK, NobodyElse, LoopOK, SettledKeysAgree, Reached, Live, Alone,
        Unfinished, daemonVars, cmdVars, ghostVars
  <2> QED
    BY <2>2, <2>3 DEF IInv
<1> QED
  BY <1>1, <1>2

-----------------------------------------------------------------------------
(* Steps of the daemon.                                                    *)

\* Start, stop and the steps of the other goroutines.
LEMMA DaemonStep ==
  ASSUME IInv, Start \/ ServeLocalAPI \/ Stop \/ ApplyNetmap \/ Expire
  PROVE  IInv'
<1> USE DEF coordVars, cmdVars, ghostVars
<1>0. /\ TypeOK /\ RequestsOK /\ NobodyElse /\ LoopOK /\ SettledKeysAgree
      /\ disk \in State /\ mem \in AnyState /\ disk \in AnyState
      /\ run => mem \in State
  BY StateType DEF IInv, TypeOK
<1>1. CASE Start
  <2>1. /\ run' = TRUE /\ mem' = disk /\ dev' = disk.key /\ rpc' = "start" /\ ~run
        /\ UNCHANGED <<reg, sig, locked, req, disk, sock, want, cpc, cst, alone, settled,
                       disturbances>>
    BY <1>1 DEF Start
  <2>2. rpc = "off"
    BY <1>0, <2>1 DEF RequestsOK
  <2>3. dev' \in Keys /\ mem' \in State /\ mem' # NoState /\ dev' # NoKey
    BY <1>0, <2>1, StateType
  <2>4. TypeOK'
    BY <1>0, <2>1, <2>3 DEF TypeOK
  <2>5. RequestsOK' /\ NobodyElse' /\ LoopOK' /\ SettledKeysAgree'
    BY <1>0, <2>1, <2>2
    DEF RequestsOK, NobodyElse, LoopOK, SettledKeysAgree, Live, Alone, Unfinished
  <2> QED
    BY <2>4, <2>5 DEF IInv
<1>2. CASE ServeLocalAPI
  <2>1. /\ sock' = TRUE
        /\ UNCHANGED <<reg, sig, locked, req, disk, run, mem, dev, rpc, want, cpc, cst,
                       alone, settled, disturbances>>
    BY <1>2 DEF ServeLocalAPI
  <2>2. sock' \in BOOLEAN
    BY <2>1
  <2>3. TypeOK'
    BY <1>0, <2>1, <2>2 DEF TypeOK
  <2>4. RequestsOK' /\ NobodyElse' /\ LoopOK' /\ SettledKeysAgree'
    BY <1>0, <2>1
    DEF RequestsOK, NobodyElse, LoopOK, SettledKeysAgree, Reached, Live, Alone, Unfinished
  <2> QED
    BY <2>3, <2>4 DEF IInv
<1>3. CASE Stop
  <2> DEFINE R == [pc : {"none", "sent", "set", "bump", "ok", "err"},
                   key : Keys \union {NoKey}, for : Purposes]
  <2>1. /\ run' = FALSE /\ sock' = FALSE /\ rpc' = "off" /\ want' = NoKey
        /\ mem' = NoState /\ dev' = NoKey /\ alone' = FALSE /\ settled' = FALSE
        /\ UNCHANGED <<reg, sig, locked, disk, cpc, cst>>
    BY <1>3 DEF Stop
  <2>2. disturbances' \in 0..MaxDisturbances
    BY <1>0, <1>3 DEF Stop, Disturb, TypeOK
  <2>3. NoRequest \in R /\ {"loop", "cmd", "stray"} \subseteq Clients
    BY DEF NoRequest, Purposes, Clients
  <2>4. /\ req' \in [Clients -> R] /\ req'["loop"].pc = "none" /\ req'["cmd"] = req["cmd"]
        /\ req'["stray"] \in {req["stray"], req["loop"]}
    BY <1>0, <1>3, <2>3 DEF Stop, Abandoned, TypeOK, NoRequest
  <2>5. /\ run' \in BOOLEAN /\ sock' \in BOOLEAN /\ alone' \in BOOLEAN /\ settled' \in BOOLEAN
        /\ (run' <=> mem' # NoState /\ dev' # NoKey)
    BY <2>1
  <2>6. TypeOK'
    BY <1>0, <2>1, <2>2, <2>4, <2>5 DEF TypeOK
  <2>7. RequestsOK' /\ NobodyElse' /\ LoopOK' /\ SettledKeysAgree'
    BY <1>0, <2>1, <2>4
    DEF RequestsOK, NobodyElse, LoopOK, SettledKeysAgree, Live, Clients
  <2> QED
    BY <2>6, <2>7 DEF IInv
<1>4. CASE ApplyNetmap \/ Expire
  <2>1. /\ UNCHANGED <<reg, sig, locked, req, run, dev, sock, rpc, want, cpc, cst,
                       alone, settled, disturbances>>
        /\ mem' \in AnyState /\ mem'.key = mem.key
        /\ disk' \in State
        /\ mem' = NoState <=> mem = NoState
    <3>1. CASE ApplyNetmap
      <4>1. run /\ mem' = [mem EXCEPT !.pin = mem.pin \/ locked] /\ disk' = mem'
        BY <3>1 DEF ApplyNetmap
      <4>2. mem \in State /\ (mem.pin \/ locked) \in BOOLEAN
        BY <1>0, <4>1 DEF TypeOK
      <4>3. mem' \in State /\ mem'.key = mem.key
        BY <4>1, <4>2 DEF State
      <4> QED
        BY <3>1, <4>1, <4>2, <4>3, StateType DEF ApplyNetmap
    <3>2. CASE Expire
      <4>1. /\ mem' = Aged(mem) /\ disk' = Aged(disk)
            /\ \A t \in AnyState : Aged(t) \in AnyState /\ Aged(t).key = t.key
        BY <3>2 DEF Expire, Aged, AnyState
      <4>2. \A t \in State : Aged(t) \in State
        BY DEF Aged, State
      <4>3. mem = NoState => mem' = NoState
        <5>1. NoState.age # "fresh" /\ NoState \in AnyState
          BY StateType DEF NoState
        <5>2. \A t \in AnyState : t.age # "fresh" => Aged(t) = t
          BY DEF Aged, AnyState
        <5> QED
          BY <4>1, <5>1, <5>2
      <4>4. mem' = NoState => mem = NoState
        <5>1. mem \in State => mem' \in State
          BY <4>1, <4>2
        <5> QED
          BY <1>0, <5>1, StateType DEF TypeOK
      <4> QED
        BY <1>0, <3>2, <4>1, <4>2, <4>3, <4>4 DEF Expire
    <3> QED
      BY <1>4, <3>1, <3>2
  <2>2. mem' \in State \union {NoState}
    BY <1>0, <2>1, StateType DEF TypeOK
  <2>3. TypeOK'
    BY <1>0, <2>1, <2>2 DEF TypeOK
  <2>4. RequestsOK' /\ NobodyElse' /\ LoopOK' /\ SettledKeysAgree'
    BY <1>0, <2>1
    DEF RequestsOK, NobodyElse, LoopOK, SettledKeysAgree, Reached, Live, Alone, Unfinished
  <2> QED
    BY <2>3, <2>4 DEF IInv
<1> QED
  BY <1>1, <1>2, <1>3, <1>4

\* The steps of rekeyLoop, from the re-assert to the device.
LEMMA RekeyLoopStep ==
  ASSUME IInv, LoopStep
  PROVE  IInv'
<1> DEFINE R == [pc : {"none", "sent", "set", "bump", "ok", "err"},
                 key : Keys \union {NoKey}, for : Purposes]
<1> USE DEF coordVars, cmdVars
<1>0. /\ TypeOK /\ RequestsOK /\ NobodyElse /\ LoopOK /\ SettledKeysAgree
      /\ req \in [Clients -> R] /\ NoRequest \in R
      /\ {"loop", "cmd", "stray"} \subseteq Clients
  BY DEF IInv, TypeOK, NoRequest, Purposes, Clients
<1>1. rpc # "off" => run /\ mem \in State /\ mem.key \in Keys /\ dev \in Keys
  BY <1>0, StateType DEF TypeOK, RequestsOK
<1>2. CASE Reassert
  <2>1. /\ rpc = "start" /\ rpc' = "asserting" /\ alone' = Alone
        /\ Send("loop", mem.key, "assert")
        /\ UNCHANGED <<reg, sig, locked, run, sock, cpc, cst,
                       disk, mem, dev, want, settled, disturbances>>
    BY <1>2 DEF Reassert, LoopFrame
  <2>2. /\ req' \in [Clients -> R] /\ req'["loop"].pc = "sent"
        /\ req'["loop"].key = mem.key
        /\ \A d \in Clients \ {"loop"} : req'[d] = req[d]
    BY <1>0, <1>1, <2>1, SendType DEF Purposes
  <2>3. alone' \in BOOLEAN /\ (Alone <=> Alone')
    BY <1>0, <2>1, <2>2 DEF Alone, Unfinished
  <2>4. TypeOK'
    BY <1>0, <2>1, <2>2, <2>3 DEF TypeOK
  <2>5. RequestsOK' /\ NobodyElse' /\ LoopOK' /\ SettledKeysAgree'
    BY <1>0, <1>1, <2>1, <2>2, <2>3
    DEF RequestsOK, NobodyElse, LoopOK, SettledKeysAgree, Reached, Live, Clients
  <2> QED
    BY <2>4, <2>5 DEF IInv
<1>3. CASE ReassertReply
  <2>1. /\ rpc = "asserting" /\ rpc' = "stamp" /\ settled' = (req["loop"].pc = "ok" /\ alone)
        /\ req' = [req EXCEPT !["loop"] = NoRequest]
        /\ UNCHANGED <<reg, sig, locked, run, sock, cpc, cst,
                       disk, mem, dev, want, alone, disturbances>>
    BY <1>3 DEF ReassertReply, LoopFrame
  <2>2. /\ req' \in [Clients -> R] /\ req'["loop"].pc = "none"
        /\ \A d \in Clients \ {"loop"} : req'[d] = req[d]
    BY <1>0, <2>1 DEF NoRequest
  <2>3. settled' \in BOOLEAN /\ (settled' => alone /\ req["loop"].pc = "ok")
    BY <2>1
  <2>4. TypeOK'
    BY <1>0, <2>1, <2>2, <2>3 DEF TypeOK
  <2>5. RequestsOK' /\ NobodyElse' /\ LoopOK' /\ SettledKeysAgree'
    BY <1>0, <1>1, <2>1, <2>2, <2>3
    DEF RequestsOK, NobodyElse, LoopOK, SettledKeysAgree, Reached, Live, Alone, Unfinished, Clients
  <2> QED
    BY <2>4, <2>5 DEF IInv
<1>4. CASE Stamp
  <2>1. /\ rpc = "stamp" /\ rpc' = "check"
        /\ mem' = [mem EXCEPT !.age = IF mem.age = "unset" THEN "fresh" ELSE mem.age]
        /\ disk' \in {disk, mem'}
        /\ UNCHANGED <<reg, sig, locked, run, sock, cpc, cst,
                       req, dev, want, alone, settled>>
    BY <1>4 DEF Stamp, LoopFrame, ghostVars
  <2>2. mem' \in State /\ mem'.key = mem.key /\ disk' \in State /\ mem' # NoState
    BY <1>0, <1>1, <2>1, StateType DEF State, TypeOK
  <2>3. disturbances' \in 0..MaxDisturbances
    BY <1>0, <1>4 DEF Stamp, Disturb, TypeOK
  <2>4. TypeOK'
    BY <1>0, <1>1, <2>1, <2>2, <2>3, StateType DEF TypeOK
  <2>5. RequestsOK' /\ NobodyElse' /\ LoopOK' /\ SettledKeysAgree'
    BY <1>0, <2>1, <2>2
    DEF RequestsOK, NobodyElse, LoopOK, SettledKeysAgree, Live, Alone, Unfinished
  <2> QED
    BY <2>4, <2>5 DEF IInv
<1>5. CASE Check
  <2>1. /\ rpc = "check" /\ rpc' = "rotate"
        /\ UNCHANGED <<reg, sig, locked, run, sock, cpc, cst,
                       req, disk, mem, dev, want, alone, settled, disturbances>>
    BY <1>5 DEF Check, LoopFrame, ghostVars
  <2>2. TypeOK'
    BY <1>0, <2>1 DEF TypeOK
  <2>3. RequestsOK' /\ NobodyElse' /\ LoopOK' /\ SettledKeysAgree'
    BY <1>0, <2>1
    DEF RequestsOK, NobodyElse, LoopOK, SettledKeysAgree, Live, Alone, Unfinished
  <2> QED
    BY <2>2, <2>3 DEF IInv
<1>6. CASE Rotate
  <2>1. PICK k \in Keys : want' = k /\ Send("loop", k, "rotate")
    BY <1>6 DEF Rotate
  <2>2. /\ rpc = "rotate" /\ rpc' = "rotating" /\ settled' = FALSE /\ alone' = Alone
        /\ UNCHANGED <<reg, sig, locked, run, sock, cpc, cst,
                       disk, mem, dev, disturbances>>
    BY <1>6 DEF Rotate, LoopFrame
  <2>3. /\ req' \in [Clients -> R] /\ req'["loop"].pc = "sent"
        /\ req'["loop"].key = k
        /\ \A d \in Clients \ {"loop"} : req'[d] = req[d]
    BY <1>0, <2>1, SendType DEF Purposes
  <2>4. alone' \in BOOLEAN /\ settled' \in BOOLEAN /\ (Alone <=> Alone')
    BY <1>0, <2>2, <2>3 DEF Alone, Unfinished
  <2>5. TypeOK'
    BY <1>0, <2>1, <2>2, <2>3, <2>4 DEF TypeOK
  <2>6. RequestsOK' /\ NobodyElse' /\ LoopOK' /\ SettledKeysAgree'
    BY <1>0, <1>1, <2>1, <2>2, <2>3, <2>4
    DEF RequestsOK, NobodyElse, LoopOK, SettledKeysAgree, Reached, Live, Clients
  <2> QED
    BY <2>5, <2>6 DEF IInv
<1>7. CASE RotateReply
  <2>1. /\ rpc = "rotating" /\ req' = [req EXCEPT !["loop"] = NoRequest]
        /\ \/ req["loop"].pc = "ok" /\ rpc' = "record" /\ want' = want
           \/ rpc' = "check" /\ want' = NoKey
        /\ UNCHANGED <<reg, sig, locked, run, sock, cpc, cst,
                       disk, mem, dev, alone, settled, disturbances>>
    BY <1>7 DEF RotateReply, LoopFrame, ghostVars
  <2>2. /\ req' \in [Clients -> R] /\ req'["loop"].pc = "none"
        /\ \A d \in Clients \ {"loop"} : req'[d] = req[d]
    BY <1>0, <2>1 DEF NoRequest
  <2>3. TypeOK'
    BY <1>0, <2>1, <2>2 DEF TypeOK
  <2>4. RequestsOK' /\ NobodyElse' /\ LoopOK' /\ SettledKeysAgree'
    BY <1>0, <1>1, <2>1, <2>2
    DEF RequestsOK, NobodyElse, LoopOK, SettledKeysAgree, Reached, Live, Alone, Unfinished, Clients
  <2> QED
    BY <2>3, <2>4 DEF IInv
<1>8. CASE Record
  <2>1. /\ rpc = "record" /\ mem' = [mem EXCEPT !.key = want, !.age = "fresh"]
        /\ \/ rpc' = "device" /\ want' = want
           \/ rpc' = "check" /\ want' = NoKey
        /\ disk' \in {disk, mem'}
        /\ UNCHANGED <<reg, sig, locked, run, sock, cpc, cst,
                       req, dev, alone, settled>>
    BY <1>8 DEF Record, LoopFrame, ghostVars
  <2>2. want \in Keys /\ ~settled
    BY <1>0, <2>1 DEF RequestsOK, LoopOK
  <2>3. mem' \in State /\ mem'.key = want /\ disk' \in State /\ mem' # NoState
    <3>1. mem \in AnyState
      BY <1>0, StateType DEF TypeOK
    <3>2. mem' \in State /\ mem'.key = want
      BY <2>1, <2>2, <3>1 DEF State, AnyState
    <3>3. disk' \in State
      BY <1>0, <2>1, <3>2 DEF TypeOK
    <3> QED
      BY <3>2, <3>3, StateType
  <2>4. disturbances' \in 0..MaxDisturbances
    BY <1>0, <1>8 DEF Record, Disturb, TypeOK
  <2>5. TypeOK'
    BY <1>0, <1>1, <2>1, <2>3, <2>4, StateType DEF TypeOK
  <2>6. RequestsOK' /\ NobodyElse' /\ LoopOK' /\ SettledKeysAgree'
    BY <1>0, <1>1, <2>1, <2>2, <2>3
    DEF RequestsOK, NobodyElse, LoopOK, SettledKeysAgree, Live, Alone, Unfinished
  <2> QED
    BY <2>5, <2>6 DEF IInv
<1>9. CASE SetPrivateKey
  <2>1. /\ rpc = "device" /\ rpc' = "check" /\ want' = NoKey
        /\ \/ dev' = want /\ settled' = alone
           \/ dev' = dev /\ settled' = settled
        /\ UNCHANGED <<reg, sig, locked, run, sock, cpc, cst,
                       req, disk, mem, alone>>
    BY <1>9 DEF SetPrivateKey, LoopFrame
  <2>2. want \in Keys /\ ~settled
    BY <1>0, <2>1 DEF RequestsOK, LoopOK
  <2>3. disturbances' \in 0..MaxDisturbances
    BY <1>0, <1>9 DEF SetPrivateKey, Disturb, TypeOK
  <2>4. dev' \in Keys /\ dev' # NoKey /\ settled' \in BOOLEAN
    BY <1>0, <1>1, <2>1, <2>2, StateType DEF TypeOK
  <2>5. TypeOK'
    BY <1>0, <1>1, <2>1, <2>3, <2>4, StateType DEF TypeOK
  <2>6. RequestsOK' /\ NobodyElse' /\ LoopOK' /\ SettledKeysAgree'
    BY <1>0, <1>1, <2>1, <2>2
    DEF RequestsOK, NobodyElse, LoopOK, SettledKeysAgree, Live, Alone, Unfinished
  <2> QED
    BY <2>5, <2>6 DEF IInv
<1>10. CASE CheckIdle
  BY <1>10
  DEF CheckIdle, vars, IInv, TypeOK, RequestsOK, NobodyElse, LoopOK, SettledKeysAgree,
      Reached, Live, Alone, Unfinished, daemonVars, ghostVars
<1> QED
  BY <1>2, <1>3, <1>4, <1>5, <1>6, <1>7, <1>8, <1>9, <1>10 DEF LoopStep

-----------------------------------------------------------------------------
(* Steps of the offline command.                                           *)

\* A dialled command ends what the loop could rely on; its other steps find
\* the loop neither alone nor settled.
LEMMA CommandStep ==
  ASSUME IInv, CmdDial \/ CmdStep
  PROVE  IInv'
<1> DEFINE R == [pc : {"none", "sent", "set", "bump", "ok", "err"},
                 key : Keys \union {NoKey}, for : Purposes]
<1> USE DEF coordVars, daemonVars
<1>0. /\ TypeOK /\ RequestsOK /\ NobodyElse /\ LoopOK /\ SettledKeysAgree
      /\ req \in [Clients -> R] /\ NoRequest \in R
      /\ {"loop", "cmd", "stray"} \subseteq Clients
  BY DEF IInv, TypeOK, NoRequest, Purposes, Clients
<1>1. CASE CmdDial
  <2>1. /\ cpc = "idle" /\ cpc' = "load" /\ alone' = FALSE /\ settled' = FALSE
        /\ disturbances < MaxDisturbances /\ disturbances' = disturbances + 1
        /\ UNCHANGED <<reg, sig, locked, run, mem, dev, sock, rpc, want, req, disk,
                       cst>>
    BY <1>1 DEF CmdDial, CmdFrame, Disturb
  <2>2. alone' \in BOOLEAN /\ settled' \in BOOLEAN /\ disturbances' \in 0..MaxDisturbances
    <3>1. disturbances \in 0..MaxDisturbances
      BY <1>0 DEF TypeOK
    <3>2. disturbances' \in 0..MaxDisturbances
      BY <2>1, <3>1
    <3> QED
      BY <2>1, <3>2
  <2>3. TypeOK'
    BY <1>0, <2>1, <2>2 DEF TypeOK
  <2>4. RequestsOK' /\ NobodyElse' /\ LoopOK' /\ SettledKeysAgree'
    BY <1>0, <2>1 DEF RequestsOK, NobodyElse, LoopOK, SettledKeysAgree, Reached, Live
  <2> QED
    BY <2>3, <2>4 DEF IInv
<1>2. CASE CmdStep
  <2>0. cpc # "idle"
    BY <1>2 DEF CmdStep, CmdLoad, RotateStateKey, CmdReply, CmdSave
  <2>1. alone = FALSE /\ settled = FALSE
    <3>1. ~(alone \/ settled)
      BY <1>0, <2>0 DEF NobodyElse, Alone
    <3>2. alone \in BOOLEAN /\ settled \in BOOLEAN
      BY <1>0 DEF TypeOK
    <3> QED
      BY <3>1, <3>2
  <2>2. UNCHANGED <<reg, sig, locked, run, mem, dev, sock, rpc, want, alone, settled>>
    BY <1>2 DEF CmdStep, CmdLoad, RotateStateKey, CmdReply, CmdSave, CmdFrame, ghostVars
  <2>3. /\ cpc' \in {"idle", "load", "send", "sent", "save"}
        /\ cst' \in State \union {NoState} /\ disk' \in State /\ disturbances' \in 0..MaxDisturbances
        /\ req' \in [Clients -> R]
        /\ \A c \in Clients \ {"cmd"} : req'[c] = req[c]
        /\ cpc' # "sent" => req'["cmd"].pc = "none"
        /\ Live("cmd")' => req'["cmd"].key \in Keys
        /\ cpc' \in {"send", "sent", "save"} => cst' \in State
    <3>0. /\ cst \in State \union {NoState} /\ disk \in State /\ disturbances \in 0..MaxDisturbances
          /\ cpc \in {"send", "sent", "save"} => cst \in State
          /\ cpc # "sent" => req["cmd"].pc = "none"
      BY <1>0 DEF TypeOK, RequestsOK
    <3>1. CASE CmdLoad
      BY <1>0, <3>0, <3>1 DEF CmdLoad, Live
    <3>2. CASE RotateStateKey
      <4>1. PICK k \in Keys : Send("cmd", k, "cmd")
        BY <3>2 DEF RotateStateKey
      <4>2. /\ req' \in [Clients -> R] /\ req'["cmd"].key = k
            /\ \A c \in Clients \ {"cmd"} : req'[c] = req[c]
        BY <1>0, <4>1, SendType DEF Purposes
      <4> QED
        BY <3>0, <3>2, <4>2 DEF RotateStateKey
    <3>3. CASE CmdReply
      <4>1. /\ req' = [req EXCEPT !["cmd"] = NoRequest] /\ cpc = "sent"
            /\ UNCHANGED <<disk, disturbances>>
            /\ \/ /\ cpc' = "save" /\ req["cmd"].pc = "ok"
                  /\ cst' = [cst EXCEPT !.key = req["cmd"].key, !.age = "fresh"]
               \/ cpc' = "idle" /\ cst' = NoState
        BY <3>3 DEF CmdReply
      <4>2. /\ req' \in [Clients -> R] /\ req'["cmd"].pc = "none"
            /\ \A c \in Clients \ {"cmd"} : req'[c] = req[c]
        BY <1>0, <4>1 DEF NoRequest
      <4>3. cpc' = "save" => req["cmd"].key \in Keys
        BY <1>0, <4>1 DEF RequestsOK, Live
      <4>4. cpc' = "save" => cst' \in State
        BY <3>0, <4>1, <4>3 DEF State
      <4> QED
        BY <3>0, <4>1, <4>2, <4>4 DEF Live
    <3>4. CASE CmdSave
      BY <1>0, <3>0, <3>4 DEF CmdSave, Disturb, Live
    <3> QED
      BY <1>2, <3>1, <3>2, <3>3, <3>4 DEF CmdStep
  <2>4. TypeOK'
    BY <1>0, <2>2, <2>3 DEF TypeOK
  <2>5. RequestsOK' /\ NobodyElse' /\ LoopOK' /\ SettledKeysAgree'
    BY <1>0, <2>1, <2>2, <2>3
    DEF RequestsOK, NobodyElse, LoopOK, SettledKeysAgree, Reached, Live, Clients
  <2> QED
    BY <2>4, <2>5 DEF IInv
<1> QED
  BY <1>1, <1>2

-----------------------------------------------------------------------------
\* Every step keeps the invariant.
LEMMA InvStep == IInv /\ [Next]_vars => IInv'
<1> SUFFICES ASSUME IInv, [Next]_vars
             PROVE  IInv'
  OBVIOUS
<1>1. CASE UNCHANGED vars
  BY <1>1
  DEF vars, IInv, TypeOK, RequestsOK, NobodyElse, LoopOK, SettledKeysAgree, Reached, Live,
      Alone, Unfinished, coordVars, cmdVars, daemonVars, ghostVars
<1> QED
  BY <1>1, CoordinatorStep, StrayLockStep, DaemonStep, RekeyLoopStep, CommandStep DEF Next

\* The inductive invariant, and with it the types, holds in every state.
THEOREM KeysInductive == Spec => []IInv
BY InitInv, InvStep, PTL DEF Spec

\* After an accepted re-assert or rotation with nobody else about, the row, the
\* daemon and the device have one key until the next rotation, for any number of
\* faults, stops and commands before and after (rekey.go, "whatever step dies").
THEOREM KeysSettle == Spec => []SettledKeysAgree
<1>1. IInv => SettledKeysAgree
  BY DEF IInv
<1> QED
  BY <1>1, KeysInductive, PTL

-----------------------------------------------------------------------------
(***************************************************************************)
(* WebConsole: its types, PinsStayValid, UIHasPair, RefusedForGood and     *)
(* SessionsKept, for any sessions, any lifetime of theirs and any number   *)
(* of renewals, crashes and errors.                                        *)
(*                                                                         *)
(* The argument: no agent is shown anything before both files of the own   *)
(* pair are there, and a start writes them again only after a stat that    *)
(* failed, which puts the pair among the missed ones first; what a reload  *)
(* finds is a pair that was issued, or nothing that loads; a session that  *)
(* was refused has left the map, and its id does not come again.           *)
(***************************************************************************)
USE ConsoleAssumption

\* ConsoleInit establishes the invariant.
LEMMA ConsoleInitInv == ConsoleInit => ConsoleInv
<1> SUFFICES ASSUME ConsoleInit PROVE ConsoleInv
  OBVIOUS
<1>1. FileTypes
  BY DEF ConsoleInit, FileTypes, Pairs, None, Torn
<1>2. ProcessTypes
  BY DEF ConsoleInit, ProcessTypes, Pairs, None, Torn
<1>3. DOMAIN sessions = {} /\ sessions \in [DOMAIN sessions -> Nat]
  BY DEF ConsoleInit
<1>4. SessionTypes /\ SessionsApart
  BY <1>3 DEF ConsoleInit, SessionTypes, SessionsApart
<1>5. OwnPair /\ UIPairs /\ UIHasPair
  BY DEF ConsoleInit, OwnPair, UIPairs, UIHasPair, None, Torn
<1> QED
  BY <1>1, <1>2, <1>4, <1>5 DEF ConsoleInv, ConsoleTypeOK

\* What the process, its files and its pairs satisfy, sessions apart.
ProcessInv == FileTypes /\ ProcessTypes /\ OwnPair /\ UIPairs /\ UIHasPair

SessionInv == SessionTypes /\ SessionsApart

LEMMA ConsoleSplit == ConsoleInv <=> ProcessInv /\ SessionInv
BY DEF ConsoleInv, ConsoleTypeOK, ProcessInv, SessionInv

\* A file or a pair is never both complete and torn or absent.
LEMMA PairFacts ==
  /\ None \notin Pairs /\ Torn \notin Pairs /\ None # Torn
  /\ 1..(1 + MaxRenewals) \subseteq Pairs
  /\ \A n \in 0..MaxFaults : n + 1 \in Pairs
BY DEF None, Torn, Pairs

-----------------------------------------------------------------------------
(* The process starts, reloads, and dies.                                  *)

\* LoadOrCreateCert and the two writes: whatever is overwritten, the agents that were
\* shown it lost it to a failed stat.
LEMMA StartInv ==
  ASSUME ProcessInv, LoadOrCreateCert \/ WriteCert \/ WriteKey
  PROVE  ProcessInv'
<1> USE DEF ProcessInv
<1>1. CASE LoadOrCreateCert
  <2>1. FileTypes'
    BY <1>1 DEF LoadOrCreateCert, FileTypes, diskVars, uiVars
  <2>2. ProcessTypes'
    BY <1>1 DEF LoadOrCreateCert, Serve, Matches, Fault, ProcessTypes, diskVars, uiVars
  <2>3. OwnPair'
    BY <1>1, PairFacts DEF LoadOrCreateCert, Serve, Matches, Fault, OwnPair, ProcessTypes,
                           diskVars, uiVars
  <2>4. UIPairs' /\ UIHasPair'
    BY <1>1 DEF LoadOrCreateCert, Serve, Matches, UIPairs, UIHasPair, diskVars, uiVars
  <2> QED
    BY <2>1, <2>2, <2>3, <2>4
<1>2. CASE WriteCert
  <2>1. crt' \in Pairs
    BY <1>2, PairFacts DEF WriteCert, ProcessTypes
  <2>2. FileTypes' /\ ProcessTypes'
    BY <1>2, <2>1 DEF WriteCert, FileTypes, ProcessTypes, uiVars, reloadVars
  <2>3. OwnPair' /\ UIPairs' /\ UIHasPair'
    BY <1>2, <2>1 DEF WriteCert, OwnPair, UIPairs, UIHasPair, uiVars, reloadVars
  <2> QED
    BY <2>2, <2>3
<1>3. CASE WriteKey
  <2>1. crt \in Pairs
    BY <1>3 DEF WriteKey, OwnPair
  <2>2. FileTypes' /\ ProcessTypes'
    BY <1>3, <2>1 DEF WriteKey, Serve, FileTypes, ProcessTypes, uiVars
  <2>3. OwnPair' /\ UIPairs' /\ UIHasPair'
    BY <1>3, <2>1, PairFacts DEF WriteKey, Serve, Matches, OwnPair, UIPairs, UIHasPair, uiVars
  <2> QED
    BY <2>2, <2>3
<1> QED
  BY <1>1, <1>2, <1>3

\* A crash may tear the file that is being written, not one that agents rely on.
LEMMA CrashInv == ASSUME ProcessInv, Crash PROVE ProcessInv'
<1> USE DEF ProcessInv
<1>1. FileTypes' /\ ProcessTypes'
  <2>1. {crt', key'} \subseteq Pairs \union {None, Torn}
    BY DEF Crash, FileTypes
  <2>2. UNCHANGED uiVars
    BY DEF Crash
  <2>3. FileTypes'
    BY <2>1, <2>2 DEF FileTypes, uiVars
  <2>4. ProcessTypes'
    <3>1. /\ proc' = "down" /\ rl' = "idle" /\ fp' = None /\ loaded' = None /\ cert' = None
          /\ due' \in BOOLEAN /\ statTime' = 0 /\ modTime' = 0
          /\ pinned' = pinned /\ missed' = missed /\ faults' \in 0..MaxFaults
      BY DEF Crash, Fault, ProcessTypes
    <3>2. uiCert'.mtime \in Nat
      BY <2>2 DEF FileTypes, uiVars
    <3> QED
      BY <3>1, <3>2 DEF ProcessTypes
  <2> QED
    BY <2>3, <2>4
<1>2. OwnPair'
  BY DEF Crash, OwnPair, Matches
<1>3. UIPairs' /\ UIHasPair'
  BY DEF Crash, UIPairs, UIHasPair, uiVars
<1> QED
  BY <1>1, <1>2, <1>3

\* A reload serves what loads, and that was issued.
LEMMA ReloadInv ==
  ASSUME ProcessInv, Reload \/ GetCertificate \/ IntervalPasses
  PROVE  ProcessInv'
<1> USE DEF ProcessInv
<1>1. CASE GetCertificate \/ IntervalPasses \/ ReloadStat \/ ReloadCert
  <2>1. /\ UNCHANGED <<diskVars, uiVars, proc, fp, cert, modTime, pinned, missed, faults>>
        /\ due' \in BOOLEAN /\ rl' \in {"idle", "stat", "cert", "key"}
        /\ statTime' \in {statTime, uiCert.mtime} /\ loaded' \in {loaded, uiCert.pair}
        /\ rl' # "idle" => rl # "idle" \/ proc = "up"
    BY <1>1 DEF GetCertificate, IntervalPasses, ReloadStat, ReloadCert, ProcessTypes
  <2>2. uiCert.mtime \in Nat /\ uiCert.pair \in Pairs \union {Torn}
    BY DEF FileTypes
  <2>3. FileTypes' /\ uiCert' = uiCert
    BY <2>1 DEF FileTypes, diskVars, uiVars
  <2>4. ProcessTypes'
    BY <2>1, <2>2, <2>3 DEF ProcessTypes
  <2>5. OwnPair'
    BY <2>1 DEF OwnPair, Matches, diskVars
  <2>6. UIPairs' /\ UIHasPair'
    BY <2>1 DEF UIPairs, UIHasPair, uiVars
  <2> QED
    BY <2>3, <2>4, <2>5, <2>6
<1>2. CASE ReloadKey
  <2>1. /\ UNCHANGED <<diskVars, uiVars, due, missed, faults>>
        /\ rl' = "idle" /\ loaded' = None /\ statTime' = 0
    BY <1>2 DEF ReloadKey
  <2>2. proc \in {"ui", "up"} /\ fp \in Pairs
    BY <1>2, PairFacts DEF ReloadKey, UIPairs, OwnPair, ProcessTypes
  <2>3. CASE Matches(loaded, uiKey)
    <3>1. /\ loaded \in Pairs /\ loaded \in 1..target
          /\ cert' = loaded /\ modTime' = statTime /\ proc' = "up" /\ fp' = fp
          /\ pinned' = pinned \union {fp}
      BY <1>2, <2>3, PairFacts DEF ReloadKey, Matches, UIPairs
    <3>2. FileTypes' /\ ProcessTypes'
      BY <2>1, <2>2, <3>1 DEF FileTypes, ProcessTypes, diskVars, uiVars
    <3>3. OwnPair'
      BY <2>1, <2>2, <3>1, PairFacts DEF OwnPair, Matches, diskVars
    <3>4. UIPairs' /\ UIHasPair'
      BY <2>1, <3>1 DEF UIPairs, UIHasPair, uiVars
    <3> QED
      BY <3>2, <3>3, <3>4
  <2>4. CASE ~Matches(loaded, uiKey)
    <3>1. /\ UNCHANGED <<cert, modTime, pinned>>
          /\ \/ proc' = "down" /\ fp' = None
             \/ proc = "up" /\ UNCHANGED <<proc, fp>>
      BY <1>2, <2>2, <2>4 DEF ReloadKey
    <3>2. FileTypes' /\ ProcessTypes'
      BY <2>1, <3>1 DEF FileTypes, ProcessTypes, diskVars, uiVars
    <3>3. OwnPair'
      BY <2>1, <2>2, <3>1, PairFacts DEF OwnPair, Matches, diskVars
    <3>4. UIPairs' /\ UIHasPair'
      BY <2>1, <3>1 DEF UIPairs, UIHasPair, uiVars
    <3> QED
      BY <3>2, <3>3, <3>4
  <2> QED
    BY <2>3, <2>4
<1> QED
  BY <1>1, <1>2 DEF Reload

\* The hook of certbot: issued pairs, torn for a moment.
LEMMA HookInv ==
  ASSUME ProcessInv, Renew \/ \E f \in {"cert", "key"} : CopyBegins(f) \/ CopyEnds(f)
  PROVE  ProcessInv'
<1> USE DEF ProcessInv
<1>1. UNCHANGED others
  BY DEF Renew, CopyBegins, CopyEnds
<1>2. /\ target' \in 1..(1 + MaxRenewals) /\ 1..target \subseteq 1..target'
      /\ todo' \subseteq {"cert", "key"}
  <2>1. CASE Renew
    BY <2>1 DEF Renew, FileTypes
  <2>2. CASE UNCHANGED target /\ todo' \subseteq todo
    BY <2>2 DEF FileTypes
  <2> QED
    BY <2>1, <2>2 DEF CopyBegins, CopyEnds
<1>3. /\ uiCert' \in [pair : 1..target \union {Torn}, mtime : Nat]
      /\ uiCert'.mtime >= uiCert.mtime
      /\ uiKey' \in Pairs \union {Torn}
  <2>1. uiCert \in [pair : 1..target \union {Torn}, mtime : Nat] /\ uiKey \in Pairs \union {Torn}
    BY DEF FileTypes, UIPairs
  <2>2. CASE Renew
    BY <2>1, <2>2 DEF Renew
  <2>3. ASSUME NEW c \in 1..target \union {Torn}, NEW f \in {"cert", "key"}, Put(f, c)
        PROVE  /\ uiCert' \in [pair : 1..target \union {Torn}, mtime : Nat]
               /\ uiCert'.mtime >= uiCert.mtime
               /\ uiKey' \in Pairs \union {Torn}
    BY <2>1, <2>3, PairFacts DEF Put, FileTypes
  <2>4. target \in 1..target
    BY DEF FileTypes
  <2> QED
    BY <2>2, <2>3, <2>4 DEF CopyBegins, CopyEnds
<1>4. FileTypes'
  BY <1>1, <1>2, <1>3, PairFacts DEF FileTypes, others, diskVars
<1>5. ProcessTypes'
  BY <1>1, <1>3 DEF FileTypes, ProcessTypes, others, reloadVars
<1>6. OwnPair'
  BY <1>1 DEF OwnPair, Matches, others, diskVars
<1>7. UIPairs' /\ UIHasPair'
  BY <1>1, <1>2, <1>3 DEF UIPairs, UIHasPair, others, reloadVars
<1> QED
  BY <1>4, <1>5, <1>6, <1>7
-----------------------------------------------------------------------------
(* Admin sessions.                                                         *)

\* Sessions leave the map when they are refused; their ids are not given out again.
LEMMA SessionInvStep ==
  ASSUME SessionInv, SessionStep \/ Tick \/ Crash
  PROVE  SessionInv' /\ (SessionStep \/ Tick => UNCHANGED processVars)
<1> USE DEF SessionInv
<1>1. ASSUME NEW id \in Ids, HandleAdminLogin(id) PROVE SessionInv'
  <2> DEFINE swept == {s \in DOMAIN sessions : Expired(s)}
             kept == Without(sessions, swept)
  <2>1. /\ sessions' = [s \in DOMAIN kept \union {id} |-> IF s = id THEN now + TTL ELSE kept[s]]
        /\ refused' = refused \union swept /\ now' = now /\ id \notin refused
        /\ id \notin DOMAIN sessions
    BY <1>1 DEF HandleAdminLogin
  <2>2. DOMAIN kept = DOMAIN sessions \ swept /\ \A s \in DOMAIN kept : kept[s] = sessions[s]
    BY DEF Without, Restrict
  <2>3. swept \subseteq DOMAIN sessions
    OBVIOUS
  <2> HIDE DEF kept, swept
  <2>4. /\ DOMAIN sessions' = (DOMAIN sessions \ swept) \union {id}
        /\ sessions' \in [DOMAIN sessions' -> Nat]
    BY <2>1, <2>2 DEF SessionTypes
  <2> QED
    BY <2>1, <2>3, <2>4 DEF SessionTypes, SessionsApart
<1>2. ASSUME NEW id \in Ids, Refuse(id) \/ HandleAdminLogout(id) PROVE SessionInv'
  <2>1. /\ sessions' = Without(sessions, {id}) /\ refused' = refused \union {id} /\ now' = now
    BY <1>2 DEF Refuse, HandleAdminLogout
  <2>2. DOMAIN sessions' = DOMAIN sessions \ {id} /\ sessions' \in [DOMAIN sessions' -> Nat]
    BY <2>1 DEF Without, Restrict, SessionTypes
  <2> QED
    BY <2>1, <2>2 DEF SessionTypes, SessionsApart
<1>3. ASSUME Tick PROVE SessionInv'
  BY <1>3 DEF Tick, SessionTypes, SessionsApart
<1>4. ASSUME Crash PROVE SessionInv'
  <2>1. sessions' = <<>>
    BY <1>4 DEF Crash
  <2>2. DOMAIN sessions' = {} /\ sessions' \in [DOMAIN sessions' -> Nat]
    BY <2>1
  <2>3. now' = now /\ refused' = refused \union DOMAIN sessions
    BY <1>4 DEF Crash
  <2>4. SessionTypes'
    BY <2>2, <2>3 DEF SessionTypes
  <2>5. SessionsApart'
    BY <2>2 DEF SessionsApart
  <2> QED
    BY <2>4, <2>5
<1>5. SessionStep \/ Tick => UNCHANGED processVars
  BY DEF SessionStep, Tick, HandleAdminLogin, Refuse, HandleAdminLogout
<1> QED
  BY <1>1, <1>2, <1>3, <1>4, <1>5 DEF SessionStep

-----------------------------------------------------------------------------
(* The theorems.                                                           *)

\* Every step keeps the invariant.
LEMMA ConsoleInvStep == ConsoleInv /\ [ConsoleNext]_consoleVars => ConsoleInv'
<1> SUFFICES ASSUME ConsoleInv, [ConsoleNext]_consoleVars PROVE ProcessInv' /\ SessionInv'
  BY DEF ConsoleInv, ConsoleTypeOK, ProcessInv, SessionInv
<1>1. ProcessInv /\ SessionInv
  BY ConsoleSplit
<1>2. ASSUME UNCHANGED processVars PROVE ProcessInv'
  BY <1>1, <1>2 DEF ProcessInv, FileTypes, ProcessTypes, OwnPair, Matches, UIPairs, UIHasPair,
                    processVars, diskVars, uiVars, reloadVars
<1>3. ASSUME UNCHANGED sessionVars PROVE SessionInv'
  BY <1>1, <1>3 DEF SessionInv, SessionTypes, SessionsApart, sessionVars
<1>4. CASE UNCHANGED consoleVars
  BY <1>2, <1>3, <1>4 DEF consoleVars, processVars
<1>5. CASE SessionStep \/ Tick
  BY <1>1, <1>2, <1>5, SessionInvStep
<1>6. CASE Crash
  BY <1>1, <1>6, CrashInv, SessionInvStep
<1>7. CASE ProcessStep \/ GetCertificate \/ IntervalPasses
  <2>1. UNCHANGED sessionVars
    BY <1>7 DEF ProcessStep, LoadOrCreateCert, WriteCert, WriteKey, Reload, ReloadStat,
                ReloadCert, ReloadKey, GetCertificate, IntervalPasses
  <2> QED
    BY <1>1, <1>3, <1>7, <2>1, StartInv, ReloadInv DEF ProcessStep
<1>8. CASE Renew \/ HookStep \/ \E f \in {"cert", "key"} : CopyBegins(f)
  <2>1. UNCHANGED sessionVars
    BY <1>8 DEF Renew, HookStep, CopyBegins, CopyEnds, others
  <2> QED
    BY <1>1, <1>3, <1>8, <2>1, HookInv DEF HookStep
<1> QED
  BY <1>4, <1>5, <1>6, <1>7, <1>8 DEF ConsoleNext

LEMMA ConsoleInductive == ConsoleSpec => []ConsoleInv
BY ConsoleInitInv, ConsoleInvStep, PTL DEF ConsoleSpec

\* The files, the process and the session map keep their types.
THEOREM ConsoleTypeCorrect == ConsoleSpec => []ConsoleTypeOK
<1>1. ConsoleInv => ConsoleTypeOK
  BY DEF ConsoleInv
<1> QED
  BY <1>1, ConsoleInductive, PTL

\* A pair that agents were shown stays the one on the disk and the only one they are
\* shown, however starts and writes end, until a stat of coordinator.crt fails:
\* LoadOrCreateCert makes a pair only when it sees no certificate.
THEOREM PinsValid == ConsoleSpec => []PinsStayValid
<1>1. ConsoleInv => PinsStayValid
  BY PairFacts DEF ConsoleInv, ConsoleTypeOK, ProcessTypes, OwnPair, PinsStayValid
<1> QED
  BY <1>1, ConsoleInductive, PTL

\* While the process is up it has an issued pair to serve the UI with, wherever the
\* hook's copies fall between the steps of a reload.
THEOREM UIServed == ConsoleSpec => []UIHasPair
<1>1. ConsoleInv => UIHasPair
  BY DEF ConsoleInv
<1> QED
  BY <1>1, ConsoleInductive, PTL

\* A session that was refused, closed or lost is not admitted again.
THEOREM Refusals == ConsoleSpec => []RefusedForGood
<1>1. ConsoleInv => RefusedForGood
  BY DEF ConsoleInv, SessionsApart, RefusedForGood, HasAdminSession
<1> QED
  BY <1>1, ConsoleInductive, PTL

\* A session that is still good ends by its own logout or with the process.
THEOREM SessionsLast == ConsoleSpec => SessionsKept
<1> DEFINE Promise == \A id \in DOMAIN sessions :
             id \notin DOMAIN sessions' => Expired(id) \/ HandleAdminLogout(id) \/ Crash
<1>1. [ConsoleNext]_consoleVars => [Promise]_consoleVars
  <2> SUFFICES ASSUME ConsoleNext, NEW id \in DOMAIN sessions, id \notin DOMAIN sessions', ~Crash
               PROVE  Expired(id) \/ HandleAdminLogout(id)
    OBVIOUS
  <2>1. SessionStep
    BY DEF ConsoleNext, ProcessStep, LoadOrCreateCert, WriteCert, WriteKey, Reload, ReloadStat,
           ReloadCert, ReloadKey, GetCertificate, IntervalPasses, Renew, HookStep, CopyBegins,
           CopyEnds, others, sessionVars, Tick
  <2>2. PICK k \in Ids : HandleAdminLogin(k) \/ Refuse(k) \/ HandleAdminLogout(k)
    BY <2>1 DEF SessionStep
  <2>3. CASE HandleAdminLogin(k)
    BY <2>3 DEF HandleAdminLogin, Without, Restrict
  <2>4. CASE Refuse(k)
    BY <2>4 DEF Refuse, Without, Restrict, HasAdminSession
  <2>5. CASE HandleAdminLogout(k)
    <3>1. id = k
      BY <2>5 DEF HandleAdminLogout, Without, Restrict
    <3> QED
      BY <2>5, <3>1
  <2> QED
    BY <2>2, <2>3, <2>4, <2>5
<1> QED
  BY <1>1, PTL DEF ConsoleSpec, SessionsKept
=============================================================================
