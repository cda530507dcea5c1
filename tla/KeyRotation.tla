---------------------------- MODULE KeyRotation ----------------------------
(***************************************************************************)
(* Rotation of one node's WireGuard key.  The key lives in four places:    *)
(* the coordinator's row, the agent's state file, the daemon's copy of the *)
(* state, and the kernel device.  The daemon's rekey loop and the offline  *)
(* command `kai-agent rekey` both move it, one place at a time; the daemon *)
(* may die between any two steps and a request to the coordinator may      *)
(* outlive the process that sent it.                                       *)
(*                                                                         *)
(* Keys are random and never repeat.  A key that is in none of the places  *)
(* is as good as a new one, so a finite set of keys stands for them all.   *)
(***************************************************************************)
EXTENDS Integers

CONSTANTS
  MaxKeys,         \* bound: keys that can be in use at a time
  MaxDisturbances  \* bound: errors, lost messages, crashes, runs of
                   \* `kai-agent rekey`, lock signatures and deactivations

ASSUME BoundsAssumption ==
  /\ MaxKeys \in Nat \ {0}
  /\ MaxDisturbances \in Nat

Keys == 1..MaxKeys
NoKey == 0

VARIABLES
  (* the coordinator *)
  reg,       \* nodes.wg_pubkey
  sig,       \* nodes.lock_sig is a signature
  locked,    \* the network lock is active
  req,       \* rekey requests: of the loop, of the command, and an abandoned one
  (* the agent *)
  disk,      \* the state file: key, its age, whether a lock key is pinned, and
             \* auto: RekeyDays > 0
  run,       \* the daemon is up
  mem,       \* a.st
  dev,       \* the private key of the device
  sock,      \* the status socket accepts connections
  rpc,       \* program counter of rekeyLoop
  want,      \* the pair rotateKey generated
  cpc,       \* program counter of `kai-agent rekey`
  cst,       \* the state it loaded
  (* history and disturbances *)
  alone,     \* no older request and no command since the loop sent its own
  settled,   \* the loop's last change went through, and it was alone
  disturbances

coordVars == <<reg, sig, locked>>
daemonVars == <<run, mem, dev, sock, rpc, want>>
cmdVars == <<cpc, cst>>
ghostVars == <<alone, settled>>
vars == <<coordVars, req, disk, daemonVars, cmdVars, ghostVars, disturbances>>

Clients == {"loop", "cmd", "stray"}
Purposes == {"assert", "rotate", "cmd"}
State == [key : Keys, age : {"unset", "fresh", "due"}, pin : BOOLEAN, auto : BOOLEAN]
NoState == [key |-> NoKey, age |-> "unset", pin |-> FALSE, auto |-> FALSE]
NoRequest == [pc |-> "none", key |-> NoKey, for |-> "assert"]

TypeOK ==
  /\ reg \in Keys /\ sig \in BOOLEAN /\ locked \in BOOLEAN
  /\ req \in [Clients -> [pc : {"none", "sent", "set", "bump", "ok", "err"},
                          key : Keys \union {NoKey}, for : Purposes]]
  /\ disk \in State /\ mem \in State \union {NoState} /\ cst \in State \union {NoState}
  /\ run \in BOOLEAN /\ sock \in BOOLEAN
  /\ run <=> mem # NoState /\ dev # NoKey
  /\ dev \in Keys \union {NoKey} /\ want \in Keys \union {NoKey}
  /\ rpc \in {"off", "start", "asserting", "stamp", "check", "rotate", "rotating",
              "record", "device"}
  /\ cpc \in {"idle", "load", "send", "sent", "save"}
  /\ alone \in BOOLEAN /\ settled \in BOOLEAN
  /\ disturbances \in 0..MaxDisturbances

(* An enrolled node whose daemon is stopped; its state file may predate key *)
(* rotation.  It rotates its key only when it is run with --rekey-days, the *)
(* same at every start.                                                     *)
Init ==
  /\ reg = 1 /\ sig = FALSE /\ locked = FALSE
  /\ req = [c \in Clients |-> NoRequest]
  /\ disk \in [key : {1}, age : {"unset", "fresh"}, pin : {FALSE}, auto : BOOLEAN]
  /\ run = FALSE /\ sock = FALSE /\ rpc = "off"
  /\ mem = NoState /\ dev = NoKey /\ want = NoKey
  /\ cpc = "idle" /\ cst = NoState
  /\ alone = FALSE /\ settled = FALSE
  /\ disturbances = 0

Disturb ==
  /\ disturbances < MaxDisturbances
  /\ disturbances' = disturbances + 1

(* wgkeys.Generate: a key that is nowhere in the system. *)
InUse == {reg, disk.key, mem.key, dev, want, cst.key} \union {req[c].key : c \in Clients}
Generated(k) == k \in Keys \ InUse /\ \A j \in Keys \ InUse : k <= j

----------------------------------------------------------------------------
(* The coordinator: handleRekey, which the row withNode read precedes.      *)

Send(c, k, purpose) ==
  req' = [req EXCEPT ![c] = [pc |-> "sent", key |-> k, for |-> purpose]]

(* withNode reads the row; the handler compares the key with that copy and  *)
(* has nothing to do when they are the same.                                *)
RekeyRead(c) ==
  /\ req[c].pc = "sent"
  /\ req' = [req EXCEPT ![c].pc = IF reg = req[c].key THEN "ok" ELSE "set"]
  /\ UNCHANGED <<coordVars, disk, daemonVars, cmdVars, ghostVars, disturbances>>

(* SetNodeKey: the signature goes with the key it covered. *)
SetNodeKey(c) ==
  /\ req[c].pc = "set"
  /\ reg' = req[c].key /\ sig' = FALSE
  /\ req' = [req EXCEPT ![c].pc = "bump"]
  /\ UNCHANGED <<locked, disk, daemonVars, cmdVars, ghostVars, disturbances>>

(* bumpNetmap and the reply. *)
RekeyBump(c) ==
  /\ req[c].pc = "bump"
  /\ req' = [req EXCEPT ![c].pc = "ok"]
  /\ UNCHANGED <<coordVars, disk, daemonVars, cmdVars, ghostVars, disturbances>>

(* SetNodeKey or bumpNetmap fails, or the reply is lost: an error all the same. *)
RekeyError(c) ==
  /\ Disturb
  /\ req[c].pc \in {"sent", "set", "bump", "ok"}
  /\ req' = [req EXCEPT ![c].pc = "err"]
  /\ UNCHANGED <<coordVars, disk, daemonVars, cmdVars, ghostVars>>

(* The handler still has work to do. *)
Unfinished(c) == req[c].pc \in {"sent", "set", "bump"}

(* Nothing but the loop's own request can move the registered key. *)
Alone == ~Unfinished("stray") /\ cpc = "idle"

(* The client stops waiting: what is not done yet goes on without it. *)
Abandoned(c) ==
  IF Unfinished(c) THEN [req EXCEPT !["stray"] = req[c], ![c] = NoRequest]
                   ELSE [req EXCEPT ![c] = NoRequest]

(* The client times out; its request is still on the way or being served. *)
Timeout(c) ==
  /\ Disturb
  /\ c # "stray" /\ Unfinished(c) /\ req["stray"].pc = "none"
  /\ req' = [Abandoned(c) EXCEPT ![c].pc = "err"]
  /\ settled' = FALSE /\ alone' = FALSE
  /\ UNCHANGED <<coordVars, disk, daemonVars, cmdVars>>

(* Nobody reads the reply of an abandoned request. *)
StrayDone ==
  /\ req["stray"].pc \in {"ok", "err"}
  /\ req' = [req EXCEPT !["stray"] = NoRequest]
  /\ UNCHANGED <<coordVars, disk, daemonVars, cmdVars, ghostVars, disturbances>>

(* The administrator signs every binding and so activates the lock, signs  *)
(* again what lost its signature, or switches the lock off.                *)
LockSign ==
  /\ Disturb
  /\ ~(locked /\ sig)
  /\ sig' = TRUE /\ locked' = TRUE
  /\ UNCHANGED <<reg, req, disk, daemonVars, cmdVars, ghostVars>>

LockDisable ==
  /\ Disturb
  /\ locked /\ locked' = FALSE
  /\ UNCHANGED <<reg, sig, req, disk, daemonVars, cmdVars, ghostVars>>

----------------------------------------------------------------------------
(* The daemon.  Run brings the device up with the key of the state file and *)
(* starts the loops; the status socket opens on a goroutine of its own.     *)

Start ==
  /\ ~run /\ run' = TRUE
  /\ mem' = disk /\ dev' = disk.key
  /\ rpc' = "start"
  /\ UNCHANGED <<coordVars, req, disk, sock, want, cmdVars, ghostVars, disturbances>>

ServeLocalAPI ==
  /\ run /\ ~sock /\ sock' = TRUE
  /\ UNCHANGED <<coordVars, req, disk, run, mem, dev, rpc, want, cmdVars, ghostVars,
                 disturbances>>

(* A stop or a crash, at any point of the loop. *)
Stop ==
  /\ Disturb
  /\ run /\ run' = FALSE /\ sock' = FALSE
  /\ rpc' = "off" /\ want' = NoKey /\ mem' = NoState /\ dev' = NoKey
  /\ Unfinished("loop") => req["stray"].pc = "none"
  /\ req' = Abandoned("loop")
  /\ settled' = FALSE /\ alone' = FALSE
  /\ UNCHANGED <<coordVars, disk, cmdVars>>

(* applyNetmap on the sync loop's goroutine: pin the lock key an active     *)
(* lock brings, save the state.  applyMu keeps it out of rotateKey's end.   *)
ApplyNetmap ==
  /\ run /\ rpc \notin {"record", "device"}
  /\ mem' = [mem EXCEPT !.pin = @ \/ locked]
  /\ disk' = mem'
  /\ mem' # mem \/ disk' # disk
  /\ UNCHANGED <<coordVars, req, run, dev, sock, rpc, want, cmdVars, ghostVars, disturbances>>

(* Time passes: a key outlives RekeyDays, by every record of its age. *)
Aged(s) == [s EXCEPT !.age = IF @ = "fresh" THEN "due" ELSE @]

Expire ==
  /\ rpc = "check" \/ ~run
  /\ mem' = Aged(mem) /\ disk' = Aged(disk)
  /\ mem' # mem \/ disk' # disk
  /\ UNCHANGED <<coordVars, req, run, dev, sock, rpc, want, cmdVars, ghostVars, disturbances>>

LoopFrame == UNCHANGED <<coordVars, run, sock, cmdVars>>

(* rekeyLoop registers the key it started with. *)
Reassert ==
  /\ rpc = "start" /\ rpc' = "asserting"
  /\ Send("loop", mem.key, "assert")
  /\ alone' = Alone
  /\ UNCHANGED <<disk, mem, dev, want, settled, disturbances>> /\ LoopFrame

(* A failed re-assert is logged; the loop goes on. *)
ReassertReply ==
  /\ rpc = "asserting" /\ req["loop"].pc \in {"ok", "err"}
  /\ rpc' = "stamp"
  /\ settled' = (req["loop"].pc = "ok" /\ alone) /\ UNCHANGED alone
  /\ req' = [req EXCEPT !["loop"] = NoRequest]
  /\ UNCHANGED <<disk, mem, dev, want, disturbances>> /\ LoopFrame

(* States from before key rotation get a creation time. *)
Stamp ==
  /\ rpc = "stamp" /\ rpc' = "check"
  /\ mem' = [mem EXCEPT !.age = IF @ = "unset" THEN "fresh" ELSE @]
  /\ \/ disk' = (IF mem.age = "unset" THEN mem' ELSE disk) /\ UNCHANGED disturbances
     \/ mem.age = "unset" /\ Disturb /\ UNCHANGED disk
  /\ UNCHANGED <<req, dev, want, ghostVars>> /\ LoopFrame

(* The periodic check: the agent is to rotate its key, it is due, and no    *)
(* lock key is pinned.                                                      *)
RotationDue(s) == s.auto /\ s.age = "due" /\ ~s.pin

Check ==
  /\ rpc = "check" /\ RotationDue(mem)
  /\ rpc' = "rotate"
  /\ UNCHANGED <<req, disk, mem, dev, want, ghostVars, disturbances>> /\ LoopFrame

(* Not due, or due and pinned (a warning): the loop waits for its ticker. *)
CheckIdle == rpc = "check" /\ ~RotationDue(mem) /\ UNCHANGED vars

(* rotateKey: generate a pair, register its public key. *)
Rotate ==
  /\ rpc = "rotate" /\ rpc' = "rotating"
  /\ \E k \in Keys : Generated(k) /\ want' = k /\ Send("loop", k, "rotate")
  /\ settled' = FALSE /\ alone' = Alone
  /\ UNCHANGED <<disk, mem, dev, disturbances>> /\ LoopFrame

(* Seeded fault: the error of the request is not looked at. *)
RotateReplyAnyway ==
  /\ rpc = "rotating" /\ req["loop"].pc \in {"ok", "err"}
  /\ rpc' = "record"
  /\ req' = [req EXCEPT !["loop"] = NoRequest]
  /\ UNCHANGED <<disk, mem, dev, want, ghostVars, disturbances>> /\ LoopFrame

(* An error drops the pair; the loop tries again at the next check. *)
RotateReply ==
  /\ rpc = "rotating" /\ req["loop"].pc \in {"ok", "err"}
  /\ IF req["loop"].pc = "ok" THEN rpc' = "record" /\ UNCHANGED want
                              ELSE rpc' = "check" /\ want' = NoKey
  /\ req' = [req EXCEPT !["loop"] = NoRequest]
  /\ UNCHANGED <<disk, mem, dev, ghostVars, disturbances>> /\ LoopFrame

(* Seeded fault: the live device is forgotten. *)
RecordFileOnly ==
  /\ rpc = "record" /\ rpc' = "check" /\ want' = NoKey
  /\ mem' = [mem EXCEPT !.key = want, !.age = "fresh"]
  /\ \/ disk' = mem' /\ UNCHANGED disturbances
     \/ Disturb /\ UNCHANGED disk
  /\ UNCHANGED <<req, dev, ghostVars>> /\ LoopFrame

(* Under applyMu: the state in memory, then the file.  A failed save leaves *)
(* before the device is touched.                                            *)
Record ==
  /\ rpc = "record"
  /\ mem' = [mem EXCEPT !.key = want, !.age = "fresh"]
  /\ \/ disk' = mem' /\ rpc' = "device" /\ UNCHANGED <<want, disturbances>>
     \/ Disturb /\ rpc' = "check" /\ want' = NoKey /\ UNCHANGED disk
  /\ UNCHANGED <<req, dev, ghostVars>> /\ LoopFrame

(* Still under applyMu: the device. *)
SetPrivateKey ==
  /\ rpc = "device" /\ rpc' = "check" /\ want' = NoKey
  /\ \/ /\ dev' = want /\ UNCHANGED disturbances
        /\ settled' = alone
     \/ Disturb /\ UNCHANGED <<dev, settled>>
  /\ UNCHANGED <<req, disk, mem, alone>> /\ LoopFrame

----------------------------------------------------------------------------
(* kai-agent rekey: refuse if the socket answers or a lock key is pinned,  *)
(* then register a fresh key and write the whole loaded state back.        *)

CmdFrame == UNCHANGED <<coordVars, daemonVars>>

CmdDial ==
  /\ Disturb
  /\ cpc = "idle" /\ ~sock
  /\ cpc' = "load" /\ settled' = FALSE /\ alone' = FALSE
  /\ UNCHANGED <<req, disk, cst>> /\ CmdFrame

CmdLoad ==
  /\ cpc = "load"
  /\ IF disk.pin THEN cpc' = "idle" /\ UNCHANGED cst
                 ELSE cpc' = "send" /\ cst' = disk
  /\ UNCHANGED <<req, disk, ghostVars, disturbances>> /\ CmdFrame

RotateStateKey ==
  /\ cpc = "send" /\ cpc' = "sent"
  /\ \E k \in Keys : Generated(k) /\ Send("cmd", k, "cmd")
  /\ UNCHANGED <<disk, cst, ghostVars, disturbances>> /\ CmdFrame

CmdReply ==
  /\ cpc = "sent" /\ req["cmd"].pc \in {"ok", "err"}
  /\ IF req["cmd"].pc = "ok"
       THEN cpc' = "save" /\ cst' = [cst EXCEPT !.key = req["cmd"].key, !.age = "fresh"]
       ELSE cpc' = "idle" /\ cst' = NoState
  /\ req' = [req EXCEPT !["cmd"] = NoRequest]
  /\ UNCHANGED <<disk, ghostVars, disturbances>> /\ CmdFrame

CmdSave ==
  /\ cpc = "save" /\ cpc' = "idle" /\ cst' = NoState
  /\ \/ disk' = cst /\ UNCHANGED disturbances
     \/ Disturb /\ UNCHANGED disk
  /\ UNCHANGED <<req, ghostVars>> /\ CmdFrame

----------------------------------------------------------------------------

HandlerStep(c) == RekeyRead(c) \/ SetNodeKey(c) \/ RekeyBump(c)
LoopStep ==
  \/ Reassert \/ ReassertReply \/ Stamp \/ Check
  \/ CheckIdle \/ Rotate \/ RotateReply \/ Record \/ SetPrivateKey
CmdStep == CmdLoad \/ RotateStateKey \/ CmdReply \/ CmdSave

Next ==
  \/ \E c \in Clients : HandlerStep(c) \/ RekeyError(c) \/ Timeout(c)
  \/ StrayDone \/ LockSign \/ LockDisable
  \/ Start \/ ServeLocalAPI \/ Stop \/ ApplyNetmap \/ Expire
  \/ LoopStep \/ CmdDial \/ CmdStep

Spec == Init /\ [][Next]_vars

(* Handlers and loops run; systemd restarts the agent (Restart=always);     *)
(* keys grow old; a command that was started is carried through.            *)
FairSpec ==
  /\ Spec
  /\ \A c \in Clients : WF_vars(HandlerStep(c))
  /\ WF_vars(StrayDone) /\ WF_vars(Start) /\ WF_vars(Expire)
  /\ WF_vars(LoopStep) /\ WF_vars(CmdStep)

----------------------------------------------------------------------------
(* Properties                                                               *)

(* Once the re-assert of a start or a rotation has succeeded, with no older *)
(* request still on its way and no offline command running, the registered  *)
(* key, the daemon's key and the device's key are the same, whatever died   *)
(* or failed before (rekey.go 56-57), and stay so until the next rotation.  *)
SettledKeysAgree == settled => run /\ reg = mem.key /\ dev = mem.key

(* An agent that rotates its key comes back after a lost reply, a failed    *)
(* save or device update, a request or an offline command that overtook it: *)
(* the next due rotation brings the registered key, the daemon's and the    *)
(* device's together, without a restart.  One that never rotates (RekeyDays *)
(* 0, the default) has only its next start; nor does one rotate that has    *)
(* pinned a lock key.                                                       *)
KeysComeTogether ==
  []<>(run /\ (mem.auto /\ ~mem.pin => dev = reg /\ mem.key = reg))

(* "rotateKey: state first, then coordinator" (rekey.go:56): a rotation    *)
(* registers a key that the state file already holds, so that no crash      *)
(* leaves the node registered under a key nobody has.                       *)
(* It does not hold of the code (README, Known divergences).               *)
StateFirst ==
  [][\A c \in Clients : SetNodeKey(c) /\ req[c].for = "rotate" => reg' = disk.key]_vars

(* "Whatever step dies, the start-time re-assert converges state and server *)
(* again" (rekey.go:56-57): past its re-assert and before it rotates, an    *)
(* agent whose re-assert was accepted is registered under its own key.      *)
(* It does not hold of the code (README, Known divergences).               *)
ReassertConverges == [][ReassertReply /\ req["loop"].pc = "ok" => reg' = mem'.key]_vars

(* "Disabled with the lock enabled" (rekey.go:16): while the lock is        *)
(* active, an automatic rotation does not replace the registered key, which *)
(* would leave the node unsigned.                                           *)
(* It does not hold of the code (README, Known divergences).               *)
LockStopsRotation ==
  [][\A c \in Clients : SetNodeKey(c) /\ req[c].for = "rotate" => ~locked]_vars

(* "with the daemon stopped" (cmd/kai-agent/main.go:157): the offline       *)
(* rotation never replaces the state file under a running daemon.           *)
(* It does not hold of the code (README, Known divergences).               *)
OfflineRekeyNeedsStop == [][CmdSave => ~run]_vars

----------------------------------------------------------------------------
(* The inductive invariant behind SettledKeysAgree.                         *)

(* A request that was made and has not failed. *)
Live(c) == req[c].pc \in {"sent", "set", "bump", "ok"}

(* Requests and the pairs in flight hold keys; nobody has a request when it *)
(* does not wait for one.                                                   *)
RequestsOK ==
  /\ \A c \in Clients : Live(c) => req[c].key \in Keys
  /\ rpc \in {"rotating", "record", "device"} => want \in Keys
  /\ cpc \in {"send", "sent", "save"} => cst \in State
  /\ rpc \notin {"asserting", "rotating"} => req["loop"].pc = "none"
  /\ cpc # "sent" => req["cmd"].pc = "none"
  /\ rpc # "off" => run

(* While it is alone or settled, only the loop can move the registered key. *)
NobodyElse == alone \/ settled => Alone

(* A request that has reached the row and is alone is what the row says.    *)
Reached(k) ==
  /\ Live("loop") => req["loop"].key = k
  /\ alone /\ req["loop"].pc \in {"bump", "ok"} => reg = k

LoopOK ==
  /\ rpc \in {"start", "asserting"} => dev = mem.key
  /\ rpc = "asserting" => Reached(mem.key)
  /\ rpc = "rotating" => Reached(want)
  /\ rpc \in {"record", "device"} /\ alone => reg = want
  /\ rpc = "device" => mem.key = want
  /\ settled => rpc \in {"stamp", "check", "rotate"}

IInv == TypeOK /\ RequestsOK /\ NobodyElse /\ LoopOK /\ SettledKeysAgree
=============================================================================
