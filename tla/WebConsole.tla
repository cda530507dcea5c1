----------------------------- MODULE WebConsole -----------------------------
(***************************************************************************)
(* The coordinator process and what its two TLS listeners and its admin    *)
(* sessions live on.  Agents pin the certificate that the process makes    *)
(* for itself at its first start, as two files written one after the       *)
(* other.  The web UI is served with a pair that the hook of certbot       *)
(* replaces file by file while the process may be reading them, and that   *)
(* is looked at again on a connection, at most every 30 seconds.  Sessions *)
(* are in memory.  systemd restarts the process whenever it ends.          *)
(*                                                                         *)
(* A pair is a number: the certificate and the key of one number match.    *)
(* The time of modification of the UI certificate is the number of writes. *)
(***************************************************************************)
EXTENDS Integers, FiniteSets, Functions

CONSTANTS
  Ids,          \* session ids, never given out twice
  TTL,          \* sessionTTL
  MaxTime,      \* bound of the clock
  MaxRenewals,  \* bound: renewals of the UI pair
  MaxFaults     \* bound: crashes and errors of the disk

ASSUME ConsoleAssumption ==
  /\ TTL \in Nat \ {0}
  /\ {MaxTime, MaxRenewals, MaxFaults} \subseteq Nat

VARIABLES
  (* the disk *)
  crt, key,    \* coordinator.crt and coordinator.key: None, Torn or a pair
  uiCert,      \* ui.cert_file: [pair, mtime]
  uiKey,       \* ui.key_file
  todo,        \* files the hook still has to copy
  target,      \* the pair the hook copies
  (* the process *)
  proc,        \* down, making its pair, reading the UI pair, or up
  fp,          \* the pair of the agents' listener, None while it is down
  rl,          \* where reload is
  statTime,    \* the time of modification that reload saw
  loaded,      \* the certificate that reload read
  cert,        \* r.cert
  modTime,     \* r.modTime
  due,         \* more than certStatInterval since r.lastStat
  sessions,    \* session id -> expiry
  now,
  (* history and bounds *)
  pinned,      \* pairs that agents have been shown
  missed,      \* pairs that a failing stat hid and that have not been loaded since
  refused,     \* sessions that ended before somebody's eyes
  faults

diskVars == <<crt, key>>
uiVars == <<uiCert, uiKey, todo, target>>
reloadVars == <<rl, statTime, loaded, cert, modTime, due>>
sessionVars == <<sessions, now, refused>>
consoleVars == <<diskVars, uiVars, proc, fp, reloadVars, sessionVars, pinned, missed, faults>>

None == 0
Torn == -1    \* truncated or partly written: no pair at all
Pairs == 1..(1 + MaxRenewals + MaxFaults)

FileTypes ==
  /\ {crt, key} \subseteq Pairs \union {None, Torn}
  /\ uiCert \in [pair : Pairs \union {Torn}, mtime : Nat]
  /\ uiKey \in Pairs \union {Torn}
  /\ todo \subseteq {"cert", "key"} /\ target \in 1..(1 + MaxRenewals)

ProcessTypes ==
  /\ proc \in {"down", "crt", "key", "ui", "up"}
  /\ rl \in {"idle", "stat", "cert", "key"}
  /\ fp \in Pairs \union {None}
  /\ loaded \in Pairs \union {None, Torn} /\ cert \in Pairs \union {None}
  /\ statTime \in 0..uiCert.mtime /\ modTime \in 0..uiCert.mtime
  /\ due \in BOOLEAN
  /\ pinned \subseteq Pairs /\ missed \subseteq Pairs /\ faults \in 0..MaxFaults

SessionTypes ==
  /\ sessions \in [DOMAIN sessions -> Nat] /\ DOMAIN sessions \subseteq Ids
  /\ refused \subseteq Ids /\ now \in 0..MaxTime

ConsoleTypeOK == FileTypes /\ ProcessTypes /\ SessionTypes

(* A fresh installation with a UI pair in place. *)
ConsoleInit ==
  /\ crt = None /\ key = None
  /\ uiCert = [pair |-> 1, mtime |-> 1] /\ uiKey = 1
  /\ todo = {} /\ target = 1
  /\ proc = "down" /\ fp = None
  /\ rl = "idle" /\ statTime = 0 /\ loaded = None /\ cert = None /\ modTime = 0
  /\ due = TRUE
  /\ sessions = <<>> /\ now = 0
  /\ pinned = {} /\ missed = {} /\ refused = {} /\ faults = 0

Fault == faults < MaxFaults /\ faults' = faults + 1

----------------------------------------------------------------------------
(* Start: LoadOrCreateCert, then NewCertReloader, then the listeners.       *)

(* tls.LoadX509KeyPair *)
Matches(c, k) == c \in Pairs /\ c = k

(* Its own pair is good: on to the UI pair. *)
Serve(pair) ==
  /\ fp' = pair /\ missed' = missed \ {pair}
  /\ proc' = "ui" /\ rl' = "stat"

(* Seeded fault: a pair that is seen but cannot be loaded is made anew. *)
LoadOrCreateCertAnew ==
  /\ proc = "down"
  /\ \/ crt = None /\ proc' = "crt" /\ UNCHANGED <<fp, rl, missed, faults>>
     \/ Matches(crt, key) /\ Serve(crt) /\ UNCHANGED faults
     \/ crt # None /\ Fault /\ proc' = "crt" /\ UNCHANGED <<fp, rl, missed>>
  /\ UNCHANGED <<diskVars, uiVars, statTime, loaded, cert, modTime, due, sessionVars, pinned>>

(* If os.Stat finds the certificate the pair is loaded, and the process     *)
(* ends when that fails, for a file that cannot be read just now or for     *)
(* good.  Any error of os.Stat, not only that there is no file, leads to    *)
(* a new pair.                                                              *)
LoadOrCreateCert ==
  /\ proc = "down"
  /\ \/ crt = None /\ proc' = "crt" /\ UNCHANGED <<fp, rl, missed, faults>>
     \/ Matches(crt, key) /\ Serve(crt) /\ UNCHANGED faults
     \/ crt # None /\ Fault /\ UNCHANGED <<proc, fp, rl, missed>>
     \/ /\ crt # None /\ Fault
        /\ proc' = "crt" /\ missed' = missed \union ({crt} \intersect Pairs)
        /\ UNCHANGED <<fp, rl>>
  /\ UNCHANGED <<diskVars, uiVars, statTime, loaded, cert, modTime, due, sessionVars, pinned>>

(* The new pair is written, the certificate first.  Only a fault leads here *)
(* a second time, so the number is a new one.                               *)
WriteCert ==
  /\ proc = "crt" /\ proc' = "key"
  /\ crt' = faults + 1
  /\ UNCHANGED <<key, uiVars, fp, reloadVars, sessionVars, pinned, missed, faults>>

WriteKey ==
  /\ proc = "key"
  /\ key' = crt /\ Serve(crt)
  /\ UNCHANGED <<crt, uiVars, statTime, loaded, cert, modTime, due, sessionVars, pinned, faults>>

(* The process dies, is stopped or gives up on a failed write; the file it  *)
(* was writing may be torn.                                                 *)
Crash ==
  /\ proc # "down" /\ Fault
  /\ proc' = "down" /\ fp' = None
  /\ crt' \in IF proc = "crt" THEN {crt, Torn} ELSE {crt}
  /\ key' \in IF proc = "key" THEN {key, Torn} ELSE {key}
  /\ rl' = "idle" /\ statTime' = 0 /\ loaded' = None /\ cert' = None /\ modTime' = 0
  /\ due' = TRUE
  /\ sessions' = <<>>
  /\ refused' = refused \union DOMAIN sessions
  /\ UNCHANGED <<uiVars, now, pinned, missed>>

----------------------------------------------------------------------------
(* CertReloader                                                             *)

(* GetCertificate on a connection: it looks at the file at most every 30    *)
(* seconds and reloads when the time of modification is another.            *)
GetCertificate ==
  /\ proc = "up" /\ rl = "idle" /\ due
  /\ due' = FALSE
  /\ rl' = IF uiCert.mtime # modTime THEN "stat" ELSE "idle"
  /\ UNCHANGED <<diskVars, uiVars, proc, fp, statTime, loaded, cert, modTime, sessionVars,
                 pinned, missed, faults>>

ReloadStat ==
  /\ rl = "stat" /\ rl' = "cert"
  /\ statTime' = uiCert.mtime
  /\ UNCHANGED <<diskVars, uiVars, proc, fp, loaded, cert, modTime, due, sessionVars,
                 pinned, missed, faults>>

ReloadCert ==
  /\ rl = "cert" /\ rl' = "key"
  /\ loaded' = uiCert.pair
  /\ UNCHANGED <<diskVars, uiVars, proc, fp, statTime, cert, modTime, due, sessionVars,
                 pinned, missed, faults>>

(* Seeded fault: the time of modification is the one after the load. *)
ReloadKeyStatLast ==
  /\ rl = "key" /\ rl' = "idle"
  /\ loaded' = None /\ statTime' = 0
  /\ IF Matches(loaded, uiKey)
       THEN /\ cert' = loaded /\ modTime' = uiCert.mtime
            /\ proc' = "up" /\ pinned' = pinned \union {fp} /\ UNCHANGED fp
       ELSE /\ UNCHANGED <<cert, modTime, pinned>>
            /\ IF proc = "ui" THEN proc' = "down" /\ fp' = None ELSE UNCHANGED <<proc, fp>>
  /\ UNCHANGED <<diskVars, uiVars, due, sessionVars, missed, faults>>

(* Seeded fault: what could not be loaded is served no longer. *)
ReloadKeyDrops ==
  /\ rl = "key" /\ rl' = "idle"
  /\ loaded' = None /\ statTime' = 0
  /\ IF Matches(loaded, uiKey)
       THEN /\ cert' = loaded /\ modTime' = statTime
            /\ proc' = "up" /\ pinned' = pinned \union {fp} /\ UNCHANGED fp
       ELSE /\ cert' = None /\ UNCHANGED <<modTime, pinned>>
            /\ IF proc = "ui" THEN proc' = "down" /\ fp' = None ELSE UNCHANGED <<proc, fp>>
  /\ UNCHANGED <<diskVars, uiVars, due, sessionVars, missed, faults>>

(* A pair that loads is served from now on.  One that does not ends the     *)
(* process at its start, and later leaves everything as it was.             *)
ReloadKey ==
  /\ rl = "key" /\ rl' = "idle"
  /\ loaded' = None /\ statTime' = 0
  /\ IF Matches(loaded, uiKey)
       THEN /\ cert' = loaded /\ modTime' = statTime
            /\ proc' = "up" /\ pinned' = pinned \union {fp} /\ UNCHANGED fp
       ELSE /\ UNCHANGED <<cert, modTime, pinned>>
            /\ IF proc = "ui" THEN proc' = "down" /\ fp' = None ELSE UNCHANGED <<proc, fp>>
  /\ UNCHANGED <<diskVars, uiVars, due, sessionVars, missed, faults>>

IntervalPasses ==
  /\ ~due /\ due' = TRUE
  /\ UNCHANGED <<diskVars, uiVars, proc, fp, rl, statTime, loaded, cert, modTime, sessionVars,
                 pinned, missed, faults>>

----------------------------------------------------------------------------
(* certbot and its hook, which copies the two files in either order.        *)

others == <<diskVars, proc, fp, reloadVars, sessionVars, pinned, missed, faults>>

Renew ==
  /\ todo = {} /\ target < 1 + MaxRenewals
  /\ target' = target + 1 /\ todo' = {"cert", "key"}
  /\ UNCHANGED <<uiCert, uiKey, others>>

Put(f, content) ==
  IF f = "cert"
    THEN uiCert' = [pair |-> content, mtime |-> uiCert.mtime + 1] /\ UNCHANGED uiKey
    ELSE uiKey' = content /\ UNCHANGED uiCert

Content(f) == IF f = "cert" THEN uiCert.pair ELSE uiKey

CopyBegins(f) ==
  /\ f \in todo /\ Content(f) # Torn
  /\ Put(f, Torn)
  /\ UNCHANGED <<todo, target, others>>

CopyEnds(f) ==
  /\ f \in todo /\ todo' = todo \ {f}
  /\ Put(f, target)
  /\ UNCHANGED <<target, others>>

----------------------------------------------------------------------------
(* Admin sessions                                                           *)

Expired(id) == now > sessions[id]
Without(f, S) == Restrict(f, DOMAIN f \ S)
processVars == <<diskVars, uiVars, proc, fp, reloadVars, pinned, missed, faults>>

(* Seeded fault: the comparison of the sweep is turned around. *)
HandleAdminLoginSweepsLive(id) ==
  /\ proc = "up" /\ id \notin DOMAIN sessions \union refused
  /\ LET kept == Without(sessions, {s \in DOMAIN sessions : ~Expired(s)}) IN
       sessions' = [s \in DOMAIN kept \union {id} |-> IF s = id THEN now + TTL ELSE kept[s]]
  /\ UNCHANGED <<now, refused, processVars>>

(* handleAdminLogin: expired sessions are swept, a new one is made. *)
HandleAdminLogin(id) ==
  /\ proc = "up" /\ id \notin DOMAIN sessions \union refused
  /\ LET kept == Without(sessions, {s \in DOMAIN sessions : Expired(s)}) IN
       sessions' = [s \in DOMAIN kept \union {id} |-> IF s = id THEN now + TTL ELSE kept[s]]
  /\ refused' = refused \union {s \in DOMAIN sessions : Expired(s)}
  /\ UNCHANGED <<now, processVars>>

(* hasAdminSession *)
HasAdminSession(id) == id \in DOMAIN sessions /\ ~Expired(id)

(* A request with a cookie that is no longer good; an expired session goes. *)
Refuse(id) ==
  /\ proc = "up" /\ ~HasAdminSession(id) /\ id \in DOMAIN sessions
  /\ sessions' = Without(sessions, {id})
  /\ refused' = refused \union {id}
  /\ UNCHANGED <<now, processVars>>

(* Seeded fault: only the cookie is cleared. *)
HandleAdminLogoutCookie(id) ==
  /\ proc = "up" /\ id \in DOMAIN sessions
  /\ refused' = refused \union {id}
  /\ UNCHANGED <<sessions, now, processVars>>

HandleAdminLogout(id) ==
  /\ proc = "up" /\ id \in DOMAIN sessions
  /\ sessions' = Without(sessions, {id})
  /\ refused' = refused \union {id}
  /\ UNCHANGED <<now, processVars>>

Tick ==
  /\ now < MaxTime /\ now' = now + 1
  /\ UNCHANGED <<sessions, refused, processVars>>

----------------------------------------------------------------------------
Reload == ReloadStat \/ ReloadCert \/ ReloadKey

ProcessStep == LoadOrCreateCert \/ WriteCert \/ WriteKey \/ Reload

HookStep == \E f \in {"cert", "key"} : CopyEnds(f)

SessionStep ==
  \E id \in Ids : HandleAdminLogin(id) \/ Refuse(id) \/ HandleAdminLogout(id)

ConsoleNext ==
  \/ ProcessStep \/ Crash
  \/ GetCertificate \/ IntervalPasses
  \/ Renew \/ HookStep \/ \E f \in {"cert", "key"} : CopyBegins(f)
  \/ SessionStep \/ Tick

ConsoleSpec == ConsoleInit /\ [][ConsoleNext]_consoleVars

(* systemd restarts the process (Restart=always) and its steps finish, the  *)
(* hook finishes, and the pages of the UI, which poll, keep connecting.     *)
FairConsoleSpec ==
  /\ ConsoleSpec
  /\ WF_consoleVars(ProcessStep) /\ WF_consoleVars(HookStep)
  /\ WF_consoleVars(GetCertificate) /\ WF_consoleVars(IntervalPasses)

----------------------------------------------------------------------------
(* Properties                                                               *)

(* What agents pinned stays valid: through crashes at any point of a start, *)
(* failing writes and reads that fail, the pair an agent was shown is the   *)
(* one on the disk, complete, and the only one agents are shown from then   *)
(* on (tlscert.go:22).  A pair is given up for one reason, that a stat of   *)
(* coordinator.crt failed; if the old pair survived that, it counts again   *)
(* as soon as it has been loaded.                                           *)
PinsStayValid ==
  \A p \in pinned \ missed : crt = p /\ key = p /\ fp \in {p, None}

(* "a half-written renewal must not take the UI down" (tlscert.go:116):     *)
(* while the process is up there is a pair to serve, whatever the hook has  *)
(* left on the disk, and it is one that certbot issued.                     *)
UIHasPair == proc = "up" => cert \in 1..target

(* coordinator.crt is there and will never load. *)
OwnPairLost == crt # None /\ ~Matches(crt, key)

(* A renewal is picked up without a restart, however the copies of the hook *)
(* fall between the steps of a reload, and the process is up in the end,    *)
(* unless its own pair was cut short at the first start.                    *)
RenewalPickedUp == <>[](OwnPairLost \/ (proc = "up" /\ cert = uiCert.pair))

(* A session that was refused, closed or lost is never admitted again.      *)
RefusedForGood == \A id \in refused : ~HasAdminSession(id)

(* A login elsewhere, a renewal or a reload ends nobody's session: one that *)
(* is still good ends by its own logout or with the process.                *)
SessionsKept ==
  [][\A id \in DOMAIN sessions :
       id \notin DOMAIN sessions' => Expired(id) \/ HandleAdminLogout(id) \/ Crash]_consoleVars

(* "generating it on first start" (tlscert.go:22): no agent is ever shown a *)
(* second certificate.  It does not hold of the code (README, Known         *)
(* divergences): a stat that fails for another reason than a missing file   *)
(* is taken for a first start, and the new pair overwrites the old one.     *)
PinsAlwaysValid == \A p \in pinned : \A q \in pinned \union ({fp} \ {None}) : p = q

(* The process comes up again after a crash.  It does not hold of the code  *)
(* (README, Known divergences): a first start cut between the two files     *)
(* leaves a certificate that never loads.                                   *)
ComesUpAgain == <>[](proc = "up")

(* "The UI listener is auxiliary: losing it must not take down the          *)
(* agent-facing listener" (main.go:182).  It does not hold of the code      *)
(* (README, Known divergences): a start during a renewal ends the process   *)
(* before the agents' listener is there.                                    *)
UIIsAuxiliary == [][fp # None /\ fp' = None => Crash]_consoleVars
----------------------------------------------------------------------------
(* The inductive invariant behind the safety properties.                    *)

(* The listener has the pair on the disk, complete, and so has every agent  *)
(* whose pair was not missed; a new pair is written only when there is no   *)
(* such agent.                                                              *)
OwnPair ==
  /\ fp # None <=> proc \in {"ui", "up"}
  /\ fp # None => Matches(crt, key) /\ fp = crt
  /\ \A p \in pinned \ missed : crt = p /\ key = p
  /\ proc \in {"crt", "key"} => pinned \subseteq missed
  /\ proc = "key" => crt \in Pairs

(* The hook writes issued pairs only, so that is all a reload can find.     *)
UIPairs ==
  /\ uiCert.pair \in 1..target \union {Torn}
  /\ loaded \in 1..target \union {None, Torn}
  /\ rl # "idle" => proc \in {"ui", "up"}

SessionsApart == DOMAIN sessions \intersect refused = {}

ConsoleInv == ConsoleTypeOK /\ OwnPair /\ UIPairs /\ UIHasPair /\ SessionsApart
=============================================================================
