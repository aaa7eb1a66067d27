------------------------------- MODULE AppPool -------------------------------
(***************************************************************************)
(* The application pool of puma-dev (dev/app.go): the map from names to    *)
(* running apps, the four goroutines that every app owns (watch,           *)
(* idleMonitor, restartMonitor and the readiness poller), the requests     *)
(* that look an app up, launch it and wait for it, and Purge.              *)
(*                                                                         *)
(* Goroutines run between lock operations, channel operations and signals; *)
(* one action is one such stretch.  `lock' is AppPool.lock.  The critical  *)
(* sections of remove, maybeIdle and Purge touch the map once and are      *)
(* single actions guarded by LockFree; the one of lookupApp spans a        *)
(* LaunchApp, during which the goroutines of the new app already run, and  *)
(* is split in two (LaunchApp, Publish).                                   *)
(***************************************************************************)
EXTENDS Naturals, FiniteSets

CONSTANTS
    Hosts,      \* names of entries of AppPool.Dir that a request may ask for
    Symlinks,   \* the entries that are symlinks to a directory
    Aliased,    \* the symlinks whose name is not the base name of their target
    Canonical,  \* Canonical[h]: the pool key of the target of entry h
    Directory,  \* Directory[k]: the directory behind pool key k
    ProxyHosts, \* the entries that are plain files: "port" or "url" proxies
    Apps,       \* App structs (one per launch, never reused); bounds launches
    Reqs,       \* concurrent requests (handler goroutines)
    Causes,     \* what the environment may do: see CausesAssumption
    None        \* Go's nil

AllCauses == {"exit", "close", "touch", "stat", "idle", "purge"}

(* An entry that is not a symlink is its own key (app.go:517-518).  Keys of *)
(* one directory may differ: its own name, and one per text of a symlink.   *)
ASSUME HostsAssumption ==
    /\ Symlinks \subseteq Hosts
    /\ Aliased \subseteq Symlinks
    /\ ProxyHosts \subseteq Hosts \ Symlinks
    /\ DOMAIN Canonical = Hosts
    /\ \A h \in Hosts \ Symlinks : Canonical[h] = h
    /\ \A h \in Symlinks : Canonical[h] \notin Hosts
    /\ DOMAIN Directory = {Canonical[h] : h \in Hosts \ ProxyHosts}

ASSUME NoneAssumption ==
    None \notin Apps \cup Reqs \cup Hosts \cup {Canonical[h] : h \in Hosts}

(* "exit": a process may exit unasked; "close": it may close its stdout and *)
(* run on; "touch": restart.txt may be touched; "stat": restart.txt may be  *)
(* missing or unwritable; "idle": IdleTime may pass; "purge": SIGUSR1 or a  *)
(* shutdown signal may arrive.                                              *)
ASSUME CausesAssumption == Causes \subseteq AllCauses

(* Keys of AppPool.apps: canonical names and aliases (app.go:517-552).      *)
Names == Hosts \cup {Canonical[h] : h \in Hosts}

(* Where sockets (tmp/puma-dev-<pid>.sock) and restart.txt files are.       *)
Dirs == {Directory[k] : k \in DOMAIN Directory}

Threads == {"watch", "idle", "restart", "poll", "proxy"}

VARIABLES
    lock,     \* AppPool.lock: the request inside LaunchApp, or None
    apps,     \* AppPool.apps: Names -> Apps, None where there is no entry
    key,      \* App.Name
    proc,     \* the process of App.Command
    termed,   \* SIGTERM has been sent to that process
    sock,     \* the process that bound a directory's socket file, or None
    reason,   \* App.t: why the tomb is dying, "alive" while it is not
    ready,    \* App.readyChan is closed
    recent,   \* time.Since(App.lastUse) <= AppPool.IdleTime
    pc,       \* where each goroutine of an app is
    reader,   \* the stdout reader goroutine that watch starts
    changed,  \* restartMonitor has an event for restart.txt to handle
    crashed,  \* watch will return ErrUnexpectedExit
    rpc,      \* where each request is
    host,     \* the name it looks up
    rapp,     \* the app lookupApp gave it
    purging,  \* Purge is running
    snapshot, \* the apps Purge found in the pool
    unkilled, \* those of them it has not killed yet
    cut       \* history: apps whose entry another one's idleMonitor deleted

poolVars  == <<lock, apps, key>>
procVars  == <<proc, termed, sock>>
tombVars  == <<reason, pc, crashed>>
useVars   == <<ready, recent>>
fileVars  == <<reader, changed>>
reqVars   == <<rpc, host, rapp>>
purgeVars == <<purging, snapshot, unkilled>>
rest      == <<purgeVars, cut>>
callers   == <<reqVars, rest>>
vars == <<poolVars, procVars, tombVars, useVars, fileVars, callers>>

ProcStates == {"none", "booting", "listening", "exited", "reaped"}
Reasons    == {"alive", "nil", "err"}
ReqStates  == {"idle", "lookup", "launch", "wait", "proxy"}

(* What a goroutine does next: "off" before it is started, "done" after it  *)
(* has returned, otherwise the step of the function it runs.                *)
Steps == {"off", "select", "signal", "remove", "wait", "remove2", "unlink",
          "tick", "create", "watch", "dial", "dying", "done"}

TypeOK ==
    /\ lock \in Reqs \cup {None}
    /\ apps \in [Names -> Apps \cup {None}]
    /\ key \in [Apps -> Names \cup {None}]
    /\ proc \in [Apps -> ProcStates]
    /\ termed \in [Apps -> BOOLEAN]
    /\ sock \in [Dirs -> Apps \cup {None}]
    /\ reason \in [Apps -> Reasons]
    /\ ready \in [Apps -> BOOLEAN]
    /\ recent \in [Apps -> BOOLEAN]
    /\ pc \in [Apps -> [Threads -> Steps]]
    /\ reader \in [Apps -> {"off", "reading", "sending", "done"}]
    /\ changed \in [Apps -> BOOLEAN]
    /\ crashed \in [Apps -> BOOLEAN]
    /\ rpc \in [Reqs -> ReqStates]
    /\ host \in [Reqs -> Hosts \cup {None}]
    /\ rapp \in [Reqs -> Apps \cup {None}]
    /\ purging \in BOOLEAN
    /\ snapshot \in SUBSET Apps
    /\ unkilled \in SUBSET snapshot
    /\ cut \in SUBSET Apps

Init ==
    /\ lock = None
    /\ apps = [n \in Names |-> None]
    /\ key = [a \in Apps |-> None]
    /\ proc = [a \in Apps |-> "none"]
    /\ termed = [a \in Apps |-> FALSE]
    /\ sock = [d \in Dirs |-> None]
    /\ reason = [a \in Apps |-> "alive"]
    /\ ready = [a \in Apps |-> FALSE]
    /\ recent = [a \in Apps |-> FALSE]
    /\ pc = [a \in Apps |-> [t \in Threads |-> "off"]]
    /\ reader = [a \in Apps |-> "off"]
    /\ changed = [a \in Apps |-> FALSE]
    /\ crashed = [a \in Apps |-> FALSE]
    /\ rpc = [r \in Reqs |-> "idle"]
    /\ host = [r \in Reqs |-> None]
    /\ rapp = [r \in Reqs |-> None]
    /\ purging = FALSE
    /\ snapshot = {}
    /\ unkilled = {}
    /\ cut = {}

------------------------------------------------------------------------------
(* State predicates and the effects that several handlers share.            *)

(* Mutant: nobody takes the pool lock.                                      *)
Unlocked == TRUE

LockFree == lock = None

Running(a) == proc[a] \in {"booting", "listening"}

Dying(a) == reason[a] # "alive"

(* The tomb's dead channel is closed when its last goroutine has returned.  *)
Dead(a) == /\ key[a] # None
           /\ \A t \in Threads : pc[a][t] \in {"off", "done"}

(* tomb.Kill: the first reason sticks, except that nil can be replaced.     *)
Killed(old, new) == IF old = "err" THEN "err" ELSE new

(* A goroutine of a's tomb moves on.                                        *)
Step(a, t, from, to) ==
    /\ pc[a][t] = from
    /\ pc' = [pc EXCEPT ![a][t] = to]

(* A goroutine started by tomb.Go returns err: an error, or being the last  *)
(* one, kills the tomb.                                                     *)
Return(a, t, from, err) ==
    /\ Step(a, t, from, "done")
    /\ reason' = [reason EXCEPT ![a] =
          IF \/ err # "nil"
             \/ \A u \in Threads \ {t} : pc[a][u] \in {"off", "done"}
          THEN Killed(@, err) ELSE @]

(* Process.Signal(SIGTERM): it fails only after Command.Wait has returned,  *)
(* an exited process that was not waited for still takes signals.           *)
SignalFails(a) == proc[a] = "reaped"

Terminate(a) ==
    /\ ~SignalFails(a)
    /\ termed' = [termed EXCEPT ![a] = TRUE]

(* Mutants: remove by name instead of by app; remove of the canonical name  *)
(* only; remove without the lock.                                           *)
WithoutName(a) == [apps EXCEPT ![key[a]] = None]
WithoutCanonical(a) == [apps EXCEPT ![key[a]] = IF @ = a THEN None ELSE @]
RemoveUnlocked(a) ==
    apps' = [n \in Names |-> IF apps[n] = a THEN None ELSE apps[n]]

(* AppPool.remove: every name that still leads to this very app.            *)
Without(a) == [n \in Names |-> IF apps[n] = a THEN None ELSE apps[n]]

Remove(a) ==
    /\ LockFree
    /\ apps' = Without(a)

------------------------------------------------------------------------------
(* The process: the shell, then puma, which binds App.Address().            *)

(* App.Address(): the socket path, one per directory.                       *)
Address(a) == Directory[key[a]]

(* The path is in use while the process that bound it still listens.        *)
InUse(d) == sock[d] # None /\ proc[sock[d]] = "listening"

(* puma replaces a stale socket file and refuses to start on a live one.    *)
Boot(a) ==
    /\ proc[a] = "booting"
    /\ IF InUse(Address(a))
       THEN /\ proc' = [proc EXCEPT ![a] = "exited"]
            /\ UNCHANGED sock
       ELSE /\ proc' = [proc EXCEPT ![a] = "listening"]
            /\ sock' = [sock EXCEPT ![Address(a)] = a]
    /\ UNCHANGED <<poolVars, termed, tombVars, useVars, fileVars, callers>>

(* It exits because it was told to, or on its own; a puma that stops in an  *)
(* orderly way deletes its socket file, a crashed one leaves it behind.     *)
Exit(a) ==
    /\ Running(a)
    /\ termed[a] \/ "exit" \in Causes
    /\ proc' = [proc EXCEPT ![a] = "exited"]
    /\ \/ UNCHANGED sock
       \/ /\ sock[Address(a)] = a
          /\ sock' = [sock EXCEPT ![Address(a)] = None]
    /\ UNCHANGED <<poolVars, termed, tombVars, useVars, fileVars, callers>>

(* IdleTime passes without a request for the app.                           *)
TimePasses(a) ==
    /\ "idle" \in Causes
    /\ recent[a]
    /\ recent' = [recent EXCEPT ![a] = FALSE]
    /\ UNCHANGED <<poolVars, procVars, tombVars, ready, fileVars, callers>>

------------------------------------------------------------------------------
(* App.watch and its reader goroutine.                                      *)

(* The reader sees EOF once nobody has the pipe open for writing any more,  *)
(* and offers it on c: the process is gone, or has closed its stdout.       *)
ReaderEOF(a) ==
    /\ reader[a] = "reading"
    /\ Running(a) => "close" \in Causes
    /\ reader' = [reader EXCEPT ![a] = "sending"]
    /\ UNCHANGED <<poolVars, procVars, tombVars, useVars, changed, callers>>

(* Mutant: the error is lost in a shadowed variable.                        *)
WatchEOFForgets(a) ==
    /\ reader[a] = "sending"
    /\ Step(a, "watch", "select", "signal")
    /\ reader' = [reader EXCEPT ![a] = "done"]
    /\ UNCHANGED <<poolVars, procVars, reason, crashed, useVars, changed,
                   callers>>

(* case err = <-c: the reader and watch meet on the unbuffered channel.     *)
WatchEOF(a) ==
    /\ reader[a] = "sending"
    /\ Step(a, "watch", "select", "signal")
    /\ reader' = [reader EXCEPT ![a] = "done"]
    /\ crashed' = [crashed EXCEPT ![a] = TRUE]
    /\ UNCHANGED <<poolVars, procVars, reason, useVars, changed, callers>>

(* case <-a.t.Dying().                                                      *)
WatchDying(a) ==
    /\ Dying(a)
    /\ Step(a, "watch", "select", "signal")
    /\ UNCHANGED <<poolVars, procVars, reason, crashed, useVars, fileVars,
                   callers>>

(* a.Kill(reason), up to the signal, which cannot fail here: only watch     *)
(* itself waits for the process, later.                                     *)
WatchSignal(a) ==
    /\ Terminate(a)
    /\ Step(a, "watch", "signal", "remove")
    /\ UNCHANGED <<poolVars, proc, sock, reason, crashed, useVars, fileVars,
                   callers>>

(* a.pool.remove(a) inside Kill.                                            *)
WatchKillRemove(a) ==
    /\ Remove(a)
    /\ Step(a, "watch", "remove", "wait")
    /\ UNCHANGED <<lock, key, procVars, reason, crashed, useVars, fileVars,
                   callers>>

(* a.Command.Wait().                                                        *)
WatchWait(a) ==
    /\ proc[a] = "exited"
    /\ Step(a, "watch", "wait", "remove2")
    /\ proc' = [proc EXCEPT ![a] = "reaped"]
    /\ UNCHANGED <<poolVars, termed, sock, reason, crashed, useVars, fileVars,
                   callers>>

(* a.pool.remove(a) once the process is gone.                               *)
WatchRemove(a) ==
    /\ Remove(a)
    /\ Step(a, "watch", "remove2", "unlink")
    /\ UNCHANGED <<lock, key, procVars, reason, crashed, useVars, fileVars,
                   callers>>

(* os.Remove(a.Address()), whoever bound it, and return err.                *)
WatchReturn(a) ==
    /\ Return(a, "watch", "unlink", IF crashed[a] THEN "err" ELSE "nil")
    /\ sock' = [sock EXCEPT ![Address(a)] = None]
    /\ UNCHANGED <<poolVars, proc, termed, crashed, useVars, fileVars,
                   callers>>

------------------------------------------------------------------------------
(* App.idleMonitor.                                                         *)

(* maybeIdle: under the lock, the entry called app.Name is deleted, be it   *)
(* app's or not.                                                            *)
MaybeIdle(a) ==
    /\ LockFree
    /\ ~recent[a]
    /\ apps' = [apps EXCEPT ![key[a]] = None]
    /\ cut' = cut \cup ({apps[key[a]]} \ {a, None})

IdleTick(a) ==
    /\ Step(a, "idle", "tick", "signal")
    /\ MaybeIdle(a)
    /\ UNCHANGED <<lock, key, procVars, reason, crashed, useVars, fileVars,
                   reqVars, purgeVars>>

(* a.Kill("app is idle"), up to the signal; an error ends the monitor too.  *)
IdleSignal(a) ==
    /\ \/ /\ Terminate(a)
          /\ Step(a, "idle", "signal", "remove")
          /\ UNCHANGED reason
       \/ /\ SignalFails(a)
          /\ Return(a, "idle", "signal", "nil")
          /\ UNCHANGED termed
    /\ UNCHANGED <<poolVars, proc, sock, crashed, useVars, fileVars, callers>>

IdleRemove(a) ==
    /\ Remove(a)
    /\ Return(a, "idle", "remove", "nil")
    /\ UNCHANGED <<lock, key, procVars, crashed, useVars, fileVars, callers>>

IdleDying(a) ==
    /\ Dying(a)
    /\ Return(a, "idle", "tick", "nil")
    /\ UNCHANGED <<poolVars, procVars, crashed, useVars, fileVars, callers>>

------------------------------------------------------------------------------
(* App.restartMonitor and watch.Watch.                                      *)

Watching(a) == pc[a]["restart"] \in {"watch", "remove"}

(* A write to the restart.txt of directory d is seen by every app that      *)
(* watches the file, those of earlier launches included.                    *)
FileWritten(d) ==
    changed' = [a \in Apps |->
                   changed[a] \/ (Watching(a) /\ Address(a) = d)]

Touch(d) ==
    /\ "touch" \in Causes
    /\ FileWritten(d)
    /\ UNCHANGED <<poolVars, procVars, tombVars, useVars, reader, callers>>

(* MkdirAll, os.Create, which is itself a write, and the set-up of the      *)
(* watcher: they succeed, or fail.  (On macOS the watchers are told to      *)
(* ignore puma-dev's own writes, watch_darwin.go:31: fewer behaviours.)     *)
RestartCreate(a) ==
    /\ \/ /\ Step(a, "restart", "create", "watch")
          /\ FileWritten(Address(a))
          /\ UNCHANGED reason
       \/ /\ "stat" \in Causes
          /\ Return(a, "restart", "create", "err")
          /\ UNCHANGED changed
    /\ UNCHANGED <<poolVars, procVars, crashed, useVars, reader, callers>>

(* A file event: lastStat is older than any, so a.Kill("restart.txt         *)
(* touched"), up to the signal.  A failed Kill leaves the monitor watching. *)
RestartTouched(a) ==
    /\ changed[a]
    /\ \/ /\ Terminate(a)
          /\ Step(a, "restart", "watch", "remove")
       \/ /\ SignalFails(a)
          /\ Step(a, "restart", "watch", "watch")
          /\ UNCHANGED termed
    /\ changed' = [changed EXCEPT ![a] = FALSE]
    /\ UNCHANGED <<poolVars, proc, sock, reason, crashed, useVars, reader,
                   callers>>

RestartRemove(a) ==
    /\ Remove(a)
    /\ Step(a, "restart", "remove", "watch")
    /\ UNCHANGED <<lock, key, procVars, reason, crashed, useVars, fileVars,
                   callers>>

(* watch.Watch returns: <-done, or an event for a file that is gone.        *)
RestartDying(a) ==
    /\ Dying(a)
    /\ Return(a, "restart", "watch", "nil")
    /\ UNCHANGED <<poolVars, procVars, crashed, useVars, fileVars, callers>>

RestartStatFails(a) ==
    /\ "stat" \in Causes
    /\ Return(a, "restart", "watch", "err")
    /\ UNCHANGED <<poolVars, procVars, crashed, useVars, fileVars, callers>>

------------------------------------------------------------------------------
(* The poller that LaunchApp starts, and the goroutine of a proxy app.      *)

(* net.Dial succeeds as soon as any process accepts on the socket path.     *)
PollDial(a) ==
    /\ Return(a, "poll", "dial", "nil")
    /\ InUse(Address(a))
    /\ ready' = [ready EXCEPT ![a] = TRUE]
    /\ UNCHANGED <<poolVars, procVars, crashed, recent, fileVars, callers>>

(* "app died before booting".                                               *)
PollDying(a) ==
    /\ Dying(a)
    /\ Return(a, "poll", "dial", "err")
    /\ UNCHANGED <<poolVars, procVars, crashed, useVars, fileVars, callers>>

(* Mutant: a goroutine that does not return when its app dies.              *)
ProxyStays(a) == FALSE

ProxyDying(a) ==
    /\ Dying(a)
    /\ Return(a, "proxy", "dying", "nil")
    /\ UNCHANGED <<poolVars, procVars, crashed, useVars, fileVars, callers>>

------------------------------------------------------------------------------
(* Requests: FindAppByDomainName, lookupApp, WaitTilReady, the proxying.    *)

Arrive(r, h) ==
    /\ rpc[r] = "idle"
    /\ rpc' = [rpc EXCEPT ![r] = "lookup"]
    /\ host' = [host EXCEPT ![r] = h]
    /\ UNCHANGED <<poolVars, procVars, tombVars, useVars, fileVars, rapp,
                   rest>>

(* lookupApp gives request r app a; nobody asks for the name any more.      *)
Got(r, a) ==
    /\ rpc' = [rpc EXCEPT ![r] = "wait"]
    /\ rapp' = [rapp EXCEPT ![r] = a]
    /\ host' = [host EXCEPT ![r] = None]

(* Mutant: the map is made anew instead of only when it is nil.             *)
EnteredAlone(h, a) ==
    [n \in {Canonical[h]} \cup ({h} \cap Aliased) |-> a]

(* The entries lookupApp writes: the canonical name, and the alias if any.  *)
Entered(h, a) ==
    [n \in Names |-> IF n = Canonical[h] \/ (n = h /\ h \in Aliased)
                     THEN a ELSE apps[n]]

(* The name asked for is in the pool.                                       *)
LookupHit(r) ==
    /\ rpc[r] = "lookup"
    /\ LockFree
    /\ apps[host[r]] # None
    /\ Got(r, apps[host[r]])
    /\ UNCHANGED <<poolVars, procVars, tombVars, useVars, fileVars, rest>>

(* It is not, but another symlink to the same directory is.                 *)
LookupShared(r) ==
    /\ rpc[r] = "lookup"
    /\ LockFree
    /\ apps[host[r]] = None
    /\ apps[Canonical[host[r]]] # None
    /\ Got(r, apps[Canonical[host[r]]])
    /\ apps' = Entered(host[r], apps[Canonical[host[r]]])
    /\ UNCHANGED <<lock, key, procVars, tombVars, useVars, fileVars, rest>>

Missing(r) ==
    /\ rpc[r] = "lookup"
    /\ LockFree
    /\ apps[host[r]] = None
    /\ apps[Canonical[host[r]]] = None

(* LaunchApp or readProxy returns an error and the request gets a 500.  It  *)
(* is the only way on when every App of the model is used up.               *)
LookupFails(r) ==
    /\ Missing(r)
    /\ rpc' = [rpc EXCEPT ![r] = "idle"]
    /\ host' = [host EXCEPT ![r] = None]
    /\ UNCHANGED <<poolVars, procVars, tombVars, useVars, fileVars, rapp,
                   rest>>

(* cmd.Start and the first tomb.Go, the lock held until Publish.            *)
LaunchApp(r, a) ==
    /\ Missing(r)
    /\ host[r] \notin ProxyHosts
    /\ key[a] = None
    /\ lock' = r
    /\ rpc' = [rpc EXCEPT ![r] = "launch"]
    /\ rapp' = [rapp EXCEPT ![r] = a]
    /\ key' = [key EXCEPT ![a] = Canonical[host[r]]]
    /\ proc' = [proc EXCEPT ![a] = "booting"]
    /\ recent' = [recent EXCEPT ![a] = TRUE]
    /\ reader' = [reader EXCEPT ![a] = "reading"]
    /\ pc' = [pc EXCEPT ![a]["watch"] = "select"]
    /\ UNCHANGED <<apps, termed, sock, reason, crashed, ready, changed, host,
                   rest>>

(* The other goroutines are started, the app is entered under its names and *)
(* the lock is released.                                                    *)
Publish(r) ==
    /\ rpc[r] = "launch"
    /\ Got(r, rapp[r])
    /\ pc' = [pc EXCEPT ![rapp[r]] = [@ EXCEPT !["idle"] = "tick",
                                               !["restart"] = "create",
                                               !["poll"] = "dial"]]
    /\ apps' = Entered(host[r], rapp[r])
    /\ lock' = None
    /\ UNCHANGED <<key, procVars, reason, crashed, useVars, fileVars, rest>>

(* readProxy: no process, one goroutine, ready from the start.              *)
ReadProxy(r, a) ==
    /\ Missing(r)
    /\ host[r] \in ProxyHosts
    /\ key[a] = None
    /\ Got(r, a)
    /\ key' = [key EXCEPT ![a] = Canonical[host[r]]]
    /\ apps' = Entered(host[r], a)
    /\ recent' = [recent EXCEPT ![a] = TRUE]
    /\ ready' = [ready EXCEPT ![a] = TRUE]
    /\ pc' = [pc EXCEPT ![a]["proxy"] = "dying"]
    /\ UNCHANGED <<lock, procVars, reason, crashed, fileVars, rest>>

(* The request is over.                                                     *)
Answered(r) ==
    /\ rpc' = [rpc EXCEPT ![r] = "idle"]
    /\ rapp' = [rapp EXCEPT ![r] = None]

(* WaitTilReady returns nil: on to the proxying.                            *)
WaitReady(r) ==
    /\ rpc[r] = "wait"
    /\ ready[rapp[r]]
    /\ ~Dying(rapp[r])
    /\ recent' = [recent EXCEPT ![rapp[r]] = TRUE]
    /\ rpc' = [rpc EXCEPT ![r] = "proxy"]
    /\ UNCHANGED <<poolVars, procVars, tombVars, ready, fileVars, host, rapp,
                   rest>>

(* Mutant: WaitTilReady only waits for readyChan.                           *)
WaitDyingNever(r) == FALSE

(* WaitTilReady returns a.t.Err(): nil, too, if the tomb was killed by nil. *)
WaitDying(r) ==
    /\ rpc[r] = "wait"
    /\ Dying(rapp[r])
    /\ \/ /\ reason[rapp[r]] = "nil"
          /\ rpc' = [rpc EXCEPT ![r] = "proxy"]
          /\ UNCHANGED rapp
       \/ /\ reason[rapp[r]] = "err"
          /\ Answered(r)
    /\ UNCHANGED <<poolVars, procVars, tombVars, useVars, fileVars, host,
                   rest>>

(* The backend has answered or could not be reached.                        *)
Proxied(r) ==
    /\ rpc[r] = "proxy"
    /\ Answered(r)
    /\ UNCHANGED <<poolVars, procVars, tombVars, useVars, fileVars, host,
                   rest>>

------------------------------------------------------------------------------
(* AppPool.Purge.                                                           *)

PurgeSnapshot ==
    /\ "purge" \in Causes
    /\ ~purging
    /\ LockFree
    /\ purging' = TRUE
    /\ snapshot' = {apps[n] : n \in Names} \ {None}
    /\ unkilled' = snapshot'
    /\ UNCHANGED <<poolVars, procVars, tombVars, useVars, fileVars, reqVars,
                   cut>>

PurgeKill(a) ==
    /\ a \in unkilled
    /\ reason' = [reason EXCEPT ![a] = Killed(@, "nil")]
    /\ unkilled' = unkilled \ {a}
    /\ UNCHANGED <<poolVars, procVars, pc, crashed, useVars, fileVars,
                   reqVars, purging, snapshot, cut>>

(* Mutant: Purge kills the apps and does not wait for them.                 *)
PurgeDoneAtOnce ==
    /\ purging
    /\ unkilled = {}
    /\ purging' = FALSE
    /\ snapshot' = {}
    /\ UNCHANGED <<poolVars, procVars, tombVars, useVars, fileVars, reqVars,
                   unkilled, cut>>

(* Every app.t.Wait() has returned.                                         *)
PurgeDone ==
    /\ purging
    /\ unkilled = {}
    /\ \A a \in snapshot : Dead(a)
    /\ purging' = FALSE
    /\ snapshot' = {}
    /\ UNCHANGED <<poolVars, procVars, tombVars, useVars, fileVars, reqVars,
                   unkilled, cut>>

------------------------------------------------------------------------------
Process(a) == Boot(a) \/ Exit(a) \/ TimePasses(a)

Watch(a) == \/ WatchEOF(a) \/ WatchDying(a) \/ WatchSignal(a)
            \/ WatchKillRemove(a) \/ WatchWait(a) \/ WatchRemove(a)
            \/ WatchReturn(a)

Idle(a) == IdleTick(a) \/ IdleSignal(a) \/ IdleRemove(a) \/ IdleDying(a)

Restart(a) == \/ RestartCreate(a) \/ RestartTouched(a) \/ RestartRemove(a)
              \/ RestartDying(a)

Poll(a) == PollDial(a) \/ PollDying(a)

Lookup(r) == \/ LookupHit(r) \/ LookupShared(r) \/ LookupFails(r)
             \/ \E a \in Apps : LaunchApp(r, a) \/ ReadProxy(r, a)
             \/ Publish(r)

Wait(r) == WaitReady(r) \/ WaitDying(r)

Purge == PurgeSnapshot \/ (\E a \in Apps : PurgeKill(a)) \/ PurgeDone

Next ==
    \/ \E a \in Apps : \/ Process(a) \/ ReaderEOF(a) \/ Watch(a) \/ Idle(a)
                       \/ Restart(a) \/ RestartStatFails(a) \/ Poll(a)
                       \/ ProxyDying(a)
    \/ \E d \in Dirs : Touch(d)
    \/ \E r \in Reqs : \/ \E h \in Hosts : Arrive(r, h)
                       \/ Lookup(r) \/ Wait(r) \/ Proxied(r)
    \/ Purge

Spec == Init /\ [][Next]_vars

(* What the Go scheduler, the kernel and puma are trusted with: every       *)
(* goroutine that can move eventually does, a process eventually binds its  *)
(* socket or exits, a process that got SIGTERM eventually exits, and no     *)
(* child of it keeps its stdout open for ever.  Go's select picks at        *)
(* random, so a monitor that is woken again and again still sees that its   *)
(* app is dying.                                                            *)
(* Nothing makes a client call, a file change or a signal to puma-dev       *)
(* arrive, nor a process exit unasked.                                      *)
Fairness ==
    /\ \A a \in Apps :
          /\ WF_vars(Boot(a)) /\ WF_vars(termed[a] /\ Exit(a))
          /\ WF_vars(~Running(a) /\ ReaderEOF(a)) /\ WF_vars(Watch(a))
          /\ WF_vars(Idle(a)) /\ WF_vars(RestartDying(a))
          /\ WF_vars(RestartCreate(a) \/ RestartRemove(a))
          /\ WF_vars(Poll(a)) /\ WF_vars(ProxyDying(a))
    /\ \A r \in Reqs : WF_vars(Lookup(r)) /\ WF_vars(Wait(r))
    /\ WF_vars(\E a \in Apps : PurgeKill(a)) /\ WF_vars(PurgeDone)

FairSpec == Spec /\ Fairness

------------------------------------------------------------------------------
(* Safety.                                                                  *)

(* Once watch is past its remove, no name leads to the app any more, and no *)
(* lookup can bring it back: a request never joins an app whose process has *)
(* been waited for (app.go:145-150 against lookupApp's critical section).   *)
ClosedStaysOut ==
    \A a \in Apps : pc[a]["watch"] \in {"unlink", "done"} =>
        \A n \in Names : apps[n] # a

(* LaunchApp never calls tomb.Go on a tomb whose goroutines have all        *)
(* returned, which would panic: watch may run to its end before the other   *)
(* goroutines are started, were it not for the pool lock (app.go:331-337).  *)
NoGoAfterDead ==
    \A r \in Reqs : rpc[r] = "launch" => ~Dead(rapp[r])

(* An app that runs and was not told to stop is found under its key, so     *)
(* that the next request uses it and launches no second one on the same     *)
(* socket; its own idle monitor may be about to signal it (app.go:455).     *)
NoOrphan ==
    \A a \in Apps :
        \/ ~Running(a) \/ termed[a]
        \/ \E r \in Reqs : rpc[r] = "launch" /\ rapp[r] = a
        \/ pc[a]["idle"] = "signal"
        \/ apps[key[a]] = a

(* An app that was launched and never signalled, whatever its process does, *)
(* is lost to later requests in one way only: the idle monitor of another   *)
(* app deleted its entry (app.go:446, 548, 601).                            *)
OnlyCutAppsAreLost ==
    \A a \in Apps :
        \/ key[a] = None \/ termed[a]
        \/ \E r \in Reqs : rpc[r] = "launch" /\ rapp[r] = a
        \/ pc[a]["idle"] = "signal"
        \/ apps[key[a]] = a
        \/ a \in cut

(* A symlink to a directory leads to the app that the directory's canonical *)
(* name leads to, unless an idle monitor has deleted the canonical name:    *)
(* its own, which then removes the symlink's name too, or another app's,    *)
(* after which only the end of the app does (app.go:446, 520, 600).         *)
AliasesAgree ==
    \A h \in Hosts : apps[h] # None =>
        \/ apps[h] = apps[Canonical[h]]
        \/ pc[apps[h]]["idle"] \in {"signal", "remove"}
        \/ apps[h] \in cut

(* A request waits for an app only as long as somebody will wake it: the    *)
(* poller dials on, and the app's watch either still listens for the end of *)
(* the process or is on its way to end the tomb with an error               *)
(* (app.go:132-156, 196-210, 337-362).                                      *)
WaitersAreWoken ==
    \A r \in Reqs : rpc[r] = "wait" =>
        LET a == rapp[r] IN
        \/ ready[a] \/ Dying(a)
        \/ /\ pc[a]["poll"] = "dial"
           /\ \/ /\ pc[a]["watch"] = "select"
                 /\ reader[a] \in {"reading", "sending"}
              \/ pc[a]["watch"] # "done" /\ crashed[a]

(* An entry is never handed from one app to another in one step, and it is  *)
(* only taken out when its app has been signalled or an idle monitor        *)
(* decides so: its own, or one whose app is itself being stopped or lost    *)
(* (app.go:446, 548, 601).                                                  *)
EntryFate ==
    [][\A n \in Names : apps[n] # None /\ apps'[n] # apps[n] =>
          /\ apps'[n] = None
          /\ \/ termed[apps[n]]
             \/ \E b \in Apps : /\ key[b] = n
                                /\ pc[b]["idle"] = "tick"
                                /\ pc'[b]["idle"] = "signal"
                                /\ b = apps[n] \/ termed[b] \/ b \in cut]_vars

(* When Purge returns, every app it found that has a process has had it     *)
(* signalled and waited for, and no name leads to it (app.go:637-641).      *)
PurgeStops ==
    [][purging /\ ~purging' =>
          \A a \in snapshot : proc[a] # "none" =>
              /\ termed[a] /\ proc[a] = "reaped"
              /\ \A n \in Names : apps[n] # a]_vars

(* An app that is booted again after a stop can be reached: while it        *)
(* listens, the socket file at its address is its own (app.go:101-102).     *)
SocketStays ==
    \A a \in Apps :
        proc[a] = "listening" /\ ~termed[a] => sock[Address(a)] = a

(* Liveness.                                                                *)

(* An app that was sent SIGTERM, by whichever goroutine, is cleaned up: all *)
(* of its goroutines return and Wait on its tomb does too.                  *)
KilledAppsDie == \A a \in Apps : termed[a] ~> Dead(a)

(* Purge does not hang on an app in any state (app.go:637-639).             *)
PurgeReturns == purging ~> ~purging

(* A request is answered or reaches the app, even if IdleTime never passes, *)
(* unless it waits for an app whose socket file was unlinked while it       *)
(* listens (app.go:148-150, 196-210): nothing else holds a request up.      *)
SocketLost(a) == proc[a] = "listening" /\ sock[Address(a)] # a

RequestsGoOn ==
    \A r \in Reqs : rpc[r] \in {"lookup", "launch", "wait"} ~>
                    \/ rpc[r] \in {"idle", "proxy"}
                    \/ rpc[r] = "wait" /\ SocketLost(rapp[r])

=============================================================================
