# puma-dev in TLA+

puma-dev is a development server: it receives every request for `*.test`,
finds the directory or proxy that the host name stands for, launches the app
with puma if it is not running, proxies the request to it, and stops apps that
are idle, crashed or told to restart. These modules model the concurrent core
of it, taken from the Go source. TLC checks them on small instances, and TLAPS
proves every safety property that the runs check for every instance.

## 1. Inventory

| Component | State | Operations | Talks to |
|---|---|---|---|
| Application pool `dev/app.go` | `AppPool.apps` (name → app) behind `AppPool.lock`; per app its process, tomb, `readyChan`, `lastUse`, socket file, log | `lookupApp`, `LaunchApp`, `readProxy`, `remove`, `maybeIdle`, `Purge`, `ForApps`; the goroutines `watch`, `idleMonitor`, `restartMonitor` and the poller | called by every request, by the signal handlers and `/status`; adds events; starts and signals processes |
| File watcher `watch/` | the first `Stat` and a watch of the inode (inotify, Linux) or of the path (fsevents, macOS) | `Watch` | called by `restartMonitor` |
| Line buffer `linebuffer/` | a ring, its cursor and its lazily set size, behind a mutex | `Append`, `Do`, `WriteTo` | the log of an app, and the events |
| Events `dev/events.go`, `dev/rpc_events.go` | the ring of events | `Add`, `WriteTo`, `handleEvent` | line buffer, websocket hub |
| Websocket hub `dev/websockets/` | the set of clients; per client a connection and two buffered channels | `Run`, `Serve`, `Broadcast`, `readPump`, `writePump`, `listen` | fed by `handleEvent` |
| HTTP front end `dev/http*.go` | the sorted domains | `ServeHTTP`, `removeTLD`, `/status`, `/events`, static files, the reverse proxies | the pool |
| RPC server `dev/rpc_*.go` | listeners, routes, the hub | `StartRPC`, handlers for apps, logs, purge and consoles | the pool, the hub |
| RPC console `dev/rpc_console_prog.go` | a process on a pty and its connections | unfinished: nothing calls `Start` | RPC handlers |
| Certificates `dev/ssl*.go` | CA key and certificate on disk, the login keychain, `CACert`, a cache of leaf certificates | `SetupOurCert`, `TrustCert`, `GetCertificate` | `main`, `InstallIntoSystem`, TLS listeners; other instances, through the disk |
| DNS `dev/dns.go`, `dev/resolver.go` | domains, files in `/etc/resolver` | `handleDNS`, `Serve`, `ConfigureResolver` | `main`; `Uninstall` removes the files |
| Commands and start-up `cmd/puma-dev/` | flags | `main`, signal handlers, `link`, `-stop` | everything |
| Installation `dev/setup_darwin.go`, `dev/launch/`, `homedir/` | the launchd job and its property list | `InstallIntoSystem`, `Uninstall`, sockets of launchd | launchd, certificates, the daemon |
| Documentation site `docs/js/`, assets of an example app in `etc/` | - | vendored libraries and page effects | no part of the program |

What is hard about it, and what therefore has to be right:

* *The pool.* An app dies through one of five goroutines, or by itself, while
  requests look it up, join it, wait for it and launch its successor. One
  directory can have several names (symlinks), and every launch in a directory
  uses the same socket path, whatever key it was launched under. No dead app
  may be found; a live one may be lost, and aliases may disagree, only where
  the idle monitors make it so; every wait must end; `Purge` must return.
* *The ring.* A reader holds the mutex through arbitrarily slow writes.
* *The hub.* `Run` closes channels that other goroutines send on. A client
  that falls behind must be dropped and neither skipped nor waited for.
* *The event path.* An event is added with the pool lock held, goes through
  the ring's mutex and an unbuffered channel to `Run`, and the hub exists only
  from a certain point of the start-up on.
* *Names.* One request makes several lookups, and the pool lock is free
  between any two of them; the directory may be edited at any time.
* *The CA.* Several instances (the daemon that launchd restarts for ever, an
  install, an uninstall, a run in the foreground) share two files and the
  keychain without a lock, and each may end at any step. The next one has only
  the disk to go by.
* *The watcher.* The file is read, then watched, then read again after a
  notification, and is touched, removed and replaced meanwhile.

`PROJECT.json` lists the hazards one by one, at their lines.

## 2. Plan

| Step | Module | Abstract specification | State |
|---|---|---|---|
| 1 | `AppPool`, `AppPoolProofs`, `AppPoolMapProofs` | - | done: modelled, checked, eight theorems |
| 2 | `LineBuffer` | `BoundedLog` | done: refinement checked |
| 3 | `Hub` | - | done: modelled and checked |
| 4 | `EventPath`, composing pool lock, ring and hub as the two modules above promise them | - | done: modelled and checked |
| 5 | `HostNames` | the reference definitions `Stripped`, `Leads` | done: modelled and checked |
| 6 | `Certificates` (SetupOurCert step by step), composed by `Installation` into instances that come, crash and go | - | done: modelled and checked |
| 7 | `Watch`, both systems | - | done: modelled and checked |
| 8 | RPC listeners and handlers, consoles, shutdown (`Purge`, then `os.Exit`) | - | open: little state of their own, see section 7 |
| 9 | `LineBufferProofs` | `BoundedLog` | done: three theorems, the refinement among them |
| 10 | `HubProofs`, `EventPathProofs` | - | done: four theorems each |
| 11 | `WatchProofs`, `InstallationProofs` | - | done: three and four theorems |
| 12 | `HostNamesProofs` | the reference definitions | done: four theorems |

No module has a `RECURSIVE` operator, so every one of them can be proved about.

## 3. The modules and the code

**AppPool.** One action is one stretch of a goroutine between two operations
that others can observe (lock, channel, signal, file). `remove`, `maybeIdle` and
`Purge`'s snapshot touch the map once under the lock and are single actions
guarded by `LockFree`; `lookupApp` is one action when it finds an entry, and two
when it launches (`LaunchApp` takes the lock and starts the process and `watch`,
`Publish` starts the other goroutines, enters the names and unlocks), because
the new app's goroutines run meanwhile. `pc[a][t]` says what goroutine `t` of
app `a` does next. The tomb is `reason` (alive, killed with nil, killed with an
error; the first that is not nil sticks) and `Dead` (all its goroutines have
returned). A directory may have several keys, its own name and one per text of a
symlink to it (`app.go:521-531`), and has one socket path and one restart.txt:
`Directory` maps keys to directories. `sock[d]` is the process that bound the
socket file of directory `d`: a later launch takes it over, an earlier one's
clean-up unlinks it, whoever's it is. A second process on a path that is served
already exits, as puma does. The reader of an app's output sees the end of it
once the process is gone, maybe later (a child may keep the pipe open for a
while), and with the cause `"close"` also of a process that runs on, which
`watch` then signals. A request gives up its name when the lookup has ended
(`host` is `None`). `cut` is a history variable: the apps whose entry the idle
monitor of another app has deleted. `recent` abstracts `time.Since(lastUse) <=
IdleTime`. App structs are the model values `Apps`, never used twice, so their
number bounds the launches: when none is left `LookupFails` stands for
`LaunchApp` returning an error, which it may do at any time. `Causes` says what
the environment may do in an instance. One `Purge` runs at a time (two signal
handlers and an RPC handler may call it; each would wait for the same tombs). An
entry whose symlink has the same base name as its target is entered only under
the canonical name, as in the code.

**LineBuffer, BoundedLog.** `Append` is one action; `Do` and `WriteTo` take one
action per line, since each line is a write to a client, and may fail at any
of them. The size is set by the first `Append`, the cursor is zero-based as in
the code. `BoundedLog` is what a user of the buffer relies on: the last
`Capacity` lines, read as of one moment. The refinement maps `log` to the lines
in ring order from the cursor.

**Hub.** `Run` is not a process of its own: each meeting of `Run` with another
goroutine on an unbuffered channel is one action (`Serve`, `Unregister`,
`Broadcast`). A client's `recv` and `send` are a counter and a sequence. A send
on a closed channel sets `panicked` and stops the program. Every client is
subscribed to `"*"` (`rpc_events.go:20`), so tags are left out. `Stop`,
`UnregisterAll` and `shutdown` have no caller that a route leads to.

**EventPath.** The goroutines that add events (requests inside `lookupApp`, an
app's output, a purge on SIGUSR1), `/status`, `/events`, and `main`'s order of
start-up. The ring is its mutex and the list of what was appended; the hub is
the list of what `Run` took, which `Hub`'s `BroadcastsReturn` justifies: no
client holds `Run` up. Any event may turn out to be no JSON (a path,
an error or a line that `%#v` quotes otherwise) and is then dropped by
`handleEvent`.
A lookup adds one event; the code adds up to four, each in the same way.
A panic in a request is recovered by net/http, with the lock released by the
deferred `Unlock`. `CallsStartRPC` tells macOS from Linux.

**HostNames.** A host is the sequence of its labels, the port taken off; "" is
the sequence of one empty label, so that a trailing dot is what it is in Go.
`removeTLD`, `pruneSub` and the sort are translated as they stand. A `lookupApp`
is one action, or two if it looks at the directory twice, first for the name
(`InPool`, `InDirectory`, `TryNested`) and then for the nested path that the
dashes may stand for (`InNested`): it holds the lock of the pool meanwhile (no
app is entered or removed), which keeps nobody from editing the directory. The
lookups of other requests are one action (`Launched`). A path of the directory
is an app or proxy, something that fails otherwise than by not existing (a parse
error, ENOTDIR below a proxy's file), a dangling link, or nothing. A name in the
map answers whatever the directory says. `since`, `missed` and `ever` are
history variables for the properties: the names that were there since the
request arrived, and in which way (themselves, or as a nested path); those that
were missing at some time; and all that names led to. Which names enter the map
is AppPool's subject: here an app is under its name.

**Watch.** `restartMonitor` and `watch.Watch`, one action per system call. The
two systems differ in one thing, which the variable `byPath` tells: inotify
watches the inode, so that a file moved over restart.txt is not watched any
more, fsevents watch the path. A notification that is queued while another one
is changes nothing, since the monitor reads the file afterwards: `event` is one
bit. `Receive` and the `Stat` after it are two steps. A write leaves the file with
any time: a `touch` with the present one, which may be that of the write before
it, but `touch -d`, `cp -p`, or `mv` of another file over it also with an
older one; so does the monitor's own `os.Create`, since a clock may be set back.
`Files` are the inodes the path has had; that one which was replaced or removed
is moved back is left out. `AppPool` keeps a coarser monitor, in
which every notification finds the file newer.

**Certificates, Installation.** macOS; on Linux `TrustCert` only prints, and
nothing is installed. `Certificates` has the steps of `SetupOurCert` for an
instance `p`, separated where another instance or a crash can come between:
`tls.LoadX509KeyPair` reads two files one after the other; each file is cut off
when it is opened, and written later. A CA is key and certificate in one, so
that a pair is valid when both files hold the same. A file that cannot be read,
for whatever reason, counts as torn (`ssl.go:101` looks at no error), and the
set-up goes on to make a pair over a good one. `pem.Encode`'s result is ignored
by the code, so a failed write goes on. When two instances have the same file
open (`shared`), or it was removed meanwhile, what is in it in the end may be
either's, torn, or nothing new. A CA that nothing refers to any more may be
"generated" again, which keeps the set `CAs` small. `Installation` adds what
`main` does around it: `ConfigureResolver` before it; `InstallIntoSystem` after
it (the property list, unload, load); `Uninstall` instead of it (unload, the
domains' files, the keychain, then SupportDir). `Tlds` gives each instance the
domains of its own `-d`; an install's are the daemon's (as if every install had
the same `-d`), and an uninstall only tries its own (`src/README.md:74`).
`launchctl unload` ends the job at once but its process later (`told`), or
fails; so may the removal of any domain's file and of SupportDir, and the code
ignores all of these errors. `Untrust` stands for a shell loop that tries to
delete every certificate and returns the last one's status: any subset may be
left, and the result is success if the last one went. `abandoned` (CAs on disk
that are not trusted, and why), `blind` (set-ups that do not know of the pair on
disk: they began before it was complete, or failed to read it), `disturbed` and
`failed` (something started up, or failed, during an uninstall) are history
variables: they say exactly when a property may fail to hold.

The `MC*` modules hold the instances. Definitions whose comment begins with
"Mutant" are plausible mistakes in the definition that follows them; replacing
it by the mutant makes the property named in `PROJECT.json` fail.

## 4. The runs

| Run | Instance | Shows |
|---|---|---|
| `pool_links` | one directory under two symlinks, one of them an alias; 1 request after the other, 2 launches; processes exit or close their output, idle monitors | `TypeOK`; `tomb.Go` is never called on a dead tomb (`NoGoAfterDead`); an app that nobody signalled is lost only by the idle monitor of another app (`OnlyCutAppsAreLost`), and aliases lead where the canonical name leads but for an idle monitor's deletion (`AliasesAgree`); an app whose process was waited for is under no name (`ClosedStaysOut`); a waiting request has somebody to wake it (`WaitersAreWoken`); what an entry may become (`EntryFate`) |
| `pool_live` | a directory and a proxy, 1 request after the other, 1 App, every cause at once | an app that was signalled, its process running or gone, is cleaned up (`KilledAppsDie`); a request goes on (`RequestsGoOn`); `Purge` returns (`PurgeReturns`), and what it found is then stopped and gone (`PurgeStops`) |
| `linebuffer` | zero `Size`, capacity 3, 2 readers | `RingInv`; the ring implements `BoundedLog` |
| `hub` | a silent and a talkative client, 1 caller, channels of 1, 2 messages | only frames of a client can lead to a panic; channels are closed exactly when the client is forgotten; no gaps; broadcasts return; gone clients are forgotten |
| `events` | 2 lookups, an app's output, a purge, `/status`, `/events`, 2 events | nothing is lost or sent twice; lookups reach the hub in ring order; only signals during start-up meet a missing hub; lookups and `/status` return unless a client of `/events` stops reading |
| `names` | 3 domains, 8 hosts, 5 paths in any state, 2 edits, apps starting and stopping | the longest domain is taken off; the most specific name answers; the answer was there; lookups end |
| `installation` | the daemon, one run in the foreground with a second domain, one install, one uninstall; 6 CAs; 2 faults | a pair taken for trusted is so, but in four cases (`AssumedTrustHolds`, section 6); no crash, restart or refusal destroys a valid pair, only a set-up that does not know of it does (`CaKept`); unless something fails or starts up meanwhile, the files are removed only when the keychain has forgotten every CA and the uninstall's domains are gone (`UninstallForgets`); a loaded daemon comes up whatever is on the disk (`DaemonComesUp`) |
| `watch` | both systems, 3 inodes, 4 times | a newer file is overlooked only if it was written before the registration, or after one that was no newer had taken the watched one's place (`OnlyEarlyTouchesAreLost`); the monitor's own file and notifications without a write restart nothing (`NoSpuriousRestart`); a touch ends in a restart or in the monitor's end (`TouchRestarts`) |
| `v_orphan`, `v_socket`, `v_hub`, `v_linux` | see section 6 | each is violated, by what the code does |

*Bounds.* Two launches are what the pool's hazards need: an app and the
successor that shares its key and socket path; a third launch only repeats the
second's relation to the first. One request can follow another in the same
goroutine, and the goroutines of two apps interleave with it in `pool_links`;
that several requests contend for the lock, or wait for one app, is left to the
theorems, which hold for any number. The idle monitors are at work in both pool
runs: in `pool_links` they are what the properties are about. Causes that only
add one more goroutine which signals an app (a touch, a purge) are left to
`pool_live`, which has all of them, with a single launch: an app and a proxy do
not meet in it. With one App nobody unlinks a successor's socket, so the
exception `SocketLost` of `RequestsGoOn` is never used there; `v_socket` shows
why it is needed with two, and `WaitersAreWoken` has two. `v_orphan` needs a
touch and an idle monitor, `v_socket` two keys of one directory.

A channel of one slot is full after one message, and a second message then meets
the full channel. Three lines wrap the ring. Two events are the least that can
be in a wrong order. The directory of `names` starts in any state; two edits
move a link from one path to another, and cover a name that appears or vanishes
between any two looks. In `installation`, two instances that set up at once are
what it takes to mix a pair; the daemon, which is loaded by the install's last
step, and one run can be no more than two. A second run makes three, and without
any fault eight times as many states; what three can do is left to the theorems
(section 5). Two faults are one that breaks the pair and one that hits its
repair, such as a torn write and a refused dialog, or a read error and a failed
deletion; six CAs suffice: in every reachable state in which a pair is to be
made one of them is unused. In `watch`, three inodes are the file of an earlier
launch or none, the monitor's and one that replaces it; four times are older
than, equal to and newer than that of the first Stat, and one more. The theorems
of section 5 have no bounds; where they assume more than the constants'
assumptions, section 5 says so.

*Deadlock* is checked in the pool and ring runs. Not in `hub`, `v_hub`,
`v_linux`, `events`, `names`, `installation` and `watch`: there, connections
that are used once, the bound on messages, a panic or the end of the one
request, of the commands or of the monitor leave nothing to do.

*Symmetry* is used only in runs without liveness properties.

*Fairness.* Weak fairness on each goroutine's own steps: the Go scheduler runs
what can run. Two monitors are fair about `Dying` although they can be woken
otherwise, because `select` chooses at random among the ready cases. In
`EventPath` taking a mutex is strongly fair: Go's `sync.Mutex` hands the lock to
a goroutine that has waited for a millisecond. A process eventually listens or
exits, exits after SIGTERM, and no child of it keeps its output open for ever:
that is trusted, not code in this repository.
launchd restarts the job it has loaded (`KeepAlive`), and a set-up that has begun
goes on: that includes that
somebody answers the keychain's dialog, for which `SetupOurCert` waits. The
monitor's goroutine runs and notifications reach it.
Nothing else is assumed of users, clients, signals, file changes, crashes or idling,
except that a client of `/events` that has not stopped reading gets all of it.

## 5. What is proved

Every invariant and every action property of the passing runs, and the one
refinement, is also a theorem, for all values of the constants that the named
assumptions admit. `PROJECT.json` lists which theorem states which property.
Each proof module has an inductive invariant `IInv` (or several that build on
each other), a lemma `Init => IInv`, one that each step preserves it, and
theorems that follow from these by temporal logic.

### The application pool

`AppPoolProofs` and `AppPoolMapProofs` prove, for every set of hosts, symlinks,
proxies, launches, requests and causes, from `HostsAssumption` (how names and
keys relate), `NoneAssumption` (nil is nothing else) and `CausesAssumption`:

* `TypeCorrect`: `Spec => []TypeOK`
* `ClosedAppsStayOut`: `Spec => []ClosedStaysOut`
* `LaunchNeverPanics`: `Spec => []NoGoAfterDead`
* `PurgeStopsApps`: `Spec => PurgeStops`, an action property
* `EntriesFate`: `Spec => EntryFate`, an action property
* `AliasesLeadAlike`: `Spec => []AliasesAgree`
* `LostAppsWereCut`: `Spec => []OnlyCutAppsAreLost`
* `NoLostWakeup`: `Spec => []WaitersAreWoken`

`ClosedStaysOut` is not inductive. A state in which `watch` is past its `remove`
and a lookup is about to enter the app satisfies it, and the next does not.
The strengthening is `IInv == TypeOK /\ Launching /\ Unlaunched /\
Withdrawn`: while a request is between starting the process and entering
the app it holds the pool lock, and the app's `watch` is at most at the `remove`
that needs this lock (`Launching`); an App struct not yet launched has no
goroutines (`Unlaunched`), so a fresh app cannot be one that was closed; and an
app is under no name from `watch`'s first `remove` on, not only from the second
(`Withdrawn`, of which `ClosedStaysOut` is the part that the code says). The
same invariant gives `NoGoAfterDead`: `watch` has not returned, so the tomb is
not dead. One lemma per conjunct proves that it is preserved, by cases on the
actions; `QuietStep` and `MonitorStep` dispose of the many actions that leave
the map alone.

`PurgeStops` needs more: `Stopping` says where the process of an app stands at
each step of its `watch` (it runs or has exited until `watch` has waited for
it, and is reaped from then on), and that whichever goroutine is past its
signal has sent it. Only `PurgeDone` ends a Purge (`PurgingStays`), and it waits
for every app of the snapshot to be `Dead`. Then `watch` is done, hence the
process was signalled and reaped and, by `ClosedStaysOut`, is under no name.

`EntriesFate` rests on `Entering`: the names an app is launched for are free and
stay so, because its request has the lock (`LaunchStep`). With it `MapChange`
sorts every step into one that leaves the map alone, a `remove` of an app that
was signalled, a `maybeIdle`, and an entry under names that were free or led to
the app already. `CarriedStep` says what else may happen to an app in a step, and
`CutGrows` that the history of the idle monitors' deletions only grows. The
other two invariants follow together: a `remove` takes every name of an app, an
entry gives an app both names, so only `maybeIdle` can separate an alias from
the canonical name or an app from its key. It does so to the monitor's own app,
which that monitor then signals and removes (the exception by `pc`), or to
another one, which is then in `cut`.

`NoLostWakeup` needs an invariant of its own (`Waking`). An app that is found in
the map or waited for is ready or has had its poller and `watch` started; a
poller that has returned has closed `readyChan` or left a dying tomb; and `watch`
listens for the end of the output until it is dying or knows that it will
return an error. `StillWoken` disposes of the steps that touch none of this.

### The line buffer

`LineBufferProofs`, from `SizeAssumption` and what the module assumes of
`None`: `TypeCorrect`, `RingCorrect` (`Spec => []RingInv`), and `RingIsLog`
(`Spec => ImplementsLog`: the ring implements `BoundedLog`). `RingInv` needs
`Fresh`: while the mutex is free no `Do` has handed anything out, so an
`Append`, which needs the mutex, changes nothing that a reader is in the
middle of. The refinement goes action by action. An `Append` into a ring that
is not full lengthens the log, one into a full ring moves it by one; a line
handed out is a stutter; the end of a `WriteTo` returns a prefix of the log.

### The hub

`HubProofs`: `TypeCorrect`, `OnlyTalkersPanic` (`[]SilentClientsAreSafe`),
`ClosedWhenForgotten` (`[]ClosedIffForgotten`), `NoGaps` (`[]GapFree`). The
three safety invariants are preserved together only. `Quiet` says that who
sends no frame has an empty `recv`, and neither `readPump` nor `listen` about
to send for it; `Unserved`, that a connection not yet
accepted has left no trace; `Once`, that no message is offered or accepted
twice, without which "from where the client joined" would have no meaning.
What `writePump` strings together is a recursive function (`EventsUpTo`). The
facts about it that the proof needs (it keeps the order, it splits at an
append) are shown by the least number at which one of them would fail, since
the library's induction theorem cannot be instantiated here.

### The event path

`EventPathProofs`: `TypeCorrect`, for every system. The other three theorems
assume `CallsStartRPC`, that is macOS (`main_darwin.go:191`): on Linux they are
false, which is what `v_linux` shows. They are `HubBeforeServers`
(`[]OnlySignalsPanic`), `EveryEventCounted` (`[]NothingLost`) and
`LookupsKeepOrder` (`[]LookupOrder`). The invariant: `main` starts the servers
after the hub (`Wired`); a request has an event in hand only while it holds
the pool lock (`Held`); what was appended and not sent is in the hands of the
goroutine that appended it (`Hands`) and comes after everything sent that it
must not overtake (`HandOrder`). `LookupOrder` alone is not inductive: a lookup
might send an event that another one's has overtaken. `HandOrder` forbids it,
and holds because by `Held` no two lookups have an event in hand at once.

### The watcher

`WatchProofs`: `TypeCorrect`, `OthersAreSeen` (`[]OnlyEarlyTouchesAreLost`),
`RestartsAreAsked` (`Spec => NoSpuriousRestart`). Nothing is assumed of the times
that files carry. Of a file newer than `lastStat`, `Written` says who wrote it
and `Early` when; `Deaf` says that a watcher which has lost its inode was
notified of that and has seen, or will see, a newer file, or was fooled by one
that was no newer (`swapped`).

### The certificates and the installation

`InstallationProofs`: `TypeCorrect`, `TrustIsAssumedRightly` (`Spec =>
AssumedTrustHolds`), `PairsAreKept` (`Spec => CaKept`), `UninstallIsThorough`
(`Spec => UninstallForgets`). `Effect(p)` sums up what a step may do to the
instance that takes it, the files, the keychain and the resolver, so that the
proofs go over its few cases and not over all steps of all commands. The
invariants: a key on the disk is trusted, abandoned, or its maker is at the
dialog (`KeyAccounted`); an instance about to write over a complete pair began
before it was complete or failed to read it (`Late`); a set-up beside an
uninstall was noticed (`Noticed`); what an uninstall has done so far stays done,
unless it was disturbed or something failed (`Clean`).

This proof found a case that the run is too small for. With three set-ups at
once, one at the keychain's dialog may have the keychain trust the cert.pem
that another has written over its own meanwhile: its own CA, which a third
instance may later complete and find, is then trusted by nobody. `Misses`
names the case. In `installation` no more than two set-ups go on at once, so the
run cannot show it. TLC found the case with three runs in the foreground and no
fault, and finds the property as it stands now, with the case excepted, to hold
of them; the theorem says so for any number.

### The names

`HostNamesProofs`, from `HostNamesAssumption`: finitely many domains, and every
host and domain has a label (`strings.Split` never returns less than one).
`TypeCorrect`; `LongestIsTakenOff` (`Spec => LongestDomainGoes`): the first
domain in the sorted list that a host ends with is a longest one, and there is
only one of that length, so the sort need not be stable;
`TheMostSpecificAnswers` (`Spec => MostSpecificAnswers`) and `AnswersWereThere`
(`Spec => AnswerWasThere`), from the invariant of the loop (`Observed`): no
name that was there in one way ever since the request arrived is longer than the
one to be looked up next, and all that its names lead to now has been recorded;
and of the second look (`Passed`): the name itself was missing when the lookup
looked first.

### Only model-checked

The liveness properties, which are out of the prover's reach: `KilledAppsDie`,
`RequestsGoOn`, `PurgeReturns`, `BroadcastsReturn`, `GoneAreForgotten`,
`LookupsReturn`, `LookupEnds`, `DaemonComesUp`, `TouchRestarts`. The four `v_*`
properties are false. That the instances of the theorems are not empty is what
the runs show: each of them satisfies the assumptions.

## 6. Where the code disagrees with its words

* `v_orphan` (`app.go:446`): the idle monitor of an app that is already being
  stopped deletes the entry that carries its name, which may be its successor's.
  The successor runs on, and the next request launches a third process on the
  same socket path; `app.go:455` promises that an app is launched if it is not
  running. `OnlyCutAppsAreLost` says that there is no other way to lose an app.
* `v_socket` (`app.go:149`): `watch` unlinks the socket path after its app has
  left the map; a successor may have bound the path by then. It listens on an
  unlinked file, its poller never connects, and its requests wait
  until it is stopped.
* `v_hub` (`client.go:88, 147`): a client that sends a frame and disconnects, or
  falls behind, can make `readPump` or `listen` send on a channel that `Run`
  has closed: a panic nobody recovers.
* `v_linux` (`main_linux.go:111`): on Linux nothing calls `StartRPC`, the hub is
  nil, and the first event of every lookup that has to launch an app panics.

What follows is part of the models, or was met while reading, and of no run:

* `maybeIdle` deletes the canonical name only, so that for a while, or after the
  deletion of a successor's entry until its end, the canonical name leads to
  another app than an alias does, or to none: the exceptions of `AliasesAgree`. Without them
  TLC finds it violated with `"idle"` among the causes; `remove` takes care of
  "all instance references so aliases are removed too" (`app.go:600`).
* `WaitTilReady` returns nil for an app that was killed with nil (`app.go:208`),
  so a waiting request goes on to proxy to an app that is stopping.
* A dash in a subdomain may turn into a path below a proxy's file
  (`app.go:488-503`); ENOTDIR is not `IsNotExist`, and the shorter names are not
  tried: in `HostNames` it is an error that answers.
* "Assuming previously trusted" (`ssl.go:102`) is wrong in four cases, the
  exceptions of `AssumedTrustHolds`: the maker of the pair is still at the
  dialog of the keychain; it ended there; the keychain was given the cert.pem of
  another instance instead of its own; or an uninstall deleted the certificate
  and stopped before the files. In the second case a refused dialog leaves a CA
  that no later start has trusted, without a message.
* Any error of reading the pair is taken for its absence (`ssl.go:100-107`): a
  read that fails once makes the start cut a valid pair off and replace the CA
  that browsers trust (`blind` in `CaKept`).
* The start that makes the CA returns from `SetupOurCert` without setting
  `CACert` (`ssl.go:111-115`): HTTPS works only after the next start.
* An uninstall while the daemon starts up can leave the resolver's files or new
  certificates behind (`disturbed` in `UninstallForgets`).
* An uninstall ignores the errors of `launchctl unload` and of removing the
  resolver's files (`setup_darwin.go:214, 219`), and takes the last deletion in
  the keychain for all of them: it prints "Removed all Puma-dev CA certs"
  (`setup_darwin.go:228`) although an earlier one may have failed (`failed`).
  Domains that another `-d` was given stay, as `README.md:74` of the repository
  warns.
* A file that is moved over restart.txt and is no newer than the one that the
  monitor first read ends the inotify watch for good (`watch_linux.go:29-37`):
  no later touch restarts the app (`swapped`).
* A link that is moved from `cdn/x` to `cdn-x` between the two looks of a lookup
  (`app.go:473, 498`) is overlooked, and a shorter name answers: it was there
  all the time, but not in one way (`MostSpecificAnswers`).
* `findAppByKey` compares two paths only if resolving the second one failed
  (`rpc_helpers.go:52`), so this search never finds an app.
* The goroutines of the RPC listeners take the address of the loop variable
  (`rpc_server.go:86`), which is shared in the Go version of `go.mod`: the unix
  socket may stay unserved.

## 7. What is not modelled

* Static files, headers and the reverse proxies: no state of puma-dev.
* The contents of events and logs, beyond whether an event is JSON; that a log
  also holds the app's events.
* Two Purges at once, and a process exit in the middle of one.
* RPC listeners and handlers: they only read the pool's map (without its lock),
  call `lookupApp` or `Purge`, which `AppPool` has, or are not implemented in
  the code. The console's `Start` has no caller.
* DNS: `handleDNS` is a function of the request alone; `Serve` starts two
  listeners.
* The cache of leaf certificates: every call holds one lock from beginning to
  end. Certificates expire after a year; nothing in the code renews them.
* Ports and sockets: two instances that listen on the same ones end each other.
  In `Installation` that is among the faults.
* `Setup`, `Cleanup`, the `link` command, flags, home directories, the sockets
  handed over by launchd: sequential I/O with nothing to interleave.
* The JavaScript of the documentation site (`docs/js/`: Bootstrap, jQuery
  plugins and page effects) and the assets of an example app (`etc/`): vendored,
  run in a visitor's browser, and no part of puma-dev.
