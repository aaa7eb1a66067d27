----------------------------- MODULE Installation -----------------------------
(***************************************************************************)
(* The lives of puma-dev's instances on macOS (cmd/puma-dev/main_darwin.go,*)
(* InstallIntoSystem and Uninstall of dev/setup_darwin.go): the daemon that*)
(* launchd keeps alive, and what a user runs in a terminal, each setting   *)
(* its certificate authority up by the steps of Certificates.              *)
(***************************************************************************)
EXTENDS Certificates

CONSTANTS
    Daemon,      \* the instance of the launchd job io.puma.dev
    Runs,        \* puma-dev in the foreground; each is started once
    Installs,    \* puma-dev -install
    Uninstalls,  \* puma-dev -uninstall
    Tlds         \* Tlds[p]: the domains that instance p was given with -d

ASSUME ProcsAssumption ==
    /\ Procs = {Daemon} \cup Runs \cup Installs \cup Uninstalls
    /\ Daemon \notin Runs \cup Installs \cup Uninstalls
    /\ Runs \cap Installs = {} /\ (Runs \cup Installs) \cap Uninstalls = {}

(* The daemon gets its domains from the property list that -install wrote.  *)
ASSUME TldsAssumption ==
    /\ DOMAIN Tlds = Procs
    /\ \A p \in Installs : Tlds[p] = Tlds[Daemon]

Domains == UNION {Tlds[p] : p \in Procs}

VARIABLES
    plist,     \* the property list of the job is in ~/Library/LaunchAgents
    loaded,    \* launchd has loaded the job
    resolver,  \* the domains that /etc/resolver sends to puma-dev's DNS
    abandoned, \* history: CAs on disk never trusted, or not any more
    blind,     \* history: set-ups that do not know of the pair on disk
    disturbed, \* history: some instance started up during this uninstall
    failed     \* history: something failed during this uninstall

system  == <<plist, loaded, resolver>>
history == <<abandoned, blind, disturbed, failed>>

vars == <<disk, proc, faults, system, history>>

TypeOK ==
    /\ dir \in BOOLEAN
    /\ cert \in Content
    /\ key \in Content
    /\ trusted \in SUBSET CAs
    /\ proc \in [Procs -> Memory]
    /\ faults \in 0..MaxFaults
    /\ plist \in BOOLEAN
    /\ loaded \in BOOLEAN
    /\ resolver \in SUBSET Domains
    /\ abandoned \in SUBSET CAs
    /\ blind \in SUBSET Procs
    /\ disturbed \in BOOLEAN
    /\ failed \in BOOLEAN

(* Nothing of puma-dev is on the machine.                                   *)
Init ==
    /\ dir = FALSE
    /\ cert = None
    /\ key = None
    /\ trusted = {}
    /\ proc = [p \in Procs |-> At(IF p = Daemon THEN "off" ELSE "new")]
    /\ faults = 0
    /\ plist = FALSE
    /\ loaded = FALSE
    /\ resolver = {}
    /\ abandoned = {}
    /\ blind = {}
    /\ disturbed = FALSE
    /\ failed = FALSE

------------------------------------------------------------------------------
(* launchd starts the daemon, and again whenever it ends (KeepAlive).       *)
StartDaemon ==
    /\ loaded
    /\ Goto(Daemon, "off", "resolver")
    /\ UNCHANGED <<disk, faults, system>>

(* A command begins.                                                        *)
StartCommand(p) ==
    /\ \/ p \in Runs /\ Goto(p, "new", "resolver")
       \/ p \in Installs /\ Goto(p, "new", "read")
       \/ p \in Uninstalls /\ Goto(p, "new", "launchctl")
    /\ UNCHANGED <<disk, faults, system>>

(* ConfigureResolver, first thing in main, writes one file per domain; an   *)
(* error is fatal, and leaves those that were written.                      *)
ConfigureResolver(p) ==
    /\ proc[p].pc = "resolver"
    /\ \E domains \in SUBSET Tlds[p] : resolver' = resolver \cup domains
    /\ \/ /\ Tlds[p] \subseteq resolver'
          /\ Goto(p, "resolver", "read")
          /\ UNCHANGED faults
       \/ Fault /\ Stop(p)
    /\ UNCHANGED <<disk, plist, loaded>>

(* An instance in the foreground is stopped by the user.                    *)
Quit(p) ==
    /\ p \in Runs
    /\ proc[p].pc = "up"
    /\ Stop(p)
    /\ UNCHANGED <<disk, faults, system>>

(* A crash, a kill, Ctrl-C in the middle of a command, an error outside     *)
(* SetupOurCert, or puma-dev -stop, whose SIGUSR1 ends every process of     *)
(* that name without a handler for it.                                      *)
Crash(p) ==
    /\ proc[p].pc \notin {"new", "off"}
    /\ p \in Runs => proc[p].pc # "up"
    /\ Fault
    /\ Stop(p)
    /\ UNCHANGED <<disk, system>>

(* SIGTERM: the handler of main ends the process wherever main is.          *)
Exit(p) ==
    /\ proc[p].told
    /\ Stop(p)
    /\ UNCHANGED <<disk, faults, system>>

(* launchctl unload: the job will not be started again, and its process is  *)
(* told to end; or it fails, which nobody looks at.                         *)
Unload(p, to) ==
    \/ /\ loaded' = FALSE
       /\ proc' = [proc EXCEPT ![p].pc = to,
                               ![Daemon].told = proc[Daemon].pc # "off"]
       /\ UNCHANGED faults
    \/ /\ loaded /\ UNCHANGED loaded
       /\ proc' = [proc EXCEPT ![p].pc = to]
       /\ Fault

(* -install: the property list, launchctl unload.                           *)
InstallUnload(p) ==
    /\ p \in Installs
    /\ proc[p].pc = "up"
    /\ Unload(p, "launchctl")
    /\ plist' = TRUE
    /\ UNCHANGED <<disk, resolver>>

(* -install: launchctl load, which fails if the list was removed.           *)
InstallLoad(p) ==
    /\ p \in Installs
    /\ proc[p].pc = "launchctl"
    /\ Stop(p)
    /\ loaded' = (loaded \/ plist)
    /\ UNCHANGED <<disk, faults, plist, resolver>>

(* -uninstall: launchctl unload, and the list is removed.                   *)
UninstallUnload(p) ==
    /\ p \in Uninstalls
    /\ proc[p].pc = "launchctl"
    /\ Unload(p, "domains")
    /\ plist' = FALSE
    /\ UNCHANGED <<disk, resolver>>

(* os.Remove of the file in /etc/resolver, for every domain of this -d;     *)
(* those of another one stay, and errors go unnoticed.                      *)
RemoveDomains(p) ==
    /\ Goto(p, "domains", "untrust")
    /\ \E removed \in SUBSET Tlds[p] : resolver' = resolver \ removed
    /\ IF resolver' \cap Tlds[p] = {} THEN UNCHANGED faults ELSE Fault
    /\ UNCHANGED <<disk, plist, loaded>>

(* Mutant: find-certificate without -a, only one of them is deleted.        *)
UntrustOne(p) ==
    /\ Goto(p, "untrust", "remove")
    /\ IF trusted = {} THEN UNCHANGED trusted
       ELSE \E c \in trusted : trusted' = trusted \ {c}
    /\ UNCHANGED <<dir, cert, key, faults, system>>

(* DeleteAllPumaDevCAFromDefaultKeychain tries each certificate and tells   *)
(* success or failure by the last one; after a failure the files stay.      *)
Untrust(p) ==
    /\ proc[p].pc = "untrust"
    /\ trusted' \in SUBSET trusted
    /\ \/ /\ trusted' # trusted \/ trusted = {}
          /\ Goto(p, "untrust", "remove")
       \/ /\ trusted' # {}
          /\ Stop(p)
    /\ IF trusted' = {} THEN UNCHANGED faults ELSE Fault
    /\ UNCHANGED <<dir, cert, key, system>>

(* os.RemoveAll(SupportDir), whose error nobody looks at.                   *)
RemoveFiles(p) ==
    /\ proc[p].pc = "remove"
    /\ cert' \in {cert, None}
    /\ key' \in {key, None}
    /\ \/ dir' = FALSE /\ cert' = None /\ key' = None /\ UNCHANGED faults
       \/ dir /\ UNCHANGED dir /\ Fault
    /\ proc' = [q \in Procs |->
          IF q = p THEN At("off")
          ELSE [proc[q] EXCEPT
                   !.shared = \/ @
                              \/ proc[q].pc = "cert" /\ cert' = None
                              \/ proc[q].pc = "key" /\ key' = None]]
    /\ UNCHANGED <<trusted, system>>

------------------------------------------------------------------------------
Step(p) == ConfigureResolver(p) \/ (SetUp(p) /\ UNCHANGED system)

Install(p) == InstallUnload(p) \/ InstallLoad(p)

Uninstall(p) == \/ UninstallUnload(p) \/ RemoveDomains(p) \/ Untrust(p)
                \/ RemoveFiles(p)

Between(steps) == {p \in Procs : proc[p].pc \in steps}

(* An instance ends at the dialog of the keychain, or had it trust what     *)
(* another one wrote over its own cert.pem.                                 *)
Misses(p) ==
    /\ proc[p].pc = "trust"
    /\ \/ proc'[p].pc = "off"
       \/ proc'[p].pc = "up" /\ cert # proc[p].made

(* What it made remains untrusted, and what an uninstall deletes.           *)
LeftUntrusted ==
    {proc[p].made : p \in {q \in Procs : Misses(q)}}
    \cup (trusted \ trusted')

(* A set-up that an error kept from reading what is there.                  *)
Misread ==
    {p \in Procs : /\ faults' # faults
                   /\ proc[p].pc \in {"read", "load"}
                   /\ proc'[p].pc \in {"load", "create"}}

(* What the history variables remember of a step.                           *)
Recorded ==
    /\ abandoned' = (abandoned \cup LeftUntrusted) \cap {cert', key'}
    /\ blind' = ((IF ValidPair THEN blind ELSE Between(SettingUp \ {"read"}))
                 \cup Misread) \cap Between(SettingUp)'
    /\ disturbed' = /\ Between(Uninstalling)' # {}
                    /\ disturbed \/ Between(SettingUp)' # {}
    /\ failed' = /\ Between(Uninstalling)' # {}
                 /\ failed \/ faults' # faults

Next ==
    /\ \/ StartDaemon
       \/ \E p \in Procs : \/ StartCommand(p) \/ Quit(p) \/ Crash(p)
                           \/ Exit(p) \/ Step(p) \/ Install(p)
                           \/ Uninstall(p)
    /\ Recorded

Spec == Init /\ [][Next]_vars

(* launchd keeps its promise, a set-up that has begun goes on, and somebody *)
(* answers the dialog of the keychain: SetupOurCert waits for it before     *)
(* anything is served.  Nothing makes a user run a command, and a command   *)
(* may hang beyond its set-up.                                              *)
GoesOn(p) == Step(p) \/ (p = Daemon /\ StartDaemon)

Fairness == \A p \in Procs \ Uninstalls : WF_proc(GoesOn(p))

FairSpec == Spec /\ Fairness

------------------------------------------------------------------------------
(* Safety.                                                                  *)

(* "Assuming previously trusted" is only wrong while the instance that made *)
(* the pair is at the dialog of the keychain, if it ended there or another  *)
(* instance wrote over its cert.pem before, or if an uninstall stopped      *)
(* half-way; no crash or failed write before the dialog makes it wrong      *)
(* (ssl.go:63-113, ssl_darwin.go:23, setup_darwin.go:114).                  *)
AssumedTrustHolds ==
    [][\A p \in Procs : proc[p].ca = None /\ proc'[p].ca # None =>
          proc'[p].ca \in trusted \cup abandoned
                         \cup {proc[q].made : q \in Between({"trust"})}]_vars

(* A complete pair is never cut off or replaced but by an uninstall or by a *)
(* set-up that does not know of it, because it began before the pair was    *)
(* complete or an error kept it from reading the files: no crash, refusal   *)
(* or restart costs the user the CA his browsers trust (ssl.go:100-107).    *)
CaKept ==
    [][ValidPair /\ <<cert, key>>' # <<cert, key>> =>
          \E p \in Procs : /\ proc'[p] # proc[p]
                           /\ p \in blind \/ proc[p].pc = "remove"]_vars

(* If nothing fails during an uninstall and no instance starts up meanwhile,*)
(* the files only go when the keychain has forgotten every CA, however many *)
(* were made over time, and no domain of the uninstall's -d is resolved by  *)
(* a puma-dev that is gone (setup_darwin.go:213-232, main_darwin.go:66-72). *)
UninstallForgets ==
    [][\A p \in Procs : proc[p].pc = "remove" /\ dir /\ ~dir' =>
          \/ trusted = {} /\ resolver \cap Tlds[p] = {}
          \/ disturbed \/ failed]_vars

(* Liveness.                                                                *)

(* A daemon that launchd has loaded comes up, whatever a crash, a refusal   *)
(* or another instance left on the disk (ssl.go:100-113).                   *)
DaemonComesUp == loaded ~> proc[Daemon].pc = "up" \/ ~loaded

=============================================================================
