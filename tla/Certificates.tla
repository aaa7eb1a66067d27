----------------------------- MODULE Certificates -----------------------------
(***************************************************************************)
(* How an instance of puma-dev comes by its certificate authority, on      *)
(* macOS (dev/ssl.go, dev/ssl_darwin.go): SetupOurCert loads the pair of   *)
(* cert.pem and key.pem, or makes a new one, file by file, and has the     *)
(* login keychain trust it.  Several instances share the two files and the *)
(* keychain; each may crash, be stopped or be refused at any step, and     *)
(* only the files and the keychain outlive it.                             *)
(*                                                                         *)
(* Installation composes these steps into instances that come and go.      *)
(***************************************************************************)
EXTENDS Naturals

CONSTANTS
    Procs,     \* runs of the binary
    CAs,       \* certificate authorities, key and certificate in one
    None,      \* no file, no certificate: Go's nil
    Torn,      \* the contents of a file that was created or cut off
    MaxFaults  \* how often a step may fail or an instance crash

ASSUME CertAssumption ==
    /\ None \notin CAs /\ Torn \notin CAs /\ None # Torn
    /\ MaxFaults \in Nat

VARIABLES
    dir,        \* SupportDir exists
    cert,       \* the contents of cert.pem
    key,        \* the contents of key.pem
    trusted,    \* what the login keychain trusts
    proc,       \* the memory of each instance
    faults      \* how often something has failed

disk == <<dir, cert, key, trusted>>

Content == {None, Torn} \cup CAs

(* What an instance does next, in the order of the code: "new" until it is  *)
(* started, "off" when it is not running, "resolver" before SetupOurCert,   *)
(* "read" to "trust" in it, "up" when it has returned, and what -install    *)
(* and -uninstall do beyond it.                                             *)
SettingUp == {"resolver", "read", "load", "create", "cert", "open", "key",
              "trust"}

Uninstalling == {"domains", "untrust", "remove"}

Steps == {"new", "off", "up", "launchctl"} \cup SettingUp \cup Uninstalling

(* seen: cert.pem as it was read; made: the pair generated; ca: CACert;     *)
(* shared: the file being written is written by another instance, too, or   *)
(* was removed; told: SIGTERM was sent.                                     *)
Memory == [pc : Steps, seen : Content, made : CAs \cup {None},
           ca : CAs \cup {None}, shared : BOOLEAN, told : BOOLEAN]

At(step) == [pc |-> step, seen |-> None, made |-> None, ca |-> None,
             shared |-> FALSE, told |-> FALSE]

(* A complete pair: what tls.LoadX509KeyPair accepts.                       *)
ValidPair == cert = key /\ cert \in CAs

Used == {cert, key} \cup trusted
        \cup UNION {{proc[p].seen, proc[p].made, proc[p].ca} : p \in Procs}

Fault ==
    /\ faults < MaxFaults
    /\ faults' = faults + 1

Goto(p, from, to) ==
    /\ proc[p].pc = from
    /\ proc' = [proc EXCEPT ![p].pc = to]

(* The instance is gone, with all it had in memory: log.Fatalf, a crash.    *)
Stop(p) == proc' = [proc EXCEPT ![p] = At("off")]

------------------------------------------------------------------------------
(* SetupOurCert.                                                            *)

(* MkdirAll, and the first half of LoadX509KeyPair.  A file that cannot be  *)
(* read, for whatever reason, is as good as a torn one.                     *)
ReadCert(p) ==
    /\ proc[p].pc = "read"
    /\ \E seen \in {cert, Torn} :
          /\ proc' = [proc EXCEPT ![p].pc = "load", ![p].seen = seen]
          /\ IF seen = cert THEN UNCHANGED faults ELSE Fault
    /\ dir' = TRUE
    /\ UNCHANGED <<cert, key, trusted>>

(* MkdirAll fails, and with it the start of the instance.                   *)
MkdirFails(p) ==
    /\ proc[p].pc = "read"
    /\ Fault
    /\ Stop(p)
    /\ UNCHANGED disk

(* Mutants: whatever was read is used; a broken pair is an error; the pair  *)
(* that is there is not looked at.                                          *)
ReadKeyUnchecked(p) ==
    /\ proc[p].pc = "load"
    /\ IF proc[p].seen # None
       THEN proc' = [proc EXCEPT ![p].pc = "up", ![p].ca = proc[p].seen]
       ELSE proc' = [proc EXCEPT ![p].pc = "create"]
    /\ UNCHANGED <<disk, faults>>

ReadKeyOrFail(p) ==
    /\ proc[p].pc = "load"
    /\ IF proc[p].seen \in CAs /\ proc[p].seen = key
       THEN proc' = [proc EXCEPT ![p].pc = "up", ![p].ca = key]
       ELSE IF proc[p].seen = None
            THEN proc' = [proc EXCEPT ![p].pc = "create"]
            ELSE Stop(p)
    /\ UNCHANGED <<disk, faults>>

ReadKeyNever(p) ==
    /\ proc[p].pc = "load"
    /\ proc' = [proc EXCEPT ![p].pc = "create", ![p].seen = None]
    /\ UNCHANGED <<disk, faults>>

(* The second half: "Existing valid puma-dev CA keypair found.  Assuming    *)
(* previously trusted.", or on to making a pair, whatever was wrong, be it  *)
(* that key.pem could not be read.                                          *)
ReadKey(p) ==
    /\ proc[p].pc = "load"
    /\ \/ /\ proc[p].seen \in CAs /\ proc[p].seen = key
          /\ proc' = [proc EXCEPT ![p].pc = "up", ![p].seen = None,
                                  ![p].ca = key]
          /\ UNCHANGED faults
       \/ /\ proc' = [proc EXCEPT ![p].pc = "create", ![p].seen = None]
          /\ IF proc[p].seen \in CAs /\ proc[p].seen = key
             THEN Fault
             ELSE UNCHANGED faults
    /\ UNCHANGED disk

(* Instance p opens the file that is written in step `writing', which cuts  *)
(* it off; whoever has it open already shares it from now on.               *)
Open(p, writing, made) ==
    LET others == {q \in Procs \ {p} : proc[q].pc = writing}
    IN proc' = [q \in Procs |->
          IF q = p
          THEN [proc[p] EXCEPT !.pc = writing, !.made = made,
                               !.shared = others # {}]
          ELSE IF q \in others THEN [proc[q] EXCEPT !.shared = TRUE]
          ELSE proc[q]]

(* The pair is generated; opening cert.pem fails without SupportDir.        *)
CreateCert(p) ==
    /\ proc[p].pc = "create"
    /\ IF dir
       THEN /\ CAs \ Used # {}
            /\ Open(p, "cert", CHOOSE c \in CAs \ Used : TRUE)
            /\ cert' = Torn
       ELSE Stop(p) /\ UNCHANGED cert
    /\ UNCHANGED <<dir, key, trusted, faults>>

(* pem.Encode, whose error nobody looks at.  What two instances write may   *)
(* mix, and what is written to a removed file is lost.                      *)
Write(p, from, to, old, new) ==
    /\ proc[p].pc = from
    /\ proc' = [proc EXCEPT ![p].pc = to, ![p].shared = FALSE]
    /\ \/ new = proc[p].made /\ UNCHANGED faults
       \/ new = Torn /\ Fault
       \/ proc[p].shared /\ new \in {Torn, old} /\ UNCHANGED faults

WriteCert(p) ==
    /\ Write(p, "cert", "open", cert, cert')
    /\ UNCHANGED <<dir, key, trusted>>

(* key.pem is opened, with O_TRUNC.                                         *)
OpenKey(p) ==
    /\ proc[p].pc = "open"
    /\ IF dir
       THEN Open(p, "key", proc[p].made) /\ key' = Torn
       ELSE Stop(p) /\ UNCHANGED key
    /\ UNCHANGED <<dir, cert, trusted, faults>>

WriteKey(p) ==
    /\ Write(p, "key", "trust", key, key')
    /\ UNCHANGED <<dir, cert, trusted>>

Trusting(p) ==
    /\ proc[p].pc = "trust"
    /\ proc' = [proc EXCEPT ![p].pc = "up", ![p].made = None]

(* Mutant: a refusal is no error, as in the TrustCert of Linux.             *)
TrustNever(p) ==
    /\ Trusting(p)
    /\ UNCHANGED <<disk, faults>>

(* TrustCert: security add-trusted-cert reads cert.pem once the user has    *)
(* authenticated.  CACert stays nil.                                        *)
Trust(p) ==
    /\ Trusting(p)
    /\ cert \in CAs
    /\ trusted' = trusted \cup {cert}
    /\ UNCHANGED <<dir, cert, key, faults>>

(* The user refuses, there is no keychain, or cert.pem is no certificate.   *)
TrustFails(p) ==
    /\ proc[p].pc = "trust"
    /\ \/ cert \notin CAs /\ UNCHANGED faults
       \/ Fault
    /\ Stop(p)
    /\ UNCHANGED disk

SetUp(p) == \/ ReadCert(p) \/ MkdirFails(p) \/ ReadKey(p) \/ CreateCert(p)
            \/ WriteCert(p) \/ OpenKey(p) \/ WriteKey(p) \/ Trust(p)
            \/ TrustFails(p)
=============================================================================
