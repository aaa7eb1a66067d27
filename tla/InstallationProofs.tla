-------------------------- MODULE InstallationProofs --------------------------
(***************************************************************************)
(* Theorems about Installation, for any number of instances and CAs.       *)
(*                                                                         *)
(* What each action does to the instance that takes it, to the files, the  *)
(* keychain and the resolver is summed up in Effect; the invariants follow *)
(* from that and from what Recorded remembers.                             *)
(***************************************************************************)
EXTENDS Installation, TLAPS

(* Between reading cert.pem and the end of SetupOurCert.                    *)
Writing == {"load", "create", "cert", "open", "key", "trust"}

(* Between making a pair and the end of SetupOurCert.                       *)
Making == {"cert", "open", "key", "trust"}

HasMade == \A p \in Procs : proc[p].pc \in Making => proc[p].made \in CAs

TInv == TypeOK /\ HasMade

Others(p) ==
    \A q \in Procs \ {p} :
        /\ proc'[q].pc = proc[q].pc
        /\ proc'[q].seen = proc[q].seen
        /\ proc'[q].made = proc[q].made
        /\ proc'[q].ca = proc[q].ca

Typed ==
    /\ dir' \in BOOLEAN /\ cert' \in Content /\ key' \in Content
    /\ trusted' \in SUBSET CAs
    /\ faults' \in 0..MaxFaults
    /\ plist' \in BOOLEAN /\ loaded' \in BOOLEAN
    /\ resolver' \in SUBSET Domains
    /\ proc' \in [Procs -> Memory]

(* A step of a set-up follows one, or the reading of cert.pem; one that has *)
(* read a complete pair does not go on, unless an error hid it.             *)
Follows(p) ==
    proc'[p].pc \in Writing =>
        \/ p \in Misread
        \/ /\ proc'[p].pc = "load"
           /\ proc'[p].seen = cert
           /\ UNCHANGED <<cert, key>>
        \/ /\ proc[p].pc \in Writing
           /\ ~(ValidPair /\ proc[p].pc = "load" /\ proc[p].seen = cert)

(* The files are written by a set-up, one at a time, or removed.            *)
Files(p) ==
    \/ UNCHANGED <<cert, key>>
    \/ /\ proc[p].pc = "remove" /\ proc'[p].pc # "remove"
       /\ cert' \in {cert, None} /\ key' \in {key, None}
    \/ /\ proc[p].pc \in {"create", "cert", "open", "key"}
       /\ proc'[p].pc # proc[p].pc
       /\ cert' = cert \/ key' = key

(* Whoever completes key.pem is at the dialog of the keychain next, ...     *)
KeyWritten(p) ==
    key' \in CAs /\ key' # key =>
        proc'[p].pc = "trust" /\ proc'[p].made = key'

(* ... where it has the keychain trust cert.pem, or ends.                   *)
Asked(p) ==
    proc[p].pc = "trust" =>
        \/ proc'[p].pc = "off"
        \/ proc'[p].pc = "up" /\ cert \in trusted'

CASet(p) ==
    \/ proc'[p].ca \in {None, proc[p].ca}
    \/ proc'[p].ca = key /\ key \in CAs

(* What an uninstall has done of its work, if nothing fails.                *)
Cleaned(p) ==
    /\ resolver' \subseteq resolver \/ proc[p].pc = "resolver"
    /\ trusted' \subseteq trusted \/ proc[p].pc = "trust"
    /\ proc'[p].pc = "untrust" =>
          resolver' \cap Tlds[p] = {} \/ faults' # faults
    /\ proc'[p].pc = "remove" =>
          /\ proc[p].pc = "untrust"
          /\ trusted' = {} \/ faults' # faults
    /\ dir /\ ~dir' => proc[p].pc = "remove"

Effect(p) ==
    /\ Typed
    /\ proc'[p].pc \in Making => proc'[p].made \in CAs
    /\ Others(p) /\ Follows(p) /\ Files(p) /\ KeyWritten(p) /\ Asked(p)
    /\ CASet(p) /\ Cleaned(p)

------------------------------------------------------------------------------
LEMMA FaultType ==
    ASSUME TypeOK, Fault
    PROVE  faults' \in 0..MaxFaults /\ faults' # faults
BY CertAssumption DEF TypeOK, Fault

LEMMA GotoFacts ==
    ASSUME TypeOK, NEW p \in Procs, NEW from, NEW to \in Steps,
           Goto(p, from, to)
    PROVE  /\ proc' \in [Procs -> Memory]
           /\ proc[p].pc = from /\ proc'[p].pc = to
           /\ proc'[p].seen = proc[p].seen /\ proc'[p].made = proc[p].made
           /\ proc'[p].ca = proc[p].ca
           /\ Others(p)
BY DEF TypeOK, Goto, Memory, Others

LEMMA StopFacts ==
    ASSUME TypeOK, NEW p \in Procs, Stop(p)
    PROVE  /\ proc' \in [Procs -> Memory]
           /\ proc'[p].pc = "off" /\ proc'[p].ca = None
           /\ Others(p)
<1>1. At("off") \in Memory /\ At("off").pc = "off" /\ At("off").ca = None
  BY DEF At, Memory, Steps, Content
<1> QED
  BY <1>1 DEF TypeOK, Stop, Others

(* What does not touch the disk and does not enter a set-up.                *)
LEMMA GotoEffect ==
    ASSUME TInv, NEW p \in Procs, NEW from, NEW to \in Steps,
           Goto(p, from, to), UNCHANGED disk, from # "trust",
           to \notin Writing, to \notin {"untrust", "remove"},
           faults' \in 0..MaxFaults, plist' \in BOOLEAN, loaded' \in BOOLEAN,
           resolver' \in SUBSET Domains,
           resolver' \subseteq resolver \/ from = "resolver"
    PROVE  Effect(p)
<1>1. TypeOK
  BY DEF TInv
<1>2. Typed
  BY <1>1, GotoFacts DEF Typed, TypeOK, disk
<1>3. Others(p) /\ (proc'[p].pc \in Making => proc'[p].made \in CAs)
  BY <1>1, GotoFacts DEF Making, Writing
<1>4. Follows(p) /\ Files(p) /\ KeyWritten(p)
  BY <1>1, GotoFacts DEF Writing, Follows, Files, KeyWritten, disk
<1>5. Asked(p)
  BY <1>1, GotoFacts DEF Asked
<1>6. CASet(p)
  BY <1>1, GotoFacts DEF CASet
<1>7. Cleaned(p)
  BY <1>1, GotoFacts DEF Cleaned, disk
<1> QED
  BY <1>2, <1>3, <1>4, <1>5, <1>6, <1>7 DEF Effect

LEMMA StopEffect ==
    ASSUME TInv, NEW p \in Procs, Stop(p), UNCHANGED disk,
           faults' \in 0..MaxFaults, plist' \in BOOLEAN, loaded' \in BOOLEAN,
           resolver' \in SUBSET Domains,
           resolver' \subseteq resolver \/ proc[p].pc = "resolver"
    PROVE  Effect(p)
<1>1. TypeOK
  BY DEF TInv
<1>2. Typed
  BY <1>1, StopFacts DEF Typed, TypeOK, disk
<1>3. Others(p) /\ (proc'[p].pc \in Making => proc'[p].made \in CAs)
  BY <1>1, StopFacts DEF Making, Writing
<1>4. Follows(p) /\ Files(p) /\ KeyWritten(p)
  BY <1>1, StopFacts DEF Writing, Follows, Files, KeyWritten, disk
<1>5. Asked(p)
  BY <1>1, StopFacts DEF Asked
<1>6. CASet(p)
  BY <1>1, StopFacts DEF CASet
<1>7. Cleaned(p)
  BY <1>1, StopFacts DEF Cleaned, disk
<1> QED
  BY <1>2, <1>3, <1>4, <1>5, <1>6, <1>7 DEF Effect

------------------------------------------------------------------------------
(* The steps of SetupOurCert.                                               *)

LEMMA ReadCertEffect ==
    ASSUME TInv, NEW p \in Procs, ReadCert(p), UNCHANGED system
    PROVE  Effect(p)
<1>1. PICK seen \in {cert, Torn} :
          /\ proc' = [proc EXCEPT ![p].pc = "load", ![p].seen = seen]
          /\ IF seen = cert THEN UNCHANGED faults ELSE Fault
  BY DEF ReadCert
<1>2. proc[p].pc = "read" /\ dir' = TRUE /\ UNCHANGED <<cert, key, trusted>>
  BY DEF ReadCert
<1>3. proc[p] \in Memory /\ seen \in Content /\ "load" \in Steps
      /\ TypeOK /\ proc \in [Procs -> Memory]
  BY DEF TInv, TypeOK, Content, Steps, SettingUp
<1>4. /\ proc' \in [Procs -> Memory]
      /\ proc'[p].pc = "load" /\ proc'[p].seen = seen
      /\ proc'[p].made = proc[p].made /\ proc'[p].ca = proc[p].ca
      /\ Others(p)
  BY <1>1, <1>3 DEF Memory, Others
<1>5. /\ faults' \in 0..MaxFaults
      /\ seen # cert => faults' # faults
  BY <1>1, <1>3, FaultType DEF TypeOK
<1>6. Typed
  BY <1>2, <1>3, <1>4, <1>5 DEF Typed, TypeOK, system
<1>7. Follows(p)
  BY <1>2, <1>4, <1>5 DEF Follows, Misread
<1>8. Files(p) /\ KeyWritten(p)
  BY <1>2 DEF Files, KeyWritten
<1>9. Asked(p) /\ CASet(p)
  BY <1>2, <1>4 DEF Asked, CASet
<1>10. Cleaned(p)
  BY <1>2, <1>4 DEF system, Cleaned
<1> QED
  BY <1>4, <1>6, <1>7, <1>8, <1>9, <1>10 DEF Effect, Making

LEMMA MkdirFailsEffect ==
    ASSUME TInv, NEW p \in Procs, MkdirFails(p), UNCHANGED system
    PROVE  Effect(p)
BY StopEffect, FaultType DEF MkdirFails, system, TInv, TypeOK

LEMMA ReadKeyEffect ==
    ASSUME TInv, NEW p \in Procs, ReadKey(p), UNCHANGED system
    PROVE  Effect(p)
<1> DEFINE Loads == proc[p].seen \in CAs /\ proc[p].seen = key
<1>1. proc[p].pc = "load" /\ UNCHANGED <<disk, system>>
  BY DEF ReadKey
<1>2. \/ /\ Loads /\ UNCHANGED faults
         /\ proc' = [proc EXCEPT ![p].pc = "up", ![p].seen = None,
                                 ![p].ca = key]
      \/ /\ proc' = [proc EXCEPT ![p].pc = "create", ![p].seen = None]
         /\ IF Loads THEN Fault ELSE UNCHANGED faults
  BY DEF ReadKey
<1>3. proc[p] \in Memory /\ TypeOK /\ proc \in [Procs -> Memory]
      /\ None \in Content /\ {"up", "create"} \subseteq Steps
  BY DEF TInv, TypeOK, Content, Steps, SettingUp
<1>4. faults' \in 0..MaxFaults
  BY <1>2, <1>3, FaultType DEF TypeOK
<1>5. /\ proc' \in [Procs -> Memory] /\ Others(p)
      /\ \/ proc'[p].pc = "up" /\ proc'[p].ca = key /\ key \in CAs
         \/ /\ proc'[p].pc = "create" /\ proc'[p].ca = proc[p].ca
            /\ Loads => faults' # faults
  <2>1. CASE Loads /\ proc' = [proc EXCEPT ![p].pc = "up",
                                 ![p].seen = None, ![p].ca = key]
    BY <1>3, <2>1 DEF Memory, Others
  <2>2. CASE /\ proc' = [proc EXCEPT ![p].pc = "create", ![p].seen = None]
             /\ IF Loads THEN Fault ELSE UNCHANGED faults
    BY <1>3, <2>2, FaultType DEF Memory, Others
  <2> QED
    BY <1>2, <2>1, <2>2
<1>6. Typed
  BY <1>1, <1>3, <1>4, <1>5 DEF Typed, TypeOK, system, disk
<1>7. Follows(p)
  BY <1>1, <1>5 DEF Follows, Misread, ValidPair, Writing
<1>8. Files(p) /\ KeyWritten(p)
  BY <1>1 DEF Files, KeyWritten, disk
<1>9. Asked(p) /\ CASet(p)
  BY <1>1, <1>5 DEF Asked, CASet
<1>10. Cleaned(p)
  BY <1>1, <1>5 DEF system, Cleaned, disk
<1> QED
  BY <1>5, <1>6, <1>7, <1>8, <1>9, <1>10 DEF Effect, Making

(* A file is opened by p, perhaps while others write it.                    *)
LEMMA OpenFacts ==
    ASSUME TInv, NEW p \in Procs, NEW step \in {"cert", "key"},
           NEW c \in CAs, Open(p, step, c)
    PROVE  /\ proc' \in [Procs -> Memory]
           /\ proc'[p].pc = step /\ proc'[p].made = c
           /\ proc'[p].ca = proc[p].ca
           /\ Others(p)
<1> DEFINE others == {q \in Procs \ {p} : proc[q].pc = step}
           mem(q) ==
             IF q = p
             THEN [proc[p] EXCEPT !.pc = step, !.made = c,
                                  !.shared = others # {}]
             ELSE IF q \in others THEN [proc[q] EXCEPT !.shared = TRUE]
             ELSE proc[q]
<1>1. proc' = [q \in Procs |-> mem(q)]
  BY DEF Open
<1>2. (others # {}) \in BOOLEAN
  OBVIOUS
<1>3. ASSUME NEW q \in Procs PROVE mem(q) \in Memory
  <2>1. proc[q] \in Memory
    BY DEF TInv, TypeOK
  <2>2. CASE q = p
    BY <2>1, <2>2, <1>2 DEF Memory, Steps, SettingUp
  <2>3. CASE q # p
    BY <2>1, <2>3 DEF Memory
  <2> QED
    BY <2>2, <2>3
<1>4. proc[p] \in Memory
  BY DEF TInv, TypeOK
<1>5. proc'[p].pc = step /\ proc'[p].made = c /\ proc'[p].ca = proc[p].ca
  BY <1>1, <1>4 DEF Memory
<1>6. Others(p)
  BY <1>1 DEF TInv, TypeOK, Memory, Others
<1> QED
  BY <1>1, <1>3, <1>5, <1>6

LEMMA CreateCertEffect ==
    ASSUME TInv, NEW p \in Procs, CreateCert(p), UNCHANGED system
    PROVE  Effect(p)
<1>1. CASE ~dir
  BY <1>1, StopEffect DEF CreateCert, system, disk, TInv, TypeOK
<1>2. CASE dir
  <2> DEFINE c == CHOOSE c \in CAs \ Used : TRUE
  <2>1. c \in CAs
    BY <1>2 DEF CreateCert
  <2>2. Open(p, "cert", c)
    BY <1>2 DEF CreateCert
  <2> HIDE DEF c
  <2>3. /\ proc' \in [Procs -> Memory]
        /\ proc'[p].pc = "cert" /\ proc'[p].made = c
        /\ proc'[p].ca = proc[p].ca
        /\ Others(p)
    BY <2>1, <2>2, OpenFacts
  <2>4. proc[p].pc = "create" /\ cert' = Torn
        /\ UNCHANGED <<dir, key, trusted, faults, system>>
    BY <1>2 DEF CreateCert
  <2>5. Typed
    BY <2>3, <2>4 DEF Typed, TInv, TypeOK, Content, system
  <2>6. Follows(p) /\ Files(p) /\ KeyWritten(p)
    BY <2>3, <2>4 DEF Follows, Files, KeyWritten, Writing
  <2>7. Asked(p)
    BY <2>4 DEF Asked
  <2>8. CASet(p)
    BY <2>3 DEF CASet
  <2>9. Cleaned(p)
    BY <2>3, <2>4 DEF Cleaned, system
  <2> QED
    BY <2>1, <2>3, <2>5, <2>6, <2>7, <2>8, <2>9 DEF Effect
<1> QED
  BY <1>1, <1>2

LEMMA OpenKeyEffect ==
    ASSUME TInv, NEW p \in Procs, OpenKey(p), UNCHANGED system
    PROVE  Effect(p)
<1>1. CASE ~dir
  BY <1>1, StopEffect DEF OpenKey, system, disk, TInv, TypeOK
<1>2. CASE dir
  <2> DEFINE c == proc[p].made
  <2>1. proc[p].pc = "open" /\ key' = Torn
        /\ UNCHANGED <<dir, cert, trusted, faults, system>>
    BY <1>2 DEF OpenKey
  <2>2. c \in CAs
    BY <2>1 DEF TInv, HasMade, Making
  <2>3. Open(p, "key", c)
    BY <1>2 DEF OpenKey
  <2> HIDE DEF c
  <2>4. /\ proc' \in [Procs -> Memory]
        /\ proc'[p].pc = "key" /\ proc'[p].made = c
        /\ proc'[p].ca = proc[p].ca
        /\ Others(p)
    BY <2>2, <2>3, OpenFacts
  <2>5. Typed
    BY <2>4, <2>1 DEF Typed, TInv, TypeOK, Content, system
  <2>6. Follows(p) /\ Files(p) /\ KeyWritten(p)
    BY <2>4, <2>1, CertAssumption DEF Follows, Files, KeyWritten, Writing
  <2>7. Asked(p)
    BY <2>1 DEF Asked
  <2>8. CASet(p)
    BY <2>4 DEF CASet
  <2>9. Cleaned(p)
    BY <2>4, <2>1 DEF Cleaned, system
  <2> QED
    BY <2>2, <2>4, <2>5, <2>6, <2>7, <2>8, <2>9 DEF Effect
<1> QED
  BY <1>1, <1>2

LEMMA WriteFacts ==
    ASSUME TInv, NEW p \in Procs, NEW from \in {"cert", "key"},
           NEW to \in {"open", "trust"}, NEW old \in Content, NEW new,
           Write(p, from, to, old, new)
    PROVE  /\ proc' \in [Procs -> Memory] /\ Others(p)
           /\ proc[p].pc = from /\ proc'[p].pc = to
           /\ proc'[p].made = proc[p].made /\ proc[p].made \in CAs
           /\ proc'[p].ca = proc[p].ca
           /\ new \in {proc[p].made, Torn, old}
           /\ new \in Content
           /\ faults' \in 0..MaxFaults
<1>1. proc[p] \in Memory
  BY DEF TInv, TypeOK
<1>2. proc[p].pc = from
      /\ proc' = [proc EXCEPT ![p].pc = to, ![p].shared = FALSE]
  BY DEF Write
<1>3. proc' \in [Procs -> Memory] /\ proc'[p].pc = to
      /\ proc'[p].made = proc[p].made /\ proc'[p].ca = proc[p].ca
      /\ Others(p)
  BY <1>1, <1>2 DEF TInv, TypeOK, Memory, Steps, SettingUp, Others
<1>4. proc[p].made \in CAs
  BY <1>2 DEF TInv, HasMade, Making
<1>5. new \in {proc[p].made, Torn, old}
  BY DEF Write
<1>6. faults' \in 0..MaxFaults
  BY CertAssumption DEF Write, Fault, TInv, TypeOK
<1> QED
  BY <1>2, <1>3, <1>4, <1>5, <1>6 DEF Content

LEMMA WriteCertEffect ==
    ASSUME TInv, NEW p \in Procs, WriteCert(p), UNCHANGED system
    PROVE  Effect(p)
<1>1. Write(p, "cert", "open", cert, cert') /\ cert \in Content
      /\ UNCHANGED <<dir, key, trusted, system>>
  BY DEF WriteCert, TInv, TypeOK
<1>2. /\ proc' \in [Procs -> Memory] /\ Others(p)
      /\ proc[p].pc = "cert" /\ proc'[p].pc = "open"
      /\ proc'[p].made = proc[p].made /\ proc[p].made \in CAs
      /\ proc'[p].ca = proc[p].ca
      /\ cert' \in Content
      /\ faults' \in 0..MaxFaults
  BY <1>1, WriteFacts
<1>3. Typed
  BY <1>1, <1>2 DEF Typed, TInv, TypeOK, system
<1>4. Follows(p) /\ Files(p) /\ KeyWritten(p)
  BY <1>1, <1>2 DEF Follows, Files, KeyWritten, Writing
<1>5. Asked(p)
  BY <1>2 DEF Asked
<1>6. CASet(p)
  BY <1>2 DEF CASet
<1>7. Cleaned(p)
  BY <1>1, <1>2 DEF Cleaned, system
<1> QED
  BY <1>2, <1>3, <1>4, <1>5, <1>6, <1>7 DEF Effect

LEMMA WriteKeyEffect ==
    ASSUME TInv, NEW p \in Procs, WriteKey(p), UNCHANGED system
    PROVE  Effect(p)
<1>1. Write(p, "key", "trust", key, key') /\ key \in Content
      /\ UNCHANGED <<dir, cert, trusted, system>>
  BY DEF WriteKey, TInv, TypeOK
<1>2. /\ proc' \in [Procs -> Memory] /\ Others(p)
      /\ proc[p].pc = "key" /\ proc'[p].pc = "trust"
      /\ proc'[p].made = proc[p].made /\ proc[p].made \in CAs
      /\ proc'[p].ca = proc[p].ca
      /\ key' \in {proc[p].made, Torn, key}
      /\ key' \in Content
      /\ faults' \in 0..MaxFaults
  BY <1>1, WriteFacts
<1>3. Typed
  BY <1>1, <1>2 DEF Typed, TInv, TypeOK, system
<1>4. Follows(p) /\ Files(p)
  BY <1>1, <1>2 DEF Follows, Files, Writing
<1>5. KeyWritten(p)
  BY <1>2, CertAssumption DEF KeyWritten
<1>6. Asked(p)
  BY <1>2 DEF Asked
<1>7. CASet(p)
  BY <1>2 DEF CASet
<1>8. Cleaned(p)
  BY <1>1, <1>2 DEF Cleaned, system
<1> QED
  BY <1>2, <1>3, <1>4, <1>5, <1>6, <1>7, <1>8 DEF Effect

LEMMA TrustEffect ==
    ASSUME TInv, NEW p \in Procs, Trust(p), UNCHANGED system
    PROVE  Effect(p)
<1>1. /\ proc' \in [Procs -> Memory] /\ Others(p)
      /\ proc[p].pc = "trust" /\ proc'[p].pc = "up"
      /\ proc'[p].ca = proc[p].ca
  BY DEF Trust, Trusting, TInv, TypeOK, Memory, Steps, Others
<1>2. cert \in CAs /\ trusted' = trusted \cup {cert}
      /\ UNCHANGED <<dir, cert, key, faults, system>>
  BY DEF Trust
<1>3. Typed
  BY <1>1, <1>2 DEF Typed, TInv, TypeOK, system
<1>4. Follows(p) /\ Files(p) /\ KeyWritten(p)
  BY <1>1, <1>2 DEF Follows, Files, KeyWritten, Writing
<1>5. Asked(p)
  BY <1>1, <1>2 DEF Asked
<1>6. CASet(p)
  BY <1>1 DEF CASet
<1>7. Cleaned(p)
  BY <1>1, <1>2 DEF Cleaned, system
<1> QED
  BY <1>1, <1>3, <1>4, <1>5, <1>6, <1>7 DEF Effect, Making

LEMMA TrustFailsEffect ==
    ASSUME TInv, NEW p \in Procs, TrustFails(p), UNCHANGED system
    PROVE  Effect(p)
<1>1. faults' \in 0..MaxFaults
  BY FaultType DEF TrustFails, TInv, TypeOK
<1> QED
  BY <1>1, StopEffect DEF TrustFails, system, disk, TInv, TypeOK

------------------------------------------------------------------------------
(* The commands, launchd, and what ends an instance.                        *)

LEMMA StartEffect ==
    ASSUME TInv
    PROVE  /\ StartDaemon => Effect(Daemon)
           /\ \A p \in Procs : StartCommand(p) => Effect(p)
<1>0. Daemon \in Procs
  BY ProcsAssumption
<1>1. TypeOK
  BY DEF TInv
<1>2. ASSUME NEW p \in Procs, NEW from \in {"new", "off"},
             NEW to \in {"resolver", "read", "launchctl"}, Goto(p, from, to),
             UNCHANGED <<disk, faults, system>>
      PROVE  Effect(p)
  <2>1. to \in Steps /\ to \notin Writing /\ to \notin {"untrust", "remove"}
    BY DEF Steps, SettingUp, Writing
  <2>2. faults' \in 0..MaxFaults /\ plist' \in BOOLEAN /\ loaded' \in BOOLEAN
        /\ resolver' \in SUBSET Domains /\ resolver' \subseteq resolver
        /\ UNCHANGED disk
    BY <1>1, <1>2 DEF TypeOK, system
  <2> QED
    BY <1>2, <2>1, <2>2, GotoEffect
<1>3. StartDaemon => Effect(Daemon)
  BY <1>0, <1>2 DEF StartDaemon
<1>4. ASSUME NEW p \in Procs, StartCommand(p) PROVE Effect(p)
  BY <1>2, <1>4 DEF StartCommand
<1> QED
  BY <1>3, <1>4

LEMMA ConfigureResolverEffect ==
    ASSUME TInv, NEW p \in Procs, ConfigureResolver(p)
    PROVE  Effect(p)
<1>1. proc[p].pc = "resolver" /\ UNCHANGED <<disk, plist, loaded>>
      /\ "read" \in Steps /\ "read" \notin Writing /\ TypeOK
  BY DEF ConfigureResolver, Steps, SettingUp, Writing, TInv
<1>2. plist' \in BOOLEAN /\ loaded' \in BOOLEAN
  BY <1>1 DEF TypeOK
<1>3. resolver' \in SUBSET Domains
  <2>1. PICK domains \in SUBSET Tlds[p] : resolver' = resolver \cup domains
    BY DEF ConfigureResolver
  <2>2. Tlds[p] \subseteq Domains
    BY DEF Domains
  <2> QED
    BY <1>1, <2>1, <2>2 DEF TypeOK
<1>4. CASE Goto(p, "resolver", "read") /\ UNCHANGED faults
  <2>1. faults' \in 0..MaxFaults
    BY <1>1, <1>4 DEF TypeOK
  <2> QED
    BY <1>1, <1>2, <1>3, <1>4, <2>1, GotoEffect
<1>5. CASE Fault /\ Stop(p)
  BY <1>1, <1>2, <1>3, <1>5, FaultType, StopEffect
<1> QED
  BY <1>4, <1>5 DEF ConfigureResolver

LEMMA EndEffect ==
    ASSUME TInv, NEW p \in Procs, Quit(p) \/ Crash(p) \/ Exit(p)
    PROVE  Effect(p)
<1>1. TypeOK
  BY DEF TInv
<1>2. CASE Quit(p)
  BY <1>1, <1>2, StopEffect DEF Quit, system, TypeOK
<1>3. CASE Crash(p)
  BY <1>1, <1>3, StopEffect, FaultType DEF Crash, system, TypeOK
<1>4. CASE Exit(p)
  BY <1>1, <1>4, StopEffect DEF Exit, system, TypeOK
<1> QED
  BY <1>2, <1>3, <1>4

LEMMA UnloadEffect ==
    ASSUME TInv, NEW p \in Procs, InstallUnload(p) \/ UninstallUnload(p)
    PROVE  Effect(p)
<1>1. PICK to \in {"launchctl", "domains"} : Unload(p, to)
  BY DEF InstallUnload, UninstallUnload
<1>2. p # Daemon /\ Daemon \in Procs
  BY ProcsAssumption DEF InstallUnload, UninstallUnload
<1>3. proc[p].pc \in {"up", "launchctl"} /\ plist' \in BOOLEAN
      /\ UNCHANGED <<disk, resolver>> /\ TypeOK
  BY DEF InstallUnload, UninstallUnload, TInv
<1> DEFINE running == proc[Daemon].pc # "off"
           half == [proc EXCEPT ![p].pc = to]
<1>4. loaded' \in BOOLEAN /\ faults' \in 0..MaxFaults
      /\ \/ proc' = half
         \/ proc' = [proc EXCEPT ![p].pc = to, ![Daemon].told = running]
  BY <1>1, <1>3, FaultType DEF Unload, TypeOK
<1>5. running \in BOOLEAN /\ to \in Steps
  BY DEF Steps, Uninstalling
<1> HIDE DEF running
<1>6. half \in [Procs -> Memory] /\ half[p].pc = to
      /\ half[p].ca = proc[p].ca
      /\ \A q \in Procs \ {p} : half[q] = proc[q]
  BY <1>5 DEF TInv, TypeOK, Memory
<1>7. /\ proc' \in [Procs -> Memory] /\ proc'[p].pc = to
      /\ proc'[p].ca = proc[p].ca /\ Others(p)
  <2>1. CASE proc' = half
    BY <1>6, <2>1 DEF Others
  <2>2. CASE proc' = [proc EXCEPT ![p].pc = to, ![Daemon].told = running]
    <3>1. proc' = [half EXCEPT ![Daemon].told = running]
      BY <1>2, <2>2 DEF TInv, TypeOK, Memory
    <3> HIDE DEF half
    <3>2. proc' \in [Procs -> Memory] /\ proc'[p] = half[p]
          /\ \A q \in Procs : q # Daemon => proc'[q] = half[q]
      BY <1>2, <1>5, <1>6, <3>1 DEF Memory
    <3>3. proc'[Daemon] = [half[Daemon] EXCEPT !.told = running]
      BY <1>2, <1>6, <3>1
    <3>4. half[Daemon] \in Memory
      BY <1>2, <1>6
    <3>5. Others(p)
      BY <1>2, <1>6, <3>2, <3>3, <3>4 DEF Others, Memory
    <3> QED
      BY <1>6, <3>2, <3>5
  <2> QED
    BY <1>4, <2>1, <2>2
<1> HIDE DEF half
<1>8. Typed
  BY <1>3, <1>4, <1>7 DEF Typed, TypeOK, disk
<1>9. Follows(p) /\ Files(p) /\ KeyWritten(p)
  BY <1>3, <1>7 DEF Follows, Files, KeyWritten, Writing, disk
<1>10. Asked(p)
  BY <1>3 DEF Asked
<1>11. CASet(p)
  BY <1>7 DEF CASet
<1>12. Cleaned(p)
  BY <1>3, <1>7 DEF Cleaned, disk
<1> QED
  BY <1>7, <1>8, <1>9, <1>10, <1>11, <1>12 DEF Effect, Making

LEMMA InstallLoadEffect ==
    ASSUME TInv, NEW p \in Procs, InstallLoad(p)
    PROVE  Effect(p)
BY StopEffect DEF InstallLoad, TInv, TypeOK

LEMMA RemoveDomainsEffect ==
    ASSUME TInv, NEW p \in Procs, RemoveDomains(p)
    PROVE  Effect(p)
<1>1. Goto(p, "domains", "untrust") /\ UNCHANGED <<disk, plist, loaded>>
      /\ TypeOK /\ "untrust" \in Steps
  BY DEF RemoveDomains, TInv, Steps, Uninstalling
<1>2. /\ resolver' \subseteq resolver
      /\ \/ resolver' \cap Tlds[p] = {} /\ UNCHANGED faults
         \/ Fault
  BY DEF RemoveDomains
<1>3. /\ faults' \in 0..MaxFaults
      /\ resolver' \cap Tlds[p] = {} \/ faults' # faults
  BY <1>1, <1>2, FaultType DEF TypeOK
<1>4. /\ proc' \in [Procs -> Memory] /\ Others(p)
      /\ proc[p].pc = "domains" /\ proc'[p].pc = "untrust"
      /\ proc'[p].ca = proc[p].ca
  BY <1>1, GotoFacts
<1>5. Typed
  BY <1>1, <1>2, <1>3, <1>4 DEF Typed, TypeOK, disk
<1>6. Follows(p) /\ Files(p) /\ KeyWritten(p)
  BY <1>1, <1>4 DEF Follows, Files, KeyWritten, Writing, disk
<1>7. Asked(p)
  BY <1>4 DEF Asked
<1>8. CASet(p)
  BY <1>4 DEF CASet
<1>9. Cleaned(p)
  BY <1>1, <1>2, <1>3, <1>4 DEF Cleaned, disk
<1> QED
  BY <1>4, <1>5, <1>6, <1>7, <1>8, <1>9 DEF Effect, Making

LEMMA UntrustEffect ==
    ASSUME TInv, NEW p \in Procs, Untrust(p)
    PROVE  Effect(p)
<1>1. proc[p].pc = "untrust" /\ trusted' \subseteq trusted
      /\ UNCHANGED <<dir, cert, key, plist, loaded, resolver>>
      /\ TypeOK /\ "remove" \in Steps
  BY DEF Untrust, system, TInv, Steps, Uninstalling
<1>2. /\ proc' \in [Procs -> Memory] /\ Others(p)
      /\ proc'[p].pc \in {"remove", "off"}
      /\ proc'[p].ca \in {None, proc[p].ca}
  <2>1. CASE Goto(p, "untrust", "remove")
    BY <1>1, <2>1, GotoFacts
  <2>2. CASE Stop(p)
    BY <1>1, <2>2, StopFacts
  <2> QED
    BY <2>1, <2>2 DEF Untrust
<1>3. faults' \in 0..MaxFaults /\ (trusted' = {} \/ faults' # faults)
  <2>1. CASE trusted' = {}
    BY <2>1, <1>1 DEF Untrust, TypeOK
  <2>2. CASE trusted' # {}
    BY <2>2, <1>1, FaultType DEF Untrust
  <2> QED
    BY <2>1, <2>2
<1>4. Typed
  BY <1>1, <1>2, <1>3 DEF Typed, TypeOK
<1>5. Follows(p) /\ Files(p) /\ KeyWritten(p)
  BY <1>1, <1>2 DEF Follows, Files, KeyWritten, Writing
<1>6. Asked(p)
  BY <1>1 DEF Asked
<1>7. CASet(p)
  BY <1>2 DEF CASet
<1>8. Cleaned(p)
  BY <1>1, <1>2, <1>3 DEF Cleaned
<1> QED
  BY <1>2, <1>4, <1>5, <1>6, <1>7, <1>8 DEF Effect, Making

LEMMA RemoveFilesEffect ==
    ASSUME TInv, NEW p \in Procs, RemoveFiles(p)
    PROVE  Effect(p)
<1> DEFINE hit(q) == \/ proc[q].shared
                     \/ proc[q].pc = "cert" /\ cert' = None
                     \/ proc[q].pc = "key" /\ key' = None
           mem(q) == IF q = p THEN At("off")
                     ELSE [proc[q] EXCEPT !.shared = hit(q)]
<1>1. /\ proc[p].pc = "remove"
      /\ cert' \in {cert, None} /\ key' \in {key, None}
      /\ UNCHANGED <<trusted, system>>
      /\ proc' = [q \in Procs |-> mem(q)]
  BY DEF RemoveFiles
<1>2. dir' \in BOOLEAN /\ faults' \in 0..MaxFaults
  BY FaultType DEF RemoveFiles, TInv, TypeOK
<1>3. At("off") \in Memory /\ At("off").pc = "off" /\ At("off").ca = None
  BY DEF At, Memory, Steps, Content
<1>4. ASSUME NEW q \in Procs PROVE mem(q) \in Memory
  <2>1. proc[q] \in Memory
    BY DEF TInv, TypeOK
  <2>2. hit(q) \in BOOLEAN
    BY <2>1 DEF Memory
  <2>3. CASE q = p
    BY <2>3, <1>3
  <2> HIDE DEF hit
  <2>4. CASE q # p
    BY <2>1, <2>2, <2>4 DEF Memory
  <2> QED
    BY <2>3, <2>4
<1>5. proc' \in [Procs -> Memory] /\ proc'[p].pc = "off" /\ proc'[p].ca = None
  BY <1>1, <1>3, <1>4
<1>6. Others(p)
  BY <1>1 DEF Others, TInv, TypeOK, Memory
<1>7. Typed
  BY <1>1, <1>2, <1>5 DEF Typed, TInv, TypeOK, Content, system
<1>8. Follows(p) /\ Files(p) /\ KeyWritten(p)
  BY <1>1, <1>5, CertAssumption DEF Follows, Files, KeyWritten, Writing
<1>9. Asked(p)
  BY <1>1 DEF Asked
<1>10. CASet(p)
  BY <1>5 DEF CASet
<1>11. Cleaned(p)
  BY <1>1, <1>5 DEF Cleaned, system
<1> QED
  BY <1>5, <1>6, <1>7, <1>8, <1>9, <1>10, <1>11 DEF Effect, Making

(* Every step is one instance's, and does what Effect says.                 *)
LEMMA NextEffect ==
    ASSUME TInv, Next
    PROVE  Recorded /\ \E p \in Procs : Effect(p)
<1>1. Recorded
  BY DEF Next
<1>2. CASE StartDaemon
  BY <1>1, <1>2, StartEffect, ProcsAssumption
<1>3. ASSUME NEW p \in Procs,
             StartCommand(p) \/ Quit(p) \/ Crash(p) \/ Exit(p) \/ Step(p)
                \/ Install(p) \/ Uninstall(p)
      PROVE  Effect(p)
  <2>1. CASE Step(p)
    BY <2>1, ConfigureResolverEffect, ReadCertEffect, MkdirFailsEffect,
       ReadKeyEffect,
       CreateCertEffect, WriteCertEffect, OpenKeyEffect, WriteKeyEffect,
       TrustEffect, TrustFailsEffect DEF Step, SetUp
  <2>2. CASE Install(p)
    BY <2>2, UnloadEffect, InstallLoadEffect DEF Install
  <2>3. CASE Uninstall(p)
    BY <2>3, UnloadEffect, RemoveDomainsEffect, UntrustEffect,
       RemoveFilesEffect DEF Uninstall
  <2> QED
    BY <1>3, <2>1, <2>2, <2>3, StartEffect, EndEffect
<1>4. ASSUME ~StartDaemon
      PROVE  \E p \in Procs :
         StartCommand(p) \/ Quit(p) \/ Crash(p) \/ Exit(p) \/ Step(p)
            \/ Install(p) \/ Uninstall(p)
  BY <1>4 DEF Next
<1>5. CASE ~StartDaemon
  <2>1. PICK p \in Procs :
            StartCommand(p) \/ Quit(p) \/ Crash(p) \/ Exit(p) \/ Step(p)
               \/ Install(p) \/ Uninstall(p)
    BY <1>4, <1>5, Zenon
  <2>2. Effect(p)
    BY <2>1, <1>3, Zenon
  <2> QED
    BY <1>1, <2>2
<1> QED
  BY <1>2, <1>5

------------------------------------------------------------------------------
(* The invariants.                                                          *)

(* A key on disk is trusted, known not to be, or its maker asks for it.     *)
KeyAccounted ==
    key \in CAs =>
        key \in trusted \cup abandoned
                \cup {proc[q].made : q \in Between({"trust"})}

(* Where there is a complete pair, the set-ups that may still cut it off    *)
(* are those that do not know of it; any other has read its certificate.    *)
Late ==
    ValidPair =>
        \A q \in Procs : proc[q].pc \in Writing =>
            \/ q \in blind
            \/ proc[q].pc = "load" /\ proc[q].seen = cert

(* disturbed sees every set-up that goes on beside an uninstall.            *)
Noticed ==
    Between(Uninstalling) # {} /\ Between(SettingUp) # {} => disturbed

(* An uninstall that nothing fails in and nobody disturbs keeps what it has *)
(* done.                                                                    *)
Clean ==
    \A q \in Procs :
        /\ proc[q].pc \in {"untrust", "remove"} =>
              resolver \cap Tlds[q] = {} \/ disturbed \/ failed
        /\ proc[q].pc = "remove" => trusted = {} \/ disturbed \/ failed

IInv == TInv /\ KeyAccounted /\ Late /\ Noticed /\ Clean

LEMMA InitInv == Init => IInv
<1> SUFFICES ASSUME Init PROVE IInv
  OBVIOUS
<1>1. \A p \in Procs : At(IF p = Daemon THEN "off" ELSE "new") \in Memory
  BY DEF At, Memory, Steps, Content
<1>2. proc \in [Procs -> Memory]
  BY <1>1 DEF Init
<1>3. \A p \in Procs : proc[p].pc \in {"off", "new"}
  BY DEF Init, At
<1>4. TypeOK
  <2>1. dir \in BOOLEAN /\ cert \in Content /\ key \in Content
        /\ trusted \in SUBSET CAs
    BY DEF Init, Content
  <2>2. faults \in 0..MaxFaults
    BY CertAssumption DEF Init
  <2>3. plist \in BOOLEAN /\ loaded \in BOOLEAN
        /\ resolver \in SUBSET Domains
    BY DEF Init
  <2>4. abandoned \in SUBSET CAs /\ blind \in SUBSET Procs
        /\ disturbed \in BOOLEAN /\ failed \in BOOLEAN
    BY DEF Init
  <2> QED
    BY <1>2, <2>1, <2>2, <2>3, <2>4 DEF TypeOK
<1>5. HasMade
  BY <1>3 DEF HasMade, Making
<1>6. KeyAccounted /\ Late
  BY CertAssumption DEF Init, KeyAccounted, Late, ValidPair
<1>7. Between(Uninstalling) = {}
  BY <1>3 DEF Between, Uninstalling
<1>8. Noticed /\ Clean
  BY <1>3, <1>7 DEF Noticed, Clean
<1> QED
  BY <1>4, <1>5, <1>6, <1>8 DEF IInv, TInv

LEMMA TypeStep ==
    ASSUME TInv, Recorded, NEW p \in Procs, Effect(p)
    PROVE  TInv'
<1>1. Typed /\ Others(p) /\ (proc'[p].pc \in Making => proc'[p].made \in CAs)
  BY DEF Effect
<1>2. HasMade'
  BY <1>1 DEF TInv, HasMade, Others
<1>3. \A q \in Procs : proc[q].pc = "trust" => proc[q].made \in CAs
  BY DEF TInv, HasMade, Making
<1>4. LeftUntrusted \subseteq CAs
  BY <1>3 DEF LeftUntrusted, Misses, TInv, TypeOK
<1>5. abandoned' \in SUBSET CAs
  BY <1>4 DEF Recorded, TInv, TypeOK
<1>6. blind' \in SUBSET Procs
  BY DEF Recorded, Between
<1>7. disturbed' \in BOOLEAN /\ failed' \in BOOLEAN
  BY DEF Recorded
<1> QED
  BY <1>1, <1>2, <1>5, <1>6, <1>7 DEF TInv, TypeOK, Typed

LEMMA KeyStep ==
    ASSUME TInv, KeyAccounted, Recorded, NEW p \in Procs, Effect(p)
    PROVE  KeyAccounted'
<1> SUFFICES ASSUME key' \in CAs,
                    key' \notin trusted', key' \notin abandoned'
             PROVE  \E q \in Procs : proc'[q].pc = "trust"
                                     /\ proc'[q].made = key'
  BY DEF KeyAccounted, Between
<1>1. CASE key' # key
  BY <1>1 DEF Effect, KeyWritten
<1>2. CASE key' = key
  <2>1. key \notin LeftUntrusted /\ key \notin abandoned
    BY <1>2 DEF Recorded
  <2>2. key \notin trusted
    BY <1>2, <2>1 DEF LeftUntrusted
  <2>3. PICK q \in Procs : proc[q].pc = "trust" /\ proc[q].made = key
    BY <1>2, <2>1, <2>2 DEF KeyAccounted, Between
  <2>4. CASE q = p
    <3>1. ~Misses(p)
      BY <2>1, <2>3, <2>4 DEF LeftUntrusted
    <3>2. proc'[p].pc = "up" /\ cert \in trusted' /\ cert = key
      BY <2>3, <2>4, <3>1 DEF Misses, Effect, Asked
    <3> QED
      BY <3>2, <1>2
  <2>5. CASE q # p
    BY <1>2, <2>3, <2>5 DEF Effect, Others
  <2> QED
    BY <2>4, <2>5
<1> QED
  BY <1>1, <1>2

LEMMA LateStep ==
    ASSUME TInv, Late, Recorded, NEW p \in Procs, Effect(p)
    PROVE  Late'
<1> SUFFICES ASSUME ValidPair', NEW q \in Procs, proc'[q].pc \in Writing,
                    q \notin blind'
             PROVE  proc'[q].pc = "load" /\ proc'[q].seen = cert'
  BY DEF Late
<1>1. Others(p) /\ Follows(p) /\ Files(p)
  BY DEF Effect
<1>2. Writing \subseteq SettingUp \ {"read"}
  BY DEF Writing, SettingUp
<1>3. q \in Between(SettingUp)'
  BY <1>2 DEF Between
<1>4. q \notin Misread
  BY <1>3 DEF Recorded
<1>5. CASE ValidPair
  <2>1. UNCHANGED <<cert, key>>
    BY <1>1, <1>5, CertAssumption DEF Files, ValidPair
  <2>2. q \notin blind
    BY <1>3, <1>5 DEF Recorded
  <2>3. CASE q = p
    BY <1>1, <1>4, <1>5, <2>1, <2>2, <2>3 DEF Follows, Late
  <2>4. CASE q # p
    BY <1>1, <1>5, <2>1, <2>2, <2>4 DEF Others, Late
  <2> QED
    BY <2>3, <2>4
<1>6. CASE ~ValidPair
  <2>1. \/ proc[q].pc \in Writing
        \/ proc'[q].pc = "load" /\ proc'[q].seen = cert'
    <3>1. CASE q = p
      BY <1>1, <1>4, <3>1 DEF Follows
    <3>2. CASE q # p
      BY <1>1, <3>2 DEF Others
    <3> QED
      BY <3>1, <3>2
  <2>2. proc[q].pc \in Writing => q \in Between(SettingUp \ {"read"})
    BY <1>2 DEF Between
  <2> QED
    BY <1>3, <1>6, <2>1, <2>2 DEF Recorded
<1> QED
  BY <1>5, <1>6

LEMMA NoticedStep ==
    ASSUME Recorded
    PROVE  Noticed'
BY DEF Recorded, Noticed

LEMMA CleanStep ==
    ASSUME TInv, Noticed, Clean, Recorded, NEW p \in Procs, Effect(p)
    PROVE  Clean'
<1>1. Others(p) /\ Cleaned(p)
  BY DEF Effect
<1> SUFFICES ASSUME NEW q \in Procs, proc'[q].pc \in {"untrust", "remove"},
                    ~disturbed', ~failed'
             PROVE  /\ resolver' \cap Tlds[q] = {}
                    /\ proc'[q].pc = "remove" => trusted' = {}
  BY DEF Clean
<1>2. q \in Between(Uninstalling)'
  BY DEF Between, Uninstalling
<1>3. /\ ~disturbed /\ Between(SettingUp)' = {}
      /\ ~failed /\ faults' = faults
  BY <1>2 DEF Recorded
<1>4. CASE q = p
  <2>1. CASE proc'[p].pc = "untrust"
    BY <1>1, <1>3, <1>4, <2>1 DEF Cleaned
  <2>2. CASE proc'[p].pc = "remove"
    <3>1. /\ proc[p].pc = "untrust" /\ trusted' = {}
          /\ resolver' \subseteq resolver
      BY <1>1, <1>3, <2>2 DEF Cleaned
    <3>2. resolver \cap Tlds[p] = {}
      BY <1>3, <3>1 DEF Clean
    <3> QED
      BY <1>4, <3>1, <3>2
  <2> QED
    BY <1>4, <2>1, <2>2
<1>5. CASE q # p
  <2>1. proc[q].pc = proc'[q].pc
    BY <1>1, <1>5 DEF Others
  <2>2. q \in Between(Uninstalling)
    BY <2>1 DEF Between, Uninstalling
  <2>3. proc[p].pc \notin {"trust", "resolver"}
    BY <1>3, <2>2 DEF Noticed, Between, SettingUp
  <2>4. trusted' \subseteq trusted /\ resolver' \subseteq resolver
    BY <1>1, <2>3 DEF Cleaned
  <2>5. /\ resolver \cap Tlds[q] = {}
        /\ proc[q].pc = "remove" => trusted = {}
    BY <1>3, <2>1 DEF Clean
  <2> QED
    BY <2>1, <2>4, <2>5
<1> QED
  BY <1>4, <1>5

LEMMA StepInv == IInv /\ [Next]_vars => IInv'
<1> SUFFICES ASSUME IInv, [Next]_vars PROVE IInv'
  OBVIOUS
<1>1. CASE Next
  <2>1. Recorded /\ \E p \in Procs : Effect(p)
    BY <1>1, NextEffect DEF IInv
  <2>2. PICK p \in Procs : Effect(p)
    BY <2>1
  <2> QED
    BY <2>1, <2>2, TypeStep, KeyStep, LateStep, NoticedStep, CleanStep
       DEF IInv
<1>2. CASE UNCHANGED vars
  <2>1. TInv'
    BY <1>2 DEF IInv, TInv, TypeOK, HasMade, vars, disk, system, history
  <2>2. KeyAccounted' /\ Late'
    BY <1>2 DEF IInv, KeyAccounted, Late, ValidPair, Between, vars, disk,
       system, history
  <2>3. Noticed' /\ Clean'
    BY <1>2 DEF IInv, Noticed, Clean, Between, vars, disk, system, history
  <2> QED
    BY <2>1, <2>2, <2>3 DEF IInv
<1> QED
  BY <1>1, <1>2

LEMMA SpecInv == Spec => []IInv
BY InitInv, StepInv, PTL DEF Spec

------------------------------------------------------------------------------
(* The memory of every instance, the files, the keychain and the resolver   *)
(* keep their types.                                                        *)
THEOREM TypeCorrect == Spec => []TypeOK
<1>1. IInv => TypeOK
  BY DEF IInv, TInv
<1> QED
  BY <1>1, SpecInv, PTL

(* No instance takes a pair for trusted that is not, but for a maker that   *)
(* is at the dialog of the keychain, ended there or had its cert.pem        *)
(* written over, and for an uninstall that stopped half-way                 *)
(* (ssl.go:63-113, ssl_darwin.go:23).                                       *)
THEOREM TrustIsAssumedRightly == Spec => AssumedTrustHolds
<1>1. IInv /\ [Next]_vars =>
        [\A p \in Procs : proc[p].ca = None /\ proc'[p].ca # None =>
          proc'[p].ca \in trusted \cup abandoned
                         \cup {proc[q].made : q \in Between({"trust"})}]_vars
  <2> SUFFICES ASSUME IInv, Next, NEW p \in Procs,
                      proc[p].ca = None, proc'[p].ca # None
               PROVE  proc'[p].ca \in trusted \cup abandoned
                         \cup {proc[q].made : q \in Between({"trust"})}
    OBVIOUS
  <2>1. PICK r \in Procs : Effect(r)
    BY NextEffect DEF IInv
  <2>2. r = p
    BY <2>1 DEF Effect, Others
  <2>3. proc'[p].ca = key /\ key \in CAs
    BY <2>1, <2>2 DEF Effect, CASet
  <2> QED
    BY <2>3 DEF IInv, KeyAccounted
<1> QED
  BY <1>1, SpecInv, PTL DEF Spec, AssumedTrustHolds

(* A complete pair is only changed by an uninstall that removes it, or by a *)
(* set-up that does not know of it: one that began before the pair was      *)
(* complete, or that an error kept from reading it (ssl.go:100-107).        *)
THEOREM PairsAreKept == Spec => CaKept
<1>1. IInv /\ [Next]_vars =>
        [ValidPair /\ <<cert, key>>' # <<cert, key>> =>
          \E p \in Procs : /\ proc'[p] # proc[p]
                           /\ p \in blind \/ proc[p].pc = "remove"]_vars
  <2> SUFFICES ASSUME IInv, Next, ValidPair, <<cert, key>>' # <<cert, key>>
               PROVE  \E p \in Procs :
                         /\ proc'[p] # proc[p]
                         /\ p \in blind \/ proc[p].pc = "remove"
    OBVIOUS
  <2>1. PICK p \in Procs : Effect(p)
    BY NextEffect DEF IInv
  <2>2. CASE proc[p].pc = "remove" /\ proc'[p].pc # "remove"
    BY <2>2
  <2>3. CASE proc[p].pc \in {"create", "cert", "open", "key"}
             /\ proc'[p].pc # proc[p].pc
    <3>1. p \in blind
      BY <2>3 DEF IInv, Late, Writing
    <3> QED
      BY <2>3, <3>1
  <2> QED
    BY <2>1, <2>2, <2>3 DEF Effect, Files
<1> QED
  BY <1>1, SpecInv, PTL DEF Spec, CaKept

(* An uninstall in which nothing fails and that nothing starts up beside    *)
(* removes the files only when the keychain has forgotten every CA and none *)
(* of its domains is resolved any more: neither another uninstall nor an    *)
(* instance that is up already brings them back (setup_darwin.go:213-232,   *)
(* main_darwin.go:66-72).                                                   *)
THEOREM UninstallIsThorough == Spec => UninstallForgets
<1>1. IInv /\ [Next]_vars =>
        [\A p \in Procs : proc[p].pc = "remove" /\ dir /\ ~dir' =>
          \/ trusted = {} /\ resolver \cap Tlds[p] = {}
          \/ disturbed \/ failed]_vars
  BY DEF IInv, Clean
<1> QED
  BY <1>1, SpecInv, PTL DEF Spec, UninstallForgets
==============================================================================
