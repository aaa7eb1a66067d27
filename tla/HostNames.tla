------------------------------ MODULE HostNames ------------------------------
(***************************************************************************)
(* From the Host header of a request to an application (dev/http.go,       *)
(* dev/app.go): removeTLD takes the configured domain off, and             *)
(* FindAppByDomainName looks one name after the other up in the pool and   *)
(* in the directory of links, dropping a label each time, and "default" at *)
(* last.  The user may edit the directory between any two looks at it, and *)
(* apps start and stop between two lookups, which hold the lock of the     *)
(* pool.  A behaviour is one request; all others only start and stop apps. *)
(*                                                                         *)
(* A name is the sequence of its labels, as split at the dots.             *)
(***************************************************************************)
EXTENDS Naturals, Sequences, FiniteSets, SequencesExt

CONSTANTS
    Domains,  \* the domains of option -d
    Hosts,    \* the hosts that requests come for, the port taken off
    Slash,    \* each label with its dashes turned into slashes
    Kinds,    \* what each path of the directory may turn out to be
    MaxEdits  \* bound on the edits of the directory

Empty == <<"">>         \* the empty string
Default == <<"default">>
Paths == DOMAIN Kinds
Outcomes == {"app", "error", "unknown"}

(* strings.Split of a name has one label at least.                         *)
ASSUME HostNamesAssumption ==
    /\ IsFiniteSet(Domains)
    /\ Domains \cup Hosts \subseteq Seq(STRING) \ {<<>>}
    /\ \A p \in Paths : Kinds[p] \subseteq {"none", "link", "app", "error"}
    /\ Default \in Paths
    /\ MaxEdits \in Nat

VARIABLES
    domains,  \* HTTPServer.Domains, as main sorted them
    dir,      \* the directory: an app or proxy, one that fails, a dangling
              \* link ("link"), or nothing; nested paths too
    running,  \* the names under which the pool has an app
    edits,    \* the edits so far
    pc, host, name,  \* the request, and the name it is about to look up
    answer,   \* what the request came to
    since,    \* (history) names there, in the same way, since it arrived
    missed,   \* (history) names not there themselves at some time since then
    ever      \* (history) what names led to at some time since then

request == <<pc, host, name, answer>>
history == <<since, missed, ever>>
vars == <<domains, dir, running, edits, request, history>>

------------------------------------------------------------------------------
(* strings.HasSuffix(host, "." + tld)                                       *)
EndsWith(h, tld) == Len(h) > Len(tld) /\ IsSuffix(tld, h)

Magic == {<<"xip", "io">>, <<"nip", "io">>}

(* The other order, a mutant: simple domains first.                         *)
ByIncreasing(s) == \A i, j \in DOMAIN s : i < j => Len(s[i]) <= Len(s[j])

(* sort.Sort with Less comparing the numbers of dots; it is not stable.     *)
ByDecreasingTLDComplexity(s) ==
    \A i, j \in DOMAIN s : i < j => Len(s[i]) >= Len(s[j])

Cut(h, n) == IF Len(h) > n THEN SubSeq(h, 1, Len(h) - n) ELSE Empty

removeTLD(h) ==
    LET matching == {i \in DOMAIN domains : EndsWith(h, domains[i])}
        first == CHOOSE i \in matching : \A j \in matching : i <= j
    IN  IF \E m \in Magic : EndsWith(h, m) THEN Cut(h, 6)
        ELSE IF matching # {} THEN Cut(h, Len(domains[first]))
        ELSE IF Len(h) = 1 THEN h
        ELSE Cut(h, 1)

(* Mutants: the last dot for the first one, and the dot left in the name.   *)
PruneToLast(n) == IF Len(n) = 1 THEN Empty ELSE <<Last(n)>>

PruneKeepsDot(n) == IF Len(n) = 1 THEN Empty ELSE <<"">> \o Tail(n)

pruneSub(n) == IF Len(n) = 1 THEN Empty ELSE Tail(n)

Nested(n) == [i \in DOMAIN n |-> IF n[i] \in DOMAIN Slash THEN Slash[n[i]]
                                                          ELSE n[i]]

Exists(p) == p \in Paths /\ dir[p] \in {"app", "error"}

(* The pool has an app of that name, or the directory an entry.             *)
Itself(n) == n \in running \/ Exists(n)

(* What is looked up: the name that is left, or the default.                *)
Wanted == IF name = Empty THEN Default ELSE name

------------------------------------------------------------------------------
(* The names a host may stand for, told without the algorithm: what is left *)
(* of the longest domain, or of an address and its six labels, and all that *)
(* ends it; and the default.                                                *)
Stripped(h) ==
    IF \E m \in Magic : EndsWith(h, m)
    THEN IF Len(h) > 6 THEN SubSeq(h, 1, Len(h) - 6) ELSE Empty
    ELSE LET rests == {r \in Prefixes(h) :
                          r # <<>> /\ \E d \in Domains : r \o d = h}
         IN  IF rests # {} THEN CHOOSE r \in rests :
                                    \A q \in rests : Len(r) <= Len(q)
             ELSE IF Len(h) = 1 THEN h
             ELSE Front(h)

Candidates(h) == (Suffixes(Stripped(h)) \ {<<>>, Empty}) \cup {Default}

(* How specific an answer by the name n is for the host h.                  *)
Rank(h, n) ==
    IF n # Empty /\ n \in Suffixes(Stripped(h)) THEN Len(n) ELSE 0

(* The ways in which the names of a host are there: "cdn-blog" itself, or   *)
(* the nested path "cdn/blog".                                              *)
Ways(h) ==
    {x \in Candidates(h) \X {"itself", "nested"} :
        IF x[2] = "itself" THEN Itself(x[1]) ELSE Exists(Nested(x[1]))}

(* Whether the name n leads to the outcome o, by the nested path only if n  *)
(* itself was missed.                                                       *)
Leads(n, o) ==
    \/ n \in running /\ o = "app"
    \/ n \in Paths /\ dir[n] = o
    \/ n \in missed /\ Nested(n) \in Paths /\ dir[Nested(n)] = o

Led(h) == {x \in Candidates(h) \X {"app", "error"} : Leads(x[1], x[2])}

Missing(h) == {n \in Candidates(h) : ~Itself(n)}

------------------------------------------------------------------------------
Names == UNION {Candidates(h) : h \in Hosts}

TypeOK ==
    /\ domains \in SetToSeqs(Domains)
    /\ dir \in [Paths -> {"none", "link", "app", "error"}]
    /\ running \subseteq Names
    /\ edits \in 0 .. MaxEdits
    /\ pc \in {"idle", "find", "nested", "done"}
    /\ host \in Hosts \cup {Empty}
    /\ name = Empty \/ \E p \in Prefixes(host) : name \in Suffixes(p)
    /\ answer \in [name : Names \cup {Empty}, outcome : Outcomes]
    /\ since \subseteq Names \X {"itself", "nested"}
    /\ missed \subseteq Names
    /\ ever \subseteq Names \X {"app", "error"}

Init ==
    /\ domains \in {s \in SetToSeqs(Domains) : ByDecreasingTLDComplexity(s)}
    /\ dir \in {f \in [Paths -> UNION {Kinds[p] : p \in Paths}] :
                    \A p \in Paths : f[p] \in Kinds[p]}
    /\ running = {}
    /\ edits = 0
    /\ pc = "idle" /\ host = Empty /\ name = Empty
    /\ answer = [name |-> Empty, outcome |-> "unknown"]
    /\ since = {} /\ missed = {} /\ ever = {}

(* FindAppByDomainName is at work.                                          *)
Looking == pc \in {"find", "nested"}

(* The history goes on while the request looks for its app.                 *)
Observe ==
    /\ pc # "done"
    /\ IF Looking
       THEN /\ since' = since \cap Ways(host)'
            /\ missed' = missed \cup Missing(host)'
            /\ ever' = ever \cup Led(host)'
       ELSE UNCHANGED history

(* ServeHTTP: the name is stripped, and FindAppByDomainName begins.         *)
Arrive(h) ==
    /\ pc = "idle"
    /\ pc' = "find"
    /\ host' = h
    /\ name' = removeTLD(h)
    /\ UNCHANGED <<domains, dir, running, edits, answer>>
    /\ since' = Ways(h)
    /\ missed' = Missing(h)
    /\ ever' = Led(h)'

(* The request is over: its app is in the pool from now on.                 *)
Answer(o) ==
    /\ pc' = "done"
    /\ answer' = [name |-> Wanted, outcome |-> o]
    /\ running' = IF o = "app" THEN running \cup {Wanted} ELSE running
    /\ UNCHANGED <<domains, dir, edits, host, name, history>>

(* lookupApp: the pool is asked first, ...                                  *)
InPool ==
    /\ pc = "find"
    /\ Wanted \in running
    /\ Answer("app")

(* ... then the directory: an app or a proxy is launched, an error is one.  *)
InDirectory ==
    /\ pc = "find"
    /\ Wanted \notin running
    /\ Exists(Wanted)
    /\ Answer(dir[Wanted])

(* Mutant: dashes are turned into slashes before anything else is tried.    *)
NestedFirst ==
    /\ pc = "find"
    /\ Wanted \notin running
    /\ pc' = "nested"
    /\ UNCHANGED <<domains, dir, running, edits, host, name, answer, history>>

(* There is no such entry, but the name has dashes, ...                     *)
TryNested ==
    /\ pc = "find"
    /\ ~Itself(Wanted) /\ Nested(Wanted) # Wanted
    /\ pc' = "nested"
    /\ UNCHANGED <<domains, dir, running, edits, host, name, answer, history>>

(* ... and there is a nested entry when the directory is read again.        *)
InNested ==
    /\ pc = "nested"
    /\ Exists(Nested(Wanted))
    /\ Answer(dir[Nested(Wanted)])

(* ErrUnknownApp.                                                           *)
Unknown ==
    \/ pc = "find" /\ ~Itself(Wanted) /\ Nested(Wanted) = Wanted
    \/ pc = "nested" /\ ~Exists(Nested(Wanted))

(* Mutant: the loop goes round with the name it has.                        *)
PruneForgets ==
    /\ Unknown
    /\ name # Empty
    /\ UNCHANGED vars

(* The loop of FindAppByDomainName goes on with a shorter name, ...         *)
Prune ==
    /\ Unknown
    /\ name # Empty
    /\ pc' = "find"
    /\ name' = pruneSub(name)
    /\ UNCHANGED <<domains, dir, running, edits, host, answer, history>>

(* ... and ends with the default.                                           *)
NoDefault ==
    /\ Unknown
    /\ name = Empty
    /\ Answer("unknown")

FindAppByDomainName ==
    InPool \/ InDirectory \/ TryNested \/ InNested \/ Prune \/ NoDefault

(* The user edits the directory.                                            *)
Edit(p) ==
    /\ edits < MaxEdits
    /\ edits' = edits + 1
    /\ \E k \in Kinds[p] \ {dir[p]} : dir' = [dir EXCEPT ![p] = k]
    /\ UNCHANGED <<domains, running, request>>
    /\ Observe

(* Another request launches an app, and one is stopped, unless a lookup     *)
(* holds the lock of the pool.                                              *)
Launched(n) ==
    /\ pc # "nested"
    /\ n \notin running
    /\ \/ Exists(n) /\ dir[n] = "app"
       \/ ~Exists(n) /\ Exists(Nested(n)) /\ dir[Nested(n)] = "app"
    /\ running' = running \cup {n}
    /\ UNCHANGED <<domains, dir, edits, request>>
    /\ Observe

Stopped(n) ==
    /\ pc # "nested"
    /\ n \in running
    /\ running' = running \ {n}
    /\ UNCHANGED <<domains, dir, edits, request>>
    /\ Observe

Next ==
    \/ \E h \in Hosts : Arrive(h)
    \/ FindAppByDomainName
    \/ \E p \in Paths : Edit(p)
    \/ \E n \in Names : Launched(n) \/ Stopped(n)

Spec == Init /\ [][Next]_vars

(* A goroutine that can go on does; nothing else has to happen.             *)
FairSpec == Spec /\ WF_vars(FindAppByDomainName)

------------------------------------------------------------------------------
Answers == Looking /\ pc' = "done"

(* Of all domains that a host ends with, the longest is taken off, whatever *)
(* the order that the unstable sort left equals in (main.go:29, http.go:116 *)
(* "h.Domains is sorted by decreasing complexity").                         *)
LongestDomainGoes ==
    [][pc = "idle" /\ pc' = "find" => name' = Stripped(host')]_vars

(* The most specific name answers: a request never falls through to a       *)
(* shorter name, to the default or to "unknown app" if a longer name was    *)
(* there in one way all the time since the request arrived, itself or as a  *)
(* nested path, however the directory and the pool changed meanwhile.  One  *)
(* that was moved from "cdn/x" to "cdn-x" between the two looks of a lookup *)
(* is overlooked (app.go:473, 498, 572-591, README.md:324).                 *)
MostSpecificAnswers ==
    [][Answers => \A way \in since :
          /\ Rank(host, way[1]) <= Rank(host, answer'.name)
          /\ answer'.outcome # "unknown"]_vars

(* A request is answered by what one of its names led to at some time since *)
(* it arrived: not by a dangling link, by the nested path of a name that is *)
(* there itself, nor by a name that the host does not end with.             *)
AnswerWasThere ==
    [][Answers /\ answer'.outcome # "unknown" =>
          <<answer'.name, answer'.outcome>> \in ever]_vars

(* Every lookup comes to an end, in an app, an error or "unknown app".      *)
LookupEnds == Looking ~> pc = "done"
==============================================================================
