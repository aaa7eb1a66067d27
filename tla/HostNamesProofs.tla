--------------------------- MODULE HostNamesProofs ---------------------------
(***************************************************************************)
(* Theorems about HostNames, for any domains, hosts and directory.         *)
(*                                                                         *)
(* That removeTLD takes the longest domain off is a fact about sequences   *)
(* and about the order of the domains, whichever the sort has left.  That  *)
(* the most specific name answers is an invariant of the loop: no name     *)
(* that has been there in one way ever since the request arrived is longer *)
(* than the one that is looked up.                                         *)
(***************************************************************************)
EXTENDS HostNames, FiniteSetTheorems, SequenceTheorems, WellFoundedInduction,
        TLAPS

(* The provers do not know that the empty string is a string.               *)
Word == STRING \cup {""}

Labels == Seq(Word)

LEMMA LeastNumber ==
    ASSUME NEW T, T \subseteq Nat, T # {}
    PROVE  \E m \in T : \A n \in T : m <= n
<1> DEFINE Less == {ss \in Nat \X Nat : ss[1] < ss[2]}
<1>1. IsWellFoundedOn(Less, Nat)
  BY NatLessThanWellFounded DEF OpToRel
<1>2. PICK m \in T : \A n \in T : <<n, m>> \notin Less
  BY <1>1, WFMin
<1>3. \A n \in T : <<n, m>>[1] = n /\ <<n, m>>[2] = m
                   /\ <<n, m>> \in Nat \X Nat
  OBVIOUS
<1>4. \A n \in T : ~ (n < m)
  BY <1>2, <1>3
<1> QED
  BY <1>4

LEMMA EmptyLen == Len(<<>>) = 0
OBVIOUS

LEMMA OneIsLeast ==
    /\ \A k \in Int : k >= 1 => k # 0 /\ (k # 1 => k > 1)
    /\ \A k \in Nat \ {0} : k # 1 => k > 1 /\ k - 1 # 0
    /\ \A k \in Nat : k <= 1 /\ k # 1 => k = 0
OBVIOUS

(* A host or a domain, and what is taken off it.                            *)
LEMMA CutFacts ==
    ASSUME NEW h \in Labels, NEW n \in 0 .. Len(h) - 1,
           NEW r, r = SubSeq(h, 1, Len(h) - n)
    PROVE  /\ r \in Labels /\ Len(r) = Len(h) - n
           /\ r # <<>> /\ r \in Prefixes(h)
           /\ \A i \in 1 .. Len(h) - n : r[i] = h[i]
<1>1. Len(h) \in Nat /\ Len(h) - n \in Int /\ 1 <= Len(h) - n
      /\ Len(h) - n \in 0 .. Len(h)
  BY DEF Labels
<1>2. \A i \in 1 .. Len(h) - n : h[i] \in Word
  BY <1>1 DEF Labels
<1>3. r \in Prefixes(h)
  BY <1>1 DEF Prefixes
<1>4. r \in Labels /\ Len(r) = Len(h) - n
      /\ \A i \in 1 .. Len(h) - n : r[i] = h[i]
  BY <1>1, <1>2, SubSeqProperties DEF Labels
<1>5. Len(r) # 0
  BY <1>1, <1>4, OneIsLeast, Zenon
<1>6. r # <<>>
  BY <1>5, EmptyLen, Zenon
<1> QED
  BY <1>3, <1>4, <1>6

LEMMA EndsWithIs ==
    ASSUME NEW h \in Labels, NEW t \in Labels
    PROVE  EndsWith(h, t) <=>
             /\ Len(h) > Len(t)
             /\ \A i \in 1 .. Len(t) : t[i] = h[Len(h) - Len(t) + i]
<1> DEFINE n == Len(t)
           m == Len(h)
           rt == Reverse(t)
           rh == Reverse(h)
<1>1. n \in Nat /\ m \in Nat
  BY DEF Labels
<1>2. rt = [i \in 1 .. n |-> t[(n - i) + 1]]
      /\ rh = [i \in 1 .. m |-> h[(m - i) + 1]]
  BY DEF Reverse
<1>3. rt \in Labels /\ Len(rt) = n /\ rh \in Labels /\ Len(rh) = m
  BY <1>1, <1>2 DEF Labels
<1>4. \A i \in 1 .. n : rt[i] = t[(n - i) + 1]
  BY <1>2
<1>5. \A i \in 1 .. m : rh[i] = h[(m - i) + 1]
  BY <1>2
<1> HIDE DEF rt, rh
<1>6. EndsWith(h, t) <=> m > n /\ SubSeq(rt, 1, n) = SubSeq(rh, 1, n)
  BY <1>1, <1>3 DEF EndsWith, IsSuffix, IsPrefix, rt, rh
<1>7. SubSeq(rt, 1, n) = rt
  BY <1>3, SubSeqFull DEF Labels
<1>8. ASSUME m > n
      PROVE  SubSeq(rt, 1, n) = SubSeq(rh, 1, n) <=>
             \A i \in 1 .. n : t[i] = h[m - n + i]
  <2> DEFINE front == SubSeq(rh, 1, n)
  <2>1. \A i \in 1 .. n : rh[i] \in Word
    BY <1>1, <1>3, <1>8 DEF Labels
  <2>2. front \in Labels /\ Len(front) = n
        /\ \A i \in 1 .. n : front[i] = rh[i]
    BY <1>1, <2>1, SubSeqProperties DEF Labels
  <2> HIDE DEF front
  <2>3. rt = front <=> \A i \in 1 .. n : rt[i] = front[i]
    BY <1>3, <2>2, SeqEqual DEF Labels
  <2>4. \A i \in 1 .. n : front[i] = h[(m - i) + 1]
    BY <1>1, <1>5, <1>8, <2>2
  <2>5. (\A i \in 1 .. n : rt[i] = front[i]) <=>
        \A i \in 1 .. n : t[(n - i) + 1] = h[(m - i) + 1]
    BY <1>4, <2>4
  <2>6. ASSUME \A i \in 1 .. n : t[(n - i) + 1] = h[(m - i) + 1],
               NEW i \in 1 .. n
        PROVE  t[i] = h[m - n + i]
    <3> DEFINE j == n - i + 1
    <3>1. j \in 1 .. n /\ (n - j) + 1 = i /\ (m - j) + 1 = m - n + i
      BY <1>1
    <3> HIDE DEF j
    <3> QED
      BY <2>6, <3>1
  <2>7. ASSUME \A i \in 1 .. n : t[i] = h[m - n + i],
               NEW i \in 1 .. n
        PROVE  t[(n - i) + 1] = h[(m - i) + 1]
    <3> DEFINE j == (n - i) + 1
    <3>1. j \in 1 .. n /\ m - n + j = (m - i) + 1
      BY <1>1
    <3> HIDE DEF j
    <3>2. t[j] = h[(m - i) + 1]
      BY <2>7, <3>1
    <3> QED
      BY <3>2 DEF j
  <2> QED
    BY <1>7, <2>3, <2>5, <2>6, <2>7 DEF front
<1> QED
  BY <1>6, <1>8

(* A host ends with a domain iff something is left of it without.           *)
LEMMA RestIsCut ==
    ASSUME NEW h \in Labels, NEW t \in Labels, NEW r \in Prefixes(h)
    PROVE  r # <<>> /\ r \o t = h <=>
             EndsWith(h, t) /\ r = SubSeq(h, 1, Len(h) - Len(t))
<1>1. Len(h) \in Nat /\ Len(t) \in Nat
  BY DEF Labels
<1>2. PICK l \in 0 .. Len(h) : r = SubSeq(h, 1, l)
  BY DEF Prefixes
<1>3. \A i \in 1 .. l : h[i] \in Word
  BY <1>1 DEF Labels
<1>4. r \in Labels /\ Len(r) = l /\ \A i \in 1 .. l : r[i] = h[i]
  BY <1>1, <1>2, <1>3, SubSeqProperties DEF Labels
<1>5. /\ r \o t \in Labels /\ Len(r \o t) = l + Len(t)
      /\ \A i \in 1 .. l + Len(t) :
            (r \o t)[i] = IF i <= l THEN r[i] ELSE t[i - l]
  BY <1>1, <1>4, ConcatProperties DEF Labels
<1>6. ASSUME r # <<>>, r \o t = h
      PROVE  EndsWith(h, t) /\ r = SubSeq(h, 1, Len(h) - Len(t))
  <2>1. Len(h) = l + Len(t) /\ l # 0
    BY <1>1, <1>4, <1>5, <1>6 DEF Labels
  <2>2. ASSUME NEW i \in 1 .. Len(t) PROVE t[i] = h[Len(h) - Len(t) + i]
    <3>1. PICK j \in 1 .. l + Len(t) : j = l + i
      BY <1>1
    <3>2. (r \o t)[j] = t[j - l] /\ j - l = i
      BY <1>1, <1>5, <3>1
    <3> QED
      BY <1>1, <1>6, <2>1, <3>1, <3>2
  <2>3. EndsWith(h, t)
    BY <1>1, <2>1, <2>2, EndsWithIs
  <2> QED
    BY <1>1, <1>2, <2>1, <2>3
<1>7. ASSUME EndsWith(h, t), r = SubSeq(h, 1, Len(h) - Len(t))
      PROVE  r # <<>> /\ r \o t = h
  <2>1. Len(h) > Len(t)
        /\ \A i \in 1 .. Len(t) : t[i] = h[Len(h) - Len(t) + i]
    BY <1>7, EndsWithIs
  <2>2. Len(t) \in 0 .. Len(h) - 1
    BY <1>1, <2>1
  <2>3. Len(r) = Len(h) - Len(t) /\ r # <<>>
    BY <1>7, <2>2, CutFacts
  <2>4. Len(h) = l + Len(t)
    BY <1>1, <1>4, <2>3
  <2>5. ASSUME NEW i \in 1 .. Len(h) PROVE (r \o t)[i] = h[i]
    <3>1. CASE i <= l
      BY <1>1, <1>4, <1>5, <2>4, <3>1
    <3>2. CASE ~(i <= l)
      <4>1. PICK j \in 1 .. Len(t) : j = i - l
        BY <1>1, <2>4, <3>2
      <4>2. t[j] = h[Len(h) - Len(t) + j] /\ Len(h) - Len(t) + j = i
        BY <1>1, <2>1, <2>4, <4>1
      <4> QED
        BY <1>1, <1>5, <2>4, <3>2, <4>1, <4>2
    <3> QED
      BY <3>1, <3>2
  <2>6. r \o t = h
    BY <1>5, <2>4, <2>5, SeqEqual DEF Labels
  <2> QED
    BY <2>3, <2>6
<1> QED
  BY <1>6, <1>7

(* Every domain is in the list that main sorted.                            *)
LEMMA AllDomains ==
    ASSUME domains \in SetToSeqs(Domains)
    PROVE  /\ DOMAIN domains \subseteq Nat
           /\ \A i \in DOMAIN domains : domains[i] \in Domains
           /\ \A d \in Domains : \E i \in DOMAIN domains : domains[i] = d
<1> DEFINE n == Cardinality(Domains)
           D == 1 .. n
<1>1. n \in Nat /\ IsFiniteSet(Domains)
  BY HostNamesAssumption, FS_CardinalityType
<1>2. IsFiniteSet(D) /\ Cardinality(D) = n
  BY <1>1, FS_Interval
<1>3. domains \in [D -> Domains]
      /\ \A i, j \in D : i # j => domains[i] # domains[j]
  BY DEF SetToSeqs
<1>4. domains \in Injection(D, Domains)
  BY <1>3 DEF Injection, IsInjective
<1>5. domains \in Surjection(D, Domains)
  BY <1>1, <1>2, <1>4, FS_Injection
<1> QED
  BY <1>1, <1>3, <1>5 DEF Surjection

------------------------------------------------------------------------------
(* removeTLD and Stripped.                                                  *)

LEMMA HostFacts ==
    ASSUME NEW h \in Hosts \cup Domains
    PROVE  h \in Labels /\ Len(h) \in Nat \ {0}
<1>1. h \in Labels /\ h # <<>>
  BY HostNamesAssumption, SeqMonotonic DEF Labels, Word
<1> QED
  BY <1>1, EmptySeq DEF Labels

(* What is left of a host without each of the domains that it ends with.    *)
Rests(h) == {r \in Prefixes(h) : r # <<>> /\ \E d \in Domains : r \o d = h}

LEMMA RestsAre ==
    ASSUME NEW h \in Hosts, NEW r
    PROVE  r \in Rests(h) <=>
              \E d \in Domains : /\ EndsWith(h, d)
                                 /\ r = SubSeq(h, 1, Len(h) - Len(d))
<1>1. h \in Labels
  BY HostFacts
<1>2. ASSUME NEW d \in Domains, EndsWith(h, d),
             r = SubSeq(h, 1, Len(h) - Len(d))
      PROVE  r \in Rests(h)
  <2>1. d \in Labels /\ Len(d) \in Nat /\ Len(h) \in Nat
    BY HostFacts
  <2>2. Len(h) > Len(d)
    BY <1>2 DEF EndsWith
  <2>3. Len(d) \in 0 .. Len(h) - 1
    BY <2>1, <2>2
  <2>4. r \in Prefixes(h)
    BY <1>1, <1>2, <2>3, CutFacts
  <2>5. r # <<>> /\ r \o d = h
    BY <1>1, <1>2, <2>1, <2>4, RestIsCut
  <2> QED
    BY <2>4, <2>5 DEF Rests
<1>3. ASSUME r \in Rests(h)
      PROVE  \E d \in Domains : /\ EndsWith(h, d)
                                /\ r = SubSeq(h, 1, Len(h) - Len(d))
  <2>1. PICK d \in Domains : r \o d = h
    BY <1>3 DEF Rests
  <2>2. r \in Prefixes(h) /\ r # <<>> /\ d \in Labels
    BY <1>3, HostFacts DEF Rests
  <2> QED
    BY <1>1, <2>1, <2>2, RestIsCut
<1> QED
  BY <1>2, <1>3

(* Of the domains in this order the first one that a host ends with is a    *)
(* longest one: the shortest rest is left, which is one only.               *)
LEMMA LongestIsFirst ==
    ASSUME domains \in SetToSeqs(Domains),
           ByDecreasingTLDComplexity(domains), NEW h \in Hosts
    PROVE  LET matching == {i \in DOMAIN domains : EndsWith(h, domains[i])}
               first == CHOOSE i \in matching : \A j \in matching : i <= j
               rests == Rests(h)
           IN  /\ matching # {} <=> rests # {}
               /\ matching # {} =>
                    Cut(h, Len(domains[first])) =
                    CHOOSE r \in rests : \A q \in rests : Len(r) <= Len(q)
<1> DEFINE matching == {i \in DOMAIN domains : EndsWith(h, domains[i])}
           first == CHOOSE i \in matching : \A j \in matching : i <= j
           rests == Rests(h)
           cut(d) == SubSeq(h, 1, Len(h) - Len(d))
           best == cut(domains[first])
<1>1. h \in Labels /\ Len(h) \in Nat
  BY HostFacts
<1>2. \A d \in Domains : d \in Labels /\ Len(d) \in Nat
  BY HostFacts
<1>3. \A r : r \in rests <=> \E d \in Domains : EndsWith(h, d) /\ r = cut(d)
  BY RestsAre
<1>4. /\ \A i \in DOMAIN domains : domains[i] \in Domains
      /\ \A d \in Domains : \E i \in DOMAIN domains : domains[i] = d
      /\ DOMAIN domains \subseteq Nat
  BY AllDomains
<1>5. ASSUME NEW d \in Domains, EndsWith(h, d)
      PROVE  Len(h) > Len(d) /\ Len(cut(d)) = Len(h) - Len(d)
  <2>1. Len(h) > Len(d)
    BY <1>5 DEF EndsWith
  <2>2. Len(d) \in 0 .. Len(h) - 1
    BY <1>1, <1>2, <2>1
  <2> QED
    BY <1>1, <2>1, <2>2, CutFacts
<1> HIDE DEF rests, cut
<1>6. matching # {} <=> rests # {}
  <2>1. ASSUME NEW i \in matching PROVE rests # {}
    BY <2>1, <1>3, <1>4
  <2>2. ASSUME NEW r \in rests PROVE matching # {}
    <3>1. PICK d \in Domains : EndsWith(h, d)
      BY <1>3
    <3> QED
      BY <1>4, <3>1
  <2> QED
    BY <2>1, <2>2
<1>7. ASSUME matching # {}
      PROVE  Cut(h, Len(domains[first])) =
             CHOOSE r \in rests : \A q \in rests : Len(r) <= Len(q)
  <2>1. \E i \in matching : \A j \in matching : i <= j
    BY <1>4, <1>7, LeastNumber
  <2>2. first \in matching /\ \A j \in matching : first <= j
    BY <2>1
  <2> HIDE DEF first
  <2>3. domains[first] \in Domains /\ EndsWith(h, domains[first])
    BY <1>4, <2>2
  <2>4. best \in rests /\ Len(best) = Len(h) - Len(domains[first])
        /\ Len(h) > Len(domains[first])
    BY <1>3, <1>5, <2>3
  <2>5. ASSUME NEW q \in rests
        PROVE  /\ Len(best) <= Len(q)
               /\ Len(q) <= Len(best) => q = best
    <3>1. PICK d \in Domains : EndsWith(h, d) /\ q = cut(d)
      BY <1>3
    <3>2. PICK i \in matching : domains[i] = d
      BY <1>4, <3>1
    <3>3. first <= i /\ first \in Nat /\ i \in Nat
      BY <1>4, <2>2
    <3>4. Len(domains[first]) >= Len(d)
      <4>1. CASE first = i
        BY <1>2, <3>2, <4>1
      <4>2. CASE first # i
        <5>1. first < i
          BY <3>3, <4>2
        <5> QED
          BY <2>2, <3>2, <5>1 DEF ByDecreasingTLDComplexity
      <4> QED
        BY <4>1, <4>2
    <3>5. Len(q) = Len(h) - Len(d)
      BY <1>5, <3>1
    <3>6. Len(best) <= Len(q)
      BY <1>1, <1>2, <2>3, <2>4, <3>4, <3>5
    <3>7. Len(q) <= Len(best) => Len(d) = Len(domains[first])
      BY <1>1, <1>2, <2>3, <2>4, <3>4, <3>5
    <3>8. Len(d) = Len(domains[first]) => q = best
      BY <3>1 DEF cut
    <3> QED
      BY <3>6, <3>7, <3>8
  <2> DEFINE shortest == CHOOSE r \in rests :
                             \A q \in rests : Len(r) <= Len(q)
  <2>6. shortest \in rests /\ \A q \in rests : Len(shortest) <= Len(q)
    BY <2>4, <2>5
  <2> HIDE DEF shortest
  <2>7. shortest = best
    BY <2>4, <2>5, <2>6
  <2>8. Cut(h, Len(domains[first])) = best
    BY <2>4 DEF Cut, cut
  <2> QED
    BY <2>7, <2>8 DEF shortest
<1> QED
  BY <1>6, <1>7 DEF rests

(* removeTLD is what Stripped says, for any order of the sort.              *)
LEMMA RemoveIsStripped ==
    ASSUME domains \in SetToSeqs(Domains),
           ByDecreasingTLDComplexity(domains), NEW h \in Hosts
    PROVE  removeTLD(h) = Stripped(h)
<1> DEFINE matching == {i \in DOMAIN domains : EndsWith(h, domains[i])}
           first == CHOOSE i \in matching : \A j \in matching : i <= j
           rests == Rests(h)
           shortest == CHOOSE r \in rests : \A q \in rests : Len(r) <= Len(q)
           magic == \E m \in Magic : EndsWith(h, m)
<1>1. Len(h) \in Nat \ {0}
  BY HostFacts
<1>2. /\ matching # {} <=> rests # {}
      /\ matching # {} => Cut(h, Len(domains[first])) = shortest
  BY LongestIsFirst
<1>3. removeTLD(h) = IF magic THEN Cut(h, 6)
                     ELSE IF matching # {} THEN Cut(h, Len(domains[first]))
                     ELSE IF Len(h) = 1 THEN h
                     ELSE Cut(h, 1)
  BY DEF removeTLD
<1>4. Stripped(h) = IF magic THEN Cut(h, 6)
                    ELSE IF rests # {} THEN shortest
                    ELSE IF Len(h) = 1 THEN h
                    ELSE Front(h)
  BY DEF Stripped, Rests, Cut
<1>5. Len(h) # 1 => Cut(h, 1) = Front(h)
  <2>1. Len(h) \in Int /\ Len(h) >= 1
    BY <1>1
  <2>2. Len(h) # 1 => Len(h) > 1
    BY <2>1, OneIsLeast, Zenon
  <2> QED
    BY <2>2, Zenon DEF Cut, Front
<1> HIDE DEF matching, first, rests, shortest, magic
<1> QED
  BY <1>2, <1>3, <1>4, <1>5

(* What is left is a beginning of the host, or nothing.                     *)
LEMMA StrippedFacts ==
    ASSUME NEW h \in Hosts
    PROVE  /\ Stripped(h) \in Labels /\ Len(Stripped(h)) \in Nat \ {0}
           /\ Stripped(h) = Empty \/ Stripped(h) \in Prefixes(h)
<1> DEFINE rests == Rests(h)
           shortest == CHOOSE r \in rests : \A q \in rests : Len(r) <= Len(q)
           Good(r) == /\ r \in Labels /\ Len(r) \in Nat \ {0}
                      /\ r = Empty \/ r \in Prefixes(h)
<1>1. h \in Labels /\ Len(h) \in Nat \ {0}
  BY HostFacts
<1>2. ASSUME NEW n \in 0 .. Len(h) - 1 PROVE Good(SubSeq(h, 1, Len(h) - n))
  <2> DEFINE r == SubSeq(h, 1, Len(h) - n)
  <2>1. r \in Labels /\ r \in Prefixes(h) /\ Len(r) = Len(h) - n
    BY <1>1, CutFacts
  <2>2. Len(r) \in Nat \ {0}
    BY <1>1, <2>1
  <2> HIDE DEF r
  <2>3. Good(r)
    BY <2>1, <2>2
  <2> QED
    BY <2>3 DEF r
<1>3. Good(Empty)
  <2>1. "" \in Word /\ <<>> \in Labels
    BY DEF Labels, Word
  <2>2. Empty = Append(<<>>, "")
    BY DEF Empty
  <2>3. Empty \in Labels /\ Len(Empty) = Len(<<>>) + 1
    BY <2>1, <2>2, AppendProperties DEF Labels
  <2>4. Len(Empty) \in Nat \ {0}
    BY <2>3, EmptyLen
  <2> QED
    BY <2>3, <2>4
<1>4. Len(h) > 6 => Good(SubSeq(h, 1, Len(h) - 6))
  <2> HIDE DEF Good
  <2>1. Len(h) > 6 => 6 \in 0 .. Len(h) - 1
    BY <1>1
  <2> QED
    BY <1>2, <2>1
<1>5. Len(h) # 1 => Good(Front(h))
  <2> HIDE DEF Good
  <2>1. Len(h) # 1 => 1 \in 0 .. Len(h) - 1
    BY <1>1
  <2> QED
    BY <1>2, <2>1 DEF Front
<1>6. Good(h)
  <2>1. SubSeq(h, 1, Len(h) - 0) = h
    BY <1>1, SubSeqFull DEF Labels
  <2>2. 0 \in 0 .. Len(h) - 1
    BY <1>1
  <2> QED
    BY <1>2, <2>1, <2>2
<1>7. rests # {} => Good(shortest)
  <2> SUFFICES ASSUME rests # {} PROVE Good(shortest)
    OBVIOUS
  <2>1. \A r \in rests : Len(r) \in Nat /\ Good(r)
    <3> SUFFICES ASSUME NEW r \in rests PROVE Len(r) \in Nat /\ Good(r)
      OBVIOUS
    <3>1. PICK d \in Domains :
             EndsWith(h, d) /\ r = SubSeq(h, 1, Len(h) - Len(d))
      BY RestsAre
    <3>2. Len(d) \in 0 .. Len(h) - 1
      BY <1>1, <3>1, HostFacts DEF EndsWith
    <3> QED
      BY <1>2, <3>1, <3>2
  <2> DEFINE T == {Len(r) : r \in rests}
  <2>2. T \subseteq Nat /\ T # {}
    BY <2>1
  <2>3. \E m \in T : \A n \in T : m <= n
    BY <2>2, LeastNumber
  <2>4. \E r \in rests : \A q \in rests : Len(r) <= Len(q)
    BY <2>3
  <2>5. shortest \in rests
    BY <2>4
  <2> QED
    BY <2>1, <2>5
<1>8. Stripped(h) =
         IF \E m \in Magic : EndsWith(h, m)
         THEN IF Len(h) > 6 THEN SubSeq(h, 1, Len(h) - 6) ELSE Empty
         ELSE IF rests # {} THEN shortest
         ELSE IF Len(h) = 1 THEN h
         ELSE Front(h)
  BY DEF Stripped, Rests
<1> HIDE DEF rests, shortest
<1>9. Good(Stripped(h))
  <2> HIDE DEF Good
  <2> QED
    BY <1>3, <1>4, <1>5, <1>6, <1>7, <1>8
<1> QED
  BY <1>9

------------------------------------------------------------------------------
(* The names that a request tries.                                          *)

(* The ends of a name, each given by its length.                            *)
LEMMA SuffixFacts ==
    ASSUME NEW s \in Labels
    PROVE  /\ \A t \in Suffixes(s) : t \in Labels /\ Len(t) \in Nat
           /\ \A t, u \in Suffixes(s) : Len(t) = Len(u) => t = u
           /\ \A t \in Suffixes(s) : Len(t) <= Len(s)
           /\ s # <<>> => s \in Suffixes(s)
           /\ \A t \in Suffixes(s) : Len(t) > 1 =>
                 Tail(t) \in Suffixes(s) /\ Len(Tail(t)) = Len(t) - 1
<1>1. Len(s) \in Nat
  BY DEF Labels
<1>2. ASSUME NEW l \in 1 .. Len(s)
      PROVE  /\ SubSeq(s, l, Len(s)) \in Labels
             /\ Len(SubSeq(s, l, Len(s))) = Len(s) - l + 1
             /\ Tail(SubSeq(s, l, Len(s))) = SubSeq(s, l + 1, Len(s))
  <2>1. \A i \in l .. Len(s) : s[i] \in Word
    BY <1>1 DEF Labels
  <2>2. Len(s) \in l .. Len(s)
    BY <1>1
  <2> QED
    BY <1>1, <2>1, <2>2, SubSeqProperties, HeadTailOfSubSeq DEF Labels
<1>3. <<>> \in Labels /\ Len(<<>>) = 0
  BY DEF Labels
<1>4. ASSUME NEW t \in Suffixes(s)
      PROVE  \/ t = <<>>
             \/ \E l \in 1 .. Len(s) : t = SubSeq(s, l, Len(s))
  BY DEF Suffixes
<1>5. ASSUME NEW t \in Suffixes(s)
      PROVE  t \in Labels /\ Len(t) \in Nat /\ Len(t) <= Len(s)
  <2>1. CASE t = <<>>
    BY <1>1, <1>3, <2>1
  <2>2. CASE t # <<>>
    <3>1. PICK l \in 1 .. Len(s) : t = SubSeq(s, l, Len(s))
      BY <1>4, <2>2
    <3>2. t \in Labels /\ Len(t) = Len(s) - l + 1
      BY <1>2, <3>1
    <3> QED
      BY <1>1, <3>2
  <2> QED
    BY <2>1, <2>2
<1>6. ASSUME NEW t \in Suffixes(s), NEW u \in Suffixes(s), Len(t) = Len(u)
      PROVE  t = u
  <2>1. CASE t = <<>> \/ u = <<>>
    <3>1. \A l \in 1 .. Len(s) : Len(SubSeq(s, l, Len(s))) # 0
      BY <1>1, <1>2
    <3> QED
      BY <1>3, <1>4, <1>6, <2>1, <3>1
  <2>2. CASE t # <<>> /\ u # <<>>
    <3>1. PICK l \in 1 .. Len(s) : t = SubSeq(s, l, Len(s))
      BY <1>4, <2>2
    <3>2. PICK k \in 1 .. Len(s) : u = SubSeq(s, k, Len(s))
      BY <1>4, <2>2
    <3>3. Len(s) - l + 1 = Len(s) - k + 1
      BY <1>2, <1>6, <3>1, <3>2
    <3>4. l = k
      BY <1>1, <3>3
    <3> QED
      BY <3>1, <3>2, <3>4
  <2> QED
    BY <2>1, <2>2
<1>7. ASSUME s # <<>> PROVE s \in Suffixes(s)
  <2>1. Len(s) # 0
    BY <1>7, EmptySeq DEF Labels
  <2>2. 1 \in 1 .. Len(s) /\ SubSeq(s, 1, Len(s)) = s
    BY <1>1, <2>1, SubSeqFull DEF Labels
  <2> QED
    BY <2>2 DEF Suffixes
<1>8. ASSUME NEW t \in Suffixes(s), Len(t) > 1
      PROVE  Tail(t) \in Suffixes(s) /\ Len(Tail(t)) = Len(t) - 1
  <2>1. t # <<>>
    BY <1>3, <1>8
  <2>2. PICK l \in 1 .. Len(s) : t = SubSeq(s, l, Len(s))
    BY <1>4, <2>1
  <2>3. Len(t) = Len(s) - l + 1
    BY <1>2, <2>2
  <2>4. PICK k \in 1 .. Len(s) : k = l + 1
    BY <1>1, <1>8, <2>3
  <2>5. Tail(t) = SubSeq(s, k, Len(s)) /\ Len(Tail(t)) = Len(s) - k + 1
    BY <1>2, <2>2, <2>4
  <2> QED
    BY <1>1, <2>3, <2>4, <2>5 DEF Suffixes
<1> QED
  BY <1>5, <1>6, <1>7, <1>8

------------------------------------------------------------------------------
(* What lookupApp finds.                                                    *)

(* The pairs of a name and a way, and of a name and an outcome.             *)
LEMMA WayIs ==
    ASSUME NEW h, NEW n \in Candidates(h), NEW w \in {"itself", "nested"}
    PROVE  <<n, w>> \in Ways(h) <=>
              IF w = "itself" THEN Itself(n) ELSE Exists(Nested(n))
<1> DEFINE x == <<n, w>>
<1>1. x \in Candidates(h) \X {"itself", "nested"} /\ x[1] = n /\ x[2] = w
  OBVIOUS
<1> HIDE DEF x
<1>2. x \in Ways(h) <=> IF w = "itself" THEN Itself(n) ELSE Exists(Nested(n))
  BY <1>1 DEF Ways
<1> QED
  BY <1>2 DEF x

LEMMA WaysAre ==
    ASSUME NEW h, NEW way \in Ways(h)
    PROVE  /\ way[1] \in Candidates(h)
           /\ way = <<way[1], "itself">> \/ way = <<way[1], "nested">>
BY DEF Ways

LEMMA LedIs ==
    ASSUME NEW h, NEW n \in Candidates(h), NEW o \in {"app", "error"},
           Leads(n, o)
    PROVE  <<n, o>> \in Led(h)
<1> DEFINE x == <<n, o>>
<1>1. x \in Candidates(h) \X {"app", "error"} /\ x[1] = n /\ x[2] = o
  OBVIOUS
<1> HIDE DEF x
<1>2. x \in Led(h)
  BY <1>1 DEF Led
<1> QED
  BY <1>2 DEF x

(* The names of a host that are not the default, and the shorter one that   *)
(* comes next.                                                              *)
Own(h) == Suffixes(Stripped(h)) \ {<<>>}

LEMMA OwnFacts ==
    ASSUME NEW h \in Hosts
    PROVE  /\ Candidates(h) = (Own(h) \ {Empty}) \cup {Default}
           /\ Candidates(h) \subseteq Names
           /\ Stripped(h) \in Own(h)
           /\ \A n \in Own(h) : Len(n) \in Nat \ {0}
           /\ \A n \in Own(h) :
                 pruneSub(n) = Empty \/ pruneSub(n) \in Own(h)
<1>1. Stripped(h) \in Labels /\ Len(Stripped(h)) \in Nat \ {0}
  BY StrippedFacts
<1>2. Candidates(h) = (Own(h) \ {Empty}) \cup {Default}
  BY DEF Candidates, Own
<1>3. Candidates(h) \subseteq Names
  BY DEF Names
<1>4. Stripped(h) # <<>>
  BY <1>1, EmptyLen
<1>5. Stripped(h) \in Own(h)
  BY <1>1, <1>4, SuffixFacts DEF Own
<1>6. ASSUME NEW n \in Own(h)
      PROVE  Len(n) \in Nat \ {0}
  <2>1. n \in Labels /\ n # <<>>
    BY <1>1, SuffixFacts DEF Own
  <2> QED
    BY <2>1, EmptySeq DEF Labels
<1>7. ASSUME NEW n \in Own(h), Len(n) # 1
      PROVE  pruneSub(n) \in Own(h)
  <2>1. n \in Suffixes(Stripped(h))
    BY DEF Own
  <2>2. Len(n) > 1 /\ Len(n) - 1 # 0
    BY <1>6, <1>7, OneIsLeast, Zenon
  <2>3. Tail(n) \in Suffixes(Stripped(h)) /\ Len(Tail(n)) = Len(n) - 1
    BY <1>1, <2>1, <2>2, SuffixFacts
  <2>4. Tail(n) # <<>>
    BY <2>2, <2>3, EmptyLen, Zenon
  <2> QED
    BY <1>7, <2>3, <2>4 DEF pruneSub, Own
<1>8. \A n \in Own(h) : pruneSub(n) = Empty \/ pruneSub(n) \in Own(h)
  BY <1>7 DEF pruneSub
<1> QED
  BY <1>2, <1>3, <1>5, <1>6, <1>8

LEMMA RankFacts ==
    ASSUME NEW h \in Hosts
    PROVE  /\ \A n : Rank(h, n) \in Nat
           /\ \A n \in Own(h) : n # Empty => Rank(h, n) = Len(n)
           /\ \A n \in Candidates(h) : n # Default => Rank(h, n) # 0
           /\ Rank(h, Empty) = 0
           /\ \A n : Rank(h, n) <= Rank(h, Stripped(h))
           /\ \A n, m : m \in Own(h) /\ m # Empty /\ n # m
                        /\ Rank(h, n) <= Rank(h, m)
                        => Rank(h, n) <= Rank(h, pruneSub(m))
<1>1. Stripped(h) \in Labels /\ Len(Stripped(h)) \in Nat \ {0}
  BY StrippedFacts
<1>2. \A n : Rank(h, n) = IF n # Empty /\ n \in Suffixes(Stripped(h))
                          THEN Len(n) ELSE 0
  BY DEF Rank
<1>3. \A n \in Suffixes(Stripped(h)) :
         Len(n) \in Nat /\ Len(n) <= Len(Stripped(h))
  BY <1>1, SuffixFacts
<1>4. \A n : Rank(h, n) \in Nat
  BY <1>2, <1>3
<1>5. \A n \in Own(h) : n # Empty => Rank(h, n) = Len(n)
  BY <1>2 DEF Own
<1>6. \A n \in Candidates(h) : n # Default => Rank(h, n) # 0
  BY <1>5, OwnFacts
<1>7. Rank(h, Empty) = 0
  BY <1>2
<1>8. ASSUME NEW n PROVE Rank(h, n) <= Rank(h, Stripped(h))
  <2>1. CASE n # Empty /\ n \in Suffixes(Stripped(h))
    <3>1. CASE Stripped(h) # Empty
      <4>1. Rank(h, Stripped(h)) = Len(Stripped(h))
        BY <1>5, <3>1, OwnFacts
      <4> QED
        BY <1>2, <1>3, <2>1, <4>1
    <3>2. CASE Stripped(h) = Empty
      <4>1. Len(Empty) = 1
        BY DEF Empty
      <4>2. Len(n) \in Nat /\ Len(n) <= 1 /\ (Len(n) = 1 => n = Empty)
        BY <1>1, <1>3, <2>1, <3>2, <4>1, SuffixFacts, OwnFacts DEF Own
      <4>3. Len(n) = 0
        BY <2>1, <4>2, OneIsLeast, Zenon
      <4> QED
        BY <1>2, <1>4, <2>1, <4>3
    <3> QED
      BY <3>1, <3>2
  <2>2. CASE ~(n # Empty /\ n \in Suffixes(Stripped(h)))
    BY <1>2, <1>4, <2>2
  <2> QED
    BY <2>1, <2>2
<1>9. ASSUME NEW n, NEW m \in Own(h), m # Empty, n # m,
             Rank(h, n) <= Rank(h, m)
      PROVE  Rank(h, n) <= Rank(h, pruneSub(m))
  <2>1. CASE n # Empty /\ n \in Suffixes(Stripped(h))
    <3>1. Rank(h, n) = Len(n) /\ Rank(h, m) = Len(m)
      BY <1>2, <1>5, <1>9, <2>1
    <3>2. m \in Suffixes(Stripped(h)) /\ Len(m) \in Nat \ {0}
      BY OwnFacts DEF Own
    <3>3. Len(n) # Len(m) /\ Len(n) \in Nat
      BY <1>1, <1>3, <1>9, <2>1, <3>2, SuffixFacts
    <3>4. Len(n) <= Len(m) - 1
      BY <1>9, <3>1, <3>2, <3>3
    <3>5. CASE Len(m) = 1
      <4>1. Len(n) = 0
        BY <3>3, <3>4, <3>5
      <4> QED
        BY <1>4, <3>1, <4>1
    <3>6. CASE Len(m) # 1
      <4>1. Len(m) > 1
        BY <3>2, <3>6, OneIsLeast, Zenon
      <4>2. Tail(m) \in Suffixes(Stripped(h)) /\ Len(Tail(m)) = Len(m) - 1
        BY <1>1, <3>2, <4>1, SuffixFacts
      <4>3. pruneSub(m) = Tail(m)
        BY <3>6 DEF pruneSub
      <4>4. CASE Tail(m) # Empty
        BY <1>2, <3>1, <3>4, <4>2, <4>3, <4>4
      <4>5. CASE Tail(m) = Empty
        <5>1. Len(Empty) = 1
          BY DEF Empty
        <5>2. Len(n) <= 1 /\ (Len(n) = 1 => n = Empty)
          BY <1>1, <2>1, <3>4, <4>2, <4>5, <5>1, SuffixFacts
        <5>3. Len(n) = 0
          BY <2>1, <3>3, <5>2, OneIsLeast, Zenon
        <5> QED
          BY <1>4, <3>1, <5>3
      <4> QED
        BY <4>4, <4>5
    <3> QED
      BY <3>5, <3>6
  <2>2. CASE ~(n # Empty /\ n \in Suffixes(Stripped(h)))
    BY <1>2, <1>4, <2>2
  <2> QED
    BY <2>1, <2>2
<1> QED
  BY <1>4, <1>5, <1>6, <1>7, <1>8, <1>9

------------------------------------------------------------------------------
(* The invariant of the loop.                                               *)

Sorted ==
    domains \in SetToSeqs(Domains) /\ ByDecreasingTLDComplexity(domains)

(* The name that is looked up next is the host's own, or there is none.     *)
Named ==
    pc # "idle" => host \in Hosts /\ (name = Empty \/ name \in Own(host))

(* What has been there ever since is there now, and is not longer; what is  *)
(* missing, and what leads somewhere now, was and did at some time.         *)
Observed ==
    Looking =>
        /\ since \subseteq Ways(host)
        /\ Missing(host) \subseteq missed
        /\ Led(host) \subseteq ever
        /\ \A way \in since : Rank(host, way[1]) <= Rank(host, name)

(* The nested path is tried when the name itself was missed.                *)
Passed ==
    pc = "nested" => Wanted \in missed /\ <<Wanted, "itself">> \notin since

IInv == TypeOK /\ Sorted /\ Named /\ Observed /\ Passed

LEMMA InitInv == Init => IInv
<1> SUFFICES ASSUME Init PROVE IInv
  OBVIOUS
<1>1. Sorted /\ Named /\ Observed /\ Passed
  BY DEF Init, Sorted, Named, Observed, Passed, Looking
<1>2. dir \in [Paths -> {"none", "link", "app", "error"}]
  BY HostNamesAssumption DEF Init
<1>3. edits \in 0 .. MaxEdits
  BY HostNamesAssumption DEF Init
<1>4. pc = "idle" /\ host \in Hosts \cup {Empty}
      /\ name = Empty /\ running \subseteq Names
      /\ missed \subseteq Names
      /\ since \subseteq Names \X {"itself", "nested"}
      /\ ever \subseteq Names \X {"app", "error"}
  BY DEF Init
<1>5. answer \in [name : Names \cup {Empty}, outcome : Outcomes]
  BY DEF Init, Outcomes
<1> QED
  BY <1>1, <1>2, <1>3, <1>4, <1>5 DEF IInv, TypeOK, Sorted

(* What the type invariant says of the name and of the history follows from *)
(* the other parts.                                                         *)
LEMMA NamesAreTyped ==
    ASSUME NEW h \in Hosts
    PROVE  /\ \A n \in Own(h) : \E p \in Prefixes(h) : n \in Suffixes(p)
                                \/ n = Empty
           /\ Ways(h) \subseteq Names \X {"itself", "nested"}
           /\ Missing(h) \subseteq Names
           /\ Led(h) \subseteq Names \X {"app", "error"}
           /\ Default \in Names
<1>1. Stripped(h) = Empty \/ Stripped(h) \in Prefixes(h)
  BY StrippedFacts
<1>2. Candidates(h) \subseteq Names /\ Default \in Candidates(h)
  BY OwnFacts DEF Candidates
<1>3. Led(h) \subseteq Names \X {"app", "error"}
  BY <1>2 DEF Led
<1>4. Ways(h) \subseteq Names \X {"itself", "nested"}
      /\ Missing(h) \subseteq Names
  BY <1>2 DEF Ways, Missing
<1>5. ASSUME NEW n \in Own(h)
      PROVE  n = Empty \/ \E p \in Prefixes(h) : n \in Suffixes(p)
  <2>1. CASE Stripped(h) \in Prefixes(h)
    BY <2>1 DEF Own
  <2>2. CASE Stripped(h) = Empty
    <3>1. Len(Empty) = 1
      BY DEF Empty
    <3>2. n \in Suffixes(Stripped(h)) /\ Len(n) \in Nat \ {0}
      BY OwnFacts DEF Own
    <3>3. Stripped(h) \in Labels /\ Stripped(h) \in Suffixes(Stripped(h))
      BY StrippedFacts, OwnFacts DEF Own
    <3>4. Len(n) <= 1
      BY <2>2, <3>1, <3>2, <3>3, SuffixFacts
    <3>5. Len(n) = 1
      BY <3>2, <3>4
    <3> QED
      BY <2>2, <3>1, <3>2, <3>3, <3>5, SuffixFacts
  <2> QED
    BY <1>1, <2>1, <2>2
<1>6. \E p \in Prefixes(h) : TRUE
  <2>1. 0 \in 0 .. Len(h)
    BY HostFacts
  <2> QED
    BY <2>1 DEF Prefixes
<1> QED
  BY <1>2, <1>3, <1>4, <1>5, <1>6

(* The name that is wanted is one of the host's.                            *)
LEMMA WantedFacts ==
    ASSUME IInv, Looking
    PROVE  /\ host \in Hosts /\ (name = Empty \/ name \in Own(host))
           /\ Wanted \in Candidates(host) /\ Wanted \in Names
           /\ Rank(host, name) <= Rank(host, Wanted)
<1>1. host \in Hosts /\ (name = Empty \/ name \in Own(host))
  BY DEF IInv, Named, Looking
<1>2. Candidates(host) = (Own(host) \ {Empty}) \cup {Default}
      /\ Candidates(host) \subseteq Names
  BY <1>1, OwnFacts
<1>3. CASE name = Empty
  <2>1. Wanted = Default
    BY <1>3 DEF Wanted
  <2>2. Rank(host, name) = 0 /\ Rank(host, Default) \in Nat
    BY <1>1, <1>3, RankFacts
  <2>3. Rank(host, name) <= Rank(host, Default)
    BY <2>2
  <2> QED
    BY <1>1, <1>2, <2>1, <2>3
<1>4. CASE name # Empty
  <2>1. Wanted = name
    BY <1>4 DEF Wanted
  <2>2. Rank(host, name) \in Nat
    BY <1>1, RankFacts
  <2>3. Rank(host, name) <= Rank(host, name)
    BY <2>2
  <2> QED
    BY <1>1, <1>2, <1>4, <2>1, <2>3
<1> QED
  BY <1>3, <1>4

(* A name that is not found was not there, in either way, all the time.     *)
LEMMA UnknownMeans ==
    ASSUME IInv, Unknown
    PROVE  Looking /\ \A way \in since : way[1] # Wanted
<1>1. Looking
  BY DEF Unknown, Looking
<1>2. since \subseteq Ways(host) /\ Wanted \in Candidates(host)
  BY <1>1, WantedFacts DEF IInv, Observed
<1>3. <<Wanted, "itself">> \notin since
  <2>1. CASE pc = "find" /\ ~Itself(Wanted)
    BY <1>2, <2>1, WayIs
  <2>2. CASE pc = "nested"
    BY <2>2 DEF IInv, Passed
  <2> QED
    BY <2>1, <2>2 DEF Unknown
<1>4. <<Wanted, "nested">> \notin since
  <2>1. ~Exists(Nested(Wanted))
    BY DEF Unknown, Itself
  <2> QED
    BY <1>2, <2>1, WayIs
<1> QED
  BY <1>1, <1>2, <1>3, <1>4, WaysAre

(* A step that leaves the request alone, and observes.                      *)
LEMMA ObserveStep ==
    ASSUME IInv, Observe, UNCHANGED <<domains, request>>,
           dir' \in [Paths -> {"none", "link", "app", "error"}],
           edits' \in 0 .. MaxEdits, running' \subseteq Names
    PROVE  IInv'
<1>1. UNCHANGED <<domains, pc, host, name, answer>>
  BY DEF request
<1>2. Sorted' /\ Named'
  BY <1>1 DEF IInv, Sorted, Named
<1>3. CASE Looking
  <2>1. host \in Hosts /\ host' = host
    BY <1>1, <1>3, WantedFacts
  <2>2. since' = since \cap Ways(host)' /\ missed' = missed \cup Missing(host)'
        /\ ever' = ever \cup Led(host)'
    BY <1>3 DEF Observe
  <2>3. Led(host)' \subseteq Names \X {"app", "error"}
        /\ Missing(host)' \subseteq Names
    <3>1. Candidates(host) \subseteq Names
      BY <2>1, OwnFacts
    <3> QED
      BY <2>1, <3>1 DEF Led, Missing
  <2>4. since' \subseteq Names \X {"itself", "nested"}
        /\ missed' \subseteq Names /\ ever' \subseteq Names \X {"app", "error"}
    BY <2>2, <2>3 DEF IInv, TypeOK
  <2>5. since' \subseteq Ways(host)' /\ Missing(host)' \subseteq missed'
        /\ Led(host)' \subseteq ever'
    BY <2>2
  <2>6. \A way \in since' : Rank(host', way[1]) <= Rank(host', name')
    BY <1>1, <1>3, <2>2 DEF IInv, Observed
  <2>7. Observed'
    BY <2>5, <2>6 DEF Observed
  <2>8. Passed'
    BY <1>1, <2>2 DEF IInv, Passed, Wanted
  <2> QED
    BY <1>1, <1>2, <2>4, <2>7, <2>8 DEF IInv, TypeOK, Sorted
<1>4. CASE ~Looking
  <2>1. UNCHANGED <<since, missed, ever>>
    BY <1>4 DEF Observe, history
  <2>2. Observed' /\ Passed'
    BY <1>1, <1>4 DEF Observed, Passed, Looking
  <2> QED
    BY <1>1, <1>2, <2>1, <2>2 DEF IInv, TypeOK, Sorted
<1> QED
  BY <1>3, <1>4

LEMMA ArriveStep ==
    ASSUME IInv, NEW h \in Hosts, Arrive(h)
    PROVE  IInv'
<1>1. pc' = "find" /\ host' = h /\ name' = removeTLD(h)
      /\ since' = Ways(h) /\ missed' = Missing(h) /\ ever' = Led(h)'
      /\ UNCHANGED <<domains, dir, running, edits, answer>>
  BY DEF Arrive
<1>2. name' = Stripped(h)
  BY <1>1, RemoveIsStripped DEF IInv, Sorted
<1>3. name' \in Own(h)
  BY <1>2, OwnFacts
<1>4. Sorted' /\ Named' /\ Passed'
  BY <1>1, <1>3 DEF IInv, Sorted, Named, Passed
<1>5. Ways(host)' = Ways(h) /\ Missing(host)' = Missing(h)
      /\ Led(host)' = Led(h)'
  BY <1>1 DEF Ways, Missing, Itself, Exists, Led, Leads
<1>6. Observed'
  BY <1>1, <1>2, <1>5, RankFacts DEF Observed
<1>7. Candidates(h) \subseteq Names
  BY OwnFacts
<1>8. since' \subseteq Names \X {"itself", "nested"}
      /\ missed' \subseteq Names
  BY <1>1, NamesAreTyped
<1>9. ever' \subseteq Names \X {"app", "error"}
  BY <1>1, <1>7 DEF Led
<1>10. name' = Empty \/ \E p \in Prefixes(h) : name' \in Suffixes(p)
  BY <1>3, NamesAreTyped
<1>11. TypeOK'
  BY <1>1, <1>8, <1>9, <1>10 DEF IInv, TypeOK
<1> QED
  BY <1>4, <1>6, <1>11 DEF IInv

(* A step of the lookup that leaves the directory and the pool alone.       *)
LEMMA SameSights ==
    ASSUME UNCHANGED <<dir, running, host, missed>>
    PROVE  /\ Ways(host)' = Ways(host) /\ Missing(host)' = Missing(host)
           /\ Led(host)' = Led(host)
BY DEF Ways, Missing, Itself, Exists, Led, Leads

LEMMA TryStep ==
    ASSUME IInv, TryNested
    PROVE  IInv'
<1>1. pc = "find" /\ ~Itself(Wanted) /\ pc' = "nested" /\ Looking
      /\ UNCHANGED <<domains, dir, running, edits, host, name, answer, since,
                     missed, ever>>
  BY DEF TryNested, history, Looking
<1>2. Wanted \in Candidates(host)
  BY <1>1, WantedFacts
<1>3. Wanted \in missed
  BY <1>1, <1>2 DEF IInv, Observed, Missing
<1>4. <<Wanted, "itself">> \notin since
  BY <1>1, <1>2, WayIs DEF IInv, Observed
<1>5. Passed'
  BY <1>1, <1>3, <1>4 DEF Passed, Wanted
<1>6. Sorted' /\ Named'
  BY <1>1 DEF IInv, Sorted, Named
<1>7. Observed'
  BY <1>1, SameSights DEF IInv, Observed
<1>8. TypeOK'
  BY <1>1 DEF IInv, TypeOK
<1> QED
  BY <1>5, <1>6, <1>7, <1>8 DEF IInv

LEMMA PruneStep ==
    ASSUME IInv, Prune
    PROVE  IInv'
<1>1. Unknown /\ name # Empty /\ pc' = "find" /\ name' = pruneSub(name)
      /\ UNCHANGED <<domains, dir, running, edits, host, answer, since,
                     missed, ever>>
  BY DEF Prune, history
<1>2. Looking /\ \A way \in since : way[1] # name
  BY <1>1, UnknownMeans DEF Wanted
<1>3. host \in Hosts /\ name \in Own(host)
  BY <1>1, <1>2, WantedFacts
<1>4. name' = Empty \/ name' \in Own(host)
  BY <1>1, <1>3, OwnFacts
<1>5. Sorted' /\ Named' /\ Passed'
  BY <1>1, <1>3, <1>4 DEF IInv, Sorted, Named, Passed
<1>6. \A way \in since : Rank(host, way[1]) <= Rank(host, name')
  BY <1>1, <1>2, <1>3, RankFacts DEF IInv, Observed
<1>7. Observed'
  BY <1>1, <1>2, <1>6, SameSights DEF IInv, Observed
<1>8. name' = Empty \/ \E p \in Prefixes(host) : name' \in Suffixes(p)
  BY <1>3, <1>4, NamesAreTyped
<1>9. TypeOK'
  BY <1>1, <1>8 DEF IInv, TypeOK
<1> QED
  BY <1>5, <1>7, <1>9 DEF IInv

LEMMA AnswerStep ==
    ASSUME IInv, NEW o \in Outcomes, Looking, Answer(o)
    PROVE  IInv'
<1>1. pc' = "done" /\ answer' = [name |-> Wanted, outcome |-> o]
      /\ running' = (IF o = "app" THEN running \cup {Wanted} ELSE running)
      /\ UNCHANGED <<domains, dir, edits, host, name, since, missed, ever>>
  BY DEF Answer, history
<1>2. Wanted \in Names
  BY WantedFacts
<1>3. Sorted' /\ Named' /\ Observed' /\ Passed'
  BY <1>1 DEF IInv, Sorted, Named, Observed, Passed, Looking
<1>4. answer' \in [name : Names \cup {Empty}, outcome : Outcomes]
  BY <1>1, <1>2
<1>5. running' \subseteq Names
  BY <1>1, <1>2 DEF IInv, TypeOK
<1>6. TypeOK'
  BY <1>1, <1>4, <1>5 DEF IInv, TypeOK
<1> QED
  BY <1>3, <1>6 DEF IInv

(* An answer is what the name that is wanted leads to, or there is none and *)
(* the name was the last one.                                               *)
LEMMA AnswersAre ==
    ASSUME IInv, InPool \/ InDirectory \/ InNested \/ NoDefault
    PROVE  /\ Looking
           /\ \E o \in Outcomes :
                 /\ Answer(o)
                 /\ \/ o \in {"app", "error"} /\ Leads(Wanted, o)
                    \/ o = "unknown" /\ name = Empty /\ Unknown
<1>1. Looking
  BY DEF InPool, InDirectory, InNested, NoDefault, Unknown, Looking
<1>2. CASE InPool
  BY <1>1, <1>2 DEF InPool, Outcomes, Leads
<1>3. CASE InDirectory
  <2>1. dir[Wanted] \in {"app", "error"} /\ Wanted \in Paths
        /\ Answer(dir[Wanted])
    BY <1>3 DEF InDirectory, Exists
  <2> QED
    BY <1>1, <2>1 DEF Outcomes, Leads
<1>4. CASE InNested
  <2>1. dir[Nested(Wanted)] \in {"app", "error"} /\ Nested(Wanted) \in Paths
        /\ Answer(dir[Nested(Wanted)]) /\ Wanted \in missed
    BY <1>4 DEF InNested, Exists, IInv, Passed
  <2>2. Leads(Wanted, dir[Nested(Wanted)])
    BY <2>1 DEF Leads
  <2> QED
    BY <1>1, <2>1, <2>2 DEF Outcomes
<1>5. CASE NoDefault
  BY <1>1, <1>5 DEF NoDefault, Outcomes
<1> QED
  BY <1>2, <1>3, <1>4, <1>5

LEMMA StepInv == IInv /\ [Next]_vars => IInv'
<1> SUFFICES ASSUME IInv, [Next]_vars PROVE IInv'
  OBVIOUS
<1>0. dir \in [Paths -> {"none", "link", "app", "error"}]
      /\ edits \in 0 .. MaxEdits /\ running \subseteq Names
  BY DEF IInv, TypeOK
<1>1. ASSUME NEW h \in Hosts, Arrive(h) PROVE IInv'
  BY <1>1, ArriveStep
<1>2. CASE Prune \/ TryNested
  BY <1>2, PruneStep, TryStep
<1>3. CASE InPool \/ InDirectory \/ InNested \/ NoDefault
  <2>1. Looking
    BY <1>3, AnswersAre
  <2>2. PICK o \in Outcomes : Answer(o)
    BY <1>3, AnswersAre
  <2> QED
    BY <2>1, <2>2, AnswerStep
<1>4. ASSUME NEW p \in Paths, Edit(p) PROVE IInv'
  <2>1. PICK k \in Kinds[p] \ {dir[p]} : dir' = [dir EXCEPT ![p] = k]
    BY <1>4 DEF Edit
  <2>2. k \in {"none", "link", "app", "error"}
    BY <2>1, HostNamesAssumption
  <2>3. dir' \in [Paths -> {"none", "link", "app", "error"}]
    BY <1>0, <2>1, <2>2
  <2>4. edits' \in 0 .. MaxEdits
    BY <1>0, <1>4, HostNamesAssumption DEF Edit
  <2>5. running' \subseteq Names /\ Observe /\ UNCHANGED <<domains, request>>
    BY <1>0, <1>4 DEF Edit
  <2> QED
    BY <2>3, <2>4, <2>5, ObserveStep
<1>5. ASSUME NEW n \in Names, Launched(n) \/ Stopped(n) PROVE IInv'
  <2>1. dir' = dir /\ edits' = edits /\ running' \subseteq Names /\ Observe
        /\ UNCHANGED <<domains, request>>
    BY <1>0, <1>5 DEF Launched, Stopped
  <2> QED
    BY <1>0, <2>1, ObserveStep
<1>6. CASE UNCHANGED vars
  <2>1. TypeOK' /\ Sorted' /\ Named' /\ Passed'
    BY <1>6 DEF IInv, TypeOK, Sorted, Named, Passed, Wanted, vars, request,
       history
  <2>2. Observed'
    BY <1>6, SameSights DEF IInv, Observed, Looking, vars, request, history
  <2> QED
    BY <2>1, <2>2 DEF IInv
<1> QED
  BY <1>1, <1>2, <1>3, <1>4, <1>5, <1>6 DEF Next, FindAppByDomainName

LEMMA SpecInv == Spec => []IInv
BY InitInv, StepInv, PTL DEF Spec

------------------------------------------------------------------------------
(* The request goes from one place to the next by one step only.            *)
LEMMA OnlyAnswers ==
    ASSUME IInv, Next, Answers
    PROVE  InPool \/ InDirectory \/ InNested \/ NoDefault
<1>1. pc \in {"find", "nested"} /\ pc' = "done"
  BY DEF Answers, Looking
<1>2. \A h \in Hosts : ~Arrive(h)
  BY <1>1 DEF Arrive
<1>3. ~Prune /\ ~TryNested
  BY <1>1 DEF Prune, TryNested
<1>4. \A p \in Paths : ~Edit(p)
  BY <1>1 DEF Edit, request
<1>5. \A n \in Names : ~Launched(n) /\ ~Stopped(n)
  BY <1>1 DEF Launched, Stopped, request
<1> QED
  BY <1>2, <1>3, <1>4, <1>5 DEF Next, FindAppByDomainName

LEMMA OnlyArrivals ==
    ASSUME Next, pc = "idle", pc' = "find"
    PROVE  \E h \in Hosts : Arrive(h)
<1>1. ~FindAppByDomainName
  BY DEF FindAppByDomainName, InPool, InDirectory, TryNested, InNested, Prune,
         NoDefault, Unknown
<1>2. \A p \in Paths : ~Edit(p)
  BY DEF Edit, request
<1>3. \A n \in Names : ~Launched(n) /\ ~Stopped(n)
  BY DEF Launched, Stopped, request
<1> QED
  BY <1>1, <1>2, <1>3 DEF Next

(* A name under lookup is always the empty string or the end of a beginning *)
(* of the request's host, and the pool holds no name but those that hosts   *)
(* may stand for (dev/app.go:572-591, dev/http.go:97-129).                  *)
THEOREM TypeCorrect == Spec => []TypeOK
<1>1. IInv => TypeOK
  BY DEF IInv
<1> QED
  BY <1>1, SpecInv, PTL

(* Of all domains that a host ends with, the longest is taken off, whatever *)
(* the order that sort.Sort leaves domains of as many dots in, and however  *)
(* many there are (main.go:29, dev/http.go:97-129).                         *)
THEOREM LongestIsTakenOff == Spec => LongestDomainGoes
<1>1. ASSUME IInv, [Next]_vars
      PROVE  [pc = "idle" /\ pc' = "find" => name' = Stripped(host')]_vars
  <2> SUFFICES ASSUME Next, pc = "idle", pc' = "find"
               PROVE  name' = Stripped(host')
    BY <1>1
  <2>1. PICK h \in Hosts : Arrive(h)
    BY OnlyArrivals
  <2>2. name' = removeTLD(h) /\ host' = h
    BY <2>1 DEF Arrive
  <2>3. removeTLD(h) = Stripped(h)
    BY <1>1, RemoveIsStripped DEF IInv, Sorted
  <2>4. Stripped(host') = Stripped(h)
    BY <2>2
  <2> QED
    BY <2>2, <2>3, <2>4
<1> QED
  BY <1>1, SpecInv, PTL DEF Spec, LongestDomainGoes

(* A request never falls through to a shorter name, to "default" or to      *)
(* "unknown app" if a longer name was there in one way all the time since   *)
(* it arrived, whatever was edited between any two looks at the directory,  *)
(* and launched and stopped between the turns of FindAppByDomainName's loop *)
(* (dev/app.go:456-555, 572-591).                                           *)
THEOREM TheMostSpecificAnswers == Spec => MostSpecificAnswers
<1>1. ASSUME IInv, Next, Answers, NEW way \in since
      PROVE  /\ Rank(host, way[1]) <= Rank(host, answer'.name)
             /\ answer'.outcome # "unknown"
  <2>2. PICK o \in Outcomes :
           /\ Answer(o)
           /\ \/ o \in {"app", "error"} /\ Leads(Wanted, o)
              \/ o = "unknown" /\ name = Empty /\ Unknown
    BY <1>1, OnlyAnswers, AnswersAre
  <2>3. answer'.name = Wanted /\ answer'.outcome = o
    BY <2>2 DEF Answer
  <2>4. Looking /\ host \in Hosts
    BY <1>1, WantedFacts DEF Answers
  <2>5. way \in Ways(host) /\ Rank(host, way[1]) <= Rank(host, name)
    BY <1>1, <2>4 DEF IInv, Observed
  <2>6. /\ Rank(host, way[1]) \in Nat /\ Rank(host, name) \in Nat
        /\ Rank(host, Wanted) \in Nat
        /\ Rank(host, name) <= Rank(host, Wanted)
    BY <1>1, <2>4, RankFacts, WantedFacts
  <2>7. Rank(host, way[1]) <= Rank(host, Wanted)
    BY <2>5, <2>6
  <2>8. o # "unknown"
    <3> SUFFICES ASSUME name = Empty, Unknown PROVE FALSE
      BY <2>2
    <3>1. way[1] # Default
      BY <1>1, UnknownMeans DEF Wanted
    <3>2. Rank(host, way[1]) = 0
      BY <2>4, <2>5, <2>6, RankFacts
    <3>3. way[1] \in Candidates(host)
      BY <2>5, WaysAre
    <3> QED
      BY <2>4, <3>1, <3>2, <3>3, RankFacts
  <2> QED
    BY <2>3, <2>7, <2>8
<1>2. IInv /\ [Next]_vars =>
        [Answers => \A way \in since :
            /\ Rank(host, way[1]) <= Rank(host, answer'.name)
            /\ answer'.outcome # "unknown"]_vars
  BY <1>1
<1> QED
  BY <1>2, SpecInv, PTL DEF Spec, MostSpecificAnswers

(* A request is answered by what one of its names led to at some time since *)
(* it arrived: by no dangling link, by no nested path of a name that was    *)
(* there itself, and by no name of another host (dev/app.go:456-555).       *)
THEOREM AnswersWereThere == Spec => AnswerWasThere
<1>1. ASSUME IInv, Next, Answers, answer'.outcome # "unknown"
      PROVE  <<answer'.name, answer'.outcome>> \in ever
  <2>1. PICK o \in Outcomes :
           /\ Answer(o)
           /\ \/ o \in {"app", "error"} /\ Leads(Wanted, o)
              \/ o = "unknown" /\ name = Empty /\ Unknown
    BY <1>1, OnlyAnswers, AnswersAre
  <2>2. answer'.name = Wanted /\ answer'.outcome = o
    BY <2>1 DEF Answer
  <2>3. Looking /\ Wanted \in Candidates(host)
    BY <1>1, WantedFacts DEF Answers
  <2>4. <<Wanted, o>> \in Led(host)
    BY <1>1, <2>1, <2>2, <2>3, LedIs
  <2>5. Led(host) \subseteq ever
    BY <1>1, <2>3 DEF IInv, Observed
  <2> QED
    BY <2>2, <2>4, <2>5
<1>2. IInv /\ [Next]_vars =>
        [Answers /\ answer'.outcome # "unknown" =>
            <<answer'.name, answer'.outcome>> \in ever]_vars
  BY <1>1
<1> QED
  BY <1>2, SpecInv, PTL DEF Spec, AnswerWasThere
==============================================================================
