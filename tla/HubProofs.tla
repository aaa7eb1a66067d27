------------------------------ MODULE HubProofs ------------------------------
(***************************************************************************)
(* Theorems about Hub, for any number of clients and callers and channels  *)
(* of any capacity.                                                        *)
(*                                                                         *)
(* Which clients Run knows, which channels are closed and what has been    *)
(* queued hang together by three facts that are inductive only together    *)
(* with the types: Run closes exactly the clients it forgets, a connection *)
(* that has not been accepted has left no trace (Unserved), and whoever    *)
(* sends no frame never makes readPump or listen send anything (Quiet).    *)
(*                                                                         *)
(* Events is recursive, so what it does is shown by induction: the least   *)
(* number at which it would go wrong does not exist.                       *)
(***************************************************************************)
EXTENDS Hub, FiniteSetTheorems, SequenceTheorems, WellFoundedInduction, TLAPS

(* No message is offered or accepted twice.                                 *)
Once ==
    /\ \A b \in Callers : caller[b] <= offered
    /\ \A b, d \in Callers : caller[b] = caller[d] /\ caller[b] # 0 => b = d
    /\ \A i \in 1 .. Len(accepted) : accepted[i] <= offered
    /\ \A i \in 1 .. Len(accepted), b \in Callers : accepted[i] # caller[b]
    /\ \A i, j \in 1 .. Len(accepted) : accepted[i] = accepted[j] => i = j

(* A connection that has not been accepted has left no trace.               *)
Unserved ==
    \A c \in Clients : conn[c] = "none" =>
        /\ c \notin clients
        /\ rd[c] = "off" /\ wr[c] = "off" /\ ls[c] = "off"
        /\ send[c] = <<>> /\ written[c] = <<>>

(* A client that sends no frame makes neither readPump nor listen send.     *)
Quiet ==
    \A c \in Clients \ Talkative :
        rd[c] # "push" /\ recv[c] = 0 /\ ls[c] # "reply"

IInv == TypeOK /\ Once /\ Unserved /\ Quiet /\ SilentClientsAreSafe
        /\ ClosedIffForgotten /\ GapFree

------------------------------------------------------------------------------
(* What Events does.                                                        *)

LEMMA LeastNumber ==
    ASSUME NEW T, T \subseteq Nat, T # {}
    PROVE  \E m \in T : \A n \in T : m <= n
<1> DEFINE Less == {ss \in Nat \X Nat : ss[1] < ss[2]}
<1>1. IsWellFoundedOn(OpToRel(<, Nat), Nat)
  BY NatLessThanWellFounded
<1>2. OpToRel(<, Nat) = Less
  BY DEF OpToRel
<1>3. PICK m \in T : \A n \in T : <<n, m>> \notin Less
  BY <1>1, <1>2, WFMin
<1>4. ASSUME NEW n \in Nat, n < m
      PROVE  <<n, m>> \in Less
  <2> DEFINE nm == <<n, m>>
  <2>1. nm \in Nat \X Nat /\ nm[1] = n /\ nm[2] = m
    OBVIOUS
  <2> HIDE DEF nm
  <2>2. nm \in Less
    BY <2>1, <1>4
  <2> QED
    BY <2>2 DEF nm
<1> HIDE DEF Less
<1>5. \A n \in T : ~ (n < m)
  BY <1>3, <1>4
<1> QED
  BY <1>5

(* The next step of Events.                                                 *)
Taken(evs, m) == IF m = 0 THEN evs ELSE Append(evs, m)

IsFilter(f, s, n) ==
    f = [i \in 0 .. n |-> IF i = 0 THEN <<>>
                          ELSE IF s[i] = 0 THEN f[i - 1]
                          ELSE Append(f[i - 1], s[i])]

LEMMA FilterFacts ==
    ASSUME NEW f, NEW s, NEW n \in Nat
    PROVE  IsFilter(f, s, n) <=>
              /\ f = [i \in 0 .. n |-> f[i]]
              /\ f[0] = <<>>
              /\ \A i \in 1 .. n : f[i] = Taken(f[i - 1], s[i])
BY DEF IsFilter, Taken

(* The recursion has a solution for any prefix of any sequence.             *)
LEMMA FilterExists ==
    ASSUME NEW s, NEW n \in Nat
    PROVE  \E f : IsFilter(f, s, n)
<1> DEFINE T == {k \in Nat : ~ \E f : IsFilter(f, s, k)}
<1> SUFFICES ASSUME T # {} PROVE FALSE
  OBVIOUS
<1>1. PICK k \in T : \A j \in T : k <= j
  BY LeastNumber
<1>2. CASE k = 0
  <2> DEFINE g == [i \in 0 .. 0 |-> <<>>]
  <2>1. IsFilter(g, s, 0)
    BY DEF IsFilter
  <2> QED
    BY <2>1, <1>2
<1>3. CASE k # 0
  <2>1. k - 1 \in Nat /\ k - 1 \notin T
    BY <1>1, <1>3
  <2>2. PICK f : IsFilter(f, s, k - 1)
    BY <2>1
  <2> DEFINE g == [i \in 0 .. k |-> IF i < k THEN f[i]
                                    ELSE Taken(f[k - 1], s[k])]
  <2>3. /\ f[0] = <<>>
        /\ \A i \in 1 .. k - 1 : f[i] = Taken(f[i - 1], s[i])
    BY <2>1, <2>2, FilterFacts
  <2>4. g = [i \in 0 .. k |-> g[i]]
    OBVIOUS
  <2>5. g[0] = <<>>
    BY <2>3, <1>3
  <2>6. \A i \in 1 .. k : g[i] = Taken(g[i - 1], s[i])
    BY <2>3
  <2> HIDE DEF g
  <2>7. IsFilter(g, s, k)
    BY <2>4, <2>5, <2>6, FilterFacts
  <2> QED
    BY <2>7
<1> QED
  BY <1>2, <1>3

LEMMA EventsUpToFacts ==
    ASSUME NEW s, Len(s) \in Nat
    PROVE  IsFilter(EventsUpTo(s), s, Len(s))
<1>1. \E f : f = [i \in 0 .. Len(s) |-> IF i = 0 THEN <<>>
                          ELSE IF s[i] = 0 THEN f[i - 1]
                          ELSE Append(f[i - 1], s[i])]
  BY FilterExists DEF IsFilter
<1> QED
  BY <1>1, Zenon DEF EventsUpTo, IsFilter

(* What it makes of a prefix does not depend on what follows.               *)
LEMMA FilterOfPrefix ==
    ASSUME NEW f, NEW g, NEW s, NEW t, NEW n \in Nat, NEW k \in Nat, n <= k,
           IsFilter(f, s, n), IsFilter(g, t, k),
           \A i \in 1 .. n : s[i] = t[i]
    PROVE  \A i \in 0 .. n : f[i] = g[i]
<1> DEFINE T == {i \in 0 .. n : f[i] # g[i]}
<1> SUFFICES ASSUME T # {} PROVE FALSE
  OBVIOUS
<1>1. PICK m \in T : \A j \in T : m <= j
  <2>1. T \subseteq Nat
    OBVIOUS
  <2> QED
    BY <2>1, LeastNumber
<1>2. f[0] = <<>> /\ g[0] = <<>>
  BY FilterFacts
<1>3. m - 1 \in 0 .. n /\ m - 1 \notin T
  BY <1>1, <1>2
<1>4. f[m] = Taken(f[m - 1], s[m]) /\ g[m] = Taken(g[m - 1], t[m])
  BY <1>3, FilterFacts
<1> QED
  BY <1>1, <1>3, <1>4

LEMMA EventsOfNone == Events(<<>>) = <<>>
<1>1. Len(<<>>) = 0
  OBVIOUS
<1> QED
  BY <1>1, EventsUpToFacts, FilterFacts DEF Events

(* A message is added to what is in the queue, a reply is not.              *)
LEMMA EventsOfAppend ==
    ASSUME NEW s \in Seq(Nat), NEW m \in Nat
    PROVE  Events(Append(s, m)) = Taken(Events(s), m)
<1> DEFINE t == Append(s, m)
           n == Len(s)
<1>1. /\ n \in Nat /\ Len(t) = n + 1 /\ t[n + 1] = m
      /\ \A i \in 1 .. n : t[i] = s[i]
  BY AppendProperties, LenProperties
<1> HIDE DEF t, n
<1>2. IsFilter(EventsUpTo(s), s, n) /\ IsFilter(EventsUpTo(t), t, n + 1)
  BY <1>1, EventsUpToFacts DEF n
<1>3. EventsUpTo(s)[n] = EventsUpTo(t)[n]
  BY <1>1, <1>2, FilterOfPrefix
<1>4. EventsUpTo(t)[n + 1] = Taken(EventsUpTo(t)[n], m)
  BY <1>1, <1>2, FilterFacts
<1> QED
  BY <1>1, <1>3, <1>4 DEF Events, n, t

(* It makes a sequence of messages of any sequence of numbers.              *)
LEMMA EventsType ==
    ASSUME NEW S, 0 \notin S, NEW s \in Seq(S \cup {0})
    PROVE  Events(s) \in Seq(S)
<1> DEFINE f == EventsUpTo(s)
           T == {i \in 0 .. Len(s) : f[i] \notin Seq(S)}
<1>1. Len(s) \in Nat
  BY LenProperties
<1>2. f[0] = <<>> /\ \A i \in 1 .. Len(s) : f[i] = Taken(f[i - 1], s[i])
  BY <1>1, EventsUpToFacts, FilterFacts
<1>3. SUFFICES ASSUME T # {} PROVE FALSE
  BY <1>1 DEF Events
<1>4. PICK m \in T : \A j \in T : m <= j
  <2>1. T \subseteq Nat
    OBVIOUS
  <2> QED
    BY <1>3, <2>1, LeastNumber
<1>5. m # 0
  BY <1>2, <1>4, EmptySeq
<1>6. m \in 1 .. Len(s) /\ f[m - 1] \in Seq(S) /\ s[m] \in S \cup {0}
  BY <1>1, <1>4, <1>5, ElementOfSeq
<1>7. f[m] = Taken(f[m - 1], s[m])
  BY <1>2, <1>6
<1>8. Taken(f[m - 1], s[m]) \in Seq(S)
  BY <1>6, AppendProperties DEF Taken
<1> QED
  BY <1>4, <1>7, <1>8

------------------------------------------------------------------------------
(* The steps, sorted by what they leave alone.                              *)

(* A client's goroutines, but for the writes of listen and writePump.       *)
Pumping(c) ==
    \/ Disconnect(c) \/ ReadFrame(c) \/ ReadFails(c) \/ PushFrame(c)
    \/ ListenTakes(c) \/ WriteEnds(c)

LEMMA StepCases ==
    Next => \/ \E c \in Clients : \/ Serve(c) \/ Unregister(c) \/ Pumping(c)
                                  \/ ListenReplies(c) \/ WriteQueued(c)
            \/ \E b \in Callers : Offer(b) \/ Broadcast(b)
BY DEF Next, Run, ReadPump, Listen, WritePump, Pumping

LEMMA InitInv == Init => IInv
<1> SUFFICES ASSUME Init PROVE IInv
  OBVIOUS
<1> USE HubAssumption DEF Init
<1>1. TypeOK
  BY EmptySeq DEF TypeOK
<1>2. Once
  BY EmptySeq DEF Once
<1>3. Unserved /\ Quiet /\ SilentClientsAreSafe /\ ClosedIffForgotten
  BY DEF Unserved, Quiet, SilentClientsAreSafe, ClosedIffForgotten
<1>4. GapFree
  <2>1. <<>> \o <<>> = <<>> /\ Len(<<>>) = 0
    OBVIOUS
  <2>2. SubSeq(<<>>, 0 + 1, 0 + 0) = <<>>
    BY SubSeqEmpty
  <2>3. ASSUME NEW c \in Clients
        PROVE  /\ written[c] \o Events(send[c]) = <<>>
               /\ joined[c] = 0 /\ accepted = <<>> /\ c \notin clients
    BY <2>1, EventsOfNone
  <2> SUFFICES ASSUME NEW c \in Clients
               PROVE  /\ 0 + 0 <= 0
                      /\ <<>> = SubSeq(<<>>, 0 + 1, 0 + 0)
                      /\ c \in clients => 0 + 0 = 0
    BY <2>1, <2>3 DEF GapFree
  <2> QED
    BY <2>2
<1> QED
  BY <1>1, <1>2, <1>3, <1>4 DEF IInv

(* No more messages are accepted than were offered: they all differ.        *)
LEMMA AcceptedBound ==
    ASSUME IInv
    PROVE  Len(accepted) \in 0 .. MaxMessages
<1> DEFINE n == Len(accepted)
<1>1. n \in Nat /\ accepted \in [1 .. n -> 1 .. MaxMessages]
  BY LenProperties DEF IInv, TypeOK
<1>2. \A i, j \in 1 .. n : accepted[i] = accepted[j] => i = j
  BY DEF IInv, Once
<1> HIDE DEF n
<1>3. /\ IsFiniteSet(1 .. n) /\ Cardinality(1 .. n) = n
      /\ IsFiniteSet(1 .. MaxMessages)
      /\ Cardinality(1 .. MaxMessages) = MaxMessages
  BY <1>1, HubAssumption, FS_Interval
<1>4. ASSUME MaxMessages < n
      PROVE  FALSE
  <2>1. Cardinality(1 .. MaxMessages) < Cardinality(1 .. n)
    BY <1>3, <1>4
  <2>2. \E i, j \in 1 .. n : i # j /\ accepted[i] = accepted[j]
    BY <1>1, <1>3, <2>1, FS_PigeonHole
  <2> QED
    BY <1>2, <2>2
<1> QED
  BY <1>1, <1>4, HubAssumption DEF n

(* What the types say of one caller, one message and one client.            *)
LEMMA Basics ==
    ASSUME IInv
    PROVE  /\ offered \in Nat /\ Len(accepted) \in Nat
           /\ \A b \in Callers : caller[b] \in Nat
           /\ \A i \in 1 .. Len(accepted) : accepted[i] \in 1 .. MaxMessages
           /\ \A c \in Clients :
                 /\ recv[c] \in 0 .. Capacity
                 /\ send[c] \in Seq(0 .. MaxMessages)
                 /\ Len(send[c]) \in 0 .. Capacity
                 /\ written[c] \in Seq(1 .. MaxMessages)
                 /\ Events(send[c]) \in Seq(1 .. MaxMessages)
<1> USE HubAssumption DEF IInv, TypeOK
<1>1. offered \in Nat /\ Len(accepted) \in Nat
  BY LenProperties
<1>2. \A b \in Callers : caller[b] \in Nat
  OBVIOUS
<1>3. \A i \in 1 .. Len(accepted) : accepted[i] \in 1 .. MaxMessages
  BY ElementOfSeq
<1>4. ASSUME NEW c \in Clients
      PROVE  /\ recv[c] \in 0 .. Capacity
             /\ send[c] \in Seq(0 .. MaxMessages)
             /\ Len(send[c]) \in 0 .. Capacity
             /\ written[c] \in Seq(1 .. MaxMessages)
  BY LenProperties
<1>5. ASSUME NEW c \in Clients
      PROVE  Events(send[c]) \in Seq(1 .. MaxMessages)
  <2>1. 0 .. MaxMessages = (1 .. MaxMessages) \cup {0}
    OBVIOUS
  <2>2. send[c] \in Seq((1 .. MaxMessages) \cup {0})
    BY <1>4, <2>1
  <2>3. 0 \notin 1 .. MaxMessages
    OBVIOUS
  <2> QED
    BY <2>2, <2>3, EventsType
<1> QED
  BY <1>1, <1>2, <1>3, <1>4, <1>5

LEMMA TypeStep == IInv /\ [Next]_vars => TypeOK'
<1> SUFFICES ASSUME IInv, [Next]_vars PROVE TypeOK'
  OBVIOUS
<1> USE HubAssumption
<1> USE DEF IInv, TypeOK, hubVars, callVars, pumps, channels, history
<1>1. ASSUME NEW c \in Clients, Serve(c) PROVE TypeOK'
  BY <1>1, AcceptedBound DEF Serve
<1>2. ASSUME NEW c \in Clients, Unregister(c) PROVE TypeOK'
  BY <1>2 DEF Unregister, Close, CloseChannels
<1>3. ASSUME NEW c \in Clients, Pumping(c) PROVE TypeOK'
  <2>1. CASE Disconnect(c)
    BY <2>1 DEF Disconnect
  <2>2. CASE ReadFrame(c)
    BY <2>2 DEF ReadFrame
  <2>3. CASE ReadFails(c)
    BY <2>3 DEF ReadFails
  <2>4. CASE PushFrame(c)
    <3>1. /\ recv[c] \in 0 .. Capacity
          /\ recv[c] < Capacity => recv[c] + 1 \in 0 .. Capacity
      BY Basics
    <3>2. CASE closed[c]
      BY <2>4, <3>2 DEF PushFrame
    <3>3. CASE ~closed[c] /\ recv[c] < Capacity
      <4>1. recv[c] + 1 \in 0 .. Capacity
        BY <3>1, <3>3
      <4>2. recv' = [recv EXCEPT ![c] = @ + 1]
        BY <2>4, <3>3 DEF PushFrame
      <4>3. rd' = [rd EXCEPT ![c] = "read"] /\ UNCHANGED panicked
        BY <2>4, <3>3 DEF PushFrame
      <4> QED
        BY <2>4, <4>1, <4>2, <4>3 DEF PushFrame
    <3> QED
      BY <2>4, <3>2, <3>3 DEF PushFrame
  <2>5. CASE ListenTakes(c)
    <3>1. CASE recv[c] > 0
      <4>1. recv[c] - 1 \in 0 .. Capacity
        BY <3>1, Basics
      <4>2. recv' = [recv EXCEPT ![c] = @ - 1]
        BY <2>5, <3>1 DEF ListenTakes
      <4>3. ls' = [ls EXCEPT ![c] = "reply"]
        BY <2>5, <3>1 DEF ListenTakes
      <4> QED
        BY <2>5, <4>1, <4>2, <4>3 DEF ListenTakes
    <3>2. CASE recv[c] = 0
      <4>1. UNCHANGED recv /\ ls' = [ls EXCEPT ![c] = "done"]
        BY <2>5, <3>2 DEF ListenTakes
      <4> QED
        BY <2>5, <4>1 DEF ListenTakes
    <3> QED
      BY <2>5, <3>1, <3>2 DEF ListenTakes
  <2>6. CASE WriteEnds(c)
    BY <2>6 DEF WriteEnds
  <2> QED
    BY <1>3, <2>1, <2>2, <2>3, <2>4, <2>5, <2>6 DEF Pumping
<1>4. ASSUME NEW c \in Clients, ListenReplies(c) PROVE TypeOK'
  <2>1. /\ send' \in [Clients -> Seq(0 .. MaxMessages)]
        /\ \A d \in Clients : Len(send'[d]) <= Capacity
    <3>1. CASE UNCHANGED send
      BY <3>1
    <3>2. CASE /\ ~Full(c)
               /\ send' = [send EXCEPT ![c] = Append(@, 0)]
      <4>1. /\ send[c] \in Seq(0 .. MaxMessages) /\ 0 \in 0 .. MaxMessages
            /\ Len(send[c]) \in Nat
        BY LenProperties
      <4>2. Len(send[c]) + 1 <= Capacity
        BY <3>2, <4>1 DEF Full
      <4>3. /\ Append(send[c], 0) \in Seq(0 .. MaxMessages)
            /\ Len(Append(send[c], 0)) = Len(send[c]) + 1
        BY <4>1, AppendProperties
      <4> QED
        BY <3>2, <4>2, <4>3
    <3> QED
      BY <1>4, <3>1, <3>2 DEF ListenReplies
  <2> QED
    BY <1>4, <2>1 DEF ListenReplies
<1>5. ASSUME NEW c \in Clients, WriteQueued(c) PROVE TypeOK'
  <2>1. written[c] \o Events(send[c]) \in Seq(1 .. MaxMessages)
    BY Basics, ConcatProperties
  <2>2. written' \in [Clients -> Seq(1 .. MaxMessages)]
    BY <1>5, <2>1 DEF WriteQueued
  <2>3. /\ send' \in [Clients -> Seq(0 .. MaxMessages)]
        /\ \A d \in Clients : Len(send'[d]) <= Capacity
    BY <1>5, EmptySeq DEF WriteQueued
  <2> QED
    BY <1>5, <2>2, <2>3 DEF WriteQueued
<1>6. ASSUME NEW b \in Callers, Offer(b) PROVE TypeOK'
  BY <1>6 DEF Offer
<1>7. ASSUME NEW b \in Callers, Broadcast(b) PROVE TypeOK'
  <2>1. caller[b] \in 1 .. MaxMessages /\ caller[b] \in 0 .. MaxMessages
    BY <1>7 DEF Broadcast
  <2>2. accepted' \in Seq(1 .. MaxMessages)
    <3>1. accepted' = Append(accepted, caller[b])
      BY <1>7 DEF Broadcast
    <3> QED
      BY <2>1, <3>1, AppendProperties
  <2>3. ASSUME NEW c \in Clients
        PROVE  /\ send'[c] \in Seq(0 .. MaxMessages)
               /\ Len(send'[c]) <= Capacity
    <3>1. CASE send'[c] = send[c]
      BY <3>1, Basics
    <3>2. CASE ~Full(c) /\ send'[c] = Append(send[c], caller[b])
      <4>1. /\ Append(send[c], caller[b]) \in Seq(0 .. MaxMessages)
            /\ Len(Append(send[c], caller[b])) = Len(send[c]) + 1
        BY <2>1, Basics, AppendProperties
      <4> QED
        BY <3>2, <4>1, Basics DEF Full
    <3> QED
      BY <1>7, <3>1, <3>2 DEF Broadcast
  <2>4. send' \in [Clients -> Seq(0 .. MaxMessages)]
    <3>1. send' = [c \in Clients |-> send'[c]]
      BY <1>7 DEF Broadcast
    <3> QED
      BY <2>3, <3>1
  <2> QED
    BY <1>7, <2>2, <2>3, <2>4 DEF Broadcast, Close, CloseChannels
<1>8. CASE UNCHANGED vars
  BY <1>8 DEF vars
<1> QED
  BY <1>1, <1>2, <1>3, <1>4, <1>5, <1>6, <1>7, <1>8, StepCases

LEMMA OnceStep == IInv /\ [Next]_vars => Once'
<1> SUFFICES ASSUME IInv, [Next]_vars PROVE Once'
  OBVIOUS
<1> USE DEF IInv, Once, hubVars, callVars, pumps, channels, history
<1>1. ASSUME UNCHANGED <<accepted, caller, offered>> PROVE Once'
  BY <1>1
<1>2. ASSUME NEW b \in Callers, Offer(b) PROVE Once'
  <2>1. /\ offered \in Nat /\ offered' = offered + 1
        /\ accepted' = accepted
        /\ \A d \in Callers :
              caller'[d] = IF d = b THEN offered + 1 ELSE caller[d]
    BY <1>2 DEF Offer, TypeOK
  <2> QED
    BY <2>1, Basics
<1>3. ASSUME NEW b \in Callers, Broadcast(b) PROVE Once'
  <2> DEFINE n == Len(accepted)
  <2>1. /\ UNCHANGED offered
        /\ accepted' = Append(accepted, caller[b])
        /\ caller[b] \in 1 .. MaxMessages
        /\ \A d \in Callers :
              caller'[d] = IF d = b THEN 0 ELSE caller[d]
    BY <1>3 DEF Broadcast, TypeOK
  <2>2. /\ n \in Nat /\ Len(accepted') = n + 1
        /\ \A i \in 1 .. n : accepted'[i] = accepted[i]
        /\ accepted'[n + 1] = caller[b]
    BY <2>1, AppendProperties, LenProperties DEF TypeOK
  <2>3. /\ \A i \in 1 .. n : accepted[i] \in 1 .. MaxMessages
        /\ \A d \in Callers : caller[d] \in Nat
    BY Basics
  <2>4. \A i \in 1 .. n + 1 : i \in 1 .. n \/ i = n + 1
    BY <2>2
  <2> HIDE DEF n
  <2>5. \A i \in 1 .. n : accepted[i] # caller[b]
    BY DEF n
  <2>6. \A i \in 1 .. n + 1 : accepted'[i] <= offered
    BY <2>1, <2>2, <2>4 DEF n
  <2>7. \A i \in 1 .. n + 1, d \in Callers : accepted'[i] # caller'[d]
    BY <2>1, <2>2, <2>3, <2>4 DEF n
  <2>8. \A i, j \in 1 .. n + 1 : accepted'[i] = accepted'[j] => i = j
    BY <2>2, <2>4, <2>5 DEF n
  <2>9. \A d \in Callers : caller'[d] <= offered'
    BY <2>1, Basics
  <2>10. \A d, e \in Callers :
            caller'[d] = caller'[e] /\ caller'[d] # 0 => d = e
    BY <2>1
  <2> QED
    BY <2>1, <2>2, <2>6, <2>7, <2>8, <2>9, <2>10
<1> QED
  BY <1>1, <1>2, <1>3, StepCases
     DEF Serve, Unregister, Close, CloseChannels, Pumping, Disconnect,
         ReadFrame, ReadFails, PushFrame, ListenTakes, WriteEnds,
         ListenReplies, WriteQueued, vars

LEMMA UnservedStep == IInv /\ [Next]_vars => Unserved'
<1> SUFFICES ASSUME IInv, [Next]_vars PROVE Unserved'
  OBVIOUS
<1> USE DEF IInv, TypeOK, Unserved, hubVars, callVars, pumps, channels, history
<1>1. ASSUME NEW c \in Clients, Serve(c) PROVE Unserved'
  BY <1>1 DEF Serve
<1>2. ASSUME NEW c \in Clients, Unregister(c) PROVE Unserved'
  BY <1>2 DEF Unregister, Close, CloseChannels
<1>3. ASSUME NEW c \in Clients, Pumping(c) PROVE Unserved'
  BY <1>3 DEF Pumping, Disconnect, ReadFrame, ReadFails, PushFrame,
              ListenTakes, WriteEnds
<1>4. ASSUME NEW c \in Clients, ListenReplies(c) PROVE Unserved'
  BY <1>4 DEF ListenReplies, Full
<1>5. ASSUME NEW c \in Clients, WriteQueued(c) PROVE Unserved'
  BY <1>5 DEF WriteQueued
<1>6. ASSUME NEW b \in Callers, Offer(b) PROVE Unserved'
  BY <1>6 DEF Offer
<1>7. ASSUME NEW b \in Callers, Broadcast(b) PROVE Unserved'
  BY <1>7 DEF Broadcast, Close, CloseChannels, Full
<1>8. CASE UNCHANGED vars
  BY <1>8 DEF vars
<1> QED
  BY <1>1, <1>2, <1>3, <1>4, <1>5, <1>6, <1>7, <1>8, StepCases

LEMMA QuietStep == IInv /\ [Next]_vars => Quiet'
<1> SUFFICES ASSUME IInv, [Next]_vars PROVE Quiet'
  OBVIOUS
<1> USE DEF IInv, TypeOK, Quiet, Unserved, hubVars, callVars, pumps, channels,
        history
<1>1. ASSUME NEW c \in Clients, Serve(c) PROVE Quiet'
  BY <1>1 DEF Serve
<1>2. ASSUME NEW c \in Clients, Unregister(c) PROVE Quiet'
  BY <1>2 DEF Unregister
<1>3. ASSUME NEW c \in Clients, Pumping(c) PROVE Quiet'
  BY <1>3 DEF Pumping, Disconnect, ReadFrame, ReadFails, PushFrame,
              ListenTakes, WriteEnds
<1>4. ASSUME NEW c \in Clients, ListenReplies(c) PROVE Quiet'
  BY <1>4 DEF ListenReplies
<1>5. ASSUME NEW c \in Clients, WriteQueued(c) PROVE Quiet'
  BY <1>5 DEF WriteQueued
<1>6. ASSUME NEW b \in Callers, Offer(b) \/ Broadcast(b) PROVE Quiet'
  BY <1>6 DEF Offer, Broadcast
<1>7. CASE UNCHANGED vars
  BY <1>7 DEF vars
<1> QED
  BY <1>1, <1>2, <1>3, <1>4, <1>5, <1>6, <1>7, StepCases

LEMMA ClosedStep == IInv /\ [Next]_vars => ClosedIffForgotten'
<1> SUFFICES ASSUME IInv, [Next]_vars PROVE ClosedIffForgotten'
  OBVIOUS
<1> USE DEF IInv, TypeOK, ClosedIffForgotten, Unserved, hubVars, callVars,
        pumps, channels, history
<1>1. ASSUME NEW c \in Clients, Serve(c) PROVE ClosedIffForgotten'
  BY <1>1 DEF Serve
<1>2. ASSUME NEW c \in Clients, Unregister(c) PROVE ClosedIffForgotten'
  BY <1>2 DEF Unregister, Close, CloseChannels
<1>3. ASSUME NEW c \in Clients, Pumping(c) PROVE ClosedIffForgotten'
  BY <1>3 DEF Pumping, Disconnect, ReadFrame, ReadFails, PushFrame,
              ListenTakes, WriteEnds
<1>4. ASSUME NEW c \in Clients, ListenReplies(c) \/ WriteQueued(c)
      PROVE  ClosedIffForgotten'
  BY <1>4 DEF ListenReplies, WriteQueued
<1>5. ASSUME NEW b \in Callers, Offer(b) PROVE ClosedIffForgotten'
  BY <1>5 DEF Offer
<1>6. ASSUME NEW b \in Callers, Broadcast(b) PROVE ClosedIffForgotten'
  BY <1>6 DEF Broadcast, Close, CloseChannels
<1>7. CASE UNCHANGED vars
  BY <1>7 DEF vars
<1> QED
  BY <1>1, <1>2, <1>3, <1>4, <1>5, <1>6, <1>7, StepCases

LEMMA SilentStep == IInv /\ [Next]_vars => SilentClientsAreSafe'
<1> SUFFICES ASSUME IInv, [Next]_vars PROVE SilentClientsAreSafe'
  OBVIOUS
<1> USE DEF IInv, SilentClientsAreSafe
<1>1. ASSUME NEW D, D \subseteq clients, CloseChannels(D)
      PROVE  UNCHANGED panicked
  BY <1>1 DEF CloseChannels, ClosedIffForgotten, TypeOK
<1>2. ASSUME NEW c \in Clients, Unregister(c)
      PROVE  UNCHANGED panicked
  BY <1>1, <1>2 DEF Unregister, Close
<1>3. ASSUME NEW b \in Callers, Broadcast(b)
      PROVE  UNCHANGED panicked
  BY <1>1, <1>3 DEF Broadcast, Close
<1>4. ASSUME NEW c \in Clients, PushFrame(c) \/ ListenReplies(c)
      PROVE  panicked' \in Talkative \cup {panicked}
  BY <1>4 DEF PushFrame, ListenReplies, Quiet
<1> QED
  BY <1>2, <1>3, <1>4, StepCases
     DEF Serve, Offer, Pumping, Disconnect, ReadFrame, ReadFails,
         ListenTakes, WriteEnds, WriteQueued, vars

------------------------------------------------------------------------------
(* Nobody misses a message.                                                 *)

LEMMA ConcatAppend ==
    ASSUME NEW S, NEW s \in Seq(S), NEW t \in Seq(S), NEW e \in S
    PROVE  s \o Append(t, e) = Append(s \o t, e)
<1>1. Append(t, e) = t \o <<e>> /\ <<e>> \in Seq(S)
  BY AppendIsConcat
<1>2. s \o t \in Seq(S)
  BY ConcatProperties
<1>3. Append(s \o t, e) = (s \o t) \o <<e>>
  BY <1>2, AppendIsConcat
<1> QED
  BY <1>1, <1>3, ConcatAssociative

(* What was accepted before stays where it is, and the new message is next. *)
LEMMA SubSeqOfAppend ==
    ASSUME NEW S, NEW s \in Seq(S), NEW e \in S, NEW a \in 1 .. Len(s) + 1
    PROVE  /\ \A b \in a - 1 .. Len(s) :
                 SubSeq(Append(s, e), a, b) = SubSeq(s, a, b)
           /\ SubSeq(Append(s, e), a, Len(s) + 1)
                 = Append(SubSeq(s, a, Len(s)), e)
<1> DEFINE t == Append(s, e)
           n == Len(s)
<1>1. /\ n \in Nat /\ t \in Seq(S) /\ Len(t) = n + 1 /\ t[n + 1] = e
      /\ \A i \in 1 .. n : t[i] = s[i] /\ s[i] \in S
  BY AppendProperties, LenProperties, ElementOfSeq
<1> HIDE DEF t, n
<1>2. a \in 1 .. n + 1
  BY DEF n
<1>3. ASSUME NEW b \in a - 1 .. n
      PROVE  SubSeq(t, a, b) = SubSeq(s, a, b)
  <2>1. a \in Int /\ b \in Int /\ a .. b \subseteq 1 .. n
    BY <1>1, <1>2
  <2>2. \A i \in a .. b : t[i] \in S /\ s[i] \in S
    BY <1>1, <2>1
  <2>3. /\ SubSeq(t, a, b) \in Seq(S) /\ SubSeq(s, a, b) \in Seq(S)
        /\ Len(SubSeq(t, a, b)) = IF a <= b THEN b - a + 1 ELSE 0
        /\ Len(SubSeq(s, a, b)) = IF a <= b THEN b - a + 1 ELSE 0
        /\ \A i \in 1 .. b - a + 1 : SubSeq(t, a, b)[i] = t[a + i - 1]
        /\ \A i \in 1 .. b - a + 1 : SubSeq(s, a, b)[i] = s[a + i - 1]
    BY <2>1, <2>2, SubSeqProperties
  <2>4. \A i \in 1 .. b - a + 1 : a + i - 1 \in 1 .. n
    BY <1>1, <1>2, <2>1
  <2>5. \A i \in 1 .. Len(SubSeq(t, a, b)) :
           SubSeq(t, a, b)[i] = SubSeq(s, a, b)[i]
    BY <1>1, <2>1, <2>3, <2>4
  <2> QED
    BY <2>3, <2>5, SeqEqual
<1>4. SubSeq(t, a, n + 1) = Append(SubSeq(s, a, n), e)
  <2>1. a \in 1 .. Len(t) /\ n + 1 \in a .. Len(t)
    BY <1>1, <1>2
  <2>2. SubSeq(t, a, n + 1) = SubSeq(t, a, n) \o <<e>>
    <3>1. PICK k \in a .. Len(t) : k = n + 1
      BY <2>1
    <3>2. SubSeq(t, a, k) = SubSeq(t, a, k - 1) \o <<t[k]>>
      BY <1>1, <2>1, SubSeqRecursiveSecond
    <3>3. k - 1 = n
      BY <1>1, <3>1
    <3> QED
      BY <1>1, <3>1, <3>2, <3>3
  <2>3. SubSeq(t, a, n) = SubSeq(s, a, n)
    BY <1>1, <1>2, <1>3
  <2>4. SubSeq(s, a, n) \in Seq(S)
    <3>1. \A i \in a .. n : s[i] \in S
      BY <1>1, <1>2
    <3> QED
      BY <1>1, <1>2, <3>1, SubSeqProperties
  <2> QED
    BY <2>2, <2>3, <2>4, AppendIsConcat
<1> QED
  BY <1>3, <1>4 DEF t, n

(* What a client has got, and will get if it stays.                         *)
Got(c) == written[c] \o Events(send[c])

LEMMA GapFreeIsAbout ==
    GapFree <=>
    \A c \in Clients :
        /\ joined[c] + Len(Got(c)) <= Len(accepted)
        /\ Got(c) = SubSeq(accepted, joined[c] + 1, joined[c] + Len(Got(c)))
        /\ c \in clients => joined[c] + Len(Got(c)) = Len(accepted)
BY DEF GapFree, Got

LEMMA GotType ==
    ASSUME IInv, NEW c \in Clients
    PROVE  Got(c) \in Seq(1 .. MaxMessages) /\ Len(Got(c)) \in Nat
           /\ joined[c] \in Nat
<1>1. Got(c) \in Seq(1 .. MaxMessages)
  BY Basics, ConcatProperties DEF Got
<1> QED
  BY <1>1, LenProperties DEF IInv, TypeOK

(* Steps that hand no message over.                                         *)
LEMMA StillGapFree ==
    ASSUME IInv, UNCHANGED <<accepted, joined>>, clients' \subseteq clients,
           \A c \in Clients : Got(c)' = Got(c)
    PROVE  GapFree'
<1>1. ASSUME NEW c \in Clients
      PROVE  /\ joined'[c] + Len(Got(c)') <= Len(accepted')
             /\ Got(c)' = SubSeq(accepted', joined'[c] + 1,
                                 joined'[c] + Len(Got(c)'))
             /\ c \in clients' => joined'[c] + Len(Got(c)') = Len(accepted')
  BY GapFreeIsAbout DEF IInv
<1> QED
  BY <1>1 DEF GapFree, Got

LEMMA GapFreeStep == IInv /\ [Next]_vars => GapFree'
<1> SUFFICES ASSUME IInv, [Next]_vars PROVE GapFree'
  OBVIOUS
<1> USE DEF hubVars, callVars, pumps, channels, history
<1>1. ASSUME NEW c \in Clients, Serve(c) PROVE GapFree'
  <2>1. /\ UNCHANGED <<accepted, written, send>>
        /\ joined' = [joined EXCEPT ![c] = Len(accepted)]
        /\ clients' = clients \cup {c}
        /\ conn[c] = "none"
    BY <1>1 DEF Serve
  <2>2. \A d \in Clients : Got(d)' = Got(d)
    BY <2>1 DEF Got
  <2>3. Got(c) = <<>> /\ Len(Got(c)) = 0
    <3>1. written[c] = <<>> /\ send[c] = <<>>
      BY <2>1 DEF IInv, Unserved
    <3>2. Got(c) = <<>> \o <<>>
      BY <3>1, EventsOfNone DEF Got
    <3> QED
      BY <3>2
  <2>4. SubSeq(accepted, Len(accepted) + 1, Len(accepted) + 0) = <<>>
    BY Basics, SubSeqEmpty
  <2>5. ASSUME NEW d \in Clients
        PROVE  /\ joined'[d] + Len(Got(d)) <= Len(accepted)
               /\ Got(d) = SubSeq(accepted, joined'[d] + 1,
                                  joined'[d] + Len(Got(d)))
               /\ d \in clients' => joined'[d] + Len(Got(d)) = Len(accepted)
    <3>1. CASE d = c
      <4>1. joined'[d] = Len(accepted)
        BY <2>1, <3>1 DEF IInv, TypeOK
      <4> QED
        BY <2>3, <2>4, <3>1, <4>1, Basics
    <3>2. CASE d # c
      <4>1. joined'[d] = joined[d] /\ (d \in clients' <=> d \in clients)
        BY <2>1, <3>2 DEF IInv, TypeOK
      <4> QED
        BY <4>1, GapFreeIsAbout DEF IInv
    <3> QED
      BY <3>1, <3>2
  <2> QED
    BY <2>1, <2>2, <2>5 DEF GapFree, Got
<1>2. ASSUME NEW c \in Clients, Unregister(c) \/ Pumping(c) PROVE GapFree'
  <2>1. /\ UNCHANGED <<accepted, joined, written, send>>
        /\ clients' \subseteq clients
    BY <1>2 DEF Unregister, Close, CloseChannels, Pumping, Disconnect,
                ReadFrame, ReadFails, PushFrame, ListenTakes, WriteEnds
  <2> QED
    BY <2>1, StillGapFree DEF Got
<1>3. ASSUME NEW c \in Clients, ListenReplies(c) PROVE GapFree'
  <2>1. UNCHANGED <<accepted, joined, written, clients>>
    BY <1>3 DEF ListenReplies
  <2>2. ASSUME NEW d \in Clients
        PROVE  Events(send'[d]) = Events(send[d])
    <3>1. send[d] \in Seq(Nat)
      <4>1. send[d] \in Seq(0 .. MaxMessages) /\ 0 .. MaxMessages \subseteq Nat
        BY Basics
      <4> QED
        BY <4>1, SeqMonotonic
    <3>2. Events(Append(send[d], 0)) = Events(send[d])
      BY <3>1, EventsOfAppend DEF Taken
    <3>3. send'[d] \in {send[d], Append(send[d], 0)}
      BY <1>3 DEF ListenReplies, IInv, TypeOK
    <3> QED
      BY <3>2, <3>3
  <2> QED
    BY <2>1, <2>2, StillGapFree DEF Got
<1>4. ASSUME NEW c \in Clients, WriteQueued(c) PROVE GapFree'
  <2>1. UNCHANGED <<accepted, joined, clients>>
    BY <1>4 DEF WriteQueued
  <2>2. ASSUME NEW d \in Clients
        PROVE  written'[d] \o Events(send'[d]) = written[d] \o Events(send[d])
    <3>1. CASE d # c
      BY <1>4, <3>1 DEF WriteQueued, IInv, TypeOK
    <3>2. CASE d = c
      <4>1. /\ written'[c] = written[c] \o Events(send[c])
            /\ send'[c] = <<>>
        BY <1>4 DEF WriteQueued, IInv, TypeOK
      <4>2. written'[c] \in Seq(1 .. MaxMessages)
        BY <4>1, Basics, ConcatProperties
      <4>3. written'[c] \o <<>> = written'[c]
        BY <4>2, ConcatEmptySeq
      <4> QED
        BY <3>2, <4>1, <4>3, EventsOfNone
    <3> QED
      BY <3>1, <3>2
  <2> QED
    BY <2>1, <2>2, StillGapFree DEF Got
<1>5. ASSUME NEW b \in Callers, Offer(b) PROVE GapFree'
  BY <1>5, StillGapFree DEF Offer, Got
<1>6. ASSUME NEW b \in Callers, Broadcast(b) PROVE GapFree'
  <2> DEFINE m == caller[b]
             n == Len(accepted)
  <2>1. /\ m \in 1 .. MaxMessages /\ m \in Nat
        /\ accepted' = Append(accepted, m) /\ UNCHANGED <<joined, written>>
        /\ clients' \subseteq clients
        /\ \A d \in clients' : ~Full(d)
    BY <1>6 DEF Broadcast, Close, IInv, TypeOK
  <2>2. /\ n \in Nat /\ Len(accepted') = n + 1
        /\ accepted \in Seq(1 .. MaxMessages)
    BY <2>1, Basics, AppendProperties DEF IInv, TypeOK
  <2>3. ASSUME NEW d \in Clients
        PROVE  Got(d)' = IF d \in clients /\ ~Full(d) THEN Append(Got(d), m)
                                                     ELSE Got(d)
    <3>1. send'[d] = IF d \in clients /\ ~Full(d) THEN Append(send[d], m)
                                                 ELSE send[d]
      BY <1>6 DEF Broadcast
    <3>2. send[d] \in Seq(Nat)
      <4>1. send[d] \in Seq(0 .. MaxMessages) /\ 0 .. MaxMessages \subseteq Nat
        BY Basics
      <4> QED
        BY <4>1, SeqMonotonic
    <3>3. Events(Append(send[d], m)) = Append(Events(send[d]), m)
      BY <2>1, <3>2, EventsOfAppend DEF Taken
    <3>4. written[d] \o Append(Events(send[d]), m) = Append(Got(d), m)
      <4> DEFINE S == 1 .. MaxMessages
      <4>1. written[d] \in Seq(S) /\ Events(send[d]) \in Seq(S) /\ m \in S
        BY <2>1, Basics
      <4> HIDE DEF m, S
      <4>2. written[d] \o Append(Events(send[d]), m)
               = Append(written[d] \o Events(send[d]), m)
        <5> DEFINE w == written[d]
                   e == Events(send[d])
        <5>1. w \in Seq(S) /\ e \in Seq(S) /\ m \in S
          BY <4>1
        <5> HIDE DEF w, e
        <5>2. w \o Append(e, m) = Append(w \o e, m)
          BY <5>1, ConcatAppend
        <5> QED
          BY <5>2 DEF w, e
      <4> QED
        BY <4>2 DEF Got
    <3> QED
      BY <2>1, <3>1, <3>3, <3>4 DEF Got
  <2> HIDE DEF m, n
  <2>4. ASSUME NEW d \in Clients
        PROVE  /\ joined[d] + Len(Got(d)') <= n + 1
               /\ Got(d)' = SubSeq(accepted', joined[d] + 1,
                                   joined[d] + Len(Got(d)'))
               /\ d \in clients' => joined[d] + Len(Got(d)') = n + 1
    <3> DEFINE j == joined[d]
               k == Len(Got(d))
    <3>1. /\ Got(d) \in Seq(1 .. MaxMessages) /\ k \in Nat /\ j \in Nat
          /\ j + k <= n
          /\ Got(d) = SubSeq(accepted, j + 1, j + k)
          /\ d \in clients => j + k = n
      BY GotType, GapFreeIsAbout DEF IInv, n
    <3>2. j + 1 \in 1 .. Len(accepted) + 1
      BY <2>2, <3>1 DEF n
    <3> HIDE DEF j, k
    <3>3. /\ \A i \in j .. n :
                SubSeq(accepted', j + 1, i) = SubSeq(accepted, j + 1, i)
          /\ SubSeq(accepted', j + 1, n + 1)
                = Append(SubSeq(accepted, j + 1, n), m)
      <4>1. j + 1 - 1 = j
        BY <3>1
      <4> DEFINE S == 1 .. MaxMessages
      <4>2. accepted \in Seq(S) /\ m \in S
        BY <2>1, <2>2
      <4> HIDE DEF S
      <4>3. PICK a \in 1 .. Len(accepted) + 1 : a = j + 1
        BY <3>2
      <4>4. /\ \A i \in a - 1 .. n :
                  SubSeq(Append(accepted, m), a, i) = SubSeq(accepted, a, i)
            /\ SubSeq(Append(accepted, m), a, n + 1)
                  = Append(SubSeq(accepted, a, n), m)
        BY <4>2, SubSeqOfAppend DEF n
      <4>5. a - 1 = j
        BY <3>1, <4>3
      <4> QED
        BY <2>1, <4>3, <4>4, <4>5
    <3>4. CASE d \in clients /\ ~Full(d)
      <4>1. Got(d)' = Append(Got(d), m) /\ Len(Got(d)') = k + 1
        BY <2>1, <2>3, <3>1, <3>4, AppendProperties DEF k
      <4>2. j + k = n /\ j + (k + 1) = n + 1
        BY <2>2, <3>1, <3>4
      <4>3. Got(d)' = SubSeq(accepted', j + 1, n + 1)
        BY <3>1, <3>3, <4>1, <4>2
      <4>4. joined[d] + Len(Got(d)') = n + 1
        BY <4>1, <4>2 DEF j
      <4>5. joined[d] = j
        BY DEF j
      <4>6. Got(d)' = SubSeq(accepted', joined[d] + 1,
                             joined[d] + Len(Got(d)'))
        BY <4>3, <4>4, <4>5
      <4>7. joined[d] + Len(Got(d)') <= n + 1
        BY <4>4, <2>2
      <4> QED
        BY <4>4, <4>6, <4>7, Zenon
    <3>5. CASE ~ (d \in clients /\ ~Full(d))
      <4>1. Got(d)' = Got(d) /\ Len(Got(d)') = k /\ d \notin clients'
        BY <2>1, <2>3, <3>5 DEF k
      <4>2. j + k \in j .. n
        BY <2>2, <3>1
      <4>3. Got(d)' = SubSeq(accepted', j + 1, j + k)
        BY <3>1, <3>3, <4>1, <4>2
      <4>4. joined[d] = j /\ joined[d] + Len(Got(d)') = j + k
        BY <4>1 DEF j
      <4>5. j + k <= n + 1
        BY <2>2, <3>1
      <4>6. joined[d] + Len(Got(d)') <= n + 1
        BY <4>4, <4>5
      <4>7. Got(d)' = SubSeq(accepted', joined[d] + 1,
                             joined[d] + Len(Got(d)'))
        BY <4>3, <4>4
      <4> QED
        BY <4>1, <4>6, <4>7, Zenon
    <3> QED
      BY <3>4, <3>5
  <2> QED
    BY <2>1, <2>2, <2>4 DEF GapFree, Got
<1>7. CASE UNCHANGED vars
  BY <1>7, StillGapFree DEF vars, Got
<1> QED
  BY <1>1, <1>2, <1>3, <1>4, <1>5, <1>6, <1>7, StepCases

------------------------------------------------------------------------------
LEMMA SpecInv == Spec => []IInv
<1>1. IInv /\ [Next]_vars => IInv'
  BY TypeStep, OnceStep, UnservedStep, QuietStep, SilentStep, ClosedStep,
     GapFreeStep DEF IInv
<1> QED
  BY <1>1, InitInv, PTL DEF Spec

(* Channels keep to their capacities, and no more messages are taken by Run *)
(* than were offered to it.                                                 *)
THEOREM TypeCorrect == Spec => []TypeOK
<1>1. IInv => TypeOK
  BY DEF IInv
<1> QED
  BY <1>1, SpecInv, PTL

(* However many clients there are and however slow, only one that sends     *)
(* frames can make a goroutine of puma-dev panic: Run closes no channel     *)
(* twice and sends on none that it has closed (hub.go:73-77, client.go:88). *)
THEOREM OnlyTalkersPanic == Spec => []SilentClientsAreSafe
<1>1. IInv => SilentClientsAreSafe
  BY DEF IInv
<1> QED
  BY <1>1, SpecInv, PTL

(* Run closes a client's channels when, and only when, it forgets it        *)
(* (hub.go:97-100, client.go:173-179).                                      *)
THEOREM ClosedWhenForgotten == Spec => []ClosedIffForgotten
<1>1. IInv => ClosedIffForgotten
  BY DEF IInv
<1> QED
  BY <1>1, SpecInv, PTL

(* A browser gets every event accepted since it joined, in order and        *)
(* without a gap, up to where it is cut off (hub.go:68-79,                  *)
(* client.go:104-129).                                                      *)
THEOREM NoGaps == Spec => []GapFree
<1>1. IInv => GapFree
  BY DEF IInv
<1> QED
  BY <1>1, SpecInv, PTL
==============================================================================
