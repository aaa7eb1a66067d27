--------------------------- MODULE EventPathProofs ---------------------------
(***************************************************************************)
(* Theorems about EventPath, for any numbers of goroutines and events.     *)
(*                                                                         *)
(* What has been appended and not yet sent is in the hands of the          *)
(* goroutine that appended it (Hands), a request has something in hand     *)
(* only while it holds the pool lock (Held), and it comes after all that   *)
(* it must not overtake (HandOrder).                                       *)
(***************************************************************************)
EXTENDS EventPath, SequenceTheorems, TLAPS

(* What is sent is what the goroutine has in hand.                          *)
Loaded == \A g \in Adders : pc[g] = "send" => mine[g] # 0

TInv == TypeOK /\ Loaded

LEMMA Basics ==
    ASSUME TypeOK
    PROVE  /\ Len(events) \in Nat /\ Len(events) <= MaxEvents
           /\ MaxEvents \in Nat
           /\ \A e \in 1 .. Len(events) : events[e] \in Adders
           /\ Len(sent) \in Nat
           /\ \A i \in 1 .. Len(sent) : sent[i] \in 1 .. MaxEvents
           /\ \A g \in Adders : mine[g] \in 0 .. MaxEvents
BY EventPathAssumption DEF TypeOK

LEMMA MoveType ==
    ASSUME TypeOK, NEW g \in Threads, NEW from, NEW to \in Places,
           Move(g, from, to)
    PROVE  /\ pc' \in [Threads -> Places]
           /\ pc[g] = from /\ pc'[g] = to
           /\ \A h \in Threads : h # g => pc'[h] = pc[h]
BY DEF TypeOK, Move

(* An adder's steps, as far as TInv is concerned.                           *)
LEMMA AddType ==
    ASSUME TInv, NEW g \in Adders, Add(g)
    PROVE  TInv'
<1>0. g \in Threads /\ Adders \subseteq Threads
  BY DEF Threads
<1>1. TypeOK /\ Loaded
  BY DEF TInv
<1>2. CASE Begin(g)
  <2> DEFINE to == IF g \in Requests \cup Statuses THEN "lock" ELSE "append"
  <2>1. Move(g, "idle", to) /\ to \in Places /\ to # "send"
    BY <1>2 DEF Begin, Places
  <2>2. UNCHANGED <<main, pool, ring, events, eventVars, panicked>>
    BY <1>2 DEF Begin
  <2> HIDE DEF to
  <2>3. pc' \in [Threads -> Places] /\ \A h \in Threads : pc'[h] = "send" =>
            pc[h] = "send"
    BY <1>0, <1>1, <2>1, MoveType
  <2> QED
    BY <1>0, <1>1, <2>2, <2>3 DEF TInv, TypeOK, Loaded, main, eventVars
<1>3. CASE AppendEvent(g)
  <2>1. pc' \in [Threads -> Places]
        /\ \A h \in Threads : h # g => pc'[h] = pc[h]
    BY <1>0, <1>1, <1>3, MoveType DEF AppendEvent, Places
  <2>2. events' = Append(events, g) /\ Len(events) < MaxEvents
    BY <1>3 DEF AppendEvent
  <2>3. events' \in Seq(Adders) /\ Len(events') = Len(events) + 1
    BY <1>1, <2>2, AppendProperties DEF TypeOK
  <2>4. Len(events') \in 1 .. MaxEvents
    BY <1>1, <2>2, <2>3, Basics
  <2>5. mine' = [mine EXCEPT ![g] = Len(events')]
    BY <1>3 DEF AppendEvent
  <2>6. mine' \in [Adders -> 0 .. MaxEvents] /\ mine'[g] # 0
        /\ \A h \in Adders : h # g => mine'[h] = mine[h]
    BY <1>1, <2>4, <2>5 DEF TypeOK
  <2>7. Loaded'
    BY <1>0, <1>1, <2>1, <2>6 DEF Loaded
  <2>8. UNCHANGED <<main, pool, ring, sent, dropped, panicked>>
    BY <1>3 DEF AppendEvent
  <2> QED
    BY <1>1, <2>1, <2>3, <2>4, <2>6, <2>7, <2>8 DEF TInv, TypeOK, main
<1>4. CASE NoEvent(g)
  <2> DEFINE to == IF g \in Requests THEN "unlock" ELSE "idle"
  <2>1. Move(g, "append", to) /\ to \in Places /\ to # "send"
    BY <1>4 DEF NoEvent, Places
  <2>2. UNCHANGED <<main, pool, ring, events, eventVars, panicked>>
    BY <1>4 DEF NoEvent
  <2> HIDE DEF to
  <2>3. pc' \in [Threads -> Places] /\ \A h \in Threads : pc'[h] = "send" =>
            pc[h] = "send"
    BY <1>0, <1>1, <2>1, MoveType
  <2> QED
    BY <1>0, <1>1, <2>2, <2>3 DEF TInv, TypeOK, Loaded, main, eventVars
<1>5. CASE Send(g)
  <2> DEFINE to == IF g \in Requests THEN "unlock" ELSE "idle"
  <2>1. Move(g, "send", to) /\ to \in Places /\ to # "send"
    BY <1>5 DEF Send, Places
  <2> HIDE DEF to
  <2>2. pc' \in [Threads -> Places] /\ pc'[g] # "send" /\ pc[g] = "send"
        /\ \A h \in Threads : h # g => pc'[h] = pc[h]
    BY <1>0, <1>1, <2>1, MoveType
  <2>3. mine[g] \in 1 .. MaxEvents
    BY <1>1, <2>2, Basics DEF Loaded
  <2>4. sent' = Append(sent, mine[g]) /\ mine' = [mine EXCEPT ![g] = 0]
        /\ UNCHANGED <<main, pool, ring, events, dropped, panicked>>
    BY <1>5 DEF Send
  <2>5. sent' \in Seq(1 .. MaxEvents)
    BY <1>1, <2>3, <2>4, AppendProperties DEF TypeOK
  <2>6. mine' \in [Adders -> 0 .. MaxEvents]
        /\ \A h \in Adders : h # g => mine'[h] = mine[h]
    BY <1>1, <2>4, EventPathAssumption DEF TypeOK
  <2>7. Loaded'
    BY <1>0, <1>1, <2>2, <2>6 DEF Loaded
  <2> QED
    BY <1>1, <2>2, <2>4, <2>5, <2>6, <2>7 DEF TInv, TypeOK, main
<1>6. CASE Unparsed(g)
  <2>1. pc' \in [Threads -> Places] /\ pc'[g] # "send" /\ pc[g] = "send"
        /\ \A h \in Threads : h # g => pc'[h] = pc[h]
    <3> DEFINE to == IF g \in Requests THEN "unlock" ELSE "idle"
    <3>1. Move(g, "send", to) /\ to \in Places /\ to # "send"
      BY <1>6 DEF Unparsed, Places
    <3> HIDE DEF to
    <3> QED
      BY <1>0, <1>1, <3>1, MoveType
  <2>2. mine[g] \in 1 .. MaxEvents
    BY <1>1, <2>1, Basics DEF Loaded
  <2>3. dropped' = dropped \cup {mine[g]} /\ mine' = [mine EXCEPT ![g] = 0]
        /\ UNCHANGED <<main, pool, ring, events, sent, panicked>>
    BY <1>6 DEF Unparsed
  <2>4. mine' \in [Adders -> 0 .. MaxEvents]
        /\ \A h \in Adders : h # g => mine'[h] = mine[h]
    BY <1>1, <2>3, EventPathAssumption DEF TypeOK
  <2>5. Loaded'
    BY <1>0, <1>1, <2>1, <2>4 DEF Loaded
  <2> QED
    BY <1>1, <2>1, <2>2, <2>3, <2>4, <2>5 DEF TInv, TypeOK, main
<1>7. CASE SendPanics(g)
  <2> DEFINE to == IF g \in Requests THEN "unlock" ELSE "send"
  <2>1. Move(g, "send", to) /\ to \in Places
    BY <1>7 DEF SendPanics, Places
  <2> HIDE DEF to
  <2>2. pc' \in [Threads -> Places]
        /\ \A h \in Threads : pc'[h] = "send" => pc[h] = "send"
    BY <1>0, <1>1, <2>1, MoveType
  <2>3. panicked' = panicked \cup {g}
        /\ UNCHANGED <<main, pool, ring, events, eventVars>>
    BY <1>7 DEF SendPanics
  <2> QED
    BY <1>0, <1>1, <2>2, <2>3 DEF TInv, TypeOK, Loaded, main, eventVars
<1> QED
  BY <1>2, <1>3, <1>4, <1>5, <1>6, <1>7 DEF Add
LEMMA TypeStep == TInv /\ [Next]_vars => TInv'
<1> SUFFICES ASSUME TInv, [Next]_vars PROVE TInv'
  OBVIOUS
<1>0. TypeOK /\ Loaded /\ Adders \subseteq Threads
  BY DEF TInv, Threads
<1>1. ASSUME NEW g \in Threads, NEW from, NEW to \in Places \ {"send"},
             Move(g, from, to), UNCHANGED mine
      PROVE  pc' \in [Threads -> Places] /\ Loaded'
  BY <1>0, <1>1, MoveType DEF Loaded
<1>2. CASE StartRPC
  BY <1>0, <1>2 DEF StartRPC, TInv, TypeOK, Loaded
<1>3. CASE RunStarts
  BY <1>0, <1>3 DEF RunStarts, TInv, TypeOK, Loaded
<1>4. CASE Listen
  BY <1>0, <1>4 DEF Listen, TInv, TypeOK, Loaded
<1>5. ASSUME NEW g \in Adders, Add(g) PROVE TInv'
  BY <1>5, AddType
<1>6. ASSUME NEW r \in Requests, Lock(r) PROVE TInv'
  <2>1. pc' \in [Threads -> Places] /\ Loaded'
    BY <1>1, <1>6 DEF Lock, Places, Threads, Adders, eventVars
  <2> QED
    BY <2>1, <1>0, <1>6 DEF Lock, TInv, TypeOK, main, eventVars
<1>7. ASSUME NEW r \in Requests, Unlock(r) PROVE TInv'
  <2>1. pc' \in [Threads -> Places] /\ Loaded'
    BY <1>1, <1>7 DEF Unlock, Places, Threads, Adders, eventVars
  <2> QED
    BY <2>1, <1>0, <1>7 DEF Unlock, TInv, TypeOK, main, eventVars
<1>8. ASSUME NEW s \in Statuses, Begin(s) PROVE TInv'
  <2> DEFINE to == IF s \in Requests \cup Statuses THEN "lock" ELSE "append"
  <2>1. Move(s, "idle", to) /\ to \in Places \ {"send"} /\ UNCHANGED mine
    BY <1>8 DEF Begin, Places, eventVars
  <2> HIDE DEF to
  <2>2. pc' \in [Threads -> Places] /\ Loaded'
    BY <1>1, <2>1 DEF Threads
  <2> QED
    BY <2>2, <1>0, <1>8 DEF Begin, TInv, TypeOK, main, eventVars
<1>9. ASSUME NEW s \in Statuses, Status(s) PROVE TInv'
  <2>1. pc' \in [Threads -> Places] /\ Loaded'
    BY <1>1, <1>9 DEF Status, Places, Threads, eventVars
  <2> QED
    BY <2>1, <1>0, <1>9 DEF Status, TInv, TypeOK, main, eventVars
<1>10. ASSUME NEW v \in Viewers, View(v) PROVE TInv'
  <2>1. pc' \in [Threads -> Places] /\ Loaded'
    BY <1>1, <1>10 DEF View, Places, Threads, eventVars
  <2> QED
    BY <2>1, <1>0, <1>10 DEF View, TInv, TypeOK, main, eventVars
<1>11. ASSUME NEW v \in Viewers, ViewDone(v) PROVE TInv'
  <2>1. pc' \in [Threads -> Places] /\ Loaded'
    BY <1>1, <1>11 DEF ViewDone, Places, Threads, eventVars
  <2> QED
    BY <2>1, <1>0, <1>11 DEF ViewDone, TInv, TypeOK, main, eventVars
<1>12. ASSUME NEW v \in Viewers, ViewStalls(v) PROVE TInv'
  <2>1. pc' \in [Threads -> Places] /\ Loaded'
    BY <1>1, <1>12 DEF ViewStalls, Places, Threads, eventVars
  <2> QED
    BY <2>1, <1>0, <1>12 DEF ViewStalls, TInv, TypeOK, main, eventVars
<1>13. CASE UNCHANGED vars
  BY <1>0, <1>13 DEF vars, main, TInv, TypeOK, Loaded
<1> QED
  BY <1>2, <1>3, <1>4, <1>5, <1>6, <1>7, <1>8, <1>9, <1>10, <1>11, <1>12,
     <1>13 DEF Next

LEMMA TypeInit == Init => TInv
<1> SUFFICES ASSUME Init PROVE TInv
  OBVIOUS
<1>1. pc \in [Threads -> Places] /\ \A g \in Threads : pc[g] # "send"
  BY DEF Init, Places
<1>2. mine \in [Adders -> 0 .. MaxEvents]
  BY EventPathAssumption DEF Init
<1>3. events \in Seq(Adders) /\ Len(events) <= MaxEvents
      /\ sent \in Seq(1 .. MaxEvents)
  BY EventPathAssumption DEF Init
<1>4. made \in BOOLEAN /\ running \in BOOLEAN /\ serving \in BOOLEAN
      /\ pool = None /\ ring = None /\ dropped = {} /\ panicked = {}
  BY DEF Init
<1>5. Loaded
  BY <1>1 DEF Loaded, Threads
<1> QED
  BY <1>1, <1>2, <1>3, <1>4, <1>5, Zenon DEF TInv, TypeOK

(* What main, the goroutines, the locks and the ring hold keeps its type,   *)
(* whether main calls StartRPC or not.                                      *)
THEOREM TypeCorrect == Spec => []TypeOK
<1>1. TInv => TypeOK
  BY DEF TInv
<1> QED
  BY <1>1, TypeInit, TypeStep, PTL DEF Spec

------------------------------------------------------------------------------
(* The events, what has become of them, and their order.                    *)

(* A goroutine has in hand the last event it added, until it is sent.       *)
Hands ==
    \A g \in Adders :
        /\ pc[g] = "send" => /\ mine[g] \in 1 .. Len(events)
                             /\ events[mine[g]] = g
        /\ pc[g] # "send" => mine[g] = 0

Known ==
    /\ \A i \in 1 .. Len(sent) : sent[i] \in 1 .. Len(events)
    /\ dropped \subseteq 1 .. Len(events)

(* Events that stay in order: one goroutine's, and those of lookups.        *)
Ordered(a, b) == a = b \/ {a, b} \subseteq Requests

HandOrder ==
    \A g \in Adders : pc[g] = "send" =>
        \A i \in 1 .. Len(sent) :
            Ordered(events[sent[i]], g) => sent[i] < mine[g]

InOrder(evs, snt) ==
    \A i, j \in 1 .. Len(snt) :
        i < j /\ Ordered(evs[snt[i]], evs[snt[j]]) => snt[i] < snt[j]

LEMMA OrderIsAbout == LookupOrder <=> InOrder(events, sent)
BY DEF LookupOrder, InOrder, Ordered

Book == Hands /\ Known /\ NothingLost /\ HandOrder /\ LookupOrder

(* A step that neither adds, nor takes, nor drops an event.                 *)
Quiet ==
    /\ UNCHANGED <<events, mine, sent, dropped>>
    /\ \A g \in Adders : pc'[g] = "send" <=> pc[g] = "send"

LEMMA QuietBook ==
    ASSUME Book, Quiet
    PROVE  Book'
<1>1. Hands'
  BY DEF Book, Quiet, Hands
<1>2. Known'
  BY DEF Book, Quiet, Known
<1>3. NothingLost'
  BY DEF Book, Quiet, NothingLost
<1>4. HandOrder'
  BY DEF Book, Quiet, HandOrder
<1>5. LookupOrder'
  BY DEF Book, Quiet, LookupOrder
<1> QED
  BY <1>1, <1>2, <1>3, <1>4, <1>5 DEF Book

LEMMA AppendBook ==
    ASSUME TypeOK, Book, NEW g \in Adders, AppendEvent(g)
    PROVE  Book'
<1> DEFINE n == Len(events)
<1>0. g \in Threads /\ Adders \subseteq Threads
  BY DEF Threads
<1>1. pc[g] = "append" /\ pc'[g] = "send"
      /\ \A h \in Adders : h # g => pc'[h] = pc[h]
  BY <1>0, MoveType DEF AppendEvent, Places
<1>2. events' = Append(events, g) /\ mine' = [mine EXCEPT ![g] = Len(events')]
      /\ sent' = sent /\ dropped' = dropped
  BY DEF AppendEvent
<1>3. n \in Nat /\ Len(events') = n + 1 /\ events'[n + 1] = g
      /\ \A e \in 1 .. n : events'[e] = events[e]
  BY <1>2, AppendProperties DEF TypeOK
<1>4. mine'[g] = n + 1 /\ \A h \in Adders : h # g => mine'[h] = mine[h]
  BY <1>2, <1>3 DEF TypeOK
<1>5. mine[g] = 0
  BY <1>1 DEF Book, Hands
<1>6. \A i \in 1 .. Len(sent) : sent[i] \in 1 .. n
  BY DEF Book, Known
<1>7. dropped \subseteq 1 .. n
  BY DEF Book, Known
<1> HIDE DEF n
<1>8. \A e \in 1 .. n + 1 : e \in 1 .. n \/ e = n + 1
  BY <1>3
<1>9. \A e \in 1 .. n : e \in 1 .. n + 1 /\ e < n + 1 /\ e # n + 1 /\ e # 0
  BY <1>3
<1>10. Hands'
  <2> SUFFICES ASSUME NEW h \in Adders PROVE Hands!(h)'
    BY DEF Hands
  <2>1. CASE h = g
    BY <2>1, <1>1, <1>3, <1>4
  <2>2. CASE h # g
    <3>1. pc[h] = "send" => mine[h] \in 1 .. n /\ events[mine[h]] = h
      BY DEF Book, Hands, n
    <3>2. pc[h] # "send" => mine[h] = 0
      BY DEF Book, Hands
    <3> QED
      BY <2>2, <3>1, <3>2, <1>1, <1>3, <1>4, <1>9
  <2> QED
    BY <2>1, <2>2
<1>11. Known'
  BY <1>2, <1>3, <1>6, <1>7, <1>9 DEF Known
<1>12. NothingLost'
  <2>1. \A i, j \in 1 .. Len(sent') : sent'[i] = sent'[j] => i = j
    BY <1>2 DEF Book, NothingLost
  <2>2. ASSUME NEW e \in 1 .. n + 1
        PROVE  mine'[events'[e]] = e <=>
               e \notin dropped' /\ \A i \in 1 .. Len(sent') : sent'[i] # e
    <3>1. CASE e = n + 1
      <4>1. e \notin dropped' /\ \A i \in 1 .. Len(sent') : sent'[i] # e
        BY <3>1, <1>2, <1>6, <1>7, <1>9
      <4> QED
        BY <3>1, <4>1, <1>3, <1>4
    <3>2. CASE e \in 1 .. n
      <4>1. mine[events[e]] = e <=>
               e \notin dropped /\ \A i \in 1 .. Len(sent) : sent[i] # e
        BY <3>2 DEF Book, NothingLost, n
      <4>2. events[e] \in Adders
        BY <3>2 DEF TypeOK, n
      <4>3. mine'[events[e]] = e <=> mine[events[e]] = e
        <5>1. CASE events[e] = g
          BY <5>1, <1>4, <1>5, <1>9, <3>2
        <5>2. CASE events[e] # g
          BY <5>2, <1>4, <4>2
        <5> QED
          BY <5>1, <5>2
      <4> QED
        BY <3>2, <4>1, <4>3, <1>2, <1>3
    <3> QED
      BY <3>1, <3>2, <1>8
  <2> QED
    BY <2>1, <2>2, <1>3 DEF NothingLost
<1>13. HandOrder'
  <2> SUFFICES ASSUME NEW h \in Adders, pc'[h] = "send",
                      NEW i \in 1 .. Len(sent),
                      Ordered(events'[sent[i]], h)
               PROVE  sent[i] < mine'[h]
    BY <1>2 DEF HandOrder, Ordered
  <2>1. events'[sent[i]] = events[sent[i]]
    BY <1>3, <1>6
  <2>2. CASE h = g
    BY <2>2, <1>4, <1>6, <1>9
  <2>3. CASE h # g
    BY <2>1, <2>3, <1>1, <1>4 DEF Book, HandOrder
  <2> QED
    BY <2>2, <2>3
<1>14. LookupOrder'
  <2>0. LookupOrder' <=> InOrder(events', sent')
    BY DEF LookupOrder, InOrder, Ordered
  <2> SUFFICES ASSUME NEW i \in 1 .. Len(sent), NEW j \in 1 .. Len(sent),
                      i < j, Ordered(events'[sent[i]], events'[sent[j]])
               PROVE  sent[i] < sent[j]
    BY <1>2, <2>0 DEF InOrder
  <2>1. /\ events'[sent[i]] = events[sent[i]]
        /\ events'[sent[j]] = events[sent[j]]
    BY <1>3, <1>6
  <2> QED
    BY <2>1, OrderIsAbout DEF Book, InOrder
<1> QED
  BY <1>10, <1>11, <1>12, <1>13, <1>14 DEF Book

LEMMA UnparsedBook ==
    ASSUME TypeOK, Book, NEW g \in Adders, Unparsed(g)
    PROVE  Book'
<1>0. g \in Threads /\ Adders \subseteq Threads
  BY DEF Threads
<1>1. pc[g] = "send" /\ pc'[g] # "send"
      /\ \A h \in Adders : h # g => pc'[h] = pc[h]
  <2> DEFINE to == IF g \in Requests THEN "unlock" ELSE "idle"
  <2>1. Move(g, "send", to) /\ to \in Places /\ to # "send"
    BY DEF Unparsed, Places
  <2> HIDE DEF to
  <2> QED
    BY <1>0, <2>1, MoveType
<1>2. dropped' = dropped \cup {mine[g]} /\ sent' = sent /\ events' = events
  BY DEF Unparsed
<1>3. mine'[g] = 0 /\ \A h \in Adders : h # g => mine'[h] = mine[h]
  BY DEF Unparsed, TypeOK
<1>4. mine[g] \in 1 .. Len(events) /\ events[mine[g]] = g
  BY <1>1 DEF Book, Hands
<1>5. Hands'
  BY <1>1, <1>2, <1>3 DEF Book, Hands
<1>6. Known'
  BY <1>2, <1>4 DEF Book, Known
<1>7. NothingLost'
  <2>1. ASSUME NEW e \in 1 .. Len(events)
        PROVE  mine'[events[e]] = e <=>
               e \notin dropped' /\ \A i \in 1 .. Len(sent) : sent[i] # e
    <3>1. mine[events[e]] = e <=>
               e \notin dropped /\ \A i \in 1 .. Len(sent) : sent[i] # e
      BY DEF Book, NothingLost
    <3>2. events[e] \in Adders /\ e # 0
      BY DEF TypeOK
    <3>3. CASE e = mine[g]
      BY <3>2, <3>3, <1>2, <1>3, <1>4
    <3>4. CASE e # mine[g] /\ events[e] = g
      BY <3>1, <3>2, <3>4, <1>2, <1>3
    <3>5. CASE e # mine[g] /\ events[e] # g
      BY <3>1, <3>2, <3>5, <1>2, <1>3
    <3> QED
      BY <3>3, <3>4, <3>5
  <2> QED
    BY <2>1, <1>2 DEF Book, NothingLost
<1>8. HandOrder'
  BY <1>1, <1>2, <1>3 DEF Book, HandOrder, Ordered
<1>9. LookupOrder'
  BY <1>2 DEF Book, LookupOrder
<1> QED
  BY <1>5, <1>6, <1>7, <1>8, <1>9 DEF Book

(* Between its append and its broadcast a lookup holds the pool lock.       *)
Held ==
    \A r \in Requests :
        pc[r] \in {"append", "send", "unlock"} => pool = r

LEMMA SendBook ==
    ASSUME TypeOK, Book, Held, NEW g \in Adders, Send(g)
    PROVE  Book'
<1> DEFINE m == Len(sent)
           e0 == mine[g]
<1>0. g \in Threads /\ Adders \subseteq Threads
  BY DEF Threads
<1>1. pc[g] = "send" /\ pc'[g] # "send"
      /\ \A h \in Adders : h # g => pc'[h] = pc[h]
  <2> DEFINE to == IF g \in Requests THEN "unlock" ELSE "idle"
  <2>1. Move(g, "send", to) /\ to \in Places /\ to # "send"
    BY DEF Send, Places
  <2> HIDE DEF to
  <2> QED
    BY <1>0, <2>1, MoveType
<1>2. e0 \in 1 .. Len(events) /\ events[e0] = g
  BY <1>1 DEF Book, Hands
<1>3. e0 \in 1 .. MaxEvents
  BY <1>2, Basics
<1>4. sent' = Append(sent, e0) /\ dropped' = dropped /\ events' = events
  BY DEF Send
<1>5. m \in Nat /\ Len(sent') = m + 1 /\ sent'[m + 1] = e0
      /\ \A i \in 1 .. m : sent'[i] = sent[i]
  BY <1>3, <1>4, AppendProperties DEF TypeOK
<1>6. mine'[g] = 0 /\ \A h \in Adders : h # g => mine'[h] = mine[h]
  BY DEF Send, TypeOK
<1>7. e0 \notin dropped /\ \A i \in 1 .. m : sent[i] # e0
  BY <1>2 DEF Book, NothingLost
<1>8. \A i \in 1 .. m : sent[i] \in 1 .. Len(events)
  BY DEF Book, Known
<1> HIDE DEF m, e0
<1>9. \A i \in 1 .. m + 1 : i \in 1 .. m \/ i = m + 1
  BY <1>5
<1>10. m + 1 \in 1 .. m + 1 /\ \A i \in 1 .. m : i \in 1 .. m + 1
  BY <1>5
<1>11. Hands'
  BY <1>1, <1>4, <1>6 DEF Book, Hands
<1>12. Known'
  BY <1>2, <1>4, <1>5, <1>8, <1>9 DEF Book, Known
<1>13. NothingLost'
  <2>1. ASSUME NEW i \in 1 .. m + 1, NEW j \in 1 .. m + 1,
               sent'[i] = sent'[j]
        PROVE  i = j
    <3>1. CASE i \in 1 .. m /\ j \in 1 .. m
      BY <2>1, <3>1, <1>5 DEF Book, NothingLost, m
    <3>2. CASE i = m + 1 \/ j = m + 1
      BY <2>1, <3>2, <1>5, <1>7, <1>9
    <3> QED
      BY <3>1, <3>2, <1>9
  <2>2. ASSUME NEW e \in 1 .. Len(events)
        PROVE  mine'[events[e]] = e <=>
               e \notin dropped /\ \A i \in 1 .. m + 1 : sent'[i] # e
    <3>1. mine[events[e]] = e <=>
               e \notin dropped /\ \A i \in 1 .. m : sent[i] # e
      BY DEF Book, NothingLost, m
    <3>2. events[e] \in Adders /\ e # 0
      BY DEF TypeOK
    <3>3. CASE e = e0
      BY <3>2, <3>3, <1>2, <1>5, <1>6, <1>10
    <3>4. CASE e # e0
      <4>1. (\A i \in 1 .. m + 1 : sent'[i] # e) <=>
            \A i \in 1 .. m : sent[i] # e
        BY <3>4, <1>5, <1>9, <1>10
      <4>2. mine'[events[e]] = e <=> mine[events[e]] = e
        BY <3>2, <3>4, <1>6 DEF e0
      <4> QED
        BY <4>1, <4>2, <3>1
    <3> QED
      BY <3>3, <3>4
  <2> QED
    BY <2>1, <2>2, <1>4, <1>5 DEF NothingLost
<1>14. \A h \in Adders : pc[h] = "send" /\ h # g => ~Ordered(g, h)
  BY <1>1, EventPathAssumption DEF Held, Ordered, TypeOK
<1>15. HandOrder'
  <2> SUFFICES ASSUME NEW h \in Adders, pc'[h] = "send",
                      NEW i \in 1 .. m + 1,
                      Ordered(events[sent'[i]], h)
               PROVE  sent'[i] < mine'[h]
    BY <1>4, <1>5 DEF HandOrder, Ordered
  <2>1. h # g /\ pc[h] = "send" /\ mine'[h] = mine[h]
    BY <1>1, <1>6
  <2>2. i \in 1 .. m
    BY <2>1, <1>2, <1>5, <1>9, <1>14
  <2> QED
    BY <2>1, <2>2, <1>5 DEF Book, HandOrder, m
<1>16. LookupOrder'
  <2>0. LookupOrder' <=> InOrder(events', sent')
    BY DEF LookupOrder, InOrder, Ordered
  <2> SUFFICES ASSUME NEW i \in 1 .. m + 1, NEW j \in 1 .. m + 1,
                      i < j, Ordered(events[sent'[i]], events[sent'[j]])
               PROVE  sent'[i] < sent'[j]
    BY <1>4, <1>5, <2>0 DEF InOrder
  <2>1. i \in 1 .. m /\ sent'[i] = sent[i]
    BY <1>5, <1>9
  <2>2. CASE j \in 1 .. m
    BY <2>1, <2>2, <1>5, OrderIsAbout DEF Book, InOrder, m
  <2>3. CASE j = m + 1
    BY <2>1, <2>3, <1>1, <1>2, <1>5 DEF Book, HandOrder, m, e0
  <2> QED
    BY <2>2, <2>3, <1>9
<1> QED
  BY <1>11, <1>12, <1>13, <1>15, <1>16 DEF Book

------------------------------------------------------------------------------
(* What is started when, and the pool lock.                                 *)

(* The servers find the hub made, and nothing but signals comes before      *)
(* them.                                                                    *)
Wired ==
    /\ serving => made
    /\ \A g \in Threads \ Signals : pc[g] # "idle" => serving

IInv == TInv /\ Wired /\ Held /\ OnlySignalsPanic /\ Book

LEMMA InitInv == Init => IInv
<1> SUFFICES ASSUME Init PROVE IInv
  OBVIOUS
<1>1. TInv
  BY TypeInit
<1>2. Wired /\ Held /\ OnlySignalsPanic
  BY DEF Init, Wired, Held, OnlySignalsPanic, Threads, Adders
<1>3. Len(sent) = 0 /\ Len(events) = 0 /\ dropped = {}
      /\ \A g \in Adders : pc[g] = "idle" /\ mine[g] = 0
  BY DEF Init, Threads
<1>4. Book
  BY <1>3 DEF Book, Hands, Known, NothingLost, HandOrder, LookupOrder
<1> QED
  BY <1>1, <1>2, <1>4 DEF IInv

(* Without the hub nobody but a signal's goroutine gets to send.            *)
LEMMA OthersFindTheHub ==
    ASSUME Wired, NEW g \in Adders, SendPanics(g)
    PROVE  g \in Signals
BY DEF Wired, SendPanics, Move, Threads

LEMMA BookStep == IInv /\ [Next]_vars => Book'
<1> SUFFICES ASSUME IInv, [Next]_vars PROVE Book'
  OBVIOUS
<1>0. TypeOK /\ Book /\ Held /\ Wired /\ Adders \subseteq Threads
  BY DEF IInv, TInv, Threads
<1>1. ASSUME NEW g \in Threads, NEW from \in Places \ {"send"},
             NEW to \in Places \ {"send"}, Move(g, from, to),
             UNCHANGED <<events, mine, sent, dropped>>
      PROVE  Quiet
  BY <1>0, <1>1, MoveType DEF Quiet
<1>2. CASE StartRPC \/ RunStarts \/ Listen
  <2>1. Quiet
    BY <1>2 DEF StartRPC, RunStarts, Listen, Quiet
  <2> QED
    BY <1>0, <2>1, QuietBook
<1>3. ASSUME NEW g \in Threads, Begin(g) PROVE Quiet
  <2> DEFINE to == IF g \in Requests \cup Statuses THEN "lock" ELSE "append"
  <2>1. Move(g, "idle", to) /\ to \in Places \ {"send"}
        /\ UNCHANGED <<events, mine, sent, dropped>>
    BY <1>3 DEF Begin, Places, eventVars
  <2> HIDE DEF to
  <2> QED
    BY <1>1, <2>1 DEF Places
<1>4. ASSUME NEW g \in Adders, Add(g) PROVE Book'
  <2>1. CASE Begin(g)
    BY <1>0, <1>3, <2>1, QuietBook
  <2>2. CASE AppendEvent(g)
    BY <1>0, <2>2, AppendBook
  <2>3. CASE NoEvent(g)
    <3> DEFINE to == IF g \in Requests THEN "unlock" ELSE "idle"
    <3>1. Move(g, "append", to) /\ to \in Places \ {"send"}
          /\ UNCHANGED <<events, mine, sent, dropped>>
      BY <2>3 DEF NoEvent, Places, eventVars
    <3> HIDE DEF to
    <3>2. Quiet
      BY <1>0, <1>1, <3>1 DEF Places
    <3> QED
      BY <1>0, <3>2, QuietBook
  <2>4. CASE Send(g)
    BY <1>0, <2>4, SendBook
  <2>5. CASE Unparsed(g)
    BY <1>0, <2>5, UnparsedBook
  <2>6. CASE SendPanics(g)
    <3>1. g \notin Requests
      BY <1>0, <2>6, OthersFindTheHub, EventPathAssumption
    <3>2. Move(g, "send", "send")
          /\ UNCHANGED <<events, mine, sent, dropped>>
      BY <2>6, <3>1 DEF SendPanics, eventVars
    <3>3. Quiet
      BY <1>0, <3>2, MoveType DEF Quiet, Places
    <3> QED
      BY <1>0, <3>3, QuietBook
  <2> QED
    BY <1>4, <2>1, <2>2, <2>3, <2>4, <2>5, <2>6 DEF Add
<1>5. ASSUME NEW r \in Requests, Lock(r) \/ Unlock(r) PROVE Book'
  <2>1. r \in Threads
    BY DEF Threads, Adders
  <2>2. CASE Lock(r)
    <3>1. Quiet
      BY <1>1, <2>1, <2>2 DEF Lock, Places, eventVars
    <3> QED
      BY <1>0, <3>1, QuietBook
  <2>3. CASE Unlock(r)
    <3>1. Quiet
      BY <1>1, <2>1, <2>3 DEF Unlock, Places, eventVars
    <3> QED
      BY <1>0, <3>1, QuietBook
  <2> QED
    BY <1>5, <2>2, <2>3
<1>6. ASSUME NEW s \in Statuses, Begin(s) \/ Status(s) PROVE Book'
  <2>1. s \in Threads
    BY DEF Threads
  <2>2. CASE Begin(s)
    BY <1>0, <1>3, <2>1, <2>2, QuietBook
  <2>3. CASE Status(s)
    <3>1. Quiet
      BY <1>1, <2>1, <2>3 DEF Status, Places, eventVars
    <3> QED
      BY <1>0, <3>1, QuietBook
  <2> QED
    BY <1>6, <2>2, <2>3
<1>7. ASSUME NEW v \in Viewers, View(v) \/ ViewDone(v) \/ ViewStalls(v)
      PROVE  Book'
  <2>1. v \in Threads
    BY DEF Threads
  <2>2. View(v) => Quiet
    BY <1>1, <2>1 DEF View, Places, eventVars
  <2>3. ViewDone(v) => Quiet
    BY <1>1, <2>1 DEF ViewDone, Places, eventVars
  <2>4. ViewStalls(v) => Quiet
    BY <1>1, <2>1 DEF ViewStalls, Places, eventVars
  <2> QED
    BY <1>0, <1>7, <2>2, <2>3, <2>4, QuietBook
<1>8. CASE UNCHANGED vars
  <2>1. Quiet
    BY <1>8 DEF vars, Quiet
  <2> QED
    BY <1>0, <2>1, QuietBook
<1> QED
  BY <1>2, <1>4, <1>5, <1>6, <1>7, <1>8 DEF Next

LEMMA PanicStep == IInv /\ [Next]_vars => OnlySignalsPanic'
<1> SUFFICES ASSUME IInv, [Next]_vars PROVE OnlySignalsPanic'
  OBVIOUS
<1>0. Wired /\ panicked \subseteq Signals
  BY DEF IInv, OnlySignalsPanic
<1>1. CASE \E g \in Adders : SendPanics(g)
  BY <1>0, <1>1, OthersFindTheHub DEF SendPanics, OnlySignalsPanic
<1>2. CASE UNCHANGED panicked
  BY <1>0, <1>2 DEF OnlySignalsPanic
<1>3. (\E g \in Adders : SendPanics(g)) \/ UNCHANGED panicked
  BY DEF Next, Add, StartRPC, RunStarts, Listen, Begin, AppendEvent, NoEvent,
         Send, Unparsed, Lock, Unlock, Status, View, ViewDone, ViewStalls, vars
<1> QED
  BY <1>1, <1>2, <1>3

LEMMA WiredStep ==
    ASSUME CallsStartRPC
    PROVE  IInv /\ [Next]_vars => Wired'
<1> SUFFICES ASSUME IInv, [Next]_vars PROVE Wired'
  OBVIOUS
<1>0. TypeOK /\ Wired /\ Adders \subseteq Threads
  BY DEF IInv, TInv, Threads
<1>1. ASSUME NEW g \in Threads, NEW from, NEW to \in Places,
             Move(g, from, to), UNCHANGED main,
             from # "idle" \/ g \in Signals \/ serving
      PROVE  Wired'
  <2>1. pc[g] # "idle" \/ g \in Signals \/ serving
    BY <1>1 DEF Move
  <2>2. \A h \in Threads \ Signals : pc[h] # "idle" \/ h = g => serving
    BY <1>0, <2>1 DEF Wired
  <2>3. \A h \in Threads : h # g => pc'[h] = pc[h]
    BY <1>0, <1>1, MoveType
  <2> QED
    BY <1>0, <1>1, <2>2, <2>3 DEF Wired, main
<1>2. CASE StartRPC \/ RunStarts \/ Listen
  BY <1>0, <1>2 DEF StartRPC, RunStarts, Listen, Wired
<1>3. ASSUME NEW g \in Threads, Begin(g) PROVE Wired'
  <2> DEFINE to == IF g \in Requests \cup Statuses THEN "lock" ELSE "append"
  <2>1. Move(g, "idle", to) /\ to \in Places /\ UNCHANGED main
        /\ (g \in Signals \/ serving)
    BY <1>3 DEF Begin, Places, Active
  <2> HIDE DEF to
  <2> QED
    BY <1>1, <2>1
<1>4. ASSUME NEW g \in Adders, Add(g) PROVE Wired'
  <2>1. CASE AppendEvent(g)
    BY <1>0, <1>1, <2>1 DEF AppendEvent, Places
  <2>2. CASE NoEvent(g)
    BY <1>0, <1>1, <2>2 DEF NoEvent, Places
  <2>3. CASE Send(g)
    BY <1>0, <1>1, <2>3 DEF Send, Places
  <2>4. CASE Unparsed(g)
    BY <1>0, <1>1, <2>4 DEF Unparsed, Places
  <2>5. CASE SendPanics(g)
    BY <1>0, <1>1, <2>5 DEF SendPanics, Places
  <2> QED
    BY <1>0, <1>3, <1>4, <2>1, <2>2, <2>3, <2>4, <2>5 DEF Add
<1>5. ASSUME NEW r \in Requests, Lock(r) \/ Unlock(r) PROVE Wired'
  <2>1. r \in Threads
    BY DEF Threads, Adders
  <2> QED
    BY <1>1, <1>5, <2>1 DEF Lock, Unlock, Places
<1>6. ASSUME NEW s \in Statuses, Begin(s) \/ Status(s) PROVE Wired'
  <2>1. s \in Threads
    BY DEF Threads
  <2> QED
    BY <1>1, <1>3, <1>6, <2>1 DEF Status, Places
<1>7. ASSUME NEW v \in Viewers, View(v) \/ ViewDone(v) \/ ViewStalls(v)
      PROVE  Wired'
  <2>1. v \in Threads
    BY DEF Threads
  <2> QED
    BY <1>1, <1>7, <2>1 DEF View, ViewDone, ViewStalls, Places
<1>8. CASE UNCHANGED vars
  BY <1>0, <1>8 DEF vars, main, Wired
<1> QED
  BY <1>2, <1>4, <1>5, <1>6, <1>7, <1>8 DEF Next

LEMMA HeldStep == IInv /\ [Next]_vars => Held'
<1> SUFFICES ASSUME IInv, [Next]_vars PROVE Held'
  OBVIOUS
<1> DEFINE Inside == {"append", "send", "unlock"}
<1>0. TypeOK /\ Held /\ Adders \subseteq Threads /\ Requests \subseteq Threads
  BY DEF IInv, TInv, Threads, Adders
<1>1. ASSUME NEW g \in Threads, NEW from, NEW to \in Places,
             Move(g, from, to), UNCHANGED pool,
             g \in Requests /\ to \in Inside => from \in Inside
      PROVE  Held'
  <2>1. pc[g] = from /\ pc'[g] = to
        /\ \A h \in Threads : h # g => pc'[h] = pc[h]
    BY <1>0, <1>1, MoveType
  <2>2. \A r \in Requests : pc'[r] \in Inside => pc[r] \in Inside
    BY <1>0, <1>1, <2>1
  <2> QED
    BY <1>0, <1>1, <2>2 DEF Held
<1> HIDE DEF Inside
<1>2. CASE StartRPC \/ RunStarts \/ Listen
  BY <1>0, <1>2 DEF StartRPC, RunStarts, Listen, Held
<1>3. ASSUME NEW g \in Threads, Begin(g) PROVE Held'
  <2> DEFINE to == IF g \in Requests \cup Statuses THEN "lock" ELSE "append"
  <2>1. Move(g, "idle", to) /\ to \in Places /\ UNCHANGED pool
        /\ (g \in Requests => to \notin Inside)
    BY <1>3 DEF Begin, Places, Inside
  <2> HIDE DEF to
  <2> QED
    BY <1>1, <2>1
<1>4. ASSUME NEW g \in Adders, Add(g) PROVE Held'
  <2>1. CASE AppendEvent(g)
    BY <1>0, <1>1, <2>1 DEF AppendEvent, Places, Inside
  <2>2. CASE NoEvent(g)
    BY <1>0, <1>1, <2>2 DEF NoEvent, Places, Inside
  <2>3. CASE Send(g)
    BY <1>0, <1>1, <2>3 DEF Send, Places, Inside
  <2>4. CASE Unparsed(g)
    BY <1>0, <1>1, <2>4 DEF Unparsed, Places, Inside
  <2>5. CASE SendPanics(g)
    BY <1>0, <1>1, <2>5 DEF SendPanics, Places, Inside
  <2> QED
    BY <1>0, <1>3, <1>4, <2>1, <2>2, <2>3, <2>4, <2>5 DEF Add
<1>5. ASSUME NEW r \in Requests, Lock(r) PROVE Held'
  <2>1. pool = None /\ pool' = r /\ \A h \in Threads : h # r => pc'[h] = pc[h]
    BY <1>0, <1>5, MoveType DEF Lock, Places
  <2> QED
    BY <1>0, <2>1, EventPathAssumption DEF Held
<1>6. ASSUME NEW r \in Requests, Unlock(r) PROVE Held'
  <2>1. pc[r] = "unlock" /\ pc'[r] = "idle"
        /\ \A h \in Threads : h # r => pc'[h] = pc[h]
    BY <1>0, <1>6, MoveType DEF Unlock, Places
  <2> QED
    BY <1>0, <2>1 DEF Held
<1>7. ASSUME NEW s \in Statuses, Begin(s) \/ Status(s) PROVE Held'
  <2>1. s \in Threads
    BY DEF Threads
  <2> QED
    BY <1>1, <1>3, <1>7, <2>1 DEF Status, Places, Inside
<1>8. ASSUME NEW v \in Viewers, View(v) \/ ViewDone(v) \/ ViewStalls(v)
      PROVE  Held'
  <2>1. v \in Threads /\ v \notin Requests
    BY EventPathAssumption DEF Threads
  <2> QED
    BY <1>1, <1>8, <2>1 DEF View, ViewDone, ViewStalls, Places
<1>9. CASE UNCHANGED vars
  BY <1>0, <1>9 DEF vars, Held
<1> QED
  BY <1>2, <1>4, <1>5, <1>6, <1>7, <1>8, <1>9 DEF Next

LEMMA SpecInv ==
    ASSUME CallsStartRPC
    PROVE  Spec => []IInv
<1>1. IInv /\ [Next]_vars => IInv'
  BY TypeStep, WiredStep, HeldStep, PanicStep, BookStep DEF IInv
<1> QED
  BY <1>1, InitInv, PTL DEF Spec

(* Where main calls StartRPC, nobody but the goroutine of a signal that     *)
(* comes before it sends to the missing hub, and no request or output of an *)
(* app ever panics (main_darwin.go:127-146, 190-191).                       *)
THEOREM HubBeforeServers ==
    ASSUME CallsStartRPC
    PROVE  Spec => []OnlySignalsPanic
<1>1. IInv => OnlySignalsPanic
  BY DEF IInv
<1> QED
  BY <1>1, SpecInv, PTL

(* Every event of the ring is sent once, dropped as no JSON, or in hand     *)
(* (events.go:33-34).                                                       *)
THEOREM EveryEventCounted ==
    ASSUME CallsStartRPC
    PROVE  Spec => []NothingLost
<1>1. IInv => NothingLost
  BY DEF IInv, Book
<1> QED
  BY <1>1, SpecInv, PTL

(* The events of lookups, and those of one goroutine, reach the hub in the  *)
(* order of the ring (app.go:456-471).                                      *)
THEOREM LookupsKeepOrder ==
    ASSUME CallsStartRPC
    PROVE  Spec => []LookupOrder
<1>1. IInv => LookupOrder
  BY DEF IInv, Book
<1> QED
  BY <1>1, SpecInv, PTL
==============================================================================
