----------------------------- MODULE WatchProofs -----------------------------
(***************************************************************************)
(* Theorems about Watch, for any number of files and any times.            *)
(*                                                                         *)
(* The time of restart.txt may go back as well as forward, so what has to  *)
(* be shown of a file newer than lastStat is that the user wrote it        *)
(* (Written), when (Early), and that a watcher that has lost its file has  *)
(* been notified of that or been fooled by the time of what came (Deaf).   *)
(***************************************************************************)
EXTENDS Watch, TLAPS

(* A file newer than lastStat was written by the user.                      *)
Written == pc \in {"add", "select", "check"} /\ Newer => written

(* If the watcher is not registered yet, that was before the registration.  *)
Early == pc = "add" /\ Newer => early

(* The inode that is watched is restart.txt no more.                        *)
Replaced == ~byPath /\ (watched # file \/ file = None)

(* The notification of that is to come, or has made the app restart, or the *)
(* time of the new file did not tell it from the old one.                   *)
Deaf ==
    /\ Listening /\ Replaced /\ file # None => Newer \/ swapped
    /\ pc = "select" /\ Replaced /\ ~event => called \/ swapped

IInv == TypeOK /\ Written /\ Early /\ Deaf /\ OnlyEarlyTouchesAreLost

(* What a write leaves behind.                                              *)
Stamped ==
    /\ mtime' \in 0..MaxTime
    /\ file' \in Files /\ file' # None
    /\ file' \in used' /\ used \subseteq used' /\ used' \in SUBSET Files
    /\ file' = file \/ file' \notin used

LEMMA PutFacts ==
    ASSUME TypeOK, NEW f, NEW t \in 0..MaxTime, Put(f, t)
    PROVE  Stamped
BY WatchAssumption DEF TypeOK, Put, Stamped

LEMMA NotifyFacts ==
    ASSUME TypeOK, file' \in used' \cup {None}, used \subseteq used', Notify
    PROVE  /\ event' \in BOOLEAN /\ watched' \in used' \cup {None}
           /\ watched' = watched \/ watched' = None
           /\ ~Listening => event' = event
BY DEF TypeOK, Notify, Heard

LEMMA InitInv == Init => IInv
<1> SUFFICES ASSUME Init PROVE IInv
  OBVIOUS
<1>1. TypeOK
  <2>1. file \in used \cup {None} /\ used \in SUBSET Files
    BY WatchAssumption DEF Init
  <2>2. byPath \in Systems /\ mtime \in 0..MaxTime
        /\ pc \in Steps /\ lastStat \in 0..MaxTime
    BY WatchAssumption DEF Init, Steps
  <2>3. watched = None /\ event = FALSE /\ dying = FALSE /\ called = FALSE
        /\ written = FALSE /\ early = FALSE /\ swapped = FALSE /\ owed = FALSE
    BY DEF Init
  <2> QED
    BY <2>1, <2>2, <2>3, Zenon DEF TypeOK
<1>2. Written /\ Early /\ Deaf /\ OnlyEarlyTouchesAreLost
  BY DEF Init, Written, Early, Deaf, OnlyEarlyTouchesAreLost, Listening
<1> QED
  BY <1>1, <1>2 DEF IInv

LEMMA TypeStep == TypeOK /\ [Next]_vars => TypeOK'
<1> SUFFICES ASSUME TypeOK, [Next]_vars PROVE TypeOK'
  OBVIOUS
<1> USE WatchAssumption
<1> USE DEF TypeOK, Steps, Listening, fileVars, world, monitorVars, history
<1>1. ASSUME NEW f \in Files, NEW t \in 0..MaxTime, Write(f, t) PROVE TypeOK'
  <2>1. Stamped
    BY <1>1, PutFacts DEF Write
  <2>2. /\ event' \in BOOLEAN /\ watched' \in used' \cup {None}
        /\ watched' = watched \/ watched' = None
        /\ ~Listening => event' = event
    BY <1>1, <2>1, NotifyFacts DEF Write, Stamped
  <2>3. /\ UNCHANGED <<byPath, pc, lastStat, dying, called>>
        /\ written' \in BOOLEAN /\ early' \in BOOLEAN /\ swapped' \in BOOLEAN
        /\ owed' \in BOOLEAN
    BY <1>1, Zenon DEF Write
  <2> QED
    BY <2>1, <2>2, <2>3 DEF Stamped
<1>2. CASE Attrib
  BY <1>2 DEF Attrib, Heard
<1>3. CASE Remove
  <2>1. UNCHANGED <<byPath, mtime, used, pc, lastStat, dying, called, written,
                    early, swapped, owed>> /\ file' = None
    BY <1>3 DEF Remove
  <2>2. /\ event' \in BOOLEAN /\ watched' \in used' \cup {None}
        /\ watched' = watched \/ watched' = None
        /\ ~Listening => event' = event
    BY <1>3, <2>1, NotifyFacts DEF Remove
  <2> QED
    BY <2>1, <2>2
<1>4. CASE Create
  <2>1. Stamped /\ pc' = "stat" /\ watched = None /\ ~event
    BY <1>4, PutFacts DEF Create
  <2>2. UNCHANGED <<byPath, lastStat, dying, called, watched, event, early,
                    swapped, owed>> /\ written' = FALSE
    BY <1>4 DEF Create
  <2> QED
    BY <2>1, <2>2 DEF Stamped
<1>5. CASE Stat
  BY <1>5 DEF Stat
<1>6. CASE Add
  BY <1>6 DEF Add
<1>7. CASE Receive
  BY <1>7 DEF Receive
<1>8. CASE Check
  <2>1. called' \in BOOLEAN
    BY <1>8, Zenon DEF Check
  <2> QED
    BY <1>8, <2>1 DEF Check
<1>9. CASE Fail \/ CheckFails \/ Done
  BY <1>9 DEF Fail, CheckFails, Done, Return
<1>10. CASE Die
  BY <1>10 DEF Die
<1>11. CASE UNCHANGED vars
  BY <1>11 DEF vars
<1> QED
  BY <1>1, <1>2, <1>3, <1>4, <1>5, <1>6, <1>7, <1>8, <1>9, <1>10, <1>11
  DEF Next, User, Monitor

LEMMA StepInv ==
    IInv /\ [Next]_vars =>
       Written' /\ Early' /\ Deaf' /\ OnlyEarlyTouchesAreLost'
<1> SUFFICES ASSUME IInv, [Next]_vars
             PROVE  Written' /\ Early' /\ Deaf' /\ OnlyEarlyTouchesAreLost'
  OBVIOUS
<1> USE WatchAssumption
<1> USE DEF IInv, TypeOK, Steps, Listening, fileVars, world, monitorVars,
        history, Written, Early, Deaf, Replaced, Newer,
        OnlyEarlyTouchesAreLost
<1>1. ASSUME NEW f \in Files, NEW t \in 0..MaxTime, Write(f, t)
      PROVE  Written' /\ Early' /\ Deaf' /\ OnlyEarlyTouchesAreLost'
  <2>1. Stamped /\ file' = f /\ mtime' = t /\ written' = TRUE
    BY <1>1, PutFacts DEF Write, Put
  <2>2. UNCHANGED <<byPath, pc, lastStat, dying, called>>
    BY <1>1 DEF Write
  <2>3. early' = (pc = "add")
    BY <1>1 DEF Write
  <2>4. swapped' = \/ swapped
                   \/ Listening /\ ~byPath /\ watched # f /\ t <= lastStat
    BY <1>1 DEF Write
  <2>5. /\ event' = (event \/ Heard)
        /\ watched' = IF byPath \/ watched = f THEN watched ELSE None
    BY <1>1, <2>1 DEF Write, Notify
  <2>6. Written'
    BY <2>1
  <2>7. Early'
    BY <2>2, <2>3
  <2>8. ~byPath /\ watched' # f => watched # f
    BY <2>5
  <2>9. Listening /\ Replaced' => Newer' \/ swapped'
    BY <2>1, <2>2, <2>4, <2>8
  <2>10. pc = "select" /\ ~event' => ~event /\ Replaced
    BY <2>5 DEF Heard
  <2>11. pc = "select" /\ ~event' => called \/ swapped'
    BY <2>4, <2>10
  <2>12. Deaf'
    BY <2>1, <2>2, <2>9, <2>11
  <2>13. OnlyEarlyTouchesAreLost'
    BY <2>2, <2>10, <2>11
  <2> QED
    BY <2>6, <2>7, <2>12, <2>13
<1>2. CASE Attrib
  BY <1>2 DEF Attrib, Heard
<1>3. CASE Remove
  BY <1>3 DEF Remove, Notify, Heard
<1>4. CASE Create
  BY <1>4 DEF Create
<1>5. CASE Stat
  BY <1>5 DEF Stat
<1>6. CASE Add
  BY <1>6 DEF Add
<1>7. CASE Receive
  BY <1>7 DEF Receive
<1>8. CASE Check
  BY <1>8 DEF Check
<1>9. CASE Fail \/ CheckFails \/ Done
  BY <1>9 DEF Fail, CheckFails, Done, Return
<1>10. CASE Die
  BY <1>10 DEF Die
<1>11. CASE UNCHANGED vars
  BY <1>11 DEF vars
<1> QED
  BY <1>1, <1>2, <1>3, <1>4, <1>5, <1>6, <1>7, <1>8, <1>9, <1>10, <1>11
  DEF Next, User, Monitor

LEMMA SpecInv == Spec => []IInv
<1>1. IInv /\ [Next]_vars => IInv'
  BY TypeStep, StepInv DEF IInv
<1> QED
  BY <1>1, InitInv, PTL DEF Spec

(* The monitor and the file keep their types; nothing is notified before    *)
(* there is a watcher.                                                      *)
THEOREM TypeCorrect == Spec => []TypeOK
<1>1. IInv => TypeOK
  BY DEF IInv
<1> QED
  BY <1>1, SpecInv, PTL

(* A write of restart.txt is only overlooked in the gap between the first   *)
(* Stat and the registration, or by inotify after another file that was no  *)
(* newer took the place of the watched one (watch_linux.go:10-37).          *)
THEOREM OthersAreSeen == Spec => []OnlyEarlyTouchesAreLost
<1>1. IInv => OnlyEarlyTouchesAreLost
  BY DEF IInv
<1> QED
  BY <1>1, SpecInv, PTL

(* No app is told to restart unless the user wrote the file after           *)
(* puma-dev's own os.Create (app.go:185-191, watch_linux.go:35).            *)
THEOREM RestartsAreAsked == Spec => NoSpuriousRestart
<1>1. IInv /\ [Next]_vars => [~called /\ called' => written]_vars
  <2> SUFFICES ASSUME IInv, Next, ~called, called' PROVE written
    OBVIOUS
  <2>1. CASE Check
    BY <2>1 DEF Check, IInv, Written
  <2>2. UNCHANGED called \/ Check
    BY DEF Next, User, Monitor, Write, Attrib, Remove, Create, Stat, Add, Fail,
           Receive, CheckFails, Done, Die, Return, monitorVars
  <2> QED
    BY <2>1, <2>2
<1> QED
  BY <1>1, SpecInv, PTL DEF Spec, NoSpuriousRestart
==============================================================================
