--------------------------- MODULE AppPoolMapProofs ---------------------------
(***************************************************************************)
(* What becomes of the entries of AppPool's map, for any number of hosts,  *)
(* launches and requests.                                                  *)
(*                                                                         *)
(* The map changes in three ways only: remove takes an app out, wherever   *)
(* it is, after somebody has signalled it; maybeIdle takes out whatever is *)
(* under a name; and lookupApp enters an app under names that were free,   *)
(* or led to it already, when it looked, and still are since it has held   *)
(* the lock (Entering).  So whatever goes wrong with an alias or an entry  *)
(* is the doing of maybeIdle, and `cut' names the apps it was done to.     *)
(***************************************************************************)
EXTENDS AppPoolProofs

(* While an app is launched, its names are free.                            *)
Entering ==
    \A r \in Reqs : rpc[r] = "launch" =>
        apps[host[r]] = None /\ apps[Canonical[host[r]]] = None

MapInv == StopInv /\ Entering

------------------------------------------------------------------------------
(* The changes of the map.                                                  *)

Removal == \E a \in Apps : LockFree /\ termed[a] /\ apps' = Without(a)

Idling == \E a \in Apps : IdleTick(a)

Entry == \E h \in Hosts, a \in Apps :
            /\ apps[h] = None
            /\ apps[Canonical[h]] \in {None, a}
            /\ apps' = Entered(h, a)

LEMMA MapChange ==
    ASSUME MapInv, [Next]_vars
    PROVE  UNCHANGED apps \/ Removal \/ Idling \/ Entry
<1> USE NamesFacts
<1> USE DEF MapInv, StopInv, IInv, TypeOK, Launching, poolVars, callers, rest,
            reqVars
<1>1. CASE Quiet
  BY <1>1, QuietStep
<1>2. ASSUME NEW a \in Apps, Watch(a) PROVE UNCHANGED apps \/ Removal
  <2>1. CASE WatchKillRemove(a)
    BY <2>1 DEF WatchKillRemove, Step, Remove, Removal, Stopping
  <2>2. CASE WatchRemove(a)
    BY <2>2 DEF WatchRemove, Step, Remove, Removal, Stopping
  <2> QED
    BY <1>2, <2>1, <2>2
    DEF Watch, WatchEOF, WatchDying, WatchSignal, WatchWait, WatchReturn
<1>3. ASSUME NEW a \in Apps, Idle(a)
      PROVE  UNCHANGED apps \/ Removal \/ Idling
  <2>1. CASE IdleRemove(a)
    BY <2>1 DEF IdleRemove, Return, Step, Remove, Removal, Stopping
  <2> QED
    BY <1>3, <2>1 DEF Idle, Idling, IdleSignal, IdleDying
<1>4. ASSUME NEW a \in Apps, Restart(a) PROVE UNCHANGED apps \/ Removal
  <2>1. CASE RestartRemove(a)
    BY <2>1 DEF RestartRemove, Step, Remove, Removal, Stopping
  <2> QED
    BY <1>4, <2>1 DEF Restart, RestartCreate, RestartTouched, RestartDying
<1>5. ASSUME NEW a \in Apps, \/ RestartStatFails(a) \/ Poll(a)
                             \/ ProxyDying(a)
      PROVE  UNCHANGED apps
  BY <1>5 DEF RestartStatFails, Poll, PollDial, PollDying, ProxyDying
<1>6. ASSUME NEW r \in Reqs, Lookup(r) PROVE UNCHANGED apps \/ Entry
  <2>1. CASE LookupShared(r)
    BY <2>1 DEF LookupShared, Entry
  <2>2. CASE Publish(r)
    BY <2>2 DEF Publish, Entry, Entering
  <2>3. ASSUME NEW a \in Apps, ReadProxy(r, a) PROVE Entry
    BY <2>3 DEF ReadProxy, Missing, Entry
  <2> QED
    BY <1>6, <2>1, <2>2, <2>3 DEF Lookup, LookupHit, LookupFails, LaunchApp
<1>7. ASSUME NEW r \in Reqs, \/ \E h \in Hosts : Arrive(r, h)
                             \/ Wait(r) \/ Proxied(r)
      PROVE  UNCHANGED apps
  BY <1>7 DEF Arrive, Wait, WaitReady, WaitDying, Proxied
<1>8. CASE UNCHANGED vars
  BY <1>8 DEF vars
<1> QED
  BY StepCases, <1>1, <1>2, <1>3, <1>4, <1>5, <1>6, <1>7, <1>8
  DEF Monitors, Requests

(* Only a lookup that found its names free begins a launch, and the map     *)
(* stays as it is until the launch ends, since its request has the lock.    *)
LEMMA LaunchStep ==
    ASSUME MapInv, [Next]_vars, NEW r \in Reqs, rpc'[r] = "launch"
    PROVE  \/ \E a \in Apps : LaunchApp(r, a)
           \/ rpc[r] = "launch" /\ UNCHANGED <<apps, host[r]>>
<1> USE NamesFacts
<1> USE DEF MapInv, StopInv, IInv, TypeOK, Launching, poolVars, callers, rest,
            reqVars
<1>1. CASE Quiet
  BY <1>1, QuietStep
<1>2. CASE Monitors
  BY <1>2, MonitorStep DEF MonitorEffect, LockFree
<1>3. ASSUME NEW a \in Apps, Watch(a)
      PROVE  UNCHANGED reqVars /\ (LockFree \/ UNCHANGED apps)
  BY <1>3 DEF Watch, WatchEOF, WatchDying, WatchSignal, WatchKillRemove,
              WatchWait, WatchRemove, WatchReturn, Remove
<1>4. ASSUME NEW q \in Reqs, NEW h \in Hosts, Arrive(q, h)
      PROVE  rpc[r] = "launch" /\ UNCHANGED <<apps, host[r]>>
  BY <1>4 DEF Arrive
<1>5. ASSUME NEW q \in Reqs, LookupHit(q) \/ LookupShared(q) \/ LookupFails(q)
      PROVE  FALSE
  BY <1>5 DEF LookupHit, LookupShared, LookupFails, Missing, Got, LockFree
<1>6. ASSUME NEW q \in Reqs, NEW a \in Apps, LaunchApp(q, a)
      PROVE  q = r
  BY <1>6 DEF LaunchApp, Missing, LockFree
<1>7. ASSUME NEW q \in Reqs, Publish(q) PROVE FALSE
  BY <1>7 DEF Publish, Got
<1>8. ASSUME NEW q \in Reqs, NEW a \in Apps, ReadProxy(q, a) PROVE FALSE
  BY <1>8 DEF ReadProxy, Missing, Got, LockFree
<1>9. ASSUME NEW q \in Reqs, Wait(q) \/ Proxied(q)
      PROVE  rpc[r] = "launch" /\ UNCHANGED <<apps, host[r]>>
  <2>1. CASE WaitReady(q)
    BY <2>1 DEF WaitReady
  <2>2. CASE WaitDying(q) /\ reason[rapp[q]] = "nil"
    BY <2>2 DEF WaitDying, Answered
  <2>3. CASE WaitDying(q) /\ reason[rapp[q]] = "err"
    BY <2>3 DEF WaitDying, Answered
  <2>4. CASE Proxied(q)
    BY <2>4 DEF Proxied, Answered
  <2> QED
    BY <1>9, <2>1, <2>2, <2>3, <2>4 DEF Wait, WaitDying
<1>10. CASE UNCHANGED vars
  BY <1>10 DEF vars
<1> QED
  BY StepCases, <1>1, <1>2, <1>3, <1>4, <1>5, <1>6, <1>7, <1>8, <1>9, <1>10
  DEF Requests, Lookup, LockFree

LEMMA EnteringStep == MapInv /\ [Next]_vars => Entering'
<1> SUFFICES ASSUME MapInv, [Next]_vars, NEW r \in Reqs, rpc'[r] = "launch"
             PROVE  apps'[host'[r]] = None /\ apps'[Canonical[host'[r]]] = None
  BY DEF Entering
<1>1. CASE \E a \in Apps : LaunchApp(r, a)
  BY <1>1 DEF LaunchApp, Missing
<1>2. CASE rpc[r] = "launch" /\ UNCHANGED <<apps, host[r]>>
  BY <1>2 DEF MapInv, Entering
<1> QED
  BY LaunchStep, <1>1, <1>2

LEMMA SpecMapInv == Spec => []MapInv
<1>1. Init => MapInv
  BY InitIInv DEF Init, MapInv, StopInv, Stopping, Entering, Unreaped, Threads
<1>2. MapInv /\ [Next]_vars => MapInv'
  BY TypeStep, LaunchingStep, UnlaunchedStep, WithdrawnStep,
     StoppingStep, EnteringStep
  DEF MapInv, StopInv, IInv
<1> QED
  BY <1>1, <1>2, PTL DEF Spec

------------------------------------------------------------------------------
(* What no step undoes.                                                     *)

(* A step of another goroutine is none of the idle monitor.                 *)
LEMMA IdleWaits ==
    ASSUME TypeOK, NEW a \in Apps, NEW b \in Apps,
           NEW t \in Threads \ {"idle"}, NEW from, NEW to,
           Step(b, t, from, to)
    PROVE  pc'[a]["idle"] = pc[a]["idle"]
BY DEF Step, TypeOK, Threads

(* An app that lost its entry to another one's idle monitor stays so.       *)
LEMMA CutGrows ==
    ASSUME [Next]_vars
    PROVE  cut \subseteq cut'
<1> USE DEF callers, rest
<1>1. ASSUME NEW a \in Apps, Process(a) \/ ReaderEOF(a)
      PROVE  cut \subseteq cut'
  BY <1>1 DEF Process, Boot, Exit, TimePasses, ReaderEOF
<1>2. ASSUME NEW a \in Apps, Watch(a) PROVE cut \subseteq cut'
  BY <1>2 DEF Watch, WatchEOF, WatchDying, WatchSignal, WatchKillRemove,
              WatchWait, WatchRemove, WatchReturn
<1>3. ASSUME NEW a \in Apps, Idle(a) PROVE cut \subseteq cut'
  BY <1>3 DEF Idle, IdleTick, MaybeIdle, IdleSignal, IdleRemove, IdleDying
<1>4. ASSUME NEW a \in Apps, Restart(a) \/ RestartStatFails(a)
      PROVE  cut \subseteq cut'
  BY <1>4 DEF Restart, RestartCreate, RestartTouched, RestartRemove,
              RestartDying, RestartStatFails
<1>5. ASSUME NEW a \in Apps, Poll(a) \/ ProxyDying(a) PROVE cut \subseteq cut'
  BY <1>5 DEF Poll, PollDial, PollDying, ProxyDying
<1>6. ASSUME NEW d \in Dirs, Touch(d) PROVE cut \subseteq cut'
  BY <1>6 DEF Touch
<1>7. CASE Requests
  BY <1>7 DEF Requests, Arrive, Lookup, LookupHit, LookupShared, LookupFails,
              LaunchApp, ReadProxy, Publish, Wait, WaitReady, WaitDying,
              Proxied
<1>8. CASE Purge
  BY <1>8 DEF Purge, PurgeSnapshot, PurgeKill, PurgeDone
<1>9. CASE UNCHANGED vars
  BY <1>9 DEF vars
<1> QED
  BY StepCases, <1>1, <1>2, <1>3, <1>4, <1>5, <1>6, <1>7, <1>8, <1>9
  DEF Quiet, Monitors

(* A step neither renames an app that has been launched nor takes back its  *)
(* signal; an idle monitor that decided to stop its app signals it, or      *)
(* finds that it is gone; and only Publish ends a launch.                   *)
Carried(a) ==
    /\ key'[a] = key[a]
    /\ termed[a] => termed'[a]
    /\ pc[a]["idle"] = "signal" => termed'[a] \/ pc'[a]["idle"] = "signal"
    /\ pc[a]["idle"] \in {"signal", "remove"} =>
          \/ pc'[a]["idle"] \in {"signal", "remove"}
          \/ \A n \in Names : apps'[n] # a
    /\ \A r \in Reqs : rpc[r] = "launch" /\ rapp[r] = a =>
          \/ rpc'[r] = "launch" /\ rapp'[r] = a
          \/ Publish(r)

LEMMA CarriedStep ==
    ASSUME MapInv, [Next]_vars, NEW a \in Apps
    PROVE  \/ Carried(a)
           \/ \E r \in Reqs : LaunchApp(r, a) \/ ReadProxy(r, a)
<1> USE NamesFacts
<1> USE DEF MapInv, StopInv, IInv, TypeOK, Launching, Unlaunched, Threads,
            Carried, poolVars, procVars, tombVars, callers, rest, reqVars
<1>1. ASSUME NEW b \in Apps, Process(b) \/ ReaderEOF(b) PROVE Carried(a)
  BY <1>1 DEF Process, Boot, Exit, TimePasses, ReaderEOF
<1>2. ASSUME NEW d \in Dirs, Touch(d) PROVE Carried(a)
  BY <1>2 DEF Touch
<1>3. CASE Purge
  BY <1>3 DEF Purge, PurgeSnapshot, PurgeKill, PurgeDone
<1>4. ASSUME NEW b \in Apps, Watch(b) PROVE Carried(a)
  <2>1. pc'[a]["idle"] = pc[a]["idle"]
    BY <1>4, IdleWaits
    DEF Watch, WatchEOF, WatchDying, WatchSignal, WatchKillRemove, WatchWait,
        WatchRemove, WatchReturn, Return
  <2>2. CASE WatchSignal(b)
    BY <2>1, <2>2 DEF WatchSignal, Terminate
  <2>3. CASE WatchWait(b)
    BY <2>1, <2>3 DEF WatchWait
  <2> QED
    BY <1>4, <2>1, <2>2, <2>3
    DEF Watch, WatchEOF, WatchDying, WatchKillRemove, WatchRemove, WatchReturn
<1>5. ASSUME NEW b \in Apps, Idle(b) PROVE Carried(a)
  <2>1. CASE IdleTick(b)
    BY <2>1 DEF IdleTick, Step
  <2>2. CASE IdleSignal(b) /\ Terminate(b)
    BY <2>2 DEF IdleSignal, Step, Terminate
  <2>3. CASE IdleSignal(b) /\ SignalFails(b)
    <3>1. termed[b] /\ \A n \in Names : apps[n] # b
      BY <2>3 DEF SignalFails, Withdrawn, Unreaped, Stopping, Steps
    <3> QED
      BY <2>3, <3>1 DEF IdleSignal, Return, Step, Terminate, SignalFails
  <2>4. CASE IdleRemove(b)
    BY <2>4 DEF IdleRemove, Remove, Without, Return, Step
  <2>5. CASE IdleDying(b)
    BY <2>5 DEF IdleDying, Return, Step
  <2> QED
    BY <1>5, <2>1, <2>2, <2>3, <2>4, <2>5 DEF Idle, IdleSignal
<1>6. ASSUME NEW b \in Apps, Restart(b) \/ RestartStatFails(b)
      PROVE  Carried(a)
  <2>1. CASE RestartCreate(b)
    <3>1. pc'[a]["idle"] = pc[a]["idle"]
      BY <2>1, IdleWaits DEF RestartCreate, Return
    <3> QED
      BY <2>1, <3>1 DEF RestartCreate
  <2>2. CASE RestartTouched(b)
    <3>1. pc'[a]["idle"] = pc[a]["idle"]
      BY <2>2, IdleWaits DEF RestartTouched
    <3> QED
      BY <2>2, <3>1 DEF RestartTouched, Terminate
  <2>3. CASE RestartRemove(b)
    BY <2>3 DEF RestartRemove, Step
  <2>4. CASE RestartDying(b) \/ RestartStatFails(b)
    BY <2>4 DEF RestartDying, RestartStatFails, Return, Step
  <2> QED
    BY <1>6, <2>1, <2>2, <2>3, <2>4 DEF Restart
<1>7. ASSUME NEW b \in Apps, Poll(b) \/ ProxyDying(b) PROVE Carried(a)
  <2>1. pc'[a]["idle"] = pc[a]["idle"]
    BY <1>7, IdleWaits DEF Poll, PollDial, PollDying, ProxyDying, Return
  <2> QED
    BY <1>7, <2>1 DEF Poll, PollDial, PollDying, ProxyDying
<1>8. ASSUME NEW r \in Reqs, NEW h \in Hosts, Arrive(r, h) PROVE Carried(a)
  BY <1>8 DEF Arrive
<1>9. ASSUME NEW r \in Reqs, Lookup(r)
      PROVE  \/ Carried(a)
             \/ LaunchApp(r, a) \/ ReadProxy(r, a)
  <2>1. CASE LookupHit(r) \/ LookupShared(r) \/ LookupFails(r)
    BY <2>1 DEF LookupHit, LookupShared, LookupFails, Missing, Got
  <2>2. ASSUME NEW b \in Apps, b # a, LaunchApp(r, b) PROVE Carried(a)
    BY <2>2 DEF LaunchApp, Missing, LockFree
  <2>3. CASE Publish(r)
    <3>1. \A q \in Reqs : rpc[q] = "launch" => q = r
      BY <2>3 DEF Publish
    <3>2. UNCHANGED <<key, termed>>
      BY <2>3 DEF Publish
    <3>3. /\ rapp[r] \in Apps /\ pc[rapp[r]]["idle"] = "off"
          /\ a # rapp[r] => pc'[a] = pc[a]
      BY <2>3, PublishStarts DEF Publish
    <3> QED
      BY <2>3, <3>1, <3>2, <3>3
  <2>4. ASSUME NEW b \in Apps, b # a, ReadProxy(r, b) PROVE Carried(a)
    BY <2>4 DEF ReadProxy, Missing, LockFree, Got
  <2> QED
    BY <1>9, <2>1, <2>2, <2>3, <2>4 DEF Lookup
<1>10. ASSUME NEW r \in Reqs, Wait(r) \/ Proxied(r) PROVE Carried(a)
  <2>1. CASE WaitReady(r)
    BY <2>1 DEF WaitReady
  <2>2. CASE WaitDying(r) /\ reason[rapp[r]] = "nil"
    BY <2>2 DEF WaitDying, Answered
  <2>3. CASE WaitDying(r) /\ reason[rapp[r]] = "err"
    BY <2>3 DEF WaitDying, Answered
  <2>4. CASE Proxied(r)
    BY <2>4 DEF Proxied, Answered
  <2> QED
    BY <1>10, <2>1, <2>2, <2>3, <2>4 DEF Wait, WaitDying
<1>11. CASE UNCHANGED vars
  BY <1>11 DEF vars
<1> QED
  BY StepCases, <1>1, <1>2, <1>3, <1>4, <1>5, <1>6, <1>7, <1>8, <1>9, <1>10,
     <1>11
  DEF Quiet, Monitors, Requests

------------------------------------------------------------------------------
(* The aliases and the entries.                                             *)

LEMMA AliasesAgreeStep ==
    ASSUME MapInv, AliasesAgree, [Next]_vars
    PROVE  AliasesAgree'
<1> SUFFICES ASSUME NEW h \in Hosts, apps'[h] # None
             PROVE  \/ apps'[h] = apps'[Canonical[h]]
                    \/ pc'[apps'[h]]["idle"] \in {"signal", "remove"}
                    \/ apps'[h] \in cut'
  BY DEF AliasesAgree
<1> USE NamesFacts DEF AliasesAgree, MapInv, StopInv, IInv, TypeOK
<1> DEFINE Excused(a) == pc[a]["idle"] \in {"signal", "remove"} \/ a \in cut
           StillExcused(a) == \/ pc'[a]["idle"] \in {"signal", "remove"}
                              \/ a \in cut'
                              \/ \A n \in Names : apps'[n] # a
<1>1. ASSUME NEW a \in Apps, Excused(a) PROVE StillExcused(a)
  <2>1. CASE a \in cut
    BY <2>1, CutGrows
  <2>2. CASE pc[a]["idle"] \in {"signal", "remove"}
    <3>1. CASE Carried(a)
      BY <2>2, <3>1 DEF Carried
    <3>2. ~ \E r \in Reqs : LaunchApp(r, a) \/ ReadProxy(r, a)
      BY <2>2 DEF LaunchApp, ReadProxy, Unlaunched, Threads
    <3> QED
      BY <3>1, <3>2, CarriedStep
  <2> QED
    BY <1>1, <2>1, <2>2
<1>2. ASSUME apps[h] # None, apps'[h] = apps[h], apps[h] # apps[Canonical[h]]
      PROVE  StillExcused(apps'[h])
  BY <1>1, <1>2
<1>3. CASE UNCHANGED apps
  BY <1>2, <1>3
<1>4. CASE Removal
  <2>1. apps'[h] = apps[h] /\ apps[h] # None
    BY <1>4 DEF Removal, Without
  <2>2. CASE apps[h] = apps[Canonical[h]]
    BY <1>4, <2>1, <2>2 DEF Removal, Without
  <2> QED
    BY <1>2, <2>1, <2>2
<1>5. CASE Idling
  <2> PICK b \in Apps : IdleTick(b)
    BY <1>5 DEF Idling
  <2>1. /\ apps' = [apps EXCEPT ![key[b]] = None]
        /\ cut' = cut \cup ({apps[key[b]]} \ {b, None})
        /\ pc'[b]["idle"] = "signal"
    BY DEF IdleTick, MaybeIdle, Step, Threads
  <2>2. apps'[h] = apps[h] /\ apps[h] # None
    BY <2>1
  <2>3. CASE apps[h] = apps[Canonical[h]] /\ Canonical[h] # key[b]
    BY <2>1, <2>2, <2>3
  <2>4. CASE apps[h] = apps[Canonical[h]] /\ Canonical[h] = key[b]
    BY <2>1, <2>2, <2>4
  <2> QED
    BY <1>2, <2>2, <2>3, <2>4
<1>6. CASE Entry
  <2> PICK g \in Hosts, a \in Apps : /\ apps[g] = None
                                     /\ apps[Canonical[g]] \in {None, a}
                                     /\ apps' = Entered(g, a)
    BY <1>6 DEF Entry
  <2>1. apps'[Canonical[g]] = a
    BY DEF Entered
  <2>2. CASE h = Canonical[g] \/ h = g
    <3>1. h = g \/ Canonical[h] = h
      BY <2>2, HostsAssumption
    <3> QED
      BY <2>1, <2>2, <3>1 DEF Entered
  <2>3. CASE h # Canonical[g] /\ h # g
    <3>1. apps'[h] = apps[h] /\ apps[h] # None
      BY <2>3 DEF Entered
    <3>2. Canonical[h] # g
      BY <2>3, HostsAssumption
    <3>3. CASE apps[h] = apps[Canonical[h]]
      BY <3>1, <3>2, <3>3 DEF Entered
    <3> QED
      BY <1>2, <3>1, <3>3
  <2> QED
    BY <2>2, <2>3
<1> QED
  BY <1>3, <1>4, <1>5, <1>6, MapChange

LEMMA OnlyCutAppsAreLostStep ==
    ASSUME MapInv, OnlyCutAppsAreLost, [Next]_vars
    PROVE  OnlyCutAppsAreLost'
<1> SUFFICES ASSUME NEW a \in Apps, key'[a] # None, ~termed'[a],
                    ~(pc'[a]["idle"] = "signal"), a \notin cut',
                    \A r \in Reqs : ~(rpc'[r] = "launch" /\ rapp'[r] = a)
             PROVE  apps'[key'[a]] = a
  BY DEF OnlyCutAppsAreLost
<1> USE NamesFacts DEF MapInv, StopInv, IInv, TypeOK
<1>1. ASSUME NEW r \in Reqs, LaunchApp(r, a) PROVE FALSE
  BY <1>1 DEF LaunchApp
<1>2. ASSUME NEW r \in Reqs, ReadProxy(r, a) PROVE apps'[key'[a]] = a
  BY <1>2 DEF ReadProxy, Missing, Entered, Launching
<1>3. CASE Carried(a)
  <2>1. a \notin cut
    BY CutGrows
  <2>2. ASSUME NEW r \in Reqs, Publish(r), rapp[r] = a
        PROVE  apps'[key'[a]] = a
    BY <2>2 DEF Publish, Entered, Launching
  <2>3. CASE apps[key[a]] = a
    <3>1. key[a] \in Names
      BY <1>3 DEF Carried
    <3>2. CASE Removal
      BY <1>3, <2>3, <3>1, <3>2 DEF Removal, Without, Carried
    <3>3. CASE Idling
      <4> PICK b \in Apps : IdleTick(b)
        BY <3>3 DEF Idling
      <4>1. /\ apps' = [apps EXCEPT ![key[b]] = None]
            /\ cut' = cut \cup ({apps[key[b]]} \ {b, None})
            /\ pc'[b]["idle"] = "signal"
        BY DEF IdleTick, MaybeIdle, Step, Threads
      <4> QED
        BY <1>3, <2>3, <3>1, <4>1 DEF Carried
    <3>4. CASE Entry
      BY <1>3, <2>3, <3>1, <3>4 DEF Entry, Entered, Carried
    <3> QED
      BY <1>3, <2>3, <3>2, <3>3, <3>4, MapChange DEF Carried
  <2> QED
    BY <1>3, <2>1, <2>2, <2>3 DEF OnlyCutAppsAreLost, Carried
<1> QED
  BY <1>1, <1>2, <1>3, CarriedStep

FateInv == MapInv /\ AliasesAgree /\ OnlyCutAppsAreLost

LEMMA SpecFateInv == Spec => []FateInv
<1>1. Init => AliasesAgree /\ OnlyCutAppsAreLost
  BY NamesFacts DEF Init, AliasesAgree, OnlyCutAppsAreLost
<1>2. FateInv /\ [Next]_vars /\ MapInv' => FateInv'
  BY AliasesAgreeStep, OnlyCutAppsAreLostStep DEF FateInv
<1>3. MapInv /\ AliasesAgree /\ OnlyCutAppsAreLost => FateInv
  BY DEF FateInv
<1> QED
  BY SpecMapInv, <1>1, <1>2, <1>3, PTL DEF Spec

(* A symlink to a directory leads where the canonical name leads, unless an *)
(* idle monitor deleted the canonical name (app.go:446, 520, 600).          *)
THEOREM AliasesLeadAlike == Spec => []AliasesAgree
<1>1. FateInv => AliasesAgree
  BY DEF FateInv
<1> QED
  BY SpecFateInv, <1>1, PTL

(* An app that was launched and never signalled is lost to later requests   *)
(* only if another app's idle monitor deleted its entry (app.go:446).       *)
THEOREM LostAppsWereCut == Spec => []OnlyCutAppsAreLost
<1>1. FateInv => OnlyCutAppsAreLost
  BY DEF FateInv
<1> QED
  BY SpecFateInv, <1>1, PTL

(* An entry is never handed from one app to another in one step, and it is  *)
(* only taken out when its app has been signalled, by the idle monitor of   *)
(* its app, or by that of an app being stopped or lost itself               *)
(* (app.go:446, 548, 601).                                                  *)
THEOREM EntriesFate == Spec => EntryFate
<1> DEFINE Kept(n) == apps[n] # None /\ apps'[n] # apps[n] =>
              /\ apps'[n] = None
              /\ \/ termed[apps[n]]
                 \/ \E b \in Apps : /\ key[b] = n
                                    /\ pc[b]["idle"] = "tick"
                                    /\ pc'[b]["idle"] = "signal"
                                    /\ b = apps[n] \/ termed[b] \/ b \in cut
<1>1. FateInv /\ [Next]_vars => \A n \in Names : Kept(n)
  <2> SUFFICES ASSUME FateInv, [Next]_vars, NEW n \in Names PROVE Kept(n)
    OBVIOUS
  <2> USE DEF FateInv, MapInv, StopInv, IInv, TypeOK, Threads
  <2>1. CASE Removal
    BY <2>1 DEF Removal, Without
  <2>2. CASE Idling
    <3> PICK b \in Apps : IdleTick(b)
      BY <2>2 DEF Idling
    <3>1. /\ apps' = [apps EXCEPT ![key[b]] = None] /\ LockFree
          /\ pc[b]["idle"] = "tick" /\ pc'[b]["idle"] = "signal"
      BY DEF IdleTick, MaybeIdle, Step
    <3>2. \A r \in Reqs : rpc[r] # "launch"
      BY <3>1, NamesFacts DEF LockFree, Launching
    <3>3. key[b] # None
      BY <3>1 DEF Unlaunched
    <3>4. apps[key[b]] = b \/ termed[b] \/ b \in cut
      BY <3>1, <3>2, <3>3 DEF OnlyCutAppsAreLost
    <3> QED
      BY <3>1, <3>4
  <2>3. CASE Entry
    BY <2>3 DEF Entry, Entered
  <2> QED
    BY <2>1, <2>2, <2>3, MapChange
<1>2. FateInv /\ [Next]_vars => [\A n \in Names : Kept(n)]_vars
  BY <1>1
<1> QED
  BY SpecFateInv, <1>2, PTL DEF Spec, EntryFate
==============================================================================
