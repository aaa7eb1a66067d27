---------------------------- MODULE AppPoolProofs ----------------------------
(***************************************************************************)
(* Theorems about AppPool, for any number of hosts, launches and requests. *)
(*                                                                         *)
(* The argument rests on the pool lock.  From the moment LaunchApp has     *)
(* started a process until the app is in the map, the request holds the    *)
(* lock, so the new app's watch goroutine can get as far as its first      *)
(* remove and no further (Launching).  Hence an app that watch has taken   *)
(* out of the map was in it before, and nothing puts it back (Withdrawn).  *)
(***************************************************************************)
EXTENDS AppPool, TLAPS

(* Steps of watch at which its process has not been waited for yet.         *)
Unreaped == {"select", "signal", "remove", "wait"}

(* A request that looks something up has a name; one inside LaunchApp holds *)
(* the lock, and its app's watch is not past remove and its idleMonitor is  *)
(* not started.                                                             *)
Launching ==
    \A r \in Reqs :
        /\ rpc[r] \in {"lookup", "launch"} => host[r] \in Hosts
        /\ rpc[r] \in {"wait", "proxy"} => rapp[r] \in Apps
        /\ rpc[r] = "launch" =>
              /\ lock = r
              /\ rapp[r] \in Apps
              /\ key[rapp[r]] = Canonical[host[r]]
              /\ pc[rapp[r]]["watch"] \in {"select", "signal", "remove"}
              /\ pc[rapp[r]]["idle"] = "off"

(* An App that was never launched has no goroutines.                        *)
Unlaunched ==
    \A a \in Apps : key[a] = None => \A t \in Threads : pc[a][t] = "off"

(* Once watch has taken an app out of the map it is in it no more.          *)
Withdrawn ==
    \A a \in Apps : pc[a]["watch"] \in {"wait", "remove2", "unlink", "done"} =>
        \A n \in Names : apps[n] # a

IInv == TypeOK /\ Launching /\ Unlaunched /\ Withdrawn

------------------------------------------------------------------------------
(* The steps, sorted by what they leave alone.                              *)

Quiet ==
    \/ \E a \in Apps : Process(a) \/ ReaderEOF(a)
    \/ \E d \in Dirs : Touch(d)
    \/ Purge

Monitors ==
    \E a \in Apps : \/ Idle(a) \/ Restart(a) \/ RestartStatFails(a)
                    \/ Poll(a) \/ ProxyDying(a)

Requests ==
    \E r \in Reqs : \/ \E h \in Hosts : Arrive(r, h)
                    \/ Lookup(r) \/ Wait(r) \/ Proxied(r)

LEMMA StepCases ==
    Next => Quiet \/ Monitors \/ Requests \/ \E a \in Apps : Watch(a)
BY DEF Next, Quiet, Monitors, Requests

LEMMA NamesFacts ==
    /\ Hosts \subseteq Names
    /\ \A h \in Hosts : Canonical[h] \in Names
    /\ None \notin Names /\ None \notin Apps /\ None \notin Reqs
BY HostsAssumption, NoneAssumption DEF Names

(* Processes, files and Purge do not touch the map, the goroutines' places  *)
(* or the requests.                                                         *)
LEMMA QuietStep ==
    ASSUME Quiet
    PROVE  UNCHANGED <<poolVars, pc, reqVars>>
<1> USE DEF poolVars, tombVars, callers, rest
<1>1. ASSUME NEW a \in Apps, Process(a) \/ ReaderEOF(a)
      PROVE  UNCHANGED <<poolVars, pc, reqVars>>
  BY <1>1 DEF Process, Boot, Exit, TimePasses, ReaderEOF
<1>2. ASSUME NEW d \in Dirs, Touch(d)
      PROVE  UNCHANGED <<poolVars, pc, reqVars>>
  BY <1>2 DEF Touch
<1>3. CASE Purge
  BY <1>3 DEF Purge, PurgeSnapshot, PurgeKill, PurgeDone
<1> QED
  BY <1>1, <1>2, <1>3 DEF Quiet

(* The monitors leave watch and the requests alone, start no goroutine and  *)
(* only take entries out of the map, with the lock free.                    *)
MonitorEffect ==
    /\ UNCHANGED <<lock, key, proc, crashed, reqVars>>
    /\ \A a \in Apps : pc'[a]["watch"] = pc[a]["watch"]
    /\ \A a \in Apps, t \in Threads : pc[a][t] = "off" => pc'[a][t] = "off"
    /\ \A n \in Names : apps'[n] \in {apps[n], None}
    /\ LockFree \/ UNCHANGED apps

LEMMA MonitorStep ==
    ASSUME TypeOK, Monitors
    PROVE  MonitorEffect
<1> USE DEF TypeOK, MonitorEffect, Threads, poolVars, procVars, callers, rest
<1> USE DEF Step, Return, Remove, Without
<1> PICK a \in Apps : \/ Idle(a) \/ Restart(a) \/ RestartStatFails(a)
                      \/ Poll(a) \/ ProxyDying(a)
  BY DEF Monitors
<1>1. CASE IdleTick(a)
  BY <1>1 DEF IdleTick, MaybeIdle
<1>2. CASE IdleSignal(a)
  <2>1. CASE Step(a, "idle", "signal", "remove")
    BY <1>2, <2>1 DEF IdleSignal
  <2>2. CASE Return(a, "idle", "signal", "nil")
    BY <1>2, <2>2 DEF IdleSignal
  <2> QED
    BY <1>2, <2>1, <2>2 DEF IdleSignal
<1>3. CASE IdleRemove(a)
  BY <1>3 DEF IdleRemove
<1>4. CASE IdleDying(a)
  BY <1>4 DEF IdleDying
<1>5. CASE RestartCreate(a)
  <2>1. CASE Step(a, "restart", "create", "watch")
    BY <1>5, <2>1 DEF RestartCreate
  <2>2. CASE Return(a, "restart", "create", "err")
    BY <1>5, <2>2 DEF RestartCreate
  <2> QED
    BY <1>5, <2>1, <2>2 DEF RestartCreate
<1>6. CASE RestartTouched(a)
  <2>1. CASE Step(a, "restart", "watch", "remove")
    BY <1>6, <2>1 DEF RestartTouched
  <2>2. CASE Step(a, "restart", "watch", "watch")
    BY <1>6, <2>2 DEF RestartTouched
  <2> QED
    BY <1>6, <2>1, <2>2 DEF RestartTouched
<1>7. CASE RestartRemove(a)
  BY <1>7 DEF RestartRemove
<1>8. CASE RestartDying(a)
  BY <1>8 DEF RestartDying
<1>9. CASE RestartStatFails(a)
  BY <1>9 DEF RestartStatFails
<1>10. CASE PollDial(a)
  BY <1>10 DEF PollDial
<1>11. CASE PollDying(a)
  BY <1>11 DEF PollDying
<1>12. CASE ProxyDying(a)
  BY <1>12 DEF ProxyDying
<1> QED
  BY <1>1, <1>2, <1>3, <1>4, <1>5, <1>6, <1>7, <1>8, <1>9, <1>10, <1>11,
     <1>12 DEF Idle, Restart, Poll

(* Publish starts the other goroutines of the app it enters, and nothing    *)
(* else moves.                                                              *)
LEMMA PublishStarts ==
    ASSUME TypeOK, NEW r \in Reqs, rapp[r] \in Apps, Publish(r)
    PROVE  /\ \A a \in Apps \ {rapp[r]} : pc'[a] = pc[a]
           /\ \A a \in Apps : pc'[a]["watch"] = pc[a]["watch"]
           /\ pc'[rapp[r]]["idle"] = "tick"
           /\ pc'[rapp[r]]["restart"] = "create"
           /\ pc'[rapp[r]]["poll"] = "dial"
           /\ pc'[rapp[r]]["proxy"] = pc[rapp[r]]["proxy"]
<1> DEFINE b == rapp[r]
           started == [pc[b] EXCEPT !["idle"] = "tick",
                                    !["restart"] = "create",
                                    !["poll"] = "dial"]
<1>1. pc[b] \in [Threads -> Steps] /\ pc \in [Apps -> [Threads -> Steps]]
  BY DEF TypeOK
<1>2. pc' = [pc EXCEPT ![b] = started]
  BY DEF Publish
<1>3. pc'[b] = started /\ \A a \in Apps \ {b} : pc'[a] = pc[a]
  BY <1>1, <1>2
<1>4. /\ started["watch"] = pc[b]["watch"]
      /\ started["proxy"] = pc[b]["proxy"]
      /\ started["idle"] = "tick"
      /\ started["restart"] = "create"
      /\ started["poll"] = "dial"
  BY <1>1 DEF Threads
<1>5. ASSUME NEW a \in Apps PROVE pc'[a]["watch"] = pc[a]["watch"]
  BY <1>3, <1>4
<1> QED
  BY <1>3, <1>4, <1>5

------------------------------------------------------------------------------
(* Type correctness.                                                        *)

LEMMA InitIInv == Init => IInv
<1> SUFFICES ASSUME Init PROVE IInv
  OBVIOUS
<1>1. TypeOK
  BY NamesFacts DEF Init, TypeOK, ProcStates, Reasons, ReqStates, Steps
<1>2. Launching
  BY DEF Init, Launching
<1>3. Unlaunched
  BY DEF Init, Unlaunched
<1>4. Withdrawn
  BY DEF Init, Withdrawn, Threads
<1> QED
  BY <1>1, <1>2, <1>3, <1>4 DEF IInv

LEMMA TypeStep == IInv /\ [Next]_vars => TypeOK'
<1> SUFFICES ASSUME IInv, [Next]_vars PROVE TypeOK'
  OBVIOUS
<1> USE NamesFacts
<1> USE DEF IInv, TypeOK, ProcStates, Reasons, ReqStates, Threads, Steps
<1> USE DEF poolVars, procVars, tombVars, useVars, fileVars, callers,
            reqVars, rest, purgeVars
<1>1. ASSUME NEW a \in Apps, Boot(a) PROVE TypeOK'
  <2>1. CASE InUse(Address(a))
    BY <1>1, <2>1 DEF Boot
  <2>2. CASE ~InUse(Address(a))
    <3>1. sock' \in [Dirs -> Apps \cup {None}]
      BY <1>1, <2>2 DEF Boot
    <3>2. proc' \in [Apps -> ProcStates]
      BY <1>1, <2>2 DEF Boot
    <3> QED
      BY <1>1, <3>1, <3>2 DEF Boot
  <2> QED
    BY <2>1, <2>2
<1>2. ASSUME NEW a \in Apps, Exit(a) PROVE TypeOK'
  BY <1>2 DEF Exit
<1>3. ASSUME NEW a \in Apps, TimePasses(a) PROVE TypeOK'
  BY <1>3 DEF TimePasses
<1>4. ASSUME NEW a \in Apps, ReaderEOF(a) PROVE TypeOK'
  BY <1>4 DEF ReaderEOF
<1>5. ASSUME NEW a \in Apps, WatchEOF(a) PROVE TypeOK'
  BY <1>5 DEF WatchEOF, Step
<1>6. ASSUME NEW a \in Apps, WatchDying(a) PROVE TypeOK'
  BY <1>6 DEF WatchDying, Step
<1>7. ASSUME NEW a \in Apps, WatchSignal(a) PROVE TypeOK'
  BY <1>7 DEF WatchSignal, Step, Terminate
<1>8. ASSUME NEW a \in Apps, WatchKillRemove(a) PROVE TypeOK'
  BY <1>8 DEF WatchKillRemove, Step, Remove, Without
<1>9. ASSUME NEW a \in Apps, WatchWait(a) PROVE TypeOK'
  BY <1>9 DEF WatchWait, Step
<1>10. ASSUME NEW a \in Apps, WatchRemove(a) PROVE TypeOK'
  BY <1>10 DEF WatchRemove, Step, Remove, Without
<1>11. ASSUME NEW a \in Apps, WatchReturn(a) PROVE TypeOK'
  BY <1>11 DEF WatchReturn, Step, Return, Killed
<1>12. ASSUME NEW a \in Apps, IdleTick(a) PROVE TypeOK'
  <2>1. key[a] \in Names
    BY <1>12 DEF IdleTick, Step, Unlaunched
  <2>2. cut' \in SUBSET Apps
    BY <1>12, <2>1 DEF IdleTick, MaybeIdle
  <2> QED
    BY <1>12, <2>2 DEF IdleTick, Step, MaybeIdle
<1>13. ASSUME NEW a \in Apps, IdleSignal(a) PROVE TypeOK'
  <2>1. CASE /\ Terminate(a) /\ Step(a, "idle", "signal", "remove")
             /\ UNCHANGED reason
    BY <1>13, <2>1 DEF IdleSignal, Terminate, Step
  <2>2. CASE Return(a, "idle", "signal", "nil") /\ UNCHANGED termed
    BY <1>13, <2>2 DEF IdleSignal, Return, Step, Killed
  <2> QED
    BY <1>13, <2>1, <2>2 DEF IdleSignal
<1>14. ASSUME NEW a \in Apps, IdleRemove(a) PROVE TypeOK'
  BY <1>14 DEF IdleRemove, Step, Return, Killed, Remove, Without
<1>15. ASSUME NEW a \in Apps, IdleDying(a) PROVE TypeOK'
  BY <1>15 DEF IdleDying, Step, Return, Killed
<1>16. ASSUME NEW d \in Dirs, Touch(d) PROVE TypeOK'
  BY <1>16 DEF Touch, FileWritten
<1>17. ASSUME NEW a \in Apps, RestartCreate(a) PROVE TypeOK'
  <2>1. CASE /\ Step(a, "restart", "create", "watch")
             /\ FileWritten(Address(a)) /\ UNCHANGED reason
    BY <1>17, <2>1 DEF RestartCreate, FileWritten, Step
  <2>2. CASE Return(a, "restart", "create", "err") /\ UNCHANGED changed
    BY <1>17, <2>2 DEF RestartCreate, Return, Step, Killed
  <2> QED
    BY <1>17, <2>1, <2>2 DEF RestartCreate
<1>18. ASSUME NEW a \in Apps, RestartTouched(a) PROVE TypeOK'
  <2>1. CASE Step(a, "restart", "watch", "remove")
    BY <1>18, <2>1 DEF RestartTouched, Step, Terminate
  <2>2. CASE Step(a, "restart", "watch", "watch")
    BY <1>18, <2>2 DEF RestartTouched, Step, Terminate
  <2> QED
    BY <1>18, <2>1, <2>2 DEF RestartTouched
<1>19. ASSUME NEW a \in Apps, RestartRemove(a) PROVE TypeOK'
  BY <1>19 DEF RestartRemove, Step, Remove, Without
<1>20. ASSUME NEW a \in Apps, RestartDying(a) PROVE TypeOK'
  BY <1>20 DEF RestartDying, Step, Return, Killed
<1>21. ASSUME NEW a \in Apps, RestartStatFails(a) PROVE TypeOK'
  BY <1>21 DEF RestartStatFails, Step, Return, Killed
<1>22. ASSUME NEW a \in Apps, PollDial(a) PROVE TypeOK'
  BY <1>22 DEF PollDial, Step, Return, Killed
<1>23. ASSUME NEW a \in Apps, PollDying(a) PROVE TypeOK'
  BY <1>23 DEF PollDying, Step, Return, Killed
<1>24. ASSUME NEW a \in Apps, ProxyDying(a) PROVE TypeOK'
  BY <1>24 DEF ProxyDying, Step, Return, Killed
<1>25. ASSUME NEW r \in Reqs, NEW h \in Hosts, Arrive(r, h) PROVE TypeOK'
  BY <1>25 DEF Arrive
<1>26. ASSUME NEW r \in Reqs, LookupHit(r) PROVE TypeOK'
  BY <1>26 DEF LookupHit, Got, Launching
<1>27. ASSUME NEW r \in Reqs, LookupShared(r) PROVE TypeOK'
  BY <1>27 DEF LookupShared, Got, Entered, Launching
<1>28. ASSUME NEW r \in Reqs, LookupFails(r) PROVE TypeOK'
  BY <1>28 DEF LookupFails, Missing
<1>29. ASSUME NEW r \in Reqs, NEW a \in Apps, LaunchApp(r, a) PROVE TypeOK'
  BY <1>29 DEF LaunchApp, Missing, Launching
<1>30. ASSUME NEW r \in Reqs, Publish(r) PROVE TypeOK'
  <2>1. rapp[r] \in Apps
    BY <1>30 DEF Publish, Launching
  <2>2. pc' \in [Apps -> [Threads -> Steps]]
    BY <1>30, <2>1 DEF Publish
  <2>3. apps' \in [Names -> Apps \cup {None}]
    BY <1>30, <2>1 DEF Publish, Entered
  <2>4. /\ rpc' \in [Reqs -> ReqStates]
        /\ host' \in [Reqs -> Hosts \cup {None}]
        /\ rapp' \in [Reqs -> Apps \cup {None}]
    BY <1>30, <2>1 DEF Publish, Got
  <2> QED
    BY <1>30, <2>2, <2>3, <2>4 DEF Publish
<1>31. ASSUME NEW r \in Reqs, NEW a \in Apps, ReadProxy(r, a) PROVE TypeOK'
  BY <1>31 DEF ReadProxy, Got, Missing, Entered, Launching
<1>32. ASSUME NEW r \in Reqs, WaitReady(r) PROVE TypeOK'
  BY <1>32 DEF WaitReady
<1>33. ASSUME NEW r \in Reqs, WaitDying(r) PROVE TypeOK'
  <2>1. CASE reason[rapp[r]] = "nil"
    BY <1>33, <2>1 DEF WaitDying, Answered
  <2>2. CASE reason[rapp[r]] = "err"
    BY <1>33, <2>2 DEF WaitDying, Answered
  <2> QED
    BY <1>33, <2>1, <2>2 DEF WaitDying
<1>34. ASSUME NEW r \in Reqs, Proxied(r) PROVE TypeOK'
  BY <1>34 DEF Proxied, Answered
<1>35. ASSUME PurgeSnapshot PROVE TypeOK'
  <2>1. snapshot' \in SUBSET Apps /\ unkilled' \in SUBSET snapshot'
    BY <1>35 DEF PurgeSnapshot
  <2> QED
    BY <1>35, <2>1 DEF PurgeSnapshot
<1>36. ASSUME NEW a \in Apps, PurgeKill(a) PROVE TypeOK'
  BY <1>36 DEF PurgeKill, Killed
<1>37. ASSUME PurgeDone PROVE TypeOK'
  BY <1>37 DEF PurgeDone
<1>38. CASE UNCHANGED vars
  BY <1>38 DEF vars
<1> QED
  BY <1>1, <1>2, <1>3, <1>4, <1>5, <1>6, <1>7, <1>8, <1>9, <1>10, <1>11,
     <1>12, <1>13, <1>14, <1>15, <1>16, <1>17, <1>18, <1>19, <1>20, <1>21,
     <1>22, <1>23, <1>24, <1>25, <1>26, <1>27, <1>28, <1>29, <1>30, <1>31,
     <1>32, <1>33, <1>34, <1>35, <1>36, <1>37, <1>38
  DEF Next, Process, Watch, Idle, Restart, Poll, Lookup, Wait, Purge

------------------------------------------------------------------------------
(* What the pool lock protects.                                             *)

LEMMA LaunchingStep == IInv /\ [Next]_vars => Launching'
<1> SUFFICES ASSUME IInv, [Next]_vars PROVE Launching'
  OBVIOUS
<1> USE NamesFacts
<1> USE DEF IInv, TypeOK, Launching, Unlaunched, Unreaped, Threads,
            poolVars, tombVars, reqVars, callers, rest
<1>1. CASE Quiet
  BY <1>1, QuietStep
<1>2. CASE Monitors
  BY <1>2, MonitorStep DEF MonitorEffect
<1>3. ASSUME NEW a \in Apps, WatchEOF(a) PROVE Launching'
  BY <1>3 DEF WatchEOF, Step
<1>4. ASSUME NEW a \in Apps, WatchDying(a) PROVE Launching'
  BY <1>4 DEF WatchDying, Step
<1>5. ASSUME NEW a \in Apps, WatchSignal(a) PROVE Launching'
  BY <1>5 DEF WatchSignal, Step
<1>6. ASSUME NEW a \in Apps, WatchKillRemove(a) PROVE Launching'
  BY <1>6 DEF WatchKillRemove, Step, Remove, Without, LockFree
<1>7. ASSUME NEW a \in Apps, WatchWait(a) PROVE Launching'
  BY <1>7 DEF WatchWait, Step
<1>8. ASSUME NEW a \in Apps, WatchRemove(a) PROVE Launching'
  BY <1>8 DEF WatchRemove, Step, Remove, Without, LockFree
<1>9. ASSUME NEW a \in Apps, WatchReturn(a) PROVE Launching'
  BY <1>9 DEF WatchReturn, Return, Step
<1>10. ASSUME NEW r \in Reqs, NEW h \in Hosts, Arrive(r, h) PROVE Launching'
  BY <1>10 DEF Arrive
<1>11. ASSUME NEW r \in Reqs, LookupHit(r) PROVE Launching'
  BY <1>11 DEF LookupHit, Got
<1>12. ASSUME NEW r \in Reqs, LookupShared(r) PROVE Launching'
  BY <1>12 DEF LookupShared, Got, Entered
<1>13. ASSUME NEW r \in Reqs, LookupFails(r) PROVE Launching'
  BY <1>13 DEF LookupFails, Missing
<1>14. ASSUME NEW r \in Reqs, NEW a \in Apps, LaunchApp(r, a) PROVE Launching'
  BY <1>14 DEF LaunchApp, Missing, LockFree
<1>15. ASSUME NEW r \in Reqs, Publish(r) PROVE Launching'
  BY <1>15 DEF Publish, Got, Entered
<1>16. ASSUME NEW r \in Reqs, NEW a \in Apps, ReadProxy(r, a) PROVE Launching'
  BY <1>16 DEF ReadProxy, Got, Missing, Entered
<1>17. ASSUME NEW r \in Reqs, WaitReady(r) PROVE Launching'
  BY <1>17 DEF WaitReady
<1>18. ASSUME NEW r \in Reqs, WaitDying(r) PROVE Launching'
  <2>1. CASE reason[rapp[r]] = "nil"
    BY <1>18, <2>1 DEF WaitDying, Answered
  <2>2. CASE reason[rapp[r]] = "err"
    BY <1>18, <2>2 DEF WaitDying, Answered
  <2> QED
    BY <1>18, <2>1, <2>2 DEF WaitDying
<1>19. ASSUME NEW r \in Reqs, Proxied(r) PROVE Launching'
  BY <1>19 DEF Proxied, Answered
<1>20. CASE UNCHANGED vars
  BY <1>20 DEF vars
<1> QED
  BY StepCases, <1>1, <1>2, <1>3, <1>4, <1>5, <1>6, <1>7, <1>8, <1>9, <1>10,
     <1>11, <1>12, <1>13, <1>14, <1>15, <1>16, <1>17, <1>18, <1>19, <1>20
  DEF Requests, Watch, Lookup, Wait

LEMMA UnlaunchedStep == IInv /\ [Next]_vars => Unlaunched'
<1> SUFFICES ASSUME IInv, [Next]_vars PROVE Unlaunched'
  OBVIOUS
<1> USE NamesFacts
<1> USE DEF IInv, TypeOK, Launching, Unlaunched, Threads,
            poolVars, tombVars, reqVars, callers, rest
<1>1. CASE Quiet
  BY <1>1, QuietStep
<1>2. CASE Monitors
  BY <1>2, MonitorStep DEF MonitorEffect
<1>3. ASSUME NEW a \in Apps, WatchEOF(a) PROVE Unlaunched'
  BY <1>3 DEF WatchEOF, Step
<1>4. ASSUME NEW a \in Apps, WatchDying(a) PROVE Unlaunched'
  BY <1>4 DEF WatchDying, Step
<1>5. ASSUME NEW a \in Apps, WatchSignal(a) PROVE Unlaunched'
  BY <1>5 DEF WatchSignal, Step
<1>6. ASSUME NEW a \in Apps, WatchKillRemove(a) PROVE Unlaunched'
  BY <1>6 DEF WatchKillRemove, Step, Remove, Without, LockFree
<1>7. ASSUME NEW a \in Apps, WatchWait(a) PROVE Unlaunched'
  BY <1>7 DEF WatchWait, Step
<1>8. ASSUME NEW a \in Apps, WatchRemove(a) PROVE Unlaunched'
  BY <1>8 DEF WatchRemove, Step, Remove, Without, LockFree
<1>9. ASSUME NEW a \in Apps, WatchReturn(a) PROVE Unlaunched'
  BY <1>9 DEF WatchReturn, Return, Step
<1>10. ASSUME NEW r \in Reqs, NEW h \in Hosts, Arrive(r, h) PROVE Unlaunched'
  BY <1>10 DEF Arrive
<1>11. ASSUME NEW r \in Reqs, LookupHit(r) PROVE Unlaunched'
  BY <1>11 DEF LookupHit, Got
<1>12. ASSUME NEW r \in Reqs, LookupShared(r) PROVE Unlaunched'
  BY <1>12 DEF LookupShared, Got, Entered
<1>13. ASSUME NEW r \in Reqs, LookupFails(r) PROVE Unlaunched'
  BY <1>13 DEF LookupFails, Missing
<1>14. ASSUME NEW r \in Reqs, NEW a \in Apps, LaunchApp(r, a) PROVE Unlaunched'
  BY <1>14 DEF LaunchApp, Missing, LockFree
<1>15. ASSUME NEW r \in Reqs, Publish(r) PROVE Unlaunched'
  BY <1>15 DEF Publish, Got, Entered
<1>16. ASSUME NEW r \in Reqs, NEW a \in Apps, ReadProxy(r, a) PROVE Unlaunched'
  BY <1>16 DEF ReadProxy, Got, Missing, Entered
<1>17. ASSUME NEW r \in Reqs, WaitReady(r) PROVE Unlaunched'
  BY <1>17 DEF WaitReady
<1>18. ASSUME NEW r \in Reqs, WaitDying(r) PROVE Unlaunched'
  <2>1. CASE reason[rapp[r]] = "nil"
    BY <1>18, <2>1 DEF WaitDying, Answered
  <2>2. CASE reason[rapp[r]] = "err"
    BY <1>18, <2>2 DEF WaitDying, Answered
  <2> QED
    BY <1>18, <2>1, <2>2 DEF WaitDying
<1>19. ASSUME NEW r \in Reqs, Proxied(r) PROVE Unlaunched'
  BY <1>19 DEF Proxied, Answered
<1>20. CASE UNCHANGED vars
  BY <1>20 DEF vars
<1> QED
  BY StepCases, <1>1, <1>2, <1>3, <1>4, <1>5, <1>6, <1>7, <1>8, <1>9, <1>10,
     <1>11, <1>12, <1>13, <1>14, <1>15, <1>16, <1>17, <1>18, <1>19, <1>20
  DEF Requests, Watch, Lookup, Wait

LEMMA WithdrawnStep == IInv /\ [Next]_vars => Withdrawn'
<1> SUFFICES ASSUME IInv, [Next]_vars PROVE Withdrawn'
  OBVIOUS
<1> USE NamesFacts
<1> USE DEF IInv, TypeOK, Launching, Unlaunched, Withdrawn,
            Unreaped, Threads, poolVars, tombVars, reqVars, callers, rest
<1>1. CASE Quiet
  BY <1>1, QuietStep
<1>2. CASE Monitors
  BY <1>2, MonitorStep DEF MonitorEffect
<1>3. ASSUME NEW a \in Apps, WatchEOF(a) PROVE Withdrawn'
  BY <1>3 DEF WatchEOF, Step
<1>4. ASSUME NEW a \in Apps, WatchDying(a) PROVE Withdrawn'
  BY <1>4 DEF WatchDying, Step
<1>5. ASSUME NEW a \in Apps, WatchSignal(a) PROVE Withdrawn'
  BY <1>5 DEF WatchSignal, Step
<1>6. ASSUME NEW a \in Apps, WatchKillRemove(a) PROVE Withdrawn'
  BY <1>6 DEF WatchKillRemove, Step, Remove, Without, LockFree
<1>7. ASSUME NEW a \in Apps, WatchWait(a) PROVE Withdrawn'
  BY <1>7 DEF WatchWait, Step
<1>8. ASSUME NEW a \in Apps, WatchRemove(a) PROVE Withdrawn'
  BY <1>8 DEF WatchRemove, Step, Remove, Without, LockFree
<1>9. ASSUME NEW a \in Apps, WatchReturn(a) PROVE Withdrawn'
  BY <1>9 DEF WatchReturn, Return, Step
<1>10. ASSUME NEW r \in Reqs, NEW h \in Hosts, Arrive(r, h)
       PROVE  Withdrawn'
  BY <1>10 DEF Arrive
<1>11. ASSUME NEW r \in Reqs, LookupHit(r) PROVE Withdrawn'
  BY <1>11 DEF LookupHit, Got
<1>12. ASSUME NEW r \in Reqs, LookupShared(r) PROVE Withdrawn'
  BY <1>12 DEF LookupShared, Got, Entered
<1>13. ASSUME NEW r \in Reqs, LookupFails(r) PROVE Withdrawn'
  BY <1>13 DEF LookupFails, Missing
<1>14. ASSUME NEW r \in Reqs, NEW a \in Apps, LaunchApp(r, a)
       PROVE  Withdrawn'
  BY <1>14 DEF LaunchApp, Missing, LockFree
<1>15. ASSUME NEW r \in Reqs, Publish(r) PROVE Withdrawn'
  <2>1. \A n \in Names : apps'[n] \in {apps[n], rapp[r]}
    BY <1>15 DEF Publish, Entered
  <2>2. /\ \A a \in Apps : pc'[a]["watch"] = pc[a]["watch"]
        /\ pc[rapp[r]]["watch"] \in {"select", "signal", "remove"}
    BY <1>15, PublishStarts DEF Publish
  <2> QED
    BY <2>1, <2>2
<1>16. ASSUME NEW r \in Reqs, NEW a \in Apps, ReadProxy(r, a)
       PROVE  Withdrawn'
  BY <1>16 DEF ReadProxy, Got, Missing, Entered
<1>17. ASSUME NEW r \in Reqs, WaitReady(r) PROVE Withdrawn'
  BY <1>17 DEF WaitReady
<1>18. ASSUME NEW r \in Reqs, WaitDying(r) PROVE Withdrawn'
  <2>1. CASE reason[rapp[r]] = "nil"
    BY <1>18, <2>1 DEF WaitDying, Answered
  <2>2. CASE reason[rapp[r]] = "err"
    BY <1>18, <2>2 DEF WaitDying, Answered
  <2> QED
    BY <1>18, <2>1, <2>2 DEF WaitDying
<1>19. ASSUME NEW r \in Reqs, Proxied(r) PROVE Withdrawn'
  BY <1>19 DEF Proxied, Answered
<1>20. CASE UNCHANGED vars
  BY <1>20 DEF vars
<1> QED
  BY StepCases, <1>1, <1>2, <1>3, <1>4, <1>5, <1>6, <1>7, <1>8, <1>9, <1>10,
     <1>11, <1>12, <1>13, <1>14, <1>15, <1>16, <1>17, <1>18, <1>19, <1>20
  DEF Requests, Watch, Lookup, Wait

LEMMA SpecIInv == Spec => []IInv
<1>1. IInv /\ [Next]_vars => IInv'
  BY TypeStep, LaunchingStep, UnlaunchedStep, WithdrawnStep DEF IInv
<1> QED
  BY InitIInv, <1>1, PTL DEF Spec

(* Type correctness: every reachable state has the shape TypeOK gives it.   *)
THEOREM TypeCorrect == Spec => []TypeOK
<1>1. IInv => TypeOK
  BY DEF IInv
<1> QED
  BY SpecIInv, <1>1, PTL

(* An app whose process has been waited for is under no name and comes back *)
(* under none (app.go:145-150, 456-555).                                    *)
THEOREM ClosedAppsStayOut == Spec => []ClosedStaysOut
<1>1. IInv => ClosedStaysOut
  BY DEF IInv, Withdrawn, ClosedStaysOut
<1> QED
  BY SpecIInv, <1>1, PTL

(* tomb.Go is never called on a dead tomb (app.go:331-337).                 *)
THEOREM LaunchNeverPanics == Spec => []NoGoAfterDead
<1>1. IInv => NoGoAfterDead
  BY DEF IInv, Launching, NoGoAfterDead, Dead, Unreaped, Threads
<1> QED
  BY SpecIInv, <1>1, PTL

------------------------------------------------------------------------------
(* How an app stops.                                                        *)

(* What each goroutine has seen to by the time it is where it is.           *)
Stopping ==
    \A a \in Apps :
        /\ key[a] \in {Canonical[h] : h \in Hosts} \cup {None}
        /\ pc[a]["watch"] = "off" => proc[a] = "none"
        /\ pc[a]["watch"] \in Unreaped =>
              proc[a] \in {"booting", "listening", "exited"}
        /\ pc[a]["watch"] \in {"remove2", "unlink", "done"} <=>
              proc[a] = "reaped"
        /\ pc[a]["watch"] \in {"remove", "wait", "remove2", "unlink", "done"}
              => termed[a]
        /\ pc[a]["idle"] = "remove" => termed[a]
        /\ pc[a]["restart"] = "remove" => termed[a]

StopInv == IInv /\ Stopping

LEMMA StoppingStep == StopInv /\ [Next]_vars => Stopping'
<1> SUFFICES ASSUME StopInv, [Next]_vars PROVE Stopping'
  OBVIOUS
<1> USE NamesFacts
<1> USE DEF StopInv, IInv, TypeOK, Launching, Unlaunched, Stopping,
            Unreaped, Threads,
            poolVars, procVars, tombVars, reqVars, callers, rest
<1>1. ASSUME NEW a \in Apps, Boot(a) PROVE Stopping'
  BY <1>1 DEF Boot
<1>2. ASSUME NEW a \in Apps, Exit(a) PROVE Stopping'
  <2>1. CASE UNCHANGED sock
    BY <1>2, <2>1 DEF Exit, Running
  <2>2. CASE sock' = [sock EXCEPT ![Address(a)] = None]
    BY <1>2, <2>2 DEF Exit, Running
  <2> QED
    BY <1>2, <2>1, <2>2 DEF Exit
<1>3. ASSUME NEW a \in Apps, TimePasses(a) PROVE Stopping'
  BY <1>3 DEF TimePasses
<1>4. ASSUME NEW a \in Apps, ReaderEOF(a) PROVE Stopping'
  BY <1>4 DEF ReaderEOF
<1>5. ASSUME NEW d \in Dirs, Touch(d) PROVE Stopping'
  BY <1>5 DEF Touch, FileWritten
<1>6. CASE Purge
  BY <1>6 DEF Purge, PurgeSnapshot, PurgeKill, PurgeDone
<1>7. ASSUME NEW a \in Apps, WatchEOF(a) PROVE Stopping'
  BY <1>7 DEF WatchEOF, Step
<1>8. ASSUME NEW a \in Apps, WatchDying(a) PROVE Stopping'
  BY <1>8 DEF WatchDying, Step
<1>9. ASSUME NEW a \in Apps, WatchSignal(a) PROVE Stopping'
  BY <1>9 DEF WatchSignal, Step, Terminate, SignalFails
<1>10. ASSUME NEW a \in Apps, WatchKillRemove(a) PROVE Stopping'
  BY <1>10 DEF WatchKillRemove, Step
<1>11. ASSUME NEW a \in Apps, WatchWait(a) PROVE Stopping'
  BY <1>11 DEF WatchWait, Step
<1>12. ASSUME NEW a \in Apps, WatchRemove(a) PROVE Stopping'
  BY <1>12 DEF WatchRemove, Step
<1>13. ASSUME NEW a \in Apps, WatchReturn(a) PROVE Stopping'
  BY <1>13 DEF WatchReturn, Step, Return
<1>14. ASSUME NEW a \in Apps, IdleTick(a) PROVE Stopping'
  BY <1>14 DEF IdleTick, Step
<1>15. ASSUME NEW a \in Apps, IdleSignal(a) PROVE Stopping'
  <2>1. CASE Step(a, "idle", "signal", "remove")
    BY <1>15, <2>1 DEF IdleSignal, Step, Return, Terminate
  <2>2. CASE Return(a, "idle", "signal", "nil")
    BY <1>15, <2>2 DEF IdleSignal, Step, Return, Terminate
  <2> QED
    BY <1>15, <2>1, <2>2 DEF IdleSignal
<1>16. ASSUME NEW a \in Apps, IdleRemove(a) PROVE Stopping'
  BY <1>16 DEF IdleRemove, Return, Step, Remove, Without
<1>17. ASSUME NEW a \in Apps, IdleDying(a) PROVE Stopping'
  BY <1>17 DEF IdleDying, Return, Step
<1>18. ASSUME NEW a \in Apps, RestartCreate(a) PROVE Stopping'
  <2>1. CASE Step(a, "restart", "create", "watch")
    BY <1>18, <2>1 DEF RestartCreate, Step, Return
  <2>2. CASE Return(a, "restart", "create", "err")
    BY <1>18, <2>2 DEF RestartCreate, Step, Return
  <2> QED
    BY <1>18, <2>1, <2>2 DEF RestartCreate
<1>19. ASSUME NEW a \in Apps, RestartTouched(a) PROVE Stopping'
  <2>1. CASE Step(a, "restart", "watch", "remove")
    BY <1>19, <2>1 DEF RestartTouched, Step, Terminate
  <2>2. CASE Step(a, "restart", "watch", "watch")
    BY <1>19, <2>2 DEF RestartTouched, Step, Terminate
  <2> QED
    BY <1>19, <2>1, <2>2 DEF RestartTouched
<1>20. ASSUME NEW a \in Apps, RestartRemove(a) PROVE Stopping'
  BY <1>20 DEF RestartRemove, Step, Remove, Without
<1>21. ASSUME NEW a \in Apps, RestartDying(a) PROVE Stopping'
  BY <1>21 DEF RestartDying, Return, Step
<1>22. ASSUME NEW a \in Apps, RestartStatFails(a) PROVE Stopping'
  BY <1>22 DEF RestartStatFails, Return, Step
<1>23. ASSUME NEW a \in Apps, PollDial(a) PROVE Stopping'
  BY <1>23 DEF PollDial, Return, Step
<1>24. ASSUME NEW a \in Apps, PollDying(a) PROVE Stopping'
  BY <1>24 DEF PollDying, Return, Step
<1>25. ASSUME NEW a \in Apps, ProxyDying(a) PROVE Stopping'
  BY <1>25 DEF ProxyDying, Return, Step
<1>26. ASSUME NEW r \in Reqs, NEW h \in Hosts, Arrive(r, h) PROVE Stopping'
  BY <1>26 DEF Arrive
<1>27. ASSUME NEW r \in Reqs, LookupHit(r) PROVE Stopping'
  BY <1>27 DEF LookupHit, Got
<1>28. ASSUME NEW r \in Reqs, LookupShared(r) PROVE Stopping'
  BY <1>28 DEF LookupShared, Got, Entered
<1>29. ASSUME NEW r \in Reqs, LookupFails(r) PROVE Stopping'
  BY <1>29 DEF LookupFails, Missing
<1>30. ASSUME NEW r \in Reqs, NEW a \in Apps, LaunchApp(r, a) PROVE Stopping'
  BY <1>30 DEF LaunchApp, Missing, LockFree
<1>31. ASSUME NEW r \in Reqs, Publish(r) PROVE Stopping'
  <2>1. rapp[r] \in Apps
    BY <1>31 DEF Publish
  <2>2. /\ UNCHANGED <<key, proc, termed>>
        /\ \A a \in Apps : pc'[a]["watch"] = pc[a]["watch"]
    <3>1. UNCHANGED <<key, proc, termed>>
      BY <1>31 DEF Publish
    <3>2. \A a \in Apps : pc'[a]["watch"] = pc[a]["watch"]
      BY <1>31, <2>1, PublishStarts
    <3> QED
      BY <3>1, <3>2
  <2>3. \A a \in Apps : /\ pc'[a]["idle"] \in {pc[a]["idle"], "tick"}
                        /\ pc'[a]["restart"] \in {pc[a]["restart"], "create"}
    <3>1. /\ \A a \in Apps \ {rapp[r]} : pc'[a] = pc[a]
          /\ pc'[rapp[r]]["idle"] = "tick"
          /\ pc'[rapp[r]]["restart"] = "create"
      BY <1>31, <2>1, PublishStarts, Zenon
    <3> QED
      BY <3>1, Zenon
  <2> QED
    BY <2>2, <2>3
<1>32. ASSUME NEW r \in Reqs, NEW a \in Apps, ReadProxy(r, a) PROVE Stopping'
  BY <1>32 DEF ReadProxy, Got, Missing, Entered
<1>33. ASSUME NEW r \in Reqs, WaitReady(r) PROVE Stopping'
  BY <1>33 DEF WaitReady
<1>34. ASSUME NEW r \in Reqs, WaitDying(r) PROVE Stopping'
  <2>1. CASE reason[rapp[r]] = "nil"
    BY <1>34, <2>1 DEF WaitDying, Answered
  <2>2. CASE reason[rapp[r]] = "err"
    BY <1>34, <2>2 DEF WaitDying, Answered
  <2> QED
    BY <1>34, <2>1, <2>2 DEF WaitDying
<1>35. ASSUME NEW r \in Reqs, Proxied(r) PROVE Stopping'
  BY <1>35 DEF Proxied, Answered
<1>36. CASE UNCHANGED vars
  BY <1>36 DEF vars
<1> QED
  BY <1>1, <1>2, <1>3, <1>4, <1>5, <1>6, <1>7, <1>8, <1>9, <1>10, <1>11,
     <1>12, <1>13, <1>14, <1>15, <1>16, <1>17, <1>18, <1>19, <1>20, <1>21,
     <1>22, <1>23, <1>24, <1>25, <1>26, <1>27, <1>28, <1>29, <1>30, <1>31,
     <1>32, <1>33, <1>34, <1>35, <1>36
  DEF Next, Process, Watch, Idle, Restart, Poll, Lookup, Wait

LEMMA SpecStopInv == Spec => []StopInv
<1>1. Init => StopInv
  BY InitIInv DEF Init, StopInv, Stopping, Unreaped, Threads
<1>2. StopInv /\ [Next]_vars => StopInv'
  BY TypeStep, LaunchingStep, UnlaunchedStep, WithdrawnStep, StoppingStep
  DEF StopInv, IInv
<1> QED
  BY <1>1, <1>2, PTL DEF Spec

(* Only PurgeDone ends a Purge.                                             *)
LEMMA PurgingStays ==
    ASSUME [Next]_vars, purging, ~PurgeDone
    PROVE  purging'
<1> USE DEF callers, rest, purgeVars
<1>1. ASSUME NEW a \in Apps, Process(a) \/ ReaderEOF(a) PROVE purging'
  BY <1>1 DEF Process, Boot, Exit, TimePasses, ReaderEOF
<1>2. ASSUME NEW a \in Apps, Watch(a) PROVE purging'
  BY <1>2 DEF Watch, WatchEOF, WatchDying, WatchSignal, WatchKillRemove,
              WatchWait, WatchRemove, WatchReturn
<1>3. ASSUME NEW a \in Apps, Idle(a) PROVE purging'
  BY <1>3 DEF Idle, IdleTick, IdleSignal, IdleRemove, IdleDying
<1>4. ASSUME NEW a \in Apps, Restart(a) \/ RestartStatFails(a) PROVE purging'
  BY <1>4 DEF Restart, RestartCreate, RestartTouched, RestartRemove,
              RestartDying, RestartStatFails
<1>5. ASSUME NEW a \in Apps, Poll(a) \/ ProxyDying(a) PROVE purging'
  BY <1>5 DEF Poll, PollDial, PollDying, ProxyDying
<1>6. ASSUME NEW d \in Dirs, Touch(d) PROVE purging'
  BY <1>6 DEF Touch
<1>7. CASE Requests
  BY <1>7 DEF Requests, Arrive, Lookup, LookupHit, LookupShared, LookupFails,
              LaunchApp, ReadProxy, Publish, Wait, WaitReady, WaitDying,
              Proxied
<1>8. CASE Purge
  BY <1>8 DEF Purge, PurgeSnapshot, PurgeKill
<1>9. CASE UNCHANGED vars
  BY <1>9 DEF vars
<1> QED
  BY StepCases, <1>1, <1>2, <1>3, <1>4, <1>5, <1>6, <1>7, <1>8, <1>9
  DEF Quiet, Monitors

(* Purge returns only when the apps it found are signalled, waited for and  *)
(* out of the pool (app.go:621-642).                                        *)
THEOREM PurgeStopsApps == Spec => PurgeStops
<1> DEFINE Stopped(a) == /\ termed[a] /\ proc[a] = "reaped"
                         /\ \A n \in Names : apps[n] # a
           Returned == purging /\ ~purging' =>
                          \A a \in snapshot : proc[a] # "none" => Stopped(a)
<1>1. StopInv /\ [Next]_vars => Returned
  <2> SUFFICES ASSUME StopInv, [Next]_vars, purging, ~purging',
                      NEW a \in snapshot, proc[a] # "none"
               PROVE  Stopped(a)
    OBVIOUS
  <2>1. PurgeDone
    BY PurgingStays
  <2>2. a \in Apps /\ pc[a]["watch"] \in {"off", "done"}
    BY <2>1 DEF PurgeDone, Dead, StopInv, IInv, TypeOK, Threads
  <2>3. pc[a]["watch"] = "done"
    BY <2>2 DEF StopInv, Stopping
  <2> QED
    BY <2>2, <2>3 DEF StopInv, IInv, Stopping, Withdrawn
<1>2. StopInv /\ [Next]_vars => [Returned]_vars
  BY <1>1
<1> QED
  BY SpecStopInv, <1>2, PTL DEF Spec, PurgeStops

------------------------------------------------------------------------------
(* How a waiting request is woken.                                          *)

(* From its start to its return watch either still listens for the end of   *)
(* the process, or will end the tomb with an error, or finds it dying; the  *)
(* poller does not return without waking those that wait; and whoever can   *)
(* be waited for has both of them, or is ready.                             *)
Guarded(a) ==
    \/ Dying(a)
    \/ pc[a]["watch"] = "select" /\ reader[a] \in {"reading", "sending"}
    \/ /\ pc[a]["watch"] \in {"signal", "remove", "wait", "remove2", "unlink"}
       /\ crashed[a]

Joined(a) == \/ \E n \in Names : apps[n] = a
             \/ \E r \in Reqs : rpc[r] \in {"wait", "proxy"} /\ rapp[r] = a

Up(a) == pc[a]["watch"] # "off" /\ pc[a]["poll"] \in {"dial", "done"}

(* A step of one goroutine leaves the others where they are.                *)
LEMMA OthersWait ==
    ASSUME TypeOK, NEW b \in Apps, NEW t \in Threads, NEW from, NEW to,
           Step(b, t, from, to)
    PROVE  /\ \A a \in Apps, u \in Threads :
                 a # b \/ u # t => pc'[a][u] = pc[a][u]
           /\ pc[b][t] = from /\ pc'[b][t] = to
BY DEF Step, TypeOK

(* No goroutine of a tomb takes back that it is dying.                      *)
LEMMA ReturnKeeps ==
    ASSUME TypeOK, NEW b \in Apps, NEW t \in Threads, NEW from,
           NEW err \in {"nil", "err"}, Return(b, t, from, err)
    PROVE  /\ \A a \in Apps : Dying(a) => Dying(a)'
           /\ err = "err" => Dying(b)'
BY DEF Return, Killed, Dying, TypeOK

(* What neither moves an app's watch or poller, nor takes their means away. *)
Still(a) ==
    /\ pc'[a]["watch"] = pc[a]["watch"]
    /\ pc'[a]["poll"] = pc[a]["poll"]
    /\ Dying(a) => Dying(a)'
    /\ ready'[a] = ready[a]
    /\ reader[a] \in {"reading", "sending"} =>
          reader'[a] \in {"reading", "sending"}
    /\ crashed'[a] = crashed[a]

Woken(a) ==
    /\ pc[a]["watch"] # "off" => Guarded(a)
    /\ pc[a]["poll"] = "done" => ready[a] \/ Dying(a)
    /\ Joined(a) => ready[a] \/ Up(a)

Waking == \A a \in Apps : Woken(a)

LEMMA StillWoken ==
    ASSUME NEW a \in Apps, Woken(a), Still(a), Joined(a)' => Joined(a)
    PROVE  Woken(a)'
BY DEF Woken, Still, Guarded, Up

LEMMA QuietWaking ==
    ASSUME StopInv, Waking, Quiet
    PROVE  Waking'
<1> USE DEF StopInv, IInv, TypeOK, tombVars, useVars, callers, rest
<1>1. UNCHANGED <<apps, pc, rpc, rapp>>
  BY QuietStep DEF poolVars, reqVars
<1>2. ASSUME NEW a \in Apps PROVE Still(a)
  <2>1. ASSUME NEW b \in Apps, Process(b) PROVE Still(a)
    BY <2>1, <1>1 DEF Process, Boot, Exit, TimePasses, Still, Dying, fileVars
  <2>2. ASSUME NEW b \in Apps, ReaderEOF(b) PROVE Still(a)
    BY <2>2, <1>1 DEF ReaderEOF, Still, Dying
  <2>3. ASSUME NEW d \in Dirs, Touch(d) PROVE Still(a)
    BY <2>3, <1>1 DEF Touch, Still, Dying
  <2>4. ASSUME NEW b \in Apps, PurgeKill(b) PROVE Still(a)
    BY <2>4, <1>1 DEF PurgeKill, Still, Dying, Killed, fileVars
  <2>5. CASE PurgeSnapshot \/ PurgeDone
    BY <2>5, <1>1 DEF PurgeSnapshot, PurgeDone, Still, Dying, fileVars
  <2> QED
    BY <2>1, <2>2, <2>3, <2>4, <2>5 DEF Quiet, Purge
<1>3. ASSUME NEW a \in Apps PROVE Joined(a)' => Joined(a)
  BY <1>1 DEF Joined
<1> QED
  BY <1>2, <1>3, StillWoken DEF Waking

LEMMA MonitorWaking ==
    ASSUME StopInv, Waking, Monitors
    PROVE  Waking'
<1> USE DEF StopInv, IInv, useVars, fileVars
<1>1. MonitorEffect
  BY MonitorStep
<1>2. ASSUME NEW a \in Apps PROVE Joined(a)' => Joined(a)
  BY <1>1, NamesFacts DEF MonitorEffect, Joined, reqVars
<1>3. ASSUME NEW b \in Apps, NEW t \in {"idle", "restart", "proxy"},
             NEW from, NEW to, Step(b, t, from, to),
             \/ UNCHANGED reason
             \/ \E err \in {"nil", "err"} : Return(b, t, from, err),
             UNCHANGED <<ready, reader>>
      PROVE  \A a \in Apps : Still(a)
  <2>1. \A a \in Apps : /\ pc'[a]["watch"] = pc[a]["watch"]
                        /\ pc'[a]["poll"] = pc[a]["poll"]
    BY <1>3, OthersWait DEF Threads
  <2>2. \A a \in Apps : Dying(a) => Dying(a)'
    BY <1>3, ReturnKeeps DEF Dying, Threads
  <2> QED
    BY <1>1, <1>3, <2>1, <2>2 DEF Still, MonitorEffect
<1>4. ASSUME NEW b \in Apps, Idle(b) PROVE \A a \in Apps : Still(a)
  BY <1>3, <1>4 DEF Idle, IdleTick, IdleSignal, IdleRemove, IdleDying, Return
<1>5. ASSUME NEW b \in Apps, Restart(b) \/ RestartStatFails(b)
      PROVE  \A a \in Apps : Still(a)
  BY <1>3, <1>5 DEF Restart, RestartCreate, RestartTouched, RestartRemove,
                    RestartDying, RestartStatFails, Return
<1>6. ASSUME NEW b \in Apps, ProxyDying(b) PROVE \A a \in Apps : Still(a)
  BY <1>3, <1>6 DEF ProxyDying, Return
<1>7. ASSUME NEW b \in Apps, Poll(b) PROVE Waking'
  <2>1. ASSUME NEW a \in Apps, a # b PROVE Still(a)
    <3>1. PollDial(b) \/ PollDying(b)
      BY <1>7 DEF Poll
    <3>2. /\ pc'[a]["watch"] = pc[a]["watch"]
          /\ pc'[a]["poll"] = pc[a]["poll"]
      BY <2>1, <3>1, OthersWait DEF PollDial, PollDying, Return, Threads
    <3>3. Dying(a) => Dying(a)'
      BY <3>1, ReturnKeeps DEF PollDial, PollDying, Threads
    <3>4. ready'[a] = ready[a] /\ UNCHANGED <<reader, crashed>>
      BY <2>1, <3>1 DEF PollDial, PollDying, TypeOK
    <3> QED
      BY <3>2, <3>3, <3>4 DEF Still
  <2>2. /\ pc'[b]["watch"] = pc[b]["watch"] /\ pc'[b]["poll"] = "done"
        /\ Dying(b) => Dying(b)'
        /\ ready[b] => ready'[b]
        /\ ready'[b] \/ Dying(b)'
        /\ UNCHANGED <<reader, crashed>>
        /\ pc[b]["poll"] = "dial"
    <3>1. CASE PollDial(b)
      <4>1. ready'[b] /\ UNCHANGED <<reader, crashed>>
        BY <3>1 DEF PollDial, TypeOK
      <4>2. /\ pc'[b]["watch"] = pc[b]["watch"]
            /\ pc[b]["poll"] = "dial" /\ pc'[b]["poll"] = "done"
        BY <3>1, OthersWait DEF PollDial, Return, Threads
      <4>3. Dying(b) => Dying(b)'
        BY <3>1, ReturnKeeps DEF PollDial, Threads
      <4> QED
        BY <4>1, <4>2, <4>3
    <3>2. CASE PollDying(b)
      <4>1. UNCHANGED <<ready, reader, crashed>>
        BY <3>2 DEF PollDying
      <4>2. /\ pc'[b]["watch"] = pc[b]["watch"]
            /\ pc[b]["poll"] = "dial" /\ pc'[b]["poll"] = "done"
        BY <3>2, OthersWait DEF PollDying, Return, Threads
      <4>3. Dying(b)'
        BY <3>2, ReturnKeeps DEF PollDying, Threads
      <4> QED
        BY <4>1, <4>2, <4>3
    <3> QED
      BY <1>7, <3>1, <3>2 DEF Poll
  <2>3. Woken(b)'
    BY <1>2, <2>2 DEF Waking, Woken, Guarded, Up
  <2> QED
    BY <1>2, <2>1, <2>3, StillWoken DEF Waking
<1> QED
  BY <1>2, <1>4, <1>5, <1>6, <1>7, StillWoken DEF Monitors, Waking

LEMMA WatchWaking ==
    ASSUME StopInv, Waking, NEW b \in Apps, Watch(b)
    PROVE  Waking'
<1> USE DEF StopInv, IInv, useVars, fileVars
<1>1. PICK from, to : Step(b, "watch", from, to)
  BY DEF Watch, WatchEOF, WatchDying, WatchSignal, WatchKillRemove, WatchWait,
         WatchRemove, WatchReturn, Return
<1>2. /\ \A a \in Apps : pc'[a]["poll"] = pc[a]["poll"]
      /\ \A a \in Apps : a # b => pc'[a]["watch"] = pc[a]["watch"]
  BY <1>1, OthersWait DEF Threads
<1>3. \A a \in Apps : Dying(a) => Dying(a)'
  BY ReturnKeeps
  DEF Watch, WatchEOF, WatchDying, WatchSignal, WatchKillRemove, WatchWait,
      WatchRemove, WatchReturn, Dying, Threads
<1>4. /\ UNCHANGED <<ready, rpc, rapp>>
      /\ \A n \in Names : apps'[n] \in {apps[n], None}
      /\ \A a \in Apps : a # b => /\ reader'[a] = reader[a]
                                  /\ crashed'[a] = crashed[a]
  BY DEF Watch, WatchEOF, WatchDying, WatchSignal, WatchKillRemove, WatchWait,
         WatchRemove, WatchReturn, Remove, Without, TypeOK, callers, reqVars,
         poolVars
<1>5. ASSUME NEW a \in Apps PROVE Joined(a)' => Joined(a)
  BY <1>4, NamesFacts DEF Joined
<1>6. ASSUME NEW a \in Apps, a # b PROVE Still(a)
  BY <1>2, <1>3, <1>4, <1>6 DEF Still
<1>7. pc[b]["watch"] # "off" /\ pc'[b]["watch"] # "off" /\ Guarded(b)'
  <2>1. CASE WatchEOF(b)
    <3>1. crashed'[b] /\ pc[b]["watch"] = "select"
          /\ pc'[b]["watch"] = "signal"
      BY <2>1, OthersWait DEF WatchEOF, Threads, TypeOK
    <3> QED
      BY <3>1 DEF Guarded
  <2>2. CASE WatchDying(b)
    <3>1. Dying(b)' /\ pc[b]["watch"] = "select"
          /\ pc'[b]["watch"] = "signal"
      BY <1>3, <2>2, OthersWait DEF WatchDying, Threads
    <3> QED
      BY <3>1 DEF Guarded
  <2>3. CASE \/ WatchSignal(b) \/ WatchKillRemove(b) \/ WatchWait(b)
             \/ WatchRemove(b)
    <3>1. /\ pc[b]["watch"] \in {"signal", "remove", "wait", "remove2"}
          /\ pc'[b]["watch"] \in {"remove", "wait", "remove2", "unlink"}
      BY <2>3, OthersWait
      DEF WatchSignal, WatchKillRemove, WatchWait, WatchRemove, Threads
    <3>2. UNCHANGED crashed
      BY <2>3 DEF WatchSignal, WatchKillRemove, WatchWait, WatchRemove
    <3>3. Dying(b) \/ crashed[b]
      BY <3>1 DEF Waking, Woken, Guarded
    <3> QED
      BY <1>3, <3>1, <3>2, <3>3 DEF Guarded
  <2>4. CASE WatchReturn(b)
    <3>1. pc[b]["watch"] = "unlink" /\ pc'[b]["watch"] = "done"
      BY <2>4, OthersWait DEF WatchReturn, Return, Threads
    <3>2. CASE crashed[b]
      BY <2>4, <3>1, <3>2, ReturnKeeps DEF WatchReturn, Guarded, Threads
    <3>3. CASE ~crashed[b]
      BY <1>3, <3>1, <3>3 DEF Waking, Woken, Guarded
    <3> QED
      BY <3>2, <3>3
  <2> QED
    BY <2>1, <2>2, <2>3, <2>4 DEF Watch
<1>8. Woken(b)'
  BY <1>2, <1>3, <1>4, <1>5, <1>7 DEF Waking, Woken, Up
<1> QED
  BY <1>5, <1>6, <1>8, StillWoken DEF Waking

(* The steps that move nobody, and those that move one app only.            *)
LEMMA NobodyMoves ==
    ASSUME Waking, UNCHANGED <<pc, reason, ready, reader, crashed>>,
           \A a \in Apps : Joined(a)' => Joined(a)
    PROVE  Waking'
<1>1. ASSUME NEW a \in Apps PROVE Still(a)
  BY DEF Still, Dying
<1> QED
  BY <1>1, StillWoken DEF Waking

LEMMA OneMoves ==
    ASSUME Waking, NEW b \in Apps, Woken(b)',
           \A a \in Apps \ {b} : Still(a) /\ (Joined(a)' => Joined(a))
    PROVE  Waking'
BY StillWoken DEF Waking

LEMMA RequestWaking ==
    ASSUME StopInv, Waking, Requests
    PROVE  Waking'
<1> USE NamesFacts
<1> USE DEF StopInv, IInv, TypeOK
<1> PICK r \in Reqs : \/ \E h \in Hosts : Arrive(r, h)
                      \/ Lookup(r) \/ Wait(r) \/ Proxied(r)
  BY DEF Requests
<1> DEFINE Quietly == UNCHANGED <<pc, reason, ready, reader, crashed>>
<1> HIDE DEF Quietly
<1>1. CASE \E h \in Hosts : Arrive(r, h)
  <2>1. Quietly
    BY <1>1 DEF Arrive, Quietly, tombVars, useVars, fileVars
  <2>2. ASSUME NEW a \in Apps PROVE Joined(a)' => Joined(a)
    BY <1>1 DEF Arrive, Joined, poolVars
  <2> QED
    BY <2>1, <2>2, NobodyMoves DEF Quietly
<1>2. CASE LookupHit(r)
  <2>1. Quietly
    BY <1>2 DEF LookupHit, Quietly, tombVars, useVars, fileVars
  <2>2. ASSUME NEW a \in Apps PROVE Joined(a)' => Joined(a)
    BY <1>2 DEF LookupHit, Got, Joined, Launching, poolVars
  <2> QED
    BY <2>1, <2>2, NobodyMoves DEF Quietly
<1>3. CASE LookupShared(r)
  <2>1. Quietly
    BY <1>3 DEF LookupShared, Quietly, tombVars, useVars, fileVars
  <2>2. ASSUME NEW a \in Apps PROVE Joined(a)' => Joined(a)
    BY <1>3 DEF LookupShared, Got, Entered, Joined, Launching
  <2> QED
    BY <2>1, <2>2, NobodyMoves DEF Quietly
<1>4. CASE LookupFails(r)
  <2>1. Quietly
    BY <1>4 DEF LookupFails, Quietly, tombVars, useVars, fileVars
  <2>2. ASSUME NEW a \in Apps PROVE Joined(a)' => Joined(a)
    BY <1>4 DEF LookupFails, Joined, poolVars
  <2> QED
    BY <2>1, <2>2, NobodyMoves DEF Quietly
<1>5. ASSUME NEW b \in Apps, LaunchApp(r, b) PROVE Waking'
  <2>1. UNCHANGED <<reason, ready, crashed, apps>>
    BY <1>5 DEF LaunchApp
  <2>2. ASSUME NEW a \in Apps PROVE Joined(a)' => Joined(a)
    BY <1>5 DEF LaunchApp, Joined
  <2>3. pc' = [pc EXCEPT ![b]["watch"] = "select"]
        /\ reader' = [reader EXCEPT ![b] = "reading"]
    BY <1>5 DEF LaunchApp
  <2>4. ASSUME NEW a \in Apps, a # b PROVE Still(a)
    BY <2>1, <2>3, <2>4 DEF Still, Dying
  <2>5. /\ pc'[b]["watch"] = "select" /\ reader'[b] = "reading"
        /\ pc'[b]["poll"] = pc[b]["poll"]
    BY <2>3 DEF Threads
  <2>6. Woken(b)'
    BY <2>1, <2>2, <2>5 DEF Waking, Woken, Guarded, Up, Dying
  <2> QED
    BY <2>2, <2>4, <2>6, OneMoves
<1>6. CASE Publish(r)
  <2> PICK b \in Apps : b = rapp[r]
    BY <1>6 DEF Publish, Launching
  <2>1. pc[b]["watch"] \in {"select", "signal", "remove"}
    BY <1>6 DEF Publish, Launching
  <2>2. UNCHANGED <<reason, ready, reader, crashed>>
    BY <1>6 DEF Publish, useVars, fileVars
  <2>3. /\ \A a \in Apps : a # b => pc'[a] = pc[a]
        /\ pc'[b]["watch"] = pc[b]["watch"] /\ pc'[b]["poll"] = "dial"
    BY <1>6, <2>1, PublishStarts
  <2>4. ASSUME NEW a \in Apps, a # b PROVE Joined(a)' => Joined(a)
    BY <1>6, <2>4 DEF Publish, Got, Entered, Joined, Launching
  <2>5. ASSUME NEW a \in Apps, a # b PROVE Still(a)
    BY <2>2, <2>3, <2>5 DEF Still, Dying
  <2>6. Woken(b)'
    BY <2>1, <2>2, <2>3 DEF Waking, Woken, Guarded, Up, Dying
  <2> QED
    BY <2>4, <2>5, <2>6, OneMoves
<1>7. ASSUME NEW b \in Apps, ReadProxy(r, b) PROVE Waking'
  <2>1. UNCHANGED <<reason, reader, crashed>>
    BY <1>7 DEF ReadProxy, fileVars
  <2>2. pc' = [pc EXCEPT ![b]["proxy"] = "dying"]
        /\ ready' = [ready EXCEPT ![b] = TRUE]
    BY <1>7 DEF ReadProxy
  <2>3. \A a \in Apps : /\ pc'[a]["watch"] = pc[a]["watch"]
                        /\ pc'[a]["poll"] = pc[a]["poll"]
    BY <2>2 DEF Threads
  <2>4. ASSUME NEW a \in Apps, a # b PROVE Joined(a)' => Joined(a)
    BY <1>7, <2>4 DEF ReadProxy, Got, Entered, Joined, Missing,
                            Launching
  <2>5. ASSUME NEW a \in Apps, a # b PROVE Still(a)
    BY <2>1, <2>2, <2>3, <2>5 DEF Still, Dying
  <2>6. ready'[b]
    BY <2>2
  <2>7. pc[b]["watch"] = "off"
    BY <1>7 DEF ReadProxy, Unlaunched, Threads
  <2>8. Woken(b)'
    BY <2>3, <2>6, <2>7 DEF Woken
  <2> QED
    BY <2>4, <2>5, <2>8, OneMoves
<1>8. CASE Wait(r) \/ Proxied(r)
  <2>1. Quietly
    BY <1>8 DEF Wait, WaitReady, WaitDying, Proxied, Quietly, tombVars,
                useVars, fileVars
  <2>2. ASSUME NEW a \in Apps PROVE Joined(a)' => Joined(a)
    <3>1. UNCHANGED apps
      BY <1>8 DEF Wait, WaitReady, WaitDying, Proxied, poolVars
    <3>2. \A q \in Reqs : q # r => rpc'[q] = rpc[q] /\ rapp'[q] = rapp[q]
      BY <1>8 DEF Wait, WaitReady, WaitDying, Proxied, Answered
    <3>3. /\ rpc[r] \in {"wait", "proxy"}
          /\ rpc'[r] = "idle" \/ rapp'[r] = rapp[r]
      BY <1>8 DEF Wait, WaitReady, WaitDying, Proxied, Answered
    <3> QED
      BY <3>1, <3>2, <3>3 DEF Joined
  <2> QED
    BY <2>1, <2>2, NobodyMoves DEF Quietly
<1> QED
  BY <1>1, <1>2, <1>3, <1>4, <1>5, <1>6, <1>7, <1>8 DEF Lookup

LEMMA SpecWaking == Spec => [](StopInv /\ Waking)
<1>1. Init => Waking
  BY NamesFacts
  DEF Init, Waking, Woken, Joined, Threads
<1>2. StopInv /\ Waking /\ [Next]_vars => Waking'
  <2> SUFFICES ASSUME StopInv, Waking, [Next]_vars PROVE Waking'
    OBVIOUS
  <2>1. CASE UNCHANGED vars
    <3>1. \A a \in Apps : Still(a)
      BY <2>1 DEF vars, tombVars, useVars, fileVars, Still, Dying
    <3>2. ASSUME NEW a \in Apps PROVE Joined(a)' => Joined(a)
      BY <2>1 DEF vars, poolVars, callers, reqVars, Joined
    <3> QED
      BY <3>1, <3>2, StillWoken DEF Waking
  <2> QED
    BY <2>1, StepCases, QuietWaking, MonitorWaking, WatchWaking,
       RequestWaking
<1> QED
  BY <1>1, <1>2, SpecStopInv, PTL DEF Spec

(* A request never waits for an app that nobody would wake it from: the     *)
(* poller dials on, and watch listens for the end of the process or is on   *)
(* its way to end the tomb with an error (app.go:132-156, 196-210, 337-362).*)
THEOREM NoLostWakeup == Spec => []WaitersAreWoken
<1>1. StopInv /\ Waking => WaitersAreWoken
  <2> SUFFICES ASSUME StopInv, Waking, NEW r \in Reqs, rpc[r] = "wait",
                      ~ready[rapp[r]], ~Dying(rapp[r])
               PROVE  LET a == rapp[r] IN
                      /\ pc[a]["poll"] = "dial"
                      /\ \/ /\ pc[a]["watch"] = "select"
                            /\ reader[a] \in {"reading", "sending"}
                         \/ pc[a]["watch"] # "done" /\ crashed[a]
    BY DEF WaitersAreWoken
  <2>1. rapp[r] \in Apps /\ Joined(rapp[r])
    BY DEF StopInv, IInv, Launching, Joined
  <2> QED
    BY <2>1 DEF Waking, Woken, Guarded, Up
<1> QED
  BY <1>1, SpecWaking, PTL
==============================================================================
