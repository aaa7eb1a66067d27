-------------------------------- MODULE Watch --------------------------------
(***************************************************************************)
(* An app's restart monitor and the file it watches (restartMonitor of     *)
(* dev/app.go, watch.Watch of watch/watch_linux.go and watch_darwin.go):   *)
(* restart.txt is created, its time is read, it is watched, and every      *)
(* notification makes the monitor compare its time with the one first read.*)
(* Meanwhile the user touches, removes and replaces the file, which may     *)
(* leave it older than it was: mv and cp -p keep the time of their source.  *)
(*                                                                         *)
(* AppPool has this monitor in less detail: its `changed' is a             *)
(* notification that finds the file newer.                                 *)
(***************************************************************************)
EXTENDS Naturals

CONSTANTS
    Systems,  \* the watchers compiled in: by path (TRUE) or by inode
    Files,    \* the files that have been called restart.txt one by one
    MaxTime,  \* bound on the times that files carry
    None

ASSUME WatchAssumption ==
    /\ Systems \subseteq BOOLEAN
    /\ None \notin Files
    /\ MaxTime \in Nat

VARIABLES
    byPath,   \* fsevents follow the path, inotify the file (the inode)
    file,     \* the file called restart.txt, or None
    mtime,    \* its ModTime
    pc,       \* what the monitor does next
    lastStat, \* ModTime of lastStat
    watched,  \* the file the watcher is registered for
    event,    \* there are notifications to receive
    dying,    \* App.t.Dying() is closed
    called,   \* change() was called: the app has been told to restart
    used,     \* history: the Files that were restart.txt
    written,  \* history: the user wrote the file after os.Create
    early,    \* history: last between the Stat and the registration
    swapped,  \* history: it was a file no watcher is on, and no newer one
    owed      \* history: a notified write made it newer, and it still is

fileVars    == <<file, mtime, used>>
world       == <<byPath, fileVars>>
monitorVars == <<pc, lastStat, dying, called>>
history     == <<written, early, swapped, owed>>
vars == <<world, monitorVars, watched, event, history>>

(* Receiving a notification and the Stat after it are two steps.            *)
Steps == {"create", "stat", "add", "select", "check", "returned"}

Listening == pc \in {"select", "check"}

TypeOK ==
    /\ byPath \in Systems
    /\ used \in SUBSET Files
    /\ file \in used \cup {None}
    /\ mtime \in 0..MaxTime
    /\ pc \in Steps
    /\ lastStat \in 0..MaxTime
    /\ watched \in used \cup {None}
    /\ event \in BOOLEAN
    /\ ~Listening /\ pc # "returned" => watched = None /\ ~event
    /\ dying \in BOOLEAN
    /\ called \in BOOLEAN
    /\ written \in BOOLEAN
    /\ early \in BOOLEAN
    /\ swapped \in BOOLEAN
    /\ owed \in BOOLEAN

(* restart.txt may be there from an earlier launch.                         *)
Init ==
    /\ byPath \in Systems
    /\ file \in Files \cup {None}
    /\ used = {file} \ {None}
    /\ mtime \in 0..MaxTime
    /\ pc = "create"
    /\ lastStat = 0
    /\ watched = None
    /\ event = FALSE
    /\ dying = FALSE
    /\ called = FALSE
    /\ written = FALSE
    /\ early = FALSE
    /\ swapped = FALSE
    /\ owed = FALSE

------------------------------------------------------------------------------
(* The file.                                                                *)

(* File f is restart.txt from now on, with time t: the one that is there    *)
(* rewritten, or another one in its place; a file once gone does not return.*)
Put(f, t) ==
    /\ f \in Files
    /\ f \in used => f = file
    /\ file' = f
    /\ mtime' = t
    /\ used' = used \cup {f}

(* Who is notified of what happens to restart.txt: inotify watches an inode *)
(* and forgets it when the inode goes, fsevents watch whatever the path     *)
(* leads to.                                                                *)
Heard == Listening /\ (byPath \/ (file # None /\ watched = file))

Notify ==
    /\ event' = (event \/ Heard)
    /\ watched' = IF byPath \/ watched = file' THEN watched ELSE None

(* restart.txt is made or written over, in place (touch, touch -d, cp -p)   *)
(* or by a file moved there (mv, an editor), with any time.                 *)
Write(f, t) ==
    /\ Put(f, t)
    /\ Notify
    /\ written' = TRUE
    /\ early' = (pc = "add")
    /\ swapped' = \/ swapped
                  \/ Listening /\ ~byPath /\ watched # f /\ t <= lastStat
    /\ owed' = ((owed \/ Heard) /\ t > lastStat)
    /\ UNCHANGED <<byPath, monitorVars>>

(* A notification that is no write: permissions, another link.              *)
Attrib ==
    /\ file # None
    /\ Heard
    /\ event' = TRUE
    /\ UNCHANGED <<world, monitorVars, watched, history>>

Remove ==
    /\ file # None
    /\ file' = None
    /\ Notify
    /\ UNCHANGED <<byPath, mtime, used, monitorVars, history>>

------------------------------------------------------------------------------
(* The monitor.                                                             *)

(* Watch returns an error or nil; either way the watcher is closed.         *)
Return ==
    /\ pc' = "returned"
    /\ UNCHANGED <<world, lastStat, dying, called, watched, event, history>>

(* restartMonitor: MkdirAll and os.Create, which empties the file that is   *)
(* there or makes one.                                                      *)
Create ==
    /\ pc = "create"
    /\ \E f \in Files, t \in 0..MaxTime : Put(f, t) /\ file \in {None, f}
    /\ pc' = "stat"
    /\ written' = FALSE
    /\ UNCHANGED <<byPath, lastStat, dying, called, watched, event, early,
                   swapped, owed>>

(* Mutant: the watcher is registered before the file is read.               *)
StatAdds ==
    /\ pc = "stat"
    /\ file # None
    /\ lastStat' = mtime
    /\ watched' = file
    /\ pc' = "add"
    /\ UNCHANGED <<world, dying, called, event, history>>

Stat ==
    /\ pc = "stat"
    /\ file # None
    /\ lastStat' = mtime
    /\ pc' = "add"
    /\ UNCHANGED <<world, dying, called, watched, event, history>>

(* NewWatcher and watcher.Add; EventStream.Start.                           *)
Add ==
    /\ pc = "add"
    /\ file # None
    /\ watched' = file
    /\ pc' = "select"
    /\ UNCHANGED <<world, lastStat, dying, called, event, history>>

(* The file cannot be made or is gone, or the system has no watcher left.   *)
Fail ==
    /\ \/ pc \in {"create", "add"}
       \/ pc = "stat" /\ file = None
    /\ Return

(* case <-watcher.Events: what has come in the meantime is one              *)
(* notification here; a second one would only make the Stat happen twice.   *)
Receive ==
    /\ pc = "select"
    /\ event
    /\ event' = FALSE
    /\ pc' = "check"
    /\ UNCHANGED <<world, lastStat, dying, called, watched, history>>

(* Mutant: !Before instead of After.                                        *)
NotOlder == mtime >= lastStat

(* cur.ModTime().After(lastStat.ModTime()).                                 *)
Newer == mtime > lastStat

(* Mutant: a failed Stat is skipped.                                        *)
CheckSkips ==
    /\ pc = "check"
    /\ called' = (called \/ (file # None /\ Newer))
    /\ pc' = "select"
    /\ UNCHANGED <<world, lastStat, dying, watched, event, history>>

(* The Stat after a notification; lastStat stays what it was.               *)
Check ==
    /\ pc = "check"
    /\ file # None
    /\ called' = (called \/ Newer)
    /\ pc' = "select"
    /\ UNCHANGED <<world, lastStat, dying, watched, event, history>>

CheckFails ==
    /\ pc = "check"
    /\ file = None
    /\ Return

(* case <-done.                                                             *)
Done ==
    /\ pc = "select"
    /\ dying
    /\ Return

(* The app dies, of change() or of something else.                          *)
Die ==
    /\ ~dying
    /\ dying' = TRUE
    /\ UNCHANGED <<world, pc, lastStat, called, watched, event, history>>

------------------------------------------------------------------------------
User == \/ \E f \in Files, t \in 0..MaxTime : Write(f, t)
        \/ Attrib \/ Remove

Monitor == \/ Create \/ Stat \/ Add \/ Fail \/ Receive \/ Check \/ CheckFails
           \/ Done

Next == User \/ Monitor \/ Die

Spec == Init /\ [][Next]_vars

(* The monitor's goroutine runs, and notifications are delivered to it.     *)
FairSpec == Spec /\ WF_vars(Monitor)

------------------------------------------------------------------------------
(* Safety.                                                                  *)

(* A file newer than lastStat is only overlooked if it was last written     *)
(* between the first Stat and the registration of the watcher, or, where    *)
(* the inode is watched, if another file that was no newer took its place   *)
(* before, after which nothing is notified any more                         *)
(* (watch_linux.go:10-37).                                                  *)
OnlyEarlyTouchesAreLost ==
    pc = "select" /\ ~event /\ ~called /\ file # None /\ Newer =>
        early \/ (swapped /\ ~byPath)

(* The app is not told to restart on account of the monitor's own creation  *)
(* of restart.txt or of a notification that is no write: it would restart   *)
(* for ever (app.go:185-191, watch_linux.go:35).                            *)
NoSpuriousRestart == [][~called /\ called' => written]_vars

(* Liveness.                                                                *)

(* A touch of the file that is watched, at a later time, makes the app      *)
(* restart, even if the file is removed or replaced before the monitor      *)
(* looks: it is told to, or the monitor's return ends it (README.md:221).   *)
(* Only if what is there by then is no newer than lastStat is it not owed   *)
(* a restart any more: the monitor cannot tell that there was a touch.      *)
TouchRestarts == owed ~> called \/ pc = "returned" \/ ~owed

=============================================================================
