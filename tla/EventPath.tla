------------------------------ MODULE EventPath ------------------------------
(***************************************************************************)
(* How an event travels (dev/events.go, dev/rpc_events.go): the goroutine  *)
(* that adds it appends it to the ring of events under the ring's mutex,   *)
(* and then hands it to the websocket hub, which broadcasts it.  Lookups   *)
(* do both with the pool lock held.  GET /events writes the ring to its    *)
(* client with the ring's mutex held, GET /status takes the pool lock, and *)
(* the hub exists only once main has called StartRPC, on macOS.            *)
(*                                                                         *)
(* The ring and the hub are modules of their own (LineBuffer, Hub).  Here  *)
(* the ring is its lock and the list of all events, and the hub is the     *)
(* list of what Run has taken: Hub shows that no client holds Run up.      *)
(***************************************************************************)
EXTENDS Naturals, Sequences, FiniteSets

CONSTANTS
    Requests,   \* goroutines that add events inside lookupApp
    Outputs,    \* goroutines that read the output of an app: console_log
    Signals,    \* the goroutine that purges on SIGUSR1, from the start on
    Statuses,   \* GET /status requests
    Viewers,    \* GET /events requests
    CallsStartRPC, \* main_darwin.go does, main_linux.go does not
    MaxEvents,  \* bound on the events added
    None

Adders == Requests \cup Outputs \cup Signals
Threads == Adders \cup Statuses \cup Viewers

ASSUME EventPathAssumption ==
    /\ None \notin Threads
    /\ CallsStartRPC \in BOOLEAN
    /\ MaxEvents \in Nat
    /\ Requests \cap (Outputs \cup Signals \cup Statuses \cup Viewers) = {}
    /\ Outputs \cap (Signals \cup Statuses \cup Viewers) = {}
    /\ Signals \cap (Statuses \cup Viewers) = {}
    /\ Statuses \cap Viewers = {}

VARIABLES
    made,     \* StartRPC has been called: RpcService.wsChannel is not nil
    running,  \* the goroutine of Hub.Run has started
    serving,  \* the HTTP servers listen
    pc,       \* where each goroutine is
    pool,     \* who holds AppPool.lock
    ring,     \* the viewer that holds LineBuffer.lock of the events, or None
    events,   \* who added each event, in the order of the ring
    mine,     \* the event a goroutine is about to broadcast
    sent,     \* the events Run has taken, in that order
    dropped,  \* the events that are not JSON: the hub never gets them
    panicked  \* who sent to a hub that does not exist

main == <<made, running, serving>>
eventVars == <<mine, sent, dropped>>
vars == <<main, pc, pool, ring, events, mine, sent, dropped, panicked>>

Places == {"idle", "lock", "append", "send", "unlock", "write", "stalled"}

TypeOK ==
    /\ made \in BOOLEAN /\ running \in BOOLEAN /\ serving \in BOOLEAN
    /\ pc \in [Threads -> Places]
    /\ pool \in Requests \cup {None}
    /\ ring \in Viewers \cup {None}
    /\ events \in Seq(Adders) /\ Len(events) <= MaxEvents
    /\ mine \in [Adders -> 0 .. MaxEvents]
    /\ sent \in Seq(1 .. MaxEvents)
    /\ dropped \subseteq 1 .. MaxEvents
    /\ panicked \subseteq Adders

Init ==
    /\ made = FALSE /\ running = FALSE /\ serving = FALSE
    /\ pc = [g \in Threads |-> "idle"]
    /\ pool = None
    /\ ring = None
    /\ events = <<>>
    /\ mine = [g \in Adders |-> 0]
    /\ sent = <<>>
    /\ dropped = {}
    /\ panicked = {}

(* net/http recovers the panic of a request, nobody any other.              *)
Up == panicked \subseteq Requests

Move(g, from, to) ==
    /\ Up
    /\ pc[g] = from
    /\ pc' = [pc EXCEPT ![g] = to]

------------------------------------------------------------------------------
(* main: the signal handlers are installed first, then StartRPC makes the   *)
(* hub and starts Run, then the servers listen.                             *)

StartRPC ==
    /\ Up
    /\ CallsStartRPC /\ ~made
    /\ made' = TRUE
    /\ UNCHANGED <<running, serving, pc, pool, ring, events, mine, sent,
                   dropped, panicked>>

RunStarts ==
    /\ Up
    /\ made /\ ~running
    /\ running' = TRUE
    /\ UNCHANGED <<made, serving, pc, pool, ring, events, mine, sent,
                   dropped, panicked>>

(* Mutant: the servers listen before the RPC service is set up.             *)
ListenEarly ==
    /\ Up
    /\ ~serving
    /\ serving' = TRUE
    /\ UNCHANGED <<made, running, pc, pool, ring, events, mine, sent,
                   dropped, panicked>>

Listen ==
    /\ Up
    /\ CallsStartRPC => made
    /\ ~serving
    /\ serving' = TRUE
    /\ UNCHANGED <<made, running, pc, pool, ring, events, mine, sent,
                   dropped, panicked>>

------------------------------------------------------------------------------
(* Events.Add, and lookupApp around it.                                     *)

(* Requests and apps exist once the servers listen, signals before.         *)
Active(g) == g \in Signals \/ serving

Begin(g) ==
    /\ Active(g)
    /\ Move(g, "idle", IF g \in Requests \cup Statuses THEN "lock"
                                                       ELSE "append")
    /\ UNCHANGED <<main, pool, ring, events, eventVars, panicked>>

(* Mutant: the lookup adds its event before it takes the lock.              *)
LockLate(g) ==
    /\ Move(g, "lock", "append")
    /\ UNCHANGED <<main, pool, ring, events, eventVars, panicked>>

Lock(g) ==
    /\ Move(g, "lock", "append")
    /\ pool = None
    /\ pool' = g
    /\ UNCHANGED <<main, ring, events, eventVars, panicked>>

AppendEvent(g) ==
    /\ Move(g, "append", "send")
    /\ ring = None
    /\ Len(events) < MaxEvents
    /\ events' = Append(events, g)
    /\ mine' = [mine EXCEPT ![g] = Len(events')]
    /\ UNCHANGED <<main, pool, ring, sent, dropped, panicked>>

(* lookupApp finds the app in the pool, or the bound of the model: nothing  *)
(* is added.                                                                *)
NoEvent(g) ==
    /\ g \in Requests \/ Len(events) = MaxEvents
    /\ Move(g, "append", IF g \in Requests THEN "unlock" ELSE "idle")
    /\ UNCHANGED <<main, pool, ring, events, eventVars, panicked>>

(* Mutant: handleEvent drops the event instead of waiting for Run.          *)
SendDrops(g) ==
    /\ Move(g, "send", IF g \in Requests THEN "unlock" ELSE "idle")
    /\ IF running THEN sent' = Append(sent, mine[g]) ELSE UNCHANGED sent
    /\ mine' = [mine EXCEPT ![g] = 0]
    /\ UNCHANGED <<main, pool, ring, events, dropped, panicked>>

(* h.send <- message meets Run.                                             *)
Send(g) ==
    /\ Move(g, "send", IF g \in Requests THEN "unlock" ELSE "idle")
    /\ running
    /\ sent' = Append(sent, mine[g])
    /\ mine' = [mine EXCEPT ![g] = 0]
    /\ UNCHANGED <<main, pool, ring, events, dropped, panicked>>

(* json.Unmarshal fails: a name, a path, an error or a line of an app,      *)
(* quoted by %#v, need not be JSON.                                         *)
Unparsed(g) ==
    /\ Move(g, "send", IF g \in Requests THEN "unlock" ELSE "idle")
    /\ dropped' = dropped \cup {mine[g]}
    /\ mine' = [mine EXCEPT ![g] = 0]
    /\ UNCHANGED <<main, pool, ring, events, sent, panicked>>

(* svc.wsChannel is nil.  A request unlocks on its way out.                 *)
SendPanics(g) ==
    /\ Move(g, "send", IF g \in Requests THEN "unlock" ELSE "send")
    /\ ~made
    /\ panicked' = panicked \cup {g}
    /\ UNCHANGED <<main, pool, ring, events, eventVars>>

(* Mutant: a return that forgets the lock.                                  *)
UnlockForgets(g) ==
    /\ Move(g, "unlock", "idle")
    /\ UNCHANGED <<main, pool, ring, events, eventVars, panicked>>

Unlock(g) ==
    /\ Move(g, "unlock", "idle")
    /\ pool' = None
    /\ UNCHANGED <<main, ring, events, eventVars, panicked>>

------------------------------------------------------------------------------
(* GET /status and GET /events.                                             *)

(* Mutant: ForApps returns with the lock held.                              *)
StatusForgets(s) ==
    /\ Move(s, "lock", "idle")
    /\ pool = None
    /\ pool' = s
    /\ UNCHANGED <<main, ring, events, eventVars, panicked>>

(* ForApps: the logs are copied to memory with the pool lock held.          *)
Status(s) ==
    /\ Move(s, "lock", "idle")
    /\ pool = None
    /\ UNCHANGED <<main, pool, ring, events, eventVars, panicked>>

View(v) ==
    /\ serving
    /\ Move(v, "idle", "write")
    /\ ring = None
    /\ ring' = v
    /\ UNCHANGED <<main, pool, events, eventVars, panicked>>

(* All lines are written, at the pace of the client, or it is gone and a    *)
(* write fails.                                                             *)
ViewDone(v) ==
    /\ Move(v, "write", "idle")
    /\ ring' = None
    /\ UNCHANGED <<main, pool, events, eventVars, panicked>>

(* The client stops reading for good: the write never returns.              *)
ViewStalls(v) ==
    /\ Move(v, "write", "stalled")
    /\ UNCHANGED <<main, pool, ring, events, eventVars, panicked>>

Add(g) == \/ Begin(g) \/ AppendEvent(g) \/ NoEvent(g) \/ Send(g)
          \/ Unparsed(g) \/ SendPanics(g)

Next ==
    \/ StartRPC \/ RunStarts \/ Listen
    \/ \E g \in Adders : Add(g)
    \/ \E r \in Requests : Lock(r) \/ Unlock(r)
    \/ \E s \in Statuses : Begin(s) \/ Status(s)
    \/ \E v \in Viewers : View(v) \/ ViewDone(v) \/ ViewStalls(v)

Spec == Init /\ [][Next]_vars

(* main gets on, goroutines run, and Go's mutexes pass to the goroutine     *)
(* that has waited longest, so none waits for ever for one that is freed    *)
(* again and again.  A client of GET /events that does not stop reading     *)
(* gets all of it.                                                          *)
Fairness ==
    /\ WF_vars(StartRPC) /\ WF_vars(RunStarts) /\ WF_vars(Listen)
    /\ \A g \in Adders : /\ SF_vars(AppendEvent(g) \/ NoEvent(g))
                         /\ WF_vars(Send(g) \/ Unparsed(g))
    /\ \A r \in Requests : SF_vars(Lock(r)) /\ WF_vars(Unlock(r))
    /\ \A s \in Statuses : SF_vars(Status(s))
    /\ \A v \in Viewers : WF_vars(ViewDone(v))

FairSpec == Spec /\ Fairness

------------------------------------------------------------------------------
(* Where main calls StartRPC, only a signal that comes while it is still    *)
(* wiring things up can meet the hub that is not there                      *)
(* (main_darwin.go:127-146, 190-191).                                       *)
OnlySignalsPanic == panicked \subseteq Signals

(* An app that is not running is launched for a request: it does not panic  *)
(* in the first event of its lookup (app.go:455, 471, rpc_events.go:42).    *)
LookupsSurvive == panicked \cap Requests = {}

(* Every event in the ring goes to the hub, once, or is dropped because it  *)
(* is not JSON; until then it is in the hands of the goroutine that added   *)
(* it (events.go:33-34).                                                    *)
NothingLost ==
    /\ \A i, j \in 1 .. Len(sent) : sent[i] = sent[j] => i = j
    /\ \A e \in 1 .. Len(events) :
          mine[events[e]] = e <=>
          e \notin dropped /\ \A i \in 1 .. Len(sent) : sent[i] # e

(* Browsers see the events of lookups in the order of the ring, because the *)
(* pool lock is held from the one to the other, and those of any one        *)
(* goroutine too; others may overtake each other (app.go:456-471).          *)
LookupOrder ==
    \A i, j \in 1 .. Len(sent) :
        i < j /\ \/ events[sent[i]] = events[sent[j]]
                 \/ {events[sent[i]], events[sent[j]]} \subseteq Requests
        => sent[i] < sent[j]

(* A lookup and GET /status return, unless a client of GET /events stops    *)
(* reading and so keeps the ring locked (linebuffer.go:41, http.go:254):    *)
(* nothing else that holds a lock waits for another that needs it.          *)
Stalled == ring # None /\ pc[ring] = "stalled"

LookupsReturn ==
    \A g \in Requests \cup Statuses :
        pc[g] # "idle" ~> pc[g] = "idle" \/ Stalled \/ ~Up
==============================================================================
