-------------------------------- MODULE Hub --------------------------------
(***************************************************************************)
(* The websocket hub that carries puma-dev's events to browsers            *)
(* (dev/websockets).  One goroutine, Run, owns the set of clients; each    *)
(* client has a goroutine that reads the connection (readPump), one that   *)
(* writes it (writePump) and one that answers its messages (listen).  They *)
(* meet on unbuffered channels (register, unregister, send) and on the two *)
(* buffered channels of a client, which Run closes.  A send on a closed    *)
(* channel panics, and a panic ends puma-dev.                              *)
(***************************************************************************)
EXTENDS Naturals, Sequences, FiniteSets

CONSTANTS
    Clients,      \* websocket connections, each accepted at most once
    Talkative,    \* the clients that send frames
    Callers,      \* goroutines that add events, and so call Broadcast
    Capacity,     \* of the channels recv and send of a client
    MaxMessages,  \* bound on the broadcasts
    None

ASSUME HubAssumption ==
    /\ Talkative \subseteq Clients
    /\ None \notin Clients
    /\ Capacity \in Nat \ {0}
    /\ MaxMessages \in Nat

VARIABLES
    clients,   \* Hub.clients
    caller,    \* the message each caller is offering on Hub.send, 0 if none
    offered,   \* how many messages have been offered
    accepted,  \* the messages Run has taken from Hub.send, in that order
    conn,      \* Client.conn
    rd,        \* readPump
    wr,        \* writePump
    ls,        \* listen
    recv,      \* how many frames are in Client.recv
    send,      \* what is in Client.send; 0 is a reply by listen
    closed,    \* recv and send have been closed
    joined,    \* how much had been accepted when the client was registered
    written,   \* the messages writePump has taken from send
    panicked   \* the client whose goroutine panicked, or None

hubVars  == <<clients, accepted>>
callVars == <<caller, offered>>
pumps    == <<rd, wr, ls>>
channels == <<recv, send, closed>>
history  == <<joined, written>>
vars == <<hubVars, callVars, conn, pumps, channels, history, panicked>>

TypeOK ==
    /\ clients \subseteq Clients
    /\ caller \in [Callers -> 0 .. MaxMessages]
    /\ offered \in 0 .. MaxMessages
    /\ accepted \in Seq(1 .. MaxMessages)
    /\ conn \in [Clients -> {"none", "open", "broken"}]
    /\ rd \in [Clients -> {"off", "read", "push", "unregister", "done"}]
    /\ wr \in [Clients -> {"off", "loop", "done"}]
    /\ ls \in [Clients -> {"off", "loop", "reply", "done"}]
    /\ recv \in [Clients -> 0 .. Capacity]
    /\ send \in [Clients -> Seq(0 .. MaxMessages)]
    /\ \A c \in Clients : Len(send[c]) <= Capacity
    /\ closed \in [Clients -> BOOLEAN]
    /\ joined \in [Clients -> 0 .. MaxMessages]
    /\ written \in [Clients -> Seq(1 .. MaxMessages)]
    /\ panicked \in Clients \cup {None}

Init ==
    /\ clients = {}
    /\ caller = [b \in Callers |-> 0]
    /\ offered = 0
    /\ accepted = <<>>
    /\ conn = [c \in Clients |-> "none"]
    /\ rd = [c \in Clients |-> "off"]
    /\ wr = [c \in Clients |-> "off"]
    /\ ls = [c \in Clients |-> "off"]
    /\ recv = [c \in Clients |-> 0]
    /\ send = [c \in Clients |-> <<>>]
    /\ closed = [c \in Clients |-> FALSE]
    /\ joined = [c \in Clients |-> 0]
    /\ written = [c \in Clients |-> <<>>]
    /\ panicked = None

------------------------------------------------------------------------------
(* Run, always back at its select, meets the other goroutines.              *)

Up == panicked = None

(* Serve: the upgrade, client.Hub.register <- client, the three goroutines. *)
Serve(c) ==
    /\ Up
    /\ conn[c] = "none"
    /\ conn' = [conn EXCEPT ![c] = "open"]
    /\ clients' = clients \cup {c}
    /\ joined' = [joined EXCEPT ![c] = Len(accepted)]
    /\ rd' = [rd EXCEPT ![c] = "read"]
    /\ wr' = [wr EXCEPT ![c] = "loop"]
    /\ ls' = [ls EXCEPT ![c] = "loop"]
    /\ UNCHANGED <<accepted, callVars, channels, written, panicked>>

(* A goroutine calls Broadcast and offers its message.                      *)
Offer(b) ==
    /\ Up
    /\ caller[b] = 0
    /\ offered < MaxMessages
    /\ offered' = offered + 1
    /\ caller' = [caller EXCEPT ![b] = offered']
    /\ UNCHANGED <<hubVars, conn, pumps, channels, history, panicked>>

(* Closing a closed channel panics.                                         *)
CloseChannels(D) ==
    /\ closed' = [c \in Clients |-> closed[c] \/ c \in D]
    /\ IF \E c \in D : closed[c] THEN panicked' \in {c \in D : closed[c]}
                                 ELSE UNCHANGED panicked

(* Mutant: the client stays in the set.                                     *)
CloseKeeps(D) == CloseChannels(D) /\ UNCHANGED clients

(* Client.close, for every client of D.                                     *)
Close(D) == CloseChannels(D) /\ clients' = clients \ D

(* Mutant: off by one.                                                      *)
FullLate(c) == Len(send[c]) > Capacity

Full(c) == Len(send[c]) = Capacity

(* Mutants: a client without room misses the message; Run waits for room.   *)
BroadcastSkips(b) ==
    /\ Up
    /\ caller[b] # 0
    /\ accepted' = Append(accepted, caller[b])
    /\ caller' = [caller EXCEPT ![b] = 0]
    /\ send' = [c \in Clients |->
                   IF c \in clients /\ ~Full(c) THEN Append(send[c], caller[b])
                                                ELSE send[c]]
    /\ UNCHANGED <<clients, offered, conn, pumps, recv, closed, history,
                   panicked>>

BroadcastWaits(b) ==
    /\ \A c \in clients : ~Full(c)
    /\ BroadcastSkips(b)

(* message := <-h.send and Hub.broadcast: a client that cannot take the     *)
(* message is closed.                                                       *)
Broadcast(b) ==
    /\ Up
    /\ caller[b] # 0
    /\ accepted' = Append(accepted, caller[b])
    /\ caller' = [caller EXCEPT ![b] = 0]
    /\ send' = [c \in Clients |->
                   IF c \in clients /\ ~Full(c) THEN Append(send[c], caller[b])
                                                ELSE send[c]]
    /\ Close({c \in clients : Full(c)})
    /\ UNCHANGED <<offered, conn, pumps, recv, history>>

(* Mutant: Run closes the client without looking it up.                     *)
UnregisterUnchecked(c) ==
    /\ Up
    /\ rd[c] = "unregister"
    /\ Close({c})
    /\ rd' = [rd EXCEPT ![c] = "done"]
    /\ conn' = [conn EXCEPT ![c] = "broken"]
    /\ UNCHANGED <<accepted, callVars, wr, ls, recv, send, history>>

(* The deferred calls of readPump: h.unregister <- c, conn.Close.           *)
Unregister(c) ==
    /\ Up
    /\ rd[c] = "unregister"
    /\ Close({c} \cap clients)
    /\ rd' = [rd EXCEPT ![c] = "done"]
    /\ conn' = [conn EXCEPT ![c] = "broken"]
    /\ UNCHANGED <<accepted, callVars, wr, ls, recv, send, history>>

------------------------------------------------------------------------------
(* readPump, listen and writePump.                                          *)

(* The peer goes away, or the network does.                                 *)
Disconnect(c) ==
    /\ Up
    /\ conn[c] = "open"
    /\ conn' = [conn EXCEPT ![c] = "broken"]
    /\ UNCHANGED <<hubVars, callVars, pumps, channels, history, panicked>>

ReadFrame(c) ==
    /\ Up
    /\ c \in Talkative
    /\ conn[c] = "open"
    /\ rd[c] = "read"
    /\ rd' = [rd EXCEPT ![c] = "push"]
    /\ UNCHANGED <<hubVars, callVars, conn, wr, ls, channels, history,
                   panicked>>

(* Mutant: readPump returns without its deferred calls.                     *)
ReadFailsQuietly(c) ==
    /\ Up
    /\ conn[c] = "broken"
    /\ rd[c] = "read"
    /\ rd' = [rd EXCEPT ![c] = "done"]
    /\ UNCHANGED <<hubVars, callVars, conn, wr, ls, channels, history,
                   panicked>>

ReadFails(c) ==
    /\ Up
    /\ conn[c] = "broken"
    /\ rd[c] = "read"
    /\ rd' = [rd EXCEPT ![c] = "unregister"]
    /\ UNCHANGED <<hubVars, callVars, conn, wr, ls, channels, history,
                   panicked>>

(* c.recv <- message: waits for room, panics on a closed channel.           *)
PushFrame(c) ==
    /\ Up
    /\ rd[c] = "push"
    /\ \/ /\ closed[c]
          /\ panicked' = c
          /\ UNCHANGED <<rd, recv>>
       \/ /\ ~closed[c]
          /\ recv[c] < Capacity
          /\ recv' = [recv EXCEPT ![c] = @ + 1]
          /\ rd' = [rd EXCEPT ![c] = "read"]
          /\ UNCHANGED panicked
    /\ UNCHANGED <<hubVars, callVars, conn, wr, ls, send, closed, history>>

(* data, ok := <-c.recv: what is buffered first, then ok is false.          *)
ListenTakes(c) ==
    /\ Up
    /\ ls[c] = "loop"
    /\ \/ /\ recv[c] > 0
          /\ recv' = [recv EXCEPT ![c] = @ - 1]
          /\ ls' = [ls EXCEPT ![c] = "reply"]
       \/ /\ recv[c] = 0
          /\ closed[c]
          /\ ls' = [ls EXCEPT ![c] = "done"]
          /\ UNCHANGED recv
    /\ UNCHANGED <<hubVars, callVars, conn, rd, wr, send, closed, history,
                   panicked>>

(* c.Send from the callback: an error if send is full, which ends listen; a *)
(* panic if it is closed.                                                   *)
ListenReplies(c) ==
    /\ Up
    /\ ls[c] = "reply"
    /\ \/ /\ closed[c]
          /\ panicked' = c
          /\ UNCHANGED <<ls, send>>
       \/ /\ ~closed[c]
          /\ ~Full(c)
          /\ send' = [send EXCEPT ![c] = Append(@, 0)]
          /\ ls' = [ls EXCEPT ![c] = "loop"]
          /\ UNCHANGED panicked
       \/ /\ ~closed[c]
          /\ Full(c)
          /\ ls' = [ls EXCEPT ![c] = "done"]
          /\ UNCHANGED <<send, panicked>>
    /\ UNCHANGED <<hubVars, callVars, conn, rd, wr, recv, closed, history>>

(* The messages of Run in a queue of messages and replies.                  *)
EventsUpTo(s) ==
    LET f[i \in 0 .. Len(s)] ==
          IF i = 0 THEN <<>>
          ELSE IF s[i] = 0 THEN f[i - 1] ELSE Append(f[i - 1], s[i])
    IN  f

Events(s) == EventsUpTo(s)[Len(s)]

(* message, ok := <-c.send, with what is queued behind it, and the write.   *)
WriteQueued(c) ==
    /\ Up
    /\ wr[c] = "loop"
    /\ conn[c] = "open"
    /\ send[c] # <<>>
    /\ written' = [written EXCEPT ![c] = @ \o Events(send[c])]
    /\ send' = [send EXCEPT ![c] = <<>>]
    /\ UNCHANGED <<hubVars, callVars, conn, pumps, recv, closed, joined,
                   panicked>>

(* send is closed and empty, or a write (of a ping, say) fails: writePump   *)
(* returns and its deferred conn.Close makes readPump fail too.             *)
WriteEnds(c) ==
    /\ Up
    /\ wr[c] = "loop"
    /\ \/ conn[c] = "broken"
       \/ closed[c] /\ send[c] = <<>>
    /\ wr' = [wr EXCEPT ![c] = "done"]
    /\ conn' = [conn EXCEPT ![c] = "broken"]
    /\ UNCHANGED <<hubVars, callVars, rd, ls, channels, history, panicked>>

Run(c) == Serve(c) \/ Unregister(c)

ReadPump(c) == ReadFrame(c) \/ ReadFails(c) \/ PushFrame(c)

Listen(c) == ListenTakes(c) \/ ListenReplies(c)

WritePump(c) == WriteQueued(c) \/ WriteEnds(c)

Next ==
    \/ \E c \in Clients : Run(c) \/ Disconnect(c) \/ ReadPump(c) \/ Listen(c)
                          \/ WritePump(c)
    \/ \E b \in Callers : Offer(b) \/ Broadcast(b)

Spec == Init /\ [][Next]_vars

(* The goroutines run; peers are free to stay silent, and to stay.  Run     *)
(* chooses fairly among the goroutines that want to meet it.                *)
Fairness ==
    /\ \A c \in Clients : /\ WF_vars(Unregister(c)) /\ WF_vars(Listen(c))
                          /\ WF_vars(ReadFails(c)) /\ WF_vars(PushFrame(c))
                          /\ WF_vars(WritePump(c))
    /\ \A b \in Callers : WF_vars(Broadcast(b))

FairSpec == Spec /\ Fairness

------------------------------------------------------------------------------
(* Only readPump and listen can send on a channel that Run has closed, and  *)
(* Run closes none twice: a client that sends no frame cannot bring         *)
(* puma-dev down, slow as it may be (hub.go:73-77, client.go:88, 147).      *)
SilentClientsAreSafe == panicked \in Talkative \cup {None}

(* Run closes a client's channels when, and only when, it forgets the       *)
(* client, so that it never sends on a closed channel nor closes one twice  *)
(* (hub.go:97-100, client.go:173-179).                                      *)
ClosedIffForgotten ==
    \A c \in Clients : closed[c] <=> conn[c] # "none" /\ c \notin clients

(* A browser gets every event accepted since it joined, in order and        *)
(* without a gap: one that falls behind is cut off, never skipped.          *)
GapFree ==
    \A c \in Clients :
        LET got == written[c] \o Events(send[c])
        IN  /\ joined[c] + Len(got) <= Len(accepted)
            /\ got = SubSeq(accepted, joined[c] + 1, joined[c] + Len(got))
            /\ c \in clients => joined[c] + Len(got) = Len(accepted)

(* A goroutine that adds an event, perhaps with the pool lock held, is not  *)
(* held up by any client (hub.go:108-112).                                  *)
BroadcastsReturn == \A b \in Callers : caller[b] # 0 ~> caller[b] = 0 \/ ~Up

(* A silent client that is gone is forgotten (client.go:69-72).             *)
GoneAreForgotten ==
    \A c \in Clients \ Talkative :
        conn[c] = "broken" ~> c \notin clients \/ ~Up

(* No goroutine panics: listen quits when its channel is closed, and Send   *)
(* reports a failure as an error (client.go:150, 158).                      *)
NoPanic == Up
=============================================================================
