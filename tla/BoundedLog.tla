----------------------------- MODULE BoundedLog -----------------------------
(***************************************************************************)
(* What a line buffer promises: it holds the last Capacity lines that were *)
(* appended, in order, and a reader gets all of them as of one moment, or, *)
(* if its writer fails, a proper prefix and an error.                      *)
(***************************************************************************)
EXTENDS Naturals, Sequences

CONSTANTS Lines, Readers, Capacity

VARIABLES
    log,   \* the lines held, oldest first
    last   \* what the last WriteTo of each reader returned

logVars == <<log, last>>

NothingRead == [lines |-> <<>>, failed |-> FALSE]

LogInit == log = <<>> /\ last = [r \in Readers |-> NothingRead]

Add(l) ==
    /\ log' = Append(IF Len(log) < Capacity THEN log ELSE Tail(log), l)
    /\ UNCHANGED last

Read(r) ==
    /\ last' = [last EXCEPT ![r] = [lines |-> log, failed |-> FALSE]]
    /\ UNCHANGED log

ReadFails(r) ==
    /\ \E n \in 0 .. Len(log) - 1 :
          last' = [last EXCEPT ![r] =
                      [lines |-> SubSeq(log, 1, n), failed |-> TRUE]]
    /\ UNCHANGED log

LogNext == \/ \E l \in Lines : Add(l)
           \/ \E r \in Readers : Read(r) \/ ReadFails(r)

LogSpec == LogInit /\ [][LogNext]_logVars
=============================================================================
