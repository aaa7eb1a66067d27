----------------------------- MODULE LineBuffer -----------------------------
(***************************************************************************)
(* linebuffer.LineBuffer: a ring of lines behind a mutex.  It holds the    *)
(* events of puma-dev and, per app, the output of the app.  Append is one  *)
(* critical section.  Do calls back for every line with the mutex held,    *)
(* and WriteTo's callback is a write to a client that may be slow or fail, *)
(* so a reader is modelled line by line.                                   *)
(***************************************************************************)
EXTENDS Naturals, Sequences

CONSTANTS
    Lines,        \* what may be appended
    Readers,      \* goroutines that call WriteTo
    InitialSize,  \* the Size field as the owner left it; 0 if it did not
    DefaultSize,
    None

ASSUME SizeAssumption ==
    InitialSize \in Nat /\ DefaultSize \in Nat \ {0}

ASSUME ReaderAssumption == None \notin Readers

VARIABLES
    size,   \* LineBuffer.Size
    cur,    \* LineBuffer.cur, the oldest line once the ring is full
    lines,  \* LineBuffer.lines; line i of Go's slice is lines[i + 1]
    lock,   \* the reader inside Do, or None
    out,    \* what that reader has written so far
    last    \* what the last WriteTo of each reader returned

vars == <<size, cur, lines, lock, out, last>>

(* The size once the first line is in.                                      *)
Capacity == IF InitialSize = 0 THEN DefaultSize ELSE InitialSize

NothingRead == [lines |-> <<>>, failed |-> FALSE]

TypeOK ==
    /\ size \in {InitialSize, Capacity}
    /\ cur \in 0 .. Capacity - 1
    /\ lines \in Seq(Lines)
    /\ Len(lines) <= Capacity
    /\ lock \in Readers \cup {None}
    /\ out \in Seq(Lines)
    /\ last \in [Readers -> [lines : Seq(Lines), failed : BOOLEAN]]

Init ==
    /\ size = InitialSize
    /\ cur = 0
    /\ lines = <<>>
    /\ lock = None
    /\ out = <<>>
    /\ last = [r \in Readers |-> NothingRead]

------------------------------------------------------------------------------
(* cur++, back to the start after the last line.                            *)
NextCur == IF cur + 1 = Len(lines) THEN 0 ELSE cur + 1

(* Mutant: the wrap test is made with the old position.                     *)
AppendLineLate(l) ==
    /\ lock = None
    /\ size' = Capacity
    /\ IF Len(lines) < Capacity
       THEN lines' = Append(lines, l) /\ UNCHANGED cur
       ELSE /\ lines' = [lines EXCEPT ![cur + 1] = l]
            /\ cur' = IF cur = Len(lines) THEN 0 ELSE cur + 1
    /\ UNCHANGED <<lock, out, last>>

(* Mutant: Append without taking the lock.                                  *)
AppendLineUnlocked(l) ==
    /\ size' = Capacity
    /\ IF Len(lines) < Capacity
       THEN lines' = Append(lines, l) /\ UNCHANGED cur
       ELSE lines' = [lines EXCEPT ![cur + 1] = l] /\ cur' = NextCur
    /\ UNCHANGED <<lock, out, last>>

AppendLine(l) ==
    /\ lock = None
    /\ size' = IF size = 0 THEN DefaultSize ELSE size
    /\ IF Len(lines) < size'
       THEN lines' = Append(lines, l) /\ UNCHANGED cur
       ELSE lines' = [lines EXCEPT ![cur + 1] = l] /\ cur' = NextCur
    /\ UNCHANGED <<lock, out, last>>

(* Mutant: Do starts at the beginning of the slice.                         *)
PositionInSlice(k) == k

(* The index of the k-th line that Do hands out: the slice in order while   *)
(* it grows, then from cur to the end and from the start to cur.            *)
Position(k) ==
    IF Len(lines) < size THEN k
    ELSE IF k <= size - cur THEN cur + k
    ELSE k - (size - cur)

(* How many lines Do hands out.                                             *)
Total == IF Len(lines) < size THEN Len(lines) ELSE size

DoStart(r) ==
    /\ lock = None
    /\ lock' = r
    /\ out' = <<>>
    /\ UNCHANGED <<size, cur, lines, last>>

(* One call of x succeeds.                                                  *)
DoLine(r) ==
    /\ lock = r
    /\ Len(out) < Total
    /\ out' = Append(out, lines[Position(Len(out) + 1)])
    /\ UNCHANGED <<size, cur, lines, lock, last>>

Done(r, failed) ==
    /\ lock' = None
    /\ last' = [last EXCEPT ![r] = [lines |-> out, failed |-> failed]]
    /\ out' = <<>>
    /\ UNCHANGED <<size, cur, lines>>

(* One call of x returns an error, and so does Do.                          *)
DoFails(r) ==
    /\ lock = r
    /\ Len(out) < Total
    /\ Done(r, TRUE)

DoReturns(r) ==
    /\ lock = r
    /\ Len(out) = Total
    /\ Done(r, FALSE)

Next ==
    \/ \E l \in Lines : AppendLine(l)
    \/ \E r \in Readers : DoStart(r) \/ DoLine(r) \/ DoFails(r) \/ DoReturns(r)

Spec == Init /\ [][Next]_vars

------------------------------------------------------------------------------
(* The lines held, oldest first.                                            *)
Contents == [k \in 1 .. Len(lines) |-> lines[Position(k)]]

(* The cursor only moves once the ring is full, and a reader has written    *)
(* the oldest lines of the ring, which do not change under it.              *)
RingInv ==
    /\ size = 0 => lines = <<>>
    /\ Len(lines) < Capacity => cur = 0
    /\ Len(out) <= Len(lines)
    /\ \A k \in 1 .. Len(out) : out[k] = Contents[k]

(* The buffer is a log of the last Capacity lines, read in one piece        *)
(* (linebuffer.go:18-38, 40-72).                                            *)
Log == INSTANCE BoundedLog WITH log <- Contents

ImplementsLog == Log!LogSpec
=============================================================================
