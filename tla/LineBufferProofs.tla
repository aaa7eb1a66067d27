--------------------------- MODULE LineBufferProofs ---------------------------
(***************************************************************************)
(* Theorems about LineBuffer, for a ring of any size, any lines and any    *)
(* number of readers: its invariants, and that it implements BoundedLog.   *)
(*                                                                         *)
(* RingInv is inductive once it says that nothing has been written while   *)
(* the mutex is free (Fresh): an Append, which needs the mutex, cannot     *)
(* then change the lines that some reader has written already.             *)
(***************************************************************************)
EXTENDS LineBuffer, SequenceTheorems, TLAPS

(* Do hands out nothing outside its critical section.                       *)
Fresh == lock = None => out = <<>>

IInv == TypeOK /\ RingInv /\ Fresh

LEMMA CapacityFact == Capacity \in Nat \ {0}
BY SizeAssumption DEF Capacity

(* The Size field is settled when the first line is in, so that Do goes     *)
(* over all the lines and over nothing else.                                *)
LEMMA SizeFacts ==
    ASSUME IInv
    PROVE  /\ lines # <<>> => size = Capacity
           /\ Total = Len(lines)
           /\ Len(lines) \in Nat /\ cur \in Nat /\ size \in Nat
           /\ cur < Capacity /\ Len(lines) <= Capacity
<1> USE SizeAssumption DEF IInv, TypeOK, RingInv, Capacity
<1>1. Len(lines) \in Nat /\ (lines = <<>> <=> Len(lines) = 0)
  BY EmptySeq, LenProperties
<1>2. lines # <<>> => size = Capacity
  OBVIOUS
<1>3. Total = Len(lines)
  BY <1>1, <1>2 DEF Total
<1> QED
  BY <1>1, <1>2, <1>3

(* Where Do finds the k-th line, in terms of the ring of Capacity lines.    *)
LEMMA PositionFacts ==
    ASSUME IInv, NEW k \in 1 .. Len(lines)
    PROVE  /\ Position(k) \in 1 .. Len(lines)
           /\ Position(k) = IF Len(lines) < Capacity THEN k
                            ELSE IF k <= Capacity - cur THEN cur + k
                            ELSE k - (Capacity - cur)
<1>1. lines # <<>> /\ size = Capacity
  BY SizeFacts, EmptySeq DEF IInv, TypeOK
<1> QED
  BY <1>1, SizeFacts, CapacityFact DEF Position, IInv, TypeOK

(* What Do hands out is a sequence of the lines appended.                   *)
LEMMA ContentsFacts ==
    ASSUME IInv
    PROVE  /\ Contents \in Seq(Lines)
           /\ Len(Contents) = Len(lines)
           /\ \A k \in 1 .. Len(lines) : Contents[k] = lines[Position(k)]
<1>1. \A k \in 1 .. Len(lines) : lines[Position(k)] \in Lines
  BY PositionFacts, ElementOfSeq DEF IInv, TypeOK
<1>2. Contents \in [1 .. Len(lines) -> Lines]
  BY <1>1 DEF Contents
<1>3. Len(lines) \in Nat
  BY SizeFacts
<1>4. Contents \in Seq(Lines)
  BY <1>2, <1>3, SeqDef
<1>5. Len(Contents) = Len(lines)
  BY <1>2, <1>3, <1>4, LenProperties
<1> QED
  BY <1>4, <1>5 DEF Contents

------------------------------------------------------------------------------
(* The invariant.                                                           *)

LEMMA InitInv == Init => IInv
<1> SUFFICES ASSUME Init PROVE IInv
  OBVIOUS
<1> USE SizeAssumption, CapacityFact DEF Init
<1>1. TypeOK
  BY EmptySeq DEF TypeOK, NothingRead
<1>2. RingInv
  BY EmptySeq DEF RingInv
<1>3. Fresh
  BY DEF Fresh
<1> QED
  BY <1>1, <1>2, <1>3 DEF IInv

LEMMA AppendInv ==
    ASSUME IInv, NEW l \in Lines, AppendLine(l)
    PROVE  IInv'
<1> USE DEF AppendLine
<1>1. size' = Capacity
  BY SizeFacts, SizeAssumption DEF IInv, TypeOK, Capacity
<1>2. CASE Len(lines) < size'
  <2>1. /\ lines' \in Seq(Lines) /\ Len(lines') = Len(lines) + 1
        /\ UNCHANGED cur
    <3>1. lines' = Append(lines, l) /\ UNCHANGED cur
      BY <1>2
    <3>2. lines \in Seq(Lines)
      BY DEF IInv, TypeOK
    <3> QED
      BY <3>1, <3>2, AppendProperties
  <2>2. TypeOK'
    BY <2>1, <1>1, <1>2, SizeFacts, CapacityFact DEF IInv, TypeOK, Capacity
  <2>3. RingInv'
    BY <2>1, <1>1, <1>2, SizeFacts, CapacityFact, EmptySeq
       DEF IInv, RingInv, Fresh, Capacity
  <2> QED
    BY <2>2, <2>3 DEF IInv, Fresh
<1>3. CASE ~(Len(lines) < size')
  <2>1. Len(lines) = Capacity /\ cur + 1 \in 1 .. Len(lines)
    BY <1>1, <1>3, SizeFacts, CapacityFact
  <2>2. lines' \in Seq(Lines) /\ Len(lines') = Len(lines)
    <3>1. lines' = [lines EXCEPT ![cur + 1] = l]
      BY <1>3
    <3>2. lines \in Seq(Lines)
      BY DEF IInv, TypeOK
    <3> QED
      BY <3>1, <3>2, <2>1, ExceptSeq
  <2>3. cur' \in 0 .. Capacity - 1
    BY <1>3, <2>1, SizeFacts, CapacityFact DEF NextCur
  <2>4. TypeOK'
    BY <2>1, <2>2, <2>3, <1>1, SizeFacts DEF IInv, TypeOK, Capacity
  <2>5. RingInv'
    BY <2>1, <2>2, <1>1, SizeFacts, CapacityFact, EmptySeq
       DEF IInv, RingInv, Fresh, Capacity
  <2> QED
    BY <2>4, <2>5 DEF IInv, Fresh
<1> QED
  BY <1>2, <1>3

LEMMA ReaderInv ==
    ASSUME IInv, NEW r \in Readers,
           DoStart(r) \/ DoLine(r) \/ DoFails(r) \/ DoReturns(r)
    PROVE  IInv'
<1> USE ReaderAssumption DEF IInv
<1>1. CASE DoStart(r)
  BY <1>1, EmptySeq, SizeFacts
     DEF DoStart, TypeOK, RingInv, Fresh, Contents, Position
<1>2. CASE DoLine(r)
  <2> USE <1>2 DEF DoLine
  <2>1. Len(out) + 1 \in 1 .. Len(lines) /\ Len(out) \in Nat
    BY SizeFacts, LenProperties DEF TypeOK
  <2>2. lines[Position(Len(out) + 1)] \in Lines
    BY <2>1, PositionFacts, ElementOfSeq DEF TypeOK
  <2>3. /\ out' \in Seq(Lines)
        /\ Len(out') = Len(out) + 1
        /\ \A k \in 1 .. Len(out) : out'[k] = out[k]
        /\ out'[Len(out) + 1] = Contents[Len(out) + 1]
    BY <2>1, <2>2, AppendProperties, ContentsFacts DEF TypeOK
  <2>4. TypeOK'
    BY <2>3 DEF TypeOK
  <2>5. Contents' = Contents
    BY DEF Contents, Position
  <2>6. RingInv'
    <3>1. \A k \in 1 .. Len(out') : out'[k] = Contents'[k]
      BY <2>1, <2>3, <2>5 DEF RingInv
    <3> QED
      BY <3>1, <2>1, <2>3 DEF RingInv
  <2> QED
    BY <2>4, <2>6 DEF Fresh
<1>3. CASE DoFails(r) \/ DoReturns(r)
  <2>1. /\ lock' = None /\ out' = <<>>
        /\ UNCHANGED <<size, cur, lines>>
        /\ last' \in [Readers -> [lines : Seq(Lines), failed : BOOLEAN]]
    <3>1. PICK f \in BOOLEAN : Done(r, f)
      BY <1>3 DEF DoFails, DoReturns
    <3>2. [lines |-> out, failed |-> f]
             \in [lines : Seq(Lines), failed : BOOLEAN]
      BY DEF TypeOK
    <3> QED
      BY <3>1, <3>2 DEF Done, TypeOK
  <2> QED
    BY <2>1, EmptySeq, SizeFacts
       DEF TypeOK, RingInv, Fresh, Contents, Position
<1> QED
  BY <1>1, <1>2, <1>3

LEMMA StepInv == IInv /\ [Next]_vars => IInv'
<1> SUFFICES ASSUME IInv, [Next]_vars PROVE IInv'
  OBVIOUS
<1>1. CASE UNCHANGED vars
  BY <1>1 DEF vars, IInv, TypeOK, RingInv, Fresh, Contents, Position
<1> QED
  BY <1>1, AppendInv, ReaderInv DEF Next

LEMMA SpecInv == Spec => []IInv
BY InitInv, StepInv, PTL DEF Spec

(* The ring, its cursor and what a reader has got keep their types.         *)
THEOREM TypeCorrect == Spec => []TypeOK
<1>1. IInv => TypeOK
  BY DEF IInv
<1> QED
  BY <1>1, SpecInv, PTL

(* The cursor stays at the start until the ring is full, and what a call of *)
(* Do has handed out are the oldest lines of the ring as it still is: no    *)
(* Append gets in between (linebuffer.go:18-38, 40-72).                     *)
THEOREM RingCorrect == Spec => []RingInv
<1>1. IInv => RingInv
  BY DEF IInv
<1> QED
  BY <1>1, SpecInv, PTL
------------------------------------------------------------------------------
(* The refinement.                                                          *)

LEMMA LogInitStep == Init => Log!LogInit
BY EmptySeq DEF Init, Log!LogInit, NothingRead, Log!NothingRead, Contents

(* Where Do finds the k-th line after an Append: at its old place, or, if   *)
(* the oldest line has made room, where the next line was.                  *)
LEMMA AppendPositions ==
    ASSUME IInv, IInv', NEW l \in Lines, AppendLine(l),
           NEW k \in 1 .. Len(lines')
    PROVE  Position(k)' =
              IF Len(lines) < Capacity THEN k
              ELSE IF k < Capacity THEN Position(k + 1)
              ELSE cur + 1
<1>1. size' = Capacity
  BY SizeFacts, SizeAssumption DEF AppendLine, IInv, TypeOK, Capacity
<1>2. Position(k)' = IF Len(lines') < Capacity THEN k
                     ELSE IF k <= Capacity - cur' THEN cur' + k
                     ELSE k - (Capacity - cur')
  BY <1>1 DEF Position
<1>3. CASE Len(lines) < Capacity
  <2>1. cur' = 0 /\ lines' = Append(lines, l)
    BY <1>1, <1>3 DEF AppendLine, IInv, RingInv
  <2>2. Len(lines') = Len(lines) + 1
    BY <2>1, AppendProperties DEF IInv, TypeOK
  <2> QED
    BY <1>2, <1>3, <2>1, <2>2, SizeFacts, CapacityFact
<1>4. CASE ~(Len(lines) < Capacity)
  <2>1. Len(lines) = Capacity /\ cur + 1 \in 1 .. Len(lines)
    BY <1>4, SizeFacts, CapacityFact
  <2>2. lines' = [lines EXCEPT ![cur + 1] = l] /\ cur' = NextCur
    BY <1>1, <1>4 DEF AppendLine
  <2>3. Len(lines') = Capacity
    BY <2>1, <2>2, ExceptSeq DEF IInv, TypeOK
  <2>4. k < Capacity =>
           Position(k + 1) = IF k + 1 <= Capacity - cur THEN cur + (k + 1)
                             ELSE k + 1 - (Capacity - cur)
    <3>1. SUFFICES ASSUME k < Capacity
                   PROVE  Position(k + 1) =
                             IF k + 1 <= Capacity - cur THEN cur + (k + 1)
                             ELSE k + 1 - (Capacity - cur)
      OBVIOUS
    <3>2. PICK j \in 1 .. Len(lines) : j = k + 1
      BY <3>1, <2>1, <2>3, CapacityFact
    <3>3. Position(j) = IF j <= Capacity - cur THEN cur + j
                        ELSE j - (Capacity - cur)
      BY <2>1, PositionFacts, CapacityFact
    <3> QED
      BY <3>2, <3>3, <2>1, <2>3, SizeFacts, CapacityFact
  <2>5. cur' = IF cur + 1 = Capacity THEN 0 ELSE cur + 1
    BY <2>1, <2>2 DEF NextCur
  <2>6. Position(k)' = IF k <= Capacity - cur' THEN cur' + k
                       ELSE k - (Capacity - cur')
    BY <1>2, <2>3, CapacityFact
  <2>7. k \in 1 .. Capacity /\ cur \in 0 .. Capacity - 1
    BY <2>1, <2>3, CapacityFact, SizeFacts
  <2>8. CASE k < Capacity
    BY <2>8, <2>4, <2>5, <2>6, <2>7, <1>4, CapacityFact
  <2>9. CASE k = Capacity
    BY <2>9, <2>5, <2>6, <2>7, <1>4, CapacityFact
  <2> QED
    BY <2>7, <2>8, <2>9, CapacityFact
<1> QED
  BY <1>3, <1>4

(* Only the oldest line is at cur, where the next one goes.                 *)
LEMMA PositionsDiffer ==
    ASSUME IInv, NEW k \in 2 .. Len(lines), Len(lines) = Capacity
    PROVE  Position(k) # cur + 1
<1>1. k \in 1 .. Len(lines)
  BY SizeFacts
<1>2. Position(k) = IF k <= Capacity - cur THEN cur + k
                    ELSE k - (Capacity - cur)
  BY <1>1, PositionFacts, CapacityFact
<1> QED
  BY <1>1, <1>2, SizeFacts, CapacityFact

(* An Append to the ring is an Append to the log, at the expense of the     *)
(* oldest line once there is no room.                                       *)
LEMMA AppendAdds ==
    ASSUME IInv, IInv', NEW l \in Lines, AppendLine(l)
    PROVE  Log!Add(l)
<1> DEFINE kept == IF Len(Contents) < Capacity THEN Contents
                                              ELSE Tail(Contents)
<1>1. size' = Capacity /\ UNCHANGED last
  BY SizeFacts, SizeAssumption DEF AppendLine, IInv, TypeOK, Capacity
<1>2. /\ Contents' \in Seq(Lines)
      /\ Len(Contents') = Len(lines')
      /\ \A k \in 1 .. Len(lines') : Contents'[k] = lines'[Position(k)']
  <2>1. (Contents \in Seq(Lines) /\ Len(Contents) = Len(lines)
         /\ \A k \in 1 .. Len(lines) : Contents[k] = lines[Position(k)])'
    BY ContentsFacts, PTL
  <2> QED
    BY <2>1
<1>3. Contents \in Seq(Lines) /\ Len(Contents) = Len(lines)
  BY ContentsFacts
<1> HIDE DEF kept
<1> DEFINE Same == /\ Append(kept, l) \in Seq(Lines)
                   /\ Len(Append(kept, l)) = Len(lines')
                   /\ \A k \in 1 .. Len(lines') :
                         Contents'[k] = Append(kept, l)[k]
<1>4. ASSUME Len(lines) < Capacity
      PROVE  Same
  <2>1. lines' = Append(lines, l)
    BY <1>1, <1>4 DEF AppendLine
  <2>2. /\ Len(lines') = Len(lines) + 1
        /\ \A k \in 1 .. Len(lines) : lines'[k] = lines[k]
        /\ lines'[Len(lines) + 1] = l
    BY <2>1, AppendProperties DEF IInv, TypeOK
  <2>3. kept = Contents
    BY <1>3, <1>4 DEF kept
  <2>4. \A k \in 1 .. Len(lines) : kept[k] = lines[k]
    BY <2>3, <1>4, ContentsFacts, PositionFacts
  <2>5. \A k \in 1 .. Len(lines') : Contents'[k] = lines'[k]
    BY <1>2, <1>4, AppendPositions
  <2>6. /\ Append(kept, l) \in Seq(Lines)
        /\ Len(Append(kept, l)) = Len(lines) + 1
        /\ \A k \in 1 .. Len(lines) : Append(kept, l)[k] = kept[k]
        /\ Append(kept, l)[Len(lines) + 1] = l
    BY <1>3, <2>3, AppendProperties
  <2> QED
    BY <2>2, <2>4, <2>5, <2>6, SizeFacts
<1>5. ASSUME ~(Len(lines) < Capacity)
      PROVE  Same
  <2>1. Len(lines) = Capacity /\ cur + 1 \in 1 .. Len(lines)
    BY <1>5, SizeFacts, CapacityFact
  <2>2. lines' = [lines EXCEPT ![cur + 1] = l]
    BY <1>1, <1>5 DEF AppendLine
  <2>3. /\ Len(lines') = Capacity
        /\ \A k \in 1 .. Capacity :
              lines'[k] = IF k = cur + 1 THEN l ELSE lines[k]
    BY <2>1, <2>2, ExceptSeq DEF IInv, TypeOK
  <2>4. kept = Tail(Contents)
    BY <1>3, <1>5 DEF kept
  <2>5. /\ kept \in Seq(Lines) /\ Len(kept) = Capacity - 1
        /\ \A k \in 1 .. Capacity - 1 : kept[k] = Contents[k + 1]
    BY <1>3, <2>1, <2>4, HeadTailProperties, EmptySeq, CapacityFact
  <2>6. /\ Append(kept, l) \in Seq(Lines)
        /\ Len(Append(kept, l)) = Capacity
        /\ \A k \in 1 .. Capacity - 1 : Append(kept, l)[k] = kept[k]
        /\ Append(kept, l)[Capacity] = l
    <3>1. Len(kept) + 1 = Capacity
      BY <2>5, CapacityFact
    <3> QED
      BY <2>5, <3>1, AppendProperties
  <2>7. ASSUME NEW k \in 1 .. Capacity - 1
        PROVE  Contents'[k] = Append(kept, l)[k]
    <3>1. k \in 1 .. Len(lines') /\ k + 1 \in 2 .. Len(lines) /\ k < Capacity
      BY <2>1, <2>3, CapacityFact
    <3>2. Position(k)' = Position(k + 1)
      BY <3>1, <1>5, AppendPositions
    <3>3. /\ Position(k + 1) \in 1 .. Capacity
          /\ Position(k + 1) # cur + 1
      BY <3>1, <2>1, PositionFacts, PositionsDiffer
    <3>4. Contents'[k] = lines[Position(k + 1)]
      BY <3>1, <3>2, <3>3, <1>2, <2>3
    <3>5. Contents[k + 1] = lines[Position(k + 1)]
      BY <3>1, ContentsFacts
    <3> QED
      BY <3>4, <3>5, <2>5, <2>6
  <2>8. Contents'[Capacity] = l
    <3>1. Capacity \in 1 .. Len(lines')
      BY <2>3, CapacityFact
    <3>2. Position(Capacity)' = cur + 1
      BY <3>1, <1>5, AppendPositions, CapacityFact
    <3> QED
      BY <3>1, <3>2, <1>2, <2>1, <2>3
  <2>9. \A k \in 1 .. Capacity : Contents'[k] = Append(kept, l)[k]
    BY <2>6, <2>7, <2>8, CapacityFact
  <2> QED
    BY <2>3, <2>6, <2>9
<1> QED
  <2>1. Contents' = Append(kept, l)
    BY <1>2, <1>4, <1>5, SeqEqual
  <2> QED
    BY <2>1, <1>1 DEF Log!Add, kept

(* A reader that returns has read the log, or a proper prefix of it if its  *)
(* client failed; until then it does nothing that the log could tell.       *)
LEMMA ReaderReads ==
    ASSUME IInv, NEW r \in Readers,
           DoStart(r) \/ DoLine(r) \/ DoFails(r) \/ DoReturns(r)
    PROVE  Log!Read(r) \/ Log!ReadFails(r) \/ UNCHANGED Log!logVars
<1>1. CASE DoStart(r) \/ DoLine(r)
  BY <1>1 DEF DoStart, DoLine, Log!logVars, Contents, Position
<1>2. UNCHANGED <<size, cur, lines>> => UNCHANGED Contents
  BY DEF Contents, Position
<1>3. /\ out \in Seq(Lines) /\ Len(out) <= Len(lines)
      /\ \A k \in 1 .. Len(out) : out[k] = Contents[k]
  BY DEF IInv, TypeOK, RingInv
<1>4. CASE DoFails(r)
  <2>1. Len(out) < Len(lines) /\ Done(r, TRUE)
    BY <1>4, SizeFacts DEF DoFails
  <2>2. Len(out) \in 0 .. Len(Contents) - 1
    BY <2>1, <1>3, ContentsFacts, SizeFacts, LenProperties
  <2>3. out = SubSeq(Contents, 1, Len(out))
    <3>1. \A k \in 1 .. Len(out) : Contents[k] \in Lines
      BY <2>2, ContentsFacts, ElementOfSeq
    <3>2. /\ SubSeq(Contents, 1, Len(out)) \in Seq(Lines)
          /\ Len(SubSeq(Contents, 1, Len(out))) = Len(out)
          /\ \A k \in 1 .. Len(out) :
                SubSeq(Contents, 1, Len(out))[k] = Contents[k]
      BY <2>2, <3>1, SubSeqProperties
    <3> QED
      BY <3>2, <1>3, SeqEqual
  <2> QED
    BY <2>1, <2>2, <2>3, <1>2 DEF Done, Log!ReadFails
<1>5. CASE DoReturns(r)
  <2>1. Len(out) = Len(lines) /\ Done(r, FALSE)
    BY <1>5, SizeFacts DEF DoReturns
  <2>2. out = Contents
    BY <2>1, <1>3, ContentsFacts, SeqEqual
  <2> QED
    BY <2>1, <2>2, <1>2 DEF Done, Log!Read
<1> QED
  BY <1>1, <1>4, <1>5

LEMMA StepRefines == IInv /\ IInv' /\ [Next]_vars => [Log!LogNext]_Log!logVars
<1> SUFFICES ASSUME IInv, IInv', [Next]_vars
             PROVE  [Log!LogNext]_Log!logVars
  OBVIOUS
<1>1. ASSUME NEW l \in Lines, AppendLine(l)
      PROVE  Log!LogNext
  BY <1>1, AppendAdds DEF Log!LogNext
<1>2. ASSUME NEW r \in Readers,
             DoStart(r) \/ DoLine(r) \/ DoFails(r) \/ DoReturns(r)
      PROVE  Log!LogNext \/ UNCHANGED Log!logVars
  BY <1>2, ReaderReads DEF Log!LogNext
<1>3. CASE UNCHANGED vars
  BY <1>3 DEF vars, Log!logVars, Contents, Position
<1> QED
  BY <1>1, <1>2, <1>3 DEF Next

(* The buffer is a log of the last Capacity lines: every Append adds to it, *)
(* every WriteTo returns the whole of it as of one moment, or a proper      *)
(* prefix and the error of its writer (linebuffer.go:18-38, 40-72).         *)
THEOREM RingIsLog == Spec => ImplementsLog
BY LogInitStep, StepRefines, SpecInv, PTL DEF Spec, ImplementsLog, Log!LogSpec
==============================================================================
