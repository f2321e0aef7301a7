------------------------- MODULE BackendStream_proofs -------------------------
(* Proofs about one backend read, for every output, bound and descendant. *)
EXTENDS BackendStream, FiniteSetTheorems, TLAPS

USE SizeAssumption

(* The parts of the inductive invariant. *)

(* The reader: nothing decided while it selects, its goroutine gone when it
   has returned, and only its deadline cancels the stream under it.           *)
ReaderInv ==
  /\ run = "select" => result = "none" /\ (cancelled => deadline)
  /\ run = "returned" \/ result = "ok" => sc = "done"
  /\ Cardinality(handled) <= MaxRows

(* The rows taken are those read, but for the line on its way. *)
TakenInv ==
  /\ run = "select" /\ ~deadline /\ readErr = "none" => handled = Rows(read) \ {line}
  /\ line # 0 => output[line] \in {"row", "bad"}

(* A scan that ended by itself has read all that was written; a reaped child is
   gone, with its group, and its success was its own.                         *)
ScanInv ==
  /\ sc \in {"ended", "wait", "final"} /\ readErr = "none" /\ ~cancelled
       => read = written /\ child # "running" /\ heir = "none"
  /\ sc \in {"wait", "final", "done"} => heir # "group"
  /\ sc \in {"final", "done"} => ~Alive /\ ~readEnd
  /\ sc = "final" /\ ~exitErr => child = "ok"
  /\ child = "ok" => written = Len(output)

IInv == TypeOK /\ ReaderInv /\ TakenInv /\ ScanInv /\ WholeOutput

LEMMA OutputType ==
  ASSUME NEW o \in Outputs
  PROVE  o \in [1..Len(o) -> Kinds] /\ Len(o) \in Nat
<1>1. PICK n \in 0..MaxOutput : o \in [1..n -> Kinds]
  BY DEF Outputs
<1>2. Len(o) = n
  BY <1>1
<1> QED BY <1>1, <1>2

(* Where the writer, the scan and the line in hand are. *)
LEMMA Positions ==
  ASSUME TypeOK
  PROVE  /\ output \in [1..Len(output) -> Kinds] /\ Len(output) \in Nat
         /\ written \in Nat /\ written <= Len(output)
         /\ read \in Nat /\ read <= written
         /\ line \in Nat /\ line <= read /\ (sc = "send" <=> line # 0)
         /\ handled \subseteq 1..read
<1>1. output \in [1..Len(output) -> Kinds] /\ Len(output) \in Nat
  BY OutputType DEF TypeOK
<1>2. /\ written \in 0..Len(output) /\ read \in 0..written /\ line \in 0..read
      /\ (sc = "send" <=> line # 0) /\ handled \subseteq 1..read
  BY DEF TypeOK
<1> QED BY <1>1, <1>2

LEMMA InitInv == Init => IInv
<1> SUFFICES ASSUME Init PROVE IInv
  OBVIOUS
<1>1. output \in Outputs /\ Len(output) = 0
  BY DEF Init, Outputs
<1>2. Cardinality({}) = 0
  BY FS_EmptySet
<1> USE DEF Init
<1>p. written \in 0..Len(output) /\ read \in 0..written /\ line \in 0..read /\ handled \subseteq 1..read
  BY <1>1
<1>3. TypeOK
  BY <1>1, <1>p DEF TypeOK
<1>4. MaxRows \in Nat /\ Rows(0) = {}
  BY DEF SizeAssumption, Rows
<1>5. ReaderInv /\ TakenInv /\ ScanInv /\ WholeOutput
  BY <1>1, <1>2, <1>4 DEF ReaderInv, TakenInv, ScanInv, WholeOutput, Alive
<1> QED BY <1>3, <1>5 DEF IInv

LEMMA NextInv == IInv /\ [Next]_vars => IInv'
<1> SUFFICES ASSUME IInv, [Next]_vars PROVE IInv'
  OBVIOUS
<1> USE DEF IInv, childVars, ctxVars, streamVars, runVars
<1>o. /\ output \in [1..Len(output) -> Kinds] /\ Len(output) \in Nat
      /\ written \in Nat /\ written <= Len(output)
      /\ read \in Nat /\ read <= written
      /\ line \in Nat /\ line <= read /\ (sc = "send" <=> line # 0)
      /\ handled \subseteq 1..read
  BY Positions
<1>1. CASE Start
  <2> USE <1>1 DEF Start, NoRows
  <2>o. output' \in [1..Len(output') -> Kinds] /\ Len(output') \in Nat
    BY OutputType
  <2>p. (written \in 0..Len(output) /\ read \in 0..written /\ line \in 0..read /\ handled \subseteq 1..read)'
    BY <2>o
  <2>1. TypeOK'
    BY <2>p DEF TypeOK
  <2>2. ReaderInv'
    BY FS_EmptySet DEF SizeAssumption, ReaderInv
  <2>3. TakenInv'
    BY DEF TakenInv, Rows
  <2>4. ScanInv'
    BY DEF TypeOK, ScanInv, Alive
  <2>5. WholeOutput'
    BY DEF TypeOK, ReaderInv, ScanInv, WholeOutput, Rows, Alive
  <2> QED BY <2>1, <2>2, <2>3, <2>4, <2>5
<1>2. CASE ChildWrites
  <2> USE <1>2 DEF ChildWrites
  <2>p. (written \in 0..Len(output) /\ read \in 0..written /\ line \in 0..read /\ handled \subseteq 1..read)'
    BY <1>o
  <2>1. TypeOK'
    BY <2>p DEF TypeOK
  <2>2. ReaderInv'
    BY DEF TypeOK, ReaderInv
  <2>3. TakenInv'
    BY <1>o DEF TypeOK, ReaderInv, TakenInv, Rows
  <2>4. ScanInv'
    BY DEF TypeOK, ScanInv, Alive
  <2>5. WholeOutput'
    BY DEF TypeOK, ReaderInv, ScanInv, WholeOutput, Rows, Alive
  <2> QED BY <2>1, <2>2, <2>3, <2>4, <2>5
<1>3. CASE ChildCloses
  <2> USE <1>3 DEF ChildCloses
  <2>1. TypeOK'
    BY <1>o DEF TypeOK, Alive
  <2>2. ReaderInv'
    BY DEF TypeOK, ReaderInv
  <2>3. TakenInv'
    BY <1>o DEF TypeOK, ReaderInv, TakenInv, Rows
  <2>4. ScanInv'
    BY DEF TypeOK, ScanInv, Alive
  <2>5. WholeOutput'
    BY DEF TypeOK, ReaderInv, ScanInv, WholeOutput, Rows, Alive
  <2> QED BY <2>1, <2>2, <2>3, <2>4, <2>5
<1>4. CASE ChildExits
  <2> USE <1>4 DEF ChildExits
  <2>1. TypeOK'
    BY <1>o DEF TypeOK, Alive
  <2>2. ReaderInv'
    BY DEF TypeOK, ReaderInv
  <2>3. TakenInv'
    BY <1>o DEF TypeOK, ReaderInv, TakenInv, Rows
  <2>4. ScanInv'
    BY DEF TypeOK, ScanInv, Alive
  <2>5. WholeOutput'
    BY DEF TypeOK, ReaderInv, ScanInv, WholeOutput, Rows, Alive
  <2> QED BY <2>1, <2>2, <2>3, <2>4, <2>5
<1>5. CASE HeirEnds
  <2> USE <1>5 DEF HeirEnds
  <2>1. TypeOK'
    BY <1>o DEF TypeOK, Alive
  <2>2. ReaderInv'
    BY DEF TypeOK, ReaderInv
  <2>3. TakenInv'
    BY <1>o DEF TypeOK, ReaderInv, TakenInv, Rows
  <2>4. ScanInv'
    BY DEF TypeOK, ScanInv, Alive
  <2>5. WholeOutput'
    BY DEF TypeOK, ReaderInv, ScanInv, WholeOutput, Rows, Alive
  <2> QED BY <2>1, <2>2, <2>3, <2>4, <2>5
<1>6. CASE Deadline
  <2> USE <1>6 DEF Deadline
  <2>1. TypeOK'
    BY <1>o DEF TypeOK, Alive
  <2>2. ReaderInv'
    BY DEF TypeOK, ReaderInv
  <2>3. TakenInv'
    BY <1>o DEF TypeOK, ReaderInv, TakenInv, Rows
  <2>4. ScanInv'
    BY DEF TypeOK, ScanInv, Alive
  <2>5. WholeOutput'
    BY DEF TypeOK, ReaderInv, ScanInv, WholeOutput, Rows, Alive
  <2> QED BY <2>1, <2>2, <2>3, <2>4, <2>5
<1>7. CASE Kill
  <2> USE <1>7 DEF Kill, GroupKilled
  <2>1. TypeOK'
    BY <1>o DEF TypeOK, Alive
  <2>2. ReaderInv'
    BY DEF TypeOK, ReaderInv
  <2>3. TakenInv'
    BY <1>o DEF TypeOK, ReaderInv, TakenInv, Rows
  <2>4. ScanInv'
    BY DEF TypeOK, ScanInv, Alive
  <2>5. WholeOutput'
    BY DEF TypeOK, ReaderInv, ScanInv, WholeOutput, Rows, Alive
  <2> QED BY <2>1, <2>2, <2>3, <2>4, <2>5
<1>8. CASE ScanLine
  <2>1. /\ sc = "scan" /\ read < written /\ read' = read + 1
        /\ UNCHANGED <<childVars, ctxVars, exitErr, runVars>>
    BY <1>8 DEF ScanLine
  <2>2. \/ readErr' \in {"too long", "overflow"} /\ sc' = "ended" /\ line' = 0
        \/ output[read'] = "blank" /\ UNCHANGED <<readErr, sc, line>>
        \/ output[read'] \in {"row", "bad"} /\ sc' = "send" /\ line' = read' /\ UNCHANGED readErr
    BY <1>8 DEF ScanLine
  <2>3. read' \in 1..Len(output) /\ read' \in 0..written /\ read \in 0..read' /\ line = 0
    BY <1>o, <2>1
  <2>l. (line' = 0 /\ sc' # "send") \/ (line' = read' /\ sc' = "send")
    BY <2>1, <2>2, <2>3
  <2>4. (written \in 0..Len(output) /\ read \in 0..written /\ line \in 0..read /\ handled \subseteq 1..read)'
    <3>1. UNCHANGED <<output, written, handled>>
      BY <2>1
    <3>2. 1..read \subseteq 1..read' /\ line' \in 0..read'
      BY <1>o, <2>3, <2>l
    <3> QED BY <1>o, <2>3, <3>1, <3>2
  <2>5. sc' = "send" <=> line' # 0
    BY <2>3, <2>l
  <2>6. TypeOK'
    BY <2>1, <2>2, <2>4, <2>5 DEF TypeOK
  <2>7. ReaderInv'
    BY <2>1 DEF ReaderInv
  <2>8. 1..read' = 1..read \cup {read'} /\ read' \notin 1..read
    BY <1>o, <2>1
  <2>9. Rows(read') = IF output[read'] = "row" THEN Rows(read) \cup {read'} ELSE Rows(read)
    BY <2>8 DEF Rows
  <2>10. 0 \notin Rows(read') /\ read' \notin Rows(read) /\ Rows(read)' = Rows(read')
    BY <1>o, <2>1, <2>8 DEF Rows
  <2>11. TakenInv'
    BY <2>1, <2>2, <2>3, <2>9, <2>10 DEF TakenInv
  <2>12. ScanInv'
    BY <2>1, <2>2 DEF ScanInv, Alive
  <2>13. WholeOutput'
    BY <2>1 DEF ReaderInv, WholeOutput
  <2> QED BY <2>6, <2>7, <2>11, <2>12, <2>13
<1>9. CASE ScanEnds
  <2> USE <1>9 DEF ScanEnds
  <2>1. TypeOK'
    BY <1>o DEF TypeOK, Alive
  <2>2. ReaderInv'
    BY DEF TypeOK, ReaderInv
  <2>3. TakenInv'
    BY <1>o DEF TypeOK, ReaderInv, TakenInv, Rows
  <2>4. ScanInv'
    BY DEF TypeOK, ScanInv, Alive
  <2>5. WholeOutput'
    BY DEF TypeOK, ReaderInv, ScanInv, WholeOutput, Rows, Alive
  <2> QED BY <2>1, <2>2, <2>3, <2>4, <2>5
<1>10. CASE ScanBroken
  <2> USE <1>10 DEF ScanBroken
  <2>1. TypeOK'
    BY <1>o DEF TypeOK, Alive
  <2>2. ReaderInv'
    BY DEF TypeOK, ReaderInv
  <2>3. TakenInv'
    BY <1>o DEF TypeOK, ReaderInv, TakenInv, Rows
  <2>4. ScanInv'
    BY DEF TypeOK, ScanInv, Alive
  <2>5. WholeOutput'
    BY DEF TypeOK, ReaderInv, ScanInv, WholeOutput, Rows, Alive
  <2> QED BY <2>1, <2>2, <2>3, <2>4, <2>5
<1>11. CASE SendBroken
  <2> USE <1>11 DEF SendBroken
  <2>p. (written \in 0..Len(output) /\ read \in 0..written /\ line \in 0..read /\ handled \subseteq 1..read)'
    BY <1>o
  <2>1. TypeOK'
    BY <2>p DEF TypeOK
  <2>2. ReaderInv'
    BY DEF TypeOK, ReaderInv
  <2>3. TakenInv'
    BY <1>o DEF TypeOK, ReaderInv, TakenInv, Rows
  <2>4. ScanInv'
    BY DEF TypeOK, ScanInv, Alive
  <2>5. WholeOutput'
    BY DEF TypeOK, ReaderInv, ScanInv, WholeOutput, Rows, Alive
  <2> QED BY <2>1, <2>2, <2>3, <2>4, <2>5
<1>12. CASE Ended
  <2> USE <1>12 DEF Ended, GroupKilled
  <2>1. TypeOK'
    BY <1>o DEF TypeOK, Alive
  <2>2. ReaderInv'
    BY DEF TypeOK, ReaderInv
  <2>3. TakenInv'
    BY <1>o DEF TypeOK, ReaderInv, TakenInv, Rows
  <2>4. ScanInv'
    BY DEF TypeOK, ScanInv, Alive
  <2>5. WholeOutput'
    BY DEF TypeOK, ReaderInv, ScanInv, WholeOutput, Rows, Alive
  <2> QED BY <2>1, <2>2, <2>3, <2>4, <2>5
<1>13. CASE Wait
  <2> USE <1>13 DEF Wait
  <2>1. TypeOK'
    BY <1>o DEF TypeOK, Alive
  <2>2. ReaderInv'
    BY DEF TypeOK, ReaderInv
  <2>3. TakenInv'
    BY <1>o DEF TypeOK, ReaderInv, TakenInv, Rows
  <2>4. ScanInv'
    BY DEF TypeOK, ScanInv, Alive
  <2>5. WholeOutput'
    BY DEF TypeOK, ReaderInv, ScanInv, WholeOutput, Rows, Alive
  <2> QED BY <2>1, <2>2, <2>3, <2>4, <2>5
<1>14. CASE FinalDropped
  <2> USE <1>14 DEF FinalDropped
  <2>1. TypeOK'
    BY <1>o DEF TypeOK, Alive
  <2>2. ReaderInv'
    BY DEF TypeOK, ReaderInv
  <2>3. TakenInv'
    BY <1>o DEF TypeOK, ReaderInv, TakenInv, Rows
  <2>4. ScanInv'
    BY DEF TypeOK, ScanInv, Alive
  <2>5. WholeOutput'
    BY DEF TypeOK, ReaderInv, ScanInv, WholeOutput, Rows, Alive
  <2> QED BY <2>1, <2>2, <2>3, <2>4, <2>5
<1>15. CASE Deliver
  <2>1. /\ sc = "send" /\ run = "select" /\ sc' = "scan" /\ line' = 0
        /\ UNCHANGED <<childVars, ctxVars, read, readErr, exitErr>>
    BY <1>15 DEF Deliver
  <2>2. \/ run' = "closing" /\ result' \in {"timeout", "failed"} /\ UNCHANGED handled
        \/ /\ ~(Cardinality(handled) >= MaxRows)
           /\ output[line] # "bad"
           /\ handled' = handled \cup {line} /\ UNCHANGED <<run, result>>
    BY <1>15 DEF Deliver, Finish, Refused
  <2>3. line \in 1..read /\ output[line] \in {"row", "bad"}
    BY <1>o, <2>1 DEF TakenInv
  <2>4. handled' \subseteq 1..read
    BY <1>o, <2>2, <2>3
  <2>5. (written \in 0..Len(output) /\ read \in 0..written /\ line \in 0..read /\ handled \subseteq 1..read)'
    BY <1>o, <2>1, <2>4
  <2>6. run' \in {"select", "closing"} /\ result' \in {"none", "timeout", "failed"}
    BY <2>1, <2>2 DEF ReaderInv
  <2>7. TypeOK'
    BY <2>1, <2>5, <2>6 DEF TypeOK
  <2>8. IsFiniteSet(1..read)
    BY <1>o, FS_Interval
  <2>9. IsFiniteSet(handled) /\ Cardinality(handled) \in Nat
    BY <1>o, <2>8, FS_Subset, FS_CardinalityType
  <2>10. Cardinality(handled \cup {line}) <= Cardinality(handled) + 1
    BY <2>9, FS_AddElement
  <2>11. MaxRows \in Nat /\ Cardinality(handled \cup {line}) \in Nat
    BY <2>9, FS_AddElement, FS_CardinalityType DEF SizeAssumption
  <2>12. Cardinality(handled') <= MaxRows
    <3>1. ~(Cardinality(handled) >= MaxRows) => Cardinality(handled) + 1 <= MaxRows
      BY <2>9, <2>11
    <3>2. CASE UNCHANGED handled
      BY <3>2 DEF ReaderInv
    <3>3. CASE ~(Cardinality(handled) >= MaxRows) /\ handled' = handled \cup {line}
      BY <2>9, <2>10, <2>11, <3>1, <3>3
    <3> QED BY <2>2, <3>2, <3>3
  <2>13. ReaderInv'
    BY <2>1, <2>2, <2>6, <2>12 DEF ReaderInv
  <2>14. 0 \notin Rows(read) /\ (output[line] = "row" => line \in Rows(read)) /\ Rows(read)' = Rows(read)
    BY <1>o, <2>1, <2>3 DEF Rows
  <2>15. TakenInv'
    BY <2>1, <2>2, <2>3, <2>14 DEF TakenInv
  <2>16. ScanInv'
    BY <2>1 DEF ScanInv, Alive
  <2>17. WholeOutput'
    BY <2>6 DEF WholeOutput
  <2> QED BY <2>7, <2>13, <2>15, <2>16, <2>17
<1>16. CASE Conclude
  <2> USE <1>16 DEF Conclude, Finish, Outcome
  <2>1. TypeOK'
    BY <1>o DEF TypeOK, Alive
  <2>2. ReaderInv'
    BY DEF TypeOK, ReaderInv
  <2>3. TakenInv'
    BY <1>o DEF TypeOK, ReaderInv, TakenInv, Rows
  <2>4. ScanInv'
    BY DEF TypeOK, ScanInv, Alive
  <2>5. WholeOutput'
    <3> SUFFICES ASSUME result' = "ok"
                 PROVE  /\ handled = Rows(Len(output)) /\ read = Len(output)
                        /\ child = "ok" /\ Cardinality(handled) <= MaxRows
      BY DEF WholeOutput, Rows
    <3>1. ~deadline /\ readErr = "none" /\ ~exitErr /\ ~cancelled
      BY DEF ReaderInv
    <3>2. read = written /\ child = "ok" /\ written = Len(output)
      BY <3>1 DEF ScanInv
    <3>3. line = 0 /\ handled = Rows(read) /\ 0 \notin Rows(read)
      BY <1>o, <3>1 DEF TakenInv, Rows
    <3> QED BY <3>2, <3>3 DEF ReaderInv
  <2> QED BY <2>1, <2>2, <2>3, <2>4, <2>5
<1>17. CASE GiveUp
  <2> USE <1>17 DEF GiveUp, Finish
  <2>1. TypeOK'
    BY <1>o DEF TypeOK, Alive
  <2>2. ReaderInv'
    BY DEF TypeOK, ReaderInv
  <2>3. TakenInv'
    BY <1>o DEF TypeOK, ReaderInv, TakenInv, Rows
  <2>4. ScanInv'
    BY DEF TypeOK, ScanInv, Alive
  <2>5. WholeOutput'
    BY DEF TypeOK, ReaderInv, ScanInv, WholeOutput, Rows, Alive
  <2> QED BY <2>1, <2>2, <2>3, <2>4, <2>5
<1>18. CASE Close
  <2> USE <1>18 DEF Close
  <2>1. TypeOK'
    BY <1>o DEF TypeOK, Alive
  <2>2. ReaderInv'
    BY DEF TypeOK, ReaderInv
  <2>3. TakenInv'
    BY <1>o DEF TypeOK, ReaderInv, TakenInv, Rows
  <2>4. ScanInv'
    BY DEF TypeOK, ScanInv, Alive
  <2>5. WholeOutput'
    BY DEF TypeOK, ReaderInv, ScanInv, WholeOutput, Rows, Alive
  <2> QED BY <2>1, <2>2, <2>3, <2>4, <2>5
<1>19. CASE Join
  <2> USE <1>19 DEF Join
  <2>1. TypeOK'
    BY <1>o DEF TypeOK, Alive
  <2>2. ReaderInv'
    BY DEF TypeOK, ReaderInv
  <2>3. TakenInv'
    BY <1>o DEF TypeOK, ReaderInv, TakenInv, Rows
  <2>4. ScanInv'
    BY DEF TypeOK, ScanInv, Alive
  <2>5. WholeOutput'
    BY DEF TypeOK, ReaderInv, ScanInv, WholeOutput, Rows, Alive
  <2> QED BY <2>1, <2>2, <2>3, <2>4, <2>5
<1>20. CASE UNCHANGED vars
  <2> USE <1>20 DEF vars
  <2>1. TypeOK'
    BY DEF TypeOK
  <2>2. ReaderInv' /\ TakenInv' /\ ScanInv' /\ WholeOutput'
    BY DEF ReaderInv, TakenInv, ScanInv, WholeOutput, Rows, Alive
  <2> QED BY <2>1, <2>2
<1> QED
  BY <1>1, <1>2, <1>3, <1>4, <1>5, <1>6, <1>7, <1>8, <1>9, <1>10, <1>11, <1>12, <1>13, <1>14, <1>15, <1>16, <1>17, <1>18, <1>19, <1>20 DEF Next, External, Scanner, Reader

(* Types of one read's state. *)
THEOREM StreamTypes == Spec => []TypeOK
<1>1. IInv => TypeOK
  BY DEF IInv
<1> QED BY InitInv, NextInv, <1>1, PTL DEF Spec

(* A read succeeds only with the whole output of a child that ended well. *)
THEOREM SuccessIsWhole == Spec => []WholeOutput
<1>1. IInv => WholeOutput
  BY DEF IInv
<1> QED BY InitInv, NextInv, <1>1, PTL DEF Spec

(* When a read returns, its goroutine, its child and the child's group are gone. *)
THEOREM ReturnLeavesNothing == Spec => []NothingLeft
<1>1. IInv => NothingLeft
  BY DEF IInv, ReaderInv, ScanInv, NothingLeft
<1> QED BY InitInv, NextInv, <1>1, PTL DEF Spec
=============================================================================
