---------------------------- MODULE BackendStream ----------------------------
(***************************************************************************)
(* One backend read at a time: the reader (Process.run, backend.go), the   *)
(* goroutine that scans the child's output and waits for it (stream.go),   *)
(* the child process and a descendant of it that inherits its stdout       *)
(* (external), and os/exec's kill when the context ends (external; what it *)
(* kills is configureProcess, process_unix.go).                            *)
(*                                                                         *)
(* The goroutine and the reader meet on an unbuffered channel. Lines are   *)
(* positions in the child's output; only their kind is kept. Identity      *)
(* checks before and after a read are in Collection and ReadPath.          *)
(***************************************************************************)
EXTENDS Naturals, Sequences, FiniteSets

CONSTANTS
  MaxRows,     \* rows the reader takes
  MaxLines,    \* output bound, maxBackendOutputBytes, in lines
  PipeCap,     \* lines a pipe holds
  MaxOutput    \* bound on what a child writes

ASSUME SizeAssumption == {MaxRows, MaxLines, PipeCap, MaxOutput} \subseteq Nat

VARIABLES
  output, written,      \* what the child means to write, and has written
  child, heir,          \* the child, and a descendant that holds its stdout
  deadline, cancelled,  \* the reader's context is done; the stream's is
  readEnd,              \* our end of the pipe is open
  sc, read, line,       \* the goroutine, lines it has read, the one in hand
  readErr, exitErr,     \* how its scan and its Wait ended
  run, handled, result  \* the reader, the rows it has taken, what it returns

childVars  == <<output, written, child, heir>>
ctxVars    == <<deadline, cancelled, readEnd>>
streamVars == <<sc, read, line, readErr, exitErr>>
runVars    == <<run, handled, result>>
vars == <<childVars, ctxVars, streamVars, runVars>>

(* What a line is to the code: a row its handler takes or refuses, a blank
   line, a line longer than maxBackendLineBytes.                           *)
Kinds == {"row", "bad", "blank", "long"}
Outputs == UNION {[1..n -> Kinds] : n \in 0..MaxOutput}

Alive == child \in {"running", "silent"}

Init ==
  /\ output = <<>> /\ written = 0 /\ child = "ok" /\ heir = "none"
  /\ deadline = FALSE /\ cancelled = TRUE /\ readEnd = FALSE
  /\ sc = "done" /\ read = 0 /\ line = 0 /\ readErr = "none" /\ exitErr = FALSE
  /\ run = "returned" /\ handled = {} /\ result = "ok"

StaleRows == handled                 \* bug: the last read's rows stay
NoRows == {}

(* startStream, for the next request. A read whose child cannot be started
   returns at once.                                                         *)
Start ==
  /\ run = "returned"
  /\ output' \in Outputs /\ written' = 0
  /\ child' = "running" /\ heir' \in {"none", "group", "escaped"}
  /\ deadline' = FALSE /\ cancelled' = FALSE /\ readEnd' = TRUE
  /\ sc' = "scan" /\ read' = 0 /\ line' = 0 /\ readErr' = "none" /\ exitErr' = FALSE
  /\ run' = "select" /\ handled' = NoRows /\ result' = "none"

-----------------------------------------------------------------------------
(* The child writes and ends as it likes; nothing makes it. It succeeds only
   once all is written, and may close its output long before it ends.       *)
ChildWrites ==
  /\ child = "running" /\ written < Len(output) /\ written - read < PipeCap /\ readEnd
  /\ written' = written + 1
  /\ UNCHANGED <<output, child, heir, ctxVars, streamVars, runVars>>

ChildCloses ==
  /\ child = "running" /\ written = Len(output)
  /\ child' = "silent"
  /\ UNCHANGED <<output, written, heir, ctxVars, streamVars, runVars>>

ChildExits ==
  /\ Alive
  /\ \/ child' = "ok" /\ written = Len(output)
     \/ child' = "bad"
  /\ UNCHANGED <<output, written, heir, ctxVars, streamVars, runVars>>

HeirEnds ==
  /\ heir # "none" /\ heir' = "none"
  /\ UNCHANGED <<output, written, child, ctxVars, streamVars, runVars>>

(* bug: only the child is killed *)
ChildKilled ==
  child' = (IF Alive THEN "killed" ELSE child) /\ heir' = heir
(* cmd.Cancel: the child's whole process group, as long as it is not reaped. *)
GroupKilled ==
  /\ child' = IF Alive THEN "killed" ELSE child
  /\ heir' = IF heir = "group" THEN "none" ELSE heir

(* The request's deadline, or the broker's shutdown. *)
Deadline ==
  /\ run # "returned" /\ ~deadline
  /\ deadline' = TRUE /\ cancelled' = TRUE
  /\ UNCHANGED <<childVars, readEnd, streamVars, runVars>>

(* os/exec cancels the command once its context is done, until it is reaped. *)
Kill ==
  /\ cancelled /\ sc \in {"scan", "send", "ended", "wait"}
  /\ Alive \/ heir = "group"
  /\ GroupKilled
  /\ UNCHANGED <<output, written, ctxVars, streamVars, runVars>>

-----------------------------------------------------------------------------
(* The goroutine scans a line; the order of its checks is the code's. *)
ScanLine ==
  /\ sc = "scan" /\ read < written
  /\ read' = read + 1
  /\ LET kind == output[read'] IN
     \/ kind = "long" /\ readErr' = "too long" /\ sc' = "ended" /\ line' = 0
     \/ kind # "long" /\ read' > MaxLines
          /\ readErr' = "overflow" /\ sc' = "ended" /\ line' = 0
     \/ kind = "blank" /\ read' <= MaxLines /\ UNCHANGED <<readErr, sc, line>>
     \/ kind \in {"row", "bad"} /\ read' <= MaxLines
          /\ sc' = "send" /\ line' = read' /\ UNCHANGED readErr
  /\ UNCHANGED <<childVars, ctxVars, exitErr, runVars>>

(* End of file: nobody holds the other end. *)
ScanEnds ==
  /\ sc = "scan" /\ read = written /\ child # "running" /\ heir = "none"
  /\ sc' = "ended"
  /\ UNCHANGED <<childVars, ctxVars, read, line, readErr, exitErr, runVars>>

(* Our end has been closed under a blocked read. *)
ScanBroken ==
  /\ sc = "scan" /\ ~readEnd
  /\ sc' = "ended" /\ readErr' = "closed"
  /\ UNCHANGED <<childVars, ctxVars, read, line, exitErr, runVars>>

(* Nobody takes the line and the context is done. *)
SendBroken ==
  /\ sc = "send" /\ cancelled
  /\ sc' = "ended" /\ line' = 0
  /\ UNCHANGED <<childVars, ctxVars, read, readErr, exitErr, runVars>>

(* A scan that failed, or whose context is done, cancels the command. *)
Ended ==
  /\ sc = "ended"
  /\ sc' = "wait"
  /\ IF readErr # "none" \/ cancelled THEN GroupKilled ELSE UNCHANGED <<child, heir>>
  /\ UNCHANGED <<output, written, ctxVars, read, line, readErr, exitErr, runVars>>

(* cmd.Wait reaps the child and closes the pipe. It may fail for a child that
   did not: it had to cut off a descendant's stderr, or the context ended.    *)
Wait ==
  /\ sc = "wait" /\ ~Alive
  /\ sc' = "final" /\ readEnd' = FALSE
  /\ exitErr' \in {child # "ok", TRUE}
  /\ UNCHANGED <<childVars, deadline, cancelled, read, line, readErr, runVars>>

(* The final event finds no reader. *)
FinalDropped ==
  /\ sc = "final" /\ cancelled
  /\ sc' = "done"
  /\ UNCHANGED <<childVars, ctxVars, read, line, readErr, exitErr, runVars>>

-----------------------------------------------------------------------------
(* The reader has its result and enters the deferred close. *)
Finish(r) == run' = "closing" /\ result' = r

Refused == Cardinality(handled) >= MaxRows \/ output[line] = "bad"

(* A line passes from the goroutine to the reader. *)
Deliver ==
  /\ sc = "send" /\ run = "select"
  /\ sc' = "scan" /\ line' = 0
  /\ \/ deadline /\ Finish("timeout") /\ UNCHANGED handled
     \/ ~deadline /\ Refused /\ Finish("failed") /\ UNCHANGED handled
     \/ /\ ~deadline /\ ~Refused
        /\ handled' = handled \cup {line}
        /\ UNCHANGED <<run, result>>
  /\ UNCHANGED <<childVars, ctxVars, read, readErr, exitErr>>

(* bug: a clean scan is enough *)
ScanOutcome == IF readErr # "none" THEN "failed" ELSE "ok"
Outcome == IF readErr # "none" \/ exitErr THEN "failed" ELSE "ok"

(* The final event passes, and the channel is closed. *)
Conclude ==
  /\ sc = "final" /\ run = "select"
  /\ sc' = "done"
  /\ Finish(IF deadline THEN "timeout" ELSE Outcome)
  /\ UNCHANGED <<childVars, ctxVars, read, line, readErr, exitErr, handled>>

(* The context is done, or the channel was closed without a final event. *)
GiveUp ==
  /\ run = "select"
  /\ deadline \/ sc = "done"
  /\ Finish(IF deadline THEN "timeout" ELSE "failed")
  /\ UNCHANGED <<childVars, ctxVars, streamVars, handled>>

(* bug: the pipe is left open *)
CancelOnly ==
  /\ run = "closing" /\ run' = "joining"
  /\ cancelled' = TRUE
  /\ UNCHANGED <<childVars, deadline, readEnd, streamVars, handled, result>>
Close ==
  /\ run = "closing" /\ run' = "joining"
  /\ cancelled' = TRUE /\ readEnd' = FALSE
  /\ UNCHANGED <<childVars, deadline, streamVars, handled, result>>

NotJoined ==                         \* bug: close does not wait
  /\ run = "joining" /\ run' = "returned"
  /\ UNCHANGED <<childVars, ctxVars, streamVars, handled, result>>
Join ==
  /\ run = "joining" /\ sc = "done"
  /\ run' = "returned"
  /\ UNCHANGED <<childVars, ctxVars, streamVars, handled, result>>

-----------------------------------------------------------------------------
External == ChildWrites \/ ChildCloses \/ ChildExits \/ HeirEnds \/ Deadline \/ Kill

Scanner == ScanLine \/ ScanEnds \/ ScanBroken \/ SendBroken \/ Ended \/ Wait \/ FinalDropped

Reader == Deliver \/ Conclude \/ GiveUp \/ Close \/ Join

Next == Start \/ External \/ Scanner \/ Reader

Spec == Init /\ [][Next]_vars

(* Goroutines run, deadlines pass and a kill is carried out. Nothing is
   assumed of the child or of its descendant.                               *)
FairSpec ==
  Spec /\ WF_vars(Scanner) /\ WF_vars(Reader) /\ WF_vars(Kill) /\ WF_vars(Deadline)

-----------------------------------------------------------------------------
Rows(n) == {k \in 1..n : output[k] = "row"}

(* Every variable has its type. *)
TypeOK ==
  /\ output \in Outputs /\ written \in 0..Len(output) /\ read \in 0..written
  /\ child \in {"running", "silent", "ok", "bad", "killed"}
  /\ heir \in {"none", "group", "escaped"}
  /\ {deadline, cancelled, readEnd, exitErr} \subseteq BOOLEAN
  /\ sc \in {"scan", "send", "ended", "wait", "final", "done"}
  /\ line \in 0..read /\ (sc = "send" <=> line # 0)
  /\ readErr \in {"none", "too long", "overflow", "closed"}
  /\ run \in {"select", "closing", "joining", "returned"}
  /\ handled \subseteq 1..read
  /\ result \in {"none", "ok", "failed", "timeout"}

(* backend.go: run succeeds only with the child's whole output, each row taken
   once, and a child that ended well; a child that is killed, fails, hangs or
   writes too much yields no rows.                                           *)
WholeOutput ==
  result = "ok" => /\ handled = Rows(Len(output)) /\ read = Len(output)
                   /\ child = "ok" /\ Cardinality(handled) <= MaxRows

(* stream.go: close "joins the reader before returning". When a read returns
   its goroutine has ended, its child is reaped, and no process of the child's
   group keeps its output open.                                              *)
NothingLeft == run = "returned" => sc = "done" /\ ~Alive /\ ~readEnd /\ heir # "group"

(* Every read returns, though the child may hang, flood its output or close it
   and live on, and though a descendant may escape the kill with the pipe.    *)
Returns == run = "select" ~> run = "returned"

(* backendFailure's code for a read that failed. *)
Code(r) == CASE r = "timeout"  -> "backend_timeout"
             [] r = "overflow" -> "collection_overflow"
             [] OTHER          -> "backend_unavailable"

(* docs/operations.md: treat "collection_overflow as an operator event". A read
   that ends because its output exceeds the bound is reported as such.        *)
OverflowReported ==
  [][sc = "final" /\ run = "select" /\ run' = "closing" /\ readErr = "overflow" /\ ~deadline
       => Code(result') = "collection_overflow"]_vars
=============================================================================
