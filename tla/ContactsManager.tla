--------------------------- MODULE ContactsManager ---------------------------
(***************************************************************************)
(* Grants derived from the owner's Contacts lists: the Manager that keeps  *)
(* the last complete snapshot (internal/contacts/source.go), refreshed by  *)
(* a ticker through the native helper (helper.go, desktop.go), read by     *)
(* every data request. Time is discrete and every clock relative, so that  *)
(* nothing bounds how long the broker runs.                                *)
(*                                                                         *)
(* The helper is taken to read the lists at one instant, the first history *)
(* token's, which ContactsHelper shows of the exchange.                    *)
(***************************************************************************)
EXTENDS Naturals

CONSTANTS
  Identities,   \* phones and emails that may be on a selected card
  Refresh,      \* refresh_seconds
  MaxAge,       \* max_age_seconds
  Timeout,      \* timeout_ms
  MaxFaults     \* bound on transient failures, late answers and restarts

(* ContactsSource.Validate; a timeout is at most a minute, a period at least. *)
ASSUME PeriodAssumption ==
  /\ {Refresh, MaxAge, Timeout} \subseteq Nat \ {0}
  /\ Timeout <= Refresh /\ Refresh <= MaxAge
ASSUME FaultAssumption == MaxFaults \in Nat
(* NoGrants stands for the nil map, which no list of identities is. *)
ASSUME IdentityAssumption == "nil" \notin Identities

VARIABLES
  members,    \* identities now in the selected lists
  permitted,  \* whether the helper may read Contacts
  gone,       \* history: how long each identity has not been a grant
  grants,     \* m.identities, or NoGrants for nil
  age,        \* time since m.lastSuccess
  lastError,  \* m.lastError
  pc,         \* Run: waiting for a tick, or in Refresh
  answer,     \* what the helper has answered
  elapsed,    \* time since Refresh began
  wait,       \* time to the ticker's next tick
  due,        \* a tick is in its channel
  held,       \* history: a snapshot was taken and nothing has invalidated it
  faults

envVars == <<members, permitted, gone>>
managerVars == <<grants, age, lastError, held>>
runVars == <<pc, answer, elapsed, wait, due>>
vars == <<envVars, managerVars, runVars, faults>>

NoGrants == {"nil"}
NoAnswer == [code |-> "pending", ids |-> {}]
Error(code) == [code |-> code, ids |-> {}]

(* Older than any bound the properties speak of. *)
Old == MaxAge + Timeout + 1
Older(n) == IF n < Old THEN n + 1 ELSE n

(* NewManager and the start of Run: the first refresh waits for no tick. *)
Init ==
  /\ members \in SUBSET Identities /\ permitted \in BOOLEAN
  /\ gone = [i \in Identities |-> IF permitted /\ i \in members THEN 0 ELSE Old]
  /\ grants = NoGrants /\ age = Old /\ lastError = "none" /\ held = FALSE
  /\ pc = "waiting" /\ answer = NoAnswer /\ elapsed = 0 /\ wait = Refresh /\ due = TRUE
  /\ faults = 0

Fault == faults < MaxFaults /\ faults' = faults + 1

-----------------------------------------------------------------------------
(* The owner edits lists and permission; time passes. *)

Entitled(i) == permitted /\ i \in members

(* An identity stops or resumes being a grant now. *)
Since == [i \in Identities |-> IF Entitled(i)' \/ Entitled(i) THEN 0 ELSE gone[i]]

Edit ==
  /\ \E ids \in SUBSET Identities \ {members} : members' = ids
  /\ UNCHANGED permitted
  /\ gone' = Since
  /\ UNCHANGED <<managerVars, runVars, faults>>

Permit ==
  /\ permitted' = ~permitted
  /\ UNCHANGED members
  /\ gone' = Since
  /\ UNCHANGED <<managerVars, runVars, faults>>

(* Goroutines are prompt: no time passes while a tick waits to be taken, or
   past the deadline of a refresh. Reaching that deadline is a fault.      *)
Tick ==
  /\ pc = "waiting" => ~due
  /\ pc = "fetching" => elapsed < Timeout
  /\ IF pc = "fetching" /\ elapsed + 1 = Timeout THEN Fault ELSE UNCHANGED faults
  /\ elapsed' = IF pc = "fetching" THEN elapsed + 1 ELSE 0
  /\ wait' = IF wait = 1 THEN Refresh ELSE wait - 1
  /\ due' = (due \/ wait = 1)
  /\ age' = Older(age)
  /\ gone' = [i \in Identities |-> IF Entitled(i) THEN 0 ELSE Older(gone[i])]
  /\ UNCHANGED <<members, permitted, grants, lastError, held, pc, answer>>

-----------------------------------------------------------------------------
StopsAfterDenial ==                  \* bug: a denial ends the refresh loop
  /\ pc = "waiting" /\ due /\ lastError # "denied"
  /\ due' = FALSE
  /\ pc' = "fetching" /\ answer' = NoAnswer /\ elapsed' = 0
  /\ UNCHANGED <<envVars, managerVars, wait, faults>>
BeginRefresh ==
  /\ pc = "waiting" /\ due
  /\ due' = FALSE
  /\ pc' = "fetching" /\ answer' = NoAnswer /\ elapsed' = 0
  /\ UNCHANGED <<envVars, managerVars, wait, faults>>

(* The helper reads the lists, or finds that it may not. *)
Read ==
  /\ pc = "fetching" /\ answer = NoAnswer /\ elapsed < Timeout
  /\ answer' = IF permitted THEN [code |-> "ok", ids |-> members] ELSE Error("denied")
  /\ UNCHANGED <<envVars, managerVars, pc, elapsed, wait, due, faults>>

(* The store is unavailable or changed meanwhile, the output is malformed, or
   the failure has no code of its own.                                      *)
ReadFails ==
  /\ Fault
  /\ pc = "fetching" /\ answer = NoAnswer /\ elapsed < Timeout
  /\ \E code \in {"unavailable", "changed", "invalid", "other"} : answer' = Error(code)
  /\ UNCHANGED <<envVars, managerVars, pc, elapsed, wait, due>>

RawCode(code) == code              \* bug: any text becomes the status code
ErrorCode(code) == IF code = "other" THEN "unavailable" ELSE code

(* The code Refresh ends with: an expired context replaces any answer. *)
Code == IF elapsed = Timeout THEN "timeout" ELSE ErrorCode(answer.code)

(* bugs: every failure keeps the snapshot; a timeout drops it *)
AnyFailure == {"unavailable", "changed", "timeout", "denied", "invalid"}
NotTimeout == {"unavailable", "changed"}
Transient  == {"unavailable", "changed", "timeout"}

QuietError(code) ==                \* bug: a failure the grants survive leaves no error
  IF code \in Transient \cup {"ok"} THEN "none" ELSE code
ErrorAfter(code) == IF code = "ok" THEN "none" ELSE code

AgeRenewed(code) == 0              \* bug: an attempt renews the expiry
AgeAfter(code) == IF code = "ok" THEN 0 ELSE age

EndRefresh ==
  /\ pc = "fetching" /\ Code # "pending"
  /\ pc' = "waiting" /\ answer' = NoAnswer /\ elapsed' = 0
  /\ age' = AgeAfter(Code)
  /\ lastError' = ErrorAfter(Code)
  /\ grants' = CASE Code = "ok" -> answer.ids
                 [] Code \in Transient -> grants
                 [] OTHER -> NoGrants
  /\ held' = (Code = "ok" \/ (held /\ Code \notin {"denied", "invalid"}))
  /\ UNCHANGED <<envVars, wait, due, faults>>

(* The broker restarts; nothing of the snapshot is persisted. *)
Restart ==
  /\ Fault
  /\ grants' = NoGrants /\ age' = Old /\ lastError' = "none" /\ held' = FALSE
  /\ pc' = "waiting" /\ answer' = NoAnswer /\ elapsed' = 0 /\ wait' = Refresh /\ due' = TRUE
  /\ UNCHANGED envVars

Next == Edit \/ Permit \/ Tick \/ BeginRefresh \/ Read \/ ReadFails \/ EndRefresh \/ Restart

Spec == Init /\ [][Next]_vars

(* Time passes, goroutines run, and the helper answers when it can. *)
FairSpec == /\ Spec
            /\ WF_vars(Tick) /\ WF_vars(BeginRefresh) /\ WF_vars(Read) /\ WF_vars(EndRefresh)

-----------------------------------------------------------------------------
(* Get: the grants a data request sees. *)
Available == grants # NoGrants /\ age < MaxAge
Granted == IF Available THEN grants ELSE {}

(* What system.info reports. *)
State == IF ~Available THEN "unavailable" ELSE IF lastError = "none" THEN "ready" ELSE "degraded"

Codes == {"none", "unavailable", "changed", "timeout", "denied", "invalid"}

(* Every variable has its type. The last error is one of the fixed codes: the
   status never relays what a helper or the system said (ErrorCode).         *)
TypeOK ==
  /\ members \subseteq Identities /\ permitted \in BOOLEAN
  /\ gone \in [Identities -> 0..Old]
  /\ grants = NoGrants \/ grants \subseteq Identities
  /\ age \in 0..Old /\ lastError \in Codes /\ held \in BOOLEAN
  /\ pc \in {"waiting", "fetching"}
  /\ answer.code \in Codes \cup {"ok", "pending", "other"} /\ answer.ids \subseteq Identities
  /\ elapsed \in 0..Timeout /\ wait \in 1..Refresh /\ due \in BOOLEAN
  /\ faults \in 0..MaxFaults

(* docs/contacts-policy.md: a failing source retains the last snapshot "only
   until its ... expiry". Whatever fails, an identity taken off the lists, or
   whose permission went, is no grant after max_age plus one timeout.        *)
RemovalBounded == \A i \in Granted : gone[i] < MaxAge + Timeout

(* As long as nothing fails it is no grant after one period and one timeout:
   "membership changes take effect on the next successful refresh".          *)
RemovalPrompt == faults = 0 => \A i \in Granted : gone[i] <= Refresh + Timeout

(* Transient failures cost no availability while the expiry covers the periods
   they spoil, the time a refresh may take included.                          *)
NoGap == held /\ MaxAge > (faults + 1) * Refresh + Timeout => Available

(* Health says "ready" only of grants read within one period and one timeout: a
   source that hangs or fails while its grants live on shows as degraded.     *)
ReadyIsFresh == State = "ready" => age <= Refresh + Timeout

(* "Once a complete snapshot is available, reads recover automatically." *)
Recovers == permitted ~> (Available \/ ~permitted)

(* "Observed permission loss ... invalidates it immediately": a refresh that
   was answered with a denial leaves no grants.                              *)
DenialInvalidates ==
  [][pc = "fetching" /\ pc' = "waiting" /\ answer.code = "denied" => grants' = NoGrants]_vars
=============================================================================
