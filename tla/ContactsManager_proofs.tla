------------------------ MODULE ContactsManager_proofs ------------------------
(***************************************************************************)
(* ContactsManager keeps its types and bounds how long a removed identity  *)
(* stays a grant, for every period, expiry and timeout a configuration may *)
(* have.                                                                   *)
(*                                                                         *)
(* The bound composes two delays. An answer in hand was read during this   *)
(* refresh, so an identity in it cannot have gone longer ago than the      *)
(* refresh has lasted; an answer is installed only before the deadline, so *)
(* from then on the identity has been gone for less than the age of the    *)
(* snapshot and one timeout. Nothing but a success resets the age.         *)
(*                                                                         *)
(* What holds while little fails needs the schedule as well: a refresh     *)
(* starts with a tick, so the last one to begin is at most a period old,   *)
(* and each fault since then spoilt one period at most.                    *)
(***************************************************************************)
EXTENDS ContactsManager, TLAPS

(* An entitled identity is not gone at all. *)
EntitledInv == \A i \in members : permitted => gone[i] = 0

(* What was read in this refresh was true when it was read. *)
AnswerInv ==
  answer.code = "ok" => pc = "fetching" /\ \A i \in answer.ids : gone[i] <= elapsed

(* What was installed had been read within the timeout. *)
GrantsInv == grants # NoGrants => \A i \in grants : gone[i] < age + Timeout

IInv == TypeOK /\ EntitledInv /\ AnswerInv /\ GrantsInv

LEMMA OldType ==
  /\ Old \in Nat /\ Old > MaxAge + Timeout
  /\ MaxAge \in Nat \ {0} /\ Refresh \in Nat \ {0} /\ Timeout \in Nat \ {0}
  /\ Refresh \in 1..Refresh
  BY PeriodAssumption DEF Old

(* A saturating clock moves by at most one. *)
LEMMA OlderStep == \A n \in 0..Old : Older(n) \in 0..Old /\ Older(n) <= n + 1 /\ (Older(n) = n + 1 \/ Older(n) = Old)
  BY OldType DEF Older

(* The types of the answers and codes a refresh meets. *)
LEMMA CodeType ==
  ASSUME TypeOK
  PROVE  Code \in (Codes \ {"none"}) \cup {"ok", "pending", "none"}
  BY DEF TypeOK, Code, ErrorCode, Codes

LEMMA TypeStep == TypeOK /\ [Next]_vars => TypeOK'
<1> SUFFICES ASSUME TypeOK, [Next]_vars PROVE TypeOK'
  OBVIOUS
<1> USE OldType
<1>1. CASE Edit
  BY <1>1 DEF Edit, TypeOK, Since, Codes, managerVars, runVars, NoGrants
<1>2. CASE Permit
  BY <1>2 DEF Permit, TypeOK, Since, Codes, managerVars, runVars, NoGrants
<1>3. CASE Tick
  <2>1. elapsed' \in 0..Timeout /\ wait' \in 1..Refresh /\ due' \in BOOLEAN
    BY <1>3 DEF Tick, TypeOK
  <2>2. faults' \in 0..MaxFaults
    BY <1>3, FaultAssumption DEF Tick, TypeOK, Fault
  <2>3. age' \in 0..Old
    BY <1>3, OlderStep DEF Tick, TypeOK
  <2>4. gone' \in [Identities -> 0..Old]
    BY <1>3, OlderStep DEF Tick, TypeOK
  <2> QED
    BY <1>3, <2>1, <2>2, <2>3, <2>4 DEF Tick, TypeOK, Codes, NoGrants
<1>4. CASE BeginRefresh
  <2>1. answer'.code = "pending" /\ answer'.ids \subseteq Identities /\ elapsed' \in 0..Timeout
    BY <1>4 DEF BeginRefresh, NoAnswer
  <2>2. pc' = "fetching" /\ due' \in BOOLEAN
    BY <1>4 DEF BeginRefresh
  <2>3. UNCHANGED <<members, permitted, gone, grants, age, lastError, held, wait, faults>>
    BY <1>4 DEF BeginRefresh, envVars, managerVars
  <2> QED
    BY <2>1, <2>2, <2>3 DEF TypeOK, Codes, NoGrants
<1>5. CASE Read
  BY <1>5 DEF Read, TypeOK, Codes, Error, envVars, managerVars, NoGrants
<1>6. CASE ReadFails
  BY <1>6, FaultAssumption DEF ReadFails, Fault, TypeOK, Codes, Error, envVars, managerVars, NoGrants
<1>7. CASE EndRefresh
  <2>1. grants' = NoGrants \/ grants' \subseteq Identities
    BY <1>7 DEF EndRefresh, TypeOK
  <2>2. age' \in 0..Old
    BY <1>7 DEF EndRefresh, TypeOK, AgeAfter
  <2>3. lastError' \in Codes
    BY <1>7, CodeType DEF EndRefresh, ErrorAfter, Codes
  <2>4. held' \in BOOLEAN
    BY <1>7 DEF EndRefresh, TypeOK
  <2> QED
    BY <1>7, <2>1, <2>2, <2>3, <2>4 DEF EndRefresh, TypeOK, NoAnswer, Codes, envVars
<1>8. CASE Restart
  <2>1. answer'.code = "pending" /\ answer'.ids \subseteq Identities /\ elapsed' \in 0..Timeout
    BY <1>8 DEF Restart, NoAnswer
  <2>2. pc' = "waiting" /\ wait' \in 1..Refresh /\ age' \in 0..Old /\ lastError' \in Codes
    BY <1>8 DEF Restart, Codes
  <2>a. grants' = NoGrants /\ due' = TRUE /\ held' = FALSE
    BY <1>8, Zenon DEF Restart
  <2>3. faults' \in 0..MaxFaults
    BY <1>8, FaultAssumption DEF Restart, Fault, TypeOK
  <2> QED
    BY <1>8, <2>1, <2>2, <2>a, <2>3 DEF Restart, TypeOK, envVars, NoGrants
<1>9. CASE UNCHANGED vars
  BY <1>9 DEF vars, envVars, managerVars, runVars, TypeOK, Codes, NoGrants
<1> QED
  BY <1>1, <1>2, <1>3, <1>4, <1>5, <1>6, <1>7, <1>8, <1>9 DEF Next

(* A step of the owner sets no clock of an identity forward. *)
LEMMA OwnerStep ==
  ASSUME TypeOK, EntitledInv, Edit \/ Permit
  PROVE  EntitledInv' /\ \A i \in Identities : gone'[i] <= gone[i]
<1>1. gone' = [i \in Identities |-> IF Entitled(i)' \/ Entitled(i) THEN 0 ELSE gone[i]]
  BY DEF Edit, Permit, Since
<1>2. members' \subseteq Identities
  BY DEF Edit, Permit, TypeOK
<1>3. EntitledInv'
  BY <1>1, <1>2 DEF EntitledInv, Entitled
<1>4. \A i \in Identities : gone'[i] <= gone[i]
  BY <1>1, OldType DEF TypeOK
<1> QED
  BY <1>3, <1>4

LEMMA IInvStep == IInv /\ [Next]_vars => IInv'
<1> SUFFICES ASSUME IInv, [Next]_vars PROVE IInv'
  OBVIOUS
<1> USE OldType
<1>0. TypeOK /\ TypeOK'
  BY TypeStep DEF IInv
<1>1. CASE Edit \/ Permit
  <2>1. EntitledInv' /\ \A i \in Identities : gone'[i] <= gone[i]
    BY <1>0, <1>1, OwnerStep DEF IInv
  <2>2. UNCHANGED <<managerVars, runVars>>
    BY <1>1 DEF Edit, Permit
  <2>3. AnswerInv'
    BY <1>0, <2>1, <2>2 DEF IInv, AnswerInv, runVars, TypeOK
  <2>4. GrantsInv'
    BY <1>0, <2>1, <2>2 DEF IInv, GrantsInv, managerVars, TypeOK
  <2> QED
    BY <1>0, <2>1, <2>3, <2>4 DEF IInv
<1>3. CASE Tick
  <2>1. \A i \in Identities : gone'[i] <= gone[i] + 1 /\ gone'[i] \in 0..Old
    BY <1>0, <1>3, OlderStep DEF Tick, TypeOK
  <2>2. EntitledInv'
    BY <1>0, <1>3 DEF Tick, EntitledInv, Entitled, TypeOK
  <2>3. AnswerInv'
    BY <1>0, <1>3, <2>1 DEF Tick, IInv, AnswerInv, TypeOK
  <2>4. ASSUME grants' # NoGrants, NEW i \in grants' PROVE gone'[i] < age' + Timeout
    <3>1. i \in Identities /\ gone[i] < age + Timeout /\ gone[i] \in Nat
      BY <1>0, <1>3, <2>4 DEF Tick, IInv, GrantsInv, TypeOK
    <3>2. age' = age + 1 \/ age' = Old
      BY <1>0, <1>3, OlderStep DEF Tick, TypeOK
    <3> QED
      BY <1>0, <2>1, <3>1, <3>2 DEF TypeOK
  <2> QED
    BY <1>0, <2>2, <2>3, <2>4 DEF IInv, GrantsInv
<1>4. CASE BeginRefresh
  BY <1>0, <1>4 DEF BeginRefresh, IInv, EntitledInv, AnswerInv, GrantsInv, NoAnswer, envVars, managerVars
<1>5. CASE Read
  <2>1. UNCHANGED <<envVars, managerVars, pc, elapsed>>
    BY <1>5 DEF Read
  <2>2. AnswerInv'
    BY <1>0, <1>5, <2>1 DEF Read, IInv, EntitledInv, AnswerInv, Error, TypeOK, envVars
  <2> QED
    BY <1>0, <2>1, <2>2 DEF IInv, EntitledInv, GrantsInv, envVars, managerVars
<1>6. CASE ReadFails
  <2>1. AnswerInv'
    BY <1>6 DEF ReadFails, AnswerInv, Error
  <2> QED
    BY <1>0, <1>6, <2>1 DEF ReadFails, IInv, EntitledInv, GrantsInv, envVars, managerVars
<1>7. CASE EndRefresh
  <2>1. EntitledInv' /\ AnswerInv'
    BY <1>7 DEF EndRefresh, IInv, EntitledInv, AnswerInv, NoAnswer, envVars
  <2>2. gone' = gone
    BY <1>7 DEF EndRefresh, envVars
  <2>3. CASE Code = "ok"
    <3>1. answer.code = "ok" /\ elapsed < Timeout
      BY <1>0, <2>3 DEF Code, ErrorCode, TypeOK
    <3>2. grants' = answer.ids /\ age' = 0
      BY <1>7, <2>3 DEF EndRefresh, AgeAfter, Transient
    <3> QED
      BY <1>0, <2>1, <2>2, <3>1, <3>2 DEF IInv, AnswerInv, GrantsInv, TypeOK
  <2>4. CASE Code # "ok"
    <3>1. age' = age /\ (grants' = grants \/ grants' = NoGrants)
      BY <1>7, <2>4 DEF EndRefresh, AgeAfter
    <3> QED
      BY <1>0, <2>1, <2>2, <3>1 DEF IInv, GrantsInv
  <2> QED
    BY <2>3, <2>4
<1>8. CASE Restart
  BY <1>0, <1>8 DEF Restart, IInv, EntitledInv, AnswerInv, GrantsInv, NoAnswer, envVars
<1>9. CASE UNCHANGED vars
  BY <1>0, <1>9 DEF vars, envVars, managerVars, runVars, IInv, EntitledInv, AnswerInv, GrantsInv
<1> QED
  BY <1>1, <1>3, <1>4, <1>5, <1>6, <1>7, <1>8, <1>9 DEF Next

LEMMA IInvInit == Init => IInv
<1> SUFFICES ASSUME Init PROVE IInv
  OBVIOUS
<1>1. gone \in [Identities -> 0..Old] /\ age \in 0..Old /\ elapsed \in 0..Timeout
  BY OldType DEF Init
<1>2. answer.code = "pending" /\ answer.ids \subseteq Identities
  BY DEF Init, NoAnswer
<1>3. wait \in 1..Refresh /\ faults \in 0..MaxFaults
  BY OldType, FaultAssumption DEF Init
<1>a. due = TRUE /\ held = FALSE
  BY Zenon DEF Init
<1>4. TypeOK
  BY <1>1, <1>2, <1>3, <1>a DEF Init, TypeOK, Codes
<1>5. EntitledInv /\ AnswerInv /\ GrantsInv
  BY <1>2 DEF Init, EntitledInv, AnswerInv, GrantsInv
<1> QED
  BY <1>4, <1>5 DEF IInv

(* The inductive invariant holds in every state of every behaviour. *)
THEOREM Invariance == Spec => []IInv
  BY IInvInit, IInvStep, PTL DEF Spec

(* Every variable keeps its type: the status never shows a raw error. *)
THEOREM ContactTypes == Spec => []TypeOK
<1>1. IInv => TypeOK
  BY DEF IInv
<1> QED
  BY <1>1, Invariance, PTL

(* Whatever fails and for however long, a removed identity is no grant once
   max_age and one timeout have passed (Manager.Refresh, available).        *)
THEOREM RemovalIsBounded == Spec => []RemovalBounded
<1>1. IInv => RemovalBounded
  BY OldType DEF IInv, GrantsInv, RemovalBounded, Granted, Available, TypeOK
<1> QED
  BY <1>1, Invariance, PTL

-----------------------------------------------------------------------------
(***************************************************************************)
(* The schedule, and what it says of the age of a snapshot. A refresh      *)
(* starts with a tick of the ticker, so while one runs the time it has     *)
(* taken and the time to the next tick make one period. A clock that was   *)
(* started by a refresh has thus run for the periods since, less what is   *)
(* left of this one: one period when nothing failed, one more per fault.   *)
(***************************************************************************)
Unread == {"unavailable", "changed", "invalid", "other"}

ScheduleInv ==
  /\ pc = "waiting" /\ due => wait = Refresh
  /\ pc = "fetching" => \/ ~due /\ wait + elapsed = Refresh
                        \/ due /\ wait = Refresh /\ elapsed = Refresh
  /\ answer.code \in {"pending", "ok", "denied"} \cup Unread

(* The clock had run for at most n when the last tick was due. *)
Within(clock, n) ==
  /\ pc = "fetching" => clock <= n + elapsed
  /\ pc = "waiting" /\ due => clock <= n
  /\ pc = "waiting" /\ ~due => clock + wait <= n

(* A snapshot without an error since is the last refresh's. *)
FreshInv == grants # NoGrants /\ lastError = "none" => Within(age, Refresh)

(* Without faults every refresh is answered in time, and a grant was a member
   when the last one read.                                                   *)
PromptInv ==
  faults = 0 =>
    /\ elapsed < Timeout /\ answer.code \in {"pending", "ok", "denied"}
    /\ grants # NoGrants => \A i \in grants : Within(gone[i], Refresh)

(* The refresh that runs will fail, and its fault is counted. *)
Failing == pc = "fetching" /\ (elapsed = Timeout \/ answer.code \in Unread)

Periods(n) == n * Refresh

(* A snapshot nothing invalidated: each fault spoilt one period at most. *)
HeldInv ==
  held => /\ grants # NoGrants
          /\ Failing => Within(age, Periods(faults))
          /\ ~Failing => Within(age, Periods(faults + 1))

TimingInv == ScheduleInv /\ FreshInv /\ PromptInv /\ HeldInv

LEMMA PeriodsStep == \A n \in Nat : Periods(n) \in Nat /\ Periods(n + 1) = Periods(n) + Refresh
  BY OldType DEF Periods

LEMMA TickFacts ==
  ASSUME TypeOK, Tick
  PROVE  /\ pc' = pc /\ answer' = answer
         /\ pc = "waiting" => ~due
         /\ pc = "fetching" => elapsed < Timeout /\ elapsed' = elapsed + 1
         /\ wait = 1 => due' /\ wait' = Refresh
         /\ wait # 1 => (due' <=> due) /\ wait' = wait - 1
<1>1. due' = (due \/ wait = 1)
  BY Zenon DEF Tick
<1>2. wait = 1 => due'
  BY <1>1, Zenon
<1>3. wait # 1 => (due' <=> due)
  BY <1>1, Zenon
<1>4. /\ pc' = pc /\ answer' = answer
      /\ pc = "waiting" => ~due
      /\ pc = "fetching" => elapsed < Timeout /\ elapsed' = elapsed + 1
      /\ wait' = IF wait = 1 THEN Refresh ELSE wait - 1
  BY DEF Tick
<1> QED BY <1>2, <1>3, <1>4

LEMMA ScheduleStep ==
  ASSUME TypeOK, ScheduleInv, [Next]_vars
  PROVE  ScheduleInv'
<1> USE OldType, PeriodAssumption DEF ScheduleInv, Unread
<1>1. CASE Edit \/ Permit
  BY <1>1 DEF Edit, Permit, runVars
<1>2. CASE Tick
  <2>1. /\ wait \in Nat /\ wait <= Refresh /\ elapsed \in Nat /\ Timeout <= Refresh
        /\ Refresh \in Nat /\ Timeout \in Nat
    BY DEF TypeOK
  <2>2. pc' = "waiting" /\ due' => wait' = Refresh
    BY <1>2, <2>1, TickFacts
  <2>3. pc' = "fetching" => \/ ~due' /\ wait' + elapsed' = Refresh
                            \/ due' /\ wait' = Refresh /\ elapsed' = Refresh
    BY <1>2, <2>1, TickFacts
  <2> QED BY <1>2, <2>2, <2>3, TickFacts
<1>3. CASE BeginRefresh
  BY <1>3 DEF BeginRefresh, NoAnswer, TypeOK
<1>4. CASE Read
  BY <1>4 DEF Read, Error
<1>5. CASE ReadFails
  BY <1>5 DEF ReadFails, Error
<1>6. CASE EndRefresh
  BY <1>6 DEF EndRefresh, NoAnswer
<1>7. CASE Restart
  BY <1>7 DEF Restart, NoAnswer
<1>8. CASE UNCHANGED vars
  BY <1>8 DEF vars, runVars
<1> QED
  BY <1>1, <1>2, <1>3, <1>4, <1>5, <1>6, <1>7, <1>8 DEF Next

(* The three ways a clock meets the schedule. *)
LEMMA WithinTick ==
  ASSUME TypeOK, ScheduleInv, Tick, NEW c \in Nat, NEW d \in Nat, d <= c + 1,
         NEW n \in Nat, Within(c, n)
  PROVE  Within(d, n)'
<1>1. /\ wait \in Nat /\ wait <= Refresh /\ elapsed \in Nat /\ Refresh \in Nat
      /\ pc \in {"waiting", "fetching"}
  BY OldType DEF TypeOK
<1>2. CASE pc = "fetching"
  BY <1>1, <1>2, TickFacts DEF Within
<1>3. CASE pc = "waiting"
  BY <1>1, <1>3, TickFacts DEF Within
<1> QED BY <1>1, <1>2, <1>3

LEMMA WithinBegin ==
  ASSUME BeginRefresh, NEW c \in Nat, NEW n \in Nat, Within(c, n)
  PROVE  Within(c, n)'
  BY DEF BeginRefresh, Within

(* A period after the refresh that ends, whether or not its tick is due. *)
LEMMA WithinEnd ==
  ASSUME TypeOK, ScheduleInv, EndRefresh, NEW c \in Nat, NEW n \in Nat, c <= n + elapsed
  PROVE  Within(c, n + Refresh)'
  BY OldType DEF EndRefresh, ScheduleInv, TypeOK, Within

(* What a refresh that ends with a code makes of the manager. *)
LEMMA EndFacts ==
  ASSUME TypeOK, ScheduleInv, EndRefresh
  PROVE  /\ Code # "none"
         /\ Code = "ok" => answer.code = "ok" /\ elapsed < Timeout /\ ~due /\ age' = 0
                            /\ grants' = answer.ids /\ grants' # NoGrants
         /\ Code # "ok" => age' = age /\ lastError' # "none"
                            /\ (grants' = grants \/ grants' = NoGrants)
         /\ Code # "ok" /\ held' => held /\ Failing /\ grants' = grants
<1> USE OldType, PeriodAssumption
<1>1. Code # "none" /\ Code # "pending"
  BY DEF Code, ErrorCode, ScheduleInv, Unread, EndRefresh
<1>2. ASSUME Code = "ok"
      PROVE  answer.code = "ok" /\ elapsed < Timeout /\ age' = 0 /\ grants' = answer.ids
  BY <1>2 DEF Code, ErrorCode, EndRefresh, AgeAfter, Transient, TypeOK
<1>3. ASSUME Code = "ok" PROVE ~due
  BY <1>2, <1>3 DEF EndRefresh, ScheduleInv, TypeOK
<1>4. ASSUME Code = "ok" PROVE grants' # NoGrants
  BY <1>2, <1>4, IdentityAssumption DEF TypeOK, NoGrants
<1>5. ASSUME Code # "ok"
      PROVE  age' = age /\ lastError' # "none" /\ (grants' = grants \/ grants' = NoGrants)
  BY <1>1, <1>5 DEF EndRefresh, AgeAfter, ErrorAfter
<1>6. ASSUME Code # "ok", held' PROVE held /\ Code \notin {"denied", "invalid"}
  BY <1>6 DEF EndRefresh
<1>7. ASSUME Code # "ok", held' PROVE Failing /\ Code \in Transient
  BY <1>1, <1>6, <1>7 DEF EndRefresh, Failing, Code, ErrorCode, ScheduleInv, Unread, Transient
<1>8. ASSUME Code # "ok", held' PROVE grants' = grants
  BY <1>7, <1>8 DEF EndRefresh
<1> QED
  BY <1>1, <1>2, <1>3, <1>4, <1>5, <1>6, <1>7, <1>8

LEMMA FreshStep ==
  ASSUME TypeOK, TypeOK', ScheduleInv, FreshInv, [Next]_vars
  PROVE  FreshInv'
<1> USE OldType
<1> SUFFICES ASSUME grants' # NoGrants, lastError' = "none" PROVE Within(age, Refresh)'
  BY DEF FreshInv
<1>1. CASE Edit \/ Permit \/ UNCHANGED vars
  BY <1>1 DEF Edit, Permit, vars, FreshInv, Within, managerVars, runVars
<1>2. CASE Tick
  <2>1. Within(age, Refresh) /\ age \in Nat /\ age' \in Nat /\ age' <= age + 1
    BY <1>2, OlderStep DEF Tick, FreshInv, TypeOK
  <2> QED BY <1>2, <2>1, WithinTick DEF Within
<1>3. CASE BeginRefresh
  <2>1. Within(age, Refresh) /\ age \in Nat /\ age' = age
    BY <1>3 DEF BeginRefresh, FreshInv, TypeOK, managerVars
  <2> QED BY <1>3, <2>1, WithinBegin DEF Within
<1>4. CASE Read \/ ReadFails
  BY <1>4 DEF Read, ReadFails, FreshInv, Within, managerVars
<1>5. CASE EndRefresh
  <2>1. age' = 0
    BY <1>5, EndFacts
  <2>2. Within(0, Refresh)'
    BY <1>5, WithinEnd DEF TypeOK
  <2> QED BY <2>1, <2>2 DEF Within
<1>6. CASE Restart
  BY <1>6 DEF Restart
<1> QED
  BY <1>1, <1>2, <1>3, <1>4, <1>5, <1>6 DEF Next

LEMMA PromptStep ==
  ASSUME TypeOK, TypeOK', ScheduleInv, AnswerInv, PromptInv, [Next]_vars,
         EntitledInv
  PROVE  PromptInv'
<1> USE OldType, PeriodAssumption
<1> SUFFICES ASSUME faults' = 0
             PROVE  /\ elapsed' < Timeout /\ answer'.code \in {"pending", "ok", "denied"}
                    /\ grants' # NoGrants => \A i \in grants' : Within(gone[i], Refresh)'
  BY DEF PromptInv
<1>0. ~Fault
  BY DEF Fault, TypeOK
<1>1. CASE Edit \/ Permit
  <2>1. /\ \A i \in Identities : gone'[i] <= gone[i]
        /\ UNCHANGED <<managerVars, runVars, faults>>
    BY <1>1, OwnerStep DEF Edit, Permit
  <2>2. ASSUME grants' # NoGrants, NEW i \in grants' PROVE Within(gone[i], Refresh)'
    <3>1. i \in Identities /\ Within(gone[i], Refresh) /\ gone[i] \in Nat /\ gone'[i] \in Nat
      BY <2>1, <2>2 DEF PromptInv, TypeOK, managerVars
    <3>2. gone'[i] <= gone[i]
      BY <2>1, <3>1
    <3> QED BY <2>1, <3>1, <3>2 DEF Within, runVars, TypeOK
  <2> QED BY <2>1, <2>2 DEF PromptInv, runVars
<1>2. CASE Tick
  <2>1. faults = 0 /\ ~(pc = "fetching" /\ elapsed + 1 = Timeout)
    BY <1>0, <1>2 DEF Tick
  <2>2. elapsed' < Timeout /\ answer' = answer /\ grants' = grants
    BY <1>2, <2>1 DEF Tick, TypeOK
  <2>3. ASSUME grants' # NoGrants, NEW i \in grants' PROVE Within(gone[i], Refresh)'
    <3>1. i \in Identities /\ Within(gone[i], Refresh) /\ gone[i] \in 0..Old /\ gone[i] \in Nat
      BY <2>1, <2>2, <2>3 DEF PromptInv, TypeOK
    <3>2. gone'[i] = IF Entitled(i) THEN 0 ELSE Older(gone[i])
      BY <1>2, <3>1 DEF Tick
    <3>3. gone'[i] \in Nat /\ gone'[i] <= gone[i] + 1
      BY <3>1, <3>2, OlderStep
    <3> QED BY <1>2, <3>1, <3>3, WithinTick DEF Within
  <2> QED BY <2>1, <2>2, <2>3 DEF PromptInv
<1>3. CASE BeginRefresh
  <2>1. /\ UNCHANGED <<envVars, managerVars, faults>>
        /\ elapsed' = 0 /\ answer'.code = "pending"
    BY <1>3 DEF BeginRefresh, NoAnswer
  <2>2. ASSUME grants' # NoGrants, NEW i \in grants' PROVE Within(gone[i], Refresh)'
    <3>1. Within(gone[i], Refresh) /\ gone[i] \in Nat /\ gone'[i] = gone[i]
      BY <2>1, <2>2 DEF PromptInv, TypeOK, managerVars, envVars
    <3> QED BY <1>3, <3>1, WithinBegin DEF Within
  <2> QED BY <2>1, <2>2
<1>4. CASE Read
  <2>1. /\ UNCHANGED <<envVars, managerVars, pc, elapsed, wait, due, faults>>
        /\ answer'.code \in {"ok", "denied"}
    BY <1>4 DEF Read, Error
  <2> QED BY <2>1 DEF PromptInv, Within, envVars, managerVars
<1>5. CASE ReadFails \/ Restart
  BY <1>0, <1>5 DEF ReadFails, Restart
<1>6. CASE EndRefresh
  <2>1. faults = 0 /\ elapsed < Timeout /\ elapsed' = 0 /\ answer'.code = "pending"
    BY <1>6 DEF EndRefresh, PromptInv, NoAnswer
  <2>2. answer.code \in {"pending", "ok", "denied"} /\ UNCHANGED envVars
    BY <1>6, <2>1 DEF EndRefresh, PromptInv
  <2>3. ASSUME grants' # NoGrants, NEW i \in grants' PROVE Within(gone[i], Refresh)'
    <3>1. Code = "ok"
      <4>1. Code = answer.code
        BY <2>1, <2>2 DEF Code, ErrorCode
      <4>2. CASE Code = "denied"
        BY <1>6, <2>3, <4>2 DEF EndRefresh, Transient
      <4> QED BY <1>6, <2>2, <4>1, <4>2 DEF EndRefresh
    <3>2. i \in answer.ids /\ answer.code = "ok"
      BY <1>6, <2>3, <3>1, EndFacts
    <3>3. gone[i] \in Nat /\ gone[i] <= elapsed /\ gone'[i] = gone[i]
      BY <2>2, <3>2 DEF AnswerInv, TypeOK, envVars
    <3>4. elapsed \in Nat /\ gone[i] <= 0 + elapsed
      BY <3>3 DEF TypeOK
    <3> QED BY <1>6, <3>3, <3>4, WithinEnd DEF Within
  <2> QED BY <2>1, <2>3
<1>7. CASE UNCHANGED vars
  BY <1>7 DEF vars, PromptInv, Within, envVars, managerVars, runVars
<1> QED
  BY <1>1, <1>2, <1>3, <1>4, <1>5, <1>6, <1>7 DEF Next

LEMMA HeldStep ==
  ASSUME TypeOK, TypeOK', ScheduleInv, HeldInv, [Next]_vars
  PROVE  HeldInv'
<1> USE OldType, PeriodAssumption
<1> SUFFICES ASSUME held'
             PROVE  /\ grants' # NoGrants
                    /\ Failing' => Within(age, Periods(faults))'
                    /\ ~Failing' => Within(age, Periods(faults + 1))'
  BY DEF HeldInv
<1>0. /\ faults \in Nat /\ age \in Nat /\ age' \in Nat /\ elapsed \in Nat
      /\ faults + 1 \in Nat
      /\ Periods(faults) \in Nat /\ Periods(faults + 1) = Periods(faults) + Refresh
      /\ Periods(faults + 1 + 1) = Periods(faults + 1) + Refresh
  <2>1. faults \in Nat /\ age \in Nat /\ age' \in Nat /\ elapsed \in Nat /\ faults + 1 \in Nat
    BY DEF TypeOK
  <2> QED BY <2>1, PeriodsStep
<1>1. CASE Edit \/ Permit \/ UNCHANGED vars
  <2>1. UNCHANGED <<managerVars, runVars, faults>>
    BY <1>1 DEF Edit, Permit, vars
  <2>2. Failing' = Failing
    BY <2>1, Zenon DEF Failing, runVars
  <2> QED BY <2>1, <2>2 DEF HeldInv, Within, managerVars, runVars
<1>2. CASE Tick
  <2>1. held /\ grants' # NoGrants /\ age' <= age + 1
    BY <1>2, OlderStep DEF Tick, HeldInv, TypeOK
  <2>2. Failing => Within(age, Periods(faults)) /\ Within(age, Periods(faults + 1))
    BY <1>0, <2>1 DEF HeldInv, Within, Failing
  <2>3. Within(age, Periods(faults + 1))
    BY <2>1, <2>2 DEF HeldInv
  <2>4. \A n \in Nat : Within(age, n) => Within(age, n)'
    BY <1>0, <1>2, <2>1, WithinTick DEF Within
  <2>5. CASE pc = "fetching" /\ elapsed + 1 = Timeout
    <3>1. faults' = faults + 1 /\ Failing'
      BY <1>2, <2>5, TickFacts DEF Tick, Fault, Failing
    <3> QED BY <1>0, <2>1, <2>3, <2>4, <3>1 DEF Within
  <2>6. CASE ~(pc = "fetching" /\ elapsed + 1 = Timeout)
    <3>1. faults' = faults
      BY <1>2, <2>6 DEF Tick
    <3>2. Failing' => Failing
      BY <1>2, <2>6, TickFacts DEF Failing
    <3> QED BY <1>0, <2>1, <2>2, <2>3, <2>4, <3>1, <3>2 DEF Within
  <2> QED BY <2>5, <2>6
<1>3. CASE BeginRefresh
  <2>1. /\ UNCHANGED <<managerVars, faults>> /\ ~Failing /\ ~Failing'
    BY <1>3 DEF BeginRefresh, Failing, NoAnswer, Unread
  <2>2. held /\ grants # NoGrants /\ Within(age, Periods(faults + 1))
    BY <2>1 DEF HeldInv, managerVars
  <2>3. Within(age, Periods(faults + 1))'
    BY <1>0, <1>3, <2>1, <2>2, WithinBegin DEF Within, managerVars
  <2> QED BY <2>1, <2>2, <2>3 DEF managerVars
<1>4. CASE Read
  <2>1. /\ UNCHANGED <<managerVars, pc, elapsed, wait, due, faults>>
        /\ ~Failing /\ ~Failing'
    BY <1>4 DEF Read, Failing, Error, NoAnswer, Unread
  <2> QED BY <2>1 DEF HeldInv, Within, managerVars
<1>5. CASE ReadFails
  <2>1. /\ UNCHANGED <<managerVars, pc, elapsed, wait, due>> /\ faults' = faults + 1
        /\ ~Failing /\ Failing'
    BY <1>5 DEF ReadFails, Fault, Failing, Error, NoAnswer, Unread
  <2> QED BY <2>1 DEF HeldInv, Within, managerVars
<1>6. CASE EndRefresh
  <2>1. faults' = faults /\ ~Failing'
    BY <1>6 DEF EndRefresh, Failing
  <2>2. CASE Code = "ok"
    <3>1. age' = 0 /\ grants' # NoGrants
      BY <1>6, <2>2, EndFacts
    <3>2. 0 <= Periods(faults) + elapsed
      BY <1>0
    <3>3. Within(age, Periods(faults + 1))'
      BY <1>0, <1>6, <2>1, <3>1, <3>2, WithinEnd DEF Within
    <3> QED BY <2>1, <3>1, <3>3
  <2>3. CASE Code # "ok"
    <3>1. held /\ Failing /\ grants' = grants /\ age' = age
      BY <1>6, <2>3, EndFacts
    <3>2. grants # NoGrants /\ age <= Periods(faults) + elapsed
      BY <3>1 DEF HeldInv, Within, Failing
    <3>3. Within(age, Periods(faults + 1))'
      BY <1>0, <1>6, <2>1, <3>1, <3>2, WithinEnd DEF Within
    <3> QED BY <2>1, <3>1, <3>2, <3>3
  <2> QED BY <2>2, <2>3
<1>7. CASE Restart
  BY <1>7 DEF Restart
<1> QED
  BY <1>1, <1>2, <1>3, <1>4, <1>5, <1>6, <1>7 DEF Next

LEMMA TimingInit == Init => TimingInv
<1> SUFFICES ASSUME Init PROVE TimingInv
  OBVIOUS
<1>1. pc = "waiting" /\ wait = Refresh /\ elapsed = 0 /\ answer.code = "pending"
  BY DEF Init, NoAnswer
<1>2. grants = NoGrants /\ ~held
  BY DEF Init
<1> QED
  BY <1>1, <1>2, OldType DEF TimingInv, ScheduleInv, FreshInv, PromptInv, HeldInv

(* The schedule and the ages it allows hold in every behaviour. *)
THEOREM TimingInvariance == Spec => []TimingInv
<1>1. IInv /\ IInv' /\ TimingInv /\ [Next]_vars => TimingInv'
  BY ScheduleStep, FreshStep, PromptStep, HeldStep DEF IInv, TimingInv
<1> QED
  BY <1>1, TimingInit, Invariance, PTL DEF Spec

(* As long as nothing fails, a removed identity is no grant after one period
   and one timeout: a tick follows a removal within one period, and what its
   refresh reads it installs within the timeout.                             *)
THEOREM RemovalIsPrompt == Spec => []RemovalPrompt
<1>1. IInv /\ TimingInv => RemovalPrompt
  <2> SUFFICES ASSUME IInv, TimingInv, faults = 0, NEW i \in Granted
               PROVE  gone[i] <= Refresh + Timeout
    BY DEF RemovalPrompt
  <2>1. grants # NoGrants /\ i \in grants
    BY DEF Granted, Available
  <2>2. Within(gone[i], Refresh) /\ elapsed < Timeout
    BY <2>1 DEF TimingInv, PromptInv
  <2>3. /\ gone[i] \in Nat /\ elapsed \in Nat /\ wait \in Nat
        /\ pc \in {"waiting", "fetching"} /\ due \in BOOLEAN
    BY <2>1, OldType DEF IInv, TypeOK
  <2> QED BY <2>2, <2>3, OldType DEF Within
<1> QED
  BY <1>1, Invariance, TimingInvariance, PTL

(* Transient failures cost no availability while the expiry covers the periods
   they spoil, for every number of them: each costs one period at most.      *)
THEOREM FailuresLeaveNoGap == Spec => []NoGap
<1>1. IInv /\ TimingInv => NoGap
  <2> SUFFICES ASSUME IInv, TimingInv, held, MaxAge > Periods(faults + 1) + Timeout
               PROVE  Available
    BY DEF NoGap, Periods
  <2>1. /\ faults \in Nat /\ age \in Nat /\ elapsed \in Nat /\ wait \in Nat
        /\ elapsed <= Timeout
        /\ pc \in {"waiting", "fetching"} /\ due \in BOOLEAN
    BY OldType DEF IInv, TypeOK
  <2>2. Periods(faults) \in Nat /\ Periods(faults + 1) = Periods(faults) + Refresh
    BY <2>1, PeriodsStep
  <2>3. grants # NoGrants /\ (Within(age, Periods(faults)) \/ Within(age, Periods(faults + 1)))
    BY DEF TimingInv, HeldInv
  <2>4. age <= Periods(faults + 1) + elapsed
    BY <2>1, <2>2, <2>3, OldType DEF Within
  <2> QED BY <2>1, <2>2, <2>3, <2>4, OldType DEF Available
<1> QED
  BY <1>1, Invariance, TimingInvariance, PTL

(* Health says "ready" only of grants read within one period and one timeout,
   however long the broker runs and whatever failed before.                  *)
THEOREM ReadyMeansFresh == Spec => []ReadyIsFresh
<1>1. IInv /\ TimingInv => ReadyIsFresh
  <2> SUFFICES ASSUME IInv, TimingInv, Available, lastError = "none"
               PROVE  age <= Refresh + Timeout
    BY DEF ReadyIsFresh, State
  <2>1. Within(age, Refresh)
    BY DEF TimingInv, FreshInv, Available
  <2>2. /\ age \in Nat /\ elapsed \in Nat /\ wait \in Nat /\ elapsed <= Timeout
        /\ pc \in {"waiting", "fetching"} /\ due \in BOOLEAN
    BY OldType DEF IInv, TypeOK
  <2> QED BY <2>1, <2>2, OldType DEF Within
<1> QED
  BY <1>1, Invariance, TimingInvariance, PTL
=============================================================================
