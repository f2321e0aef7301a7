---------------------------- MODULE ContactsHelper ----------------------------
(***************************************************************************)
(* One contacts.Fetch or contacts.Discover after another: the exchange the  *)
(* broker holds over a private socket (internal/contacts/desktop.go) with   *)
(* the native helper it launches (macos/), which reads the Contacts store   *)
(* call by call while the owner edits lists and cards and changes the       *)
(* permission. What the manager makes of the outcome is ContactsManager.    *)
(*                                                                          *)
(* Every exchange has a directory, a socket and a helper of its own, so a   *)
(* helper that outlives its exchange meets no other one; the next exchange  *)
(* of the model therefore begins only when it has gone.                     *)
(***************************************************************************)
EXTENDS Integers, FiniteSets

CONSTANTS
  Stores,     \* contents the store may have: the lists of each container,
              \* the cards in each list, and what each card says
  Container,  \* container_id
  Selections, \* group_ids a configuration may have: {} for none
  MaxContacts,\* max_contacts
  MaxLists,   \* the bound of 100 selected lists
  MaxEdits    \* bound on edits of the store

ASSUME StoreAssumption ==
  \A s \in Stores :
    /\ UNION {s.lists[c] : c \in DOMAIN s.lists} \subseteq DOMAIN s.members \cap Nat
    /\ UNION {s.members[g] : g \in DOMAIN s.members} \subseteq DOMAIN s.card
    /\ \A g \in DOMAIN s.members : IsFiniteSet(s.members[g])
    /\ s.lists = [c \in DOMAIN s.lists |-> s.lists[c]]
ASSUME BoundAssumption == {MaxContacts, MaxLists} \subseteq Nat \ {0} /\ MaxEdits \in Nat

VARIABLES
  store,      \* what the store holds
  revision,   \* currentHistoryToken
  permission, \* CNContactStore.authorizationStatus
  pc,         \* exchangeDesktop
  op, sel,    \* the request: operation and group_ids
  expired,    \* its context is done
  outcome,    \* what it returned
  ordered,    \* open has been run, the helper has not started
  conn,       \* the helper's connection: none, queued, open, or shut by the broker
  asked,      \* the request is in the connection
  said,       \* the response is in the connection
  hpc,        \* the helper: the call of ContactSource it is in
  checked,    \* whether that call's permission check has passed
  before,     \* the first history token
  todo,       \* lists or containers still to be read
  records,    \* cards read so far, or lists by container
  answer,     \* the response to emit
  base        \* ghost: the right answer when the first token was read

storeVars == <<store, revision>>
brokerVars == <<pc, op, sel, expired, outcome>>
readVars == <<before, todo, records, base>>
helperVars == <<hpc, checked, readVars, answer>>
vars == <<storeVars, permission, brokerVars, ordered, conn, asked, said, helperVars>>

Nothing == [x \in {} |-> x]
Result(code, data) == [code |-> code, data |-> data]
NoAnswer == Result("none", Nothing)

(* What a snapshot or a discovery read at one instant would return. *)
Picked(ls) == IF sel = {} THEN ls ELSE sel
Cards(gs) == [x \in UNION {store.members[g] : g \in gs} |-> store.card[x]]
Present == Container \in DOMAIN store.lists /\ sel \subseteq store.lists[Container]
Truth == IF op = "discover" THEN Result("ok", store.lists)
         ELSE IF Present THEN Result("ok", Cards(Picked(store.lists[Container])))
         ELSE Result("contacts_selection_missing", Nothing)

Permissions == {"authorized", "undetermined", "denied"}

Init ==
  /\ store \in Stores /\ revision = 0 /\ permission \in Permissions
  /\ pc = "idle" /\ op = "discover" /\ sel = {} /\ expired = FALSE
  /\ outcome = NoAnswer
  /\ ordered = FALSE /\ conn = "none" /\ asked = FALSE /\ said = NoAnswer
  /\ hpc = "none" /\ checked = FALSE
  /\ before = 0 /\ todo = {} /\ records = Nothing /\ base = NoAnswer /\ answer = NoAnswer

-----------------------------------------------------------------------------
(* The owner, or a sync: every edit of the store gives it a new token. *)
Edit ==
  /\ store' \in Stores \ {store}
  /\ revision < MaxEdits /\ revision' = revision + 1
  /\ UNCHANGED <<permission, brokerVars, ordered, conn, asked, said, helperVars>>

ChangePermission ==
  /\ permission' \in Permissions \ {permission}
  /\ UNCHANGED <<storeVars, brokerVars, ordered, conn, asked, said, helperVars>>

-----------------------------------------------------------------------------
(* exchangeDesktop *)
Return(code, data) ==
  /\ pc' = "idle" /\ outcome' = Result(code, data)
  /\ conn' = IF conn = "none" THEN "none" ELSE "shut"
  /\ asked' = FALSE /\ said' = NoAnswer
  /\ UNCHANGED <<op, sel, expired>>
Proceed(place) == pc' = place /\ UNCHANGED <<op, sel, expired, outcome, said>>
TransportError == IF expired THEN "contacts_timeout" ELSE "contacts_invalid_response"
Fails(code) == Return(code, Nothing)

(* CheckHelper, the private directory and the listener, then launch. *)
Begin ==
  /\ pc = "idle" /\ hpc = "none" /\ ~ordered
  /\ op' \in {"snapshot", "discover"}
  /\ sel' \in IF op' = "snapshot" THEN Selections ELSE {{}}
  /\ expired' = FALSE /\ conn' = "none" /\ base' = NoAnswer
  /\ \/ \E code \in {"contacts_unavailable", "contacts_unsafe_helper"} :
          pc' = "idle" /\ outcome' = Result(code, Nothing) /\ ordered' = FALSE
     \/ pc' = "launch" /\ outcome' = NoAnswer /\ ordered' = TRUE
  /\ UNCHANGED <<storeVars, permission, asked, said, hpc, checked, before, todo, records, answer>>

Expire ==
  /\ pc # "idle" /\ ~expired /\ expired' = TRUE
  /\ UNCHANGED <<storeVars, permission, pc, op, sel, outcome, ordered, conn, asked, said, helperVars>>

(* open may fail after it has launched the helper. *)
Launched ==
  /\ pc = "launch"
  /\ \/ Proceed("accept") /\ UNCHANGED <<conn, asked>>
     \/ Fails(IF expired THEN "contacts_timeout" ELSE "contacts_unavailable")
  /\ UNCHANGED <<storeVars, permission, ordered, helperVars>>

(* The peer check of a helper that has already gone may fail. *)
Accept ==
  /\ pc = "accept" /\ conn = "queued"
  /\ \/ Proceed("write") /\ conn' = "open" /\ UNCHANGED asked
     \/ hpc = "none" /\ Fails("contacts_unsafe_helper")
  /\ UNCHANGED <<storeVars, permission, ordered, helperVars>>

AcceptForever == FALSE   \* bug: the listener is not closed with the context
AcceptFails ==
  /\ pc = "accept" /\ expired /\ Fails("contacts_timeout")
  /\ UNCHANGED <<storeVars, permission, ordered, helperVars>>

(* AcceptUnix may fail for a reason of its own. *)
AcceptBreaks ==
  /\ pc = "accept" /\ ~expired /\ Fails("contacts_unavailable")
  /\ UNCHANGED <<storeVars, permission, ordered, helperVars>>

WriteRequest ==
  /\ pc = "write"
  /\ \/ Proceed("read") /\ asked' = TRUE /\ UNCHANGED conn
     \/ (expired \/ hpc = "none") /\ Fails(TransportError)
  /\ UNCHANGED <<storeVars, permission, ordered, helperVars>>

ReadAnswer ==
  /\ pc = "read"
  /\ \/ said # NoAnswer /\ Proceed("eof") /\ UNCHANGED <<conn, asked>>
     \/ (expired \/ (hpc = "none" /\ said = NoAnswer)) /\ Fails(TransportError)
  /\ UNCHANGED <<storeVars, permission, ordered, helperVars>>

(* The response counts once the helper has disconnected. *)
ReadEOF ==
  /\ pc = "eof"
  /\ \/ hpc = "none" /\ Return(said.code, said.data)
     \/ expired /\ Fails("contacts_timeout")
  /\ UNCHANGED <<storeVars, permission, ordered, helperVars>>

-----------------------------------------------------------------------------
(* The helper's process. *)
Helper(place) ==
  /\ hpc' = place /\ checked' = FALSE
  /\ UNCHANGED <<storeVars, permission, brokerVars, ordered, asked>>

Gone ==
  /\ hpc' = "none" /\ checked' = FALSE
  /\ before' = 0 /\ todo' = {} /\ records' = Nothing /\ answer' = NoAnswer
  /\ UNCHANGED <<storeVars, permission, brokerVars, ordered, conn, asked, said, base>>

(* Launch Services starts it, late, or never. *)
HelperStarts ==
  /\ ordered /\ ordered' = FALSE
  /\ hpc' \in {"start", "none"}
  /\ UNCHANGED <<storeVars, permission, brokerVars, conn, asked, said, checked, readVars, answer>>

(* connectOwnerChannel, while the listener is open; without a connection an
   answer goes nowhere.                                                     *)
Connect ==
  /\ hpc = "start"
  /\ \/ pc \in {"launch", "accept"} /\ Helper("request") /\ conn' = "queued"
        /\ UNCHANGED <<said, readVars, answer>>
     \/ Gone

NoWatch == FALSE   \* bug: nobody polls the connection
(* watchOwnerDisconnect: in whatever call the main thread is *)
Watch == hpc # "none" /\ conn = "shut" /\ Gone

(* The alarm goes off, or the process crashes or is killed. *)
HelperDies == hpc # "none" /\ Gone

ReadRequest ==
  /\ hpc = "request" /\ asked
  /\ Helper("init") /\ UNCHANGED <<conn, said, readVars, answer>>

(* ContactsFailure, and how the permission of the moment is reported. *)
Throw(code) ==
  /\ Helper("emit") /\ answer' = Result(code, Nothing)
  /\ UNCHANGED <<conn, said, readVars>>
PermissionCode(otherwise) ==
  [authorized |-> otherwise, undetermined |-> "contacts_permission_required",
   denied |-> "contacts_permission_denied"][permission]

Calls == {"init", "before", "containers", "groups", "contacts", "after"}

CheckPermission ==
  /\ hpc \in Calls /\ ~checked
  /\ \/ /\ permission = "authorized"
        /\ IF hpc = "init" THEN hpc' = "before" /\ checked' = FALSE
                           ELSE hpc' = hpc /\ checked' = TRUE
        /\ UNCHANGED <<storeVars, permission, brokerVars, ordered, conn, asked, said, readVars, answer>>
     \/ permission # "authorized" /\ Throw(PermissionCode("none"))

(* A framework call throws, for want of permission or for another reason. *)
CallThrows ==
  /\ checked /\ hpc \in {"containers", "groups", "contacts"}
  /\ Helper("catch") /\ UNCHANGED <<conn, said, readVars, answer>>
Catch == hpc = "catch" /\ Throw(PermissionCode("contacts_unavailable"))

Called(name) == hpc = name /\ checked

(* currentHistoryToken may be nil. *)
NoToken == checked /\ hpc \in {"before", "after"} /\ Throw("contacts_unavailable")

FirstToken ==
  /\ Called("before") /\ before' = revision
  /\ base' = Truth /\ todo' = {} /\ records' = Nothing
  /\ Helper("containers") /\ UNCHANGED <<conn, said, answer>>

ReadContainers ==
  /\ Called("containers")
  /\ \/ /\ op = "snapshot" /\ Container \in DOMAIN store.lists
        /\ Helper("groups") /\ UNCHANGED <<conn, said, readVars, answer>>
     \/ op = "snapshot" /\ Container \notin DOMAIN store.lists /\ Throw("contacts_selection_missing")
     \/ /\ op = "discover" /\ todo' = DOMAIN store.lists
        /\ Helper(IF DOMAIN store.lists = {} THEN "after" ELSE "groups")
        /\ UNCHANGED <<conn, said, before, records, base, answer>>

ListsNow(c) == IF c \in DOMAIN store.lists THEN store.lists[c] ELSE {}

(* snapshot: the lists of the container, of which the selection must be part *)
ReadGroups ==
  LET found == ListsNow(Container)
  IN  /\ Called("groups") /\ op = "snapshot"
      /\ \/ Cardinality(Picked(found)) > MaxLists /\ Throw("contacts_overflow")
         \/ ~(sel \subseteq found) /\ Throw("contacts_selection_missing")
         \/ /\ Cardinality(Picked(found)) <= MaxLists /\ sel \subseteq found
            /\ todo' = Picked(found)
            /\ Helper(IF Picked(found) = {} THEN "after" ELSE "contacts")
            /\ UNCHANGED <<conn, said, before, records, base, answer>>

(* discover: the lists of one container after another *)
DiscoverGroups ==
  /\ Called("groups") /\ op = "discover"
  /\ \E c \in todo :
       /\ todo' = todo \ {c}
       /\ records' = [d \in DOMAIN records \cup {c} |->
                        IF d = c THEN ListsNow(c) ELSE records[d]]
  /\ Helper(IF todo' = {} THEN "after" ELSE "groups")
  /\ UNCHANGED <<conn, said, before, base, answer>>

PerListBound(found) == Cardinality(found) > MaxContacts   \* bug: the union is not bounded
TooMany(found) == Cardinality(DOMAIN records \cup found) > MaxContacts

MembersNow(g) == IF g \in DOMAIN store.members THEN store.members[g] ELSE {}

(* The cards of the next list; a card met before must not have changed. *)
ReadContacts ==
  /\ Called("contacts")
  /\ \E g \in todo :
       LET found == MembersNow(g)
           clash == \E x \in found \cap DOMAIN records : records[x] # store.card[x]
       IN  /\ \A h \in todo : g <= h
           /\ \/ TooMany(found) /\ Throw("contacts_overflow")
              \/ clash /\ Throw("contacts_store_changed")
              \/ /\ ~TooMany(found) /\ ~clash
                 /\ todo' = todo \ {g}
                 /\ records' = [x \in DOMAIN records \cup found |->
                                  IF x \in found THEN store.card[x] ELSE records[x]]
                 /\ Helper(IF todo' = {} THEN "after" ELSE "contacts")
                 /\ UNCHANGED <<conn, said, before, base, answer>>

AnyToken == TRUE   \* bug: the second token is not compared
SameToken == revision = before

SecondToken ==
  /\ Called("after")
  /\ \/ /\ SameToken /\ answer' = Result("ok", records)
        /\ Helper("emit") /\ UNCHANGED <<conn, said, readVars>>
     \/ ~SameToken /\ Throw("contacts_store_changed")

(* A success may exceed 4 MiB; how large it is is data. *)
Emit ==
  /\ hpc = "emit"
  /\ \/ conn = "open" /\ said' = answer
     \/ conn = "open" /\ answer.code = "ok" /\ said' = Result("contacts_overflow", Nothing)
     \/ conn = "shut" /\ UNCHANGED said
  /\ Helper("exit") /\ UNCHANGED <<conn, readVars, answer>>

Exit == hpc = "exit" /\ Gone

-----------------------------------------------------------------------------
Broker == Begin \/ Launched \/ Accept \/ AcceptFails \/ AcceptBreaks
            \/ WriteRequest \/ ReadAnswer \/ ReadEOF
Reading == CheckPermission \/ CallThrows \/ Catch \/ NoToken \/ FirstToken \/ ReadContainers
             \/ ReadGroups \/ DiscoverGroups \/ ReadContacts \/ SecondToken

Next ==
  \/ Edit \/ ChangePermission
  \/ Broker \/ Expire
  \/ HelperStarts \/ Connect \/ Watch \/ HelperDies
  \/ ReadRequest \/ Reading \/ Emit \/ Exit

(* The context ends, and goroutines and the watching thread run; no Accept
   need fail while the context lasts. Nothing is assumed of the framework, of
   Launch Services or of the alarm: a call may stall for ever.              *)
Fairness ==
  /\ WF_vars(Expire)
  /\ WF_vars(Launched \/ Accept \/ AcceptFails \/ WriteRequest \/ ReadAnswer \/ ReadEOF)
  /\ WF_vars(Connect) /\ WF_vars(Watch)

Spec == Init /\ [][Next]_vars /\ Fairness

-----------------------------------------------------------------------------
Codes == {"none", "ok", "contacts_unavailable", "contacts_unsafe_helper", "contacts_timeout",
          "contacts_invalid_response", "contacts_overflow", "contacts_selection_missing",
          "contacts_store_changed", "contacts_permission_required", "contacts_permission_denied"}

(* Types, and max_contacts, which bounds the union of the lists. *)
TypeOK ==
  /\ store \in Stores /\ revision \in 0..MaxEdits /\ before \in 0..revision /\ permission \in Permissions
  /\ pc \in {"idle", "launch", "accept", "write", "read", "eof"}
  /\ op \in {"snapshot", "discover"} /\ sel \in Selections \cup {{}}
  /\ {expired, ordered, asked, checked} \subseteq BOOLEAN
  /\ conn \in {"none", "queued", "open", "shut"}
  /\ hpc \in {"none", "start", "request", "catch", "emit", "exit"} \cup Calls
  /\ {outcome.code, said.code, answer.code} \subseteq Codes
  /\ op = "snapshot" => Cardinality(DOMAIN records) <= MaxContacts

(* A snapshot or a discovery that succeeds is the whole of what the owner had
   selected at one instant of its exchange, though lists and cards are read
   one by one while they are edited (ContactsCore.swift: snapshot, discover). *)
OneInstant == outcome.code = "ok" => outcome = base

(* An exchange ends, and with it its helper, even if Launch Services or a
   framework call stalls (desktop.go: exchangeDesktop; watchOwnerDisconnect). *)
ExchangeEnds == (pc # "idle" ~> pc = "idle") /\ (hpc # "none" ~> hpc = "none")
=============================================================================
