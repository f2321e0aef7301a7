------------------------- MODULE ContactsHelper_proofs -------------------------
(* Proofs about the Contacts exchange, for any stores, selections, bounds and
   number of edits.                                                          *)
EXTENDS ContactsHelper, FiniteSetTheorems, TLAPS

USE StoreAssumption, BoundAssumption

Early == {"none", "start", "request", "init", "before", "containers"}
Late == {"containers", "groups", "contacts", "after"}
Over == {"catch", "emit", "exit"}

(* Nothing has been edited since the first token. *)
Unedited == revision = before
AllLists == store.lists[Container]
ListsOf(cs) == [d \in cs |-> store.lists[d]]

(* The answer of the first token's instant is still the right one. *)
BaseInv == hpc \in Late /\ Unedited => base = Truth

(* Nothing is in hand before the lists are known. *)
EarlyInv ==
  hpc \in Early \/ (hpc = "groups" /\ op = "snapshot") => todo = {} /\ records = Nothing

(* What has been read, if nothing was edited, is what the store holds. *)
GroupsInv ==
  hpc = "groups" /\ op = "snapshot" /\ Unedited => Container \in DOMAIN store.lists
SnapshotInv ==
  hpc \in {"contacts", "after"} /\ op = "snapshot" /\ Unedited =>
    /\ Present /\ todo \subseteq Picked(AllLists)
    /\ records = Cards(Picked(AllLists) \ todo)
DiscoverInv ==
  hpc \in {"groups", "after"} /\ op = "discover" /\ Unedited =>
    /\ todo \subseteq DOMAIN store.lists
    /\ records = ListsOf(DOMAIN store.lists \ todo)
OrderInv == (hpc = "contacts" => op = "snapshot") /\ (hpc = "after" => todo = {})

ReadInv == BaseInv /\ EarlyInv /\ GroupsInv /\ SnapshotInv /\ DiscoverInv /\ OrderInv

(* A success is that answer from the second token to the return; no call of
   the next exchange begins in between.                                      *)
AnswerInv == answer.code = "ok" => answer = base /\ hpc \in {"emit", "exit"}
SaidInv == said.code = "ok" => said = base /\ hpc \in {"exit", "none"}
OutcomeInv == outcome.code = "ok" => outcome = base /\ pc = "idle" /\ hpc = "none" /\ ~ordered
StageInv ==
  /\ ordered => hpc = "none" /\ said = NoAnswer
  /\ pc = "idle" => conn \in {"none", "shut"} /\ said = NoAnswer
ShapeInv == \A r \in {answer, said} : r = Result(r.code, r.data)
ResultInv == AnswerInv /\ SaidInv /\ OutcomeInv /\ StageInv /\ ShapeInv

(* A snapshot reads finitely many cards. *)
FiniteInv == op = "snapshot" => IsFiniteSet(DOMAIN records)

IInv == TypeOK /\ ReadInv /\ ResultInv /\ FiniteInv

-----------------------------------------------------------------------------
LEMMA InitIInv == Init => IInv
<1> SUFFICES ASSUME Init PROVE IInv
  OBVIOUS
<1>1. Cardinality(DOMAIN records) = 0
  BY FS_EmptySet DEF Init, Nothing
<1>2. TypeOK
  <2>1. {expired, ordered, asked, checked} \subseteq BOOLEAN
    BY Zenon DEF Init
  <2>2. {outcome.code, said.code, answer.code} \subseteq Codes
    BY DEF Init, NoAnswer, Result, Codes
  <2> QED BY <1>1, <2>1, <2>2 DEF Init, TypeOK, Calls, Permissions
<1>3. ReadInv
  <2>1. hpc = "none" /\ todo = {} /\ records = Nothing
    BY DEF Init
  <2> QED BY <2>1 DEF ReadInv, BaseInv, EarlyInv, GroupsInv, SnapshotInv, DiscoverInv, OrderInv,
             Early, Late
<1>4. ResultInv
  BY DEF Init, ResultInv, AnswerInv, SaidInv, OutcomeInv, StageInv, ShapeInv, NoAnswer, Result
<1> QED BY <1>2, <1>3, <1>4 DEF IInv, FiniteInv, Init

-----------------------------------------------------------------------------
(* ReadInv, by what a step does to the reader. *)

LEMMA StillReading ==
  ASSUME ReadInv, UNCHANGED <<storeVars, op, sel, hpc, readVars>>
  PROVE  ReadInv'
<1>1. Truth' = Truth /\ Present' = Present /\ AllLists' = AllLists /\ Unedited' = Unedited
  BY DEF Truth, Present, Cards, Picked, AllLists, Unedited, storeVars, readVars
<1>2. \A ls : Picked(ls)' = Picked(ls) /\ Cards(ls)' = Cards(ls) /\ ListsOf(ls)' = ListsOf(ls)
  BY DEF Picked, Cards, ListsOf, storeVars
<1> QED BY <1>1, <1>2 DEF ReadInv, BaseInv, EarlyInv, GroupsInv, SnapshotInv, DiscoverInv, OrderInv,
           storeVars, readVars

LEMMA NotReading ==
  ASSUME ReadInv, hpc' \in Over \/ (hpc' \in Early \ Late /\ todo' = {} /\ records' = Nothing)
  PROVE  ReadInv'
BY DEF ReadInv, BaseInv, EarlyInv, GroupsInv, SnapshotInv, DiscoverInv, OrderInv, Early, Late, Over

LEMMA EditRead ==
  ASSUME TypeOK, ReadInv, Edit
  PROVE  ReadInv'
<1>1. ~Unedited'
  BY DEF Edit, Unedited, helperVars, readVars, TypeOK
<1> QED BY <1>1 DEF Edit, helperVars, readVars, brokerVars, ReadInv, BaseInv, EarlyInv, GroupsInv,
           SnapshotInv, DiscoverInv, OrderInv

(* The calls that read. *)
LEMMA SameStore ==
  ASSUME UNCHANGED <<storeVars, op, sel>>
  PROVE  /\ Truth' = Truth /\ Present' = Present /\ AllLists' = AllLists
         /\ \A ls : Picked(ls)' = Picked(ls) /\ Cards(ls)' = Cards(ls) /\ ListsOf(ls)' = ListsOf(ls)
BY DEF Truth, Present, Cards, Picked, AllLists, ListsOf, storeVars

LEMMA FirstTokenRead ==
  ASSUME ReadInv, FirstToken
  PROVE  ReadInv'
<1>1. Truth' = Truth
  BY SameStore DEF FirstToken, Helper, brokerVars
<1> QED BY <1>1 DEF FirstToken, Helper, Called, ReadInv, BaseInv, EarlyInv, GroupsInv, SnapshotInv,
           DiscoverInv, OrderInv, Early, Late

LEMMA ReadContainersRead ==
  ASSUME TypeOK, ReadInv, ReadContainers
  PROVE  ReadInv'
<1>0. /\ hpc = "containers" /\ todo = {} /\ records = Nothing /\ Unedited' = Unedited
      /\ UNCHANGED <<storeVars, op, sel, before, base>>
  BY DEF ReadContainers, Helper, Throw, Called, ReadInv, EarlyInv, Early, brokerVars, readVars,
     storeVars, Unedited
<1>1. /\ Truth' = Truth /\ Present' = Present /\ AllLists' = AllLists
      /\ \A ls : Picked(ls)' = Picked(ls) /\ Cards(ls)' = Cards(ls) /\ ListsOf(ls)' = ListsOf(ls)
  BY <1>0, SameStore
<1>2. CASE op = "snapshot" /\ Container \in DOMAIN store.lists /\ Helper("groups") /\ UNCHANGED readVars
  BY <1>0, <1>1, <1>2 DEF Helper, readVars, storeVars, ReadInv, BaseInv, EarlyInv, GroupsInv,
     SnapshotInv, DiscoverInv, OrderInv, Early, Late
<1>3. CASE \E code \in Codes : Throw(code)
  BY <1>3, NotReading DEF Throw, Helper, Over
<1>4. CASE /\ op = "discover" /\ todo' = DOMAIN store.lists
           /\ Helper(IF DOMAIN store.lists = {} THEN "after" ELSE "groups")
           /\ UNCHANGED records
  <2>1. records = ListsOf(DOMAIN store.lists \ DOMAIN store.lists)
    BY <1>0 DEF ListsOf, Nothing
  <2> QED BY <1>0, <1>1, <1>4, <2>1 DEF Helper, storeVars, ReadInv, BaseInv, EarlyInv, GroupsInv,
             SnapshotInv, DiscoverInv, OrderInv, Early, Late
<1> QED BY <1>2, <1>3, <1>4 DEF ReadContainers, Codes

LEMMA ReadGroupsRead ==
  ASSUME TypeOK, ReadInv, ReadGroups
  PROVE  ReadInv'
<1> DEFINE found == ListsNow(Container)
<1>0. /\ hpc = "groups" /\ op = "snapshot" /\ todo = {} /\ records = Nothing
      /\ Unedited' = Unedited /\ UNCHANGED <<storeVars, op, sel, before, base>>
  BY DEF ReadGroups, Helper, Throw, Called, ReadInv, EarlyInv, brokerVars, readVars, storeVars, Unedited
<1>1. /\ Truth' = Truth /\ Present' = Present /\ AllLists' = AllLists
      /\ \A ls : Picked(ls)' = Picked(ls) /\ Cards(ls)' = Cards(ls)
  BY <1>0, SameStore
<1>2. CASE \E code \in Codes : Throw(code)
  BY <1>2, NotReading DEF Throw, Helper, Over
<1>3. CASE /\ sel \subseteq found /\ todo' = Picked(found)
           /\ Helper(IF Picked(found) = {} THEN "after" ELSE "contacts") /\ UNCHANGED records
  <2>1. Unedited => Container \in DOMAIN store.lists /\ found = AllLists
    BY <1>0 DEF ReadInv, GroupsInv, ListsNow, AllLists
  <2>2. Unedited => Present
    BY <2>1, <1>3 DEF Present, AllLists
  <2>3. records = Cards(Picked(AllLists) \ Picked(AllLists))
    BY <1>0 DEF Cards, Nothing
  <2>4. hpc' \in {"contacts", "after"} /\ todo' = Picked(found) /\ records' = records
        /\ (hpc' = "after" => todo' = {})
    BY <1>3 DEF Helper
  <2>5. Unedited => SnapshotInv'
    BY <1>0, <1>1, <2>1, <2>2, <2>3, <2>4 DEF SnapshotInv
  <2> HIDE DEF found
  <2> QED BY <1>0, <1>1, <2>4, <2>5 DEF ReadInv, BaseInv, EarlyInv, GroupsInv,
             SnapshotInv, DiscoverInv, OrderInv, Early, Late
<1> QED BY <1>2, <1>3 DEF ReadGroups, Codes

LEMMA DiscoverGroupsRead ==
  ASSUME TypeOK, ReadInv, DiscoverGroups
  PROVE  ReadInv'
<1>0. /\ hpc = "groups" /\ op = "discover" /\ Unedited' = Unedited
      /\ UNCHANGED <<storeVars, op, sel, before, base>>
  BY DEF DiscoverGroups, Helper, Called, brokerVars, storeVars, Unedited
<1>1. Truth' = Truth /\ \A ls : ListsOf(ls)' = ListsOf(ls)
  BY <1>0, SameStore
<1>2. PICK c \in todo : /\ todo' = todo \ {c}
                        /\ records' = [d \in DOMAIN records \cup {c} |->
                                         IF d = c THEN ListsNow(c) ELSE records[d]]
  BY DEF DiscoverGroups
<1>3. hpc' \in {"groups", "after"} /\ (hpc' = "after" => todo' = {})
  BY DEF DiscoverGroups, Helper
<1>4. ASSUME Unedited
      PROVE  todo' \subseteq DOMAIN store.lists /\ records' = ListsOf(DOMAIN store.lists \ todo')
  <2>1. todo \subseteq DOMAIN store.lists /\ records = ListsOf(DOMAIN store.lists \ todo)
    BY <1>0, <1>4 DEF ReadInv, DiscoverInv
  <2>2. DOMAIN records \cup {c} = DOMAIN store.lists \ todo'
    BY <1>2, <2>1 DEF ListsOf
  <2>3. \A d \in DOMAIN records \cup {c} :
          (IF d = c THEN ListsNow(c) ELSE records[d]) = store.lists[d]
    BY <1>2, <2>1 DEF ListsOf, ListsNow
  <2> QED BY <1>2, <2>1, <2>2, <2>3 DEF ListsOf
<1> QED BY <1>0, <1>1, <1>3, <1>4 DEF storeVars, ReadInv, BaseInv, EarlyInv, GroupsInv, SnapshotInv,
           DiscoverInv, OrderInv, Early, Late

LEMMA ReadContactsRead ==
  ASSUME TypeOK, ReadInv, ReadContacts
  PROVE  ReadInv'
<1>0. /\ hpc = "contacts" /\ op = "snapshot" /\ Unedited' = Unedited
      /\ UNCHANGED <<storeVars, op, sel, before, base>>
  BY DEF ReadContacts, Helper, Throw, Called, ReadInv, OrderInv, brokerVars, readVars, storeVars, Unedited
<1>1. /\ Truth' = Truth /\ Present' = Present /\ AllLists' = AllLists
      /\ \A ls : Picked(ls)' = Picked(ls) /\ Cards(ls)' = Cards(ls)
  BY <1>0, SameStore
<1>2. CASE \E code \in Codes : Throw(code)
  BY <1>2, NotReading DEF Throw, Helper, Over
<1>3. ASSUME NEW g \in todo, todo' = todo \ {g},
             records' = [x \in DOMAIN records \cup MembersNow(g) |->
                           IF x \in MembersNow(g) THEN store.card[x] ELSE records[x]],
             hpc' \in {"contacts", "after"}, hpc' = "after" => todo' = {}
      PROVE  ReadInv'
  <2>1. ASSUME Unedited
        PROVE  /\ Present /\ todo' \subseteq Picked(AllLists)
               /\ records' = Cards(Picked(AllLists) \ todo')
    <3>1. /\ Present /\ todo \subseteq Picked(AllLists)
          /\ records = Cards(Picked(AllLists) \ todo)
      BY <1>0, <2>1 DEF ReadInv, SnapshotInv
    <3> DEFINE done == Picked(AllLists) \ todo
               more == Picked(AllLists) \ (todo \ {g})
    <3>2. more = done \cup {g}
      BY <3>1
    <3>0. MembersNow(g) = store.members[g]
      <4>1. g \in store.lists[Container] /\ Container \in DOMAIN store.lists
        BY <3>1 DEF Present, Picked, AllLists
      <4>2. store \in Stores
        BY DEF TypeOK
      <4>3. g \in UNION {store.lists[c] : c \in DOMAIN store.lists}
        BY <4>1
      <4> QED BY <4>2, <4>3 DEF MembersNow
    <3>3. DOMAIN records = UNION {store.members[h] : h \in done}
      BY <3>1 DEF Cards
    <3>4. DOMAIN records \cup store.members[g] = UNION {store.members[h] : h \in more}
      BY <3>2, <3>3
    <3>5. \A x \in DOMAIN records : records[x] = store.card[x]
      BY <3>1, <3>3 DEF Cards
    <3>6. records' = Cards(more)
      BY <1>3, <3>0, <3>4, <3>5 DEF Cards
    <3> QED BY <1>3, <3>1, <3>6
  <2> QED BY <1>0, <1>1, <1>3, <2>1 DEF storeVars, ReadInv, BaseInv, EarlyInv, GroupsInv, SnapshotInv,
             DiscoverInv, OrderInv, Early, Late
<1> QED BY <1>2, <1>3 DEF ReadContacts, Helper, Codes

LEMMA ReadStep == IInv /\ [Next]_vars => ReadInv'
<1> SUFFICES ASSUME IInv, [Next]_vars PROVE ReadInv'
  OBVIOUS
<1> USE DEF IInv
<1>1. CASE Edit
  BY <1>1, EditRead
<1>2. CASE ChangePermission \/ Expire
  BY <1>2, StillReading DEF ChangePermission, Expire, brokerVars, helperVars
<1>3. CASE Begin
  <2>1. hpc = "none" /\ hpc' = "none" /\ todo' = {} /\ records' = Nothing
    BY <1>3 DEF Begin, ReadInv, EarlyInv, Early
  <2> QED BY <2>1, NotReading DEF Early, Late
<1>4. CASE Launched \/ Accept \/ AcceptFails \/ AcceptBreaks \/ WriteRequest \/ ReadAnswer \/ ReadEOF
  BY <1>4, StillReading DEF Launched, Accept, AcceptFails, AcceptBreaks, WriteRequest, ReadAnswer,
     ReadEOF, Proceed, Fails, Return, helperVars
<1>5. ASSUME Gone PROVE ReadInv'
  BY <1>5, NotReading DEF Gone, Early, Late
<1>6. CASE HelperStarts
  <2>1. hpc' \in {"start", "none"} /\ todo' = todo /\ records' = records
    BY <1>6 DEF HelperStarts, readVars
  <2>2. hpc = "none" /\ todo = {} /\ records = Nothing
    BY <1>6 DEF HelperStarts, ResultInv, StageInv, ReadInv, EarlyInv, Early
  <2> QED BY <2>1, <2>2, NotReading DEF Early, Late
<1>7. CASE Connect \/ ReadRequest
  <2>1. CASE Gone
    BY <2>1, <1>5
  <2>2. CASE /\ hpc \in {"start", "request"} /\ hpc' \in {"request", "init"}
             /\ todo' = todo /\ records' = records
    <3>1. todo = {} /\ records = Nothing
      BY <2>2 DEF ReadInv, EarlyInv, Early
    <3> QED BY <2>2, <3>1, NotReading DEF Early, Late
  <2> QED BY <1>7, <2>1, <2>2 DEF Connect, ReadRequest, Helper, readVars
<1>8. CASE Watch \/ HelperDies \/ Exit
  BY <1>8, <1>5 DEF Watch, HelperDies, Exit
<1>9. CASE CheckPermission
  <2>1. CASE \E code \in {PermissionCode("none")} : Throw(code)
    BY <2>1, NotReading DEF Throw, Helper, Over
  <2>2. CASE hpc = "init" /\ hpc' = "before" /\ UNCHANGED readVars
    <3>1. todo = {} /\ records = Nothing
      BY <2>2 DEF ReadInv, EarlyInv, Early
    <3> QED BY <2>2, <3>1, NotReading DEF readVars, Early, Late
  <2>3. CASE hpc # "init" /\ UNCHANGED <<storeVars, hpc, brokerVars, readVars>>
    BY <2>3, StillReading DEF brokerVars
  <2> QED BY <1>9, <2>1, <2>2, <2>3 DEF CheckPermission
<1>10. CASE CallThrows \/ Catch \/ NoToken \/ SecondToken \/ Emit
  <2>1. CASE Emit
    <3>1. hpc = "emit" /\ hpc' = "exit" /\ todo' = todo /\ records' = records
      BY <2>1 DEF Emit, Helper, readVars
    <3> QED BY <3>1, NotReading DEF Over
  <2> QED BY <1>10, <2>1, NotReading DEF CallThrows, Catch, NoToken, SecondToken, Throw, Helper, Over
<1>11. CASE FirstToken
  BY <1>11, FirstTokenRead
<1>12. CASE ReadContainers
  BY <1>12, ReadContainersRead
<1>13. CASE ReadGroups
  BY <1>13, ReadGroupsRead
<1>14. CASE DiscoverGroups
  BY <1>14, DiscoverGroupsRead
<1>15. CASE ReadContacts
  BY <1>15, ReadContactsRead
<1>16. CASE UNCHANGED vars
  BY <1>16, StillReading DEF vars, brokerVars, helperVars
<1> QED BY <1>1, <1>2, <1>3, <1>4, <1>6, <1>7, <1>8, <1>9, <1>10, <1>11, <1>12, <1>13, <1>14,
           <1>15, <1>16 DEF Next, Broker, Reading

-----------------------------------------------------------------------------
(* A success travels from the reader to the caller as it is. *)

LEMMA SecondTokenAnswer ==
  ASSUME IInv, SameToken, Called("after")
  PROVE  Result("ok", records) = base
<1>1. hpc = "after" /\ todo = {} /\ Unedited /\ base = Truth
  BY DEF IInv, ReadInv, BaseInv, OrderInv, Called, SameToken, Unedited, Late
<1>2. CASE op = "snapshot"
  BY <1>1, <1>2 DEF IInv, ReadInv, SnapshotInv, Truth, AllLists
<1>3. CASE op = "discover"
  <2>1. store \in Stores
    BY DEF IInv, TypeOK
  <2>2. store.lists = [c \in DOMAIN store.lists |-> store.lists[c]]
    BY <2>1
  <2> QED BY <1>1, <1>3, <2>2 DEF IInv, ReadInv, DiscoverInv, ListsOf, Truth
<1> QED BY <1>2, <1>3 DEF IInv, TypeOK

LEMMA Failure == \A code \in Codes \ {"ok"} : Result(code, Nothing).code # "ok"
BY DEF Result

LEMMA PermissionCodes ==
  ASSUME TypeOK
  PROVE  /\ permission # "authorized" => PermissionCode("none") \in Codes \ {"ok"}
         /\ PermissionCode("contacts_unavailable") \in Codes \ {"ok"}
BY DEF TypeOK, Permissions, PermissionCode, Codes

(* A step of the reader, up to the answer it will emit. *)
LEMMA ReaderResult ==
  ASSUME ResultInv, hpc \in {"start", "request", "catch"} \cup Calls,
         hpc' \in {"request", "catch", "emit"} \cup Calls,
         UNCHANGED <<brokerVars, ordered, said>>,
         conn' = conn \/ pc # "idle",
         \/ answer' = answer
         \/ /\ hpc' = "emit" /\ answer' = Result(answer'.code, answer'.data)
            /\ answer'.code = "ok" => answer' = base'
  PROVE  ResultInv'
<1>1. answer.code # "ok" /\ said.code # "ok" /\ outcome.code # "ok" /\ ~ordered
  BY DEF ResultInv, AnswerInv, SaidInv, OutcomeInv, StageInv, Calls
<1> QED BY <1>1 DEF ResultInv, AnswerInv, SaidInv, OutcomeInv, StageInv, ShapeInv, brokerVars

LEMMA ThrowResult ==
  ASSUME ResultInv, hpc \in {"catch"} \cup Calls, NEW code \in Codes \ {"ok"}, Throw(code)
  PROVE  ResultInv'
<1>1. answer' = Result(answer'.code, answer'.data) /\ answer'.code # "ok"
  BY DEF Throw, Result
<1>2. hpc' = "emit" /\ UNCHANGED <<brokerVars, ordered, said, conn>>
  BY DEF Throw, Helper
<1> QED BY <1>1, <1>2, ReaderResult

LEMMA ResultStep == IInv /\ [Next]_vars => ResultInv'
<1> SUFFICES ASSUME IInv, [Next]_vars PROVE ResultInv'
  OBVIOUS
<1> USE DEF IInv
<1>1. CASE Edit \/ ChangePermission \/ Expire \/ UNCHANGED vars
  BY <1>1 DEF Edit, ChangePermission, Expire, vars, brokerVars, helperVars, readVars,
     ResultInv, AnswerInv, SaidInv, OutcomeInv, StageInv, ShapeInv
<1>2. CASE Begin
  BY <1>2 DEF Begin, Result, NoAnswer, ResultInv, AnswerInv, SaidInv, OutcomeInv, StageInv, ShapeInv
<1>3. ASSUME NEW code \in Codes \ {"ok"}, Fails(code), UNCHANGED <<ordered, helperVars>>, pc # "idle"
      PROVE  ResultInv'
  BY <1>3 DEF Fails, Return, Result, NoAnswer, helperVars, readVars, TypeOK,
     ResultInv, AnswerInv, SaidInv, OutcomeInv, StageInv, ShapeInv
<1>4. CASE Launched \/ Accept \/ AcceptFails \/ AcceptBreaks \/ WriteRequest \/ ReadAnswer \/ ReadEOF
  <2>1. ASSUME NEW place \in {"accept", "write", "read", "eof"}, Proceed(place), pc # "idle",
               UNCHANGED <<ordered, helperVars>>
        PROVE  ResultInv'
    BY <2>1 DEF Proceed, helperVars, readVars, ResultInv, AnswerInv, SaidInv, OutcomeInv, StageInv, ShapeInv
  <2>2. ASSUME pc = "eof", hpc = "none", Return(said.code, said.data),
               UNCHANGED <<ordered, helperVars>>
        PROVE  ResultInv'
    <3>1. said = Result(said.code, said.data)
      BY DEF ResultInv, ShapeInv
    <3> QED BY <2>2, <3>1 DEF Return, Result, NoAnswer, helperVars, readVars, TypeOK,
               ResultInv, AnswerInv, SaidInv, OutcomeInv, StageInv, ShapeInv
  <2> QED BY <1>3, <1>4, <2>1, <2>2 DEF Launched, Accept, AcceptFails, AcceptBreaks, WriteRequest,
             ReadAnswer, ReadEOF, TransportError, Codes
<1>5. ASSUME Gone PROVE ResultInv'
  BY <1>5 DEF Gone, Result, NoAnswer, brokerVars, ResultInv, AnswerInv, SaidInv, OutcomeInv, StageInv,
     ShapeInv
<1>6. CASE HelperStarts
  BY <1>6 DEF HelperStarts, brokerVars, readVars, Result, NoAnswer,
     ResultInv, AnswerInv, SaidInv, OutcomeInv, StageInv, ShapeInv
<1>7. CASE Connect \/ ReadRequest
  <2>1. CASE Gone
    BY <2>1, <1>5
  <2>2. CASE /\ hpc \in {"start", "request"} /\ (conn' = conn \/ pc # "idle") /\ UNCHANGED <<said, answer>>
             /\ (Helper("request") \/ Helper("init"))
    BY <2>2, ReaderResult DEF Helper, Calls
  <2> QED BY <1>7, <2>1, <2>2 DEF Connect, ReadRequest
<1>8. CASE Watch \/ HelperDies \/ Exit
  BY <1>8, <1>5 DEF Watch, HelperDies, Exit
<1>9. CASE CheckPermission
  <2>1. CASE permission # "authorized" /\ Throw(PermissionCode("none"))
    BY <1>9, <2>1, ThrowResult, PermissionCodes DEF CheckPermission
  <2>2. CASE /\ hpc' \in Calls /\ UNCHANGED <<brokerVars, ordered, conn, said, answer>>
    BY <1>9, <2>2, ReaderResult DEF CheckPermission
  <2> QED BY <1>9, <2>1, <2>2 DEF CheckPermission, Calls
<1>10. CASE CallThrows \/ FirstToken
  BY <1>10, ReaderResult DEF CallThrows, FirstToken, Called, Helper, Calls
<1>11. CASE Catch \/ NoToken
  BY <1>11, ThrowResult, PermissionCodes DEF Catch, NoToken, Calls, Codes
<1>12. CASE ReadContainers
  <2>1. CASE Throw("contacts_selection_missing")
    BY <1>12, <2>1, ThrowResult DEF ReadContainers, Called, Calls, Codes
  <2> QED BY <1>12, <2>1, ReaderResult DEF ReadContainers, Called, Helper, Calls
<1>13. CASE ReadGroups
  <2>1. CASE Throw("contacts_selection_missing") \/ Throw("contacts_overflow")
    BY <1>13, <2>1, ThrowResult DEF ReadGroups, Called, Calls, Codes
  <2> QED BY <1>13, <2>1, ReaderResult DEF ReadGroups, Called, Helper, Calls
<1>14. CASE DiscoverGroups
  BY <1>14, ReaderResult DEF DiscoverGroups, Called, Helper, Calls
<1>15. CASE ReadContacts
  <2>1. CASE Throw("contacts_store_changed") \/ Throw("contacts_overflow")
    BY <1>15, <2>1, ThrowResult DEF ReadContacts, Called, Calls, Codes
  <2> QED BY <1>15, <2>1, ReaderResult DEF ReadContacts, Called, Helper, Calls
<1>16. CASE SecondToken
  <2>1. CASE Throw("contacts_store_changed")
    BY <1>16, <2>1, ThrowResult DEF SecondToken, Called, Calls, Codes
  <2>2. CASE /\ Called("after") /\ SameToken /\ answer' = Result("ok", records)
             /\ Helper("emit") /\ UNCHANGED <<conn, said, readVars>>
    <3>1. answer' = base'
      BY <2>2, SecondTokenAnswer DEF readVars
    <3>2. answer' = Result(answer'.code, answer'.data)
      BY <2>2 DEF Result
    <3> QED BY <2>2, <3>1, <3>2, ReaderResult DEF Called, Helper, Calls
  <2> QED BY <1>16, <2>1, <2>2 DEF SecondToken
<1>17. CASE Emit
  <2>1. /\ hpc = "emit" /\ hpc' = "exit" /\ ~ordered /\ outcome.code # "ok"
        /\ UNCHANGED <<brokerVars, ordered, conn, base, answer>>
        /\ said' # said => conn = "open"
    BY <1>17 DEF Emit, Helper, readVars, ResultInv, OutcomeInv, StageInv
  <2>2. said' = said \/ said' = answer \/ said' = Result("contacts_overflow", Nothing)
    BY <1>17 DEF Emit
  <2>3. said.code # "ok"
    BY <2>1 DEF ResultInv, SaidInv
  <2> QED BY <2>1, <2>2, <2>3 DEF ResultInv, AnswerInv, SaidInv, OutcomeInv, StageInv, ShapeInv,
             brokerVars, Result
<1> QED BY <1>1, <1>2, <1>4, <1>6, <1>7, <1>8, <1>9, <1>10, <1>11, <1>12, <1>13, <1>14, <1>15,
           <1>16, <1>17 DEF Next, Broker, Reading

-----------------------------------------------------------------------------
(* Types, action by action. *)
CardsInv == op = "snapshot" => IsFiniteSet(DOMAIN records) /\ Cardinality(DOMAIN records) <= MaxContacts

LEMMA ReadContactsCards ==
  ASSUME IInv, ReadContacts
  PROVE  CardsInv'
<1>1. /\ UNCHANGED op /\ store \in Stores
      /\ op = "snapshot" => IsFiniteSet(DOMAIN records) /\ Cardinality(DOMAIN records) <= MaxContacts
  BY DEF ReadContacts, Throw, Helper, brokerVars, IInv, TypeOK, FiniteInv
<1>2. CASE UNCHANGED records
  BY <1>1, <1>2 DEF CardsInv
<1>3. ASSUME NEW g \in todo, ~TooMany(MembersNow(g)), DOMAIN records' = DOMAIN records \cup MembersNow(g),
             op = "snapshot"
      PROVE  CardsInv'
  <2>1. IsFiniteSet(MembersNow(g))
    BY <1>1, FS_EmptySet DEF MembersNow
  <2>2. IsFiniteSet(DOMAIN records)
    BY <1>1, <1>3
  <2>3. IsFiniteSet(DOMAIN records \cup MembersNow(g))
    BY <2>1, <2>2, FS_Union
  <2>4. Cardinality(DOMAIN records \cup MembersNow(g)) \in Nat
    BY <2>3, FS_CardinalityType
  <2>5. Cardinality(DOMAIN records \cup MembersNow(g)) <= MaxContacts
    BY <1>3, <2>4 DEF TooMany
  <2> QED BY <1>3, <2>3, <2>5 DEF CardsInv
<1> QED BY <1>1, <1>2, <1>3 DEF ReadContacts, Throw, readVars, CardsInv

LEMMA CardsStep == IInv /\ [Next]_vars => CardsInv'
<1> SUFFICES ASSUME IInv, [Next]_vars PROVE CardsInv'
  OBVIOUS
<1>1. CardsInv
  BY DEF IInv, TypeOK, FiniteInv, CardsInv
<1>2. Cardinality(DOMAIN Nothing) = 0 /\ IsFiniteSet(DOMAIN Nothing)
  BY FS_EmptySet DEF Nothing
<1>3. CASE records' = Nothing
  BY <1>2, <1>3 DEF CardsInv
<1>4. CASE UNCHANGED <<op, records>>
  BY <1>1, <1>4 DEF CardsInv
<1>5. CASE Begin
  <2>1. records = Nothing /\ records' = records
    BY <1>5 DEF Begin, IInv, ReadInv, EarlyInv, Early
  <2> QED BY <1>3, <2>1
<1>6. CASE ReadContacts
  BY <1>6, ReadContactsCards
<1>7. CASE DiscoverGroups
  BY <1>7 DEF DiscoverGroups, Helper, brokerVars, CardsInv
<1>8. CASE \/ Edit \/ ChangePermission \/ Expire \/ UNCHANGED vars
           \/ Launched \/ Accept \/ AcceptFails \/ AcceptBreaks \/ WriteRequest \/ ReadAnswer \/ ReadEOF
  BY <1>4, <1>8 DEF Edit, ChangePermission, Expire, vars, Launched, Accept, AcceptFails,
     AcceptBreaks, WriteRequest, ReadAnswer, ReadEOF, Proceed, Fails, Return, brokerVars, helperVars, readVars
<1>9. CASE \/ HelperStarts \/ Connect \/ Watch \/ HelperDies \/ ReadRequest \/ Emit \/ Exit
  BY <1>3, <1>4, <1>9 DEF HelperStarts, Connect, Watch, HelperDies, ReadRequest, Emit, Exit, Gone, Helper,
     brokerVars, readVars
<1>10. CASE \/ CheckPermission \/ CallThrows \/ Catch \/ NoToken \/ FirstToken \/ ReadContainers
            \/ ReadGroups \/ SecondToken
  BY <1>3, <1>4, <1>10 DEF CheckPermission, CallThrows, Catch, NoToken, FirstToken, ReadContainers,
     ReadGroups, SecondToken, Throw, Helper, brokerVars, readVars
<1> QED BY <1>5, <1>6, <1>7, <1>8, <1>9, <1>10 DEF Next, Broker, Reading

(* The rest of the types. *)
BrokerTypes ==
  /\ pc \in {"idle", "launch", "accept", "write", "read", "eof"}
  /\ op \in {"snapshot", "discover"} /\ sel \in Selections \cup {{}}
  /\ conn \in {"none", "queued", "open", "shut"} /\ permission \in Permissions
  /\ store \in Stores /\ revision \in 0..MaxEdits /\ before \in 0..revision
HelperTypes == hpc \in {"none", "start", "request", "catch", "emit", "exit"} \cup Calls
CodeTypes == outcome.code \in Codes /\ said.code \in Codes /\ answer.code \in Codes
FlagTypes ==
  expired \in BOOLEAN /\ ordered \in BOOLEAN /\ asked \in BOOLEAN /\ checked \in BOOLEAN

LEMMA TypeParts == TypeOK <=> BrokerTypes /\ HelperTypes /\ CodeTypes /\ FlagTypes
                               /\ (op = "snapshot" => Cardinality(DOMAIN records) <= MaxContacts)
BY DEF TypeOK, BrokerTypes, HelperTypes, CodeTypes, FlagTypes

LEMMA BrokerTypesStep == BrokerTypes /\ [Next]_vars => BrokerTypes'
<1> SUFFICES ASSUME BrokerTypes, [Next]_vars PROVE BrokerTypes'
  OBVIOUS
<1> USE DEF BrokerTypes
<1>0. CASE Edit
  BY <1>0 DEF Edit, brokerVars, helperVars, readVars
<1>1. CASE ChangePermission \/ Expire \/ UNCHANGED vars
  BY <1>1 DEF ChangePermission, Expire, vars, storeVars, brokerVars, helperVars, readVars
<1>2. CASE Begin
  BY <1>2 DEF Begin, storeVars
<1>3. CASE Launched \/ Accept \/ AcceptFails \/ AcceptBreaks \/ WriteRequest \/ ReadAnswer \/ ReadEOF
  BY <1>3 DEF Launched, Accept, AcceptFails, AcceptBreaks, WriteRequest, ReadAnswer, ReadEOF, Proceed,
     Fails, Return, storeVars, helperVars, readVars
<1>4. CASE \/ HelperStarts \/ Connect \/ Watch \/ HelperDies \/ ReadRequest \/ Emit \/ Exit
  BY <1>4 DEF HelperStarts, Connect, Watch, HelperDies, ReadRequest, Emit, Exit, Gone, Helper,
     storeVars, brokerVars, readVars
<1>5. CASE Reading
  <2>1. UNCHANGED <<storeVars, permission, brokerVars, conn>>
    BY <1>5 DEF Reading, CheckPermission, CallThrows, Catch, NoToken, FirstToken, ReadContainers,
       ReadGroups, DiscoverGroups, ReadContacts, SecondToken, Throw, Helper
  <2>2. before' = before \/ before' = revision
    BY <1>5 DEF Reading, CheckPermission, CallThrows, Catch, NoToken, FirstToken, ReadContainers,
       ReadGroups, DiscoverGroups, ReadContacts, SecondToken, Throw, Helper, readVars
  <2> QED BY <2>1, <2>2 DEF storeVars, brokerVars
<1> QED BY <1>0, <1>1, <1>2, <1>3, <1>4, <1>5 DEF Next, Broker

LEMMA HelperTypesStep == HelperTypes /\ [Next]_vars => HelperTypes'
<1> SUFFICES ASSUME HelperTypes, [Next]_vars PROVE HelperTypes'
  OBVIOUS
<1> USE DEF HelperTypes, Calls
<1>1. CASE \/ Edit \/ ChangePermission \/ Expire \/ UNCHANGED vars \/ Begin
           \/ Launched \/ Accept \/ AcceptFails \/ AcceptBreaks \/ WriteRequest \/ ReadAnswer \/ ReadEOF
  BY <1>1 DEF Edit, ChangePermission, Expire, vars, Begin, Launched, Accept, AcceptFails,
     AcceptBreaks, WriteRequest, ReadAnswer, ReadEOF, helperVars
<1>2. CASE \/ HelperStarts \/ Connect \/ Watch \/ HelperDies \/ ReadRequest \/ Emit \/ Exit
  BY <1>2 DEF HelperStarts, Connect, Watch, HelperDies, ReadRequest, Emit, Exit, Gone, Helper
<1>3. CASE Reading
  BY <1>3 DEF Reading, CheckPermission, CallThrows, Catch, NoToken, FirstToken, ReadContainers,
     ReadGroups, DiscoverGroups, ReadContacts, SecondToken, Throw, Helper
<1> QED BY <1>1, <1>2, <1>3 DEF Next, Broker

LEMMA CodeTypesStep ==
  ASSUME TypeOK, ResultInv, [Next]_vars
  PROVE  CodeTypes'
<1> USE TypeParts DEF CodeTypes
<1>1. CASE Edit \/ ChangePermission \/ Expire \/ UNCHANGED vars
  BY <1>1 DEF Edit, ChangePermission, Expire, vars, brokerVars, helperVars, readVars
<1>2. CASE Begin
  BY <1>2 DEF Begin, Result, NoAnswer, Codes
<1>3. CASE Launched \/ Accept \/ AcceptFails \/ AcceptBreaks \/ WriteRequest \/ ReadAnswer \/ ReadEOF
  <2>1. UNCHANGED answer /\ said' \in {said, NoAnswer}
    BY <1>3 DEF Launched, Accept, AcceptFails, AcceptBreaks, WriteRequest, ReadAnswer, ReadEOF, Proceed,
       Fails, Return, helperVars
  <2>2. \/ outcome' \in {outcome, Result(said.code, said.data)}
        \/ \E code \in Codes : outcome' = Result(code, Nothing)
    BY <1>3 DEF Launched, Accept, AcceptFails, AcceptBreaks, WriteRequest, ReadAnswer, ReadEOF, Proceed,
       Fails, Return, TransportError, Codes
  <2> QED BY <2>1, <2>2 DEF Result, NoAnswer, Codes
<1>4. CASE HelperStarts \/ Connect \/ Watch \/ HelperDies \/ ReadRequest \/ Emit \/ Exit
  <2>1. outcome' = outcome /\ answer' \in {answer, NoAnswer}
        /\ said' \in {said, answer, Result("contacts_overflow", Nothing)}
    BY <1>4 DEF HelperStarts, Connect, Watch, HelperDies, ReadRequest, Emit, Exit, Gone, Helper, brokerVars
  <2> QED BY <2>1 DEF Result, NoAnswer, Codes
<1>5. CASE Reading
  <2>1. UNCHANGED <<outcome, said>>
    BY <1>5 DEF Reading, CheckPermission, CallThrows, Catch, NoToken, FirstToken, ReadContainers,
       ReadGroups, DiscoverGroups, ReadContacts, SecondToken, Throw, Helper, brokerVars
  <2>2. answer' = answer \/ answer' = Result("ok", records) \/ \E code \in Codes : Throw(code)
    BY <1>5, PermissionCodes DEF Reading, CheckPermission, CallThrows, Catch, NoToken, FirstToken,
       ReadContainers, ReadGroups, DiscoverGroups, ReadContacts, SecondToken, Codes
  <2> QED BY <2>1, <2>2 DEF Throw, Result, Codes
<1> QED BY <1>1, <1>2, <1>3, <1>4, <1>5 DEF Next, Broker

LEMMA FlagTypesStep == FlagTypes /\ [Next]_vars => FlagTypes'
<1> SUFFICES ASSUME FlagTypes, [Next]_vars PROVE FlagTypes'
  OBVIOUS
<1>1. expired' \in {expired, TRUE, FALSE} /\ ordered' \in {ordered, TRUE, FALSE}
      /\ asked' \in {asked, TRUE, FALSE} /\ checked' \in {checked, TRUE, FALSE}
  <2>1. CASE Edit \/ ChangePermission \/ Expire \/ UNCHANGED vars
    BY <2>1 DEF Edit, ChangePermission, Expire, vars, brokerVars, helperVars
  <2>2. CASE Begin
    BY <2>2 DEF Begin
  <2>3. CASE Launched \/ Accept \/ AcceptFails \/ AcceptBreaks \/ WriteRequest \/ ReadAnswer \/ ReadEOF
    BY <2>3 DEF Launched, Accept, AcceptFails, AcceptBreaks, WriteRequest, ReadAnswer, ReadEOF, Proceed,
       Fails, Return, helperVars
  <2>4. CASE HelperStarts \/ Connect \/ Watch \/ HelperDies \/ ReadRequest \/ Emit \/ Exit
    BY <2>4 DEF HelperStarts, Connect, Watch, HelperDies, ReadRequest, Emit, Exit, Gone, Helper, brokerVars
  <2>5. CASE Reading
    BY <2>5 DEF Reading, CheckPermission, CallThrows, Catch, NoToken, FirstToken, ReadContainers,
       ReadGroups, DiscoverGroups, ReadContacts, SecondToken, Throw, Helper, brokerVars
  <2> QED BY <2>1, <2>2, <2>3, <2>4, <2>5 DEF Next, Broker
<1> QED BY <1>1 DEF FlagTypes

LEMMA InvStep == IInv /\ [Next]_vars => IInv'
<1> SUFFICES ASSUME IInv, [Next]_vars PROVE IInv'
  OBVIOUS
<1>1. BrokerTypes /\ HelperTypes /\ CodeTypes /\ FlagTypes
  BY TypeParts DEF IInv
<1>2. BrokerTypes' /\ HelperTypes' /\ CodeTypes' /\ FlagTypes'
  BY <1>1, BrokerTypesStep, HelperTypesStep, CodeTypesStep, FlagTypesStep DEF IInv
<1>3. CardsInv'
  BY CardsStep
<1>4. TypeOK'
  BY <1>2, <1>3 DEF CardsInv, TypeOK, BrokerTypes, HelperTypes, CodeTypes, FlagTypes
<1> QED BY <1>3, <1>4, ReadStep, ResultStep DEF IInv, FiniteInv, CardsInv

-----------------------------------------------------------------------------
LEMMA Invariance == Spec => []IInv
BY InitIInv, InvStep, PTL DEF Spec

(* An exchange keeps to its types, and a snapshot never holds more than
   max_contacts cards, whatever the lists overlap in (ContactsCore.swift:
   snapshot).                                                               *)
THEOREM ExchangeTypes == Spec => []TypeOK
BY Invariance, PTL DEF IInv

(* What a Contacts exchange returns as a success was the whole selection at
   the moment of the first history token, however the store was edited while
   it was read (ContactsCore.swift: snapshot, discover; desktop.go:
   exchangeDesktop).                                                        *)
THEOREM SnapshotOfOneInstant == Spec => []OneInstant
<1>1. IInv => OneInstant
  BY DEF IInv, ResultInv, OutcomeInv, OneInstant
<1> QED BY <1>1, Invariance, PTL
=============================================================================
