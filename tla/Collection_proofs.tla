-------------------------- MODULE Collection_proofs -------------------------
(***************************************************************************)
(* The safety properties of Collection, for every database, policy, page   *)
(* limit and bound: the invariant IInv is inductive and implies them, and  *)
(* under it every step is a step of InsertionFeed.                         *)
(***************************************************************************)
EXTENDS Collection, CollectionPage_proofs

USE ClassAssumption, LimitAssumption, CapAssumption, StartAssumption, BoundAssumption

(* A cursor the client can present is one Process.Collect's guard takes. *)
LEMMA ArgumentsOfCursor ==
  ASSUME IInv, pc # "idle"
  PROVE  /\ req.cursor.row \in Nat
         /\ EffectiveThrough(req.cursor) \in Nat
         /\ EffectiveNotBefore(req.cursor) \in BOOLEAN
         /\ EffectiveThrough(req.cursor) # 0 =>
              EffectiveThrough(req.cursor) >= req.cursor.row
         /\ ScanLimit \in Nat \ {0}
BY DEF IInv, TypeOK, RequestInv, SavedInv, CursorAccepted, EffectiveThrough,
       EffectiveNotBefore, ScanLimit, Cursor

LEMMA InitInv == Init => IInv
BY DEF Init, IInv, TypeOK, SavedInv, RequestInv, PageInv, ReplyInv, PolicyInv,
       PagesAgree, NoSkip, RowsOK, NoRows, NoPage, NoCursor, NoRequest, Failure,
       Codes, Seeded, Answered, Scanned, Working

-----------------------------------------------------------------------------
(* What a step of the environment may do: rows it leaves behind are old rows
   unchanged or new ones above every row used so far, or the database is
   another one. Nothing of the request or the client changes.               *)
EnvironmentStep ==
  /\ UNCHANGED <<openGen, pc, req, page, reply, saved, journal, start, horizon>>
  /\ denied \subseteq denied' /\ inForce \subseteq inForce'
  /\ dbGen' \in Nat
  /\ \/ /\ dbGen' = dbGen /\ lastRow' \in Nat /\ lastRow <= lastRow'
        /\ \A r \in DOMAIN rows' :
             \/ r \in DOMAIN rows /\ rows'[r] = rows[r]
             \/ r \in Nat /\ r > lastRow
     \/ dbGen' > dbGen

LEMMA EnvironmentInv ==
  ASSUME IInv, EnvironmentStep
  PROVE  SavedInv' /\ RequestInv' /\ PageInv' /\ ReplyInv' /\ PagesAgree' /\ NoSkip'
<1> USE DEF EnvironmentStep
<1>0. /\ dbGen \in Nat /\ dbGen' \in Nat /\ lastRow \in Nat /\ dbGen <= dbGen'
      /\ start \in Nat /\ horizon \in Nat
  BY DEF IInv, TypeOK
<1>1. ASSUME NEW gen \in Nat, NEW low \in Nat, NEW through \in Nat,
             gen <= dbGen, Bounded(gen, low, through)
      PROVE  gen = dbGen' => through <= low \/ through <= lastRow'
  BY <1>0, <1>1 DEF Bounded
<1>2. Seeded' = Seeded /\ Answered' = Answered
  BY DEF Seeded, Answered
<1>3. SavedInv'
  <2>1. CASE Seeded
    <3>1. /\ saved \in Cursor /\ saved.gen \in Nat /\ saved.through \in Nat
          /\ saved.gen <= dbGen /\ Bounded(saved.gen, start, saved.through)
      BY <2>1 DEF IInv, SavedInv, Cursor
    <3>2. saved.gen = dbGen' => saved.through <= start \/ saved.through <= lastRow'
      BY <3>1, <1>0, <1>1
    <3>3. saved.gen <= dbGen'
      BY <3>1, <1>0
    <3> QED BY <2>1, <3>2, <3>3, <1>2 DEF IInv, SavedInv, Bounded, CursorAccepted
  <2>2. CASE ~Seeded
    BY <2>2, <1>2 DEF IInv, SavedInv
  <2> QED BY <2>1, <2>2
<1>4. RequestInv'
  <2>1. pc # "idle" => req.cursor.gen <= dbGen'
    BY <1>0 DEF IInv, RequestInv, Cursor
  <2> QED BY <2>1, <1>2 DEF IInv, RequestInv, CursorAccepted, Working
<1>5. ASSUME pc \in Scanned \/ Answered
      PROVE  /\ page.gen \in Nat /\ page.gen <= dbGen /\ page.through \in Nat
             /\ page.scanned \in Nat /\ page.scanned <= page.through
             /\ req.cursor \in Cursor /\ req.cursor.row \in Nat
             /\ req.cursor.gen \in Nat /\ req.cursor.gen <= dbGen
             /\ Low \in Nat /\ Low <= req.cursor.row
             /\ page.gen = req.cursor.gen => Bounded(page.gen, Low, page.through)
  BY <1>5 DEF IInv, TypeOK, PageInv, RequestInv, SavedInv, Low, Seeded, Scanned,
              Answered, Cursor
<1>6. ASSUME pc \in Scanned \/ Answered, page.gen = dbGen', req.cursor.gen = dbGen'
      PROVE  /\ page.gen = dbGen /\ req.cursor.gen = dbGen
             /\ \A r \in DOMAIN rows' : InPage(r) =>
                  r \in DOMAIN rows /\ rows'[r] = rows[r]
  <2>1. page.gen = dbGen /\ req.cursor.gen = dbGen /\ dbGen' = dbGen
    BY <1>0, <1>5, <1>6
  <2>2. page.through <= Low \/ page.through <= lastRow
    BY <2>1, <1>5, <1>6 DEF Bounded
  <2>3. ASSUME NEW r \in DOMAIN rows', InPage(r)
        PROVE  r \in DOMAIN rows /\ rows'[r] = rows[r]
    <3>1. CASE r \in Nat /\ r > lastRow
      BY <3>1, <2>2, <2>3, <1>0, <1>5, <1>6 DEF InPage
    <3> QED BY <3>1, <2>1, <1>0
  <2> QED BY <2>1, <2>3
<1>7. PageInv'
  <2> SUFFICES ASSUME pc \in Scanned \/ Answered PROVE PageInv'
    BY <1>2 DEF PageInv, Scanned
  <2>1. page.gen <= dbGen' /\ Low' = Low
    BY <1>0, <1>2, <1>5 DEF Low
  <2>2. page.gen = req.cursor.gen =>
          (page.gen = dbGen' => page.through <= Low \/ page.through <= lastRow')
    BY <1>1, <1>5
  <2>3. page.gen = dbGen' /\ req.cursor.gen = dbGen' =>
          \A r \in DOMAIN rows' :
            InPage(r) /\ (EffectiveNotBefore(req.cursor) => Selectable(rows'[r])) =>
              r \in DOMAIN page.rows /\ page.rows[r] = rows'[r]
    BY <1>6 DEF IInv, PageInv
  <2> QED BY <2>1, <2>2, <2>3 DEF IInv, PageInv, Bounded, InPage
<1>8. ReplyInv'
  <2> SUFFICES ASSUME Answered PROVE ReplyInv'
    BY <1>2 DEF ReplyInv
  <2>1. page.gen = req.cursor.gen
    BY DEF IInv, PageInv, Answered
  <2>2. page.gen = dbGen' =>
          \A r \in DOMAIN rows' :
            /\ InPage(r)
            /\ rows'[r].kind = "text" /\ rows'[r].chat \notin denied'
            /\ EffectiveNotBefore(req.cursor) => rows'[r].recent
            => r \in reply.messages
    BY <2>1, <1>6 DEF IInv, ReplyInv
  <2> QED BY <2>2 DEF IInv, ReplyInv, InPage
<1>9. PagesAgree'
  BY DEF IInv, PagesAgree, PageOK, ScanLimit
<1>10. NoSkip'
  <2> SUFFICES ASSUME Seeded, saved.gen = dbGen', NEW r \in DOMAIN rows',
                      r <= saved.row, Owed(r)'
               PROVE  r \in journal
    BY <1>2 DEF NoSkip
  <2>1. /\ saved.gen \in Nat /\ saved.through \in Nat /\ saved.row \in Nat
        /\ saved.row <= saved.through /\ saved.gen <= dbGen
        /\ Bounded(saved.gen, start, saved.through)
    BY DEF IInv, SavedInv, Cursor, CursorAccepted
  <2>2. dbGen' = dbGen /\ (saved.through <= start \/ saved.through <= lastRow)
    BY <2>1, <1>0 DEF Bounded
  <2>3. r \in DOMAIN rows /\ rows'[r] = rows[r]
    <3>1. CASE r \in Nat /\ r > lastRow
      BY <3>1, <2>1, <2>2, <1>0 DEF Owed
    <3> QED BY <3>1, <2>2, <1>0
  <2>4. Owed(r)
    BY <2>3 DEF Owed
  <2> QED BY <2>2, <2>3, <2>4 DEF IInv, NoSkip
<1> QED BY <1>3, <1>4, <1>7, <1>8, <1>9, <1>10

LEMMA EnvironmentActions ==
  ASSUME IInv, Environment
  PROVE  IInv'
<1> USE DEF dbVars, policyVars, reqVars, clientVars
<1>1. ASSUME NEW class \in RowClasses, Insert(class) PROVE IInv'
  <2>1. /\ lastRow \in Nat /\ lastRow' = lastRow + 1 /\ dbGen' = dbGen
        /\ DOMAIN rows' = DOMAIN rows \cup {lastRow + 1}
        /\ \A r \in DOMAIN rows : r \in Nat /\ r <= lastRow /\ rows'[r] = rows[r]
        /\ rows'[lastRow + 1] = class
    BY <1>1 DEF IInv, TypeOK, Insert
  <2>2. TypeOK'
    BY <1>1, <2>1 DEF IInv, TypeOK, RowsOK, Insert
  <2>3. EnvironmentStep
    BY <1>1, <2>1 DEF IInv, TypeOK, Insert, EnvironmentStep
  <2>4. PolicyInv'
    BY <1>1 DEF IInv, PolicyInv, Insert
  <2> QED BY <2>2, <2>3, <2>4, EnvironmentInv DEF IInv
<1>2. ASSUME NEW r \in DOMAIN rows, Delete(r) PROVE IInv'
  <2>1. /\ DOMAIN rows' = DOMAIN rows \ {r}
        /\ \A q \in DOMAIN rows' : rows'[q] = rows[q]
    BY <1>2 DEF Delete
  <2>2. TypeOK'
    BY <1>2, <2>1 DEF IInv, TypeOK, RowsOK, Delete
  <2>3. EnvironmentStep
    BY <1>2, <2>1 DEF IInv, TypeOK, Delete, EnvironmentStep
  <2>4. PolicyInv'
    BY <1>2 DEF IInv, PolicyInv, Delete
  <2> QED BY <2>2, <2>3, <2>4, EnvironmentInv DEF IInv
<1>3. ASSUME ReplaceDatabase PROVE IInv'
  <2>1. dbGen \in Nat /\ dbGen' \in Nat /\ dbGen' > dbGen
    BY <1>3 DEF IInv, TypeOK, ReplaceDatabase
  <2>2. TypeOK'
    <3>1. dbGen \in Nat /\ MaxGen \in Nat /\ MaxRow \in Nat
      BY DEF IInv, TypeOK
    <3>2. dbGen' \in 0..MaxGen /\ openGen' \in 0..dbGen'
      BY <1>3, <3>1 DEF IInv, TypeOK, ReplaceDatabase
    <3>3. RowsOK(rows') /\ DOMAIN rows' \subseteq 1..lastRow' /\ lastRow' \in 0..MaxRow
      BY <1>3, <3>1 DEF RowsOK, ReplaceDatabase, NoRows
    <3> QED BY <1>3, <3>2, <3>3 DEF IInv, TypeOK, RowsOK, ReplaceDatabase
  <2>3. EnvironmentStep
    BY <1>3, <2>1 DEF IInv, TypeOK, ReplaceDatabase, EnvironmentStep
  <2>4. PolicyInv'
    BY <1>3 DEF IInv, PolicyInv, ReplaceDatabase
  <2> QED BY <2>2, <2>3, <2>4, EnvironmentInv DEF IInv
<1>4. ASSUME NEW grants \in SUBSET Chats, SetPolicy(grants) PROVE IInv'
  <2>1. TypeOK'
    BY <1>4 DEF IInv, TypeOK, RowsOK, SetPolicy
  <2>2. EnvironmentStep
    BY <1>4 DEF IInv, TypeOK, SetPolicy, EnvironmentStep
  <2>3. PolicyInv'
    BY <1>4 DEF IInv, PolicyInv, SetPolicy
  <2> QED BY <2>1, <2>2, <2>3, EnvironmentInv DEF IInv
<1>5. ASSUME PolicyOutage PROVE IInv'
  <2>1. TypeOK'
    <3>1. faults' \in 0..MaxFaults
      BY <1>5 DEF IInv, TypeOK, PolicyOutage, Fault
    <3> QED BY <1>5, <3>1 DEF IInv, TypeOK, RowsOK, PolicyOutage
  <2>2. EnvironmentStep
    BY <1>5 DEF IInv, TypeOK, PolicyOutage, EnvironmentStep
  <2>3. PolicyInv'
    BY <1>5 DEF IInv, PolicyInv, PolicyOutage
  <2> QED BY <2>1, <2>2, <2>3, EnvironmentInv DEF IInv
<1> QED BY <1>1, <1>2, <1>3, <1>4, <1>5 DEF Environment

-----------------------------------------------------------------------------
(* The broker changes neither the database nor the client. *)
LEMMA StoreKept ==
  ASSUME IInv, UNCHANGED <<dbVars, denied, clientVars>>
  PROVE  SavedInv' /\ NoSkip'
BY DEF IInv, SavedInv, NoSkip, dbVars, clientVars, Seeded, Bounded, CursorAccepted, Owed

(* An error response carries nothing. *)
LEMMA RefuseInv ==
  ASSUME IInv, pc # "idle", NEW code \in Codes, Refuse(code),
         faults' \in 0..MaxFaults
  PROVE  IInv'
<1> USE DEF Refuse, Failure, dbVars, policyVars, clientVars
<1>1. SavedInv' /\ NoSkip'
  BY StoreKept
<1>2. TypeOK'
  BY DEF IInv, TypeOK, RowsOK, NoPage, NoRows, Working
<1>3. RequestInv'
  BY DEF IInv, RequestInv, Seeded, CursorAccepted, Working
<1>4. PageInv' /\ ReplyInv' /\ PolicyInv' /\ PagesAgree'
  BY DEF IInv, PageInv, ReplyInv, PolicyInv, PagesAgree, Answered, Scanned
<1> QED BY <1>1, <1>2, <1>3, <1>4 DEF IInv

(* When a request ends, its locals are gone and the rest must hold alone. *)
LEMMA EndRequestInv ==
  ASSUME TypeOK, EndRequest, UNCHANGED <<dbVars, policyVars>>,
         Chats \ granted \subseteq denied,
         openGen' \in 0..dbGen, faults' \in 0..MaxFaults,
         saved' \in Cursor \cup {NoCursor}, journal' \subseteq 1..MaxRow,
         start' \in Nat, horizon' \in Nat
  PROVE  TypeOK' /\ RequestInv' /\ PageInv' /\ ReplyInv' /\ PolicyInv' /\ PagesAgree'
<1> USE DEF EndRequest, Failure, dbVars, policyVars
<1>1. TypeOK'
  BY DEF TypeOK, RowsOK, NoPage, NoRows, NoRequest, Codes
<1>2. RequestInv' /\ PageInv' /\ ReplyInv' /\ PolicyInv' /\ PagesAgree'
  BY DEF RequestInv, PageInv, ReplyInv, PolicyInv, PagesAgree, Answered, Scanned
<1> QED BY <1>1, <1>2

-----------------------------------------------------------------------------
LEMMA AcceptInv ==
  ASSUME IInv, Accept
  PROVE  IInv'
<1> USE DEF dbVars, policyVars, reqVars, clientVars
<1>1. pc = "accept" /\ pc # "idle"
  BY DEF Accept
<1>2. ASSUME NEW code \in Codes, Fail(code) PROVE IInv'
  BY <1>1, <1>2, RefuseInv DEF Fail, IInv, TypeOK
<1>3. CASE /\ Admissible /\ policyUp /\ pc' = "begin" /\ loaded' = granted
           /\ UNCHANGED <<dbVars, openGen, policyVars, req, page, inForce, reply,
                          clientVars, faults>>
  <2>1. SavedInv' /\ NoSkip'
    BY <1>3, StoreKept
  <2>2. TypeOK'
    BY <1>3 DEF IInv, TypeOK, RowsOK, Working
  <2>3. RequestInv'
    BY <1>1, <1>3 DEF IInv, RequestInv, Seeded, CursorAccepted, Admissible
  <2>4. PageInv' /\ ReplyInv' /\ PolicyInv' /\ PagesAgree'
    BY <1>3 DEF IInv, PageInv, ReplyInv, PolicyInv, PagesAgree, Answered, Scanned
  <2> QED BY <2>1, <2>2, <2>3, <2>4 DEF IInv
<1> QED BY <1>2, <1>3 DEF Accept, Codes

LEMMA BeginReadInv ==
  ASSUME IInv, BeginRead
  PROVE  IInv'
<1> USE DEF dbVars, policyVars, reqVars, clientVars
<1>1. CASE Fail("backend_unavailable")
  BY <1>1, RefuseInv DEF Fail, BeginRead, IInv, TypeOK, Codes
<1>2. CASE /\ pc' = "scan"
           /\ UNCHANGED <<dbVars, openGen, policyVars, reqVars, clientVars, faults>>
  <2>1. SavedInv' /\ NoSkip'
    BY <1>2, StoreKept
  <2>2. TypeOK'
    BY <1>2 DEF IInv, TypeOK, RowsOK, Working
  <2>3. RequestInv'
    BY <1>2 DEF IInv, RequestInv, Seeded, CursorAccepted, BeginRead, Working
  <2>4. PageInv' /\ ReplyInv' /\ PolicyInv' /\ PagesAgree'
    BY <1>2 DEF IInv, PageInv, ReplyInv, PolicyInv, PagesAgree, Answered, Scanned
  <2> QED BY <2>1, <2>2, <2>3, <2>4 DEF IInv
<1> QED BY <1>1, <1>2 DEF BeginRead

LEMMA EndReadInv ==
  ASSUME IInv, EndRead
  PROVE  IInv'
<1> USE DEF dbVars, policyVars, reqVars, clientVars
<1>1. CASE Fail("backend_unavailable")
  BY <1>1, RefuseInv DEF Fail, EndRead, IInv, TypeOK, Codes
<1>2. CASE /\ ExitAccepted
           /\ pc' = "serialize" /\ inForce' = IF policyUp THEN granted ELSE {}
           /\ UNCHANGED <<dbVars, openGen, policyVars, req, page, loaded, reply,
                          clientVars, faults>>
  <2>0. pc = "check"
    BY DEF EndRead
  <2>1. SavedInv' /\ NoSkip'
    BY <1>2, StoreKept
  <2>2. TypeOK'
    BY <1>2 DEF IInv, TypeOK, RowsOK, Working
  <2>3. RequestInv'
    BY <1>2, <2>0 DEF IInv, RequestInv, Seeded, CursorAccepted, Working
  <2>4. page.gen = req.cursor.gen
    <3>1. openGen <= page.gen /\ page.gen <= dbGen /\ req.cursor.gen = openGen
      BY <2>0 DEF IInv, PageInv, RequestInv, Scanned, Working
    <3>2. dbGen = openGen /\ dbGen \in Nat /\ page.gen \in Nat
      BY <1>2 DEF IInv, TypeOK, ExitAccepted
    <3> QED BY <3>1, <3>2
  <2>5. PageInv'
    BY <1>2, <2>0, <2>4 DEF IInv, PageInv, Answered, Scanned, Low, Seeded, Bounded, InPage
  <2>6. ReplyInv' /\ PolicyInv' /\ PagesAgree'
    BY <1>2 DEF IInv, ReplyInv, PolicyInv, PagesAgree, Answered
  <2> QED BY <2>1, <2>2, <2>3, <2>5, <2>6 DEF IInv
<1> QED BY <1>1, <1>2 DEF EndRead

LEMMA TimeoutInv ==
  ASSUME IInv, Timeout
  PROVE  IInv'
<1>1. faults' \in 0..MaxFaults
  BY DEF IInv, TypeOK, Timeout, Fault
<1>2. pc # "idle" /\ Refuse("backend_timeout")
  BY DEF Timeout, Working
<1> QED BY <1>1, <1>2, RefuseInv DEF Codes

(* The child's transaction: the page is a page of the database then present. *)
LEMMA ScanInv ==
  ASSUME IInv, Scan
  PROVE  IInv'
<1> USE DEF dbVars, policyVars, reqVars, clientVars
<1> DEFINE c == req.cursor
           through   == EffectiveThrough(c)
           notBefore == EffectiveNotBefore(c)
           p == ScanPage(rows, c.row, through, ScanLimit, notBefore)
<1>0. pc = "scan" /\ pc # "idle"
  BY DEF Scan
<1>1. CASE Fail("backend_unavailable")
  BY <1>0, <1>1, RefuseInv DEF Fail, IInv, TypeOK, Codes
<1>2. CASE /\ page' = [rows |-> p.rows, through |-> p.through, scanned |-> p.scanned,
                       complete |-> p.complete, gen |-> dbGen]
           /\ pc' = "check"
           /\ UNCHANGED <<dbVars, openGen, policyVars, req, loaded, inForce, reply,
                          clientVars, faults>>
  <2>1. /\ c \in Cursor /\ c.row \in Nat /\ through \in Nat /\ notBefore \in BOOLEAN
        /\ through # 0 => through >= c.row
        /\ ScanLimit \in Nat \ {0}
        /\ c.gen = openGen
    BY <1>0, ArgumentsOfCursor DEF IInv, RequestInv, Working
  <2>2. /\ RowsOK(rows) /\ DOMAIN rows \in SUBSET Nat /\ lastRow \in Nat
        /\ \A r \in DOMAIN rows : r <= lastRow
        /\ dbGen \in Nat /\ openGen <= dbGen
    BY DEF IInv, TypeOK
  <2> DEFINE upper == Upper(rows, c.row, through)
  <2>3. PageFacts(p, rows, c.row, through, notBefore)
        /\ ValidPage(p, c.row, through, ScanLimit)
    <3> HIDE DEF through, notBefore
    <3> QED BY <2>1, <2>2, ScanPageFacts
  <2>4. /\ upper \in Nat /\ c.row <= upper
        /\ through # 0 => upper = through
        /\ through = 0 => upper = c.row \/ upper <= lastRow
    <3> HIDE DEF through
    <3> QED BY <2>1, <2>2, UpperBounds
  <2> HIDE DEF p, through, notBefore, upper
  <2>5. /\ p.through = upper /\ p.complete \in BOOLEAN
        /\ p.scanned \in Nat /\ c.row <= p.scanned /\ p.scanned <= upper
        /\ p.complete <=> p.scanned = upper
        /\ ~p.complete => c.row < p.scanned
        /\ DOMAIN p.rows \subseteq DOMAIN rows
    BY <2>3 DEF PageFacts, upper
  <2>6. \A r \in DOMAIN p.rows : /\ c.row < r /\ r <= p.scanned /\ p.rows[r] = rows[r]
                                 /\ (notBefore => Selectable(rows[r]))
    BY <2>3 DEF PageFacts
  <2>7. \A r \in DOMAIN rows : c.row < r /\ r <= p.scanned
                               /\ (notBefore => Selectable(rows[r])) => r \in DOMAIN p.rows
    BY <2>3 DEF PageFacts
  <2>8. /\ page'.rows = p.rows /\ page'.through = upper /\ page'.scanned = p.scanned
        /\ page'.complete = p.complete /\ page'.gen = dbGen
        /\ req' = req /\ rows' = rows /\ dbGen' = dbGen /\ openGen' = openGen
        /\ lastRow' = lastRow /\ Low' = Low /\ pc' = "check"
    BY <1>2, <2>5 DEF Low, Seeded
  <2>9. SavedInv' /\ NoSkip'
    BY <1>2, StoreKept
  <2>10. TypeOK'
    <3>1. RowsOK(p.rows)
      BY <2>2, <2>5, <2>6 DEF RowsOK
    <3>2. /\ RowsOK(page'.rows) /\ page'.through \in Nat /\ page'.scanned \in Nat
          /\ page'.complete \in BOOLEAN /\ page'.gen \in Nat
      BY <2>2, <2>4, <2>5, <2>8, <3>1
    <3>3. RowsOK(page.rows)'
      BY <3>2 DEF RowsOK
    <3> QED BY <1>2, <3>2, <3>3 DEF IInv, TypeOK, RowsOK, Working
  <2>11. RequestInv'
    BY <1>0, <1>2 DEF IInv, RequestInv, Seeded, CursorAccepted, Working
  <2>12. c.gen = dbGen => upper <= Low \/ upper <= lastRow
    <3>1. CASE through = 0
      <4>1. CASE upper <= lastRow
        BY <4>1
      <4>2. CASE upper = c.row /\ ~Seeded
        BY <2>1, <4>2 DEF Low
      <4>3. CASE upper = c.row /\ Seeded
        <5>1. c = saved /\ saved \in Cursor /\ saved.row <= saved.through
              /\ saved.row \in Nat /\ saved.through \in Nat /\ start \in Nat
              /\ Bounded(saved.gen, start, saved.through)
          BY <1>0, <4>3 DEF IInv, TypeOK, RequestInv, SavedInv, CursorAccepted, Cursor
        <5> QED BY <5>1, <4>3, <2>2 DEF Bounded, Low
      <4> QED BY <2>4, <3>1, <4>1, <4>2, <4>3
    <3>2. CASE through # 0
      <4>1. Seeded
        BY <1>0, <3>2 DEF IInv, RequestInv, EffectiveThrough, through
      <4>2. c = saved /\ through = saved.through /\ Bounded(saved.gen, start, saved.through)
        BY <1>0, <4>1, <3>2 DEF IInv, RequestInv, SavedInv, EffectiveThrough, through
      <4> QED BY <4>1, <4>2, <2>4, <3>2 DEF Bounded, Low
    <3> QED BY <3>1, <3>2
  <2>13. PageInv'
    <3>1. \A r \in DOMAIN p.rows : notBefore => p.rows[r].recent
      BY <2>6 DEF Selectable
    <3> QED BY <2>1, <2>2, <2>4, <2>5, <2>6, <2>7, <2>8, <2>12, <3>1
            DEF PageInv, Answered, Scanned, Bounded, InPage, through, notBefore
  <2>14. PagesAgree'
    <3>1. ValidPage(page', c.row, through, ScanLimit)
      BY <2>3, <2>5, <2>8 DEF ValidPage
    <3> QED BY <2>8, <3>1 DEF PagesAgree, PageOK, ScanLimit, through
  <2>15. ReplyInv' /\ PolicyInv'
    BY <1>2 DEF IInv, ReplyInv, PolicyInv, Answered
  <2> QED BY <2>9, <2>10, <2>11, <2>13, <2>14, <2>15 DEF IInv
<1> QED BY <1>1, <1>2 DEF Scan

(* The response: exactly the exposed rows of the page, under the reloaded
   policy, with the cursor that follows the page.                           *)
LEMMA SerializeInv ==
  ASSUME IInv, Serialize
  PROVE  IInv'
<1> USE DEF dbVars, policyVars, reqVars, clientVars
<1>0. pc = "serialize" /\ pc # "idle"
  BY DEF Serialize
<1>1. ASSUME NEW code \in Codes, Fail(code) PROVE IInv'
  BY <1>0, <1>1, RefuseInv DEF Fail, IInv, TypeOK
<1> DEFINE messages == Exposed(ReloadedPolicy)
<1>2. CASE /\ policyUp /\ pc' = "sent" /\ loaded' = ReloadedPolicy
           /\ reply' = [ok |-> TRUE, code |-> "none", messages |-> messages,
                        cursor |-> NextCursor(req.cursor, page)]
           /\ UNCHANGED <<dbVars, openGen, policyVars, req, page, inForce,
                          clientVars, faults>>
  <2>1. /\ messages \subseteq DOMAIN page.rows
        /\ \A r \in DOMAIN page.rows :
             r \in messages <=> page.rows[r].kind = "text" /\ page.rows[r].chat \in granted
    BY DEF Exposed, ReloadedPolicy
  <2> HIDE DEF messages
  <2>2. /\ req.cursor \in Cursor
        /\ page.through \in Nat /\ page.scanned \in Nat /\ page.complete \in BOOLEAN
        /\ page.gen = req.cursor.gen
    BY <1>0 DEF IInv, TypeOK, RequestInv, PageInv, Scanned
  <2>3. NextCursor(req.cursor, page) \in Cursor
    BY <2>2 DEF NextCursor, Cursor, Forms
  <2>4. SavedInv' /\ NoSkip'
    BY <1>2, StoreKept
  <2>5. TypeOK'
    <3>1. messages \subseteq 1..MaxRow /\ granted \subseteq Chats
      BY <2>1 DEF IInv, TypeOK, RowsOK
    <3>2. loaded' \subseteq Chats
      BY <1>2, <3>1 DEF ReloadedPolicy
    <3>3. /\ reply'.ok \in BOOLEAN /\ reply'.code \in Codes
          /\ reply'.messages \subseteq 1..MaxRow /\ reply'.cursor \in Cursor \cup {NoCursor}
      BY <1>2, <2>3, <3>1 DEF Codes
    <3> QED BY <1>2, <3>2, <3>3 DEF IInv, TypeOK, RowsOK, Working
  <2>6. RequestInv'
    BY <1>0, <1>2 DEF IInv, RequestInv, Seeded, CursorAccepted, Working
  <2>7. PageInv'
    BY <1>0, <1>2 DEF IInv, PageInv, Answered, Scanned, Low, Seeded, Bounded, InPage
  <2>8. ReplyInv'
    <3>1. ASSUME NEW r \in messages PROVE page.rows[r].chat \in inForce
      BY <1>0, <1>2, <2>1, <3>1 DEF IInv, PolicyInv
    <3>2. ASSUME page.gen = dbGen, NEW r \in DOMAIN rows, InPage(r),
                 rows[r].kind = "text", rows[r].chat \notin denied,
                 EffectiveNotBefore(req.cursor) => rows[r].recent
          PROVE  r \in messages
      <4>1. EffectiveNotBefore(req.cursor) => Selectable(rows[r])
        BY <3>2 DEF Selectable
      <4>2. r \in DOMAIN page.rows /\ page.rows[r] = rows[r]
        BY <1>0, <2>2, <3>2, <4>1 DEF IInv, PageInv, Scanned
      <4>3. rows[r].chat \in granted
        BY <3>2 DEF IInv, TypeOK, RowsOK, PolicyInv, Row
      <4> QED BY <2>1, <3>2, <4>2, <4>3
    <3>3. /\ reply'.cursor = NextCursor(req.cursor, page) /\ reply'.messages = messages
          /\ req' = req /\ page' = page
      BY <1>2
    <3> QED BY <1>2, <2>1, <3>1, <3>2, <3>3 DEF ReplyInv, InPage, NextCursor
  <2>9. PolicyInv' /\ PagesAgree'
    BY <1>2 DEF IInv, PolicyInv, PagesAgree
  <2> QED BY <2>4, <2>5, <2>6, <2>7, <2>8, <2>9 DEF IInv
<1> QED BY <1>1, <1>2 DEF Serialize, Codes

LEMMA FaultCounted == ASSUME IInv, Fault PROVE faults' \in 0..MaxFaults
BY DEF IInv, TypeOK, Fault

LEMMA RestartInv ==
  ASSUME IInv, Restart
  PROVE  IInv'
<1> USE DEF dbVars, policyVars, clientVars
<1>1. SavedInv' /\ NoSkip'
  BY StoreKept DEF Restart
<1>2. openGen' \in 0..dbGen
  BY DEF IInv, TypeOK, Restart
<1>3. TypeOK' /\ RequestInv' /\ PageInv' /\ ReplyInv' /\ PolicyInv' /\ PagesAgree'
  BY <1>2, FaultCounted, EndRequestInv DEF Restart, IInv, TypeOK, PolicyInv
<1> QED BY <1>1, <1>3 DEF IInv

LEMMA GiveUpInv ==
  ASSUME IInv, GiveUp
  PROVE  IInv'
<1> USE DEF dbVars, policyVars, clientVars
<1>1. SavedInv' /\ NoSkip'
  BY StoreKept DEF GiveUp
<1>2. TypeOK' /\ RequestInv' /\ PageInv' /\ ReplyInv' /\ PolicyInv' /\ PagesAgree'
  BY FaultCounted, EndRequestInv DEF GiveUp, IInv, TypeOK, PolicyInv
<1> QED BY <1>1, <1>2 DEF IInv

LEMMA RequestActionInv ==
  ASSUME IInv, NEW limit \in Limits, Request(limit)
  PROVE  IInv'
<1> USE DEF dbVars, policyVars, clientVars
<1>1. SavedInv' /\ NoSkip'
  BY StoreKept DEF Request
<1>2. PICK c \in IF Seeded THEN {saved} ELSE Seeds :
           req' = [cursor |-> c, limit |-> limit]
  BY DEF Request
<1>3. /\ c \in Cursor /\ c.gen <= dbGen
      /\ Seeded => c = saved
      /\ ~Seeded => /\ c.form \in {"initial", "v1"} /\ CursorAccepted(c)
                    /\ c.through = 0 /\ ~c.complete
                    /\ c.notBefore => c.row = 0
  <2>1. CASE Seeded
    BY <2>1, <1>2 DEF IInv, SavedInv
  <2>2. CASE ~Seeded
    <3>1. openGen \in Nat /\ openGen <= dbGen
      BY DEF IInv, TypeOK
    <3>2. \/ \E a \in Starts : c = InitialCursor(openGen, a, FALSE)
          \/ c = InitialCursor(openGen, 0, TRUE)
          \/ \E a \in Starts \ {0} : c = LegacyCursor(openGen, a)
      <4>1. c \in Seeds
        BY <2>2, <1>2
      <4> QED BY <4>1 DEF Seeds
    <3>3. ASSUME NEW a \in Starts, c = InitialCursor(openGen, a, FALSE)
          PROVE  /\ c \in Cursor /\ c.gen = openGen /\ c.form \in {"initial", "v1"}
                 /\ CursorAccepted(c) /\ c.through = 0 /\ ~c.complete /\ ~c.notBefore
      BY <3>1, <3>3 DEF InitialCursor, Cursor, Forms, CursorAccepted
    <3>4. ASSUME c = InitialCursor(openGen, 0, TRUE)
          PROVE  /\ c \in Cursor /\ c.gen = openGen /\ c.form \in {"initial", "v1"}
                 /\ CursorAccepted(c) /\ c.through = 0 /\ ~c.complete /\ c.row = 0
      BY <3>1, <3>4 DEF InitialCursor, Cursor, Forms, CursorAccepted
    <3>5. ASSUME NEW a \in Starts \ {0}, c = LegacyCursor(openGen, a)
          PROVE  /\ c \in Cursor /\ c.gen = openGen /\ c.form \in {"initial", "v1"}
                 /\ CursorAccepted(c) /\ c.through = 0 /\ ~c.complete /\ ~c.notBefore
      BY <3>1, <3>5 DEF LegacyCursor, Cursor, Forms, CursorAccepted
    <3> QED BY <2>2, <3>1, <3>2, <3>3, <3>4, <3>5
  <2> QED BY <2>1, <2>2
<1>4. req'.cursor = c /\ req'.limit \in Nat \ {0} /\ pc' = "accept" /\ pc = "idle"
  BY <1>2 DEF Request
<1>5. TypeOK'
  BY <1>3, <1>4 DEF IInv, TypeOK, RowsOK, Request
<1>6. RequestInv'
  BY <1>3, <1>4 DEF RequestInv, Seeded, CursorAccepted, Working, Request
<1>7. PageInv' /\ ReplyInv' /\ PolicyInv' /\ PagesAgree'
  BY <1>4 DEF IInv, PageInv, ReplyInv, PolicyInv, PagesAgree, Answered, Scanned, Request
<1> QED BY <1>1, <1>5, <1>6, <1>7 DEF IInv

LEMMA HandleFailureInv ==
  ASSUME IInv, HandleFailure
  PROVE  IInv'
<1> USE DEF dbVars, policyVars, clientVars, HandleFailure
<1>1. CASE UNCHANGED clientVars
  <2>1. SavedInv' /\ NoSkip'
    BY <1>1, StoreKept
  <2>2. TypeOK' /\ RequestInv' /\ PageInv' /\ ReplyInv' /\ PolicyInv' /\ PagesAgree'
    BY <1>1, EndRequestInv DEF IInv, TypeOK, PolicyInv
  <2> QED BY <2>1, <2>2 DEF IInv
<1>2. CASE saved' = NoCursor /\ journal' = {} /\ start' = 0 /\ horizon' = 0
  <2>1. SavedInv' /\ NoSkip'
    BY <1>2 DEF SavedInv, NoSkip, Seeded
  <2>2. TypeOK' /\ RequestInv' /\ PageInv' /\ ReplyInv' /\ PolicyInv' /\ PagesAgree'
    BY <1>2, EndRequestInv DEF IInv, TypeOK, PolicyInv
  <2> QED BY <2>1, <2>2 DEF IInv
<1> QED BY <1>1, <1>2

(* What a successful answer and the client's store say together. *)
LEMMA AnswerFacts ==
  ASSUME IInv, Answered
  PROVE  LET c == req.cursor IN
         /\ c \in Cursor /\ c.row \in Nat /\ c.gen \in Nat /\ c.gen <= dbGen
         /\ CursorAccepted(c)
         /\ page.gen = c.gen
         /\ page.scanned \in Nat /\ page.through \in Nat /\ page.complete \in BOOLEAN
         /\ c.row <= page.scanned /\ page.scanned <= page.through
         /\ page.complete <=> page.scanned = page.through
         /\ ~page.complete => c.row < page.scanned
         /\ reply.cursor = [form |-> "v2", gen |-> c.gen, row |-> page.scanned,
                            through |-> page.through, complete |-> page.complete,
                            notBefore |-> c.notBefore /\ ~page.complete]
         /\ reply.messages \subseteq DOMAIN page.rows
         /\ \A r \in reply.messages : r \in Nat /\ c.row < r /\ r <= page.scanned
         /\ Bounded(c.gen, Low, page.through)
         /\ Seeded => c = saved
         /\ ~Seeded => c.through = 0 /\ ~c.complete /\ (c.notBefore => c.row = 0)
<1> DEFINE c == req.cursor
<1>1. /\ c \in Cursor /\ c.row \in Nat /\ c.gen \in Nat /\ c.gen <= dbGen
      /\ Seeded => c = saved
      /\ ~Seeded => c.through = 0 /\ ~c.complete /\ (c.notBefore => c.row = 0)
      /\ CursorAccepted(c)
  BY DEF IInv, RequestInv, SavedInv, Answered, Cursor
<1>2. /\ page.gen = c.gen
      /\ page.scanned \in Nat /\ page.through \in Nat /\ page.complete \in BOOLEAN
      /\ c.row <= page.scanned /\ page.scanned <= page.through
      /\ page.complete <=> page.scanned = page.through
      /\ ~page.complete => c.row < page.scanned
      /\ Bounded(c.gen, Low, page.through)
  BY <1>1 DEF IInv, TypeOK, PageInv, Answered
<1>3. reply.cursor = NextCursor(c, page) /\ reply.messages \subseteq DOMAIN page.rows
  BY DEF IInv, ReplyInv
<1>4. NextCursor(c, page) =
        [form |-> "v2", gen |-> c.gen, row |-> page.scanned, through |-> page.through,
         complete |-> page.complete, notBefore |-> c.notBefore /\ ~page.complete]
  BY <1>1, <1>2 DEF NextCursor, Cursor
<1>5. \A r \in reply.messages : r \in Nat /\ c.row < r /\ r <= page.scanned
  BY <1>3 DEF IInv, TypeOK, RowsOK, PageInv, Answered, InPage
<1> QED BY <1>1, <1>2, <1>3, <1>4, <1>5

(* The committed page joins the store: this is where NoSkip is earned. *)
LEMMA CommitInv ==
  ASSUME IInv, Commit
  PROVE  IInv'
<1> USE DEF dbVars, policyVars
<1> DEFINE c == req.cursor
<1>0. Answered
  BY DEF Commit, Answered
<1>1. /\ saved' = reply.cursor /\ journal' = journal \cup reply.messages
      /\ rows' = rows /\ dbGen' = dbGen /\ lastRow' = lastRow /\ denied' = denied
      /\ start' = IF Seeded THEN start ELSE c.row
      /\ Seeded => horizon' = horizon
      /\ ~Seeded => horizon' = IF c.notBefore THEN page.through ELSE c.row
  BY DEF Commit, IInv, TypeOK, RequestInv, Cursor
<1>2. /\ c \in Cursor /\ c.row \in Nat /\ c.gen \in Nat /\ c.gen <= dbGen
      /\ CursorAccepted(c) /\ c.notBefore \in BOOLEAN
      /\ page.gen = c.gen
      /\ page.scanned \in Nat /\ page.through \in Nat /\ page.complete \in BOOLEAN
      /\ c.row <= page.scanned /\ page.scanned <= page.through
      /\ page.complete <=> page.scanned = page.through
      /\ ~page.complete => c.row < page.scanned
      /\ Bounded(c.gen, Low, page.through)
      /\ Seeded => c = saved
      /\ ~Seeded => c.through = 0 /\ ~c.complete /\ (c.notBefore => c.row = 0)
  BY <1>0, AnswerFacts DEF Cursor
<1>3. /\ reply.messages \subseteq DOMAIN page.rows
      /\ \A r \in reply.messages : r \in Nat /\ c.row < r /\ r <= page.scanned
  BY <1>0, AnswerFacts
<1>4. saved' = [form |-> "v2", gen |-> c.gen, row |-> page.scanned,
                through |-> page.through, complete |-> page.complete,
                notBefore |-> c.notBefore /\ ~page.complete]
  BY <1>0, <1>1, AnswerFacts
<1>5. /\ saved' \in Cursor /\ saved'.form = "v2" /\ saved'.gen = c.gen
      /\ saved'.row = page.scanned /\ saved'.through = page.through
      /\ saved'.complete = page.complete
      /\ saved'.notBefore = (c.notBefore /\ ~page.complete)
      /\ Seeded' /\ saved' # NoCursor
  BY <1>2, <1>4 DEF Cursor, Forms, Seeded, NoCursor
<1>6. Low = start' /\ start' \in Nat /\ horizon' \in Nat /\ start' <= page.scanned
  BY <1>1, <1>2 DEF IInv, TypeOK, SavedInv, Low
<1>7. CursorAccepted(saved') /\ (saved'.notBefore => saved'.row > 0)
  <2>1. CursorAccepted(saved') <=>
          /\ saved'.through >= saved'.row
          /\ saved'.complete <=> saved'.row = saved'.through
          /\ saved'.notBefore => ~saved'.complete /\ saved'.through # 0
    BY <1>5 DEF CursorAccepted
  <2>2. ~page.complete => page.scanned > 0 /\ page.through # 0
    BY <1>2
  <2>3. page.through >= page.scanned
    BY <1>2
  <2> QED BY <1>2, <1>5, <2>1, <2>2, <2>3
(* While the horizon is carried, it is the end of the range. *)
<1>8. c.notBefore => horizon' = page.through
  <2>1. CASE Seeded
    BY <1>0, <1>1, <1>2, <2>1 DEF IInv, SavedInv, PageInv, CursorAccepted, EffectiveThrough
  <2>2. CASE ~Seeded
    BY <1>1, <2>2
  <2> QED BY <2>1, <2>2
<1>9. ~saved'.notBefore => horizon' <= page.scanned
  <2>1. CASE c.notBefore
    BY <1>2, <1>5, <1>6, <1>8, <2>1
  <2>2. CASE ~c.notBefore /\ Seeded
    BY <1>1, <1>2, <1>6, <2>2 DEF IInv, SavedInv
  <2>3. CASE ~c.notBefore /\ ~Seeded
    BY <1>1, <1>2, <2>3
  <2> QED BY <1>2, <2>1, <2>2, <2>3
<1>10. \A r \in journal' : r <= saved'.row
  <2>1. \A r \in journal : r \in Nat /\ r <= c.row
    BY <1>2 DEF IInv, TypeOK, SavedInv
  <2> QED BY <1>1, <1>2, <1>3, <1>5, <2>1
<1>11. SavedInv'
  <2>1. Bounded(saved.gen, start, saved.through)'
    BY <1>1, <1>2, <1>5, <1>6 DEF Bounded
  <2>2. CursorAccepted(saved)'
    BY <1>7 DEF CursorAccepted
  <2> QED BY <1>1, <1>2, <1>5, <1>6, <1>7, <1>8, <1>9, <1>10, <2>1, <2>2 DEF SavedInv
<1>12. NoSkip'
  <2> SUFFICES ASSUME c.gen = dbGen, NEW r \in DOMAIN rows, r <= page.scanned, Owed(r)'
               PROVE  r \in journal'
    BY <1>1, <1>5 DEF NoSkip
  <2>1. /\ rows[r].kind = "text" /\ rows[r].chat \notin denied /\ start' < r
        /\ r <= horizon' => rows[r].recent
        /\ r \in Nat
    BY <1>1 DEF Owed, IInv, TypeOK
  <2>2. CASE c.row < r
    <3>1. EffectiveNotBefore(c) => rows[r].recent
      BY <1>2, <1>8, <2>1 DEF EffectiveNotBefore
    <3>2. r \in reply.messages
      BY <1>0, <1>2, <2>1, <2>2, <3>1 DEF IInv, ReplyInv, InPage
    <3> QED BY <1>1, <3>2
  <2>3. CASE r <= c.row
    <3>1. Seeded
      BY <1>1, <1>2, <2>1, <2>3
    <3>2. Owed(r) /\ saved.gen = dbGen /\ r <= saved.row
      BY <1>1, <1>2, <2>1, <2>3, <3>1 DEF Owed
    <3> QED BY <1>1, <3>1, <3>2 DEF IInv, NoSkip
  <2> QED BY <1>2, <2>1, <2>2, <2>3
<1>13. TypeOK' /\ RequestInv' /\ PageInv' /\ ReplyInv' /\ PolicyInv' /\ PagesAgree'
  <2>1. journal' \subseteq 1..MaxRow
    BY <1>1 DEF IInv, TypeOK
  <2>2. EndRequest /\ UNCHANGED <<dbVars, openGen, policyVars, faults>>
    BY DEF Commit
  <2> QED BY <1>5, <1>6, <2>1, <2>2, EndRequestInv DEF IInv, TypeOK, PolicyInv
<1> QED BY <1>11, <1>12, <1>13 DEF IInv

-----------------------------------------------------------------------------
LEMMA StepInv == IInv /\ [Next]_vars => IInv'
<1> SUFFICES ASSUME IInv, [Next]_vars PROVE IInv'
  OBVIOUS
<1>1. CASE Environment
  BY <1>1, EnvironmentActions
<1>2. CASE Broker
  BY <1>2, AcceptInv, BeginReadInv, ScanInv, EndReadInv, SerializeInv, TimeoutInv,
     RestartInv DEF Broker
<1>3. CASE Client
  BY <1>3, RequestActionInv, CommitInv, HandleFailureInv, GiveUpInv DEF Client
<1>4. CASE UNCHANGED vars
  <2> USE <1>4 DEF vars, dbVars, policyVars, reqVars, clientVars
  <2>1. TypeOK' /\ PolicyInv'
    BY DEF IInv, TypeOK, RowsOK, PolicyInv
  <2>2. SavedInv' /\ NoSkip'
    BY DEF IInv, SavedInv, NoSkip, Seeded, Bounded, Owed, CursorAccepted
  <2>3. RequestInv' /\ PagesAgree'
    BY DEF IInv, RequestInv, PagesAgree, Seeded, Working, CursorAccepted, PageOK, ScanLimit
  <2>4. PageInv'
    BY DEF IInv, PageInv, Scanned, Answered, Low, Seeded, Bounded, InPage
  <2>5. ReplyInv'
    BY DEF IInv, ReplyInv, Answered, InPage
  <2> QED BY <2>1, <2>2, <2>3, <2>4, <2>5 DEF IInv
<1> QED BY <1>1, <1>2, <1>3, <1>4 DEF Next

(* The invariant holds in every behaviour. *)
THEOREM Invariance == Spec => []IInv
BY InitInv, StepInv, PTL DEF Spec

(* Type correctness, for every database, policy and bound. *)
THEOREM TypeCorrect == Spec => []TypeOK
<1>1. IInv => TypeOK
  BY DEF IInv
<1> QED BY Invariance, <1>1, PTL

(* Nothing owed to the client is ever behind its cursor and missing. *)
THEOREM NothingSkipped == Spec => []NoSkip
<1>1. IInv => NoSkip
  BY DEF IInv
<1> QED BY Invariance, <1>1, PTL

(* The adapter accepts every page of the overlay. *)
THEOREM OverlayPagesAccepted == Spec => []PagesAgree
<1>1. IInv => PagesAgree
  BY DEF IInv
<1> QED BY Invariance, <1>1, PTL

(* Every cursor the broker issues can be used. *)
THEOREM IssuedCursorsUsable == Spec => []CursorsUsable
<1>1. IInv => CursorsUsable
  BY DEF IInv, SavedInv, CursorsUsable, CursorAccepted, CollectArgsOK, EffectiveThrough,
         EffectiveNotBefore, Cursor
<1> QED BY Invariance, <1>1, PTL

(* No message is offered to a client that has already committed it. *)
THEOREM NothingRedelivered == Spec => []NoRedelivery
<1>1. IInv => NoRedelivery
  <2> SUFFICES ASSUME IInv, Answered, NEW r \in reply.messages, r \in journal
               PROVE  FALSE
    BY DEF NoRedelivery, Answered
  <2>1. r \in Nat /\ req.cursor.row \in Nat /\ req.cursor.row < r
    BY AnswerFacts
  <2>2. Seeded /\ r <= req.cursor.row
    BY AnswerFacts DEF IInv, SavedInv
  <2> QED BY <2>1, <2>2
<1> QED BY Invariance, <1>1, PTL

(* A revocation made before the backend read ended is honoured. *)
THEOREM RevocationHonoured == Spec => []RevocationApplies
<1>1. IInv => RevocationApplies
  BY DEF IInv, ReplyInv, RevocationApplies, Answered
<1> QED BY Invariance, <1>1, PTL

(* No page of another database is served under a cursor. *)
THEOREM SingleDatabase == Spec => []OneDatabase
<1>1. IInv => OneDatabase
  BY AnswerFacts DEF OneDatabase, Answered
<1> QED BY Invariance, <1>1, PTL

(* No page of a timestamp bootstrap offers a row older than its horizon. *)
THEOREM TimestampHorizonKept == Spec => []HorizonKept
<1>1. IInv => HorizonKept
  <2> SUFFICES ASSUME IInv, Answered, NEW r \in reply.messages, Bootstrapping(r)
               PROVE  page.rows[r].recent
    BY DEF HorizonKept, Answered
  <2>1. r \in DOMAIN page.rows /\ r \in Nat /\ req.cursor.row < r
    BY AnswerFacts
  <2>2. EffectiveNotBefore(req.cursor)
    <3>1. CASE Seeded
      <4>1. req.cursor = saved /\ saved.row \in Nat /\ horizon \in Nat /\ r <= horizon
        BY <3>1, AnswerFacts DEF IInv, TypeOK, Bootstrapping
      <4>2. saved.form = "v2" /\ saved.notBefore
        BY <2>1, <3>1, <4>1 DEF IInv, SavedInv
      <4>3. ~saved.complete
        BY <3>1, <4>2 DEF IInv, SavedInv, CursorAccepted
      <4> QED BY <4>1, <4>2, <4>3 DEF EffectiveNotBefore
    <3>2. CASE ~Seeded
      BY <3>2, AnswerFacts DEF Bootstrapping, EffectiveNotBefore
    <3> QED BY <3>1, <3>2
  <2> QED BY <2>1, <2>2 DEF IInv, PageInv
<1> QED BY Invariance, <1>1, PTL

(* A pending cursor keeps its boundary, and every committed page advances it. *)
THEOREM PendingBoundaryKept == Spec => BoundaryPinned
<1> DEFINE Pinned == Pending(saved) /\ saved' # saved /\ saved' # NoCursor =>
                       saved'.through = saved.through /\ saved'.row > saved.row
<1>1. IInv /\ [Next]_vars => [Pinned]_vars
  <2> SUFFICES ASSUME IInv, Next, Pending(saved), saved' # saved, saved' # NoCursor
               PROVE  saved'.through = saved.through /\ saved'.row > saved.row
    OBVIOUS
  <2>1. Commit
    BY DEF Next, Environment, Insert, Delete, ReplaceDatabase, SetPolicy, PolicyOutage,
       Broker, Accept, BeginRead, Scan, EndRead, Serialize, Timeout, Restart, Fail, Refuse,
       Client, Request, HandleFailure, GiveUp, clientVars
  <2>2. Answered /\ saved' = reply.cursor
    BY <2>1 DEF Commit, Answered
  <2>3. Seeded /\ saved.form = "v2" /\ ~saved.complete
    BY DEF Pending, Seeded, NoCursor
  <2>4. /\ req.cursor = saved /\ saved.row \in Nat /\ saved.through \in Nat
        /\ page.scanned \in Nat /\ page.through \in Nat
        /\ page.complete <=> page.scanned = page.through
        /\ ~page.complete => saved.row < page.scanned
        /\ saved'.row = page.scanned /\ saved'.through = page.through
    BY <2>2, <2>3, AnswerFacts DEF Cursor
  <2>5. saved.through > saved.row
    BY <2>3, <2>4 DEF IInv, SavedInv, CursorAccepted
  <2>6. page.through = saved.through
    BY <2>2, <2>3, <2>4, <2>5 DEF IInv, PageInv, EffectiveThrough
  <2> QED BY <2>4, <2>5, <2>6
<1> QED BY Invariance, <1>1, PTL DEF Spec, BoundaryPinned

-----------------------------------------------------------------------------
(***************************************************************************)
(* Collection implements InsertionFeed: each step, seen through the client's *)
(* position, its range and the rows it is owed, is a step of the feed.       *)
(***************************************************************************)
LEMMA FeedStutters ==
  ASSUME UNCHANGED <<rows, dbGen, denied, saved, journal, start, horizon>>
  PROVE  UNCHANGED Feed!vars
BY DEF Feed!vars, Seeded, OwedRows, Owed

(* A row that arrives lies beyond the end of the client's range. *)
LEMMA ArrivalBeyondGoal ==
  ASSUME IInv, NEW class \in RowClasses, Insert(class)
  PROVE  Feed!Next
<1> USE DEF dbVars, policyVars, reqVars, clientVars
<1> DEFINE n == lastRow + 1
<1>1. /\ lastRow \in Nat /\ dbGen' = dbGen /\ denied' = denied
      /\ DOMAIN rows' = DOMAIN rows \cup {n}
      /\ \A r \in DOMAIN rows : r \in Nat /\ r <= lastRow /\ rows'[r] = rows[r]
      /\ UNCHANGED <<saved, journal, start, horizon>>
  BY DEF IInv, TypeOK, Insert
<1>2. Seeded' = Seeded
  BY <1>1 DEF Seeded
<1>3. ASSUME NEW r \in OwedRows PROVE r \in OwedRows'
  BY <1>1, <1>2, <1>3 DEF OwedRows, Owed
<1>4. ASSUME NEW r \in OwedRows', r # n PROVE r \in OwedRows
  BY <1>1, <1>2, <1>4 DEF OwedRows, Owed
<1>5. CASE n \in OwedRows' \ OwedRows
  <2>1. Seeded /\ saved.gen = dbGen /\ start < n /\ start \in Nat
    BY <1>1, <1>2, <1>5 DEF OwedRows, Owed, IInv, TypeOK
  <2>2. saved.through \in Nat /\ (saved.through <= start \/ saved.through <= lastRow)
    BY <2>1 DEF IInv, SavedInv, Cursor, Bounded
  <2>3. n \in Nat /\ n > saved.through
    BY <1>1, <2>1, <2>2
  <2>4. OwedRows' = OwedRows \cup {n}
    BY <1>3, <1>4, <1>5
  <2>5. Feed!Arrive
    BY <1>1, <1>2, <1>5, <2>3, <2>4 DEF Feed!Arrive
  <2> QED BY <2>5 DEF Feed!Next
<1>6. CASE n \notin OwedRows' \ OwedRows
  <2>1. OwedRows' \subseteq OwedRows
    BY <1>4, <1>6
  <2>2. Feed!Withdraw
    BY <1>1, <1>2, <2>1 DEF Feed!Withdraw
  <2> QED BY <2>2 DEF Feed!Next
<1> QED BY <1>5, <1>6

(* What else the database and the owner do only takes rows away. *)
LEMMA EnvironmentFeeds ==
  ASSUME IInv, Environment
  PROVE  [Feed!Next]_Feed!vars
<1> USE DEF dbVars, policyVars, reqVars, clientVars
<1>0. ASSUME UNCHANGED <<saved, journal>>, OwedRows' \subseteq OwedRows
      PROVE  Feed!Next
  <2>1. Seeded' = Seeded
    BY <1>0 DEF Seeded
  <2> QED BY <1>0, <2>1 DEF Feed!Withdraw, Feed!Next
<1>1. ASSUME NEW class \in RowClasses, Insert(class) PROVE Feed!Next
  BY <1>1, ArrivalBeyondGoal
<1>2. ASSUME NEW r \in DOMAIN rows, Delete(r) PROVE Feed!Next
  <2>1. /\ DOMAIN rows' = DOMAIN rows \ {r}
        /\ \A q \in DOMAIN rows' : rows'[q] = rows[q]
        /\ UNCHANGED <<saved, journal, start, horizon, denied, dbGen>>
    BY <1>2 DEF Delete
  <2>2. OwedRows' \subseteq OwedRows
    BY <2>1 DEF OwedRows, Owed, Seeded
  <2> QED BY <1>0, <2>1, <2>2
<1>3. ASSUME ReplaceDatabase PROVE Feed!Next
  <2>1. DOMAIN rows' = {} /\ UNCHANGED <<saved, journal, start, horizon>>
    BY <1>3 DEF ReplaceDatabase, NoRows
  <2>2. OwedRows' = {}
    BY <2>1 DEF OwedRows
  <2> QED BY <1>0, <2>1, <2>2
<1>4. ASSUME NEW grants \in SUBSET Chats, SetPolicy(grants) PROVE Feed!Next
  <2>1. /\ UNCHANGED <<saved, journal, start, horizon, rows, dbGen>>
        /\ denied \subseteq denied'
    BY <1>4 DEF SetPolicy
  <2>2. OwedRows' \subseteq OwedRows
    BY <2>1 DEF OwedRows, Owed, Seeded
  <2> QED BY <1>0, <2>1, <2>2
<1>5. ASSUME PolicyOutage PROVE UNCHANGED Feed!vars
  BY <1>5, FeedStutters DEF PolicyOutage
<1> QED BY <1>1, <1>2, <1>3, <1>4, <1>5 DEF Environment

(* The first committed page begins the feed. *)
LEMMA FirstPageBegins ==
  ASSUME IInv, IInv', Commit, ~Seeded
  PROVE  Feed!Begin
<1>1. Answered /\ saved' = reply.cursor /\ journal' = journal \cup reply.messages
      /\ rows' = rows /\ journal = {}
  BY DEF Commit, Answered, dbVars, IInv, SavedInv
<1>2. /\ page.scanned \in Nat /\ page.through \in Nat /\ page.scanned <= page.through
      /\ req.cursor.row \in Nat
      /\ saved'.row = page.scanned /\ saved'.through = page.through
      /\ saved'.form = "v2"
      /\ \A r \in reply.messages : r \in Nat /\ req.cursor.row < r /\ r <= page.scanned
  BY <1>1, AnswerFacts
<1>3. Seeded' /\ ~Seeded
  BY <1>2 DEF Seeded, NoCursor
<1>4. saved'.through \in Nat /\ saved'.row \in 0..saved'.through
  BY <1>2
<1>5. journal' \subseteq 1..saved'.row
  BY <1>1, <1>2
<1>6. OwedRows' \subseteq Nat
  BY DEF OwedRows, IInv, TypeOK, RowsOK
<1>7. {r \in OwedRows' : r <= saved'.row} \subseteq journal'
  BY DEF IInv, NoSkip, OwedRows
<1> QED BY <1>3, <1>4, <1>5, <1>6, <1>7 DEF Feed!Begin

(* Every later one delivers the owed rows it passes, inside the range. *)
LEMMA PageDelivers ==
  ASSUME IInv, IInv', Commit, Seeded
  PROVE  Feed!Deliver
<1>1. /\ Answered /\ saved' = reply.cursor /\ journal' = journal \cup reply.messages
      /\ rows' = rows /\ denied' = denied /\ dbGen' = dbGen
      /\ start' = start /\ horizon' = horizon
  BY DEF Commit, Answered, dbVars, policyVars
<1>2. /\ page.scanned \in Nat /\ page.through \in Nat /\ page.scanned <= page.through
      /\ page.complete <=> page.scanned = page.through
      /\ ~page.complete => saved.row < page.scanned
      /\ saved.row \in Nat /\ saved.row <= page.scanned
      /\ saved'.row = page.scanned /\ saved'.through = page.through
      /\ saved'.form = "v2" /\ saved'.gen = saved.gen
      /\ \A r \in reply.messages : r \in Nat /\ saved.row < r /\ r <= page.scanned
  BY <1>1, AnswerFacts
<1>3. Seeded' /\ saved.through \in Nat
  BY <1>2 DEF Seeded, NoCursor, IInv, SavedInv, Cursor
<1>4. ASSUME saved.row < saved.through
      PROVE  saved'.through = saved.through /\ saved'.row \in saved.row + 1 .. saved.through
  <2>1. ~saved.complete
    <3>1. saved \in Cursor /\ saved.form = "v2" /\ CursorAccepted(saved)
      BY DEF IInv, SavedInv
    <3>2. saved.complete <=> saved.row = saved.through
      BY <3>1 DEF CursorAccepted
    <3> QED BY <1>2, <1>3, <1>4, <3>2
  <2>2. page.through = saved.through
    BY <1>1, <1>2, <1>3, <1>4, <2>1, AnswerFacts DEF IInv, PageInv, EffectiveThrough
  <2> QED BY <1>2, <1>3, <1>4, <2>2
<1>5. saved'.through \in Nat /\ saved'.row \in saved.row .. saved'.through
  BY <1>2
<1>6. journal \subseteq journal' /\ journal' \ journal \subseteq saved.row + 1 .. saved'.row
  BY <1>1, <1>2
<1>7. OwedRows' = OwedRows
  BY <1>1, <1>2, <1>3 DEF OwedRows, Owed
<1>8. {r \in OwedRows : saved.row < r /\ r <= saved'.row} \subseteq journal'
  BY <1>7 DEF IInv, NoSkip, OwedRows
<1> QED BY <1>3, <1>4, <1>5, <1>6, <1>7, <1>8 DEF Feed!Deliver

LEMMA ClientFeeds ==
  ASSUME IInv, IInv', Client
  PROVE  [Feed!Next]_Feed!vars
<1> USE DEF dbVars, policyVars, clientVars
<1>1. ASSUME NEW limit \in Limits, Request(limit) PROVE UNCHANGED Feed!vars
  BY <1>1, FeedStutters DEF Request
<1>2. CASE Commit
  BY <1>2, FirstPageBegins, PageDelivers DEF Feed!Next
<1>3. CASE HandleFailure /\ UNCHANGED clientVars
  BY <1>3, FeedStutters DEF HandleFailure
<1>4. CASE HandleFailure /\ saved' = NoCursor /\ journal' = {}
  <2>1. /\ ~Seeded' /\ OwedRows' = {} /\ Seeded' \in BOOLEAN /\ Seeded \in BOOLEAN
        /\ saved'.row = 0 /\ saved'.through = 0
    BY <1>4 DEF Seeded, OwedRows, NoCursor
  <2>2. CASE Seeded
    BY <1>4, <2>1, <2>2 DEF Feed!Stop, Feed!Next
  <2>3. CASE ~Seeded
    <3>1. saved = NoCursor /\ journal = {} /\ OwedRows = {}
      BY <2>3 DEF Seeded, IInv, SavedInv, OwedRows
    <3> QED BY <1>4, <2>1, <2>3, <3>1 DEF Feed!vars
  <2> QED BY <2>2, <2>3
<1>5. CASE GiveUp
  BY <1>5, FeedStutters DEF GiveUp
<1> QED BY <1>1, <1>2, <1>3, <1>4, <1>5 DEF Client, HandleFailure

LEMMA BrokerFeeds ==
  ASSUME Broker
  PROVE  UNCHANGED Feed!vars
<1>1. UNCHANGED <<rows, dbGen, denied, saved, journal, start, horizon>>
  BY DEF Broker, Accept, BeginRead, Scan, EndRead, Serialize, Timeout, Restart, Fail,
         Refuse, dbVars, policyVars, clientVars, reqVars
<1> QED BY <1>1, FeedStutters

(* A durable client of the broker sees the feed docs/rpc.md promises: collect,
   commit and retry, with everything that may happen between, take only its
   steps.                                                                    *)
THEOREM CollectionImplementsFeed == Spec => ImplementsFeed
<1>1. Init => Feed!Init
  BY DEF Init, Feed!Init, Seeded, OwedRows, NoCursor
<1>2. IInv /\ IInv' /\ [Next]_vars => [Feed!Next]_Feed!vars
  <2> SUFFICES ASSUME IInv, IInv', [Next]_vars PROVE [Feed!Next]_Feed!vars
    OBVIOUS
  <2>1. CASE Environment
    BY <2>1, EnvironmentFeeds
  <2>2. CASE Broker
    BY <2>2, BrokerFeeds
  <2>3. CASE Client
    BY <2>3, ClientFeeds
  <2>4. CASE UNCHANGED vars
    BY <2>4, FeedStutters DEF vars, dbVars, policyVars, clientVars
  <2> QED BY <2>1, <2>2, <2>3, <2>4 DEF Next
<1> QED BY <1>1, <1>2, Invariance, PTL DEF Spec, ImplementsFeed, Feed!Spec

(* The feed keeps its promise: in none of its behaviours is a row that is owed
   behind the position and undelivered.                                      *)
THEOREM FeedIsComplete == Feed!Spec => []Feed!Complete
<1> DEFINE FeedInv == /\ saved.row \in Nat /\ saved.through \in Nat
                      /\ saved.row <= saved.through
                      /\ OwedRows \subseteq Nat /\ Feed!Complete
<1>1. Feed!Init => FeedInv
  BY DEF Feed!Init, Feed!Complete
<1>2. FeedInv /\ [Feed!Next]_Feed!vars => FeedInv'
  <2> SUFFICES ASSUME FeedInv, [Feed!Next]_Feed!vars PROVE FeedInv'
    OBVIOUS
  <2>1. CASE Feed!Arrive
    BY <2>1 DEF Feed!Arrive, Feed!Complete
  <2>2. CASE Feed!Withdraw
    BY <2>2 DEF Feed!Withdraw, Feed!Complete
  <2>3. CASE Feed!Begin
    BY <2>3 DEF Feed!Begin, Feed!Complete
  <2>4. CASE Feed!Deliver
    <3>1. /\ saved'.row \in Nat /\ saved'.through \in Nat /\ saved'.row <= saved'.through
          /\ OwedRows' = OwedRows /\ journal \subseteq journal'
      BY <2>4 DEF Feed!Deliver
    <3>2. ASSUME NEW r \in OwedRows, r <= saved'.row PROVE r \in journal'
      <4>1. CASE r <= saved.row
        BY <3>1, <4>1 DEF Feed!Complete
      <4>2. CASE saved.row < r
        BY <2>4, <3>2, <4>2 DEF Feed!Deliver
      <4> QED BY <4>1, <4>2
    <3> QED BY <3>1, <3>2 DEF Feed!Complete
  <2>5. CASE Feed!Stop
    BY <2>5 DEF Feed!Stop, Feed!Complete
  <2>6. CASE UNCHANGED Feed!vars
    BY <2>6 DEF Feed!vars, Feed!Complete
  <2> QED BY <2>1, <2>2, <2>3, <2>4, <2>5, <2>6 DEF Feed!Next
<1> QED BY <1>1, <1>2, PTL DEF Feed!Spec

(* While a client has a position, no step takes it back, moves the end of a
   range it has not reached or loses a row it has received: the cursor of a
   page, a retry or another page never undoes one that was committed.        *)
Advance ==
  Seeded /\ Seeded' =>
    /\ saved.row <= saved'.row
    /\ saved.row < saved.through => saved'.through = saved.through
    /\ journal \subseteq journal'

THEOREM PositionAdvances == Spec => [][Advance]_vars
<1>1. IInv /\ [Feed!Next]_Feed!vars => Advance
  <2> SUFFICES ASSUME IInv, [Feed!Next]_Feed!vars, Seeded, Seeded' PROVE Advance
    BY DEF Advance
  <2>1. saved.row \in Nat /\ saved.through \in Nat
    BY DEF IInv, SavedInv, Cursor
  <2>2. CASE UNCHANGED <<saved, journal>>
    BY <2>1, <2>2 DEF Advance
  <2>3. CASE Feed!Deliver
    BY <2>1, <2>3 DEF Advance, Feed!Deliver
  <2>4. CASE saved'.row = saved.row /\ saved'.through = saved.through /\ journal' = journal
    BY <2>1, <2>4 DEF Advance
  <2> QED
    BY <2>2, <2>3, <2>4
    DEF Feed!Next, Feed!Arrive, Feed!Withdraw, Feed!Begin, Feed!Stop, Feed!vars
<1> QED BY <1>1, Invariance, CollectionImplementsFeed, PTL DEF ImplementsFeed, Feed!Spec
=============================================================================
