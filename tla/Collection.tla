----------------------------- MODULE Collection -----------------------------
(***************************************************************************)
(* Bounded collection end to end: the Messages database, the policy owner, *)
(* the broker's collect handler (internal/broker/server.go) with the       *)
(* backend process it runs (internal/backend/backend.go), and a durable    *)
(* client that commits each page's messages and cursor together, as        *)
(* docs/rpc.md asks of it.                                                 *)
(*                                                                         *)
(* The handler is cut at every point where something else can happen:      *)
(* policy load, identity check and process start, the SQLite transaction,  *)
(* process exit and second identity check, second policy load and          *)
(* response. Handlers share nothing they write, so one request the client  *)
(* still waits for is enough: an abandoned handler's answer goes to a      *)
(* closed connection.                                                      *)
(***************************************************************************)
EXTENDS CollectionPage

CONSTANTS
  RowClasses,   \* rows the database may receive
  Limits,       \* page limits a client may ask for
  MaxScan,      \* max_collection_scan
  ResponseCap,  \* messages that fit a response of maxResponseBytes
  Starts,       \* after_row_id values a client may seed with
  MaxRow,       \* bound on insertions
  MaxGen,       \* bound on database replacements
  MaxFaults     \* bound on timeouts, lost answers, restarts and outages

ASSUME ClassAssumption == RowClasses \subseteq Row
ASSUME LimitAssumption ==
  /\ Limits \subseteq Nat \ {0}
  /\ MaxScan \in Nat \ {0}
ASSUME CapAssumption == ResponseCap \in Nat \ {0}
ASSUME StartAssumption == Starts \subseteq Nat
ASSUME BoundAssumption == {MaxRow, MaxGen, MaxFaults} \subseteq Nat

VARIABLES
  rows,      \* the rows now present in the database
  lastRow,   \* its AUTOINCREMENT sequence: the highest row ID ever used
  dbGen,     \* which database file is at the configured path
  openGen,   \* the file whose identity the broker recorded when it started
  policyUp,  \* whether the policy can be loaded
  granted,   \* the conversations it grants
  denied,    \* history: conversations some policy did not grant
  pc,        \* where the client's request is
  req,       \* its cursor and limit
  page,      \* the page the backend process produced
  loaded,    \* what the last loadPolicy returned
  inForce,   \* history: conversations granted at some time since the read
  reply,     \* the response
  saved,     \* the client's durable cursor
  journal,   \* the client's durable messages
  start,     \* history: the exclusive row the client seeded with
  horizon,   \* history: where its timestamp bootstrap ended
  faults     \* history: faults so far

dbVars     == <<rows, lastRow, dbGen>>
policyVars == <<policyUp, granted, denied>>
reqVars    == <<req, page, loaded, inForce, reply>>
clientVars == <<saved, journal, start, horizon>>
vars == <<dbVars, openGen, policyVars, pc, reqVars, clientVars, faults>>

NoRows   == [r \in {} |-> {}]
NoCursor == [form |-> "none", gen |-> 0, row |-> 0, through |-> 0,
             complete |-> FALSE, notBefore |-> FALSE]
NoRequest == [cursor |-> NoCursor, limit |-> 1]
NoPage   == [rows |-> NoRows, through |-> 0, scanned |-> 0, complete |-> FALSE,
             gen |-> 0]
Failure(code) == [ok |-> FALSE, code |-> code, messages |-> {}, cursor |-> NoCursor]

Seeded == saved # NoCursor
Scanned == {"check", "serialize"}        \* a page has been read
Working == {"begin", "scan", "check", "serialize"}

Init ==
  /\ rows = NoRows /\ lastRow = 0
  /\ dbGen = 0 /\ openGen = 0
  /\ policyUp = TRUE /\ granted \in SUBSET Chats /\ denied = Chats \ granted
  /\ pc = "idle"
  /\ req = NoRequest
  /\ page = NoPage /\ loaded = {} /\ inForce = {} /\ reply = Failure("none")
  /\ saved = NoCursor /\ journal = {} /\ start = 0 /\ horizon = 0
  /\ faults = 0

Fault == /\ faults < MaxFaults
         /\ faults' = faults + 1

(* The request is over: its connection is closed and its locals are gone. *)
EndRequest ==
  /\ pc' = "idle"
  /\ req' = NoRequest
  /\ page' = NoPage /\ loaded' = {} /\ inForce' = {} /\ reply' = Failure("none")

-----------------------------------------------------------------------------
(* The environment: Messages, and the owner editing the policy. *)

Insert(class) ==
  /\ lastRow < MaxRow
  /\ lastRow' = lastRow + 1
  /\ rows' = [r \in DOMAIN rows \cup {lastRow'} |->
                IF r = lastRow' THEN class ELSE rows[r]]
  /\ UNCHANGED <<dbGen, openGen, policyVars, pc, reqVars, clientVars, faults>>

Delete(r) ==
  /\ r \in DOMAIN rows
  /\ rows' = [q \in DOMAIN rows \ {r} |-> rows[q]]
  /\ UNCHANGED <<lastRow, dbGen, openGen, policyVars, pc, reqVars, clientVars,
                 faults>>

ReplaceDatabase ==
  /\ dbGen < MaxGen
  /\ dbGen' = dbGen + 1
  /\ rows' = NoRows /\ lastRow' = 0
  /\ UNCHANGED <<openGen, policyVars, pc, reqVars, clientVars, faults>>

SetPolicy(grants) ==
  /\ grants # granted \/ ~policyUp
  /\ policyUp' = TRUE
  /\ granted' = grants
  /\ denied' = denied \cup (Chats \ grants)
  /\ inForce' = IF pc = "serialize" THEN inForce \cup grants ELSE inForce
  /\ UNCHANGED <<dbVars, openGen, pc, req, page, loaded, reply, clientVars, faults>>

(* The policy file cannot be loaded, or the Contacts snapshot is invalid. *)
PolicyOutage ==
  /\ Fault
  /\ policyUp
  /\ policyUp' = FALSE
  /\ UNCHANGED <<dbVars, openGen, granted, denied, pc, reqVars, clientVars>>

-----------------------------------------------------------------------------
(* The broker's collect handler. *)

(* An error response: whatever the handler had is dropped. *)
Refuse(code) ==
  /\ pc' = "sent"
  /\ reply' = Failure(code)
  /\ page' = NoPage /\ loaded' = {} /\ inForce' = {}
  /\ UNCHANGED <<dbVars, openGen, policyVars, req, clientVars>>

Fail(code) == Refuse(code) /\ UNCHANGED faults

ScanLimit == IF req.limit < MaxScan THEN req.limit ELSE MaxScan

Admissible == CursorAccepted(req.cursor) /\ req.cursor.gen = openGen

(* Parameter and cursor checks, then the first policy load. *)
Accept ==
  /\ pc = "accept"
  /\ \/ ~CursorAccepted(req.cursor) /\ Fail("invalid_params")
     \/ /\ CursorAccepted(req.cursor) /\ req.cursor.gen # openGen
        /\ Fail("stale_cursor")
     \/ Admissible /\ ~policyUp /\ Fail("policy_unavailable")
     \/ /\ Admissible /\ policyUp
        /\ pc' = "begin"
        /\ loaded' = granted
        /\ UNCHANGED <<dbVars, openGen, policyVars, req, page, inForce, reply,
                       clientVars, faults>>

ArgumentsOK ==
  CollectArgsOK(req.cursor.row, EffectiveThrough(req.cursor), ScanLimit,
                EffectiveNotBefore(req.cursor))

(* Process.Collect's guard and run's first identity check. *)
BeginRead ==
  /\ pc = "begin"
  /\ IF ArgumentsOK /\ dbGen = openGen
     THEN /\ pc' = "scan"
          /\ UNCHANGED <<dbVars, openGen, policyVars, reqVars, clientVars, faults>>
     ELSE Fail("backend_unavailable")

(* The child's one read transaction, on whatever file is at the path. *)
Scan ==
  LET c == req.cursor
      through   == EffectiveThrough(c)
      notBefore == EffectiveNotBefore(c)
  IN  /\ pc = "scan"
      /\ IF ScanThrows(rows, c.row, through, ScanLimit, notBefore)
         THEN Fail("backend_unavailable")
         ELSE LET p == ScanPage(rows, c.row, through, ScanLimit, notBefore)
              IN  /\ page' = [rows |-> p.rows, through |-> p.through,
                              scanned |-> p.scanned, complete |-> p.complete,
                              gen |-> dbGen]
                  /\ pc' = "check"
                  /\ UNCHANGED <<dbVars, openGen, policyVars, req, loaded,
                                 inForce, reply, clientVars, faults>>

PageOK == ValidPage(page, req.cursor.row, EffectiveThrough(req.cursor), ScanLimit)

ExitAccepted == dbGen = openGen /\ PageOK

(* The child has exited: run's second identity check, then the page check. *)
EndRead ==
  /\ pc = "check"
  /\ IF ExitAccepted
     THEN /\ pc' = "serialize"
          /\ inForce' = IF policyUp THEN granted ELSE {}
          /\ UNCHANGED <<dbVars, openGen, policyVars, req, page, loaded, reply,
                         clientVars, faults>>
     ELSE Fail("backend_unavailable")

PolicyNotReloaded == loaded        \* bug: the first load is used
ReloadedPolicy == granted

TrimmedExposed(grants) ==          \* bug: a page is cut to fit the response
  Smallest({r \in DOMAIN page.rows : page.rows[r].kind = "text"
                                      /\ page.rows[r].chat \in grants}, ResponseCap)
Exposed(grants) ==
  {r \in DOMAIN page.rows :
     page.rows[r].kind = "text" /\ page.rows[r].chat \in grants}

(* The second policy load, exposure, and the response with its cursor. *)
Serialize ==
  /\ pc = "serialize"
  /\ LET messages == Exposed(ReloadedPolicy) IN
     \/ ~policyUp /\ Fail("policy_unavailable")
     \/ /\ policyUp /\ Cardinality(messages) > ResponseCap
        /\ Fail("response_too_large")
     \/ /\ policyUp /\ Cardinality(messages) <= ResponseCap
        /\ pc' = "sent"
        /\ loaded' = ReloadedPolicy
        /\ reply' = [ok |-> TRUE, code |-> "none", messages |-> messages,
                     cursor |-> NextCursor(req.cursor, page)]
        /\ UNCHANGED <<dbVars, openGen, policyVars, req, page, inForce,
                       clientVars, faults>>

(* The request's single deadline replaces whatever the handler had. *)
Timeout ==
  /\ Fault
  /\ pc \in Working
  /\ Refuse("backend_timeout")

(* The broker is killed and started again: connections break, the database
   identity is taken anew, and the cursor key is the one on disk.          *)
Restart ==
  /\ Fault
  /\ openGen' = dbGen
  /\ EndRequest
  /\ UNCHANGED <<dbVars, policyVars, clientVars>>

-----------------------------------------------------------------------------
(* The client. *)

(* Initial parameters, with the generation system.info returned, or a legacy
   checkpoint.                                                             *)
Seeds == {InitialCursor(openGen, a, FALSE) : a \in Starts}
           \cup {InitialCursor(openGen, 0, TRUE)}
           \cup {LegacyCursor(openGen, a) : a \in Starts \ {0}}

Request(limit) ==
  /\ pc = "idle"
  /\ pc' = "accept"
  /\ \E c \in IF Seeded THEN {saved} ELSE Seeds :
       req' = [cursor |-> c, limit |-> limit]
  /\ UNCHANGED <<dbVars, openGen, policyVars, page, loaded, inForce, reply,
                 clientVars, faults>>

(* Messages and cursor are persisted in one transaction. *)
Commit ==
  /\ pc = "sent" /\ reply.ok
  /\ EndRequest
  /\ saved' = reply.cursor
  /\ journal' = journal \cup reply.messages
  /\ start' = IF Seeded THEN start ELSE req.cursor.row
  /\ horizon' = CASE Seeded -> horizon
                  [] ~Seeded /\ req.cursor.notBefore -> page.through
                  [] ~Seeded /\ ~req.cursor.notBefore -> req.cursor.row
  /\ UNCHANGED <<dbVars, openGen, policyVars, faults>>

(* A failure leaves everything as it was, except that a stale cursor makes
   the owner reseed.                                                       *)
HandleFailure ==
  /\ pc = "sent" /\ ~reply.ok
  /\ EndRequest
  /\ IF reply.code = "stale_cursor"
     THEN saved' = NoCursor /\ journal' = {} /\ start' = 0 /\ horizon' = 0
     ELSE UNCHANGED clientVars
  /\ UNCHANGED <<dbVars, openGen, policyVars, faults>>

(* The client stops waiting, or crashes before its commit. *)
GiveUp ==
  /\ Fault
  /\ pc # "idle"
  /\ EndRequest
  /\ UNCHANGED <<dbVars, openGen, policyVars, clientVars>>

-----------------------------------------------------------------------------
Environment ==
  \/ \E class \in RowClasses : Insert(class)
  \/ \E r \in DOMAIN rows : Delete(r)
  \/ ReplaceDatabase
  \/ \E grants \in SUBSET Chats : SetPolicy(grants)
  \/ PolicyOutage

Broker == Accept \/ BeginRead \/ Scan \/ EndRead \/ Serialize \/ Timeout \/ Restart

Client == (\E limit \in Limits : Request(limit)) \/ Commit \/ HandleFailure \/ GiveUp

Next == Environment \/ Broker \/ Client

Spec == Init /\ [][Next]_vars

(***************************************************************************)
(* The handler runs (goroutines are scheduled, the child is bounded by its *)
(* deadline), the owner repairs an unloadable policy, and the client polls *)
(* and handles every answer. Infinitely often it asks for its smallest     *)
(* page, so that an oversize response is not retried forever.              *)
(***************************************************************************)
Fairness ==
  /\ WF_vars(Accept) /\ WF_vars(BeginRead) /\ WF_vars(Scan) /\ WF_vars(EndRead)
  /\ WF_vars(Serialize)
  /\ WF_vars(~policyUp /\ \E grants \in SUBSET Chats : SetPolicy(grants))
  /\ WF_vars(Commit) /\ WF_vars(HandleFailure)
  /\ WF_vars(\E limit \in Limits : Request(limit))
  /\ SF_vars(Request(Min(Limits)))

FairSpec == Spec /\ Fairness

-----------------------------------------------------------------------------
Codes == {"none", "invalid_params", "stale_cursor", "policy_unavailable",
          "backend_unavailable", "response_too_large", "backend_timeout"}

RowsOK(f) == DOMAIN f \subseteq 1..MaxRow /\ \A r \in DOMAIN f : f[r] \in Row

(* Every variable has its type; server.go's locals and the client's store. *)
TypeOK ==
  /\ RowsOK(rows) /\ lastRow \in 0..MaxRow /\ DOMAIN rows \subseteq 1..lastRow
  /\ dbGen \in 0..MaxGen /\ openGen \in 0..dbGen
  /\ policyUp \in BOOLEAN
  /\ granted \subseteq Chats /\ denied \subseteq Chats
  /\ pc \in {"idle", "accept", "sent"} \cup Working
  /\ req.cursor \in Cursor \cup {NoCursor} /\ req.limit \in Nat \ {0}
  /\ RowsOK(page.rows)
  /\ page.through \in Nat /\ page.scanned \in Nat
  /\ page.complete \in BOOLEAN /\ page.gen \in Nat
  /\ loaded \subseteq Chats /\ inForce \subseteq Chats
  /\ reply.ok \in BOOLEAN /\ reply.code \in Codes
  /\ reply.messages \subseteq 1..MaxRow /\ reply.cursor \in Cursor \cup {NoCursor}
  /\ saved \in Cursor \cup {NoCursor}
  /\ journal \subseteq 1..MaxRow
  /\ start \in Nat /\ horizon \in Nat
  /\ faults \in 0..MaxFaults

(* A cursor the broker issued is one it takes back: it decodes, and what it
   passes to Process.Collect satisfies that guard, through retries, restarts
   and the end of a timestamp bootstrap (cursor.go, collection.go).         *)
CursorsUsable ==
  Seeded => /\ CursorAccepted(saved)
            /\ \A limit \in Limits :
                 CollectArgsOK(saved.row, EffectiveThrough(saved), limit,
                               EffectiveNotBefore(saved))

(* The overlay and the adapter agree on what a page is: no page the overlay
   produces is refused by ValidateCollectionPage, whatever is inserted or
   deleted between the pages of a range.                                    *)
PagesAgree == pc = "check" => PageOK

(* docs/rpc.md: a range is complete once every existing insertion row in it
   has been examined. A row still present whose conversation no policy ever
   withheld, past the seed and not behind the timestamp horizon, is owed.   *)
Owed(r) ==
  /\ rows[r].kind = "text" /\ rows[r].chat \notin denied
  /\ start < r
  /\ r <= horizon => rows[r].recent

(* Nothing owed is behind the client's cursor and missing from its journal. *)
NoSkip ==
  Seeded /\ saved.gen = dbGen =>
    \A r \in DOMAIN rows : r <= saved.row /\ Owed(r) => r \in journal

(* Retries, lost answers and restarts never deliver a message twice: what a
   response offers is disjoint from what its receiver has committed.        *)
NoRedelivery == pc = "sent" /\ reply.ok => reply.messages \cap journal = {}

(* server.go: "Load policy after every backend read so a concurrent revocation
   applies to this response". A message leaves only if a policy in force after
   its read granted the conversation, however long the read took.           *)
RevocationApplies ==
  pc = "sent" /\ reply.ok =>
    \A r \in reply.messages : page.rows[r].chat \in inForce

(* A page served under a cursor comes from the database the cursor names, even
   if the file is replaced while the child runs (checkIdentity before and
   after).                                                                  *)
OneDatabase == pc = "sent" /\ reply.ok => page.gen = req.cursor.gen

(* docs/rpc.md: a timestamp bootstrap returns no older interleaved row, on
   none of its pages.                                                       *)
Bootstrapping(r) ==
  IF Seeded THEN start < r /\ r <= horizon ELSE req.cursor.notBefore

HorizonKept ==
  pc = "sent" /\ reply.ok =>
    \A r \in reply.messages : Bootstrapping(r) => page.rows[r].recent

(* docs/rpc.md: a pending cursor preserves its boundary across retries, pages
   and restarts, and each committed page makes progress.                    *)
BoundaryPinned ==
  [][Pending(saved) /\ saved' # saved /\ saved' # NoCursor =>
       saved'.through = saved.through /\ saved'.row > saved.row]_vars

(* However fast rows arrive, a range that was begun is completed: later
   inserts wait for the next range.                                         *)
RangeCompletes == Pending(saved) ~> ~Pending(saved)

(* A client that keeps polling receives everything it is owed. *)
OwedArrives ==
  \A r \in 1..MaxRow :
    (Seeded /\ r \in DOMAIN rows /\ Owed(r)) ~>
      (r \in journal \/ ~(r \in DOMAIN rows /\ Owed(r)))

(* docs/backend-contract.md: rows whose metadata cannot be safely authorized
   "never wedge all later collection". While such a row is present, a client
   that keeps polling still gets past it.                                   *)
NeverWedged ==
  \A r \in 1..MaxRow :
    (Seeded /\ r \in DOMAIN rows /\ Unreadable(rows[r])) ~>
      (r \notin DOMAIN rows \/ (Seeded /\ r <= saved.row))

(* Collection implements the feed: a committed page is a step of it. *)
OwedRows == IF Seeded /\ saved.gen = dbGen THEN {r \in DOMAIN rows : Owed(r)} ELSE {}

Feed == INSTANCE InsertionFeed
          WITH begun <- Seeded, pos <- saved.row, goal <- saved.through, owed <- OwedRows

(* The whole of the promise as one property: pinned ranges, a position that
   only advances, nothing delivered twice and nothing owed passed over.      *)
ImplementsFeed == Feed!Spec

-----------------------------------------------------------------------------
(***************************************************************************)
(* The inductive invariant behind the safety properties.                   *)
(***************************************************************************)
Answered == pc = "sent" /\ reply.ok
Low == IF Seeded THEN start ELSE req.cursor.row

(* A range ends at the seed, or at a row its database has used: no later
   insertion can fall inside it.                                            *)
Bounded(gen, low, through) ==
  gen = dbGen => through <= low \/ through <= lastRow

SavedInv ==
  IF Seeded
  THEN /\ saved \in Cursor /\ saved.form = "v2" /\ CursorAccepted(saved)
       /\ saved.gen <= dbGen
       /\ saved.notBefore => saved.row > 0 /\ horizon = saved.through
       /\ ~saved.notBefore => horizon <= saved.row
       /\ start <= saved.row
       /\ Bounded(saved.gen, start, saved.through)
       /\ \A r \in journal : r <= saved.row
  ELSE journal = {}

RequestInv ==
  pc # "idle" =>
    /\ req.cursor \in Cursor /\ req.cursor.gen <= dbGen
    /\ pc \in Working => req.cursor.gen = openGen
    /\ Seeded => req.cursor = saved
    /\ ~Seeded => /\ req.cursor.form \in {"initial", "v1"}
                  /\ CursorAccepted(req.cursor)
                  /\ req.cursor.through = 0 /\ ~req.cursor.complete
                  /\ req.cursor.notBefore => req.cursor.row = 0

(* What the page in hand covers, as long as its database is in place. *)
InPage(r) == req.cursor.row < r /\ r <= page.scanned

PageInv ==
  pc \in Scanned \/ Answered =>
    /\ openGen <= page.gen /\ page.gen <= dbGen
    /\ pc # "check" => page.gen = req.cursor.gen
    /\ page.scanned >= req.cursor.row /\ page.through >= page.scanned
    /\ page.complete <=> page.scanned = page.through
    /\ ~page.complete => page.scanned > req.cursor.row
    /\ EffectiveThrough(req.cursor) # 0 => page.through = EffectiveThrough(req.cursor)
    /\ page.gen = req.cursor.gen => Bounded(page.gen, Low, page.through)
    /\ \A r \in DOMAIN page.rows :
         /\ InPage(r)
         /\ EffectiveNotBefore(req.cursor) => page.rows[r].recent
    /\ page.gen = dbGen /\ req.cursor.gen = dbGen =>
         \A r \in DOMAIN rows :
           InPage(r) /\ (EffectiveNotBefore(req.cursor) => Selectable(rows[r])) =>
             r \in DOMAIN page.rows /\ page.rows[r] = rows[r]

ReplyInv ==
  Answered =>
    /\ reply.cursor = NextCursor(req.cursor, page)
    /\ reply.messages \subseteq DOMAIN page.rows
    /\ \A r \in reply.messages : page.rows[r].chat \in inForce
    /\ page.gen = dbGen =>
         \A r \in DOMAIN rows :
           /\ InPage(r)
           /\ rows[r].kind = "text" /\ rows[r].chat \notin denied
           /\ EffectiveNotBefore(req.cursor) => rows[r].recent
           => r \in reply.messages

PolicyInv ==
  /\ Chats \ granted \subseteq denied
  /\ pc = "serialize" /\ policyUp => granted \subseteq inForce

IInv == /\ TypeOK /\ SavedInv /\ RequestInv /\ PageInv /\ ReplyInv /\ PolicyInv
        /\ PagesAgree /\ NoSkip
=============================================================================
