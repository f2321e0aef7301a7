--------------------------- MODULE CollectionPage ---------------------------
(***************************************************************************)
(* One page of the bounded collection protocol, as pure operators.         *)
(*                                                                         *)
(*  - the native overlay's scan of the Messages database                   *)
(*    (backend/imsg/MessageStore+SafeCollection.swift);                    *)
(*  - the Go adapter's argument guard and its check of the page            *)
(*    (internal/backend/collection.go);                                    *)
(*  - the cursor a client carries between pages and the checks the broker  *)
(*    makes when it comes back (internal/broker/cursor.go, server.go).     *)
(*                                                                         *)
(* A database is a function from the row IDs now present to rows. A row is *)
(* reduced to what the protocol tells apart: its kind, its conversation    *)
(* and whether its date satisfies the timestamp horizon. JSONL is ordered  *)
(* by row ID, so a page's rows are kept as a function on a set of IDs.     *)
(***************************************************************************)
EXTENDS Naturals, FiniteSets, FiniteSetsExt

CONSTANT Chats      \* conversations of the database

(***************************************************************************)
(* What safeCollectionRow does with a row:                                 *)
(*   text       a message with one conversation and safe metadata          *)
(*   unfit      a message the broker drops (exposeMessage, validChat)      *)
(*   skip       an empty envelope (reaction, payload, orphan, foreign)     *)
(*   ambiguous  throws, but the bootstrap query does not select it         *)
(*              (two conversations, text over its size bound)              *)
(*   corrupt    throws whichever query selected it (participants, handle)  *)
(***************************************************************************)
Kinds == {"text", "unfit", "skip", "ambiguous", "corrupt"}
Row == [kind : Kinds, chat : Chats, recent : BOOLEAN]

Unreadable(row) == row.kind \in {"ambiguous", "corrupt"}
Selectable(row) == row.recent /\ row.kind \in {"text", "unfit", "corrupt"}

Window(rows, low, high) == {r \in DOMAIN rows : low < r /\ r <= high}
Smallest(S, n) == {x \in S : Cardinality({y \in S : y < x}) < n}

(* The inclusive boundary: pinned by the caller, or captured now. The newest
   row may have been deleted, so it is never below the starting row.        *)
Upper(rows, after, through) ==
  IF through # 0 THEN through ELSE Max(DOMAIN rows \cup {after})

(* The guard of Process.Collect; 0 stands for an absent boundary. *)
CollectArgsOK(after, through, limit, notBefore) ==
  /\ limit >= 1
  /\ through # 0 => through >= after
  /\ notBefore => \/ after = 0 /\ through = 0
                  \/ after > 0 /\ through > 0

(* The rows one page selects: by insertion order, or by date in a bootstrap. *)
Eligible(rows, after, upper, notBefore) ==
  {r \in Window(rows, after, upper) : notBefore => Selectable(rows[r])}

PageIDs(rows, after, through, limit, notBefore) ==
  Smallest(Eligible(rows, after, Upper(rows, after, through), notBefore), limit)

(* One unreadable row fails the whole transaction and with it the page. *)
ScanThrows(rows, after, through, limit, notBefore) ==
  \E r \in PageIDs(rows, after, through, limit, notBefore) : Unreadable(rows[r])

(* bug: a full page is taken to mean that there is more *)
FullMeansMore(rows, after, through, limit, notBefore) ==
  LET upper == Upper(rows, after, through)
      ids   == PageIDs(rows, after, through, limit, notBefore)
      more  == Cardinality(ids) = limit
  IN  [rows     |-> [r \in ids |-> rows[r]],
       through  |-> upper,
       scanned  |-> IF more THEN Max(ids \cup {after}) ELSE upper,
       complete |-> ~more]

ScanPage(rows, after, through, limit, notBefore) ==
  LET upper == Upper(rows, after, through)
      ids   == PageIDs(rows, after, through, limit, notBefore)
      last  == Max(ids \cup {after})
      more  == Eligible(rows, last, upper, notBefore) # {}
  IN  [rows     |-> [r \in ids |-> rows[r]],
       through  |-> upper,
       scanned  |-> IF more THEN last ELSE upper,
       complete |-> ~more]

(* ValidateCollectionPage: checkpoint and rows must agree with the request. *)
ValidPage(page, after, through, limit) ==
  LET ids == DOMAIN page.rows
  IN  /\ page.through >= after
      /\ through # 0 => page.through = through
      /\ Cardinality(ids) <= limit
      /\ \A r \in ids : after < r /\ r <= page.through
      /\ IF page.complete
         THEN page.scanned = page.through
         ELSE /\ Cardinality(ids) = limit
              /\ \E last \in ids : /\ \A r \in ids : r <= last
                                   /\ last < page.through
                                   /\ page.scanned = last

-----------------------------------------------------------------------------
(***************************************************************************)
(* Cursors. "initial" is the cursor the broker builds from after_row_id    *)
(* and not_before, "v1" a legacy token, "v2" a sealed token it issued.     *)
(***************************************************************************)
Forms == {"initial", "v1", "v2"}
Cursor == [form : Forms, gen : Nat, row : Nat, through : Nat,
           complete : BOOLEAN, notBefore : BOOLEAN]

Pending(c) == c.form = "v2" /\ ~c.complete

InitialCursor(gen, row, notBefore) ==
  [form |-> "initial", gen |-> gen, row |-> row, through |-> 0,
   complete |-> FALSE, notBefore |-> notBefore]

LegacyCursor(gen, row) ==
  [form |-> "v1", gen |-> gen, row |-> row, through |-> 0,
   complete |-> FALSE, notBefore |-> FALSE]

NoPendingHorizon(c) == CASE c.form = "initial" -> TRUE     \* bug: a sealed
                         [] c.form = "v1"      -> c.row > 0  \* horizon is
                         [] c.form = "v2"      -> ~c.notBefore  \* refused
CursorAccepted(c) ==
  CASE c.form = "initial" -> c.notBefore => c.row = 0
    [] c.form = "v1"      -> c.row > 0 /\ c.through = 0 /\ ~c.complete
    [] c.form = "v2"      -> /\ c.through >= c.row
                             /\ c.complete <=> c.row = c.through
                             /\ c.notBefore => ~c.complete /\ c.through # 0

BoundaryForgotten(c) == 0              \* bug: every page captures a boundary
RangeNotReopened(c)  == c.through      \* bug: a completed range stays closed

(* What collect passes down: a completed cursor starts a fresh range. *)
EffectiveThrough(c)   == IF c.complete THEN 0 ELSE c.through
EffectiveNotBefore(c) == c.notBefore /\ ~c.complete

(* The cursor after a page, at a position and with a horizon. *)
Advanced(c, page, row, notBefore) ==
  [form |-> "v2", gen |-> c.gen, row |-> row, through |-> page.through,
   complete |-> row = page.through, notBefore |-> notBefore]

(* bugs: the position is one row low; the horizon outlives its range; the
   horizon is dropped after the first page                                 *)
CursorOneLow(c, page) ==
  Advanced(c, page, page.scanned - 1, c.notBefore /\ ~page.complete)
HorizonOutlives(c, page) == Advanced(c, page, page.scanned, c.notBefore)
HorizonDropped(c, page)  == Advanced(c, page, page.scanned, FALSE)

NextCursor(c, page) ==
  [form |-> "v2", gen |-> c.gen, row |-> page.scanned, through |-> page.through,
   complete |-> page.complete, notBefore |-> c.notBefore /\ ~page.complete]
=============================================================================
