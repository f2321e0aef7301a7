--------------------------- MODULE InsertionFeed ----------------------------
(***************************************************************************)
(* What bounded collection promises a durable client (docs/rpc.md): a feed *)
(* of insertion rows read in ranges. A range has a fixed inclusive end,    *)
(* the client's position moves through it and never back, each step adds   *)
(* only rows it passes, and every row it passes that is owed.              *)
(***************************************************************************)
EXTENDS Naturals

VARIABLES
  begun,     \* whether the client has a position
  pos,       \* it has examined every row up to here
  goal,      \* the end of its range; the range is complete at pos = goal
  journal,   \* the rows delivered
  owed       \* rows now present that visibility rules oblige the feed to deliver

vars == <<begun, pos, goal, journal, owed>>

Init == begun = FALSE /\ pos = 0 /\ goal = 0 /\ journal = {} /\ owed = {}

(* A new row lies beyond the range being read. *)
Arrive ==
  /\ \E r \in owed' \ owed : r \in Nat /\ r > goal /\ owed' = owed \cup {r}
  /\ UNCHANGED <<begun, pos, goal, journal>>

(* A row is deleted, its conversation withheld, or the database replaced. *)
Withdraw ==
  /\ owed' \subseteq owed
  /\ UNCHANGED <<begun, pos, goal, journal>>

(* The first page, from the row or the horizon the client chose. *)
Begin ==
  /\ ~begun /\ begun' = TRUE
  /\ goal' \in Nat /\ pos' \in 0..goal'
  /\ owed' \subseteq Nat
  /\ journal' \subseteq 1..pos'
  /\ {r \in owed' : r <= pos'} \subseteq journal'

(* A page of the current range, or the first of the next one. *)
Deliver ==
  /\ begun /\ begun' = TRUE
  /\ IF pos < goal
     THEN goal' = goal /\ pos' \in pos + 1 .. goal
     ELSE goal' \in Nat /\ pos' \in pos .. goal'
  /\ journal \subseteq journal'
  /\ journal' \ journal \subseteq pos + 1 .. pos'
  /\ {r \in owed : pos < r /\ r <= pos'} \subseteq journal'
  /\ owed' = owed

(* The client's position belongs to another database and is abandoned. *)
Stop ==
  /\ begun /\ begun' = FALSE
  /\ pos' = 0 /\ goal' = 0 /\ journal' = {} /\ owed' = {}

Next == Arrive \/ Withdraw \/ Begin \/ Deliver \/ Stop

Spec == Init /\ [][Next]_vars

(* Nothing owed is behind the position and undelivered. *)
Complete == \A r \in owed : r <= pos => r \in journal
=============================================================================
