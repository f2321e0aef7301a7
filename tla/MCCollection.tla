---------------------------- MODULE MCCollection ----------------------------
(* Instances of Collection for TLC: which rows may be inserted. *)
EXTENDS Collection

CONSTANT a      \* a conversation

Kind(kind, chat, recent) == [kind |-> kind, chat |-> chat, recent |-> recent]

(* Safety: a recent message and one older than the horizon. *)
MixedRows == {Kind("text", a, TRUE), Kind("text", a, FALSE)}

(* Liveness: every row is a message. *)
ReadableRows == {Kind("text", a, TRUE)}

(* A row linked to two conversations among ordinary ones. *)
AmbiguousRows == {Kind("text", a, TRUE), Kind("ambiguous", a, TRUE)}
=============================================================================
