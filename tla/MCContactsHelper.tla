--------------------------- MODULE MCContactsHelper ---------------------------
(* An instance of ContactsHelper for TLC: two accounts, three lists, two cards. *)
EXTENDS ContactsHelper

Holding(tables, first, second, x) ==
  [lists |-> tables, members |-> <<first, second, {}>>,
   card |-> [i \in {"x", "y"} |-> IF i = "x" THEN x ELSE "u"]]

OneList(ls) == [c \in {"c"} |-> ls]

(* A card on both lists, before and after it is edited; a card on each; a
   card that moved; a list too many; a list gone; the account gone.         *)
MCStores ==
  {Holding(OneList({1, 2}), {"x"}, {"x"}, "u"),
   Holding(OneList({1, 2}), {"x"}, {"x"}, "v"),
   Holding(OneList({1, 2}), {"x"}, {"y"}, "u"),
   Holding([c \in {"c", "d"} |-> IF c = "c" THEN {1, 2} ELSE {}], {}, {"x"}, "u"),
   Holding(OneList({1, 2, 3}), {"x"}, {"x"}, "u"),
   Holding([c \in {"d"} |-> {2}], {}, {"y"}, "u")}
=============================================================================
