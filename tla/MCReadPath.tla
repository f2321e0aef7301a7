----------------------------- MODULE MCReadPath -----------------------------
(* An instance of ReadPath for TLC: a friend's chat and a group. *)
EXTENDS ReadPath

(* Two spellings of the friend, one of the owner, and the name of a room. *)
MCSpellings == {"friend", "Friend", "me", "room"}
MCNormalize == [s \in MCSpellings |-> CASE s \in {"friend", "Friend"} -> "friend"
                                        [] s = "me" -> "me"
                                        [] s = "room" -> NotAnIdentity]

GUID(marker, handle) == [marker |-> marker, handle |-> handle]
Plain(marker, handle, name, group, participants) ==
  [guid |-> GUID(marker, handle), structured |-> FALSE, identifier |-> GUID(marker, handle),
   name |-> name, group |-> group, participants |-> participants, fit |-> TRUE, ours |-> TRUE]

Direct == Plain("-", "friend", "friend", "no", {"Friend"})
Room   == Plain("+", "room", "room", "yes", {"friend", "me"})

(* The friend's chat, also after somebody joined it; a group, also after a
   member left it.                                                          *)
MCChats == {Direct, [Direct EXCEPT !.participants = {"friend", "me"}],
            Room, [Room EXCEPT !.participants = {"friend"}]}

(* What the chat table may hold: nothing, one chat, or for listing two chats
   to show where one is asked for, and one to show beyond the scan bound.    *)
Other == [Direct EXCEPT !.ours = FALSE]
Listings == {<<Direct, Direct>>, <<Direct, Other, Other, Direct>>}

MCDatabases == {<<>>} \cup {<<c>> : c \in MCChats} \cup Listings


Message == [fit |-> TRUE, secret |-> FALSE, fromMe |-> FALSE, sender |-> "friend"]
MCClasses == {Message, [Message EXCEPT !.secret = TRUE]}

File(direct, excluded) ==
  [safe |-> TRUE, owners |-> {"me"}, direct |-> direct, excluded |-> excluded]
MCFiles == {File({"Friend"}, {}), File({}, {GUID("+", "room"), GUID("-", "friend")}),
            [File({}, {}) EXCEPT !.safe = FALSE]}
MCGrants == {NoGrants, {"friend", "me"}}
=============================================================================
