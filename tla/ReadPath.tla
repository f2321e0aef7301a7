------------------------------ MODULE ReadPath ------------------------------
(***************************************************************************)
(* messages.list_chats, messages.history and messages.get_message: one     *)
(* request of each kind through the broker (internal/broker/server.go),    *)
(* with the backend processes it runs (internal/backend/backend.go) and    *)
(* the policy it loads (Policy), against a Messages database, a policy     *)
(* file and Contacts grants that change at any moment between two steps.   *)
(*                                                                         *)
(* The broker holds no lock: history reads the chat, then its messages, in *)
(* two processes, and the policy in two parts, the file and the grants.    *)
(***************************************************************************)
EXTENDS Policy, Sequences, FiniteSetsExt

CONSTANTS
  ChatIDs,        \* row IDs of chats, in the order the backend lists them
  ReadIDs,        \* bound on the chats clients name
  Databases,      \* what the chat table may hold: chats by row ID, fit or not
  Classes,        \* what a message may be
  Files,          \* contents the policy file may have
  Grants,         \* identities the Contacts snapshot may grant, or NoGrants
  Limits,         \* page limits a client may ask for
  MaxMessageScan, \* max_message_scan
  MaxChatScan,    \* max_chat_scan
  MaxMessages,    \* bound on messages
  MaxGen          \* bound on database replacements

NoGrants == {"nil"}

ASSUME LimitAssumption ==
  /\ Limits \subseteq Nat \ {0}
  /\ {MaxMessageScan, MaxChatScan} \subseteq Nat \ {0}
(* Row IDs of a table are numbers, and a table is finite. *)
ASSUME DatabaseAssumption ==
  /\ ChatIDs \subseteq Nat /\ IsFiniteSet(ChatIDs)
  /\ ReadIDs \subseteq ChatIDs /\ \A d \in Databases : DOMAIN d \subseteq ChatIDs
ASSUME BoundAssumption == {MaxMessages, MaxGen} \subseteq Nat
ASSUME GrantAssumption ==
  \A g \in Grants : g # NoGrants => NotAnIdentity \notin g

VARIABLES
  chats,      \* the chats now in the database, by row ID
  log,        \* their messages, newest first
  dbGen,      \* which database file is at the configured path
  openGen,    \* the file whose identity the broker recorded
  file,       \* the policy file
  grants,     \* what contacts.Manager.Get returns
  pc, stage,  \* where the handler is, and which of its reads is next or done
  req,        \* the request
  p,          \* the policy as loaded so far
  chat,       \* the chat the first read returned
  view,       \* the database as the last child process saw it
  inForce,    \* history: files and grants current at some time since that read
  reply       \* the response

dbVars == <<chats, log, dbGen>>
policyVars == <<file, grants>>
workVars == <<p, chat, view>>
vars == <<dbVars, openGen, policyVars, pc, stage, req, workVars, inForce, reply>>

NoPolicy == [owners |-> {}, direct |-> {}, excluded |-> {}]
NoChat == [none |-> TRUE]
NoView == [chats |-> [i \in {} |-> NoChat], log |-> [i \in {} |-> <<>>], gen |-> 0]
Nobody == [files |-> {}, grants |-> {}]
NoRequest == [method |-> "none", gen |-> 0, id |-> 0, limit |-> 1, guid |-> 0]

Answer(code, listed, messages, complete) ==
  [code |-> code, listed |-> listed, messages |-> messages, complete |-> complete]
Failure(code) == Answer(code, {}, {}, FALSE)

Init ==
  /\ chats \in Databases
  /\ log = [i \in ChatIDs |-> <<>>]
  /\ dbGen = 0 /\ openGen = 0
  /\ file \in Files /\ grants \in Grants
  /\ pc = "idle" /\ stage = "start" /\ req = NoRequest
  /\ p = NoPolicy /\ chat = NoChat /\ view = NoView
  /\ inForce = Nobody /\ reply = Failure("none")

-----------------------------------------------------------------------------
(* Messages and the owner. *)

Received == UNION {{log[i][k].guid : k \in DOMAIN log[i]} : i \in ChatIDs}

(* A message arrives, with a GUID of its own. *)
Receive(i, class) ==
  /\ i \in DOMAIN chats /\ Cardinality(Received) < MaxMessages
  /\ LET n == Cardinality(Received) + 1
     IN  log' = [log EXCEPT ![i] = <<[guid |-> n, class |-> class]>> \o @]
  /\ UNCHANGED <<chats, dbGen, openGen, policyVars, pc, stage, req, workVars, inForce, reply>>

(* Chats appear, or their members or metadata other than the GUID change. *)
ChangeChats(d) ==
  /\ d # chats /\ DOMAIN chats \subseteq DOMAIN d
  /\ \A i \in DOMAIN chats : d[i].guid = chats[i].guid
  /\ chats' = d
  /\ UNCHANGED <<log, dbGen, openGen, policyVars, pc, stage, req, workVars, inForce, reply>>

(* Another file is put at the database path; row IDs start over. *)
ReplaceDatabase ==
  /\ dbGen < MaxGen /\ dbGen' = dbGen + 1
  /\ chats' \in Databases
  /\ log' = [i \in ChatIDs |-> <<>>]
  /\ UNCHANGED <<openGen, policyVars, pc, stage, req, workVars, inForce, reply>>

(* The data a response will carry has been read. *)
AfterScan == stage \in {"list", "history"} /\ pc \in {"exit", "file", "contacts", "serialize"}

EditFile(f) ==
  /\ f # file /\ file' = f
  /\ inForce' = IF AfterScan THEN [inForce EXCEPT !.files = @ \cup {f}] ELSE inForce
  /\ UNCHANGED <<dbVars, openGen, grants, pc, stage, req, workVars, reply>>

(* A refresh of the Contacts snapshot ends, or the snapshot expires. *)
ChangeGrants(g) ==
  /\ g # grants /\ grants' = g
  /\ inForce' = IF AfterScan THEN [inForce EXCEPT !.grants = @ \cup {g}] ELSE inForce
  /\ UNCHANGED <<dbVars, openGen, file, pc, stage, req, workVars, reply>>

-----------------------------------------------------------------------------
(* The handler: a response, and an error that drops what the handler had. *)
Send(answer) ==
  /\ pc' = "sent" /\ reply' = answer
  /\ UNCHANGED <<dbVars, openGen, policyVars, stage, req, workVars, inForce>>
Refuse(code) ==
  /\ pc' = "sent" /\ reply' = Failure(code)
  /\ p' = NoPolicy /\ chat' = NoChat /\ view' = NoView /\ inForce' = Nobody
  /\ UNCHANGED <<dbVars, openGen, policyVars, stage, req>>

Goto(place, next) ==
  /\ pc' = place /\ stage' = next
  /\ UNCHANGED <<dbVars, openGen, policyVars, req, reply>>

(* Parameters and generation; listing names no generation. *)
Accept ==
  /\ pc = "accept"
  /\ \/ req.method # "list" /\ req.gen # openGen /\ Refuse("stale_generation")
     \/ req.method # "list" /\ req.gen = openGen
          /\ Goto("file", "start") /\ UNCHANGED <<workVars, inForce>>
     \/ req.method = "list" /\ Goto("begin", "list") /\ UNCHANGED <<workVars, inForce>>

(* loadPolicy: the policy file, then the Contacts grants. *)
LoadFile ==
  /\ pc = "file"
  /\ \/ ~LoadOK(file) /\ Refuse("policy_unavailable")
     \/ /\ LoadOK(file)
        /\ p' = Load(file)
        /\ Goto("contacts", stage) /\ UNCHANGED <<chat, view, inForce>>

LoadGrants ==
  /\ pc = "contacts"
  /\ \/ grants = NoGrants /\ Refuse("policy_unavailable")
     \/ /\ grants # NoGrants
        /\ p' = WithDirect(p, grants)
        /\ IF stage = "start" THEN Goto("begin", "chat") ELSE Goto("serialize", stage)
        /\ UNCHANGED <<chat, view, inForce>>

(* Process.run: an identity check, the child's reads, another check. *)
BeginRead ==
  /\ pc = "begin"
  /\ IF dbGen = openGen
     THEN Goto("scan", stage) /\ UNCHANGED <<workVars, inForce>>
     ELSE Refuse("backend_unavailable")

Scan ==
  /\ pc = "scan"
  /\ view' = [chats |-> chats, gen |-> dbGen,
              log |-> IF stage = "history" THEN log ELSE NoView.log]
  /\ inForce' = IF stage = "chat" THEN Nobody
                ELSE [files |-> {file}, grants |-> {grants}]
  /\ Goto("exit", stage) /\ UNCHANGED <<p, chat>>

(* bug: the file is only checked before the child runs *)
AnyDatabase == TRUE
SameDatabase == dbGen = openGen

(* bug: a history is served under the policy loaded before it was read *)
PolicyKept == IF stage = "history" THEN "serialize" ELSE "file"
AfterRead == "file"

(* authorizedChat, on what the first child returned. *)
Found == view.chats[req.id]
ChatRefusal ==
  CASE req.id \notin DOMAIN view.chats -> "backend_unavailable"
    [] req.id \in DOMAIN view.chats /\ ~Found.fit -> "backend_invalid"
    [] req.id \in DOMAIN view.chats /\ Found.fit /\ ~(Found.ours /\ Allowed(p, Found)) -> "not_visible"
    [] OTHER -> "none"

EndRead ==
  /\ pc = "exit"
  /\ \/ ~SameDatabase /\ Refuse("backend_unavailable")
     \/ /\ SameDatabase /\ stage # "chat"
        /\ Goto(AfterRead, stage) /\ UNCHANGED <<workVars, inForce>>
     \/ SameDatabase /\ stage = "chat" /\ ChatRefusal # "none" /\ Refuse(ChatRefusal)
     \/ /\ SameDatabase /\ stage = "chat" /\ ChatRefusal = "none"
        /\ chat' = Found
        /\ view' = NoView
        /\ Goto("begin", "history") /\ UNCHANGED <<p, inForce>>

-----------------------------------------------------------------------------
(* bug: the bound is checked after the append *)
OneTooMany(S, n) == {x \in S : Cardinality({y \in S : y < x}) <= n}
First(S, n) == {x \in S : Cardinality({y \in S : y < x}) < n}

(* The chats one scan returns, and those the policy shows. *)
ScannedChats == First(DOMAIN view.chats, MaxChatScan)
ShownChats == {i \in ScannedChats : view.chats[i].ours /\ Allowed(p, view.chats[i])}

(* bug: a full page is called complete *)
FullIsComplete(n, bound) == n <= bound
Complete(n, bound) == n < bound

ListReply ==
  IF \E i \in ScannedChats : ~view.chats[i].fit
  THEN Failure("backend_invalid")
  ELSE Answer("ok", First(ShownChats, req.limit), {},
              /\ Complete(Cardinality(ScannedChats), MaxChatScan)
              /\ Cardinality(ShownChats) <= req.limit)

(* Every row carries the conversation as the second child read it. *)
RowConversation == view.chats[req.id]

(* sameConversation: the row and the chat were one conversation throughout. *)
AuthorizedTogether == Allowed(p, RowConversation) = Allowed(p, chat)   \* bug: metadata may differ
SameConversation ==
  LET row == RowConversation
  IN  /\ row.guid = chat.guid /\ row.group = chat.group /\ chat.group # "absent"
      /\ row.structured = chat.structured /\ row.name = chat.name
      /\ row.identifier = chat.identifier
      /\ Valid(row) /\ Valid(chat)
      /\ Allowed(p, row) = Allowed(p, chat)
      /\ Members(row) = Members(chat)

(* filter.Suppress: which texts look like authentication codes is data. *)
Suppress(m) == m.class.secret

(* exposeMessage: unsafe metadata is an error, a suppressed text is hidden. *)
Unsafe(m) ==
  \/ ~m.class.fit \/ ~SameConversation
  \/ ~Suppress(m) /\ ~m.class.fromMe
       /\ Normalize[m.class.sender] \notin Members(RowConversation) \ {NotAnIdentity}
Shown(m) == ~Unsafe(m) /\ ~Suppress(m) /\ Allowed(p, RowConversation)

Min2(m, n) == IF m < n THEN m ELSE n
(* bug: the bound on rows is checked one row late *)
OneRowMore(n) == LET rows == view.log[req.id] IN SubSeq(rows, 1, Min2(n + 1, Len(rows)))
RowsOf(n) == LET rows == view.log[req.id] IN SubSeq(rows, 1, Min2(n, Len(rows)))
Elements(rows) == {rows[k] : k \in DOMAIN rows}

HistoryReply ==
  LET rows == RowsOf(req.limit)
  IN  IF \E m \in Elements(rows) : Unsafe(m)
      THEN Failure("backend_invalid")
      ELSE Answer("ok", {}, {m \in Elements(rows) : Shown(m)}, Complete(Len(rows), req.limit))

(* The first row with the GUID decides. *)
MessageReply ==
  LET rows == RowsOf(MaxMessageScan)
      hits == {m \in Elements(rows) : m.guid = req.guid}
  IN  CASE \E m \in hits : Unsafe(m) -> Failure("backend_invalid")
        [] \E m \in hits : ~Unsafe(m) /\ ~Shown(m) -> Failure("not_visible")
        [] \E m \in hits : Shown(m) -> Answer("ok", {}, hits, FALSE)
        [] hits = {} -> IF Complete(Len(rows), MaxMessageScan)
                        THEN Failure("not_found") ELSE Failure("lookup_incomplete")

(* The response, under the policy loaded after the last read. *)
Serialize ==
  /\ pc = "serialize"
  /\ CASE stage = "list" -> Send(ListReply)
       [] stage = "history" /\ ~Allowed(p, chat) -> Refuse("not_visible")
       [] stage = "history" /\ Allowed(p, chat) ->
            Send(IF req.method = "history" THEN HistoryReply ELSE MessageReply)

Working == {"accept", "file", "contacts", "begin", "scan", "exit", "serialize"}

(* A child fails, or the request's deadline passes. *)
BackendFails == pc \in {"scan", "exit"} /\ Refuse("backend_unavailable")
Timeout == pc \in Working /\ Refuse("backend_timeout")

EndRequest ==
  /\ pc' = "idle" /\ stage' = "start" /\ req' = NoRequest
  /\ p' = NoPolicy /\ chat' = NoChat /\ view' = NoView
  /\ inForce' = Nobody /\ reply' = Failure("none")

Restart == EndRequest /\ openGen' = dbGen /\ UNCHANGED <<dbVars, policyVars>>

-----------------------------------------------------------------------------
(* A client asks with a generation some broker has told it. *)
Request(method) ==
  /\ pc = "idle" /\ pc' = "accept"
  /\ \E gen \in 0..dbGen, id \in ReadIDs, limit \in Limits, guid \in 1..MaxMessages :
       req' = CASE method = "list" -> [NoRequest EXCEPT !.method = method, !.limit = limit]
                [] method = "history" ->
                     [NoRequest EXCEPT !.method = method, !.gen = gen, !.id = id, !.limit = limit]
                [] method = "get" ->
                     [NoRequest EXCEPT !.method = method, !.gen = gen, !.id = id, !.guid = guid]
  /\ UNCHANGED <<dbVars, openGen, policyVars, stage, workVars, inForce, reply>>

Receipt == pc = "sent" /\ EndRequest /\ UNCHANGED <<dbVars, openGen, policyVars>>

Environment ==
  \/ \E i \in ReadIDs, class \in Classes : Receive(i, class)
  \/ \E d \in Databases : ChangeChats(d)
  \/ ReplaceDatabase
  \/ \E f \in Files : EditFile(f)
  \/ \E g \in Grants : ChangeGrants(g)

Broker == Accept \/ LoadFile \/ LoadGrants \/ BeginRead \/ Scan \/ EndRead \/ Serialize
            \/ BackendFails \/ Timeout \/ Restart

Next == Environment \/ Broker \/ Receipt
          \/ \E method \in {"list", "history", "get"} : Request(method)

Spec == Init /\ [][Next]_vars

-----------------------------------------------------------------------------
ReplyCodes == {"none", "ok", "stale_generation", "policy_unavailable", "backend_unavailable",
               "backend_invalid", "backend_timeout", "not_visible", "not_found",
               "lookup_incomplete"}

(* Every variable has its type, and no answer exceeds the limit asked for. *)
TypeOK ==
  /\ chats \in Databases /\ DOMAIN log = ChatIDs
  /\ dbGen \in 0..MaxGen /\ openGen \in 0..dbGen
  /\ file \in Files /\ grants \in Grants
  /\ pc \in {"idle", "sent"} \cup Working /\ stage \in {"start", "list", "chat", "history"}
  /\ req.id \in ChatIDs \cup {0} /\ req.limit \in Limits \cup {1}
  /\ inForce.files \subseteq Files /\ inForce.grants \subseteq Grants
  /\ reply.code \in ReplyCodes /\ reply.complete \in BOOLEAN
  /\ Cardinality(reply.listed) <= req.limit
  /\ req.method = "history" => Cardinality(reply.messages) <= req.limit

Answered == pc = "sent" /\ reply.code = "ok"

(* Both parts of the policy current at some time since the last read. *)
Granted(c) ==
  \E f \in inForce.files, g \in inForce.grants :
    f.safe /\ g # NoGrants /\ Whitelisted(f, g, c)

(* Whatever the owner changes while children run, a conversation or a message
   is disclosed only if the whitelist, as in force after the data was read,
   admits the conversation the data came with. An exclusion outranks every
   grant, and the owner's own identities are never granted.                   *)
DisclosedIsGranted ==
  Answered => /\ \A i \in reply.listed : Granted(view.chats[i])
              /\ reply.messages # {} => Granted(RowConversation)

(* Messages of one response are of the conversation the client named and the
   broker authorized: the chat does not change its members or its identity
   between the two reads unnoticed (sameConversation).                       *)
OneConversation ==
  Answered /\ reply.messages # {} =>
    RowConversation.guid = chat.guid /\ Members(RowConversation) = Members(chat)

(* Data goes out under the generation of the database it was read from. *)
OneDatabase == Answered => view.gen = openGen

(* scan_complete: nothing visible in what was scanned has been left out. *)
CompleteMeansAll ==
  Answered /\ reply.complete =>
    IF req.method = "list"
    THEN \A i \in DOMAIN view.chats :
           view.chats[i].ours /\ Allowed(p, view.chats[i]) => i \in reply.listed
    ELSE \A m \in Elements(view.log[req.id]) : Shown(m) => m \in reply.messages

(* "not_found" is said only of a GUID the conversation does not have;
   otherwise the lookup is incomplete.                                       *)
NotFoundMeansAbsent ==
  pc = "sent" /\ reply.code = "not_found" =>
    \A m \in Elements(view.log[req.id]) : m.guid # req.guid
=============================================================================
