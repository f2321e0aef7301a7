--------------------------- MODULE ReadPath_proofs ---------------------------
(***************************************************************************)
(* What ReadPath discloses, for every whitelist, database and interleaving *)
(* of the owner's edits with the handler's steps.                          *)
(*                                                                         *)
(* A policy is assembled from two reads, so the invariant follows the two  *)
(* parts: each was current after the data was read, the file when it was   *)
(* loaded and the grants when they were added. What Authorize then admits  *)
(* is what those two parts whitelist. The reads themselves are framed by   *)
(* identity checks, so the generation in a view can only be the broker's.  *)
(*                                                                         *)
(* A second invariant follows the data: what a view holds, how many of it  *)
(* a reply takes, and that a reply which says it is complete, or that a    *)
(* message is absent, has counted fewer rows than its bound. A third       *)
(* follows the GUIDs, which say that one row is one message.               *)
(***************************************************************************)
EXTENDS ReadPath, FiniteSetTheorems, TLAPS

(* For its lemmas about least and greatest naturals. *)
Paging == INSTANCE CollectionPage_proofs WITH Chats <- {}

(* Authorize, on a loaded file and derived identities, decides a valid
   conversation exactly as the whitelist says, and admits no invalid one.    *)
THEOREM AuthorizeIsWhitelist ==
  ASSUME NEW f, NEW g, NEW c
  PROVE  Allowed(WithDirect(Load(f), g), c) <=> Valid(c) /\ Whitelisted(f, g, c)
<1> DEFINE q == WithDirect(Load(f), g)
<1>1. /\ q.owners = Named(f.owners) /\ q.excluded = f.excluded
      /\ q.direct = Named(f.direct) \cup (g \ Named(f.owners))
  BY DEF WithDirect, Load
<1>2. Allowed(q, c) <=> Valid(c) /\ Admits(q, c)
  BY DEF Allowed, Authorize
<1>3. ASSUME Valid(c), ~IsGroup(c) PROVE Members(c) = {Peer(c)}
  BY <1>3 DEF Valid, Peer
<1>4. ASSUME Valid(c) PROVE Admits(q, c) <=> Whitelisted(f, g, c)
  <2>1. CASE IsGroup(c)
    BY <1>1, <2>1 DEF Admits, Whitelisted
  <2>2. CASE ~IsGroup(c)
    BY <1>1, <1>3, <1>4, <2>2 DEF Admits, Whitelisted
  <2> QED
    BY <2>1, <2>2
<1> HIDE DEF q
<1>5. Allowed(q, c) <=> Valid(c) /\ Whitelisted(f, g, c)
  BY <1>2, <1>4
<1> QED
  BY <1>5 DEF q

-----------------------------------------------------------------------------
Reading == {"list", "chat", "history"}
Carried == {"list", "history"}

(* Which reads can be under way, or done, at each point of the handler. *)
StageInv ==
  /\ pc \in {"begin", "scan", "exit"} => stage \in Reading
  /\ pc \in {"file", "contacts"} => stage \in {"start"} \cup Carried
  /\ pc = "serialize" => stage \in Carried

(* Since the data was read, the histories hold what is current now, ... *)
CurrentInv == AfterScan => file \in inForce.files /\ grants \in inForce.grants

(* ... a file loaded since then was current, ... *)
PartInv ==
  pc = "contacts" /\ stage \in Carried => \E f \in inForce.files : f.safe /\ p = Load(f)

(* ... and a whole policy is made of two such parts. *)
WholeInv ==
  pc = "serialize" \/ Answered =>
    \E f \in inForce.files, g \in inForce.grants :
      f.safe /\ g # NoGrants /\ p = WithDirect(Load(f), g)

(* What an answer shows, the policy in hand admits. *)
ShownInv ==
  Answered =>
    /\ \A i \in reply.listed : Allowed(p, view.chats[i])
    /\ reply.messages # {} => SameConversation /\ Allowed(p, RowConversation)

GenerationInv ==
  /\ dbGen \in Nat /\ openGen \in Nat /\ openGen <= dbGen
  /\ pc = "exit" => view.gen \in Nat /\ openGen <= view.gen /\ view.gen <= dbGen
  /\ pc \in {"file", "contacts", "serialize"} /\ stage \in Carried => view.gen = openGen
  /\ Answered => view.gen = openGen

IInv == StageInv /\ CurrentInv /\ PartInv /\ WholeInv /\ ShownInv /\ GenerationInv

LEMMA IInvInit == Init => IInv
  BY DEF Init, IInv, StageInv, CurrentInv, AfterScan, PartInv, WholeInv, ShownInv,
         GenerationInv, Answered, Failure, Answer, Carried, Reading

(* A refusal shows nothing, whatever it drops. *)
LEMMA RefusalStep ==
  ASSUME IInv, NEW code, code # "ok", Refuse(code)
  PROVE  IInv'
<1>1. pc' = "sent" /\ reply'.code = code /\ UNCHANGED <<dbGen, openGen>>
  BY DEF Refuse, Failure, Answer, dbVars
<1>2. ~Answered'
  BY <1>1 DEF Answered
<1> QED
  BY <1>1, <1>2 DEF IInv, StageInv, CurrentInv, AfterScan, PartInv, WholeInv, ShownInv,
                    GenerationInv

(* So does the end of a request. *)
LEMMA EndStep ==
  ASSUME IInv, EndRequest, dbGen' = dbGen, openGen' \in {openGen, dbGen}
  PROVE  IInv'
<1>1. pc' = "idle" /\ ~Answered'
  BY DEF EndRequest, Answered
<1> QED
  BY <1>1 DEF IInv, StageInv, CurrentInv, AfterScan, PartInv, WholeInv, ShownInv,
              GenerationInv

(* What a reply to each method shows is admitted. *)
LEMMA RepliesShow ==
  /\ \A i \in ListReply.listed : Allowed(p, view.chats[i])
  /\ ListReply.messages = {}
  /\ HistoryReply.listed = {} /\ MessageReply.listed = {}
  /\ HistoryReply.messages # {} \/ MessageReply.messages # {} =>
       SameConversation /\ Allowed(p, RowConversation)
<1>1. \A i \in First(ShownChats, req.limit) : Allowed(p, view.chats[i])
  BY DEF First, ShownChats
<1>2. (\A i \in ListReply.listed : Allowed(p, view.chats[i])) /\ ListReply.messages = {}
  BY <1>1 DEF ListReply, Failure, Answer
<1>3. \A m : Shown(m) => SameConversation /\ Allowed(p, RowConversation)
  BY DEF Shown, Unsafe
<1>4. HistoryReply.listed = {}
      /\ \A m \in HistoryReply.messages : Shown(m)
  BY DEF HistoryReply, Failure, Answer
<1>5. MessageReply.listed = {}
      /\ (MessageReply.messages # {} => \E m : Shown(m))
  <2> DEFINE rows == RowsOf(MaxMessageScan)
             hits == {m \in Elements(rows) : m.guid = req.guid}
  <2>1. CASE \E m \in hits : Unsafe(m)
    BY <2>1 DEF MessageReply, Failure, Answer
  <2>2. CASE ~(\E m \in hits : Unsafe(m)) /\ hits = {}
    BY <2>2 DEF MessageReply, Failure, Answer
  <2>3. CASE ~(\E m \in hits : Unsafe(m)) /\ hits # {}
    BY <2>3 DEF MessageReply, Failure, Answer
  <2> QED
    BY <2>1, <2>2, <2>3
<1> QED
  BY <1>2, <1>3, <1>4, <1>5

(* The handler answers by its method, or refuses a chat no longer allowed. *)
LEMMA SerializeCases ==
  ASSUME Serialize, stage \in {"list", "history"}
  PROVE  \/ stage = "list" /\ Send(ListReply)
         \/ stage = "history" /\ req.method = "history" /\ Send(HistoryReply)
         \/ stage = "history" /\ req.method # "history" /\ Send(MessageReply)
         \/ Refuse("not_visible")
<1>1. CASE stage = "list"
  BY <1>1 DEF Serialize
<1>2. CASE stage = "history" /\ Allowed(p, chat) /\ req.method = "history"
  BY <1>2 DEF Serialize
<1>3. CASE stage = "history" /\ Allowed(p, chat) /\ req.method # "history"
  BY <1>3 DEF Serialize
<1>4. CASE stage = "history" /\ ~Allowed(p, chat)
  BY <1>4 DEF Serialize
<1> QED BY <1>1, <1>2, <1>3, <1>4

LEMMA IInvStep == IInv /\ [Next]_vars => IInv'
<1> SUFFICES ASSUME IInv, [Next]_vars PROVE IInv'
  OBVIOUS
<1> USE DEF IInv
<1>1. ASSUME UNCHANGED <<openGen, file, grants, pc, stage, req, workVars, inForce, reply>>,
             dbGen' \in {dbGen, dbGen + 1}
      PROVE  IInv'
  <2>1. /\ Answered' = Answered /\ AfterScan' = AfterScan
        /\ SameConversation' = SameConversation /\ RowConversation' = RowConversation
    BY <1>1 DEF Answered, AfterScan, SameConversation, RowConversation, workVars, Allowed
  <2>2. StageInv' /\ CurrentInv' /\ PartInv' /\ WholeInv' /\ ShownInv'
    BY <1>1, <2>1 DEF StageInv, CurrentInv, PartInv, WholeInv, ShownInv, workVars, Allowed
  <2>3. GenerationInv'
    BY <1>1, <2>1 DEF GenerationInv, workVars
  <2> QED
    BY <2>2, <2>3
<1>2. CASE Environment
  <2>1. CASE \E i \in ReadIDs, class \in Classes : Receive(i, class)
    BY <1>1, <2>1 DEF Receive, policyVars
  <2>2. CASE \E d \in Databases : ChangeChats(d)
    BY <1>1, <2>2 DEF ChangeChats, policyVars
  <2>3. CASE ReplaceDatabase
    BY <1>1, <2>3 DEF ReplaceDatabase, policyVars
  <2>4. CASE (\E f \in Files : EditFile(f)) \/ (\E g \in Grants : ChangeGrants(g))
    <3>1. /\ UNCHANGED <<dbGen, openGen, pc, stage, req, p, chat, view, reply>>
          /\ ~AfterScan => inForce' = inForce
      BY <2>4 DEF EditFile, ChangeGrants, dbVars, workVars
    <3>2. /\ Answered' = Answered /\ AfterScan' = AfterScan
          /\ SameConversation' = SameConversation /\ RowConversation' = RowConversation
      BY <3>1 DEF Answered, AfterScan, SameConversation, RowConversation, Allowed
    <3>3. AfterScan => /\ inForce.files \subseteq inForce'.files
                       /\ inForce.grants \subseteq inForce'.grants
                       /\ file' \in inForce'.files /\ grants' \in inForce'.grants
      <4>1. ASSUME NEW f \in Files, EditFile(f), AfterScan
            PROVE  /\ inForce'.files = inForce.files \cup {f} /\ file' = f
                   /\ inForce'.grants = inForce.grants /\ grants' = grants
        BY <4>1 DEF EditFile
      <4>2. ASSUME NEW g \in Grants, ChangeGrants(g), AfterScan
            PROVE  /\ inForce'.grants = inForce.grants \cup {g} /\ grants' = g
                   /\ inForce'.files = inForce.files /\ file' = file
        BY <4>2 DEF ChangeGrants
      <4> QED
        BY <2>4, <4>1, <4>2 DEF CurrentInv
    <3>4. Answered => inForce' = inForce
      BY <3>1 DEF Answered, AfterScan
    <3>5. pc = "serialize" \/ (pc = "contacts" /\ stage \in Carried) => AfterScan
      BY DEF AfterScan, StageInv, Carried
    <3>6. StageInv' /\ CurrentInv' /\ ShownInv' /\ GenerationInv'
      BY <3>1, <3>2, <3>3 DEF StageInv, CurrentInv, ShownInv, GenerationInv, Allowed
    <3>7. PartInv' /\ WholeInv'
      BY <3>1, <3>2, <3>3, <3>4, <3>5 DEF PartInv, WholeInv
    <3> QED
      BY <3>6, <3>7
  <2> QED
    BY <1>2, <2>1, <2>2, <2>3, <2>4 DEF Environment
<1>3. CASE Accept
  <2>1. CASE Refuse("stale_generation")
    BY <2>1, RefusalStep
  <2>2. CASE Goto("file", "start") \/ Goto("begin", "list")
    BY <2>2 DEF Goto, dbVars, StageInv, CurrentInv, AfterScan, PartInv, WholeInv, ShownInv,
                GenerationInv, Answered, Carried, Reading
  <2> QED
    BY <1>3, <2>1, <2>2 DEF Accept
<1>4. CASE LoadFile
  <2>1. CASE Refuse("policy_unavailable")
    BY <2>1, RefusalStep
  <2>2. CASE LoadOK(file) /\ p' = Load(file) /\ Goto("contacts", stage)
               /\ UNCHANGED <<chat, view, inForce>>
    <3>1. /\ pc = "file" /\ pc' = "contacts" /\ ~Answered'
          /\ UNCHANGED <<dbGen, openGen, file, grants, stage, view, inForce>>
      BY <1>4, <2>2 DEF LoadFile, Goto, dbVars, policyVars, Answered
    <3>2. PartInv'
      BY <2>2, <3>1 DEF PartInv, CurrentInv, AfterScan, Carried, LoadOK
    <3> QED
      BY <3>1, <3>2 DEF StageInv, CurrentInv, AfterScan, WholeInv, ShownInv, GenerationInv
  <2> QED
    BY <1>4, <2>1, <2>2 DEF LoadFile
<1>5. CASE LoadGrants
  <2>1. CASE Refuse("policy_unavailable")
    BY <2>1, RefusalStep
  <2>2. CASE ~Refuse("policy_unavailable")
    <3>1. /\ pc = "contacts" /\ grants # NoGrants /\ p' = WithDirect(p, grants)
          /\ UNCHANGED <<dbGen, openGen, file, grants, view, inForce, reply>>
          /\ IF stage = "start" THEN pc' = "begin" /\ stage' = "chat"
                                ELSE pc' = "serialize" /\ stage' = stage
      BY <1>5, <2>2 DEF LoadGrants, Goto, dbVars, policyVars
    <3>2. ~Answered'
      BY <3>1 DEF Answered
    <3>3. CASE stage = "start"
      BY <3>1, <3>2, <3>3 DEF StageInv, CurrentInv, AfterScan, PartInv, WholeInv, ShownInv,
                              GenerationInv, Reading
    <3>4. CASE stage # "start"
      <4>1. stage \in Carried /\ AfterScan
        BY <3>1, <3>4 DEF StageInv, AfterScan, Carried
      <4>2. WholeInv'
        BY <3>1, <3>2, <3>4, <4>1 DEF WholeInv, PartInv, CurrentInv, WithDirect
      <4> QED
        BY <3>1, <3>2, <3>4, <4>1, <4>2
        DEF StageInv, CurrentInv, AfterScan, PartInv, ShownInv, GenerationInv
    <3> QED
      BY <3>3, <3>4
  <2> QED
    BY <2>1, <2>2
<1>6. CASE BeginRead
  <2>1. CASE Refuse("backend_unavailable")
    BY <2>1, RefusalStep
  <2>2. CASE Goto("scan", stage)
    BY <1>6, <2>2 DEF BeginRead, Goto, dbVars, StageInv, CurrentInv, AfterScan, PartInv,
                      WholeInv, ShownInv, GenerationInv, Answered
  <2> QED
    BY <1>6, <2>1, <2>2 DEF BeginRead
<1>7. CASE Scan
  <2>1. /\ pc = "scan" /\ pc' = "exit" /\ stage' = stage /\ ~Answered'
        /\ view'.gen = dbGen /\ UNCHANGED <<dbGen, openGen, file, grants>>
    BY <1>7 DEF Scan, Goto, dbVars, policyVars, Answered
  <2>2. stage # "chat" => inForce'.files = {file} /\ inForce'.grants = {grants}
    BY <1>7 DEF Scan
  <2>3. stage \in Reading
    BY <1>7 DEF Scan, StageInv
  <2> QED
    BY <2>1, <2>2, <2>3 DEF StageInv, CurrentInv, AfterScan, PartInv, WholeInv, ShownInv,
                            GenerationInv
<1>8. CASE EndRead
  <2>0. pc = "exit" /\ stage \in Reading
    BY <1>8 DEF EndRead, StageInv
  <2>1. CASE \E code : code # "ok" /\ Refuse(code)
    BY <2>1, RefusalStep
  <2>2. CASE SameDatabase /\ stage # "chat" /\ Goto(AfterRead, stage)
               /\ UNCHANGED <<workVars, inForce>>
    <3>1. /\ pc' = "file" /\ stage' = stage /\ ~Answered' /\ view.gen = openGen
          /\ UNCHANGED <<dbGen, openGen, file, grants, view, inForce>>
      BY <2>0, <2>2 DEF Goto, AfterRead, dbVars, policyVars, workVars, Answered, SameDatabase,
                        GenerationInv
    <3> QED
      BY <2>0, <2>2, <3>1 DEF StageInv, CurrentInv, AfterScan, PartInv, WholeInv, ShownInv,
                              GenerationInv, Reading, Carried
  <2>3. CASE Goto("begin", "history")
    BY <2>3 DEF Goto, dbVars, StageInv, CurrentInv, AfterScan, PartInv, WholeInv, ShownInv,
                GenerationInv, Answered, Reading
  <2>4. ChatRefusal # "ok"
    BY DEF ChatRefusal
  <2> QED
    BY <1>8, <2>1, <2>2, <2>3, <2>4 DEF EndRead
<1>9. CASE Serialize
  <2>0. pc = "serialize" /\ stage \in Carried /\ view.gen = openGen
    BY <1>9 DEF Serialize, StageInv, GenerationInv
  <2>1. CASE Refuse("not_visible")
    BY <2>1, RefusalStep
  <2>2. ASSUME NEW answer \in {ListReply, HistoryReply, MessageReply}, Send(answer)
        PROVE  IInv'
    <3>1. /\ pc' = "sent" /\ reply' = answer
          /\ UNCHANGED <<dbGen, openGen, stage, req, p, chat, view, inForce>>
      BY <2>2 DEF Send, dbVars, workVars
    <3>2. SameConversation' = SameConversation /\ RowConversation' = RowConversation
      BY <3>1 DEF SameConversation, RowConversation, Allowed
    <3>3. ShownInv'
      BY <2>2, <3>1, <3>2, RepliesShow DEF ShownInv, Allowed
    <3>4. WholeInv' /\ GenerationInv'
      BY <2>0, <3>1 DEF WholeInv, GenerationInv, Answered
    <3> QED
      BY <3>1, <3>3, <3>4 DEF StageInv, CurrentInv, AfterScan, PartInv
  <2>3. \/ Refuse("not_visible")
        \/ \E answer \in {ListReply, HistoryReply, MessageReply} : Send(answer)
    BY <1>9, <2>0, SerializeCases DEF Carried
  <2> QED
    BY <2>1, <2>2, <2>3
<1>10. CASE BackendFails \/ Timeout
  BY <1>10, RefusalStep DEF BackendFails, Timeout
<1>11. CASE Restart \/ Receipt
  BY <1>11, EndStep DEF Restart, Receipt, dbVars
<1>12. CASE \E method \in {"list", "history", "get"} : Request(method)
  <2>1. /\ pc' = "accept" /\ ~Answered'
        /\ UNCHANGED <<dbGen, openGen, stage>>
    BY <1>12 DEF Request, dbVars, Answered
  <2> QED
    BY <2>1 DEF StageInv, CurrentInv, AfterScan, PartInv, WholeInv, ShownInv, GenerationInv
<1>13. CASE UNCHANGED vars
  BY <1>1, <1>13 DEF vars, dbVars, policyVars
<1> QED
  BY <1>2, <1>3, <1>4, <1>5, <1>6, <1>7, <1>8, <1>9, <1>10, <1>11, <1>12, <1>13 DEF Next, Broker

(* The inductive invariant holds in every state of every behaviour. *)
THEOREM Invariance == Spec => []IInv
  BY IInvInit, IInvStep, PTL DEF Spec

(* Nothing is disclosed but what the policy in force after its read
   whitelists, whatever the owner changes meanwhile (server.go: listChats,
   history, getMessage, loadPolicy).                                         *)
THEOREM DisclosureGranted == Spec => []DisclosedIsGranted
<1>1. IInv => DisclosedIsGranted
  <2> SUFFICES ASSUME IInv, Answered PROVE DisclosedIsGranted
    BY DEF DisclosedIsGranted
  <2>1. PICK f \in inForce.files, g \in inForce.grants :
          f.safe /\ g # NoGrants /\ p = WithDirect(Load(f), g)
    BY DEF IInv, WholeInv
  <2>2. ASSUME NEW c, Allowed(p, c) PROVE Granted(c)
    BY <2>1, <2>2, AuthorizeIsWhitelist DEF Granted
  <2> QED
    BY <2>2 DEF IInv, ShownInv, DisclosedIsGranted
<1> QED
  BY <1>1, Invariance, PTL

(* A history or a message is of the conversation that was authorized. *)
THEOREM ConversationKept == Spec => []OneConversation
<1>1. IInv => OneConversation
  BY DEF IInv, ShownInv, OneConversation, SameConversation
<1> QED
  BY <1>1, Invariance, PTL

(* A response names the database its data was read from. *)
THEOREM DatabaseNamed == Spec => []OneDatabase
<1>1. IInv => OneDatabase
  BY DEF IInv, GenerationInv, OneDatabase
<1> QED
  BY <1>1, Invariance, PTL

-----------------------------------------------------------------------------
(***************************************************************************)
(* Bounds and completeness. First lemmas on the first n of a set.          *)
(***************************************************************************)
(* A finite set of naturals is bounded: a smallest counterexample would not be,
   without one of its elements.                                              *)
LEMMA FiniteBounded ==
  ASSUME NEW S \in SUBSET Nat, IsFiniteSet(S)
  PROVE  \E b \in Nat : \A y \in S : y <= b
<1> DEFINE Unbounded(T) == \A b \in Nat : \E y \in T : ~(y <= b)
           Sizes == {k \in Nat : \E T \in SUBSET S : Cardinality(T) = k /\ Unbounded(T)}
<1> SUFFICES ASSUME Unbounded(S) PROVE FALSE
  OBVIOUS
<1>1. Sizes \in SUBSET Nat /\ Sizes # {}
  <2>1. Cardinality(S) \in Nat
    BY FS_CardinalityType
  <2> QED BY <2>1
<1>2. PICK k \in Sizes : \A j \in Sizes : k <= j
  <2> HIDE DEF Sizes
  <2> QED BY <1>1, Paging!LeastElement
<1>3. PICK T \in SUBSET S : Cardinality(T) = k /\ Unbounded(T)
  OBVIOUS
<1>4. IsFiniteSet(T) /\ T \in SUBSET Nat
  BY <1>3, FS_Subset
<1>5. PICK x \in T : ~(x <= 0)
  BY <1>3
<1> DEFINE U == T \ {x}
<1>6. Cardinality(U) = k - 1 /\ k \in Nat /\ Cardinality(U) \in Nat /\ U \in SUBSET S
  <2>1. Cardinality(U) = Cardinality(T) - 1 /\ IsFiniteSet(U)
    BY <1>4, <1>5, FS_RemoveElement
  <2>2. Cardinality(U) \in Nat
    <3> HIDE DEF U
    <3> QED BY <2>1, FS_CardinalityType
  <2> QED BY <1>3, <2>1, <2>2
<1>7. PICK b \in Nat : \A y \in U : y <= b
  <2>1. CASE Unbounded(U)
    <3>1. k - 1 \in Sizes
      BY <1>6, <2>1
    <3>2. k <= k - 1
      BY <1>2, <3>1
    <3> QED BY <1>6, <3>2
  <2> QED BY <2>1
<1>8. CASE x <= b
  <2>1. \A y \in T : y <= b
    BY <1>7, <1>8
  <2> QED BY <1>3, <2>1
<1>9. CASE ~(x <= b)
  <2>1. x \in Nat /\ \A y \in T : y \in Nat /\ y <= x
    BY <1>4, <1>5, <1>7, <1>9
  <2> QED BY <1>3, <2>1
<1> QED BY <1>8, <1>9

(* The first n of a finite set are n at most, ... *)
LEMMA FirstBounded ==
  ASSUME NEW S \in SUBSET Nat, IsFiniteSet(S), NEW n \in Nat \ {0}
  PROVE  /\ IsFiniteSet(First(S, n)) /\ Cardinality(First(S, n)) \in Nat
         /\ Cardinality(First(S, n)) <= n
<1> DEFINE ids == First(S, n)
<1>1. ids \in SUBSET S /\ ids \in SUBSET Nat
  BY DEF First
<1>2. IsFiniteSet(ids) /\ Cardinality(ids) \in Nat
  <2> HIDE DEF ids
  <2> QED BY <1>1, FS_Subset, FS_CardinalityType
<1>3. CASE ids = {}
  <2>1. Cardinality(ids) = 0
    BY <1>3, FS_EmptySet
  <2> QED BY <1>2, <2>1
<1>4. CASE ids # {}
  <2>1. PICK m \in ids : \A y \in ids : y <= m
    <3> HIDE DEF ids
    <3>1. PICK b \in Nat : \A y \in ids : y <= b
      BY <1>1, <1>2, FiniteBounded
    <3> QED BY <1>1, <1>4, <3>1, Paging!MaxProperty
  <2> DEFINE low == {y \in S : y < m}
  <2>2. Cardinality(low) < n
    BY DEF First
  <2>3. ids \ {m} \in SUBSET low
    <3> SUFFICES ASSUME NEW y \in ids, y # m PROVE y \in low
      OBVIOUS
    <3> QED BY <1>1, <2>1
  <2>4. IsFiniteSet(low) /\ Cardinality(low) \in Nat
    <3>1. low \in SUBSET S
      OBVIOUS
    <3> HIDE DEF low
    <3> QED BY <3>1, FS_Subset, FS_CardinalityType
  <2>5. Cardinality(ids \ {m}) <= Cardinality(low)
    <3> HIDE DEF ids, low
    <3> QED BY <2>3, <2>4, FS_Subset
  <2>6. Cardinality(ids \ {m}) = Cardinality(ids) - 1
    <3> HIDE DEF ids
    <3> QED BY <1>2, <2>1, FS_RemoveElement
  <2> QED BY <1>2, <2>2, <2>4, <2>5, <2>6
<1> QED BY <1>3, <1>4

(* ... and all of them when there are fewer, or the set has no more. *)
LEMMA FirstAll ==
  ASSUME NEW S \in SUBSET Nat, IsFiniteSet(S), NEW n \in Nat \ {0},
         Cardinality(First(S, n)) < n \/ Cardinality(S) <= n
  PROVE  First(S, n) = S
<1> DEFINE ids == First(S, n)
           low(x) == {y \in S : y < x}
<1>1. /\ ids \in SUBSET S /\ \A x \in S : x \in Nat
      /\ \A x \in S : x \notin ids => ~(Cardinality(low(x)) < n)
  BY DEF First
<1>2. IsFiniteSet(ids) /\ Cardinality(ids) \in Nat /\ Cardinality(S) \in Nat
  BY FirstBounded, FS_CardinalityType
<1>3. ASSUME NEW x \in S PROVE IsFiniteSet(low(x)) /\ Cardinality(low(x)) \in Nat
  <2> DEFINE T == low(x)
  <2>1. T \in SUBSET S
    OBVIOUS
  <2> HIDE DEF T
  <2>2. IsFiniteSet(T) /\ Cardinality(T) \in Nat
    BY <2>1, FS_Subset, FS_CardinalityType
  <2> QED BY <2>2 DEF T
<1> SUFFICES ASSUME ids # S PROVE FALSE
  OBVIOUS
<1>4. PICK z \in S \ ids : \A y \in S \ ids : z <= y
  <2>1. S \ ids # {} /\ S \ ids \in SUBSET Nat
    BY <1>1
  <2> HIDE DEF ids
  <2> QED BY <2>1, Paging!LeastElement
<1> DEFINE T == low(z)
<1>5. T \in SUBSET ids /\ T \in SUBSET (S \ {z})
  <2> SUFFICES ASSUME NEW y \in T PROVE y \in ids /\ y # z /\ y \in S
    OBVIOUS
  <2>1. y \in S /\ y < z /\ y \in Nat /\ z \in Nat
    BY <1>1
  <2> QED BY <2>1, <1>4
<1>6. ~(Cardinality(T) < n) /\ Cardinality(T) \in Nat
  BY <1>1, <1>3, <1>4
<1> HIDE DEF T, ids
<1>7. Cardinality(T) <= Cardinality(ids)
  BY <1>2, <1>5, FS_Subset
<1>8. Cardinality(T) <= Cardinality(S) - 1
  <2>1. IsFiniteSet(S \ {z}) /\ Cardinality(S \ {z}) = Cardinality(S) - 1
    BY <1>4, FS_RemoveElement
  <2>2. Cardinality(T) <= Cardinality(S \ {z})
    BY <1>5, <2>1, FS_Subset
  <2> QED BY <2>1, <2>2
<1> QED BY <1>2, <1>6, <1>7, <1>8 DEF ids

-----------------------------------------------------------------------------
Message == [guid : Nat, class : Classes]
Logs == [ChatIDs -> Seq(Message)]
Methods == {"list", "history", "get"}

(* What the owner and Messages hold, and what was in force since a read. *)
WorldInv ==
  /\ chats \in Databases /\ log \in Logs
  /\ dbGen \in 0..MaxGen /\ openGen \in 0..dbGen
  /\ file \in Files /\ grants \in Grants
  /\ inForce.files \subseteq Files /\ inForce.grants \subseteq Grants

(* A request being served has one of the methods, and its reads are its own. *)
RequestInv ==
  /\ pc \in {"idle", "sent"} \cup Working /\ stage \in {"start", "list", "chat", "history"}
  /\ req.id \in ChatIDs \cup {0} /\ req.limit \in Limits \cup {1}
  /\ pc \in Working \cup {"sent"} => req.method \in Methods
  /\ req.method \in {"history", "get"} => req.id \in ReadIDs
  /\ pc \in Working \ {"accept"} => (stage = "list" <=> req.method = "list")

(* No reply exceeds its limit, and there is none before it is sent. *)
ReplyInv ==
  /\ reply.code \in ReplyCodes /\ reply.complete \in BOOLEAN
  /\ Cardinality(reply.listed) <= req.limit
  /\ req.method = "history" => Cardinality(reply.messages) <= req.limit
  /\ pc # "sent" => reply = Failure("none")

(* A view holds chats that may exist, and after a history read a log. *)
ViewInv ==
  /\ DOMAIN view.chats \subseteq ChatIDs
  /\ AfterScan /\ stage = "history" => view.log \in Logs

HandlerInv == RequestInv /\ ReplyInv /\ ViewInv /\ CompleteMeansAll /\ NotFoundMeansAbsent

DataInv == WorldInv /\ HandlerInv

LEMMA LimitType == RequestInv => req.limit \in Nat \ {0}
<1>1. RequestInv => req.limit \in Limits \cup {1}
  BY DEF RequestInv
<1>2. Limits \subseteq Nat \ {0} /\ 1 \in Nat \ {0}
  BY LimitAssumption
<1> QED BY <1>1, <1>2, Zenon

LEMMA FailureFacts ==
  ASSUME NEW code
  PROVE  /\ Failure(code).code = code /\ Failure(code).complete = FALSE
         /\ Failure(code).listed = {} /\ Failure(code).messages = {}
         /\ Cardinality(Failure(code).listed) = 0 /\ Cardinality(Failure(code).messages) = 0
  BY FS_EmptySet DEF Failure, Answer

(* At most n rows are taken, and all of them if there are fewer. *)
LEMMA RowsTaken ==
  ASSUME view.log \in Logs, req.id \in ReadIDs, NEW n \in Nat \ {0}
  PROVE  /\ RowsOf(n) \in Seq(Message) /\ Len(RowsOf(n)) \in 0..n
         /\ IsFiniteSet(Elements(RowsOf(n))) /\ Cardinality(Elements(RowsOf(n))) <= n
         /\ Elements(RowsOf(n)) \subseteq Elements(view.log[req.id])
         /\ Len(RowsOf(n)) < n => Elements(RowsOf(n)) = Elements(view.log[req.id])
<1> DEFINE rows == view.log[req.id]
           taken == RowsOf(n)
<1>1. rows \in Seq(Message) /\ Len(rows) \in Nat
  <2>1. req.id \in ChatIDs
    BY DatabaseAssumption
  <2>2. rows \in Seq(Message)
    BY <2>1, Zenon DEF Logs
  <2> HIDE DEF rows
  <2> QED BY <2>2
<1>2. /\ taken \in Seq(Message) /\ Len(taken) = Min2(n, Len(rows))
      /\ \A k \in 1..Len(taken) : taken[k] = rows[k]
  BY <1>1 DEF RowsOf, Min2
<1>3. Len(taken) \in 0..n /\ (Len(taken) < n => Len(taken) = Len(rows))
  BY <1>1, <1>2 DEF Min2
<1> HIDE DEF taken, rows
<1>4. DOMAIN taken = 1..Len(taken) /\ DOMAIN rows = 1..Len(rows)
  BY <1>1, <1>2
<1>5. Elements(taken) = {taken[k] : k \in 1..Len(taken)}
  BY <1>4 DEF Elements
<1>6. IsFiniteSet(Elements(taken)) /\ Cardinality(Elements(taken)) <= Len(taken)
  <2>1. IsFiniteSet(1..Len(taken)) /\ Cardinality(1..Len(taken)) = Len(taken)
    <3>1. PICK m \in Nat : m = Len(taken)
      BY <1>3
    <3>2. IsFiniteSet(1..m) /\ Cardinality(1..m) = IF 1 > m THEN 0 ELSE m - 1 + 1
      BY FS_Interval
    <3> QED BY <3>1, <3>2
  <2>2. [k \in 1..Len(taken) |-> taken[k]] \in Surjection(1..Len(taken), Elements(taken))
    BY <1>5 DEF Surjection
  <2> QED BY <2>1, <2>2, FS_Surjection
<1>7. Cardinality(Elements(taken)) \in Nat
  BY <1>6, FS_CardinalityType
<1>8. /\ Elements(taken) \subseteq Elements(rows)
      /\ Len(taken) < n => Elements(taken) = Elements(rows)
  <2>1. Len(taken) \in Nat /\ Len(taken) <= Len(rows)
    BY <1>1, <1>2, <1>3 DEF Min2
  <2> QED BY <1>1, <1>2, <1>3, <1>4, <1>5, <2>1 DEF Elements
<1> QED BY <1>2, <1>3, <1>6, <1>7, <1>8 DEF taken, rows

(* A listing takes at most its limit; a complete one has scanned every chat
   and shows all it may.                                                     *)
LEMMA ListFacts ==
  ASSUME DOMAIN view.chats \subseteq ChatIDs, req.limit \in Nat \ {0}
  PROVE  /\ ListReply.code \in {"ok", "backend_invalid"} /\ ListReply.complete \in BOOLEAN
         /\ ListReply.messages = {} /\ Cardinality(ListReply.listed) <= req.limit
         /\ ListReply.complete =>
              \A i \in DOMAIN view.chats :
                view.chats[i].ours /\ Allowed(p, view.chats[i]) => i \in ListReply.listed
<1> DEFINE all == DOMAIN view.chats
           listed == First(ShownChats, req.limit)
           whole == /\ Complete(Cardinality(ScannedChats), MaxChatScan)
                    /\ Cardinality(ShownChats) <= req.limit
<1>1. all \in SUBSET Nat /\ IsFiniteSet(all) /\ MaxChatScan \in Nat \ {0}
  BY DatabaseAssumption, LimitAssumption, FS_Subset
<1>2. ScannedChats = First(all, MaxChatScan) /\ ScannedChats \in SUBSET all
  BY DEF ScannedChats, First
<1>3. /\ ShownChats \in SUBSET ScannedChats
      /\ \A i \in ScannedChats : view.chats[i].ours /\ Allowed(p, view.chats[i]) => i \in ShownChats
  BY DEF ShownChats
<1> HIDE DEF all
<1>4. /\ IsFiniteSet(ScannedChats) /\ IsFiniteSet(ShownChats)
      /\ ShownChats \in SUBSET Nat
      /\ Cardinality(ScannedChats) \in Nat /\ Cardinality(ShownChats) \in Nat
  <2>1. IsFiniteSet(ScannedChats)
    BY <1>1, <1>2, FS_Subset
  <2>2. IsFiniteSet(ShownChats) /\ ShownChats \in SUBSET Nat
    BY <1>1, <1>2, <1>3, <2>1, FS_Subset
  <2> QED BY <2>1, <2>2, FS_CardinalityType
<1>5. Cardinality(listed) <= req.limit
  BY <1>4, FirstBounded
<1>6. ASSUME whole PROVE ScannedChats = all /\ listed = ShownChats
  <2>1. Cardinality(First(all, MaxChatScan)) < MaxChatScan
    BY <1>2, <1>6 DEF Complete
  <2>2. ScannedChats = all
    BY <1>1, <1>2, <2>1, FirstAll
  <2>3. listed = ShownChats
    BY <1>4, <1>6, FirstAll
  <2> QED BY <2>2, <2>3
<1>7. whole \in BOOLEAN
  BY Zenon DEF Complete
<1>8. CASE \E i \in ScannedChats : ~view.chats[i].fit
  <2>1. ListReply = Failure("backend_invalid")
    BY <1>8 DEF ListReply
  <2>2. 0 <= req.limit
    OBVIOUS
  <2> QED BY <2>1, <2>2, FailureFacts
<1>9. CASE ~ \E i \in ScannedChats : ~view.chats[i].fit
  <2>1. ListReply = Answer("ok", listed, {}, whole)
    BY <1>9, Zenon DEF ListReply
  <2> HIDE DEF listed, whole
  <2>2. /\ ListReply.code = "ok" /\ ListReply.listed = listed /\ ListReply.messages = {}
        /\ ListReply.complete = whole
    BY <2>1 DEF Answer
  <2> QED BY <1>3, <1>5, <1>6, <1>7, <2>2 DEF all
<1> QED BY <1>8, <1>9

(* A history takes at most its limit; a complete one has seen every row. *)
LEMMA HistoryFacts ==
  ASSUME view.log \in Logs, req.id \in ReadIDs, req.limit \in Nat \ {0}
  PROVE  /\ HistoryReply.code \in {"ok", "backend_invalid"}
         /\ HistoryReply.complete \in BOOLEAN
         /\ HistoryReply.listed = {} /\ Cardinality(HistoryReply.messages) <= req.limit
         /\ HistoryReply.complete =>
              \A m \in Elements(view.log[req.id]) : Shown(m) => m \in HistoryReply.messages
<1> DEFINE rows == RowsOf(req.limit)
           shown == {m \in Elements(rows) : Shown(m)}
           whole == Complete(Len(rows), req.limit)
<1>1. /\ IsFiniteSet(Elements(rows)) /\ Cardinality(Elements(rows)) <= req.limit
      /\ whole => Elements(rows) = Elements(view.log[req.id])
  BY RowsTaken DEF Complete
<1>2. Cardinality(shown) <= req.limit
  <2>1. shown \in SUBSET Elements(rows)
    OBVIOUS
  <2> HIDE DEF shown, rows
  <2>2. Cardinality(shown) <= Cardinality(Elements(rows)) /\ IsFiniteSet(shown)
    BY <1>1, <2>1, FS_Subset
  <2>3. Cardinality(shown) \in Nat /\ Cardinality(Elements(rows)) \in Nat
    BY <1>1, <2>2, FS_CardinalityType
  <2> QED BY <1>1, <2>2, <2>3
<1>3. whole \in BOOLEAN
  <2>1. whole = TRUE \/ whole = FALSE
    <3>1. Len(rows) \in Nat
      BY RowsTaken
    <3> HIDE DEF rows
    <3> QED BY <3>1 DEF Complete
  <2> QED BY <2>1, Zenon
<1>4. CASE \E m \in Elements(rows) : Unsafe(m)
  <2>1. HistoryReply = Failure("backend_invalid")
    BY <1>4, Zenon DEF HistoryReply
  <2>2. 0 <= req.limit
    OBVIOUS
  <2> QED BY <2>1, <2>2, FailureFacts
<1>5. CASE ~ \E m \in Elements(rows) : Unsafe(m)
  <2>1. HistoryReply = Answer("ok", {}, shown, whole)
    BY <1>5, Zenon DEF HistoryReply
  <2>2. ASSUME whole, NEW m \in Elements(view.log[req.id]), Shown(m) PROVE m \in shown
    BY <1>1, <2>2
  <2> HIDE DEF shown, whole
  <2>3. /\ HistoryReply.code = "ok" /\ HistoryReply.listed = {}
        /\ HistoryReply.messages = shown /\ HistoryReply.complete = whole
    BY <2>1 DEF Answer
  <2> QED BY <1>2, <1>3, <2>2, <2>3
<1> QED BY <1>4, <1>5

(* A lookup says "not found" only when it has seen every row. *)
LEMMA MessageFacts ==
  ASSUME view.log \in Logs, req.id \in ReadIDs
  PROVE  /\ MessageReply.code \in {"ok", "backend_invalid", "not_visible", "not_found",
                                   "lookup_incomplete"}
         /\ MessageReply.complete = FALSE /\ MessageReply.listed = {}
         /\ MessageReply.code = "not_found" =>
              \A m \in Elements(view.log[req.id]) : m.guid # req.guid
<1> DEFINE rows == RowsOf(MaxMessageScan)
           hits == {m \in Elements(rows) : m.guid = req.guid}
           whole == Complete(Len(rows), MaxMessageScan)
<1>1. whole => Elements(rows) = Elements(view.log[req.id])
  BY RowsTaken, LimitAssumption DEF Complete
<1>2. CASE hits # {}
  <2>1. MessageReply \in {Failure("backend_invalid"), Failure("not_visible"),
                          Answer("ok", {}, hits, FALSE)}
    BY <1>2, Zenon DEF MessageReply, Shown
  <2> HIDE DEF hits
  <2>2. /\ Answer("ok", {}, hits, FALSE).code = "ok"
        /\ Answer("ok", {}, hits, FALSE).complete = FALSE
        /\ Answer("ok", {}, hits, FALSE).listed = {}
    BY DEF Answer
  <2>3. /\ Failure("backend_invalid").code = "backend_invalid"
        /\ Failure("backend_invalid").complete = FALSE
        /\ Failure("backend_invalid").listed = {}
        /\ Failure("not_visible").code = "not_visible"
        /\ Failure("not_visible").complete = FALSE /\ Failure("not_visible").listed = {}
    BY DEF Failure, Answer
  <2> QED BY <2>1, <2>2, <2>3
<1>3. CASE hits = {}
  <2>1. /\ whole => MessageReply = Failure("not_found")
        /\ ~whole => MessageReply = Failure("lookup_incomplete")
    BY <1>3, Zenon DEF MessageReply
  <2>2. whole => \A m \in Elements(view.log[req.id]) : m.guid # req.guid
    BY <1>1, <1>3
  <2>3. /\ Failure("not_found").code = "not_found"
        /\ Failure("not_found").complete = FALSE /\ Failure("not_found").listed = {}
        /\ Failure("lookup_incomplete").code = "lookup_incomplete"
        /\ Failure("lookup_incomplete").complete = FALSE
        /\ Failure("lookup_incomplete").listed = {}
    BY DEF Failure, Answer
  <2> HIDE DEF whole, hits, rows
  <2>4. CASE whole
    BY <2>1, <2>2, <2>3, <2>4
  <2>5. CASE ~whole
    BY <2>1, <2>3, <2>5
  <2> QED BY <2>4, <2>5
<1> QED BY <1>2, <1>3

(* A refusal is within any limit. *)
LEMMA FailureWithin ==
  ASSUME NEW r, NEW code \in ReplyCodes, r = Failure(code), NEW limit \in Nat
  PROVE  /\ r.code \in ReplyCodes /\ r.complete \in BOOLEAN
         /\ Cardinality(r.listed) <= limit /\ Cardinality(r.messages) <= limit
<1>1. r.code = code /\ r.complete = FALSE /\ r.listed = {} /\ r.messages = {}
  BY DEF Failure, Answer
<1>2. Cardinality(r.listed) = 0 /\ Cardinality(r.messages) = 0
  BY <1>1, FS_EmptySet
<1>3. r.complete \in BOOLEAN
  BY <1>1, Zenon
<1> QED BY <1>1, <1>2, <1>3

LEMMA EmptyLog == <<>> \in Seq(Message)
  OBVIOUS

LEMMA DataInit == Init => DataInv
<1> SUFFICES ASSUME Init PROVE DataInv
  OBVIOUS
<1>1. WorldInv
  <2>1. log \in Logs
    BY Zenon, EmptyLog DEF Init, Logs
  <2>2. dbGen \in 0..MaxGen /\ openGen \in 0..dbGen
    BY BoundAssumption DEF Init
  <2> QED BY <2>1, <2>2 DEF Init, WorldInv, Nobody
<1>2. RequestInv
  BY DEF Init, RequestInv, NoRequest, Working
<1>3. ReplyInv
  <2>1. reply = Failure("none") /\ "none" \in ReplyCodes /\ req.limit \in Nat
    BY DEF Init, NoRequest, ReplyCodes
  <2> QED BY <2>1, FailureWithin DEF ReplyInv
<1>4. ViewInv /\ CompleteMeansAll /\ NotFoundMeansAbsent
  BY DEF Init, ViewInv, AfterScan, NoView, CompleteMeansAll, NotFoundMeansAbsent, Answered
<1> QED BY <1>1, <1>2, <1>3, <1>4 DEF DataInv, HandlerInv

(* The messages received so far are finitely many. *)
LEMMA ReceivedFinite ==
  ASSUME log \in Logs
  PROVE  IsFiniteSet(Received) /\ Cardinality(Received) \in Nat
<1> DEFINE of(i) == {log[i][k].guid : k \in DOMAIN log[i]}
           All == {of(i) : i \in ChatIDs}
<1>1. ASSUME NEW i \in ChatIDs PROVE IsFiniteSet(of(i))
  <2> DEFINE rows == log[i]
  <2>1. rows \in Seq(Message)
    BY Zenon DEF Logs
  <2>2. DOMAIN rows = 1..Len(rows) /\ Len(rows) \in Nat
    <3> HIDE DEF rows
    <3> QED BY <2>1
  <2>3. IsFiniteSet(1..Len(rows))
    <3>1. PICK m \in Nat : m = Len(rows)
      BY <2>2
    <3>2. IsFiniteSet(1..m)
      BY FS_Interval
    <3> QED BY <3>1, <3>2
  <2>4. [k \in 1..Len(rows) |-> rows[k].guid] \in Surjection(1..Len(rows), of(i))
    BY <2>2 DEF Surjection
  <2> HIDE DEF rows, of
  <2> QED BY <2>3, <2>4, FS_Surjection
<1>2. IsFiniteSet(All)
  <2>1. [i \in ChatIDs |-> of(i)] \in Surjection(ChatIDs, All)
    BY DEF Surjection
  <2> HIDE DEF of, All
  <2> QED BY <2>1, DatabaseAssumption, FS_Surjection
<1>3. IsFiniteSet(UNION All)
  <2>1. \A T \in All : IsFiniteSet(T)
    BY <1>1
  <2> HIDE DEF All
  <2> QED BY <1>2, <2>1, FS_UNION
<1>4. Received = UNION All
  BY DEF Received
<1> HIDE DEF All
<1> QED BY <1>3, <1>4, FS_CardinalityType

(* A new message makes one log longer. *)
LEMMA ReceiveLogs ==
  ASSUME log \in Logs, NEW i \in ReadIDs, NEW class \in Classes, Receive(i, class)
  PROVE  log' \in Logs
<1> DEFINE n == Cardinality(Received) + 1
           m == [guid |-> n, class |-> class]
<1>1. m \in Message
  BY ReceivedFinite DEF Message
<1> HIDE DEF m
<1>2. i \in ChatIDs
  BY DatabaseAssumption
<1>3. log[i] \in Seq(Message)
  BY <1>2, Zenon DEF Logs
<1>4. <<m>> \o log[i] \in Seq(Message)
  BY <1>1, <1>3
<1>5. log' = [log EXCEPT ![i] = <<m>> \o log[i]]
  BY DEF Receive, m
<1> QED BY <1>2, <1>4, <1>5 DEF Logs

(* The handler leaves the world as it is; it may start a new history of it. *)
LEMMA WorldKept ==
  ASSUME WorldInv, UNCHANGED <<dbVars, policyVars>>, openGen' \in {openGen, dbGen},
         inForce' \in {inForce, Nobody, [files |-> {file}, grants |-> {grants}]}
  PROVE  WorldInv'
<1>1. inForce'.files \subseteq Files /\ inForce'.grants \subseteq Grants
  <2>1. CASE inForce' = inForce
    BY <2>1 DEF WorldInv
  <2>2. CASE inForce' = Nobody
    BY <2>2 DEF Nobody
  <2>3. CASE inForce' = [files |-> {file}, grants |-> {grants}]
    BY <2>3 DEF WorldInv
  <2> QED BY <2>1, <2>2, <2>3
<1>2. openGen' \in 0..dbGen
  BY DEF WorldInv
<1> QED BY <1>1, <1>2 DEF WorldInv, dbVars, policyVars

LEMMA WorldStep == StageInv /\ WorldInv /\ [Next]_vars => WorldInv'
<1> SUFFICES ASSUME StageInv, WorldInv, [Next]_vars PROVE WorldInv'
  OBVIOUS
<1>1. CASE Environment
  <2>1. ASSUME NEW i \in ReadIDs, NEW class \in Classes, Receive(i, class) PROVE WorldInv'
    <3>1. log' \in Logs
      BY <2>1, ReceiveLogs DEF WorldInv
    <3> QED BY <2>1, <3>1 DEF WorldInv, Receive, policyVars
  <2>2. ASSUME NEW d \in Databases, ChangeChats(d) PROVE WorldInv'
    BY <2>2 DEF WorldInv, ChangeChats, policyVars
  <2>3. CASE ReplaceDatabase
    <3>1. log' \in Logs
      BY <2>3, EmptyLog, Zenon DEF ReplaceDatabase, Logs
    <3>2. dbGen' \in 0..MaxGen /\ openGen' \in 0..dbGen'
      BY <2>3, BoundAssumption DEF ReplaceDatabase, WorldInv
    <3> QED BY <2>3, <3>1, <3>2 DEF WorldInv, ReplaceDatabase, policyVars
  <2>4. ASSUME NEW f \in Files, EditFile(f) PROVE WorldInv'
    BY <2>4 DEF WorldInv, EditFile, dbVars
  <2>5. ASSUME NEW g \in Grants, ChangeGrants(g) PROVE WorldInv'
    BY <2>5 DEF WorldInv, ChangeGrants, dbVars
  <2> QED BY <1>1, <2>1, <2>2, <2>3, <2>4, <2>5 DEF Environment
<1>2. CASE Broker
  <2> SUFFICES /\ UNCHANGED <<dbVars, policyVars>> /\ openGen' \in {openGen, dbGen}
               /\ inForce' \in {inForce, Nobody, [files |-> {file}, grants |-> {grants}]}
    BY WorldKept
  <2>1. CASE \E code : Refuse(code)
    BY <2>1 DEF Refuse
  <2>2. CASE Accept \/ LoadFile \/ LoadGrants \/ BeginRead
    BY <2>1, <2>2 DEF Accept, LoadFile, LoadGrants, BeginRead, Goto
  <2>3. CASE Scan
    BY <2>3 DEF Scan, Goto
  <2>4. CASE EndRead
    BY <2>1, <2>4 DEF EndRead, Goto
  <2>5. CASE Serialize
    <3>1. \/ Refuse("not_visible")
          \/ \E answer \in {ListReply, HistoryReply, MessageReply} : Send(answer)
      BY <2>5, SerializeCases DEF Serialize, StageInv, Carried
    <3> QED BY <2>1, <3>1 DEF Send
  <2>6. CASE BackendFails \/ Timeout
    BY <2>1, <2>6 DEF BackendFails, Timeout
  <2>7. CASE Restart
    BY <2>7 DEF Restart, EndRequest
  <2> QED BY <1>2, <2>2, <2>3, <2>4, <2>5, <2>6, <2>7 DEF Broker
<1>3. CASE Receipt
  BY <1>3, WorldKept DEF Receipt, EndRequest
<1>4. CASE \E method \in {"list", "history", "get"} : Request(method)
  BY <1>4, WorldKept DEF Request
<1>5. CASE UNCHANGED vars
  BY <1>5, WorldKept DEF vars
<1> QED BY <1>1, <1>2, <1>3, <1>4, <1>5 DEF Next

(* A refusal ends the request, and says nothing of its data. *)
LEMMA RefusalKeeps ==
  ASSUME HandlerInv, pc \in Working, NEW code \in ReplyCodes \ {"ok", "not_found"}, Refuse(code)
  PROVE  HandlerInv'
<1>1. /\ pc' = "sent" /\ stage' = stage /\ req' = req /\ reply' = Failure(code)
      /\ view' = NoView
  BY DEF Refuse
<1>2. RequestInv'
  BY <1>1 DEF HandlerInv, RequestInv, Working
<1>3. ReplyInv'
  <2>1. req'.limit \in Nat
    BY <1>1, LimitType DEF HandlerInv
  <2> QED BY <1>1, <2>1, FailureWithin DEF ReplyInv
<1>4. reply'.code \notin {"ok", "not_found"}
  BY <1>1, FailureFacts
<1>5. ViewInv' /\ CompleteMeansAll' /\ NotFoundMeansAbsent'
  BY <1>1, <1>4 DEF ViewInv, AfterScan, NoView, CompleteMeansAll, NotFoundMeansAbsent, Answered
<1> QED BY <1>2, <1>3, <1>5 DEF HandlerInv

(* Nor does a step of the work. *)
LEMMA WorkKeeps ==
  ASSUME HandlerInv, pc \in Working, NEW place \in Working \ {"accept"},
         NEW next \in {"start", "list", "chat", "history"}, next = "list" <=> req.method = "list",
         Goto(place, next), ViewInv'
  PROVE  HandlerInv'
<1>1. pc' = place /\ stage' = next /\ req' = req /\ reply' = reply /\ pc' # "sent" /\ pc # "sent"
  BY DEF Goto, Working
<1>2. RequestInv'
  BY <1>1 DEF HandlerInv, RequestInv
<1>3. ReplyInv'
  BY <1>1 DEF HandlerInv, ReplyInv
<1>4. CompleteMeansAll' /\ NotFoundMeansAbsent'
  BY <1>1 DEF CompleteMeansAll, NotFoundMeansAbsent, Answered
<1> QED BY <1>2, <1>3, <1>4 DEF HandlerInv

(* Between requests there is nothing to say. *)
LEMMA EndKeeps ==
  ASSUME EndRequest
  PROVE  HandlerInv'
<1>1. /\ pc' = "idle" /\ stage' = "start" /\ req' = NoRequest /\ view' = NoView
      /\ reply' = Failure("none")
  BY DEF EndRequest
<1>2. RequestInv'
  BY <1>1 DEF RequestInv, NoRequest, Working
<1>3. ReplyInv'
  <2>1. "none" \in ReplyCodes /\ req'.limit \in Nat
    BY <1>1 DEF NoRequest, ReplyCodes
  <2> QED BY <1>1, <2>1, FailureWithin DEF ReplyInv
<1>4. ViewInv' /\ CompleteMeansAll' /\ NotFoundMeansAbsent'
  BY <1>1 DEF ViewInv, AfterScan, NoView, CompleteMeansAll, NotFoundMeansAbsent, Answered
<1> QED BY <1>2, <1>3, <1>4 DEF HandlerInv

(* What changes outside the handler is nothing to it. *)
LEMMA ElsewhereKeeps ==
  ASSUME HandlerInv, UNCHANGED <<pc, stage, req, workVars, reply>>
  PROVE  HandlerInv'
<1>1. RequestInv' /\ ReplyInv' /\ ViewInv'
  BY DEF HandlerInv, RequestInv, ReplyInv, ViewInv, AfterScan, workVars
<1>2. Answered' = Answered /\ \A m : Shown(m)' = Shown(m)
  BY Zenon DEF Answered, Shown, Unsafe, Suppress, SameConversation, RowConversation, Allowed, workVars
<1>3. CompleteMeansAll' /\ NotFoundMeansAbsent'
  BY <1>2 DEF HandlerInv, CompleteMeansAll, NotFoundMeansAbsent, workVars, Allowed
<1> QED BY <1>1, <1>3 DEF HandlerInv

(* A request that has just come is of one method, and unanswered. *)
LEMMA RequestGoesOn ==
  ASSUME HandlerInv, pc = "idle", pc' = "accept", UNCHANGED <<stage, view, reply>>,
         req'.method \in Methods, req'.limit \in Limits \cup {1},
         req'.id \in ReadIDs \/ (req'.id = 0 /\ req'.method = "list")
  PROVE  HandlerInv'
<1>1. RequestInv'
  BY DatabaseAssumption DEF HandlerInv, RequestInv, Working
<1>2. ReplyInv'
  <2>1. reply' = Failure("none") /\ "none" \in ReplyCodes
    BY DEF HandlerInv, ReplyInv, ReplyCodes
  <2>2. req'.limit \in Nat
    <3>1. Limits \subseteq Nat \ {0} /\ 1 \in Nat
      BY LimitAssumption
    <3> QED BY <3>1, Zenon
  <2> QED BY <2>1, <2>2, FailureWithin DEF ReplyInv
<1>3. ViewInv' /\ CompleteMeansAll' /\ NotFoundMeansAbsent'
  BY DEF HandlerInv, ViewInv, AfterScan, CompleteMeansAll, NotFoundMeansAbsent, Answered
<1> QED BY <1>1, <1>2, <1>3 DEF HandlerInv

(* A client names a method, and a chat it may name. *)
LEMMA RequestKeeps ==
  ASSUME HandlerInv, NEW method \in Methods, Request(method)
  PROVE  HandlerInv'
<1>1. /\ pc = "idle" /\ pc' = "accept" /\ stage' = stage /\ view' = view /\ reply' = reply
  BY DEF Request, workVars
<1>2. PICK gen \in 0..dbGen, id \in ReadIDs, limit \in Limits, guid \in 1..MaxMessages :
        req' = CASE method = "list" -> [NoRequest EXCEPT !.method = method, !.limit = limit]
                 [] method = "history" ->
                      [NoRequest EXCEPT !.method = method, !.gen = gen, !.id = id, !.limit = limit]
                 [] method = "get" ->
                      [NoRequest EXCEPT !.method = method, !.gen = gen, !.id = id, !.guid = guid]
  BY Zenon DEF Request
<1>3. CASE method = "list"
  <2>1. req' = [NoRequest EXCEPT !.method = method, !.limit = limit]
    BY <1>2, <1>3
  <2> QED BY <1>1, <1>3, <2>1, RequestGoesOn DEF NoRequest, Methods
<1>4. CASE method = "history"
  <2>1. req' = [NoRequest EXCEPT !.method = method, !.gen = gen, !.id = id, !.limit = limit]
    BY <1>2, <1>4
  <2>2. req'.method = method /\ req'.id = id /\ req'.limit = limit
    BY <2>1 DEF NoRequest
  <2> QED BY <1>1, <1>4, <2>2, RequestGoesOn DEF Methods
<1>5. CASE method = "get"
  <2>1. req' = [NoRequest EXCEPT !.method = method, !.gen = gen, !.id = id, !.guid = guid]
    BY <1>2, <1>5
  <2>2. req'.method = method /\ req'.id = id /\ req'.limit = 1
    BY <2>1 DEF NoRequest
  <2> QED BY <1>1, <1>5, <2>2, RequestGoesOn DEF Methods
<1> QED BY <1>3, <1>4, <1>5 DEF Methods

(* The response: within its limit, and true when it speaks of the whole. *)
LEMMA SerializeKeeps ==
  ASSUME StageInv, HandlerInv, Serialize
  PROVE  HandlerInv'
<1>1. pc = "serialize" /\ pc \in Working /\ stage \in {"list", "history"}
  BY DEF Serialize, StageInv, Carried, Working
<1>2. CASE Refuse("not_visible")
  BY <1>1, <1>2, RefusalKeeps DEF ReplyCodes
<1>3. /\ req.limit \in Nat \ {0} /\ req.method \in Methods
      /\ stage = "list" <=> req.method = "list"
      /\ req.method \in {"history", "get"} => req.id \in ReadIDs
      /\ DOMAIN view.chats \subseteq ChatIDs
      /\ stage = "history" => view.log \in Logs
  BY <1>1, LimitType DEF HandlerInv, RequestInv, ViewInv, AfterScan, Working
<1>4. ASSUME NEW answer, Send(answer),
             answer.code \in ReplyCodes, answer.complete \in BOOLEAN,
             Cardinality(answer.listed) <= req.limit,
             req.method = "history" => Cardinality(answer.messages) <= req.limit,
             answer.complete =>
               IF req.method = "list"
               THEN \A i \in DOMAIN view.chats :
                      view.chats[i].ours /\ Allowed(p, view.chats[i]) => i \in answer.listed
               ELSE \A m \in Elements(view.log[req.id]) : Shown(m) => m \in answer.messages,
             answer.code = "not_found" =>
               \A m \in Elements(view.log[req.id]) : m.guid # req.guid
      PROVE  HandlerInv'
  <2>1. /\ pc' = "sent" /\ reply' = answer
        /\ UNCHANGED <<stage, req, p, chat, view>>
    BY <1>4 DEF Send, workVars
  <2>2. RequestInv' /\ ViewInv'
    BY <1>1, <2>1 DEF HandlerInv, RequestInv, ViewInv, AfterScan, Working
  <2>3. ReplyInv'
    BY <1>4, <2>1 DEF ReplyInv
  <2>4. \A m : Shown(m)' = Shown(m)
    BY <2>1, Zenon DEF Shown, Unsafe, Suppress, SameConversation, RowConversation, Allowed
  <2>5. CompleteMeansAll' /\ NotFoundMeansAbsent'
    BY <1>4, <2>1, <2>4 DEF CompleteMeansAll, NotFoundMeansAbsent, Allowed
  <2> QED BY <2>2, <2>3, <2>5 DEF HandlerInv
<1>5. CASE stage = "list" /\ Send(ListReply)
  BY <1>3, <1>4, <1>5, ListFacts DEF ReplyCodes
<1>6. CASE stage = "history" /\ req.method = "history" /\ Send(HistoryReply)
  <2>1. Cardinality(HistoryReply.listed) <= req.limit
    BY <1>3, <1>6, HistoryFacts, FS_EmptySet
  <2> QED BY <1>3, <1>4, <1>6, <2>1, HistoryFacts DEF ReplyCodes
<1>7. CASE stage = "history" /\ req.method # "history" /\ Send(MessageReply)
  <2>1. req.id \in ReadIDs /\ view.log \in Logs /\ req.method # "list"
    BY <1>3, <1>7 DEF Methods
  <2>2. Cardinality(MessageReply.listed) <= req.limit /\ MessageReply.complete = FALSE
    <3>1. MessageReply.listed = {} /\ MessageReply.complete = FALSE
      BY <2>1, MessageFacts
    <3>2. Cardinality(MessageReply.listed) = 0
      BY <3>1, FS_EmptySet
    <3> QED BY <1>3, <3>1, <3>2
  <2>3. MessageReply.complete \in BOOLEAN
    BY <2>2, Zenon
  <2> QED BY <1>4, <1>7, <2>1, <2>2, <2>3, MessageFacts DEF ReplyCodes
<1> QED BY <1>1, <1>2, <1>5, <1>6, <1>7, SerializeCases

(* Each step of the handler keeps its invariant. *)
LEMMA BrokerKeeps ==
  ASSUME StageInv, WorldInv, HandlerInv, Broker
  PROVE  HandlerInv'
<1>0. pc \in Working \ {"accept"} => (stage = "list" <=> req.method = "list")
  BY DEF HandlerInv, RequestInv
<1>1. ASSUME pc \in Working, NEW code \in {"stale_generation", "policy_unavailable",
               "backend_unavailable", "backend_timeout", "backend_invalid", "not_visible"},
             Refuse(code)
      PROVE  HandlerInv'
  BY <1>1, RefusalKeeps DEF ReplyCodes
<1>2. CASE Accept
  <2>1. CASE Refuse("stale_generation")
    BY <1>1, <1>2, <2>1 DEF Accept, Working
  <2>2. CASE req.method # "list" /\ Goto("file", "start") /\ UNCHANGED <<workVars, inForce>>
    <3>1. ViewInv'
      BY <2>2 DEF Goto, HandlerInv, ViewInv, AfterScan, workVars
    <3> QED BY <1>2, <2>2, <3>1, WorkKeeps DEF Accept, Working
  <2>3. CASE req.method = "list" /\ Goto("begin", "list") /\ UNCHANGED <<workVars, inForce>>
    <3>1. ViewInv'
      BY <2>3 DEF Goto, HandlerInv, ViewInv, AfterScan, workVars
    <3> QED BY <1>2, <2>3, <3>1, WorkKeeps DEF Accept, Working
  <2> QED BY <1>2, <2>1, <2>2, <2>3 DEF Accept
<1>3. CASE LoadFile
  <2>1. CASE Refuse("policy_unavailable")
    BY <1>1, <1>3, <2>1 DEF LoadFile, Working
  <2>2. CASE Goto("contacts", stage) /\ UNCHANGED <<chat, view, inForce>>
    <3>1. pc = "file" /\ stage \in {"start", "list", "history"}
      BY <1>3 DEF LoadFile, StageInv, Carried
    <3>2. ViewInv'
      BY <2>2, <3>1 DEF Goto, HandlerInv, ViewInv, AfterScan
    <3> QED BY <1>0, <2>2, <3>1, <3>2, WorkKeeps DEF Working
  <2> QED BY <1>3, <2>1, <2>2 DEF LoadFile
<1>4. CASE LoadGrants
  <2>0. pc = "contacts" /\ stage \in {"start", "list", "history"}
    BY <1>4 DEF LoadGrants, StageInv, Carried
  <2>1. CASE Refuse("policy_unavailable")
    BY <1>1, <2>0, <2>1 DEF Working
  <2>2. CASE stage = "start" /\ Goto("begin", "chat") /\ UNCHANGED <<chat, view, inForce>>
    <3>1. ViewInv'
      BY <2>0, <2>2 DEF Goto, HandlerInv, ViewInv, AfterScan
    <3> QED BY <1>0, <2>0, <2>2, <3>1, WorkKeeps DEF Working
  <2>3. CASE stage # "start" /\ Goto("serialize", stage) /\ UNCHANGED <<chat, view, inForce>>
    <3>1. ViewInv'
      BY <2>0, <2>3 DEF Goto, HandlerInv, ViewInv, AfterScan
    <3> QED BY <1>0, <2>0, <2>3, <3>1, WorkKeeps DEF Working
  <2> QED BY <1>4, <2>1, <2>2, <2>3 DEF LoadGrants
<1>5. CASE BeginRead
  <2>0. pc = "begin" /\ stage \in {"list", "chat", "history"}
    BY <1>5 DEF BeginRead, StageInv, Reading
  <2>1. CASE Refuse("backend_unavailable")
    BY <1>1, <2>0, <2>1 DEF Working
  <2>2. CASE Goto("scan", stage) /\ UNCHANGED <<workVars, inForce>>
    <3>1. ViewInv'
      BY <2>0, <2>2 DEF Goto, HandlerInv, ViewInv, AfterScan, workVars
    <3> QED BY <1>0, <2>0, <2>2, <3>1, WorkKeeps DEF Working
  <2> QED BY <1>5, <2>1, <2>2 DEF BeginRead
<1>6. CASE Scan
  <2>0. pc = "scan" /\ stage \in {"list", "chat", "history"} /\ Goto("exit", stage)
    BY <1>6 DEF Scan, StageInv, Reading
  <2>1. ViewInv'
    <3>1. view'.chats = chats /\ (stage = "history" => view'.log = log)
      BY <1>6 DEF Scan
    <3>2. DOMAIN chats \subseteq ChatIDs /\ log \in Logs
      BY DatabaseAssumption DEF WorldInv
    <3> QED BY <2>0, <3>1, <3>2 DEF Goto, ViewInv
  <2> QED BY <1>0, <2>0, <2>1, WorkKeeps DEF Working
<1>7. CASE EndRead
  <2>0. pc = "exit" /\ stage \in {"list", "chat", "history"}
    BY <1>7 DEF EndRead, StageInv, Reading
  <2>1. CASE Refuse("backend_unavailable")
    BY <1>1, <2>0, <2>1 DEF Working
  <2>2. CASE stage # "chat" /\ Goto(AfterRead, stage) /\ UNCHANGED <<workVars, inForce>>
    <3>1. ViewInv'
      BY <2>0, <2>2 DEF Goto, HandlerInv, ViewInv, AfterScan, workVars
    <3> QED BY <1>0, <2>0, <2>2, <3>1, WorkKeeps DEF Working, AfterRead
  <2>3. CASE ChatRefusal # "none" /\ Refuse(ChatRefusal)
    <3>1. ChatRefusal \in {"none", "backend_unavailable", "backend_invalid", "not_visible"}
      BY Zenon DEF ChatRefusal
    <3> QED BY <1>1, <2>0, <2>3, <3>1 DEF Working
  <2>4. CASE stage = "chat" /\ view' = NoView /\ Goto("begin", "history")
    <3>1. ViewInv'
      BY <2>4 DEF Goto, ViewInv, AfterScan, NoView
    <3> QED BY <1>0, <2>0, <2>4, <3>1, WorkKeeps DEF Working
  <2> QED BY <1>7, <2>1, <2>2, <2>3, <2>4 DEF EndRead
<1>8. CASE BackendFails \/ Timeout
  BY <1>1, <1>8 DEF BackendFails, Timeout, Working
<1>9. CASE Restart
  BY <1>9, EndKeeps DEF Restart
<1> QED
  BY <1>2, <1>3, <1>4, <1>5, <1>6, <1>7, <1>8, <1>9, SerializeKeeps DEF Broker

LEMMA DataStep == IInv /\ DataInv /\ [Next]_vars => DataInv'
<1> SUFFICES ASSUME StageInv, WorldInv, HandlerInv, [Next]_vars PROVE HandlerInv'
  BY WorldStep DEF IInv, DataInv
<1>1. CASE Environment
  <2>1. UNCHANGED <<pc, stage, req, workVars, reply>>
    BY <1>1 DEF Environment, Receive, ChangeChats, ReplaceDatabase, EditFile, ChangeGrants
  <2> QED BY <2>1, ElsewhereKeeps
<1>2. CASE Broker
  BY <1>2, BrokerKeeps
<1>3. CASE Receipt
  BY <1>3, EndKeeps DEF Receipt
<1>4. CASE \E method \in {"list", "history", "get"} : Request(method)
  BY <1>4, RequestKeeps DEF Methods
<1>5. CASE UNCHANGED vars
  BY <1>5, ElsewhereKeeps DEF vars
<1> QED BY <1>1, <1>2, <1>3, <1>4, <1>5 DEF Next

(* The data invariant holds in every state of every behaviour. *)
THEOREM DataInvariance == Spec => []DataInv
  BY DataInit, DataStep, Invariance, PTL DEF Spec

(* Every variable keeps its type, and no response carries more chats or
   messages than the limit its client asked for (server.go: listChats,
   history).                                                                 *)
THEOREM ReadTypes == Spec => []TypeOK
<1>1. DataInv => TypeOK
  BY DEF DataInv, WorldInv, HandlerInv, RequestInv, ReplyInv, TypeOK, Logs
<1> QED BY <1>1, DataInvariance, PTL

(* scan_complete and page_complete are true only of a response that shows
   every chat, or every message, the whitelist admits (listChats, history).  *)
THEOREM CompleteIsWhole == Spec => []CompleteMeansAll
<1>1. DataInv => CompleteMeansAll
  BY DEF DataInv, HandlerInv
<1> QED BY <1>1, DataInvariance, PTL

(* "not_found" is said only of a message that is not there (getMessage). *)
THEOREM NotFoundIsAbsent == Spec => []NotFoundMeansAbsent
<1>1. DataInv => NotFoundMeansAbsent
  BY DEF DataInv, HandlerInv
<1> QED BY <1>1, DataInvariance, PTL

-----------------------------------------------------------------------------
(***************************************************************************)
(* What a message says. getMessage decides on the first row with the GUID  *)
(* and answers with what has it: the two are one because GUIDs are the     *)
(* messages' own, which the invariant follows from the log into the view.  *)
(***************************************************************************)
Distinct(rows) == \A a, b \in Elements(rows) : a.guid = b.guid => a = b

LogInv ==
  /\ Received = 1..Cardinality(Received)
  /\ \A i \in ChatIDs : Distinct(log[i])

SeenInv == AfterScan /\ stage = "history" => \A i \in ChatIDs : Distinct(view.log[i])

(* Whatever the method, every message of an answer has safe metadata, is of an
   admitted conversation and has no text that looks like a code.             *)
OnlyShown == Answered => \A m \in reply.messages : Shown(m)

MessageInv == LogInv /\ SeenInv /\ OnlyShown

(* No message is in an empty log. *)
LEMMA EmptyLogInv ==
  ASSUME log' = [i \in ChatIDs |-> <<>>]
  PROVE  LogInv'
<1>1. \A i \in ChatIDs : log'[i] = <<>>
  OBVIOUS
<1>2. DOMAIN <<>> = {}
  OBVIOUS
<1>3. Received' = {}
  BY <1>1, <1>2 DEF Received
<1>4. Cardinality(Received') = 0 /\ 1..0 = {}
  BY <1>3, FS_EmptySet
<1>5. \A i \in ChatIDs : Distinct(log'[i])
  BY <1>1, <1>2 DEF Distinct, Elements
<1> QED BY <1>3, <1>4, <1>5, Zenon DEF LogInv

(* A message that arrives has a GUID none had before. *)
LEMMA ReceiveDistinct ==
  ASSUME log \in Logs, LogInv, NEW i \in ReadIDs, NEW class \in Classes, Receive(i, class)
  PROVE  LogInv'
<1> DEFINE n == Cardinality(Received) + 1
           m == [guid |-> n, class |-> class]
           guids(rows) == {rows[k].guid : k \in DOMAIN rows}
<1>1. i \in ChatIDs /\ Cardinality(Received) \in Nat /\ IsFiniteSet(Received) /\ m.guid = n
  BY DatabaseAssumption, ReceivedFinite
<1>2. /\ \A j \in ChatIDs \ {i} : log'[j] = log[j]
      /\ log'[i] = <<m>> \o log[i]
  BY <1>1, Zenon DEF Receive, Logs
<1>3. log[i] \in Seq(Message)
  BY <1>1, Zenon DEF Logs
<1> HIDE DEF m
<1>4. /\ DOMAIN log'[i] = 1..(Len(log[i]) + 1) /\ DOMAIN log[i] = 1..Len(log[i])
      /\ Len(log[i]) \in Nat /\ log'[i][1] = m
      /\ \A k \in 1..Len(log[i]) : log'[i][k + 1] = log[i][k]
  BY <1>2, <1>3
<1>5. /\ Elements(log'[i]) = Elements(log[i]) \cup {m}
      /\ guids(log'[i]) = guids(log[i]) \cup {n}
  <2>1. \A k \in DOMAIN log'[i] : k = 1 \/ \E j \in DOMAIN log[i] : k = j + 1
    <3>1. ASSUME NEW k \in 1..(Len(log[i]) + 1), k # 1 PROVE k - 1 \in 1..Len(log[i]) /\ k = (k - 1) + 1
      BY <1>4, <3>1
    <3> QED BY <1>4, <3>1
  <2>2. 1 \in DOMAIN log'[i] /\ \A j \in DOMAIN log[i] : j + 1 \in DOMAIN log'[i]
    BY <1>4
  <2>3. Elements(log'[i]) = Elements(log[i]) \cup {m}
    <3>1. ASSUME NEW k \in DOMAIN log'[i]
          PROVE  log'[i][k] = m \/ \E j \in DOMAIN log[i] : log'[i][k] = log[i][j]
      BY <1>4, <2>1
    <3>2. ASSUME NEW j \in DOMAIN log[i]
          PROVE  \E k \in DOMAIN log'[i] : log'[i][k] = log[i][j]
      BY <1>4, <2>2
    <3>3. \E k \in DOMAIN log'[i] : log'[i][k] = m
      BY <1>4, <2>2
    <3>4. \A x \in Elements(log'[i]) : x = m \/ x \in Elements(log[i])
      BY <3>1, Zenon DEF Elements
    <3>5. m \in Elements(log'[i]) /\ \A x \in Elements(log[i]) : x \in Elements(log'[i])
      <4>1. m \in Elements(log'[i])
        BY <3>3 DEF Elements
      <4>2. \A x \in Elements(log[i]) : x \in Elements(log'[i])
        BY <3>2 DEF Elements
      <4> QED BY <4>1, <4>2
    <3> QED BY <3>4, <3>5
  <2>4. guids(log'[i]) = guids(log[i]) \cup {n}
    <3>1. ASSUME NEW L PROVE guids(L) = {x.guid : x \in Elements(L)}
      <4>1. \A x \in Elements(L) : \E k \in DOMAIN L : x = L[k]
        BY DEF Elements
      <4>2. \A k \in DOMAIN L : L[k] \in Elements(L)
        BY DEF Elements
      <4> QED BY <4>1, <4>2
    <3>2. /\ guids(log'[i]) = {x.guid : x \in Elements(log'[i])}
          /\ guids(log[i]) = {x.guid : x \in Elements(log[i])}
      BY <3>1
    <3> HIDE DEF guids, n
    <3> QED BY <1>1, <2>3, <3>2
  <2> QED BY <2>3, <2>4
<1>6. Received = UNION {guids(log[j]) : j \in ChatIDs}
      /\ Received' = UNION {guids(log'[j]) : j \in ChatIDs}
  BY DEF Received
<1>7. \A a \in Elements(log[i]) : a.guid \in Received
  BY <1>1, <1>6 DEF Elements
<1> HIDE DEF n, guids
<1>8. Received' = Received \cup {n}
  BY <1>1, <1>2, <1>5, <1>6
<1>9. n \notin Received
  BY <1>1 DEF LogInv, n
<1>10. Cardinality(Received \cup {n}) = n
  BY <1>1, <1>9, FS_AddElement DEF n
<1>11. Received' = 1..Cardinality(Received')
  <2>1. Received \cup {n} = 1..n
    <3>1. PICK c \in Nat : c = Cardinality(Received)
      BY <1>1
    <3>2. Received = 1..c /\ n = c + 1
      BY <3>1 DEF LogInv, n
    <3> QED BY <3>2
  <2> QED BY <1>8, <1>10, <2>1
<1>12. ASSUME NEW j \in ChatIDs PROVE Distinct(log'[j])
  <2>1. CASE j = i
    BY <1>1, <1>5, <1>7, <1>9, <2>1 DEF LogInv, Distinct
  <2>2. CASE j # i
    BY <1>2, <2>2 DEF LogInv
  <2> QED BY <2>1, <2>2
<1> QED BY <1>11, <1>12, Zenon DEF LogInv

(* A reply shows nothing but messages that may be shown. *)
LEMMA RepliesWithhold ==
  /\ \A m \in ListReply.messages : Shown(m)
  /\ \A m \in HistoryReply.messages : Shown(m)
  /\ view.log \in Logs /\ req.id \in ReadIDs /\ Distinct(view.log[req.id]) =>
       \A m \in MessageReply.messages : Shown(m)
<1>1. \A m \in ListReply.messages : Shown(m)
  BY RepliesShow
<1>2. \A m \in HistoryReply.messages : Shown(m)
  BY DEF HistoryReply, Failure, Answer
<1>3. ASSUME view.log \in Logs, req.id \in ReadIDs, Distinct(view.log[req.id]),
             NEW m \in MessageReply.messages
      PROVE  Shown(m)
  <2> DEFINE rows == RowsOf(MaxMessageScan)
             hits == {h \in Elements(rows) : h.guid = req.guid}
  <2>1. \A a, b \in hits : a = b
    <3>1. Elements(rows) \subseteq Elements(view.log[req.id])
      BY <1>3, RowsTaken, LimitAssumption
    <3> QED BY <1>3, <3>1 DEF Distinct
  <2>2. CASE hits = {}
    <3>1. MessageReply \in {Failure("not_found"), Failure("lookup_incomplete")}
      BY <2>2, Zenon DEF MessageReply
    <3> QED BY <1>3, <3>1 DEF Failure, Answer
  <2>3. CASE hits # {}
    <3>1. PICK h \in hits : \A x \in hits : x = h
      BY <2>1, <2>3
    <3>2. CASE Unsafe(h)
      <4>1. /\ \E x \in hits : Unsafe(x)
            /\ ~ \E x \in hits : ~Unsafe(x) /\ ~Shown(x)
            /\ ~ \E x \in hits : Shown(x)
        BY <3>1, <3>2 DEF Shown
      <4>2. MessageReply = Failure("backend_invalid")
        BY <2>3, <4>1, Zenon DEF MessageReply
      <4> QED BY <1>3, <4>2 DEF Failure, Answer
    <3>3. CASE ~Unsafe(h) /\ ~Shown(h)
      <4>1. /\ ~ \E x \in hits : Unsafe(x)
            /\ \E x \in hits : ~Unsafe(x) /\ ~Shown(x)
            /\ ~ \E x \in hits : Shown(x)
        BY <3>1, <3>3
      <4>2. MessageReply = Failure("not_visible")
        BY <2>3, <4>1, Zenon DEF MessageReply
      <4> QED BY <1>3, <4>2 DEF Failure, Answer
    <3>4. CASE Shown(h)
      <4>1. /\ ~ \E x \in hits : Unsafe(x)
            /\ ~ \E x \in hits : ~Unsafe(x) /\ ~Shown(x)
            /\ \E x \in hits : Shown(x)
        BY <3>1, <3>4 DEF Shown
      <4>2. MessageReply = Answer("ok", {}, hits, FALSE)
        BY <2>3, <4>1, Zenon DEF MessageReply
      <4>3. m \in hits
        BY <1>3, <4>2 DEF Answer
      <4> QED BY <3>1, <3>4, <4>3
    <3> QED BY <3>2, <3>3, <3>4 DEF Shown
  <2> QED BY <2>2, <2>3
<1> QED BY <1>1, <1>2, <1>3

LEMMA MessageInit == Init => MessageInv
<1> SUFFICES ASSUME Init PROVE MessageInv
  OBVIOUS
<1>1. \A i \in ChatIDs : log[i] = <<>> /\ DOMAIN log[i] = {}
  BY DEF Init
<1>2. Received = {}
  BY <1>1 DEF Received
<1>3. Cardinality(Received) = 0 /\ 1..0 = {}
  BY <1>2, FS_EmptySet
<1>4. \A i \in ChatIDs : Distinct(log[i])
  BY <1>1 DEF Distinct, Elements
<1>5. SeenInv /\ OnlyShown
  BY DEF Init, SeenInv, AfterScan, OnlyShown, Answered
<1> QED BY <1>2, <1>3, <1>4, <1>5, Zenon DEF MessageInv, LogInv

(* A history in hand was taken from the log, or was in hand already. *)
LEMMA HandlerViews ==
  ASSUME StageInv, Broker, AfterScan', stage' = "history"
  PROVE  view'.log = log \/ (AfterScan /\ stage = "history" /\ view' = view)
<1>0. pc' \in {"exit", "file", "contacts", "serialize"}
  BY DEF AfterScan
<1>1. ~ \E code : Refuse(code)
  BY <1>0 DEF Refuse
<1>2. CASE Accept
  BY <1>0, <1>1, <1>2 DEF Accept, Goto
<1>3. CASE LoadFile \/ LoadGrants
  BY <1>0, <1>1, <1>3 DEF LoadFile, LoadGrants, Goto, AfterScan
<1>4. CASE BeginRead
  BY <1>0, <1>1, <1>4 DEF BeginRead, Goto
<1>5. CASE Scan
  BY <1>5 DEF Scan, Goto
<1>6. CASE EndRead
  <2>1. SameDatabase /\ stage # "chat" /\ pc = "exit" /\ Goto(AfterRead, stage) /\ view' = view
    BY <1>0, <1>1, <1>6 DEF EndRead, Goto, workVars
  <2> QED BY <2>1 DEF Goto, AfterScan
<1>7. CASE Serialize
  <2>1. pc' = "sent"
    BY <1>1, <1>7, SerializeCases DEF Serialize, StageInv, Carried, Send
  <2> QED BY <1>0, <2>1
<1>8. CASE BackendFails \/ Timeout \/ Restart
  BY <1>0, <1>1, <1>8 DEF BackendFails, Timeout, Restart, EndRequest
<1> QED BY <1>2, <1>3, <1>4, <1>5, <1>6, <1>7, <1>8 DEF Broker

(* An answer is sent by the method, and nothing else answers. *)
LEMMA HandlerAnswers ==
  ASSUME StageInv, Broker, Answered'
  PROVE  /\ pc = "serialize"
         /\ Send(ListReply) \/ Send(HistoryReply) \/ (stage = "history" /\ Send(MessageReply))
<1>0. pc' = "sent" /\ reply'.code = "ok"
  BY DEF Answered
<1>1. ASSUME NEW code, Refuse(code) PROVE code = "ok"
  BY <1>0, <1>1, FailureFacts DEF Refuse
<1>2. CASE Accept \/ LoadFile \/ LoadGrants \/ BeginRead \/ Scan
  BY <1>0, <1>1, <1>2 DEF Accept, LoadFile, LoadGrants, BeginRead, Scan, Goto
<1>3. CASE EndRead
  <2>1. ChatRefusal # "ok"
    BY DEF ChatRefusal
  <2> QED BY <1>0, <1>1, <1>3, <2>1 DEF EndRead, Goto, AfterRead
<1>4. CASE Serialize
  BY <1>1, <1>4, SerializeCases DEF Serialize, StageInv, Carried
<1>5. CASE BackendFails \/ Timeout \/ Restart
  BY <1>0, <1>1, <1>5 DEF BackendFails, Timeout, Restart, EndRequest
<1> QED BY <1>2, <1>3, <1>4, <1>5 DEF Broker

LEMMA MessageStep == IInv /\ DataInv /\ MessageInv /\ [Next]_vars => MessageInv'
<1> SUFFICES ASSUME StageInv, log \in Logs, RequestInv, ViewInv,
                    LogInv, SeenInv, OnlyShown, [Next]_vars
             PROVE  MessageInv'
  BY DEF IInv, DataInv, WorldInv, HandlerInv, MessageInv
<1>1. ASSUME log' = log PROVE LogInv'
  <2>1. Received' = Received
    BY <1>1 DEF Received
  <2>2. \A i \in ChatIDs : Distinct(log'[i])
    BY <1>1 DEF LogInv
  <2> QED BY <2>1, <2>2, Zenon DEF LogInv
<1>2. ASSUME UNCHANGED <<pc, stage, req, workVars, reply>> PROVE SeenInv' /\ OnlyShown'
  <2>1. Answered' = Answered /\ \A m : Shown(m)' = Shown(m)
    BY <1>2, Zenon
    DEF Answered, Shown, Unsafe, Suppress, SameConversation, RowConversation, Allowed, workVars
  <2>2. SeenInv'
    BY <1>2 DEF SeenInv, AfterScan, workVars
  <2>3. OnlyShown'
    BY <1>2, <2>1 DEF OnlyShown
  <2> QED BY <2>2, <2>3
<1>3. ASSUME ~Answered', ~AfterScan' PROVE SeenInv' /\ OnlyShown'
  BY <1>3 DEF SeenInv, OnlyShown
<1>4. CASE Environment
  <2>1. SeenInv' /\ OnlyShown'
    BY <1>2, <1>4
    DEF Environment, Receive, ChangeChats, ReplaceDatabase, EditFile, ChangeGrants
  <2>2. CASE \E i \in ReadIDs, class \in Classes : Receive(i, class)
    BY <2>1, <2>2, ReceiveDistinct DEF MessageInv
  <2>3. CASE ReplaceDatabase
    BY <2>1, <2>3, EmptyLogInv DEF MessageInv, ReplaceDatabase
  <2>4. CASE \/ \E d \in Databases : ChangeChats(d)
             \/ \E f \in Files : EditFile(f)
             \/ \E g \in Grants : ChangeGrants(g)
    <3>1. log' = log
      BY <2>4 DEF ChangeChats, EditFile, ChangeGrants, dbVars
    <3> QED BY <1>1, <2>1, <3>1 DEF MessageInv
  <2> QED BY <1>4, <2>2, <2>3, <2>4 DEF Environment
<1>5. CASE Broker
  <2>1. log' = log
    <3>1. CASE Serialize
      BY <3>1, SerializeCases DEF Serialize, StageInv, Carried, Send, Refuse, dbVars
    <3> QED
      BY <1>5, <3>1
      DEF Broker, Accept, LoadFile, LoadGrants, BeginRead, Scan, EndRead, BackendFails, Timeout,
          Restart, Refuse, Goto, dbVars
  <2>2. SeenInv'
    <3> SUFFICES ASSUME AfterScan', stage' = "history", NEW i \in ChatIDs
                 PROVE  Distinct(view.log[i])'
      BY DEF SeenInv
    <3>1. CASE view'.log = log
      BY <3>1 DEF LogInv, Distinct
    <3>2. CASE AfterScan /\ stage = "history" /\ view' = view
      BY <3>2 DEF SeenInv, Distinct
    <3> QED BY <1>5, <3>1, <3>2, HandlerViews
  <2>3. OnlyShown'
    <3> SUFFICES ASSUME Answered', NEW m \in reply'.messages PROVE Shown(m)'
      BY DEF OnlyShown
    <3>1. /\ pc = "serialize"
          /\ Send(ListReply) \/ Send(HistoryReply) \/ (stage = "history" /\ Send(MessageReply))
      BY <1>5, HandlerAnswers
    <3>2. UNCHANGED <<p, chat, view, req, stage>>
      BY <3>1 DEF Send, workVars
    <3>3. Shown(m)' = Shown(m)
      BY <3>2, Zenon DEF Shown, Unsafe, Suppress, SameConversation, RowConversation, Allowed
    <3>4. CASE Send(ListReply) \/ Send(HistoryReply)
      BY <3>3, <3>4, RepliesWithhold DEF Send
    <3>5. CASE stage = "history" /\ Send(MessageReply)
      <4>1. view.log \in Logs /\ req.id \in ReadIDs
        BY <3>1, <3>5 DEF ViewInv, AfterScan, RequestInv, Working, Methods
      <4>2. Distinct(view.log[req.id])
        BY <3>1, <3>5, <4>1, DatabaseAssumption DEF SeenInv, AfterScan
      <4> QED BY <3>3, <3>5, <4>1, <4>2, RepliesWithhold DEF Send
    <3> QED BY <3>1, <3>4, <3>5
  <2> QED BY <1>1, <2>1, <2>2, <2>3 DEF MessageInv
<1>6. CASE Receipt \/ \E method \in {"list", "history", "get"} : Request(method)
  <2>1. log' = log /\ pc' \in {"idle", "accept"}
    BY <1>6 DEF Receipt, EndRequest, Request, dbVars
  <2>2. ~Answered' /\ ~AfterScan'
    BY <2>1 DEF Answered, AfterScan
  <2> QED BY <1>1, <1>3, <2>1, <2>2 DEF MessageInv
<1>7. CASE UNCHANGED vars
  BY <1>1, <1>2, <1>7 DEF vars, dbVars, MessageInv
<1> QED BY <1>4, <1>5, <1>6, <1>7 DEF Next

(* No method returns a message the policy in hand does not admit, one with
   metadata that contradicts itself or the chat that was authorized, or one
   whose text is suppressed (server.go: history, getMessage, exposeMessage). *)
THEOREM NothingElseShown == Spec => []OnlyShown
<1>1. MessageInv => OnlyShown
  BY DEF MessageInv
<1> QED
  BY <1>1, MessageInit, MessageStep, Invariance, DataInvariance, PTL DEF Spec
=============================================================================
