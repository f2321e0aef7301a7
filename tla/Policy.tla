------------------------------- MODULE Policy -------------------------------
(***************************************************************************)
(* The whitelist (internal/policy): what a policy file grants, how derived *)
(* identities are added to it, and whether a conversation is admitted.     *)
(*                                                                         *)
(* Identities are what NormalizeIdentity returns; several spellings may    *)
(* name one, and a spelling that names none is refused. A GUID is its      *)
(* three fields; a conversation names itself by GUID, by identifier (the   *)
(* GUID again, or a plain spelling) and by its participants.               *)
(***************************************************************************)
EXTENDS Naturals, FiniteSets

CONSTANTS
  Spellings,    \* ways an identity, or the name of a group, may be written
  Normalize     \* the identity a spelling names

NotAnIdentity == "invalid"

ASSUME NormalizeAssumption == DOMAIN Normalize = Spellings

Named(spellings) == {Normalize[s] : s \in spellings}
AllIdentities(spellings) == \A s \in spellings : Normalize[s] # NotAnIdentity

(* The file: "safe" stands for its owner, mode, size and syntax. *)
LoadOK(file) ==
  /\ file.safe
  /\ AllIdentities(file.owners) /\ AllIdentities(file.direct)
  /\ file.owners # {}
  /\ Named(file.owners) \cap Named(file.direct) = {}

Load(file) ==
  [owners |-> Named(file.owners), direct |-> Named(file.direct), excluded |-> file.excluded]

(* Derived grants are added; an owner alias is never one of them. *)
WithDirect(p, identities) ==
  [p EXCEPT !.direct = @ \cup (identities \ p.owners)]

-----------------------------------------------------------------------------
IsGroup(c) == c.guid.marker = "+"
Members(c) == Named(c.participants)

(* The name the identifier gives. *)
Name(c) == IF c.structured THEN c.guid.handle ELSE c.name

(* GUID, flag, identifier and participants describe one conversation. An
   absent flag, list, GUID or identifier describes none.                    *)
Valid(c) ==
  /\ c.group \in {"yes", "no"} /\ c.guid.marker \in {"+", "-"}
  /\ (c.group = "yes") = IsGroup(c)
  /\ c.structured => c.identifier = c.guid
  /\ c.participants # {} /\ AllIdentities(c.participants)
  /\ IsGroup(c) => Name(c) = c.guid.handle
  /\ ~IsGroup(c) => /\ Normalize[Name(c)] # NotAnIdentity
                    /\ Members(c) = {Normalize[Name(c)]}
                    /\ Normalize[c.guid.handle] = Normalize[Name(c)]

Peer(c) == Normalize[Name(c)]

GrantOutranksExclusion(p, c) ==    \* bug: a group only is excluded by its GUID
  IF IsGroup(c) THEN c.guid \notin p.excluded ELSE Peer(c) \in p.direct \ p.owners

(* A group is admitted unless excluded; a direct conversation by its peer. *)
Admits(p, c) ==
  /\ c.guid \notin p.excluded
  /\ ~IsGroup(c) => Peer(c) \in p.direct /\ Peer(c) \notin p.owners

Authorize(p, c) ==
  [valid |-> Valid(c), allowed |-> Valid(c) /\ Admits(p, c),
   group |-> Valid(c) /\ IsGroup(c),
   participants |-> IF Valid(c) THEN Members(c) ELSE {}]

Allowed(p, c) == Authorize(p, c).allowed

(* What the whitelist means for a valid conversation, of a policy file and
   derived identities, without the order of Authorize's checks.             *)
Whitelisted(file, identities, c) ==
  /\ c.guid \notin file.excluded
  /\ \/ IsGroup(c)
     \/ Members(c) \subseteq (Named(file.direct) \cup identities) \ Named(file.owners)
=============================================================================
