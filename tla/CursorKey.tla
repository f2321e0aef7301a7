------------------------------ MODULE CursorKey ------------------------------
(***************************************************************************)
(* The key that seals collection cursors (internal/broker/cursor.go,       *)
(* loadCursorCipher) and the file lock it takes (lock_unix.go): created by *)
(* whichever start of safe-imsgd finds the file empty, read by all later   *)
(* ones. A start is a process of "run" or "config validate"; several may   *)
(* race. The file is seen through the page cache, which a process's death  *)
(* leaves alone and a power loss cuts back to what was made durable.       *)
(***************************************************************************)
EXTENDS Naturals, FiniteSets

CONSTANTS
  Procs,       \* daemon processes, each restarted by its supervisor
  Keys,        \* 32-byte keys the random source may return
  MaxFaults,   \* bound on kills, exits and failed writes and syncs
  MaxLosses    \* bound on power losses

ASSUME KeyAssumption == Keys \cap {"none", "absent", "empty", "torn"} = {}
ASSUME ProcAssumption == "none" \notin Procs
ASSUME FaultAssumption == MaxFaults \in Nat /\ MaxLosses \in Nat

VARIABLES
  content,       \* the file in the page cache: no file, no bytes, fewer than 32, a key
  dataDurable,   \* whether its bytes are on disk
  entryDurable,  \* whether its directory entry is
  lock,          \* the process holding its flock
  pc,            \* where each process is
  key,           \* the key each process generated or read
  checkpoint,    \* the key sealing the client's durable cursor
  drawn,         \* history: keys the random source has returned
  confirmed,     \* history: keys whose creation ran to the end
  faults, losses

vars == <<content, dataDurable, entryDurable, lock, pc, key, checkpoint, drawn,
          confirmed, faults, losses>>
fileVars == <<content, dataDurable, entryDurable>>
histVars == <<checkpoint, confirmed, faults, losses>>

Init ==
  /\ content = "absent" /\ dataDurable = TRUE /\ entryDurable = TRUE
  /\ lock = "none"
  /\ pc = [p \in Procs |-> "off"] /\ key = [p \in Procs |-> "none"]
  /\ checkpoint = "none"
  /\ drawn = {} /\ confirmed = {}
  /\ faults = 0 /\ losses = 0

Goto(p, place) == pc' = [pc EXCEPT ![p] = place]
NotReleased(p) == lock' = lock       \* bug: the descriptor stays open
Release(p) == lock' = IF lock = p THEN "none" ELSE lock

(* loadCursorCipher returns: the descriptor is closed and with it the lock. *)
Return(p, place) == Goto(p, place) /\ Release(p)

(* The process ends before it serves, or while it does. *)
Die(p) ==
  /\ pc[p] # "off"
  /\ faults < MaxFaults /\ faults' = faults + 1
  /\ Return(p, "off")
  /\ key' = [key EXCEPT ![p] = "none"]
  /\ UNCHANGED <<checkpoint, drawn, confirmed, losses>>

-----------------------------------------------------------------------------
(* acquireLock: create the file exclusively, or open the existing one ...    *)
Open(p) ==
  /\ pc[p] = "off"
  /\ Goto(p, "opened")
  /\ IF content = "absent"
     THEN content' = "empty" /\ entryDurable' = FALSE /\ UNCHANGED dataDurable
     ELSE UNCHANGED fileVars
  /\ UNCHANGED <<lock, key, drawn, histVars>>

(* ... and take its lock without waiting. A loser of the race gives up. *)
LockShared(p) ==                     \* bug: a lock that excludes nobody
  /\ pc[p] = "opened"
  /\ Goto(p, "locked") /\ lock' = p
  /\ UNCHANGED <<fileVars, key, drawn, histVars>>
Lock(p) ==
  /\ pc[p] = "opened"
  /\ IF lock = "none"
     THEN lock' = p /\ Goto(p, "locked")
     ELSE Goto(p, "off") /\ UNCHANGED lock
  /\ UNCHANGED <<fileVars, key, drawn, histVars>>

(* Reading the file: fewer than 32 bytes stop the start until the owner
   recovers the file, ...                                                   *)
RefuseKey(p) ==
  /\ pc[p] = "locked" /\ content = "torn"
  /\ Return(p, "off")
  /\ UNCHANGED <<fileVars, key, drawn, histVars>>

(* ... a key is used as it stands ... *)
ReadKey(p) ==
  /\ pc[p] = "locked" /\ content \in Keys
  /\ key' = [key EXCEPT ![p] = content]
  /\ Return(p, "loaded")
  /\ UNCHANGED <<fileVars, drawn, histVars>>

(* ... and an empty file gets a fresh one. *)
RefuseEmpty(p) ==                    \* bug: an empty file counts as malformed
  /\ pc[p] = "locked" /\ content = "empty"
  /\ Return(p, "off")
  /\ UNCHANGED <<fileVars, key, drawn, histVars>>
DrawKey(p) ==
  /\ pc[p] = "locked" /\ content = "empty"
  /\ \E k \in Keys \ drawn :
       drawn' = drawn \cup {k} /\ key' = [key EXCEPT ![p] = k]
  /\ Goto(p, "drawn")
  /\ UNCHANGED <<fileVars, lock, histVars>>

Write(p) ==
  /\ pc[p] = "drawn"
  /\ content' = key[p] /\ dataDurable' = FALSE
  /\ Goto(p, "written")
  /\ UNCHANGED <<entryDurable, lock, key, drawn, histVars>>

(* The device is full: nothing, or a part of the key, is written. *)
WriteFails(p) ==
  /\ pc[p] = "drawn"
  /\ content' \in {"empty", "torn"} /\ dataDurable' = (content' = "empty")
  /\ Die(p)
  /\ UNCHANGED entryDurable

Sync(p) ==
  /\ pc[p] = "written"
  /\ dataDurable' = TRUE
  /\ Goto(p, "synced")
  /\ UNCHANGED <<content, entryDurable, lock, key, drawn, histVars>>

NoDirectorySync(p) ==                \* bug: only the file is synced
  /\ pc[p] = "synced"
  /\ confirmed' = confirmed \cup {key[p]}
  /\ Return(p, "loaded")
  /\ UNCHANGED <<fileVars, key, checkpoint, drawn, faults, losses>>
SyncDirectory(p) ==
  /\ pc[p] = "synced"
  /\ entryDurable' = TRUE
  /\ confirmed' = confirmed \cup {key[p]}
  /\ Return(p, "loaded")
  /\ UNCHANGED <<content, dataDurable, key, checkpoint, drawn, faults, losses>>

(* Server.Run: one process owns the socket, the others end. *)
Listen(p) ==
  /\ pc[p] = "loaded"
  /\ IF \A q \in Procs : pc[q] # "serving"
     THEN Goto(p, "serving") /\ UNCHANGED key
     ELSE Goto(p, "off") /\ key' = [key EXCEPT ![p] = "none"]
  /\ UNCHANGED <<fileVars, lock, drawn, histVars>>

(* collect: a cursor that opens is replaced by one under this process's key;
   one that does not is refused, and the client keeps it.                   *)
Answer(p) ==
  /\ pc[p] = "serving"
  /\ checkpoint \in {"none", key[p]}
  /\ checkpoint' = key[p]
  /\ UNCHANGED <<fileVars, lock, pc, key, drawn, confirmed, faults, losses>>

(* A kill, a failed sync or an exit, at any point. *)
Stop(p) == Die(p) /\ UNCHANGED fileVars

-----------------------------------------------------------------------------
(* What a power loss may leave of the file. *)
Survivors == {content} \cup (IF dataDurable THEN {} ELSE {"empty", "torn"})
                       \cup (IF entryDurable THEN {} ELSE {"absent"})

PowerLoss ==
  /\ losses < MaxLosses /\ losses' = losses + 1
  /\ content' \in Survivors
  /\ dataDurable' = TRUE /\ entryDurable' = TRUE
  /\ lock' = "none"
  /\ pc' = [p \in Procs |-> "off"] /\ key' = [p \in Procs |-> "none"]
  /\ UNCHANGED <<checkpoint, drawn, confirmed, faults>>

Step(p) == Open(p) \/ Lock(p) \/ RefuseKey(p) \/ ReadKey(p) \/ DrawKey(p) \/ Write(p)
             \/ Sync(p) \/ SyncDirectory(p) \/ Listen(p)

Next == \/ \E p \in Procs : Step(p) \/ WriteFails(p) \/ Answer(p) \/ Stop(p)
        \/ PowerLoss

Spec == Init /\ [][Next]_vars

(* A started process runs, and the supervisor starts it again when it ends. *)
FairSpec == Spec /\ \A p \in Procs : WF_vars(Step(p))

-----------------------------------------------------------------------------
Contents == {"absent", "empty", "torn"} \cup Keys
Holding == {"locked", "drawn", "written", "synced"}

(* Every variable has its type; at most one start is past the lock. *)
TypeOK ==
  /\ content \in Contents /\ dataDurable \in BOOLEAN /\ entryDurable \in BOOLEAN
  /\ lock \in Procs \cup {"none"}
  /\ pc \in [Procs -> {"off", "opened", "loaded", "serving"} \cup Holding]
  /\ key \in [Procs -> Keys \cup {"none"}]
  /\ checkpoint \in Keys \cup {"none"}
  /\ drawn \subseteq Keys /\ confirmed \subseteq Keys
  /\ faults \in 0..MaxFaults /\ losses \in 0..MaxLosses
  /\ \A p \in Procs : pc[p] \in Holding <=> lock = p

Loaded(p) == pc[p] \in {"loaded", "serving"}

(* As long as the machine stays up, whatever starts race, die or fail, there
   is one key: every broker that has a cipher opens the client's cursor and
   those of every other.                                                    *)
OneKey ==
  losses = 0 => \A p \in Procs : Loaded(p) =>
                  /\ checkpoint \in {"none", key[p]}
                  /\ \A q \in Procs : Loaded(q) => key[q] = key[p]

(* Once the start that created the key has gone through both syncs, nothing
   replaces it, power loss included: cursors sealed with it always open.    *)
ConfirmedKept == \A k \in confirmed : content = k

(* A start interrupted anywhere, an empty file included, does not keep later
   ones from serving; only a partly written key waits for the owner.        *)
StartsRecover ==
  (content # "torn") ~> (content = "torn" \/ \E p \in Procs : pc[p] = "serving")

(* cursor.go: "The owner-only key survives broker restarts." Whatever broker is
   serving can open the cursor an earlier one issued.                        *)
CursorsSurvive ==
  \A p \in Procs : pc[p] = "serving" => checkpoint \in {"none", key[p]}

-----------------------------------------------------------------------------
(* The inductive invariant behind ConfirmedKept and OneKey. *)

(* What the holder of the lock knows of the file. *)
HolderInv ==
  \A p \in Procs :
    /\ pc[p] = "drawn" => content = "empty" /\ key[p] \in Keys
    /\ pc[p] = "written" => content = key[p] /\ key[p] \in Keys
    /\ pc[p] = "synced" => content = key[p] /\ key[p] \in Keys /\ dataDurable

DurableInv == \A k \in confirmed : content = k /\ dataDurable /\ entryDurable

(* While the machine stays up the file is the key of everybody. *)
AgreedInv ==
  losses = 0 =>
    /\ \A p \in Procs : Loaded(p) => key[p] \in Keys /\ key[p] = content
    /\ checkpoint \in {"none", content}

IInv == TypeOK /\ HolderInv /\ DurableInv /\ AgreedInv
=============================================================================
