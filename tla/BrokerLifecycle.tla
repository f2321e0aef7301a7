---------------------------- MODULE BrokerLifecycle ----------------------------
(***************************************************************************)
(* safe-imsgd from start to exit: Server.Run and handleConn of             *)
(* internal/broker/server.go, with the lock of lock_unix.go. Several        *)
(* daemons may be started for one socket path (a supervisor, an owner, a    *)
(* restart that overlaps a shutdown); each may be signalled or killed, and  *)
(* the owner may remove or replace the socket file, at any moment.          *)
(*                                                                          *)
(* The lock file itself is assumed to stay: nobody but the owner can remove *)
(* it. What a handler does with a request is ReadPath and Collection.       *)
(***************************************************************************)
EXTENDS Integers, FiniteSets

CONSTANTS
  Procs,    \* the daemons
  Conns,    \* connections clients have open at a time
  Slots,    \* capacity of Server.connections
  MaxFaults \* bound on kills, signals, failing calls and touched sockets

ASSUME SlotsAssumption == Slots \in Nat \ {0} /\ MaxFaults \in Nat
ASSUME ConnsAssumption == IsFiniteSet(Conns)
ASSUME NamesAssumption == {"free", "none", "stale", "other"} \cap Procs = {}

VARIABLES
  pc,        \* Server.Run
  cancelled, \* its context is done
  contacts,  \* its Contacts manager is running
  lock,      \* who holds the flock on the lock file
  path,      \* what is at the socket path: a daemon's socket, a dead one's
             \* ("stale"), something else ("other") or nothing
  seen,      \* what prepareSocketPath found
  mine,      \* createdInfo
  listening, \* daemons whose listener is open
  slots,     \* entries in Server.connections
  stage, by, \* a connection: where its handler is, and whose it is
  touched,   \* ghost: daemons whose socket file the owner has touched
  faults     \* how many faults there were

runVars == <<pc, cancelled, contacts, lock>>
fileVars == <<path, seen, mine, listening>>
connVars == <<slots, stage, by>>
ghostVars == <<touched, faults>>
vars == <<runVars, fileVars, connVars, ghostVars>>

Handling == {"read", "work", "write"}
HandlersOf(p) == {c \in Conns : by[c] = p /\ stage[c] \in Handling}

Init ==
  /\ pc = [p \in Procs |-> "off"]
  /\ cancelled = [p \in Procs |-> FALSE] /\ contacts = [p \in Procs |-> FALSE]
  /\ lock = "free" /\ path \in {"none", "stale", "other"}
  /\ seen = [p \in Procs |-> "none"] /\ mine = [p \in Procs |-> "none"]
  /\ listening = {} /\ slots = [p \in Procs |-> 0]
  /\ stage = [c \in Conns |-> "none"] /\ by = [c \in Conns |-> "none"]
  /\ touched = {} /\ faults = 0

-----------------------------------------------------------------------------
Goto(p, place) == pc' = [pc EXCEPT ![p] = place]
Fault == faults < MaxFaults /\ faults' = faults + 1

(* Run: the context and the Contacts goroutine come before the lock. *)
Start(p) ==
  /\ pc[p] = "off" /\ Goto(p, "lock")
  /\ cancelled' = [cancelled EXCEPT ![p] = FALSE]
  /\ contacts' = [contacts EXCEPT ![p] = TRUE]
  /\ UNCHANGED <<lock, fileVars, connVars, ghostVars>>

(* The signal handler of main, in any phase of Run. *)
Signal(p) ==
  /\ pc[p] # "off" /\ ~cancelled[p] /\ Fault
  /\ cancelled' = [cancelled EXCEPT ![p] = TRUE]
  /\ UNCHANGED <<pc, contacts, lock, fileVars, connVars, touched>>

(* checkSocketDir, and acquireLock, which does not wait. *)
Lock(p) ==
  /\ pc[p] = "lock"
  /\ \/ lock = "free" /\ lock' = p /\ Goto(p, "probe")
     \/ lock # "free" /\ Goto(p, "leave") /\ UNCHANGED lock
  /\ UNCHANGED <<cancelled, contacts, fileVars, connVars, ghostVars>>

-----------------------------------------------------------------------------
(* prepareSocketPath: a socket nobody answers at is removed, if it is still
   the one that was probed.                                                 *)
Unanswered(file) == file = "stale" \/ file \in Procs \ listening

(* bug: any file at the path is refused *)
ProbeRefuses(p) ==
  /\ pc[p] = "probe"
  /\ Goto(p, IF path = "none" THEN "listen" ELSE "unlock")
  /\ UNCHANGED <<cancelled, contacts, lock, fileVars, connVars, ghostVars>>

Probe(p) ==
  /\ pc[p] = "probe"
  /\ \/ path = "none" /\ Goto(p, "listen") /\ UNCHANGED seen
     \/ Unanswered(path) /\ Goto(p, "recheck") /\ seen' = [seen EXCEPT ![p] = path]
     \/ path # "none" /\ ~Unanswered(path) /\ Goto(p, "unlock") /\ UNCHANGED seen
  /\ UNCHANGED <<cancelled, contacts, lock, path, mine, listening, connVars, ghostVars>>

Recheck(p) ==
  /\ pc[p] = "recheck"
  /\ Goto(p, IF path = seen[p] THEN "remove" ELSE "unlock")
  /\ UNCHANGED <<cancelled, contacts, lock, fileVars, connVars, ghostVars>>

(* Remove takes away what is there by then. *)
RemoveStale(p) ==
  /\ pc[p] = "remove" /\ path' = "none" /\ Goto(p, "listen")
  /\ UNCHANGED <<cancelled, contacts, lock, seen, mine, listening, connVars, ghostVars>>

Listen(p) ==
  /\ pc[p] = "listen"
  /\ \/ /\ path = "none" /\ path' = p
        /\ listening' = listening \cup {p} /\ touched' = touched \ {p}
        /\ Goto(p, "stat")
     \/ path # "none" /\ Goto(p, "unlock") /\ UNCHANGED <<path, listening, touched>>
  /\ UNCHANGED <<cancelled, contacts, lock, seen, mine, connVars, faults>>

(* Connections are closed. *)
Close(cs) ==
  /\ stage' = [c \in Conns |-> IF c \in cs THEN "none" ELSE stage[c]]
  /\ by' = [c \in Conns |-> IF c \in cs THEN "none" ELSE by[c]]
QueuedAt(p) == {c \in Conns : by[c] = p /\ stage[c] = "queued"}

(* Lstat of the new socket, and chmod. *)
Stat(p) ==
  /\ pc[p] = "stat"
  /\ \/ /\ path = "none" /\ Goto(p, "unlock") /\ UNCHANGED mine
        /\ listening' = listening \ {p} /\ Close(QueuedAt(p))
     \/ /\ path # "none" /\ Goto(p, "serve") /\ mine' = [mine EXCEPT ![p] = path]
        /\ UNCHANGED <<listening, stage, by>>
  /\ UNCHANGED <<cancelled, contacts, lock, path, seen, slots, ghostVars>>

-----------------------------------------------------------------------------
(* The accept loop; a connection beyond the slots is closed. *)
Accept(p, c) ==
  /\ pc[p] = "serve" /\ by[c] = p /\ stage[c] = "queued"
  /\ IF slots[p] < Slots
     THEN /\ slots' = [slots EXCEPT ![p] = @ + 1]
          /\ stage' = [stage EXCEPT ![c] = "read"] /\ UNCHANGED by
     ELSE Close({c}) /\ UNCHANGED slots
  /\ UNCHANGED <<runVars, fileVars, ghostVars>>

(* The context has closed the listener. *)
AcceptFails(p) ==
  /\ pc[p] = "serve" /\ cancelled[p] /\ Goto(p, "stop")
  /\ UNCHANGED <<cancelled, contacts, lock, fileVars, connVars, ghostVars>>

(* The deferred cleanup: cancel, close the listener, wait for the handlers. *)
Stop(p) ==
  /\ pc[p] = "stop" /\ Goto(p, "drain")
  /\ cancelled' = [cancelled EXCEPT ![p] = TRUE]
  /\ listening' = listening \ {p} /\ Close(QueuedAt(p))
  /\ UNCHANGED <<contacts, lock, path, seen, mine, slots, ghostVars>>

(* bug: handlers are not waited for *)
NoDrain(p) ==
  /\ pc[p] = "drain" /\ Goto(p, "inspect")
  /\ UNCHANGED <<cancelled, contacts, lock, fileVars, connVars, ghostVars>>
Drain(p) ==
  /\ pc[p] = "drain" /\ HandlersOf(p) = {} /\ Goto(p, "inspect")
  /\ UNCHANGED <<cancelled, contacts, lock, fileVars, connVars, ghostVars>>

(* bug: the lock is closed before the socket is removed *)
InspectUnlocked(p) ==
  /\ pc[p] = "inspect" /\ lock' = "free"
  /\ Goto(p, IF path = mine[p] THEN "unlink" ELSE "unlock")
  /\ UNCHANGED <<cancelled, contacts, fileVars, connVars, ghostVars>>

(* Lstat and Remove are two calls. *)
Inspect(p) ==
  /\ pc[p] = "inspect"
  /\ Goto(p, IF path = mine[p] THEN "unlink" ELSE "unlock")
  /\ UNCHANGED <<cancelled, contacts, lock, fileVars, connVars, ghostVars>>

Unlink(p) ==
  /\ pc[p] = "unlink" /\ Goto(p, "unlock") /\ path' = "none"
  /\ UNCHANGED <<cancelled, contacts, lock, seen, mine, listening, connVars, ghostVars>>

Unlock(p) ==
  /\ pc[p] = "unlock" /\ Goto(p, "leave")
  /\ lock' = IF lock = p THEN "free" ELSE lock
  /\ UNCHANGED <<cancelled, contacts, fileVars, connVars, ghostVars>>

(* The first deferred call runs last: cancel, and join the Contacts goroutine. *)
Leave(p) ==
  /\ pc[p] = "leave"
  /\ cancelled' = [cancelled EXCEPT ![p] = TRUE]
  /\ IF contacts[p] THEN UNCHANGED pc ELSE Goto(p, "off")
  /\ UNCHANGED <<contacts, lock, fileVars, connVars, ghostVars>>

(* Manager.Run returns once its context is done, its last refresh included. *)
ContactsEnds(p) ==
  /\ contacts[p] /\ cancelled[p] /\ contacts' = [contacts EXCEPT ![p] = FALSE]
  /\ UNCHANGED <<pc, cancelled, lock, fileVars, connVars, ghostVars>>

-----------------------------------------------------------------------------
(* Connections and their handlers. *)
Connect(c, p) ==
  /\ stage[c] = "none" /\ path = p /\ p \in listening
  /\ stage' = [stage EXCEPT ![c] = "queued"] /\ by' = [by EXCEPT ![c] = p]
  /\ UNCHANGED <<runVars, fileVars, slots, ghostVars>>

Advance(c, next) ==
  /\ stage' = [stage EXCEPT ![c] = next]
  /\ UNCHANGED <<runVars, fileVars, slots, by, ghostVars>>

(* bug: the slot is not released *)
SlotKept(c) == Close({c}) /\ UNCHANGED <<runVars, fileVars, slots, ghostVars>>
Finish(c) ==
  /\ Close({c})
  /\ slots' = [slots EXCEPT ![by[c]] = @ - 1]
  /\ UNCHANGED <<runVars, fileVars, ghostVars>>

(* The client's bytes come and go: a request, a refused one, an answer. *)
ClientMoves(c) ==
  \/ stage[c] = "read" /\ (Advance(c, "work") \/ Finish(c))
  \/ stage[c] = "write" /\ Finish(c)
DispatchEnds(c) == stage[c] = "work" /\ Advance(c, "write")

(* bug: only the read has a deadline *)
ReadDeadline(c) == stage[c] = "read" /\ Finish(c)
(* The read deadline, the request's own, and the write deadline. *)
DeadlinePasses(c) == stage[c] \in Handling /\ (IF stage[c] = "work" THEN Advance(c, "write") ELSE Finish(c))

(* The cancelled context closes the connection and ends dispatch. *)
HandlerCancelled(c) == stage[c] \in Handling /\ cancelled[by[c]] /\ Finish(c)

-----------------------------------------------------------------------------
(* Any call may fail for a reason of its own: checkSocketDir and the opening of
   the lock file, each call of prepareSocketPath, listen, and Accept.           *)
CallFails(p) ==
  /\ pc[p] \in {"lock", "probe", "recheck", "remove", "listen", "serve"} /\ Fault
  /\ Goto(p, IF pc[p] = "lock" THEN "leave" ELSE IF pc[p] = "serve" THEN "stop" ELSE "unlock")
  /\ UNCHANGED <<cancelled, contacts, lock, fileVars, connVars, touched>>

(* The socket file of a closed listener, left where it is, is a dead one. *)
Abandon(p) == path' = IF path = p THEN "stale" ELSE path

(* If Lstat of its socket fails Run leaves the file; if chmod fails it does not. *)
StatFails(p) ==
  /\ pc[p] = "stat" /\ Fault
  /\ \/ /\ Goto(p, "unlock") /\ Abandon(p) /\ UNCHANGED mine
        /\ listening' = listening \ {p} /\ Close(QueuedAt(p))
     \/ /\ path # "none" /\ Goto(p, "stop") /\ mine' = [mine EXCEPT ![p] = path]
        /\ UNCHANGED <<path, listening, stage, by>>
  /\ UNCHANGED <<cancelled, contacts, lock, seen, slots, touched>>

(* The cleanup ignores a failed Lstat or Remove. *)
CleanupFails(p) ==
  /\ pc[p] \in {"inspect", "unlink"} /\ Fault /\ Goto(p, "unlock") /\ Abandon(p)
  /\ UNCHANGED <<cancelled, contacts, lock, seen, mine, listening, connVars, touched>>

(* SIGKILL, or the machine goes down: only files are left. *)
Kill(p) ==
  /\ pc[p] # "off" /\ Fault /\ Goto(p, "off")
  /\ contacts' = [contacts EXCEPT ![p] = FALSE]
  /\ lock' = IF lock = p THEN "free" ELSE lock
  /\ path' = IF path = p THEN "stale" ELSE path
  /\ listening' = listening \ {p} /\ slots' = [slots EXCEPT ![p] = 0]
  /\ Close(QueuedAt(p) \cup HandlersOf(p))
  /\ UNCHANGED <<cancelled, seen, mine, touched>>

(* The owner removes the socket file, or puts something else in its place. *)
Touch ==
  /\ Fault /\ path' \in {"none", "other"} \ {path} /\ touched' = Procs
  /\ UNCHANGED <<runVars, seen, mine, listening, connVars>>

Run(p) == Lock(p) \/ Probe(p) \/ Recheck(p) \/ RemoveStale(p) \/ Listen(p) \/ Stat(p)
            \/ AcceptFails(p) \/ Stop(p) \/ Drain(p)
            \/ Inspect(p) \/ Unlink(p) \/ Unlock(p) \/ Leave(p)
Fails(p) == CallFails(p) \/ StatFails(p) \/ CleanupFails(p)

Next ==
  \/ \E p \in Procs : Start(p) \/ Run(p) \/ Fails(p) \/ ContactsEnds(p) \/ Signal(p) \/ Kill(p)
  \/ \E p \in Procs, c \in Conns : Accept(p, c) \/ Connect(c, p)
  \/ \E c \in Conns : ClientMoves(c) \/ DispatchEnds(c) \/ DeadlinePasses(c) \/ HandlerCancelled(c)
  \/ Touch

(* Goroutines run, deadlines pass, the Contacts refresh ends (ContactsHelper),
   and something starts a daemon that has ended. Clients may stall, and no
   call need fail.                                                          *)
Fairness ==
  /\ \A p \in Procs : WF_vars(Start(p)) /\ WF_vars(Run(p)) /\ WF_vars(ContactsEnds(p))
  /\ \A c \in Conns : WF_vars(DeadlinePasses(c)) /\ WF_vars(HandlerCancelled(c))

Spec == Init /\ [][Next]_vars /\ Fairness

-----------------------------------------------------------------------------
Places == {"off", "lock", "probe", "recheck", "remove", "listen", "stat", "serve", "stop", "drain",
           "inspect", "unlink", "unlock", "leave"}
Files == {"none", "stale", "other"} \cup Procs

(* Types, and the slots taken are the handlers that run. *)
TypeOK ==
  /\ pc \in [Procs -> Places]
  /\ cancelled \in [Procs -> BOOLEAN] /\ contacts \in [Procs -> BOOLEAN]
  /\ lock \in Procs \cup {"free"} /\ path \in Files
  /\ seen \in [Procs -> Files] /\ mine \in [Procs -> Files]
  /\ listening \subseteq Procs /\ touched \subseteq Procs /\ faults \in 0..MaxFaults
  /\ stage \in [Conns -> Handling \cup {"none", "queued"}] /\ by \in [Conns -> Procs \cup {"none"}]
  /\ slots \in [Procs -> 0..Slots]
  /\ \A p \in Procs : slots[p] = Cardinality(HandlersOf(p))

(* A broker that listens is found at the socket path: no start, shutdown or
   death of another daemon takes its socket away (prepareSocketPath; the
   deferred removal in Run).                                                *)
Reachable == \A p \in listening : path = p \/ p \in touched

(* Requests are handled by the holder of the lock only, and Run returns with
   nothing left behind: no handler, no Contacts goroutine, no lock, and no
   socket but a dead one whose Lstat or Remove failed.                       *)
ReturnClean ==
  /\ \A c \in Conns : stage[c] \in Handling => lock = by[c]
  /\ \A p \in Procs : pc[p] = "off" =>
       ~contacts[p] /\ HandlersOf(p) = {} /\ lock # p /\ path # p /\ p \notin listening

(* Shutdown ends, and so does every handler, even if clients stall. *)
ShutdownCompletes ==
  /\ \A p \in Procs : cancelled[p] ~> pc[p] = "off"
  /\ \A c \in Conns : stage[c] \in Handling ~> stage[c] = "none"

(* Once faults stop, some broker serves for good, whatever kills and failed
   starts have left at the path, unless the owner has put something else
   there (prepareSocketPath). A broker whose socket file has been removed
   goes on serving nobody: it never looks at the path again.                 *)
ServesAgain == <>[](path = "other" \/ \E p \in Procs : pc[p] = "serve")
=============================================================================
