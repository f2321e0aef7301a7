------------------------- MODULE BrokerLifecycle_proofs -------------------------
(* Proofs about the broker's life, for any number of daemons, connections,
   slots and faults.                                                         *)
EXTENDS BrokerLifecycle, FiniteSetTheorems, TLAPS

USE SlotsAssumption, ConnsAssumption, NamesAssumption

(* Between acquireLock and lock.Close. *)
Owning == {"probe", "recheck", "remove", "listen", "stat", "serve", "stop", "drain",
           "inspect", "unlink", "unlock"}

Types ==
  /\ pc \in [Procs -> Places]
  /\ cancelled \in [Procs -> BOOLEAN] /\ contacts \in [Procs -> BOOLEAN]
  /\ lock \in Procs \cup {"free"} /\ path \in Files
  /\ seen \in [Procs -> Files] /\ mine \in [Procs -> Files]
  /\ listening \subseteq Procs /\ touched \subseteq Procs

(* The lock is held from acquireLock to its release, by one daemon. *)
LockInv == \A p \in Procs : lock = p <=> pc[p] \in Owning

(* Only the owner of the lock has a listener, and its socket is at the path
   unless the owner of the machine has touched it.                          *)
ListenInv == \A p \in listening : pc[p] \in {"stat", "serve", "stop"}

(* A socket of a daemon is at the path only until that daemon removes it,
   and is the one it looked at after listening.                             *)
PathInv ==
  \A p \in Procs : path = p =>
    /\ pc[p] \in {"stat", "serve", "stop", "drain", "inspect", "unlink"}
    /\ pc[p] # "stat" => mine[p] = p

OffInv == \A p \in Procs : pc[p] = "off" => ~contacts[p]

(* Handlers run while Run is between its first Accept and the end of Wait. *)
HandlerInv ==
  \A c \in Conns : stage[c] \in Handling =>
    by[c] \in Procs /\ pc[by[c]] \in {"serve", "stop", "drain"}

RunInv == Types /\ LockInv /\ ListenInv /\ PathInv /\ OffInv /\ Reachable

ConnTypes ==
  /\ stage \in [Conns -> Handling \cup {"none", "queued"}]
  /\ by \in [Conns -> Procs \cup {"none"}]

(* The slots taken are the handlers that run. *)
SlotInv ==
  /\ slots \in [Procs -> 0..Slots]
  /\ \A p \in Procs : slots[p] = Cardinality(HandlersOf(p))

-----------------------------------------------------------------------------
LEMMA InitRun == Init => RunInv
BY DEF Init, RunInv, Types, LockInv, ListenInv, PathInv, OffInv, Reachable, Places, Files, Owning

LEMMA RunStepInv ==
  ASSUME RunInv, NEW p \in Procs,
         Start(p) \/ Run(p) \/ Fails(p) \/ ContactsEnds(p) \/ Signal(p) \/ Kill(p)
  PROVE  RunInv'
<1> USE DEF RunInv, Goto
<1>1. CASE Start(p)
  BY <1>1 DEF Start, fileVars, ghostVars, Types, LockInv, ListenInv, PathInv, OffInv, Reachable,
     Places, Files, Owning
<1>2. CASE Lock(p)
  BY <1>2 DEF Lock, fileVars, ghostVars, Types, LockInv, ListenInv, PathInv, OffInv, Reachable,
     Places, Files, Owning
<1>3. CASE Probe(p)
  BY <1>3 DEF Probe, ghostVars, Types, LockInv, ListenInv, PathInv, OffInv, Reachable,
     Places, Files, Owning
<1>4. CASE RemoveStale(p)
  BY <1>4 DEF RemoveStale, ghostVars, Types, LockInv, ListenInv, PathInv, OffInv, Reachable,
     Places, Files, Owning
<1>5. CASE Listen(p)
  BY <1>5 DEF Listen, Types, LockInv, ListenInv, PathInv, OffInv, Reachable,
     Places, Files, Owning
<1>6. CASE Stat(p)
  BY <1>6 DEF Stat, ghostVars, Types, LockInv, ListenInv, PathInv, OffInv, Reachable,
     Places, Files, Owning
<1>7. CASE AcceptFails(p)
  BY <1>7 DEF AcceptFails, fileVars, ghostVars, Types, LockInv, ListenInv, PathInv, OffInv, Reachable,
     Places, Files, Owning
<1>8. CASE Stop(p)
  BY <1>8 DEF Stop, ghostVars, Types, LockInv, ListenInv, PathInv, OffInv, Reachable,
     Places, Files, Owning
<1>9. CASE Drain(p)
  BY <1>9 DEF Drain, fileVars, ghostVars, Types, LockInv, ListenInv, PathInv, OffInv, Reachable,
     Places, Files, Owning
<1>10. CASE Inspect(p)
  BY <1>10 DEF Inspect, fileVars, ghostVars, Types, LockInv, ListenInv, PathInv, OffInv, Reachable,
     Places, Files, Owning
<1>11. CASE Unlink(p)
  BY <1>11 DEF Unlink, ghostVars, Types, LockInv, ListenInv, PathInv, OffInv, Reachable,
     Places, Files, Owning
<1>12. CASE Unlock(p)
  BY <1>12 DEF Unlock, fileVars, ghostVars, Types, LockInv, ListenInv, PathInv, OffInv, Reachable,
     Places, Files, Owning
<1>13. CASE Leave(p)
  BY <1>13 DEF Leave, fileVars, ghostVars, Types, LockInv, ListenInv, PathInv, OffInv, Reachable,
     Places, Files, Owning
<1>14. CASE ContactsEnds(p)
  BY <1>14 DEF ContactsEnds, fileVars, ghostVars, Types, LockInv, ListenInv, PathInv, OffInv,
     Reachable, Places, Files, Owning
<1>15. CASE Signal(p)
  BY <1>15 DEF Signal, fileVars, Types, LockInv, ListenInv, PathInv, OffInv, Reachable,
     Places, Files, Owning
<1>16. CASE Kill(p)
  BY <1>16 DEF Kill, Types, LockInv, ListenInv, PathInv, OffInv, Reachable,
     Places, Files, Owning
<1>17. CASE Recheck(p)
  BY <1>17 DEF Recheck, fileVars, ghostVars, Types, LockInv, ListenInv, PathInv, OffInv, Reachable,
     Places, Files, Owning
<1>18. CASE CallFails(p)
  BY <1>18 DEF CallFails, fileVars, Types, LockInv, ListenInv, PathInv, OffInv, Reachable,
     Places, Files, Owning
<1>19. CASE StatFails(p)
  BY <1>19 DEF StatFails, Abandon, Types, LockInv, ListenInv, PathInv, OffInv, Reachable,
     Places, Files, Owning
<1>20. CASE CleanupFails(p)
  BY <1>20 DEF CleanupFails, Abandon, Types, LockInv, ListenInv, PathInv, OffInv, Reachable,
     Places, Files, Owning
<1> QED BY <1>1, <1>2, <1>3, <1>4, <1>5, <1>6, <1>7, <1>8, <1>9, <1>10, <1>11, <1>12, <1>13,
           <1>14, <1>15, <1>16, <1>17, <1>18, <1>19, <1>20 DEF Run, Fails

LEMMA ConnStepRun ==
  ASSUME RunInv,
         \/ \E p \in Procs, c \in Conns : Accept(p, c) \/ Connect(c, p)
         \/ \E c \in Conns : ClientMoves(c) \/ DispatchEnds(c) \/ DeadlinePasses(c)
                                \/ HandlerCancelled(c)
  PROVE  RunInv'
<1>1. UNCHANGED <<runVars, fileVars, ghostVars>>
  BY DEF Accept, Connect, ClientMoves, DispatchEnds, DeadlinePasses, HandlerCancelled, Advance, Finish
<1> QED BY <1>1 DEF runVars, fileVars, ghostVars, RunInv, Types, LockInv, ListenInv, PathInv,
           OffInv, Reachable

LEMMA TouchRun ==
  ASSUME RunInv, Touch
  PROVE  RunInv'
BY DEF Touch, runVars, RunInv, Types, LockInv, ListenInv, PathInv, OffInv, Reachable, Files

-----------------------------------------------------------------------------
(* Connections: what a step of a handler, of a daemon and of the kernel does. *)
ConnInv == ConnTypes /\ HandlerInv /\ SlotInv

LEMMA HandlersFinite == \A p : IsFiniteSet(HandlersOf(p))
BY FS_Subset DEF HandlersOf

LEMMA CloseQueued ==
  ASSUME ConnTypes, NEW p \in Procs, Close(QueuedAt(p))
  PROVE  ConnTypes' /\ \A q \in Procs : HandlersOf(q)' = HandlersOf(q)
BY DEF ConnTypes, Close, QueuedAt, HandlersOf, Handling

(* A step that keeps the handlers, the slots, and every daemon in its loop. *)
LEMMA SameHandlers ==
  ASSUME ConnInv, ConnTypes', UNCHANGED slots,
         \A q \in Procs : HandlersOf(q)' = HandlersOf(q),
         \A q \in Procs : HandlersOf(q) # {} /\ pc[q] \in {"serve", "stop", "drain"}
           => pc'[q] \in {"serve", "stop", "drain"},
         \A c \in Conns : stage'[c] \in Handling => by'[c] \in Procs
  PROVE  ConnInv'
<1>1. SlotInv'
  BY DEF ConnInv, SlotInv
<1>2. HandlerInv'
  <2> SUFFICES ASSUME NEW c \in Conns, stage'[c] \in Handling
               PROVE  pc'[by'[c]] \in {"serve", "stop", "drain"}
    BY DEF HandlerInv
  <2>1. c \in HandlersOf(by'[c])
    BY DEF HandlersOf
  <2>2. stage[c] \in Handling /\ by[c] = by'[c]
    BY <2>1 DEF HandlersOf
  <2> QED BY <2>1, <2>2 DEF ConnInv, HandlerInv
<1> QED BY <1>1, <1>2 DEF ConnInv

LEMMA FinishInv ==
  ASSUME ConnInv, NEW c \in Conns, stage[c] \in Handling, Finish(c)
  PROVE  ConnInv'
<1>1. PICK p \in Procs : by[c] = p /\ c \in HandlersOf(p)
  BY DEF ConnInv, HandlerInv, HandlersOf
<1>2. ConnTypes' /\ HandlerInv'
  BY DEF ConnInv, ConnTypes, HandlerInv, Finish, Close, Handling, runVars
<1>3. HandlersOf(p)' = HandlersOf(p) \ {c}
  BY <1>1 DEF ConnInv, ConnTypes, Finish, Close, HandlersOf, Handling
<1>4. \A q \in Procs \ {p} : HandlersOf(q)' = HandlersOf(q)
  BY <1>1 DEF ConnInv, ConnTypes, Finish, Close, HandlersOf, Handling
<1>5. IsFiniteSet(HandlersOf(p))
  BY HandlersFinite
<1>6. Cardinality(HandlersOf(p) \ {c}) = Cardinality(HandlersOf(p)) - 1
  BY <1>1, <1>5, FS_RemoveElement
<1>7. slots[p] \in 0..Slots /\ slots[p] # 0
  <2>1. Cardinality(HandlersOf(p)) # 0
    BY <1>1, <1>5, FS_EmptySet
  <2> QED BY <1>1, <2>1 DEF ConnInv, SlotInv
<1>8. slots' = [slots EXCEPT ![p] = @ - 1]
  BY <1>1 DEF Finish
<1>9. SlotInv'
  BY <1>1, <1>3, <1>4, <1>6, <1>7, <1>8 DEF ConnInv, SlotInv
<1> QED BY <1>2, <1>9 DEF ConnInv

LEMMA AdvanceInv ==
  ASSUME ConnInv, NEW c \in Conns, stage[c] \in Handling, NEW next \in {"work", "write"},
         Advance(c, next)
  PROVE  ConnInv'
<1>1. ConnTypes' /\ \A q \in Procs : HandlersOf(q)' = HandlersOf(q)
  BY DEF ConnInv, ConnTypes, Advance, HandlersOf, Handling
<1>2. UNCHANGED <<pc, slots>> /\ \A d \in Conns : stage'[d] \in Handling => by'[d] \in Procs
  BY DEF ConnInv, ConnTypes, HandlerInv, Advance, runVars, Handling
<1> QED BY <1>1, <1>2, SameHandlers

LEMMA HandlerStep ==
  ASSUME ConnInv, NEW c \in Conns,
         ClientMoves(c) \/ DispatchEnds(c) \/ DeadlinePasses(c) \/ HandlerCancelled(c)
  PROVE  ConnInv'
<1>1. stage[c] \in Handling
  BY DEF ClientMoves, DispatchEnds, DeadlinePasses, HandlerCancelled, Handling
<1>2. Finish(c) \/ \E next \in {"work", "write"} : Advance(c, next)
  BY DEF ClientMoves, DispatchEnds, DeadlinePasses, HandlerCancelled
<1> QED BY <1>1, <1>2, FinishInv, AdvanceInv

LEMMA AcceptInv ==
  ASSUME ConnInv, NEW p \in Procs, NEW c \in Conns, Accept(p, c)
  PROVE  ConnInv'
<1> USE DEF Accept
<1>1. CASE slots[p] < Slots
  <2>1. c \notin HandlersOf(p) /\ HandlersOf(p)' = HandlersOf(p) \cup {c}
    BY <1>1 DEF ConnInv, ConnTypes, HandlersOf, Handling
  <2>2. \A q \in Procs \ {p} : HandlersOf(q)' = HandlersOf(q)
    BY <1>1 DEF ConnInv, ConnTypes, HandlersOf, Handling
  <2>0. IsFiniteSet(HandlersOf(p))
    BY HandlersFinite
  <2>3. Cardinality(HandlersOf(p) \cup {c}) = Cardinality(HandlersOf(p)) + 1
    BY <2>0, <2>1, FS_AddElement
  <2>4. slots[p] \in 0..Slots /\ slots' = [slots EXCEPT ![p] = @ + 1]
    BY <1>1 DEF ConnInv, SlotInv
  <2>5. SlotInv'
    BY <1>1, <2>1, <2>2, <2>3, <2>4 DEF ConnInv, SlotInv
  <2>6. ConnTypes' /\ HandlerInv'
    BY <1>1 DEF ConnInv, ConnTypes, HandlerInv, Handling, runVars
  <2> QED BY <2>5, <2>6 DEF ConnInv
<1>2. CASE ~(slots[p] < Slots)
  <2>1. ConnTypes' /\ \A q \in Procs : HandlersOf(q)' = HandlersOf(q)
    BY <1>2 DEF ConnInv, ConnTypes, Close, HandlersOf, Handling
  <2>2. UNCHANGED <<pc, slots>> /\ \A d \in Conns : stage'[d] \in Handling => by'[d] \in Procs
    BY <1>2 DEF ConnInv, ConnTypes, HandlerInv, Close, runVars, Handling
  <2> QED BY <2>1, <2>2, SameHandlers
<1> QED BY <1>1, <1>2

LEMMA ConnectInv ==
  ASSUME ConnInv, NEW p \in Procs, NEW c \in Conns, Connect(c, p)
  PROVE  ConnInv'
<1>1. ConnTypes' /\ \A q \in Procs : HandlersOf(q)' = HandlersOf(q)
  BY DEF ConnInv, ConnTypes, Connect, HandlersOf, Handling
<1>2. UNCHANGED <<pc, slots>> /\ \A d \in Conns : stage'[d] \in Handling => by'[d] \in Procs
  BY DEF ConnInv, ConnTypes, HandlerInv, Connect, runVars, Handling
<1> QED BY <1>1, <1>2, SameHandlers

LEMMA DaemonStepConn ==
  ASSUME ConnInv, pc \in [Procs -> Places], NEW p \in Procs,
         Start(p) \/ Run(p) \/ Fails(p) \/ ContactsEnds(p) \/ Signal(p)
  PROVE  ConnInv'
<1> USE DEF Goto
<1>1. CASE Stat(p) \/ StatFails(p)
  <2>1. CASE UNCHANGED <<stage, by>>
    <3>1. ConnTypes' /\ \A q \in Procs : HandlersOf(q)' = HandlersOf(q)
      BY <2>1 DEF ConnInv, ConnTypes, HandlersOf
    <3>2. UNCHANGED slots /\ \A q \in Procs : pc[q] \in {"serve", "stop", "drain"} => pc'[q] = pc[q]
      BY <1>1 DEF Stat, StatFails
    <3>3. \A c \in Conns : stage'[c] \in Handling => by'[c] \in Procs
      BY <2>1 DEF ConnInv, HandlerInv
    <3> QED BY <3>1, <3>2, <3>3, SameHandlers
  <2>2. CASE Close(QueuedAt(p))
    <3>1. ConnTypes' /\ \A q \in Procs : HandlersOf(q)' = HandlersOf(q)
      BY <2>2, CloseQueued DEF ConnInv
    <3>2. UNCHANGED slots /\ \A q \in Procs : pc[q] \in {"serve", "stop", "drain"} => pc'[q] = pc[q]
      BY <1>1 DEF Stat, StatFails
    <3>3. \A c \in Conns : stage'[c] \in Handling => by'[c] \in Procs
      BY <2>2 DEF ConnInv, HandlerInv, Close, Handling
    <3> QED BY <3>1, <3>2, <3>3, SameHandlers
  <2> QED BY <1>1, <2>1, <2>2 DEF Stat, StatFails
<1>2. CASE Stop(p)
  <2>1. ConnTypes' /\ \A q \in Procs : HandlersOf(q)' = HandlersOf(q)
    BY <1>2, CloseQueued DEF Stop, ConnInv
  <2>2. /\ UNCHANGED slots
        /\ \A q \in Procs : pc[q] \in {"serve", "stop", "drain"} => pc'[q] \in {"serve", "stop", "drain"}
    BY <1>2 DEF Stop
  <2>3. \A c \in Conns : stage'[c] \in Handling => by'[c] \in Procs
    BY <1>2 DEF Stop, ConnInv, HandlerInv, Close, Handling
  <2> QED BY <2>1, <2>2, <2>3, SameHandlers
<1>3. CASE ~Stat(p) /\ ~StatFails(p) /\ ~Stop(p)
  <2>1. UNCHANGED connVars
    BY <1>3 DEF Start, Run, Fails, ContactsEnds, Signal, Lock, Probe, Recheck, RemoveStale, Listen,
       AcceptFails, Drain, Inspect, Unlink, Unlock, Leave, CallFails, CleanupFails
  <2>2. ConnTypes' /\ \A q \in Procs : HandlersOf(q)' = HandlersOf(q)
    BY <2>1 DEF connVars, ConnInv, ConnTypes, HandlersOf
  <2>3. \A q \in Procs : HandlersOf(q) # {} /\ pc[q] \in {"serve", "stop", "drain"}
          => pc'[q] \in {"serve", "stop", "drain"}
    BY <1>3 DEF Start, Run, Fails, ContactsEnds, Signal, Lock, Probe, Recheck, RemoveStale, Listen,
       AcceptFails, Drain, Inspect, Unlink, Unlock, Leave, CallFails, CleanupFails
  <2>4. \A c \in Conns : stage'[c] \in Handling => by'[c] \in Procs
    BY <2>1 DEF connVars, ConnInv, HandlerInv
  <2> QED BY <2>1, <2>2, <2>3, <2>4, SameHandlers DEF connVars
<1> QED BY <1>1, <1>2, <1>3

LEMMA KillConn ==
  ASSUME ConnInv, pc \in [Procs -> Places], NEW p \in Procs, Kill(p)
  PROVE  ConnInv'
<1> USE DEF Kill, Close, QueuedAt
<1>1. ConnTypes' /\ HandlersOf(p)' = {} /\ \A q \in Procs \ {p} : HandlersOf(q)' = HandlersOf(q)
  BY DEF ConnInv, ConnTypes, HandlersOf, Handling
<1>2. HandlerInv'
  BY DEF ConnInv, ConnTypes, HandlerInv, HandlersOf, Handling, Goto
<1>3. SlotInv'
  <2>1. Cardinality({}) = 0
    BY FS_EmptySet
  <2>2. slots' = [slots EXCEPT ![p] = 0] /\ 0 \in 0..Slots
    OBVIOUS
  <2> QED BY <1>1, <2>1, <2>2 DEF ConnInv, SlotInv
<1> QED BY <1>1, <1>2, <1>3 DEF ConnInv

-----------------------------------------------------------------------------
IInv == RunInv /\ ConnInv /\ faults \in 0..MaxFaults

LEMMA InitInv == Init => IInv
<1> SUFFICES ASSUME Init PROVE IInv
  OBVIOUS
<1>1. RunInv
  BY InitRun
<1>2. ConnTypes /\ HandlerInv /\ \A p \in Procs : HandlersOf(p) = {}
  BY DEF Init, ConnTypes, HandlerInv, HandlersOf, Handling
<1>3. SlotInv
  BY <1>2, FS_EmptySet DEF Init, SlotInv
<1>4. faults \in 0..MaxFaults
  BY DEF Init
<1> QED BY <1>1, <1>2, <1>3, <1>4 DEF IInv, ConnInv

LEMMA FaultsBounded ==
  ASSUME faults \in 0..MaxFaults, Next
  PROVE  faults' \in 0..MaxFaults
<1>1. UNCHANGED faults \/ Fault
  BY DEF Next, Run, Fails, Start, Lock, Probe, Recheck, RemoveStale, Listen, Stat, AcceptFails, Stop,
     Drain, Inspect, Unlink, Unlock, Leave, CallFails, StatFails, CleanupFails,
     ContactsEnds, Signal, Kill, Accept, Connect, ClientMoves, DispatchEnds, DeadlinePasses, HandlerCancelled, Advance, Finish, Touch, ghostVars
<1> QED BY <1>1 DEF Fault

LEMMA NextInv == IInv /\ [Next]_vars => IInv'
<1> SUFFICES ASSUME IInv, [Next]_vars PROVE IInv'
  OBVIOUS
<1>0. pc \in [Procs -> Places]
  BY DEF IInv, RunInv, Types
<1>1. CASE \E p \in Procs : Start(p) \/ Run(p) \/ Fails(p) \/ ContactsEnds(p) \/ Signal(p) \/ Kill(p)
  <2>1. RunInv'
    BY <1>1, RunStepInv DEF IInv
  <2>2. ConnInv'
    BY <1>0, <1>1, DaemonStepConn, KillConn DEF IInv
  <2>3. faults' \in 0..MaxFaults
    BY <1>1, FaultsBounded DEF IInv, Next
  <2> QED BY <2>1, <2>2, <2>3 DEF IInv
<1>2. CASE \/ \E p \in Procs, c \in Conns : Accept(p, c) \/ Connect(c, p)
           \/ \E c \in Conns : ClientMoves(c) \/ DispatchEnds(c) \/ DeadlinePasses(c)
                                  \/ HandlerCancelled(c)
  <2>1. RunInv'
    BY <1>2, ConnStepRun DEF IInv
  <2>2. ConnInv'
    BY <1>2, AcceptInv, ConnectInv, HandlerStep DEF IInv
  <2>3. faults' \in 0..MaxFaults
    BY <1>2, FaultsBounded DEF IInv, Next
  <2> QED BY <2>1, <2>2, <2>3 DEF IInv
<1>3. CASE Touch
  <2>1. RunInv'
    BY <1>3, TouchRun DEF IInv
  <2>2. ConnInv'
    BY <1>3 DEF Touch, runVars, connVars, IInv, ConnInv, ConnTypes, HandlerInv, SlotInv, HandlersOf
  <2>3. faults' \in 0..MaxFaults
    BY <1>3, FaultsBounded DEF IInv, Next
  <2> QED BY <2>1, <2>2, <2>3 DEF IInv
<1>4. CASE UNCHANGED vars
  BY <1>4 DEF vars, runVars, fileVars, connVars, ghostVars, IInv, RunInv, Types, LockInv, ListenInv,
     PathInv, OffInv, Reachable, ConnInv, ConnTypes, HandlerInv, SlotInv, HandlersOf
<1> QED BY <1>1, <1>2, <1>3, <1>4 DEF Next

LEMMA Invariant == Spec => []IInv
BY InitInv, NextInv, PTL DEF Spec

-----------------------------------------------------------------------------
(* Types; the slots taken are exactly the handlers that run, whatever ends
   them and whenever a daemon is killed (server.go: the semaphore in Run).   *)
THEOREM LifecycleTypes == Spec => []TypeOK
<1>1. IInv => TypeOK
  BY DEF IInv, RunInv, Types, ConnInv, ConnTypes, SlotInv, TypeOK
<1> QED BY <1>1, Invariant, PTL

(* A listening broker's socket stays at the path, for any number of daemons
   started beside it, killed, or shut down (prepareSocketPath, Run).         *)
THEOREM ListenerReachable == Spec => []Reachable
<1>1. IInv => Reachable
  BY DEF IInv, RunInv
<1> QED BY <1>1, Invariant, PTL

(* Handlers run under the lock, and Run returns with nothing left behind.    *)
THEOREM RunReturnsClean == Spec => []ReturnClean
<1>1. ASSUME IInv PROVE ReturnClean
  <2>1. ASSUME NEW c \in Conns, stage[c] \in Handling PROVE lock = by[c]
    BY <1>1, <2>1 DEF IInv, ConnInv, HandlerInv, RunInv, LockInv, Owning
  <2>2. ASSUME NEW p \in Procs, pc[p] = "off"
        PROVE  ~contacts[p] /\ HandlersOf(p) = {} /\ lock # p /\ path # p /\ p \notin listening
    BY <1>1, <2>2 DEF IInv, ConnInv, HandlerInv, HandlersOf, RunInv, LockInv, ListenInv, PathInv,
       OffInv, Owning
  <2> QED BY <2>1, <2>2 DEF ReturnClean
<1> QED BY <1>1, Invariant, PTL
=============================================================================
