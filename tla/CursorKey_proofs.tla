--------------------------- MODULE CursorKey_proofs ---------------------------
(* Proofs about the cursor key, for every set of processes and keys and every
   number of faults and power losses.                                        *)
EXTENDS CursorKey, TLAPS

USE KeyAssumption, ProcAssumption, FaultAssumption

LEMMA InitInv == Init => IInv
BY DEF Init, IInv, TypeOK, HolderInv, DurableInv, AgreedInv, Contents, Holding, Loaded

(* A step of one process that leaves the file alone and lets go of the lock. *)
LEMMA DieInv ==
  ASSUME IInv, NEW p \in Procs, Die(p), UNCHANGED fileVars
  PROVE  IInv'
<1> USE DEF Die, Return, Goto, Release, fileVars
<1>1. TypeOK'
  BY DEF IInv, TypeOK, Holding
<1>2. HolderInv' /\ DurableInv' /\ AgreedInv'
  BY DEF IInv, TypeOK, HolderInv, DurableInv, AgreedInv, Loaded
<1> QED BY <1>1, <1>2 DEF IInv

LEMMA StepInv ==
  ASSUME IInv, NEW p \in Procs, Step(p)
  PROVE  IInv'
<1> USE DEF IInv, Return, Goto, Release, fileVars, histVars
<1>1. CASE Open(p)
  <2>1. TypeOK'
    BY <1>1 DEF Open, TypeOK, Holding, Contents
  <2>2. HolderInv' /\ DurableInv' /\ AgreedInv'
    BY <1>1 DEF Open, TypeOK, HolderInv, DurableInv, AgreedInv, Loaded, Contents
  <2> QED BY <2>1, <2>2
<1>2. CASE Lock(p)
  <2>1. TypeOK'
    BY <1>2 DEF Lock, TypeOK, Holding
  <2>2. HolderInv' /\ DurableInv' /\ AgreedInv'
    BY <1>2 DEF Lock, TypeOK, HolderInv, DurableInv, AgreedInv, Loaded
  <2> QED BY <2>1, <2>2
<1>3. CASE RefuseKey(p)
  <2>1. TypeOK'
    BY <1>3 DEF RefuseKey, TypeOK, Holding
  <2>2. HolderInv' /\ DurableInv' /\ AgreedInv'
    BY <1>3 DEF RefuseKey, TypeOK, HolderInv, DurableInv, AgreedInv, Loaded
  <2> QED BY <2>1, <2>2
<1>4. CASE ReadKey(p)
  <2>1. TypeOK'
    BY <1>4 DEF ReadKey, TypeOK, Holding
  <2>2. HolderInv' /\ DurableInv' /\ AgreedInv'
    BY <1>4 DEF ReadKey, TypeOK, HolderInv, DurableInv, AgreedInv, Loaded
  <2> QED BY <2>1, <2>2
<1>5. CASE DrawKey(p)
  <2>1. TypeOK'
    BY <1>5 DEF DrawKey, TypeOK, Holding
  <2>2. HolderInv' /\ DurableInv' /\ AgreedInv'
    BY <1>5 DEF DrawKey, TypeOK, HolderInv, DurableInv, AgreedInv, Loaded
  <2> QED BY <2>1, <2>2
(* The only holder writes; nobody had a key, for the file was empty. *)
<1>6. CASE Write(p)
  <2>1. TypeOK'
    BY <1>6 DEF Write, TypeOK, HolderInv, Holding, Contents
  <2>2. \A q \in Procs \ {p} : pc[q] \notin Holding
    BY <1>6 DEF Write, TypeOK, Holding
  <2>3. HolderInv'
    BY <1>6, <2>2 DEF Write, TypeOK, HolderInv, Holding
  <2>4. DurableInv' /\ AgreedInv'
    BY <1>6 DEF Write, TypeOK, HolderInv, DurableInv, AgreedInv, Loaded
  <2> QED BY <2>1, <2>3, <2>4
<1>7. CASE Sync(p)
  <2>1. TypeOK'
    BY <1>7 DEF Sync, TypeOK, Holding
  <2>2. HolderInv' /\ DurableInv' /\ AgreedInv'
    BY <1>7 DEF Sync, TypeOK, HolderInv, DurableInv, AgreedInv, Loaded
  <2> QED BY <2>1, <2>2
<1>8. CASE SyncDirectory(p)
  <2>1. TypeOK'
    BY <1>8 DEF SyncDirectory, TypeOK, HolderInv, Holding
  <2>2. HolderInv' /\ DurableInv' /\ AgreedInv'
    BY <1>8 DEF SyncDirectory, TypeOK, HolderInv, DurableInv, AgreedInv, Loaded
  <2> QED BY <2>1, <2>2
<1>9. CASE Listen(p)
  <2>1. TypeOK'
    BY <1>9 DEF Listen, TypeOK, Holding
  <2>2. HolderInv' /\ DurableInv' /\ AgreedInv'
    BY <1>9 DEF Listen, TypeOK, HolderInv, DurableInv, AgreedInv, Loaded
  <2> QED BY <2>1, <2>2
<1> QED BY <1>1, <1>2, <1>3, <1>4, <1>5, <1>6, <1>7, <1>8, <1>9 DEF Step

LEMMA NextInv == IInv /\ [Next]_vars => IInv'
<1> SUFFICES ASSUME IInv, [Next]_vars PROVE IInv'
  OBVIOUS
<1>1. ASSUME NEW p \in Procs, Step(p) PROVE IInv'
  BY <1>1, StepInv
(* The writer found the file empty, so no key was confirmed or in use. *)
<1>2. ASSUME NEW p \in Procs, WriteFails(p) PROVE IInv'
  <2> USE <1>2 DEF WriteFails, Die, Return, Goto, Release
  <2>1. TypeOK'
    BY DEF IInv, TypeOK, Holding, Contents
  <2>2. \A q \in Procs \ {p} : pc[q] \notin Holding
    BY DEF IInv, TypeOK, Holding
  <2>3. HolderInv'
    BY <2>2 DEF IInv, TypeOK, HolderInv, Holding
  <2>4. DurableInv'
    BY DEF IInv, TypeOK, HolderInv, DurableInv
  <2>5. AgreedInv'
    BY DEF IInv, TypeOK, HolderInv, AgreedInv, Loaded
  <2> QED BY <2>1, <2>3, <2>4, <2>5 DEF IInv
<1>3. ASSUME NEW p \in Procs, Answer(p) PROVE IInv'
  <2> USE <1>3 DEF Answer, fileVars
  <2>1. TypeOK'
    BY DEF IInv, TypeOK, Holding
  <2>2. HolderInv' /\ DurableInv' /\ AgreedInv'
    BY DEF IInv, TypeOK, HolderInv, DurableInv, AgreedInv, Loaded
  <2> QED BY <2>1, <2>2 DEF IInv
<1>4. ASSUME NEW p \in Procs, Stop(p) PROVE IInv'
  BY <1>4, DieInv DEF Stop
(* A durable file survives as it is, and nobody is left running. *)
<1>5. CASE PowerLoss
  <2> USE <1>5 DEF PowerLoss, Survivors
  <2>1. TypeOK'
    BY DEF IInv, TypeOK, Holding, Contents
  <2>2. HolderInv' /\ DurableInv' /\ AgreedInv'
    BY DEF IInv, TypeOK, HolderInv, DurableInv, AgreedInv, Loaded
  <2> QED BY <2>1, <2>2 DEF IInv
<1>6. CASE UNCHANGED vars
  <2> USE <1>6 DEF vars
  <2>1. TypeOK'
    BY DEF IInv, TypeOK
  <2>2. HolderInv' /\ DurableInv' /\ AgreedInv'
    BY DEF IInv, HolderInv, DurableInv, AgreedInv, Loaded
  <2> QED BY <2>1, <2>2 DEF IInv
<1> QED BY <1>1, <1>2, <1>3, <1>4, <1>5, <1>6 DEF Next

(* Types, and the exclusion the lock gives, for any number of processes. *)
THEOREM KeyFileTypes == Spec => []TypeOK
<1>1. IInv => TypeOK
  BY DEF IInv
<1> QED BY InitInv, NextInv, <1>1, PTL DEF Spec

(* A key whose creation ran to the end is never replaced. *)
THEOREM ConfirmedKeyKept == Spec => []ConfirmedKept
<1>1. IInv => ConfirmedKept
  BY DEF IInv, DurableInv, ConfirmedKept
<1> QED BY InitInv, NextInv, <1>1, PTL DEF Spec

(* Without a power loss, racing and dying starts share one key. *)
THEOREM OneKeyForAll == Spec => []OneKey
<1>1. IInv => OneKey
  BY DEF IInv, AgreedInv, OneKey
<1> QED BY InitInv, NextInv, <1>1, PTL DEF Spec
=============================================================================
