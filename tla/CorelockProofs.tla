--------------------------- MODULE CorelockProofs ---------------------------
(***************************************************************************)
(* Mutual exclusion of the core lock, for every pair of non-zero core      *)
(* identities, and that the lock implements ExclusiveLock.                 *)
(***************************************************************************)
EXTENDS Corelock, TLAPS

(* The byte a core stores must not look like the cleared one.              *)
NonzeroIds == \A c \in Cores : CoreId[c] # 0

USE DEF Cores, Other

(* The strengthened invariant of Corelock.tla is inductive: one step per   *)
(* access to the shared bytes.                                             *)
LEMMA CorelockInvInductive ==
    ASSUME NonzeroIds, CorelockInv, [Next]_vars
    PROVE  CorelockInv'
<1> USE CoreIdAssumption DEF CorelockInv, TypeOK, Labels, MylTellsInterest,
        Interested, TurnKnown, PastTurn, HolderHasTurn, MutualExclusion, NonzeroIds
<1> SUFFICES ASSUME NEW c \in Cores,
                    \/ LockStoreMyl(c) \/ LockStep(c)
                    \/ TryStoreMyl(c) \/ TryStep(c)
                    \/ Unlock(c)
             PROVE  CorelockInv'
  <2>1. CASE UNCHANGED vars
    BY <2>1 DEF vars
  <2>2. CASE Next
    BY <2>2 DEF Next
  <2> QED
    BY <2>1, <2>2
<1>1. CASE LockStoreMyl(c) \/ TryStoreMyl(c)
  BY <1>1 DEF LockStoreMyl, TryStoreMyl, Goto
<1>2. CASE LockStoreTurn(c) \/ TryStoreTurn(c)
  BY <1>2 DEF LockStoreTurn, TryStoreTurn, Goto
<1>3. CASE LockReadMyl(c) \/ TryReadMyl(c)
  BY <1>3 DEF LockReadMyl, TryReadMyl, Goto
<1>4. CASE LockReadTurn(c) \/ TryReadTurn(c)
  BY <1>4 DEF LockReadTurn, TryReadTurn, Goto
<1>5. CASE TryBackOff(c) \/ Unlock(c)
  BY <1>5 DEF TryBackOff, Unlock, Goto
<1> QED
  BY <1>1, <1>2, <1>3, <1>4, <1>5 DEF LockStep, TryStep

(* corelock_lock and corelock_try_lock of both cores, interleaved access   *)
(* by access, never leave both cores holding the lock.                     *)
THEOREM CorelockMutualExclusion ==
    ASSUME NonzeroIds
    PROVE  Spec => [](CorelockInv /\ MutualExclusion)
<1>1. Init => CorelockInv
  BY CoreIdAssumption DEF Init, CorelockInv, TypeOK, Labels, MylTellsInterest,
     Interested, TurnKnown, PastTurn, HolderHasTurn, MutualExclusion
<1>2. CorelockInv /\ [Next]_vars => CorelockInv'
  BY CorelockInvInductive
<1>3. CorelockInv => MutualExclusion
  BY DEF CorelockInv
<1> QED
  BY <1>1, <1>2, <1>3, PTL DEF Spec

(* Every access either leaves the holder alone or is one step of           *)
(* ExclusiveLock: the read that lets a core in acquires an open lock, only *)
(* the holder's unlock opens it.                                           *)
THEOREM CorelockImplementsExclusiveLock ==
    ASSUME NonzeroIds
    PROVE  Spec => ImplementsExclusiveLock
<1>1. Init => Exclusive!Init
  BY DEF Init, Exclusive!Init, HeldBy
<1>2. ASSUME CorelockInv, CorelockInv', [Next]_vars
      PROVE  [Exclusive!Next]_HeldBy
  <2> USE <1>2 DEF CorelockInv, TypeOK, Labels, MutualExclusion, HeldBy
  <2>1. CASE UNCHANGED vars
    BY <2>1 DEF vars
  <2>2. ASSUME NEW c \in Cores,
               \/ LockStoreMyl(c) \/ LockStep(c)
               \/ TryStoreMyl(c) \/ TryStep(c)
               \/ Unlock(c)
        PROVE  [Exclusive!Next]_HeldBy
    <3>1. /\ \A d \in Cores \ {c} : pc'[d] = pc[d]
          /\ pc[c] = "held" => pc'[c] # "held"
      BY <2>2 DEF LockStoreMyl, LockStep, LockStoreTurn, LockReadMyl,
         LockReadTurn, TryStoreMyl, TryStep, TryStoreTurn, TryReadMyl,
         TryReadTurn, TryBackOff, Unlock, Goto
    <3>2. CASE pc[c] # "held" /\ pc'[c] # "held"
      BY <3>1, <3>2
    <3>3. CASE pc[c] # "held" /\ pc'[c] = "held"
      <4>1. HeldBy = {} /\ HeldBy' = {c}
        BY <3>1, <3>3
      <4> QED
        BY <4>1 DEF Exclusive!Next, Exclusive!Acquire
    <3>4. CASE pc[c] = "held"
      <4>1. HeldBy = {c} /\ HeldBy' = {}
        BY <3>1, <3>4
      <4> QED
        BY <4>1 DEF Exclusive!Next, Exclusive!Release
    <3> QED
      BY <3>2, <3>3, <3>4
  <2> QED
    BY <2>1, <2>2, <1>2 DEF Next
<1>3. Spec => []CorelockInv
  BY CorelockMutualExclusion, PTL
<1> QED
  BY <1>1, <1>2, <1>3, PTL DEF Spec, ImplementsExclusiveLock, Exclusive!Spec
=============================================================================
