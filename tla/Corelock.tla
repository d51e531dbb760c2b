------------------------------ MODULE Corelock ------------------------------
(***************************************************************************)
(* struct corelock of firmware/kernel/include/corelock.h: the lock between *)
(* the two cores of a PP502x, built from Peterson's algorithm because the  *)
(* SoC has no usable atomic instruction.  Every kernel object of a dual    *)
(* core build is guarded by one.                                           *)
(*                                                                         *)
(* One step is one access to the shared bytes myl[] and turn, so that the  *)
(* accesses of the two cores interleave as the memory sees them (the core  *)
(* memory of the PP502x is uncached for these objects and its accesses are *)
(* not reordered).  What a core writes into its byte is the parameter      *)
(* CoreId: the assembly of firmware/asm/arm/corelock.c writes PROCESSOR_ID *)
(* (0x55 or 0xaa), the portable C of firmware/asm/corelock.c writes        *)
(* CURRENT_CORE, which is 0 on core 0.                                     *)
(***************************************************************************)
EXTENDS Naturals

CONSTANT CoreId     \* CoreId[c] is the value core c stores as its identity

Cores == {0, 1}

ASSUME CoreIdAssumption == /\ CoreId \in [Cores -> Nat]
                           /\ CoreId[0] # CoreId[1]

VARIABLES myl,      \* myl[c]: core c's byte, 0 when it does not want the lock
          turn,     \* identity of the core that yields when both want it
          pc        \* where each core is in the calls below

vars == <<myl, turn, pc>>

Other(c) == 1 - c

Labels == {"idle",                             \* outside every call
           "lock_turn", "lock_myl", "lock_spin",  \* in corelock_lock
           "try_turn", "try_myl", "try_test", "try_fail",  \* in corelock_try_lock
           "held"}                             \* between the lock and the unlock

TypeOK == /\ myl \in [Cores -> {0, CoreId[0], CoreId[1]}]
          /\ turn \in {0, CoreId[0], CoreId[1]}
          /\ pc \in [Cores -> Labels]

(* corelock_init clears the whole structure. *)
Init == /\ myl = [c \in Cores |-> 0]
        /\ turn = 0
        /\ pc = [c \in Cores |-> "idle"]

Goto(c, from, to) == /\ pc[c] = from
                     /\ pc' = [pc EXCEPT ![c] = to]

-----------------------------------------------------------------------------
(* corelock_lock *)

LockStoreMyl(c) == /\ Goto(c, "idle", "lock_turn")
                   /\ myl' = [myl EXCEPT ![c] = CoreId[c]]
                   /\ UNCHANGED turn

(* Mutant: the core claims the turn for itself. *)
LockStoreTurnOwn(c) == /\ Goto(c, "lock_turn", "lock_myl")
                       /\ turn' = CoreId[c]
                       /\ UNCHANGED myl

LockStoreTurn(c) == /\ Goto(c, "lock_turn", "lock_myl")
                    /\ turn' = CoreId[Other(c)]
                    /\ UNCHANGED myl

LockReadMyl(c) == /\ Goto(c, "lock_myl",
                          IF myl[Other(c)] = 0 THEN "held" ELSE "lock_spin")
                  /\ UNCHANGED <<myl, turn>>

LockReadTurn(c) == /\ Goto(c, "lock_spin",
                           IF turn = CoreId[c] THEN "held" ELSE "lock_myl")
                   /\ UNCHANGED <<myl, turn>>

-----------------------------------------------------------------------------
(* corelock_try_lock: one round of the same test, backing off when it fails *)

TryStoreMyl(c) == /\ Goto(c, "idle", "try_turn")
                  /\ myl' = [myl EXCEPT ![c] = CoreId[c]]
                  /\ UNCHANGED turn

TryStoreTurn(c) == /\ Goto(c, "try_turn", "try_myl")
                   /\ turn' = CoreId[Other(c)]
                   /\ UNCHANGED myl

TryReadMyl(c) == /\ Goto(c, "try_myl",
                         IF myl[Other(c)] = 0 THEN "held" ELSE "try_test")
                 /\ UNCHANGED <<myl, turn>>

(* Mutant: the test of the turn is inverted. *)
TryReadTurnInverted(c) == /\ Goto(c, "try_test",
                                  IF turn # CoreId[c] THEN "held" ELSE "try_fail")
                          /\ UNCHANGED <<myl, turn>>

TryReadTurn(c) == /\ Goto(c, "try_test",
                          IF turn = CoreId[c] THEN "held" ELSE "try_fail")
                  /\ UNCHANGED <<myl, turn>>

(* Mutant: a failed try_lock leaves its byte set. *)
TryBackOffNoClear(c) == /\ Goto(c, "try_fail", "idle")
                        /\ UNCHANGED <<myl, turn>>

TryBackOff(c) == /\ Goto(c, "try_fail", "idle")
                 /\ myl' = [myl EXCEPT ![c] = 0]
                 /\ UNCHANGED turn

-----------------------------------------------------------------------------
(* corelock_unlock *)

Unlock(c) == /\ Goto(c, "held", "idle")
             /\ myl' = [myl EXCEPT ![c] = 0]
             /\ UNCHANGED turn

LockStep(c) == LockStoreTurn(c) \/ LockReadMyl(c) \/ LockReadTurn(c)
TryStep(c) == TryStoreTurn(c) \/ TryReadMyl(c) \/ TryReadTurn(c) \/ TryBackOff(c)

Next == \E c \in Cores :
            \/ LockStoreMyl(c) \/ LockStep(c)
            \/ TryStoreMyl(c) \/ TryStep(c)
            \/ Unlock(c)

(* A core never stops in the middle of a call (interrupts are off), and a  *)
(* holder's critical section ends; whether a core calls at all is free.    *)
Fairness == \A c \in Cores : WF_vars(LockStep(c) \/ TryStep(c) \/ Unlock(c))

Spec == Init /\ [][Next]_vars

FairSpec == Spec /\ Fairness

-----------------------------------------------------------------------------
(* The two cores are never both between a successful lock (or try_lock)    *)
(* and its unlock: the claim of "Core locks using Peterson's mutual        *)
(* exclusion algorithm" (firmware/asm/corelock.c:24).                      *)
MutualExclusion == ~(pc[0] = "held" /\ pc[1] = "held")

(* The strengthening that makes mutual exclusion inductive: a core's byte  *)
(* tells whether it is between a store and an unlock, and when a core      *)
(* holds the lock while the other one has already stored turn, turn names  *)
(* the holder and the other core must wait for its byte to clear.          *)
Interested(c) == pc[c] # "idle"
PastTurn(c) == pc[c] \in {"lock_myl", "lock_spin", "try_myl", "try_test", "try_fail"}

MylTellsInterest == \A c \in Cores : myl[c] = IF Interested(c) THEN CoreId[c] ELSE 0
TurnKnown == \A c \in Cores :
                 PastTurn(c) \/ pc[c] = "held" => turn \in {CoreId[0], CoreId[1]}
HolderHasTurn == \A c \in Cores :
                     pc[c] = "held" /\ PastTurn(Other(c)) => turn = CoreId[c]
CorelockInv == TypeOK /\ MylTellsInterest /\ TurnKnown
               /\ HolderHasTurn /\ MutualExclusion

(* A core that called corelock_lock gets the lock, however often the other *)
(* core locks, try-locks and unlocks meanwhile: the spin has no way out    *)
(* but success, and it runs with interrupts off.                           *)
LockEventuallyHeld == \A c \in Cores : pc[c] = "lock_turn" ~> pc[c] = "held"

(* The lock implements ExclusiveLock: a core holds it from the read that   *)
(* let it in to its unlock.                                                *)
HeldBy == {c \in Cores : pc[c] = "held"}
Exclusive == INSTANCE ExclusiveLock WITH Competitors <- Cores, holders <- HeldBy
ImplementsExclusiveLock == Exclusive!Spec
=============================================================================
