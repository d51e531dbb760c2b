----------------------------- MODULE MCCorelock -----------------------------
(***************************************************************************)
(* Corelock with the identities the builds use.                            *)
(***************************************************************************)
EXTENDS Corelock, TLC

(* PROCESSOR_ID of the PP502x, what firmware/asm/arm/corelock.c stores. *)
AsmIds == (0 :> 85) @@ (1 :> 170)
=============================================================================
