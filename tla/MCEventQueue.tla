---------------------------- MODULE MCEventQueue ----------------------------
(***************************************************************************)
(* EventQueue with small rings.                                            *)
(***************************************************************************)
EXTENDS EventQueue, TLC

CONSTANTS owner, other, s1, s2, a, b

SenderSymmetry == Permutations({s1, s2})
=============================================================================
