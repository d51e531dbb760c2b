--------------------------- MODULE MCTickTimeouts ---------------------------
(* Small instance of TickTimeouts for TLC. *)
EXTENDS TickTimeouts

CONSTANTS debounce, hpDetect, charger, fade

(* The timeouts are alike, and every property here is a safety property. *)
Alike == Permutations(Timeouts)

=============================================================================
