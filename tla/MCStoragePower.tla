--------------------------- MODULE MCStoragePower ---------------------------
(* Small instances of StoragePower for TLC. *)
EXTENDS StoragePower

CONSTANTS u1, u2, storage

(* A disk that spins down, an adapter that only flushes, and one that does *)
(* neither.                                                                *)
AllDrives == {[canSleep |-> TRUE, canFlush |-> TRUE],
              [canSleep |-> FALSE, canFlush |-> TRUE],
              [canSleep |-> FALSE, canFlush |-> FALSE]}
=============================================================================
