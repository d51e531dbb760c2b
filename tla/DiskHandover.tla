---------------------------- MODULE DiskHandover ----------------------------
(***************************************************************************)
(* Who may use the disk, and nothing of how that is agreed on: the threads *)
(* of the player while the disk is theirs, the computer once every one of  *)
(* them has stopped ("They must not access the disk until                  *)
(* SYS_USB_DISCONNECTED is broadcast", firmware/export/usb.h).             *)
(***************************************************************************)
CONSTANT Threads

VARIABLES owner,    \* whose the disk is
          users     \* the threads that may be using it

vars == <<owner, users>>

Init == owner = "player" /\ users \subseteq Threads

Stop(t) == t \in users /\ users' = users \ {t} /\ UNCHANGED owner

Start(t) == owner = "player" /\ users' = users \cup {t} /\ UNCHANGED owner

HandOver == owner = "player" /\ users = {} /\ owner' = "host" /\ UNCHANGED users

TakeBack == owner = "host" /\ owner' = "player" /\ UNCHANGED users

Next == \/ HandOver
        \/ TakeBack
        \/ \E t \in Threads : Stop(t) \/ Start(t)

Spec == Init /\ [][Next]_vars
=============================================================================
