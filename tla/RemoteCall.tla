----------------------------- MODULE RemoteCall -----------------------------
(***************************************************************************)
(* What queue_send promises its callers, without ring, slots or wait       *)
(* lists: a request is taken by the server at most once, answered at most  *)
(* once, its own reply comes only after it was taken, and the answer that  *)
(* was given is the one the caller returns with.  A request may also be    *)
(* given the default answer 0 at any time (auto-reply, overflow, discard,  *)
(* clear, deletion of the queue).                                          *)
(***************************************************************************)
CONSTANT Clients

VARIABLE phase     \* how far each client's request has come

Phases == {"idle", "asked", "taken", "replied", "defaulted"}

Moves(p) == CASE p = "idle"      -> {"asked"}
              [] p = "asked"     -> {"taken", "defaulted"}
              [] p = "taken"     -> {"replied", "defaulted"}
              [] p = "replied"   -> {"idle"}
              [] p = "defaulted" -> {"idle"}

OneAtATime(ph) == \A c, d \in Clients : ph[c] = "taken" /\ ph[d] = "taken" => c = d

Init == phase = [c \in Clients |-> "idle"]

(* Several requests may come along in one step: a clear answers all that   *)
(* are waiting, and a wait answers the last request and takes the next.    *)
Next == /\ phase' \in [Clients -> Phases]
        /\ \A c \in Clients : \/ phase'[c] = phase[c]
                              \/ phase'[c] \in Moves(phase[c])
        /\ OneAtATime(phase')

Spec == Init /\ [][Next]_phase
=============================================================================
