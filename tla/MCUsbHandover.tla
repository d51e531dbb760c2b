--------------------------- MODULE MCUsbHandover ---------------------------
(* Small instances of UsbHandover for TLC. *)
EXTENDS UsbHandover

CONSTANTS gui, tagcache, audio, storage, pictureflow

(* The definition that proofs can look into is the familiar one.           *)
SomeMsgs == {Ack(1), Msg("SET_CONFIGURATION", 0), Msg("OTHER_REQUEST", 0), Msg("BUS_RESET", 0)}
ASSUME WithoutCompletionsIsSelectSeq ==
    \A q \in BoundedSeq(SomeMsgs, 4) :
        WithoutCompletions(q) = SelectSeq(q, LAMBDA m : ~Completion(m))

=============================================================================
