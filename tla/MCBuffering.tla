---------------------------- MODULE MCBuffering -----------------------------
(* Small instances of Buffering for TLC. *)
EXTENDS Buffering

File(type, size, offset) ==
    [type |-> type, size |-> size, offset |-> offset, tag |-> 0, broken |-> FALSE]
Tagged(file) == [file EXCEPT !.tag = 1]
Broken(file) == [file EXCEPT !.broken = TRUE]

Playing(files) == [files |-> files, seeks |-> 0]
Seeking(files) == [files |-> files, seeks |-> 1]

(* Two tracks that do not fit into the ring together, behind metadata, the *)
(* second resumed in the middle or stripped of its tag; a seek in the      *)
(* first of two, or in one that is stripped; and a file of every kind,     *)
(* some of which fail.                                                     *)
SmallSessions ==
    { Playing(<< File("raw", 1, 0), File("audio", 3, 0), File("audio", 3, 1) >>),
      Playing(<< Tagged(File("audio", 3, 0)), File("raw", 1, 0), File("bitmap", 2, 0) >>),
      Seeking(<< File("audio", 2, 0), File("audio", 2, 0) >>),
      Seeking(<< Tagged(File("audio", 3, 0)) >>),
      Playing(<< File("id3", 1, 0), File("bitmap", 2, 0), File("atomic", 3, 0) >>),
      Playing(<< File("raw", 2, 0), File("atomic", 1, 0), File("raw", 1, 0), File("raw", 1, 0) >>),
      Playing(<< File("codec", 3, 0), File("bitmap", 2, 0), File("audio", 3, 0) >>),
      Playing(<< Broken(File("codec", 3, 0)), Broken(File("bitmap", 2, 0)) >>),
      Playing(<< Broken(File("id3", 1, 0)), Broken(File("atomic", 3, 0)) >>),
      Playing(<< Broken(Tagged(File("audio", 3, 0))), File("raw", 1, 0) >>) }

(* A track that is kept in one piece, and a packet track behind it. *)
AtomicThenPackets == { Playing(<< File("atomic", 3, 0), File("audio", 3, 0) >>) }
=============================================================================
