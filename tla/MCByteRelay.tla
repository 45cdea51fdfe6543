---------------------------- MODULE MCByteRelay ----------------------------
(* ByteRelay with two clients of one slot: one exchanges bytes, the other only *)
(* connects and ends.                                                          *)
EXTENDS ByteRelay

CONSTANTS c1, c2

Writes == [c \in {c1, c2} |-> [s \in Sides |->
              IF c = c2 THEN 0 ELSE IF s = "client" THEN 2 ELSE 1]]
=============================================================================
