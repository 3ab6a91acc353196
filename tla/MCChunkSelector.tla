--------------------------- MODULE MCChunkSelector ---------------------------
(* ChunkSelector for TLC: the chunks of one device are interchangeable. *)
EXTENDS ChunkSelector, TLC

CONSTANTS c1, c2, c3, c4, c5, d1, d2

TwoDevices == [c \in Chunk |-> IF c = c1 THEN d2 ELSE d1]

SymmetricOnDevice == Permutations(Chunk \ {c1}) \cup Permutations(Volume)
                     \cup Permutations(Writer)
=============================================================================
