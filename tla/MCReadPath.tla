------------------------------ MODULE MCReadPath ------------------------------
(* ReadPath for TLC: chunks are interchangeable. *)
EXTENDS ReadPath, TLC

Symmetric == Permutations(Chunk)
=============================================================================
