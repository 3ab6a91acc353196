------------------------------ MODULE MCVolumeIO ------------------------------
(* VolumeIO for TLC: blocks and threads are interchangeable. *)
EXTENDS VolumeIO, TLC

Symmetric == Permutations(Blk) \cup Permutations(Writer) \cup Permutations(Reader)
=============================================================================
