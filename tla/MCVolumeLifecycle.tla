-------------------------- MODULE MCVolumeLifecycle --------------------------
(* VolumeLifecycle for TLC: ids, ordinals, removals and threads are          *)
(* interchangeable.                                                          *)
EXTENDS VolumeLifecycle, TLC

Symmetric == Permutations(Id) \cup Permutations(Ordinal) \cup Permutations(Creator)
             \cup Permutations(Task) \cup Permutations(Io)
=============================================================================
