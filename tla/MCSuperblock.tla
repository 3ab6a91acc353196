------------------------------ MODULE MCSuperblock ------------------------------
(* Superblock for TLC. *)
EXTENDS Superblock
=============================================================================
