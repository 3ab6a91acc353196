---------------------------- MODULE MCCraftReplDev ----------------------------
(* CraftReplDev for TLC: blocks and writers are interchangeable model values. *)
EXTENDS CraftReplDev, TLC

Symmetric == Permutations(Writer) \cup Permutations(Block)
(* What the next steps depend on: a reply is never read back. *)
Unreplied == <<partition, journal, allocated, pc, req, trunc, fetch>>
=============================================================================
