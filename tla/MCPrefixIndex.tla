----------------------------- MODULE MCPrefixIndex -----------------------------
(* Instances of PrefixIndex for TLC: the lbas on both sides of U32. *)
EXTENDS PrefixIndex

AroundU32 == U32 - 1 .. U32 + 1
=============================================================================
