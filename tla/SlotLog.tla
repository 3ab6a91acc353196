-------------------------------- MODULE SlotLog --------------------------------
(***************************************************************************)
(* What a CRAFT replica promises the client and its peers about the slots  *)
(* of its log, without journal, watermarks, missing set or coroutines.     *)
(*                                                                         *)
(* A slot is absent, held or void.  Appends fill one absent slot each, in  *)
(* any order; a verdict makes slots void for good; the login sequence may  *)
(* cut the log, while nothing is appended or committed, and everything     *)
(* held above the cut is absent again.  The committed prefix only grows,   *)
(* over slots that are held or void, and is never cut.                     *)
(***************************************************************************)
EXTENDS Integers

CONSTANT Slot

VARIABLES
    slot,      \* per slot: "absent", "held" or "void"
    commit,    \* the committed prefix is 0 .. commit
    cut        \* the cut in progress: whether there is one, and where

vars == <<slot, commit, cut>>

NoCut == [busy |-> FALSE, lsn |-> -1]

Init == slot = [l \in Slot |-> "absent"] /\ commit = -1 /\ cut = NoCut

Append(l) ==
    /\ ~cut.busy
    /\ slot[l] = "absent"
    /\ slot' = [slot EXCEPT ![l] = "held"]
    /\ UNCHANGED <<commit, cut>>

Void(E) ==
    /\ slot' = [l \in Slot |-> IF l \in E THEN "void" ELSE slot[l]]
    /\ UNCHANGED <<commit, cut>>

BeginCut(n) ==
    /\ ~cut.busy /\ n >= commit
    /\ cut' = [busy |-> TRUE, lsn |-> n]
    /\ UNCHANGED <<slot, commit>>

EndCut ==
    /\ cut.busy
    /\ slot' = [l \in Slot |-> IF l > cut.lsn /\ slot[l] = "held" THEN "absent" ELSE slot[l]]
    /\ cut' = NoCut
    /\ UNCHANGED commit

Commit(c) ==
    /\ ~cut.busy /\ c > commit
    /\ \A l \in Slot : l <= c => slot[l] # "absent"
    /\ commit' = c
    /\ UNCHANGED <<slot, cut>>

Next ==
    \/ \E l \in Slot : Append(l) \/ BeginCut(l) \/ Commit(l)
    \/ BeginCut(-1) \/ EndCut
    \/ \E E \in SUBSET Slot : Void(E)

Spec == Init /\ [][Next]_vars
=============================================================================
