------------------------------- MODULE BlockStore -------------------------------
(***************************************************************************)
(* What a volume promises its users, without blocks, index, allocator or   *)
(* journal ("a crash-consistent block-volume store", README.md).           *)
(*                                                                         *)
(* A write becomes visible lba by lba, becomes durable as a whole, and is  *)
(* acknowledged only when it is durable.  A write that fails leaves no     *)
(* trace.  A crash leaves exactly the durable contents.  A read returns    *)
(* what was visible at one moment while it ran, or an error.               *)
(***************************************************************************)
CONSTANTS
    Lba, Writer, Reader,
    Value,       \* what a write stores in each of its lbas
    Blank        \* the contents of an lba never written

VARIABLES
    content,     \* per lba: what a read sees
    durable,     \* per lba: what a crash leaves
    pending,     \* per writer: its write in progress
    answer       \* per reader: its read in progress

vars == <<content, durable, pending, answer>>

NoWrite == [busy |-> FALSE, val |-> Blank, lbas |-> {}, shown |-> {}, saved |-> FALSE]
NoRead == [stage |-> "idle", val |-> Blank]

Init ==
    /\ content = [l \in Lba |-> Blank]
    /\ durable = content
    /\ pending = [w \in Writer |-> NoWrite]
    /\ answer = [r \in Reader |-> NoRead]

(* Some range and some value, the range disjoint from the others' in progress. *)
Begun == [busy : {TRUE}, val : Value, lbas : SUBSET Lba, shown : {{}}, saved : {FALSE}]

Begin(w) ==
    /\ ~pending[w].busy
    /\ pending'[w] \in Begun
    /\ \A x \in Writer : pending[x].lbas \cap pending'[w].lbas = {}
    /\ pending' = [pending EXCEPT ![w] = pending'[w]]
    /\ UNCHANGED <<answer, content, durable>>

Show(w, l) ==
    /\ l \in pending[w].lbas \ pending[w].shown
    /\ pending' = [pending EXCEPT ![w].shown = @ \cup {l}]
    /\ content' = [content EXCEPT ![l] = pending[w].val]
    /\ UNCHANGED <<answer, durable>>

Save(w) ==
    /\ pending[w].busy /\ ~pending[w].saved
    /\ pending[w].shown = pending[w].lbas
    /\ pending' = [pending EXCEPT ![w].saved = TRUE]
    /\ durable' = [l \in Lba |-> IF l \in pending[w].lbas THEN pending[w].val ELSE durable[l]]
    /\ UNCHANGED <<answer, content>>

Ack(w) ==
    /\ pending[w].saved
    /\ pending' = [pending EXCEPT ![w] = NoWrite]
    /\ UNCHANGED <<answer, content, durable>>

Fail(w) ==
    /\ pending[w].busy /\ ~pending[w].saved
    /\ pending' = [pending EXCEPT ![w] = NoWrite]
    /\ content' = [l \in Lba |-> IF l \in pending[w].shown THEN durable[l] ELSE content[l]]
    /\ UNCHANGED <<answer, durable>>

Look(r, l) ==
    /\ answer[r].stage = "idle"
    /\ answer'[r] \in [stage : {"reading", "ok"}, val : {content[l]}]
    /\ answer' = [answer EXCEPT ![r] = answer'[r]]
    /\ UNCHANGED <<pending, content, durable>>

Answer(r) ==
    /\ answer[r].stage = "reading"
    /\ answer'[r] \in {[stage |-> "ok", val |-> answer[r].val], [stage |-> "error", val |-> Blank]}
    /\ answer' = [answer EXCEPT ![r] = answer'[r]]
    /\ UNCHANGED <<pending, content, durable>>

Return(r) ==
    /\ answer[r].stage \in {"ok", "error"}
    /\ answer' = [answer EXCEPT ![r] = NoRead]
    /\ UNCHANGED <<pending, content, durable>>

Crash ==
    /\ pending' = [w \in Writer |-> NoWrite]
    /\ answer' = [r \in Reader |-> NoRead]
    /\ content' = durable
    /\ UNCHANGED durable

Next ==
    \/ \E w \in Writer : \/ Begin(w) \/ Save(w) \/ Ack(w) \/ Fail(w)
                         \/ \E l \in Lba : Show(w, l)
    \/ \E r \in Reader : Answer(r) \/ Return(r) \/ \E l \in Lba : Look(r, l)
    \/ Crash

Spec == Init /\ [][Next]_vars
=============================================================================
