-------------------------------- MODULE ReadPath --------------------------------
(***************************************************************************)
(* The buffer arithmetic of volume::read (volume.cpp): the index entries   *)
(* of the range are merged into contiguous reads                           *)
(* (generate_blkids_to_read), the reads are placed in the caller's buffer  *)
(* and the holes between them zeroed (submit_read_to_backend), and the     *)
(* checksums are checked (verify_checksum).  One step per loop iteration;  *)
(* offsets count blocks.  Integers keep their widths: the merged counts    *)
(* are a blk_count_t, the end of the last read a uint32_t.  A memset past   *)
(* the caller's buffer is undefined behaviour, and ends the model.          *)
(* VolumeIO has the concurrency around it.                                  *)
(***************************************************************************)
EXTENDS Integers, Sequences, FiniteSets

CONSTANTS
    MaxLba,    \* the volume's lbas are 0 .. MaxLba
    MaxBlk,    \* a chunk's blocks are 0 .. MaxBlk
    Chunk,     \* chunks
    U16,       \* the number of values of a blk_count_t
    U32        \* the number of values of a uint32_t

ASSUME SizeAssumption ==
    MaxLba \in Nat /\ MaxBlk \in Nat /\ U16 \in Nat \ {0, 1} /\ U32 \in Nat \ {0}

VARIABLES
    req,       \* lbas lo .. hi
    kvs,       \* index_kvs: the entries of the range, in lba order
    indexed,   \* the index answered the query
    stage,     \* "index", "plan", "submit", "wait", "verify", "done" or "overrun"
    plan,      \* generate_blkids_to_read: i, start_idx, blks_to_read
    sub,       \* submit_read_to_backend: i, prev_lba, prev_nblks, read_buf
    futs,      \* the reads submitted, with their place in the buffer
    buf,       \* the caller's buffer
    bad,       \* entries whose block does not match its checksum
    chk,       \* verify_checksum: i, cur_lba, read_buf
    result

vars == <<req, kvs, indexed, stage, plan, sub, futs, buf, bad, chk, result>>

Lba == 0 .. MaxLba
Block == Chunk \X (0 .. MaxBlk)
Caller == <<"caller">>
Zero == <<"zero">>
Corrupt == <<"corrupt">>
Nlbas == req.hi - req.lo + 1

(* A request: its number of lbas, a uint32_t, and any entries in its range,  *)
(* in lba order, each with a block of its own.                               *)
Ascending(n, S) == {f \in [1 .. n -> S] : \A i, j \in 1 .. n : i < j => f[i] < f[j]}
Distinct(n, S) == {f \in [1 .. n -> S] : \A i, j \in 1 .. n : f[i] = f[j] => i = j}

Init ==
    /\ \E lo \in Lba : \E hi \in lo .. MaxLba :
       /\ hi - lo + 1 < U32
       /\ \E n \in 0 .. hi - lo + 1 : \E lba \in Ascending(n, lo .. hi) : \E at \in Distinct(n, Block) :
              /\ req = [lo |-> lo, hi |-> hi]
              /\ kvs = [i \in 1 .. n |-> [lba |-> lba[i], at |-> at[i]]]
    /\ indexed = TRUE
    /\ stage = "index"
    /\ plan = [i |-> 1, start |-> 1, reads |-> <<>>]
    /\ sub = [i |-> 1, lba |-> req.lo % U32, nblks |-> 0, off |-> 0]
    /\ futs = {}
    /\ buf = [p \in 0 .. req.hi - req.lo |-> Caller]
    /\ bad = {}
    /\ chk = [i |-> 1, lba |-> req.lo, off |-> 0]
    /\ result = "none"

-----------------------------------------------------------------------------
(* read_from_index; after an error of the index read() returns success.      *)

ReadIndex ==
    /\ stage = "index"
    /\ stage' = "plan"
    /\ UNCHANGED <<req, kvs, indexed, plan, sub, futs, buf, bad, chk, result>>

ReadIndexFails ==
    /\ stage = "index"
    /\ stage' = "done"
    /\ indexed' = FALSE
    /\ result' = "ok"
    /\ UNCHANGED <<req, kvs, plan, sub, futs, buf, bad, chk>>

-----------------------------------------------------------------------------
(* generate_blkids_to_read *)

Contiguous(i) ==
    i > 1 => /\ kvs[i].lba = kvs[i - 1].lba + 1
             /\ kvs[i].at = <<kvs[i - 1].at[1], kvs[i - 1].at[2] + 1>>

Run(start, n) == [lba |-> kvs[start].lba, at |-> kvs[start].at, n |-> n % U16]

PlanExtend ==
    /\ stage = "plan"
    /\ plan.i < Len(kvs)
    /\ Contiguous(plan.i)
    /\ plan' = [plan EXCEPT !.i = @ + 1]
    /\ UNCHANGED <<req, kvs, indexed, stage, sub, futs, buf, bad, chk, result>>

PlanCut ==
    /\ stage = "plan"
    /\ plan.i <= Len(kvs)
    /\ ~(Contiguous(plan.i) /\ plan.i < Len(kvs))
    /\ LET n == plan.i - plan.start + (IF Contiguous(plan.i) THEN 1 ELSE 0)
           last == IF ~Contiguous(plan.i) /\ plan.i = Len(kvs) THEN <<Run(plan.i, 1)>> ELSE <<>>
       IN plan' = [i |-> plan.i + 1, start |-> plan.i,
                   reads |-> Append(plan.reads, Run(plan.start, n)) \o last]
    /\ UNCHANGED <<req, kvs, indexed, stage, sub, futs, buf, bad, chk, result>>

PlanDone ==
    /\ stage = "plan"
    /\ plan.i > Len(kvs)
    /\ stage' = "submit"
    /\ UNCHANGED <<req, kvs, indexed, plan, sub, futs, buf, bad, chk, result>>

-----------------------------------------------------------------------------
(* submit_read_to_backend; prev_lba and prev_nblks are uint32_t. *)

(* Mutant: the count of the last read is forgotten. *)
PrevEndAtStart == sub.lba % U32

PrevEnd == (sub.lba + sub.nblks) % U32

(* The blocks before the next read, or after the last, that have no entry.   *)
ReadHoles == plan.reads[sub.i].lba - PrevEnd
TailHoles == IF PrevEnd < req.hi + 1 THEN req.hi + 1 - PrevEnd ELSE 0

(* How far into the buffer the iteration, or what follows the loop, reaches. *)
Reach ==
    IF sub.i <= Len(plan.reads)
    THEN sub.off + ReadHoles + plan.reads[sub.i].n
    ELSE sub.off + TailHoles

(* Mutant: the last block of a hole is not zeroed. *)
ZeroedShort(n) == [p \in DOMAIN buf |-> IF p \in sub.off .. sub.off + n - 2 THEN Zero ELSE buf[p]]

Zeroed(n) == [p \in DOMAIN buf |-> IF p \in sub.off .. sub.off + n - 1 THEN Zero ELSE buf[p]]

SubmitRead ==
    /\ stage = "submit"
    /\ sub.i <= Len(plan.reads)
    /\ Reach <= Nlbas
    /\ LET r == plan.reads[sub.i] IN
           /\ buf' = Zeroed(ReadHoles)
           /\ futs' = futs \cup {[off |-> sub.off + ReadHoles, read |-> r]}
           /\ sub' = [i |-> sub.i + 1, lba |-> r.lba % U32, nblks |-> r.n, off |-> Reach]
    /\ UNCHANGED <<req, kvs, indexed, stage, plan, bad, chk, result>>

(* The hole at the end; a range without entries returns from read() here. *)
SubmitTail ==
    /\ stage = "submit"
    /\ sub.i > Len(plan.reads)
    /\ Reach <= Nlbas
    /\ buf' = Zeroed(TailHoles)
    /\ sub' = [sub EXCEPT !.off = Reach]
    /\ stage' = IF kvs = <<>> THEN "done" ELSE "wait"
    /\ result' = IF kvs = <<>> THEN "ok" ELSE result
    /\ UNCHANGED <<req, kvs, indexed, plan, futs, bad, chk>>

(* The holes reach past the buffer.  *)
Overrun ==
    /\ stage = "submit"
    /\ Reach > Nlbas
    /\ stage' = "overrun"
    /\ UNCHANGED <<req, kvs, indexed, plan, sub, futs, buf, bad, chk, result>>

-----------------------------------------------------------------------------
Stored(at) == IF \E i \in bad' : kvs[i].at = at THEN Corrupt ELSE at

(* when_all: the data service fills the pieces of the buffer; the blocks of  *)
(* some entries may not match their checksums.                               *)
ReadsComplete ==
    /\ stage = "wait"
    /\ bad' \in SUBSET (1 .. Len(kvs))
    /\ buf' = [p \in DOMAIN buf |->
                  IF \E f \in futs : p \in f.off .. f.off + f.read.n - 1
                  THEN LET f == CHOOSE f \in futs : p \in f.off .. f.off + f.read.n - 1
                       IN Stored(<<f.read.at[1], f.read.at[2] + p - f.off>>)
                  ELSE buf[p]]
    /\ stage' = "verify"
    /\ UNCHANGED <<req, kvs, indexed, plan, sub, futs, chk, result>>

ReadFails ==
    /\ stage = "wait"
    /\ stage' = "done"
    /\ result' = "io_error"
    /\ UNCHANGED <<req, kvs, indexed, plan, sub, futs, buf, bad, chk>>

-----------------------------------------------------------------------------
(* verify_checksum *)

(* Mutant: the lba skips the hole and the buffer position does not. *)
VerifySkipHoleUnmoved ==
    /\ stage = "verify"
    /\ chk.i <= Len(kvs)
    /\ chk.lba # kvs[chk.i].lba
    /\ chk' = [chk EXCEPT !.lba = kvs[chk.i].lba]
    /\ UNCHANGED <<req, kvs, indexed, stage, plan, sub, futs, buf, bad, result>>

VerifySkipHole ==
    /\ stage = "verify"
    /\ chk.i <= Len(kvs)
    /\ chk.lba # kvs[chk.i].lba
    /\ chk' = [chk EXCEPT !.off = @ + kvs[chk.i].lba - chk.lba, !.lba = kvs[chk.i].lba]
    /\ UNCHANGED <<req, kvs, indexed, stage, plan, sub, futs, buf, bad, result>>

VerifyBlock ==
    /\ stage = "verify"
    /\ chk.i <= Len(kvs)
    /\ chk.lba = kvs[chk.i].lba
    /\ IF buf[chk.off] = kvs[chk.i].at
       THEN /\ chk' = [i |-> chk.i + 1, lba |-> chk.lba + 1, off |-> chk.off + 1]
            /\ UNCHANGED <<stage, result>>
       ELSE stage' = "done" /\ result' = "crc mismatch" /\ UNCHANGED chk
    /\ UNCHANGED <<req, kvs, indexed, plan, sub, futs, buf, bad>>

VerifyDone ==
    /\ stage = "verify"
    /\ chk.i > Len(kvs)
    /\ stage' = "done"
    /\ result' = "ok"
    /\ UNCHANGED <<req, kvs, indexed, plan, sub, futs, buf, bad, chk>>

Next ==
    \/ ReadIndex \/ ReadIndexFails
    \/ PlanExtend \/ PlanCut \/ PlanDone
    \/ SubmitRead \/ SubmitTail \/ Overrun
    \/ ReadsComplete \/ ReadFails
    \/ VerifySkipHole \/ VerifyBlock \/ VerifyDone

Spec == Init /\ [][Next]_vars

-----------------------------------------------------------------------------
(* Properties *)

(* A read that succeeds, unless it is the index that failed, has put each    *)
(* mapped lba's block, and zeros for each hole, in its place: nothing of the *)
(* caller's buffer is left as it was.  Counts and sums that do not fit their *)
(* integers end in an error or in an overrun, never in wrong data.           *)
BufferCorrect ==
    result = "ok" /\ indexed => \A l \in req.lo .. req.hi :
        buf[l - req.lo] = IF \E i \in DOMAIN kvs : kvs[i].lba = l
                          THEN (CHOOSE kv \in {kvs[i] : i \in DOMAIN kvs} : kv.lba = l).at
                          ELSE Zero

(* A range with fewer entries than a blk_count_t has values returns          *)
(* CRC_MISMATCH when, and only when, a block read does not match the         *)
(* checksum of the index: holes never shift the comparison.                  *)
VerifyExact ==
    stage = "done" /\ result # "io_error" /\ Len(kvs) < U16 =>
        (result = "crc mismatch" <=> bad # {})

(* submit_read_to_backend writes past the caller's buffer for no range that  *)
(* ends below lba 2^32, whatever holes and blocks it has.                    *)
InBuffer == stage = "overrun" => req.hi + 1 >= U32
=============================================================================
