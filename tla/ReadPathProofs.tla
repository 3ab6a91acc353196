---------------------------- MODULE ReadPathProofs ----------------------------
(***************************************************************************)
(* Proofs about ReadPath, for every range of lbas, every set of entries the *)
(* index may find in it and every layout of their blocks, whether or not    *)
(* the counts and the lbas fit the integers that hold them.                 *)
(***************************************************************************)
EXTENDS ReadPath, TLAPS

Found == [lba : Nat, at : Block]
Piece == [lba : Nat, at : Block, n : Nat]
Ends == req.lo .. req.hi
Mapped(l) == \E j \in 1 .. Len(kvs) : kvs[j].lba = l

Planning == stage \in {"index", "plan"}

(* The merged counts fit a blk_count_t. *)
Few == Len(kvs) < U16

(* The types. *)
TypeInv ==
    /\ req \in [lo : Nat, hi : Nat] /\ req.lo <= req.hi /\ req.hi - req.lo + 1 < U32
    /\ kvs \in Seq(Found)
    /\ plan \in [i : Nat, start : Nat, reads : Seq(Piece)]
    /\ sub \in [i : Nat, lba : Nat, nblks : Nat, off : Nat]
    /\ DOMAIN buf = 0 .. req.hi - req.lo
    /\ bad \in SUBSET (1 .. Len(kvs))
    /\ chk \in [i : Nat, lba : Nat, off : Nat]
    /\ stage \in {"index", "plan", "submit", "wait", "verify", "done", "overrun"}

(* The entries found are of the range, in lba order, with blocks of their own. *)
EntriesInv ==
    /\ \A j \in 1 .. Len(kvs) : kvs[j].lba \in Ends
    /\ \A i, j \in 1 .. Len(kvs) : i < j => kvs[i].lba < kvs[j].lba
    /\ \A i, j \in 1 .. Len(kvs) : kvs[i].at = kvs[j].at => i = j

(* The entries that the reads planned so far stand for. *)
Planned == IF plan.i <= Len(kvs) THEN plan.start - 1 ELSE Len(kvs)

(* Entry j is the d-th block of the read r. *)
Within(j, r, d) == kvs[j].lba = r.lba + d /\ kvs[j].at = <<r.at[1], r.at[2] + d>>

(* The reads Q stand for the first k entries: every block of a read is an    *)
(* entry's, and so is its first lba; every entry is in a read, unless a      *)
(* count was narrowed; and the reads are in lba order.                       *)
Covers(Q, k) ==
    /\ \A m \in 1 .. Len(Q) :
           /\ \E j \in 1 .. k : Within(j, Q[m], 0)
           /\ \A d \in 0 .. Q[m].n - 1 : \E j \in 1 .. k : Within(j, Q[m], d)
    /\ Few => \A j \in 1 .. k : \E m \in 1 .. Len(Q) : \E d \in 0 .. Q[m].n - 1 : Within(j, Q[m], d)
    /\ \A m, p \in 1 .. Len(Q) : m < p => Q[m].lba + Q[m].n <= Q[p].lba

(* The entries from plan.start on, before plan.i, would make one read.       *)
PlanInv ==
    /\ Covers(plan.reads, Planned)
    /\ Planning => /\ plan.start >= 1 /\ plan.i <= Len(kvs) + 1
                   /\ plan.start <= plan.i /\ (plan.start = plan.i => plan.i = 1)
                   /\ plan.i <= Len(kvs) =>
                          \A j \in plan.start .. plan.i - 1 :
                              Within(j, kvs[plan.start], j - plan.start)
    /\ stage \in {"submit", "wait", "verify"} => plan.i > Len(kvs)

(* The lba after the blocks of the buffer that are done with; what the       *)
(* uint32_t sum makes of it, which is it or at least 2^32 below it.          *)
End == req.lo + sub.off
Tracks(x, e) == x = e \/ x <= e - U32
Placed(m) == [off |-> plan.reads[m].lba - req.lo, read |-> plan.reads[m]]

(* The reads submitted have their place in the buffer, and the lbas before   *)
(* the end of the last one are read or zeroed.                               *)
SubmitInv ==
    /\ sub.i \in 1 .. Len(plan.reads) + 1
    /\ futs = {Placed(m) : m \in 1 .. sub.i - 1}
    /\ Planning \/ stage = "submit" =>
           /\ End <= req.hi + 1
           /\ Tracks(sub.lba + sub.nblks, End)
           /\ \A p \in sub.i .. Len(plan.reads) : End <= plan.reads[p].lba
           /\ \A l \in req.lo .. End - 1 : ~Mapped(l) => buf[l - req.lo] = Zero
    /\ Planning => sub.i = 1 /\ sub.off = 0 /\ futs = {}
    /\ stage = "wait" => /\ sub.i = Len(plan.reads) + 1
                         /\ \A l \in Ends : ~Mapped(l) => buf[l - req.lo] = Zero
    /\ stage = "overrun" => req.hi + 1 >= U32

(* Once the reads have completed, every hole is zero and, if no count was    *)
(* narrowed, every lba has its block or what stands in for it; the entries   *)
(* verified have their blocks.                                               *)
Holes == \A l \in Ends : ~Mapped(l) => buf[l - req.lo] = Zero
Matched(k) == \A j \in 1 .. k : buf[kvs[j].lba - req.lo] = kvs[j].at
Filled ==
    \A j \in 1 .. Len(kvs) : buf[kvs[j].lba - req.lo] = IF j \in bad THEN Corrupt ELSE kvs[j].at

VerifyInv ==
    /\ stage = "verify" => Holes /\ Matched(chk.i - 1) /\ (Few => Filled)
    /\ chk.i \in 1 .. Len(kvs) + 1
    /\ chk.lba >= req.lo /\ chk.off = chk.lba - req.lo
    /\ chk.i <= Len(kvs) => chk.lba <= kvs[chk.i].lba
    /\ stage \notin {"verify", "done"} => chk.i = 1 /\ chk.lba = req.lo /\ bad = {}
    /\ stage # "done" => result = "none"
    /\ stage = "done" => \/ result = "io_error"
                         \/ result = "ok" /\ ~indexed /\ bad = {}
                         \/ result = "ok" /\ Holes /\ Matched(Len(kvs)) /\ (Few => bad = {})
                         \/ result = "crc mismatch" /\ (Few => bad # {})

Inv == TypeInv /\ EntriesInv /\ PlanInv /\ SubmitInv /\ VerifyInv

-----------------------------------------------------------------------------
(* What a narrower unsigned integer keeps of a number. *)
LEMMA Narrowed ==
    ASSUME NEW x \in Nat, NEW u \in Nat \ {0}
    PROVE  /\ x % u \in Nat /\ x % u < u /\ x % u <= x
           /\ x < u => x % u = x
           /\ x >= u => x % u <= x - u
<1>1. PICK q, r : q = x \div u /\ r = x % u
  OBVIOUS
<1>2. q \in Int /\ r \in Nat /\ r < u /\ x = u * q + r
  BY <1>1
<1>3. q >= 1 => u * q >= u
  BY <1>2
<1>4. q <= -1 => u * q <= -u
  BY <1>2
<1>5. q = 0 => u * q = 0
  BY <1>2
<1>6. q \in Int => q >= 1 \/ q <= -1 \/ q = 0
  OBVIOUS
<1>7. q >= 1 \/ q = 0
  BY <1>2, <1>4, <1>6
<1>8. x < u => r = x
  BY <1>2, <1>3, <1>5, <1>7
<1>9. x >= u => r <= x - u
  BY <1>2, <1>3, <1>5, <1>7
<1>10. r <= x
  BY <1>2, <1>3, <1>5, <1>7
<1> QED BY <1>1, <1>2, <1>8, <1>9, <1>10

(* The facts about the entries and the reads. *)

(* The entries are in lba order, so an lba has at most one. *)
LEMMA OneEntry ==
    ASSUME TypeInv, EntriesInv, NEW i \in 1 .. Len(kvs), NEW j \in 1 .. Len(kvs),
           kvs[i].lba = kvs[j].lba
    PROVE  i = j
<1>a. kvs \in Seq(Found)
  BY DEF TypeInv
<1>0. kvs[i] \in Found /\ kvs[j] \in Found
  BY <1>a
<1>1. kvs[i].lba \in Nat /\ kvs[j].lba \in Nat
  BY <1>0 DEF Found
<1>2. i < j => kvs[i].lba < kvs[j].lba
  BY DEF EntriesInv
<1>3. j < i => kvs[j].lba < kvs[i].lba
  BY DEF EntriesInv
<1> QED BY <1>1, <1>2, <1>3

(* An entry's fields. *)
LEMMA EntryTyped ==
    ASSUME TypeInv, EntriesInv, NEW j \in 1 .. Len(kvs)
    PROVE  /\ kvs[j] \in Found /\ kvs[j].lba \in Nat
           /\ req.lo <= kvs[j].lba /\ kvs[j].lba <= req.hi
           /\ kvs[j].at \in Block /\ kvs[j].at[2] \in Nat
           /\ kvs[j].at = <<kvs[j].at[1], kvs[j].at[2]>>
<1>1. kvs[j] \in Found
  BY DEF TypeInv
<1>2. kvs[j].lba \in Nat /\ kvs[j].at \in Block
  BY <1>1 DEF Found
<1>3. kvs[j].lba \in req.lo .. req.hi
  BY DEF EntriesInv, Ends
<1>4. kvs[j].at[2] \in Nat /\ kvs[j].at = <<kvs[j].at[1], kvs[j].at[2]>>
  BY <1>2, SizeAssumption DEF Block
<1>5. req.lo \in Nat /\ req.hi \in Nat
  BY DEF TypeInv
<1> QED BY <1>1, <1>2, <1>3, <1>4, <1>5

(* generate_blkids_to_read: a read of entries s .. t, whose lbas and blocks  *)
(* are contiguous, added to reads that stand for the entries before.         *)
LEMMA CoverExtends ==
    ASSUME TypeInv, EntriesInv, NEW Q \in Seq(Piece),
           NEW s \in 1 .. Len(kvs), NEW t \in s .. Len(kvs),
           Covers(Q, s - 1), \A j \in s .. t : Within(j, kvs[s], j - s)
    PROVE  Append(Q, Run(s, t - s + 1)) \in Seq(Piece) /\ Covers(Append(Q, Run(s, t - s + 1)), t)
<1>0. s \in Nat /\ t \in Nat /\ s <= t /\ s >= 1 /\ t <= Len(kvs) /\ Len(kvs) \in Nat
  BY DEF TypeInv
<1>1. PICK r : r = Run(s, t - s + 1)
  OBVIOUS
<1>a. PICK c, x : c = t - s + 1 /\ x = c % U16
  OBVIOUS
<1>b. /\ c \in Nat /\ c >= 1 /\ c <= Len(kvs) /\ x \in Nat /\ x <= c
      /\ Few => x = c
  <2>1. c \in Nat /\ c >= 1 /\ c <= Len(kvs)
    BY <1>0, <1>a
  <2>2. x \in Nat /\ x <= c /\ (c < U16 => x = c)
    BY <1>a, <2>1, Narrowed, SizeAssumption
  <2>3. Few => c < U16
    BY <1>0, <2>1, SizeAssumption DEF Few
  <2> QED BY <2>1, <2>2, <2>3
<1>2. r \in Piece /\ r.lba = kvs[s].lba /\ r.at = kvs[s].at /\ r.n = x
  BY <1>1, <1>a, <1>b, EntryTyped DEF Run, Piece
<1>3. PICK Q2 : Q2 = Append(Q, r)
  OBVIOUS
<1>4. /\ Q2 \in Seq(Piece) /\ Len(Q2) = Len(Q) + 1 /\ Len(Q) \in Nat
      /\ Q2[Len(Q) + 1] = r /\ \A m \in 1 .. Len(Q) : Q2[m] = Q[m]
  BY <1>2, <1>3
<1>5. ASSUME NEW m \in 1 .. Len(Q2)
      PROVE  /\ \E j \in 1 .. t : Within(j, Q2[m], 0)
             /\ \A d \in 0 .. Q2[m].n - 1 : \E j \in 1 .. t : Within(j, Q2[m], d)
  <2>1. CASE m \in 1 .. Len(Q)
    <3>1. Q2[m] = Q[m] /\ Q[m] \in Piece
      BY <1>4, <2>1
    <3>2. /\ \E j \in 1 .. s - 1 : Within(j, Q[m], 0)
          /\ \A d \in 0 .. Q[m].n - 1 : \E j \in 1 .. s - 1 : Within(j, Q[m], d)
      BY <2>1 DEF Covers
    <3> QED BY <1>0, <3>1, <3>2
  <2>2. CASE m = Len(Q) + 1
    <3>1. ASSUME NEW d \in 0 .. t - s PROVE \E j \in 1 .. t : Within(j, r, d)
      <4>1. s + d \in s .. t
        BY <1>0
      <4>2. Within(s + d, kvs[s], (s + d) - s)
        BY <4>1
      <4>3. (s + d) - s = d
        BY <1>0
      <4>4. Within(s + d, r, d)
        BY <1>2, <4>2, <4>3 DEF Within
      <4> QED BY <1>0, <4>1, <4>4
    <3>2. Q2[m] = r
      BY <1>4, <2>2
    <3>3. 0 \in 0 .. t - s /\ \A d \in 0 .. r.n - 1 : d \in 0 .. t - s
      BY <1>0, <1>a, <1>b, <1>2
    <3>4. \E j \in 1 .. t : Within(j, r, 0)
      BY <3>1, <3>3
    <3>5. \A d \in 0 .. r.n - 1 : \E j \in 1 .. t : Within(j, r, d)
      BY <3>1, <3>3
    <3> QED BY <3>2, <3>4, <3>5
  <2>3. m \in 1 .. Len(Q) \/ m = Len(Q) + 1
    BY <1>4
  <2> QED BY <2>1, <2>2, <2>3
<1>6. ASSUME Few, NEW j \in 1 .. t
      PROVE  \E m \in 1 .. Len(Q2) : \E d \in 0 .. Q2[m].n - 1 : Within(j, Q2[m], d)
  <2>1. CASE j \in 1 .. s - 1
    <3>1. PICK m \in 1 .. Len(Q) : \E d \in 0 .. Q[m].n - 1 : Within(j, Q[m], d)
      BY <1>6, <2>1 DEF Covers
    <3> QED BY <1>4, <3>1
  <2>2. CASE j \in s .. t
    <3>1. j - s \in 0 .. r.n - 1 /\ Within(j, r, j - s)
      BY <1>0, <1>2, <1>6, <1>a, <1>b, <2>2 DEF Within
    <3>2. Len(Q) + 1 \in 1 .. Len(Q2)
      BY <1>4
    <3> QED BY <1>4, <3>1, <3>2
  <2> QED BY <1>0, <2>1, <2>2
<1>7. ASSUME NEW m \in 1 .. Len(Q2), NEW p \in 1 .. Len(Q2), m < p
      PROVE  Q2[m].lba + Q2[m].n <= Q2[p].lba
  <2>1. m \in 1 .. Len(Q) /\ Q2[m] = Q[m]
    BY <1>4, <1>7
  <2>2. CASE p \in 1 .. Len(Q)
    BY <1>4, <1>7, <2>1, <2>2 DEF Covers
  <2>3. CASE p = Len(Q) + 1
    <3>1. PICK q : q = Q[m]
      OBVIOUS
    <3>2. q \in Piece
      BY <2>1, <3>1
    <3>3. q.lba \in Nat /\ q.n \in Nat
      BY <3>2 DEF Piece
    <3>4. /\ \E j \in 1 .. s - 1 : Within(j, q, 0)
          /\ \A d \in 0 .. q.n - 1 : \E j \in 1 .. s - 1 : Within(j, q, d)
      BY <2>1, <3>1 DEF Covers
    <3>5. PICK d : d = IF q.n = 0 THEN 0 ELSE q.n - 1
      OBVIOUS
    <3>6. d \in Nat /\ q.n <= d + 1 /\ (d = 0 \/ d \in 0 .. q.n - 1)
      <4>1. PICK y : y = q.n /\ y \in Nat
        BY <3>3
      <4>2. d = IF y = 0 THEN 0 ELSE y - 1
        BY <3>5, <4>1
      <4>3. d \in Nat /\ y <= d + 1 /\ (d = 0 \/ d \in 0 .. y - 1)
        BY ONLY <4>1, <4>2
      <4> QED BY <4>1, <4>3
    <3>7. PICK j \in 1 .. s - 1 : Within(j, q, d)
      BY <3>4, <3>6
    <3>a. j \in 1 .. Len(kvs) /\ s \in 1 .. Len(kvs) /\ j < s
      BY <1>0
    <3>b. kvs[j].lba < kvs[s].lba
      BY <3>a DEF EntriesInv
    <3>c. kvs[j].lba = q.lba + d /\ kvs[s].lba \in Nat
      BY <3>7, EntryTyped DEF Within
    <3>8. q.lba + q.n <= kvs[s].lba
      <4>1. PICK x1, y, z : x1 = q.lba /\ y = q.n /\ z = kvs[s].lba
        OBVIOUS
      <4>2. x1 \in Nat /\ y \in Nat /\ z \in Nat /\ x1 + d < z /\ y <= d + 1 /\ d \in Nat
        BY <3>3, <3>6, <3>b, <3>c, <4>1
      <4>3. x1 + y <= z
        BY ONLY <4>2
      <4> QED BY <4>1, <4>3
    <3>9. Q2[p].lba = kvs[s].lba
      BY <1>2, <1>4, <2>3
    <3> QED BY <2>1, <3>1, <3>8, <3>9
  <2> QED BY <1>4, <2>2, <2>3
<1>8. Covers(Q2, t)
  BY <1>5, <1>6, <1>7 DEF Covers
<1> QED BY <1>1, <1>3, <1>4, <1>8

(* An entry is the first block of a read that starts at it. *)
LEMMA WithinSelf ==
    ASSUME TypeInv, EntriesInv, NEW i \in 1 .. Len(kvs)
    PROVE  \A j \in i .. i : Within(j, kvs[i], j - i)
<1>1. kvs[i].lba = kvs[i].lba + 0 /\ kvs[i].at[2] = kvs[i].at[2] + 0
  BY EntryTyped
<1>2. Within(i, kvs[i], 0)
  BY <1>1, EntryTyped DEF Within
<1> QED BY <1>2

(* generate_blkids_to_read: a contiguous entry is the next block of the run. *)
LEMMA RunGrows ==
    ASSUME TypeInv, EntriesInv, NEW s \in 1 .. Len(kvs), NEW i \in s .. Len(kvs),
           s = i => i = 1, Contiguous(i),
           \A j \in s .. i - 1 : Within(j, kvs[s], j - s)
    PROVE  Within(i, kvs[s], i - s)
<1>0. s \in Nat /\ i \in Nat /\ 1 <= s /\ s <= i /\ i \in 1 .. Len(kvs)
  BY DEF TypeInv
<1>1. CASE s = i
  BY <1>0, <1>1, WithinSelf
<1>2. CASE s < i
  <2>1. i > 1 /\ i - 1 \in s .. i - 1 /\ (i - 1) - s + 1 = i - s /\ i - 1 \in 1 .. Len(kvs)
    BY <1>0, <1>2
  <2>2. PICK e : e = (i - 1) - s /\ e \in Nat /\ e + 1 = i - s
    BY <1>0, <1>2
  <2>3. kvs[i - 1].lba = kvs[s].lba + e /\ kvs[i - 1].at = <<kvs[s].at[1], kvs[s].at[2] + e>>
    BY <2>1, <2>2 DEF Within
  <2>4. kvs[i - 1].at[1] = kvs[s].at[1] /\ kvs[i - 1].at[2] = kvs[s].at[2] + e
    BY <2>3
  <2>5. kvs[i].lba = kvs[i - 1].lba + 1 /\ kvs[i].at = <<kvs[i - 1].at[1], kvs[i - 1].at[2] + 1>>
    BY <2>1 DEF Contiguous
  <2>6. kvs[s].lba \in Nat /\ kvs[s].at[2] \in Nat
    BY EntryTyped
  <2>a. PICK x, y : x = kvs[s].lba /\ y = kvs[s].at[2] /\ x \in Nat /\ y \in Nat
    BY <2>6
  <2>c. e \in Nat /\ x \in Nat /\ y \in Nat
    BY <2>2, <2>a
  <2>b. (x + e) + 1 = x + (e + 1) /\ (y + e) + 1 = y + (e + 1)
    BY ONLY <2>c
  <2>7. kvs[i].lba = kvs[s].lba + (e + 1) /\ kvs[i - 1].at[2] + 1 = kvs[s].at[2] + (e + 1)
    BY <2>3, <2>4, <2>5, <2>a, <2>b
  <2>8. kvs[i].at = <<kvs[s].at[1], kvs[s].at[2] + (e + 1)>>
    BY <2>4, <2>5, <2>7
  <2> QED BY <2>2, <2>7, <2>8 DEF Within
<1> QED BY <1>0, <1>1, <1>2

(* A step that changes neither entries nor reads keeps what the reads cover. *)
LEMMA CoversKept ==
    ASSUME kvs' = kvs, plan'.reads = plan.reads, Planned' = Planned, Covers(plan.reads, Planned)
    PROVE  Covers(plan.reads, Planned)'
<1>1. \A j, r, d : Within(j, r, d)' = Within(j, r, d)
  BY DEF Within
<1> QED BY <1>1 DEF Covers, Few

(* A read's lbas are of the range. *)
LEMMA ReadInRange ==
    ASSUME TypeInv, EntriesInv, NEW k \in 0 .. Len(kvs), Covers(plan.reads, k),
           NEW m \in 1 .. Len(plan.reads)
    PROVE  /\ plan.reads[m] \in Piece /\ plan.reads[m].lba \in Nat
           /\ plan.reads[m].n \in Nat
           /\ req.lo <= plan.reads[m].lba
           /\ plan.reads[m].lba + plan.reads[m].n <= req.hi + 1
<1>0. plan.reads \in Seq(Piece)
  BY DEF TypeInv
<1>1. plan.reads[m] \in Piece
  BY <1>0
<1>2. PICK r : r = plan.reads[m]
  OBVIOUS
<1>3. r.lba \in Nat /\ r.n \in Nat
  BY <1>1, <1>2 DEF Piece
<1>4. /\ \E j \in 1 .. k : Within(j, r, 0)
      /\ \A d \in 0 .. r.n - 1 : \E j \in 1 .. k : Within(j, r, d)
  BY <1>2 DEF Covers
<1>5. PICK i \in 1 .. k : Within(i, r, 0)
  BY <1>4
<1>a. PICK d : d = IF r.n = 0 THEN 0 ELSE r.n - 1
  OBVIOUS
<1>d. d \in Nat /\ r.n <= d + 1 /\ (d = 0 \/ d \in 0 .. r.n - 1)
  <2>1. PICK y : y = r.n /\ y \in Nat
    BY <1>3
  <2>2. d = IF y = 0 THEN 0 ELSE y - 1
    BY <1>a, <2>1
  <2>3. d \in Nat /\ y <= d + 1 /\ (d = 0 \/ d \in 0 .. y - 1)
    BY ONLY <2>1, <2>2
  <2> QED BY <2>1, <2>3
<1>6. PICK j \in 1 .. k : Within(j, r, d)
  BY <1>4, <1>d
<1>c. Len(kvs) \in Nat /\ k \in 0 .. Len(kvs)
  BY DEF TypeInv
<1>7. i \in 1 .. Len(kvs) /\ j \in 1 .. Len(kvs)
  BY <1>c
<1>8. req.lo <= kvs[i].lba /\ kvs[j].lba <= req.hi /\ req.lo \in Nat /\ req.hi \in Nat
  BY <1>7, EntryTyped DEF TypeInv
<1>9. kvs[i].lba = r.lba + 0 /\ kvs[j].lba = r.lba + d
  BY <1>5, <1>6 DEF Within
<1>b. req.lo <= r.lba /\ r.lba + r.n <= req.hi + 1
  <2>1. PICK a, n, lo, hi : a = r.lba /\ n = r.n /\ lo = req.lo /\ hi = req.hi
    OBVIOUS
  <2>2. /\ a \in Nat /\ n \in Nat /\ lo \in Nat /\ hi \in Nat
        /\ lo <= a + 0 /\ a + d <= hi /\ n <= d + 1 /\ d \in Nat
    BY <1>3, <1>8, <1>9, <1>d, <2>1
  <2>3. lo <= a /\ a + n <= hi + 1
    BY ONLY <2>2
  <2> QED BY <2>1, <2>3
<1> QED BY <1>1, <1>2, <1>3, <1>4, <1>b

(* The same, for every read: what a step's next state needs. *)
LEMMA ReadsFrom ==
    \A k \in 0 .. Len(kvs), m \in 1 .. Len(plan.reads) :
        TypeInv /\ EntriesInv /\ Covers(plan.reads, k) => req.lo <= plan.reads[m].lba
BY ReadInRange

-----------------------------------------------------------------------------
(* The inductive invariant. *)

(* Every range, and all that the index may find in it, starts right. *)
LEMMA InitInv ==
    ASSUME Init
    PROVE  Inv
<1>1. PICK lo \in Lba : \E hi \in lo .. MaxLba :
         /\ hi - lo + 1 < U32
         /\ \E n \in 0 .. hi - lo + 1 : \E lba \in Ascending(n, lo .. hi) :
            \E at \in Distinct(n, Block) :
               /\ req = [lo |-> lo, hi |-> hi]
               /\ kvs = [i \in 1 .. n |-> [lba |-> lba[i], at |-> at[i]]]
  BY DEF Init
<1>2. PICK hi \in lo .. MaxLba :
         /\ hi - lo + 1 < U32
         /\ \E n \in 0 .. hi - lo + 1 : \E lba \in Ascending(n, lo .. hi) :
            \E at \in Distinct(n, Block) :
               /\ req = [lo |-> lo, hi |-> hi]
               /\ kvs = [i \in 1 .. n |-> [lba |-> lba[i], at |-> at[i]]]
  BY <1>1
<1>3. PICK n \in 0 .. hi - lo + 1 : \E lba \in Ascending(n, lo .. hi) :
         \E at \in Distinct(n, Block) :
           /\ req = [lo |-> lo, hi |-> hi]
           /\ kvs = [i \in 1 .. n |-> [lba |-> lba[i], at |-> at[i]]]
  BY <1>2
<1>4. PICK lba \in Ascending(n, lo .. hi), at \in Distinct(n, Block) :
           /\ req = [lo |-> lo, hi |-> hi]
           /\ kvs = [i \in 1 .. n |-> [lba |-> lba[i], at |-> at[i]]]
  BY <1>3
<1>5. lo \in Nat /\ hi \in Nat /\ lo <= hi /\ hi - lo + 1 < U32 /\ n \in Nat /\ U32 \in Nat \ {0}
  BY <1>2, SizeAssumption DEF Lba
<1>6. req.lo = lo /\ req.hi = hi /\ req \in [lo : Nat, hi : Nat]
  BY <1>4, <1>5
<1>7. \A i \in 1 .. n : lba[i] \in lo .. hi /\ at[i] \in Block
  BY DEF Ascending, Distinct
<1>8. kvs \in Seq(Found) /\ Len(kvs) = n
  <2>1. \A i \in 1 .. n : [lba |-> lba[i], at |-> at[i]] \in Found
    BY <1>5, <1>7 DEF Found
  <2>2. kvs \in [1 .. n -> Found]
    BY <1>4, <2>1
  <2> QED BY <1>5, <2>2
<1>9. \A i \in 1 .. n : kvs[i].lba = lba[i] /\ kvs[i].at = at[i]
  BY <1>4
<1>10. EntriesInv
  <2>1. \A i, j \in 1 .. n : i < j => lba[i] < lba[j]
    BY DEF Ascending
  <2>2. \A i, j \in 1 .. n : at[i] = at[j] => i = j
    BY DEF Distinct
  <2> QED BY <1>6, <1>7, <1>8, <1>9, <2>1, <2>2 DEF EntriesInv, Ends
<1>11. PICK x : x = lo % U32
  OBVIOUS
<1>b. x \in Nat /\ Tracks(x + 0, lo + 0)
  <2>1. x \in Nat /\ (lo < U32 => x = lo) /\ (lo >= U32 => x <= lo - U32)
    BY <1>5, <1>11, Narrowed
  <2> QED BY <1>5, <2>1 DEF Tracks
<1>12. /\ plan = [i |-> 1, start |-> 1, reads |-> <<>>]
       /\ sub = [i |-> 1, lba |-> x, nblks |-> 0, off |-> 0]
       /\ chk = [i |-> 1, lba |-> lo, off |-> 0]
       /\ futs = {} /\ bad = {} /\ result = "none" /\ stage = "index"
       /\ buf = [p \in 0 .. hi - lo |-> Caller]
  BY <1>6, <1>11 DEF Init
<1>13. /\ plan.i = 1 /\ plan.start = 1 /\ plan.reads = <<>> /\ Len(plan.reads) = 0
       /\ sub.i = 1 /\ sub.lba = x /\ sub.nblks = 0 /\ sub.off = 0
       /\ chk.i = 1 /\ chk.lba = lo /\ chk.off = 0
  BY <1>12
<1>14. TypeInv
  <2>1. plan \in [i : Nat, start : Nat, reads : Seq(Piece)]
    BY <1>12
  <2>2. sub \in [i : Nat, lba : Nat, nblks : Nat, off : Nat] /\ chk \in [i : Nat, lba : Nat, off : Nat]
    BY <1>5, <1>12, <1>b
  <2> QED BY <1>5, <1>6, <1>8, <1>12, <2>1, <2>2 DEF TypeInv
<1>15. PlanInv
  <2>1. Planned = 0
    BY <1>5, <1>8, <1>13 DEF Planned
  <2>2. Covers(<<>>, 0)
    BY DEF Covers
  <2> QED BY <1>5, <1>8, <1>12, <1>13, <2>1, <2>2 DEF PlanInv, Planning
<1>16. SubmitInv
  <2>1. End = lo /\ Tracks(sub.lba + sub.nblks, End)
    BY <1>5, <1>6, <1>13, <1>b DEF End
  <2>2. {Placed(m) : m \in 1 .. sub.i - 1} = {}
    BY <1>13
  <2> QED BY <1>5, <1>6, <1>12, <1>13, <2>1, <2>2 DEF SubmitInv, Planning
<1>17. VerifyInv
  <2>1. 1 <= n => lo <= lba[1]
    BY <1>5, <1>7
  <2> QED BY <1>5, <1>6, <1>8, <1>9, <1>12, <1>13, <2>1 DEF VerifyInv
<1> QED BY <1>10, <1>14, <1>15, <1>16, <1>17 DEF Inv

(* The index answers: only the stage moves. *)
LEMMA ReadIndexStep ==
    ASSUME Inv, ReadIndex
    PROVE  Inv'
<1> USE DEF Inv
<1>1. /\ stage = "index" /\ stage' = "plan"
      /\ UNCHANGED <<req, kvs, indexed, plan, sub, futs, buf, bad, chk, result>>
  BY DEF ReadIndex
<1>2. TypeInv' /\ EntriesInv'
  BY <1>1 DEF TypeInv, EntriesInv, Ends
<1>3. PlanInv'
  <2>1. Planned' = Planned /\ Planning /\ Planning'
    BY <1>1 DEF Planned, Planning
  <2>2. Covers(plan.reads, Planned)'
    BY <1>1, <2>1, CoversKept DEF PlanInv
  <2>3. \A j, r, d : Within(j, r, d)' = Within(j, r, d)
    BY <1>1 DEF Within
  <2> QED BY <1>1, <2>1, <2>2, <2>3 DEF PlanInv
<1>4. SubmitInv'
  BY <1>1 DEF SubmitInv, End, Placed, Mapped, Planning
<1>5. VerifyInv'
  BY <1>1 DEF VerifyInv
<1> QED BY <1>2, <1>3, <1>4, <1>5

(* The index fails: read() returns success, and has done nothing. *)
LEMMA ReadIndexFailsStep ==
    ASSUME Inv, ReadIndexFails
    PROVE  Inv'
<1> USE DEF Inv
<1>1. /\ stage = "index" /\ stage' = "done" /\ indexed' = FALSE /\ result' = "ok"
      /\ UNCHANGED <<req, kvs, plan, sub, futs, buf, bad, chk>>
  BY DEF ReadIndexFails
<1>2. TypeInv' /\ EntriesInv'
  BY <1>1 DEF TypeInv, EntriesInv, Ends
<1>3. PlanInv'
  <2>1. Planned' = Planned /\ ~Planning'
    BY <1>1 DEF Planned, Planning
  <2>2. Covers(plan.reads, Planned)'
    BY <1>1, <2>1, CoversKept DEF PlanInv
  <2> QED BY <1>1, <2>1, <2>2 DEF PlanInv
<1>4. SubmitInv'
  BY <1>1 DEF SubmitInv, Placed, Planning
<1>5. VerifyInv'
  BY <1>1 DEF VerifyInv
<1> QED BY <1>2, <1>3, <1>4, <1>5

(* generate_blkids_to_read: an iteration that extends the run. *)
LEMMA PlanExtendStep ==
    ASSUME Inv, PlanExtend
    PROVE  Inv'
<1> USE DEF Inv
<1>1. /\ stage = "plan" /\ plan.i < Len(kvs) /\ Contiguous(plan.i)
      /\ plan' = [plan EXCEPT !.i = @ + 1]
      /\ UNCHANGED <<req, kvs, indexed, stage, sub, futs, buf, bad, chk, result>>
  BY DEF PlanExtend
<1>2. plan \in [i : Nat, start : Nat, reads : Seq(Piece)] /\ Len(kvs) \in Nat
  BY DEF TypeInv
<1>3. /\ plan'.i = plan.i + 1 /\ plan'.start = plan.start /\ plan'.reads = plan.reads
      /\ plan' \in [i : Nat, start : Nat, reads : Seq(Piece)]
  BY <1>1, <1>2
<1>4. PICK i, s : i = plan.i /\ s = plan.start /\ i \in Nat /\ s \in Nat
  BY <1>2
<1>5. TypeInv' /\ EntriesInv' /\ SubmitInv' /\ VerifyInv'
  <2>1. TypeInv' /\ EntriesInv'
    BY <1>1, <1>3 DEF TypeInv, EntriesInv, Ends
  <2>2. SubmitInv'
    BY <1>1, <1>3 DEF SubmitInv, End, Placed, Mapped, Planning
  <2>3. VerifyInv'
    BY <1>1 DEF VerifyInv
  <2> QED BY <2>1, <2>2, <2>3
<1>6. /\ s >= 1 /\ s <= i /\ (s = i => i = 1)
      /\ \A j \in s .. i - 1 : Within(j, kvs[s], j - s)
  BY <1>1, <1>4 DEF PlanInv, Planning
<1>a. s \in 1 .. Len(kvs) /\ i \in s .. Len(kvs)
  BY <1>1, <1>2, <1>4, <1>6
<1>7. Within(i, kvs[s], i - s)
  BY <1>1, <1>4, <1>6, <1>a, RunGrows
<1>8. \A j \in s .. i : Within(j, kvs[s], j - s)
  BY <1>4, <1>6, <1>7
<1>9. Planned' = Planned /\ Planned = s - 1
  BY <1>1, <1>2, <1>3, <1>4 DEF Planned
<1>10. Covers(plan.reads, Planned)'
  BY <1>1, <1>3, <1>9, CoversKept DEF PlanInv
<1>11. \A j \in s .. i : Within(j, kvs[s], j - s)'
  BY <1>1, <1>4, <1>8 DEF Within
<1>12. PlanInv'
  BY <1>1, <1>2, <1>3, <1>4, <1>6, <1>10, <1>11 DEF PlanInv, Planning
<1> QED BY <1>5, <1>12

(* generate_blkids_to_read: an iteration that ends the run.                  *)
LEMMA PlanCutStep ==
    ASSUME Inv, PlanCut
    PROVE  Inv'
<1> USE DEF Inv
<1>1. /\ stage = "plan" /\ plan.i <= Len(kvs) /\ ~(Contiguous(plan.i) /\ plan.i < Len(kvs))
      /\ UNCHANGED <<req, kvs, indexed, stage, sub, futs, buf, bad, chk, result>>
  BY DEF PlanCut
<1>2. plan \in [i : Nat, start : Nat, reads : Seq(Piece)] /\ Len(kvs) \in Nat
  BY DEF TypeInv
<1>3. PICK i, s, Q : i = plan.i /\ s = plan.start /\ Q = plan.reads
  OBVIOUS
<1>4. i \in Nat /\ s \in Nat /\ Q \in Seq(Piece)
  BY <1>2, <1>3
<1>5. /\ s >= 1 /\ s <= i /\ (s = i => i = 1) /\ Covers(Q, s - 1)
      /\ \A j \in s .. i - 1 : Within(j, kvs[s], j - s)
  BY <1>1, <1>3 DEF PlanInv, Planned, Planning
<1>6. s \in 1 .. Len(kvs) /\ i \in s .. Len(kvs)
  BY <1>1, <1>2, <1>3, <1>4, <1>5
<1>b. PICK c : c = IF Contiguous(i) THEN 1 ELSE 0
  OBVIOUS
<1>c. PICK last : last = IF ~Contiguous(i) /\ i = Len(kvs) THEN <<Run(i, 1)>> ELSE <<>>
  OBVIOUS
<1>a. plan' = [i |-> i + 1, start |-> i, reads |-> Append(Q, Run(s, i - s + c)) \o last]
  BY <1>3, <1>b, <1>c DEF PlanCut
<1>7. \E Q2 \in Seq(Piece) :
          /\ plan' = [i |-> i + 1, start |-> i, reads |-> Q2]
          /\ Covers(Q2, IF i < Len(kvs) THEN i - 1 ELSE Len(kvs))
          /\ i = Len(kvs) \/ s < i
  <2>1. CASE Contiguous(i)
    <3>1. i = Len(kvs)
      BY <1>1, <1>2, <1>3, <1>4, <2>1
    <3>2. Within(i, kvs[s], i - s)
      BY <1>1, <1>3, <1>4, <1>5, <1>6, <2>1, RunGrows
    <3>3. \A j \in s .. i : Within(j, kvs[s], j - s)
      BY <1>4, <1>5, <3>2
    <3>4. PICK Q2 : Q2 = Append(Q, Run(s, i - s + 1))
      OBVIOUS
    <3>5. Q2 \in Seq(Piece) /\ Covers(Q2, i)
      BY <1>4, <1>5, <1>6, <3>3, <3>4, CoverExtends
    <3>6. plan' = [i |-> i + 1, start |-> i, reads |-> Q2]
      <4>1. plan' = [i |-> i + 1, start |-> i,
                     reads |-> Append(Q, Run(s, i - s + 1)) \o <<>>]
        <5>1. c = 1 /\ last = <<>>
          BY <1>b, <1>c, <2>1
        <5> QED BY <1>a, <5>1
      <4>2. Q2 \o <<>> = Q2
        BY <3>5
      <4> QED BY <3>4, <4>1, <4>2
    <3> QED BY <3>1, <3>5, <3>6
  <2>2. CASE ~Contiguous(i)
    <3>1. i > 1 /\ s < i
      BY <1>4, <1>5, <2>2 DEF Contiguous
    <3>2. PICK Q1 : Q1 = Append(Q, Run(s, i - s))
      OBVIOUS
    <3>3. Q1 \in Seq(Piece) /\ Covers(Q1, i - 1)
      <4>1. i - 1 \in s .. Len(kvs) /\ (i - 1) - s + 1 = i - s
        BY <1>4, <1>6, <3>1
      <4> QED BY <1>4, <1>5, <1>6, <3>2, <4>1, CoverExtends
    <3>4. CASE i < Len(kvs)
      <4>1. plan' = [i |-> i + 1, start |-> i, reads |-> Append(Q, Run(s, i - s + 0)) \o <<>>]
        <5>1. c = 0 /\ last = <<>>
          BY <1>2, <1>4, <1>b, <1>c, <2>2, <3>4
        <5> QED BY <1>a, <5>1
      <4>2. Q1 \o <<>> = Q1 /\ i - s + 0 = i - s
        BY <1>4, <3>3
      <4> QED BY <3>1, <3>2, <3>3, <3>4, <4>1, <4>2
    <3>5. CASE i = Len(kvs)
      <4>1. plan' = [i |-> i + 1, start |-> i,
                     reads |-> Append(Q, Run(s, i - s + 0)) \o <<Run(i, 1)>>]
        BY <1>a, <1>b, <1>c, <2>2, <3>5
      <4>2. i \in 1 .. Len(kvs) /\ i \in i .. Len(kvs) /\ i - i + 1 = 1 /\ i - s + 0 = i - s
        BY <1>4, <1>6, <3>1
      <4>3. \A j \in i .. i : Within(j, kvs[i], j - i)
        BY <4>2, <1>4, <1>5, WithinSelf
      <4>4. PICK Q2 : Q2 = Append(Q1, Run(i, 1))
        OBVIOUS
      <4>5. Q2 \in Seq(Piece) /\ Covers(Q2, i)
        BY <3>3, <4>2, <4>3, <4>4, CoverExtends
      <4>6. Q1 \o <<Run(i, 1)>> = Q2
        <5>1. PICK x : x = Run(i, 1)
          OBVIOUS
        <5>2. Q1 \o <<x>> = Append(Q1, x)
          BY <3>3
        <5> QED BY <4>4, <5>1, <5>2
      <4>7. plan' = [i |-> i + 1, start |-> i, reads |-> Q2]
        BY <3>2, <4>1, <4>2, <4>6
      <4>8. Covers(Q2, IF i < Len(kvs) THEN i - 1 ELSE Len(kvs))
        BY <1>2, <3>5, <4>5
      <4> QED BY <3>5, <4>5, <4>7, <4>8
    <3> QED BY <1>4, <1>6, <3>4, <3>5
  <2> QED BY <2>1, <2>2
<1>8. PICK Q2 \in Seq(Piece) :
          /\ plan' = [i |-> i + 1, start |-> i, reads |-> Q2]
          /\ Covers(Q2, IF i < Len(kvs) THEN i - 1 ELSE Len(kvs))
          /\ i = Len(kvs) \/ s < i
  BY <1>7
<1>9. /\ plan'.i = i + 1 /\ plan'.start = i /\ plan'.reads = Q2
      /\ plan' \in [i : Nat, start : Nat, reads : Seq(Piece)]
  BY <1>4, <1>8
<1>10. TypeInv' /\ EntriesInv'
  BY <1>1, <1>9 DEF TypeInv, EntriesInv, Ends
<1>11. Planned' = IF i < Len(kvs) THEN i - 1 ELSE Len(kvs)
  BY <1>1, <1>2, <1>4, <1>6, <1>9 DEF Planned
<1>12. PlanInv'
  <2>1. Covers(plan.reads, Planned)'
    BY <1>1, <1>8, <1>9, <1>11 DEF Covers, Within, Few
  <2>2. \A j \in i .. i : Within(j, kvs[i], j - i)'
    BY <1>1, <1>4, <1>6, WithinSelf DEF Within
  <2>3. \A j \in i .. i + 1 - 1 : Within(j, kvs[i], j - i)'
    BY <1>4, <2>2
  <2>4. i >= 1 /\ i + 1 <= Len(kvs) + 1 /\ i <= i + 1 /\ i # i + 1
    BY <1>2, <1>4, <1>6
  <2>5. \A j \in plan'.start .. plan'.i - 1 : Within(j, kvs[plan.start], j - plan.start)'
    BY <1>9, <2>3
  <2> QED BY ONLY <1>1, <1>9, <2>1, <2>4, <2>5 DEF PlanInv, Planning
<1>13. SubmitInv'
  <2>1. /\ sub.i = 1 /\ futs = {} /\ sub.off = 0 /\ End = req.lo /\ End <= req.hi + 1
        /\ Tracks(sub.lba + sub.nblks, End) /\ stage' = "plan" /\ req.lo \in Nat
    <3>1. req.lo \in Nat
      BY DEF TypeInv
    <3>2. /\ sub.i = 1 /\ futs = {} /\ sub.off = 0 /\ End <= req.hi + 1
          /\ Tracks(sub.lba + sub.nblks, End) /\ stage' = "plan"
      BY <1>1 DEF SubmitInv, Planning
    <3>3. End = req.lo
      BY <3>1, <3>2 DEF End
    <3> QED BY <3>1, <3>2, <3>3
  <2>2. \A m \in 1 .. Len(plan'.reads) : req.lo <= plan'.reads[m].lba
    <3>1. Planned' \in 0 .. Len(kvs')
      BY <1>1, <1>2, <1>4, <1>6, <1>11
    <3>2. Covers(plan.reads, Planned)'
      BY <1>12 DEF PlanInv
    <3>3. (\A k \in 0 .. Len(kvs), m \in 1 .. Len(plan.reads) :
              TypeInv /\ EntriesInv /\ Covers(plan.reads, k) => req.lo <= plan.reads[m].lba)'
      BY ReadsFrom, PTL
    <3> QED BY <1>1, <1>10, <3>1, <3>2, <3>3
  <2>3. End' = End /\ sub' = sub /\ futs' = {} /\ req' = req
    BY <1>1, <2>1 DEF End
  <2>4. {Placed(m) : m \in 1 .. sub.i - 1}' = {}
    BY <2>1, <2>3
  <2>5. sub'.i \in 1 .. Len(plan'.reads) + 1
    BY <1>9, <2>1, <2>3
  <2>6. Tracks(sub.lba + sub.nblks, End)' /\ Planning'
    BY <2>1, <2>3 DEF Tracks, Planning
  <2> QED BY <2>1, <2>2, <2>3, <2>4, <2>5, <2>6 DEF SubmitInv
<1>14. VerifyInv'
  BY <1>1 DEF VerifyInv
<1> QED BY <1>10, <1>12, <1>13, <1>14

(* The end of the planning, and a read that fails: only the stage moves. *)
LEMMA PlanDoneStep ==
    ASSUME Inv, PlanDone
    PROVE  Inv'
<1> USE DEF Inv
<1>1. /\ stage = "plan" /\ plan.i > Len(kvs) /\ stage' = "submit"
      /\ UNCHANGED <<req, kvs, indexed, plan, sub, futs, buf, bad, chk, result>>
  BY DEF PlanDone
<1>2. TypeInv' /\ EntriesInv'
  BY <1>1 DEF TypeInv, EntriesInv, Ends
<1>3. PlanInv'
  <2>1. Covers(plan.reads, Planned)'
    <3>1. Planned' = Planned
      BY <1>1 DEF Planned
    <3> QED BY <1>1, <3>1, CoversKept DEF PlanInv
  <2> QED BY <1>1, <2>1 DEF PlanInv, Planning
<1>4. SubmitInv'
  BY <1>1 DEF SubmitInv, End, Placed, Mapped, Planning
<1>5. VerifyInv'
  BY <1>1 DEF VerifyInv
<1> QED BY <1>2, <1>3, <1>4, <1>5

(* After the planning, every entry is in a read. *)
LEMMA AllCovered ==
    ASSUME TypeInv, PlanInv, stage \in {"submit", "wait", "verify"}
    PROVE  Covers(plan.reads, Len(kvs)) /\ Len(kvs) \in 0 .. Len(kvs)
<1>1. plan.i \in Nat /\ Len(kvs) \in Nat /\ plan.i > Len(kvs)
  BY DEF TypeInv, PlanInv
<1>2. Planned = Len(kvs)
  BY <1>1 DEF Planned
<1> QED BY <1>1, <1>2 DEF PlanInv

(* After the planning, a step that leaves the plan alone keeps its invariant. *)
LEMMA PlanKept ==
    ASSUME PlanInv, stage \in {"submit", "wait", "verify"}, ~Planning', UNCHANGED <<kvs, plan>>
    PROVE  PlanInv'
<1>0. Planned' = Planned
  BY DEF Planned
<1>1. Covers(plan.reads, Planned)'
  BY <1>0, CoversKept DEF PlanInv
<1> QED BY <1>1 DEF PlanInv

(* submit_read_to_backend: what the sum of prev_lba and prev_nblks, narrowed *)
(* to 32 bits, is of the lba that the buffer is done up to.                  *)
LEMMA PrevEndTracks ==
    ASSUME TypeInv, SubmitInv, stage = "submit"
    PROVE  End \in Nat /\ PrevEnd \in Nat /\ PrevEnd <= End /\ Tracks(PrevEnd, End)
<1>1. PICK x : x = sub.lba + sub.nblks
  OBVIOUS
<1>2. x \in Nat /\ End \in Nat /\ U32 \in Nat \ {0}
  <2>1. req.lo \in Nat /\ sub.lba \in Nat /\ sub.nblks \in Nat /\ sub.off \in Nat
    BY DEF TypeInv
  <2> QED BY <1>1, <2>1, SizeAssumption DEF End
<1>3. x = End \/ x <= End - U32
  BY <1>1 DEF SubmitInv, Tracks
<1>4. PICK y, e : y = x % U32 /\ e = End
  OBVIOUS
<1>5. y \in Nat /\ (x < U32 => y = x) /\ (x >= U32 => y <= x - U32)
  BY <1>2, <1>4, Narrowed
<1>6. y <= e /\ (y = e \/ y <= e - U32)
  <2>1. /\ x \in Nat /\ e \in Nat /\ U32 \in Nat \ {0} /\ y \in Nat /\ (x = e \/ x <= e - U32)
        /\ (x < U32 => y = x) /\ (x >= U32 => y <= x - U32)
    BY <1>2, <1>3, <1>4, <1>5
  <2> QED BY ONLY <2>1
<1>7. PrevEnd = y
  BY <1>1, <1>4 DEF PrevEnd
<1> QED BY <1>2, <1>4, <1>5, <1>6, <1>7 DEF Tracks

(* submit_read_to_backend: one read, after the hole before it. *)
LEMMA SubmitReadStep ==
    ASSUME Inv, SubmitRead
    PROVE  Inv'
<1> USE DEF Inv
<1>1. PICK r : r = plan.reads[sub.i]
  OBVIOUS
<1>2. PICK h : h = ReadHoles
  OBVIOUS
<1>3. /\ stage = "submit" /\ sub.i <= Len(plan.reads)
      /\ buf' = Zeroed(h)
      /\ futs' = futs \cup {[off |-> sub.off + h, read |-> r]}
      /\ sub' = [i |-> sub.i + 1, lba |-> r.lba % U32, nblks |-> r.n, off |-> sub.off + h + r.n]
      /\ sub.off + h + r.n <= req.hi - req.lo + 1
      /\ UNCHANGED <<req, kvs, indexed, stage, plan, bad, chk, result>>
  BY <1>1, <1>2 DEF SubmitRead, Reach, Nlbas
<1>4. /\ sub \in [i : Nat, lba : Nat, nblks : Nat, off : Nat] /\ Len(plan.reads) \in Nat
      /\ req.lo \in Nat /\ req.hi \in Nat /\ req.hi - req.lo + 1 < U32
      /\ sub.i \in 1 .. Len(plan.reads) + 1
  BY DEF TypeInv, SubmitInv
<1>5. PICK i : i = sub.i /\ i \in 1 .. Len(plan.reads)
  BY <1>3, <1>4
<1>6. Covers(plan.reads, Len(kvs)) /\ Len(kvs) \in 0 .. Len(kvs)
  BY <1>3, AllCovered
<1>7. /\ r.lba \in Nat /\ r.n \in Nat
      /\ req.lo <= r.lba /\ r.lba + r.n <= req.hi + 1
  BY <1>1, <1>5, <1>6, ReadInRange
<1>8. End \in Nat /\ PrevEnd \in Nat /\ Tracks(PrevEnd, End)
  BY <1>3, PrevEndTracks
<1>9. PICK e, lo, hi, a, n, o, w : /\ e = End /\ lo = req.lo /\ hi = req.hi /\ a = r.lba
                                    /\ n = r.n /\ o = sub.off /\ w = PrevEnd
  OBVIOUS
<1>a. /\ e \in Nat /\ lo \in Nat /\ hi \in Nat /\ a \in Nat /\ n \in Nat /\ o \in Nat
      /\ w \in Nat /\ lo <= a /\ a + n <= hi + 1 /\ hi - lo + 1 < U32 /\ U32 \in Nat \ {0}
      /\ e = lo + o /\ (w = e \/ w <= e - U32)
  BY <1>4, <1>7, <1>8, <1>9, SizeAssumption DEF End, Tracks
<1>10. /\ e <= a
       /\ \A p \in i .. Len(plan.reads) : e <= plan.reads[p].lba
       /\ \A l \in lo .. e - 1 : ~Mapped(l) => buf[l - lo] = Zero
  <2>1. /\ \A p \in i .. Len(plan.reads) : e <= plan.reads[p].lba
        /\ \A l \in lo .. e - 1 : ~Mapped(l) => buf[l - lo] = Zero
    BY <1>3, <1>5, <1>9 DEF SubmitInv
  <2>2. e <= plan.reads[i].lba
    BY <1>5, <2>1
  <2> QED BY <1>1, <1>5, <1>9, <2>1, <2>2
<1>11. h = a - e /\ h \in Nat /\ o + h = a - lo /\ o + h + n = a + n - lo
  <2>1. h = a - w
    BY <1>1, <1>2, <1>9 DEF ReadHoles
  <2>2. o + h + n <= hi - lo + 1 /\ e <= a
    BY <1>3, <1>9, <1>10
  <2>3. w = e
    BY ONLY <1>a, <2>1, <2>2
  <2> QED BY ONLY <1>a, <2>1, <2>2, <2>3
<1>b. PICK b : b = a % U32
  OBVIOUS
<1>12. b \in Nat /\ Tracks(b + n, a + n)
  <2>1. b \in Nat /\ (a < U32 => b = a) /\ (a >= U32 => b <= a - U32)
    BY <1>a, <1>b, Narrowed
  <2>2. b + n = a + n \/ b + n <= a + n - U32
    BY ONLY <1>a, <2>1
  <2>3. PICK y, z : y = b + n /\ z = a + n
    OBVIOUS
  <2>4. Tracks(y, z)
    BY <1>a, <2>1, <2>2, <2>3 DEF Tracks
  <2> QED BY <2>1, <2>3, <2>4
<1>13. /\ sub'.i = i + 1 /\ sub'.lba = b /\ sub'.nblks = n /\ sub'.off = a + n - lo
       /\ sub' \in [i : Nat, lba : Nat, nblks : Nat, off : Nat]
  <2>1. sub' = [i |-> i + 1, lba |-> b, nblks |-> n, off |-> a + n - lo]
    <3>1. sub' = [i |-> i + 1, lba |-> b, nblks |-> n, off |-> o + h + n]
      BY <1>3, <1>5, <1>9, <1>b
    <3> QED BY <1>11, <3>1
  <2>2. a + n - lo \in Nat /\ i + 1 \in Nat
    <3>1. a + n - lo \in Nat
      BY ONLY <1>a
    <3> QED BY <1>4, <1>5, <3>1
  <2> QED BY <1>a, <1>12, <2>1, <2>2
<1>14. TypeInv' /\ EntriesInv'
  <2>1. DOMAIN buf' = DOMAIN buf
    BY <1>3 DEF Zeroed
  <2> QED BY <1>3, <1>13, <2>1 DEF TypeInv, EntriesInv, Ends
<1>15. PlanInv'
  BY <1>3, PlanKept DEF Planning
<1>16. SubmitInv'
  <2>1. End' = a + n
    <3>1. End' = lo + (a + n - lo)
      BY <1>3, <1>9, <1>13 DEF End
    <3> QED BY ONLY <1>a, <3>1
  <2>2. futs' = {Placed(m) : m \in 1 .. sub.i - 1}'
    <3>1. futs = {Placed(m) : m \in 1 .. i - 1}
      BY <1>5 DEF SubmitInv
    <3>2. [off |-> sub.off + h, read |-> r] = Placed(i)
      BY <1>1, <1>5, <1>9, <1>11 DEF Placed
    <3>3. \A m \in 1 .. Len(plan.reads) : Placed(m)' = Placed(m)
      BY <1>3 DEF Placed
    <3>4. 1 .. sub'.i - 1 = (1 .. i - 1) \cup {i}
      <4>1. i \in Nat /\ i >= 1
        BY <1>4, <1>5
      <4>2. 1 .. (i + 1) - 1 = (1 .. i - 1) \cup {i}
        BY ONLY <4>1
      <4> QED BY <1>13, <4>2
    <3>5. {Placed(m) : m \in (1 .. i - 1) \cup {i}} = futs \cup {Placed(i)}
      BY <3>1
    <3>6. {Placed(m) : m \in 1 .. sub.i - 1}' = {Placed(m) : m \in (1 .. i - 1) \cup {i}}
      BY <1>3, <3>4 DEF Placed
    <3> QED BY <1>3, <3>2, <3>5, <3>6
  <2>3. ASSUME NEW p \in i + 1 .. Len(plan.reads) PROVE a + n <= plan.reads[p].lba
    <3>1. p \in 1 .. Len(plan.reads) /\ i < p
      BY <1>4, <1>5
    <3>2. plan.reads[i].lba + plan.reads[i].n <= plan.reads[p].lba
      BY <1>5, <1>6, <3>1 DEF Covers
    <3> QED BY <1>1, <1>5, <1>9, <3>2
  <2>4. ASSUME NEW l \in lo .. a + n - 1, ~Mapped(l)
        PROVE  buf'[l - lo] = Zero
    <3>0. l \in Nat /\ l - lo \in DOMAIN buf
      <4>1. DOMAIN buf = 0 .. hi - lo
        BY <1>9 DEF TypeInv
      <4>2. l \in Nat /\ l - lo \in 0 .. hi - lo
        BY <1>a
      <4> QED BY <4>1, <4>2
    <3>1. buf'[l - lo] = IF l - lo \in o .. o + h - 1 THEN Zero ELSE buf[l - lo]
      BY <1>3, <1>9, <3>0 DEF Zeroed
    <3>2. CASE l < e
      <4>1. l \in lo .. e - 1
        BY <1>a, <3>2
      <4>2. buf[l - lo] = Zero
        BY <1>10, <2>4, <4>1
      <4> QED BY <3>1, <4>2
    <3>3. CASE e <= l /\ l < a
      <4>1. l - lo \in o .. o + h - 1
        BY <1>a, <1>11, <3>0, <3>3
      <4> QED BY <3>1, <4>1
    <3>4. CASE a <= l
      <4>1. PICK d : d = l - a
        OBVIOUS
      <4>2. d \in 0 .. n - 1 /\ l = a + d
        BY <1>a, <3>0, <3>4, <4>1
      <4>3. PICK j \in 1 .. Len(kvs) : Within(j, r, d)
        BY <1>1, <1>5, <1>6, <1>9, <4>2 DEF Covers
      <4>4. Mapped(l)
        BY <1>9, <4>2, <4>3 DEF Mapped, Within
      <4> QED BY <2>4, <4>4
    <3> QED BY <1>a, <3>0, <3>2, <3>3, <3>4
  <2>5. \A l \in req'.lo .. End' - 1 : ~Mapped(l)' => buf'[l - req'.lo] = Zero
    <3>1. \A l : Mapped(l)' <=> Mapped(l)
      BY <1>3 DEF Mapped
    <3>2. req'.lo = lo
      BY <1>3, <1>9
    <3>3. \A l \in lo .. a + n - 1 : ~Mapped(l)' => buf'[l - lo] = Zero
      BY <2>4, <3>1
    <3>4. req'.lo .. End' - 1 = lo .. a + n - 1
      BY <1>a, <2>1, <3>2
    <3> QED BY <3>2, <3>3, <3>4
  <2>6. sub'.i \in 1 .. Len(plan'.reads) + 1 /\ stage' = "submit" /\ ~Planning'
    <3>1. sub'.i = i + 1 /\ plan' = plan /\ stage' = "submit" /\ Len(plan.reads) \in Nat
      BY <1>3, <1>4, <1>13
    <3>2. i + 1 \in 1 .. Len(plan.reads) + 1
      BY <1>4, <1>5
    <3> QED BY <3>1, <3>2 DEF Planning
  <2>8. End' <= req'.hi + 1 /\ Tracks(sub.lba + sub.nblks, End)'
    <3>1. End' <= req'.hi + 1
      BY <1>3, <1>9, <1>a, <2>1
    <3>2. sub'.lba + sub'.nblks = b + n
      BY <1>13
    <3> QED BY <1>12, <2>1, <3>1, <3>2 DEF Tracks
  <2>7. \A p \in sub'.i .. Len(plan'.reads) : End' <= plan'.reads[p].lba
    BY <1>3, <1>13, <2>1, <2>3
  <2> QED BY <2>2, <2>5, <2>6, <2>7, <2>8 DEF SubmitInv
<1>17. VerifyInv'
  BY <1>3 DEF VerifyInv
<1> QED BY <1>14, <1>15, <1>16, <1>17

(* submit_read_to_backend: the hole at the end of the range. *)
LEMMA SubmitTailStep ==
    ASSUME Inv, SubmitTail
    PROVE  Inv'
<1> USE DEF Inv
<1>1. PICK h : h = TailHoles
  OBVIOUS
<1>a. ~(sub.i <= Len(plan.reads))
  BY DEF SubmitTail, TypeInv
<1>2. /\ stage = "submit" /\ sub.i > Len(plan.reads)
      /\ buf' = Zeroed(h)
      /\ sub' = [sub EXCEPT !.off = sub.off + h] /\ sub.off + h <= req.hi - req.lo + 1
      /\ stage' = (IF kvs = <<>> THEN "done" ELSE "wait")
      /\ result' = (IF kvs = <<>> THEN "ok" ELSE result)
      /\ UNCHANGED <<req, kvs, indexed, plan, futs, bad, chk>>
  BY <1>1, <1>a DEF SubmitTail, Reach, Nlbas
<1>3. /\ sub \in [i : Nat, lba : Nat, nblks : Nat, off : Nat] /\ Len(plan.reads) \in Nat
      /\ sub.i \in 1 .. Len(plan.reads) + 1
  BY DEF TypeInv, SubmitInv
<1>4. PICK e, lo, hi, o, w : e = End /\ lo = req.lo /\ hi = req.hi /\ o = sub.off /\ w = PrevEnd
  OBVIOUS
<1>5. w \in Nat /\ e \in Nat /\ w <= e /\ (w = e \/ w <= e - U32)
  BY <1>2, <1>4, PrevEndTracks DEF Tracks
<1>6. /\ lo \in Nat /\ hi \in Nat /\ lo <= hi /\ o \in Nat /\ U32 \in Nat \ {0}
      /\ hi - lo + 1 < U32 /\ e = lo + o
  BY <1>3, <1>4, SizeAssumption DEF TypeInv, End
<1>7. /\ e <= hi + 1
      /\ \A l \in lo .. e - 1 : ~Mapped(l) => buf[l - lo] = Zero
  BY <1>2, <1>4 DEF SubmitInv
<1>8. h = hi + 1 - e /\ h \in Nat
  <2>1. h = IF w < hi + 1 THEN hi + 1 - w ELSE 0
    BY <1>1, <1>4 DEF TailHoles
  <2>2. o + h <= hi - lo + 1 /\ e <= hi + 1
    BY <1>2, <1>4, <1>7
  <2>3. w = e
    BY ONLY <1>5, <1>6, <2>1, <2>2
  <2> QED BY ONLY <1>5, <1>6, <2>1, <2>2, <2>3
<1>9. /\ sub'.i = sub.i /\ sub'.lba = sub.lba /\ sub'.nblks = sub.nblks
      /\ sub' \in [i : Nat, lba : Nat, nblks : Nat, off : Nat]
  <2>1. PICK x : x = o + h /\ x \in Nat
    BY <1>6, <1>8
  <2>2. sub' = [sub EXCEPT !.off = x]
    BY <1>2, <1>4, <2>1
  <2> QED BY <1>3, <2>1, <2>2
<1>10. DOMAIN buf' = DOMAIN buf /\ DOMAIN buf = 0 .. hi - lo
  BY <1>2, <1>4 DEF Zeroed, TypeInv
<1>11. TypeInv' /\ EntriesInv'
  BY <1>2, <1>9, <1>10 DEF TypeInv, EntriesInv, Ends
<1>12. PlanInv'
  BY <1>2, PlanKept DEF Planning
<1>13. \A l : Mapped(l)' <=> Mapped(l)
  BY <1>2 DEF Mapped
<1>14. ASSUME NEW l \in lo .. hi, ~Mapped(l)
       PROVE  buf'[l - lo] = Zero
  <2>1. l \in Nat /\ l - lo \in DOMAIN buf
    BY <1>6, <1>10
  <2>2. buf'[l - lo] = IF l - lo \in o .. o + h - 1 THEN Zero ELSE buf[l - lo]
    BY <1>2, <1>4, <2>1 DEF Zeroed
  <2>3. CASE l < e
    <3>1. l \in lo .. e - 1
      BY <1>5, <1>6, <2>1, <2>3
    <3> QED BY <1>7, <1>14, <2>2, <3>1
  <2>4. CASE e <= l
    <3>1. l - lo \in o .. o + h - 1
      BY <1>5, <1>6, <1>7, <1>8, <2>1, <2>4
    <3> QED BY <2>2, <3>1
  <2> QED BY <1>5, <2>1, <2>3, <2>4
<1>15. \A l \in Ends' : ~Mapped(l)' => buf'[l - req'.lo] = Zero
  <2>1. Ends' = lo .. hi /\ req'.lo = lo
    BY <1>2, <1>4 DEF Ends
  <2> QED BY <1>13, <1>14, <2>1
<1>16. SubmitInv'
  <2>1. sub'.i \in 1 .. Len(plan'.reads) + 1 /\ sub'.i = Len(plan'.reads) + 1
    BY <1>2, <1>3, <1>9
  <2>2. futs' = {Placed(m) : m \in 1 .. sub.i - 1}'
    <3>1. futs = {Placed(m) : m \in 1 .. sub.i - 1}
      BY DEF SubmitInv
    <3>2. {Placed(m) : m \in 1 .. sub.i - 1}' = {Placed(m) : m \in 1 .. sub.i - 1}
      BY <1>2, <1>9 DEF Placed
    <3> QED BY <1>2, <3>1, <3>2
  <2>3. stage' \in {"wait", "done"}
    BY <1>2
  <2> QED BY <1>15, <2>1, <2>2, <2>3 DEF SubmitInv, Planning
<1>17. VerifyInv'
  <2>1. chk.i = 1 /\ chk.lba = req.lo /\ bad = {} /\ result = "none"
    BY <1>2 DEF VerifyInv
  <2>2. CASE kvs = <<>>
    <3>1. stage' = "done" /\ result' = "ok" /\ Len(kvs') = 0
      BY <1>2, <2>2
    <3>2. Holes' /\ Matched(Len(kvs))'
      BY <1>15, <3>1 DEF Holes, Matched
    <3> QED BY <1>2, <2>1, <3>1, <3>2 DEF VerifyInv
  <2>3. CASE kvs # <<>>
    <3>1. stage' = "wait" /\ result' = "none"
      BY <1>2, <2>1, <2>3
    <3> QED BY <1>2, <2>1, <3>1 DEF VerifyInv
  <2> QED BY <2>2, <2>3
<1> QED BY <1>11, <1>12, <1>16, <1>17

(* A step after the submission that leaves the reads alone keeps what is     *)
(* known of them.                                                            *)
LEMMA SubmitKept ==
    ASSUME SubmitInv, stage \in {"wait", "verify", "done"}, stage' \in {"verify", "done"},
           UNCHANGED <<req, plan, sub, futs>>
    PROVE  SubmitInv'
<1>1. {Placed(m) : m \in 1 .. sub.i - 1}' = {Placed(m) : m \in 1 .. sub.i - 1}
  BY DEF Placed
<1> QED BY <1>1 DEF SubmitInv, Planning

(* submit_read_to_backend leaves the buffer only for lbas that do not fit.   *)
LEMMA OverrunStep ==
    ASSUME Inv, Overrun
    PROVE  Inv'
<1> USE DEF Inv
<1>1. /\ stage = "submit" /\ stage' = "overrun" /\ Reach > req.hi - req.lo + 1
      /\ UNCHANGED <<req, kvs, indexed, plan, sub, futs, buf, bad, chk, result>>
  BY DEF Overrun, Nlbas
<1>2. TypeInv' /\ EntriesInv' /\ PlanInv'
  BY <1>1, PlanKept DEF TypeInv, EntriesInv, Ends, Planning
<1>3. PICK e, lo, hi, o, w : e = End /\ lo = req.lo /\ hi = req.hi /\ o = sub.off /\ w = PrevEnd
  OBVIOUS
<1>4. /\ w \in Nat /\ e \in Nat /\ (w = e \/ w <= e - U32) /\ lo \in Nat /\ hi \in Nat
      /\ o \in Nat /\ e = lo + o /\ e <= hi + 1 /\ U32 \in Nat
  <2>1. w \in Nat /\ e \in Nat /\ (w = e \/ w <= e - U32)
    BY <1>1, <1>3, PrevEndTracks DEF Tracks
  <2>2. e <= hi + 1
    BY <1>1, <1>3 DEF SubmitInv
  <2>3. lo \in Nat /\ hi \in Nat /\ o \in Nat /\ e = lo + o
    BY <1>3 DEF TypeInv, End
  <2> QED BY <2>1, <2>2, <2>3, SizeAssumption
<1>5. hi + 1 >= U32
  <2>1. SUFFICES ASSUME hi + 1 < U32 PROVE FALSE
    BY <1>4
  <2>2. w = e
    BY ONLY <1>4, <2>1
  <2>3. CASE sub.i <= Len(plan.reads)
    <3>1. PICK i : i = sub.i /\ i \in 1 .. Len(plan.reads)
      BY <2>3 DEF SubmitInv, TypeInv
    <3>2. Covers(plan.reads, Len(kvs)) /\ Len(kvs) \in 0 .. Len(kvs)
      BY <1>1, AllCovered
    <3>3. PICK a, n : a = plan.reads[i].lba /\ n = plan.reads[i].n
      OBVIOUS
    <3>4. a \in Nat /\ n \in Nat /\ a + n <= hi + 1
      BY <1>3, <3>1, <3>2, <3>3, ReadInRange
    <3>5. o + (a - w) + n > hi - lo + 1
      BY <1>1, <1>3, <2>3, <3>1, <3>3 DEF Reach, ReadHoles
    <3> QED BY ONLY <1>4, <2>2, <3>4, <3>5
  <2>4. CASE ~(sub.i <= Len(plan.reads))
    <3>1. o + (IF w < hi + 1 THEN hi + 1 - w ELSE 0) > hi - lo + 1
      BY <1>1, <1>3, <2>4 DEF Reach, TailHoles
    <3> QED BY ONLY <1>4, <2>2, <3>1
  <2> QED BY <2>3, <2>4
<1>6. SubmitInv'
  <2>1. {Placed(m) : m \in 1 .. sub.i - 1}' = {Placed(m) : m \in 1 .. sub.i - 1}
    BY <1>1 DEF Placed
  <2>2. req'.hi + 1 >= U32 /\ ~Planning'
    BY <1>1, <1>3, <1>5 DEF Planning
  <2> QED BY <1>1, <2>1, <2>2 DEF SubmitInv
<1>7. VerifyInv'
  BY <1>1 DEF VerifyInv
<1> QED BY <1>2, <1>6, <1>7

(* The data service fails: read() returns its error. *)
LEMMA ReadFailsStep ==
    ASSUME Inv, ReadFails
    PROVE  Inv'
<1> USE DEF Inv
<1>1. /\ stage = "wait" /\ stage' = "done" /\ result' = "io_error"
      /\ UNCHANGED <<req, kvs, indexed, plan, sub, futs, buf, bad, chk>>
  BY DEF ReadFails
<1>2. TypeInv' /\ EntriesInv' /\ PlanInv' /\ SubmitInv'
  BY <1>1, PlanKept, SubmitKept DEF TypeInv, EntriesInv, Ends, Planning
<1>3. VerifyInv'
  BY <1>1 DEF VerifyInv
<1> QED BY <1>2, <1>3

(* What the data service puts in the place of entry j. *)
LEMMA StoredIs ==
    ASSUME EntriesInv, bad' \in SUBSET (1 .. Len(kvs)), NEW j \in 1 .. Len(kvs)
    PROVE  Stored(kvs[j].at) = IF j \in bad' THEN Corrupt ELSE kvs[j].at
<1>1. (\E i \in bad' : kvs[i].at = kvs[j].at) <=> j \in bad'
  BY DEF EntriesInv
<1> QED BY <1>1 DEF Stored

(* A submitted read that covers position p of the buffer has, at p, the      *)
(* block of the entry for lba lo + p.                                        *)
LEMMA FutureIs ==
    ASSUME Inv, stage = "wait", NEW f \in futs, NEW p \in Nat,
           p \in f.off .. f.off + f.read.n - 1
    PROVE  \E j \in 1 .. Len(kvs) :
               /\ kvs[j].lba = req.lo + p
               /\ kvs[j].at = <<f.read.at[1], f.read.at[2] + p - f.off>>
<1> USE DEF Inv
<1>1. PICK m \in 1 .. Len(plan.reads) : f = Placed(m)
  BY DEF SubmitInv, TypeInv
<1>2. PICK r : r = plan.reads[m]
  OBVIOUS
<1>3. f.off = r.lba - req.lo /\ f.read = r
  BY <1>1, <1>2 DEF Placed
<1>4. Covers(plan.reads, Len(kvs)) /\ Len(kvs) \in 0 .. Len(kvs)
  BY AllCovered
<1>5. /\ r.lba \in Nat /\ r.n \in Nat /\ req.lo <= r.lba /\ r \in Piece
  BY <1>2, <1>4, ReadInRange
<1>6. PICK a, n, lo, o : a = r.lba /\ n = r.n /\ lo = req.lo /\ o = f.off
  OBVIOUS
<1>7. a \in Nat /\ n \in Nat /\ lo \in Nat /\ o = a - lo /\ lo <= a /\ p \in o .. o + n - 1
  BY <1>3, <1>5, <1>6 DEF TypeInv
<1>8. PICK d : d = p - o
  OBVIOUS
<1>9. d \in 0 .. n - 1 /\ a + d = lo + p /\ o \in Nat
  BY <1>7, <1>8
<1>10. PICK j \in 1 .. Len(kvs) : Within(j, r, d)
  BY <1>2, <1>4, <1>6, <1>9 DEF Covers
<1>11. kvs[j].lba = a + d /\ kvs[j].at = <<r.at[1], r.at[2] + d>>
  BY <1>6, <1>10 DEF Within
<1>12. PICK b : b = r.at[2] /\ b \in Nat
  BY <1>5, SizeAssumption DEF Piece, Block
<1>13. b + d = b + p - o
  BY <1>7, <1>8, <1>9, <1>12
<1>14. kvs[j].at = <<f.read.at[1], f.read.at[2] + p - f.off>>
  BY <1>3, <1>6, <1>11, <1>12, <1>13
<1> QED BY <1>6, <1>9, <1>11, <1>14

(* Every entry's place in the buffer is covered by a submitted read.         *)
LEMMA FutureFor ==
    ASSUME Inv, stage = "wait", Few, NEW j \in 1 .. Len(kvs)
    PROVE  \E f \in futs : kvs[j].lba - req.lo \in f.off .. f.off + f.read.n - 1
<1> USE DEF Inv
<1>1. Covers(plan.reads, Len(kvs)) /\ Len(kvs) \in 0 .. Len(kvs)
  BY AllCovered
<1>2. PICK m \in 1 .. Len(plan.reads) : \E d \in 0 .. plan.reads[m].n - 1 : Within(j, plan.reads[m], d)
  BY <1>1 DEF Covers
<1>3. PICK r : r = plan.reads[m]
  OBVIOUS
<1>4. PICK d \in 0 .. r.n - 1 : Within(j, r, d)
  BY <1>2, <1>3
<1>5. r.lba \in Nat /\ r.n \in Nat /\ req.lo <= r.lba
  BY <1>1, <1>3, ReadInRange
<1>6. PICK f : f = Placed(m)
  OBVIOUS
<1>7. f \in futs
  BY <1>6 DEF SubmitInv, TypeInv
<1>8. f.off = r.lba - req.lo /\ f.read = r
  BY <1>3, <1>6 DEF Placed
<1>9. PICK a, n, lo : a = r.lba /\ n = r.n /\ lo = req.lo
  OBVIOUS
<1>10. a \in Nat /\ n \in Nat /\ lo \in Nat /\ lo <= a /\ d \in 0 .. n - 1
  BY <1>5, <1>9 DEF TypeInv
<1>11. kvs[j].lba = a + d
  BY <1>4, <1>9 DEF Within
<1>12. (a + d) - lo \in a - lo .. (a - lo) + n - 1
  BY <1>10
<1> QED BY <1>7, <1>8, <1>9, <1>11, <1>12

(* The reads complete: every entry's block is in its place, and a hole is    *)
(* left as the submission zeroed it.                                         *)
LEMMA ReadsCompleteStep ==
    ASSUME Inv, ReadsComplete
    PROVE  Inv'
<1> USE DEF Inv
<1> DEFINE In(f, p) == p \in f.off .. f.off + f.read.n - 1
<1>1. /\ stage = "wait" /\ stage' = "verify" /\ bad' \in SUBSET (1 .. Len(kvs))
      /\ UNCHANGED <<req, kvs, indexed, plan, sub, futs, chk, result>>
  BY DEF ReadsComplete
<1>2. buf' = [p \in DOMAIN buf |->
                 IF \E f \in futs : In(f, p)
                 THEN LET f == CHOOSE f \in futs : In(f, p)
                      IN Stored(<<f.read.at[1], f.read.at[2] + p - f.off>>)
                 ELSE buf[p]]
  BY DEF ReadsComplete
<1>3. DOMAIN buf' = DOMAIN buf /\ DOMAIN buf = 0 .. req.hi - req.lo
  BY <1>2 DEF TypeInv
<1>4. TypeInv' /\ EntriesInv' /\ PlanInv' /\ SubmitInv'
  <2>1. TypeInv' /\ EntriesInv'
    BY <1>1, <1>3 DEF TypeInv, EntriesInv, Ends
  <2> QED BY <1>1, <2>1, PlanKept, SubmitKept DEF Planning
<1>5. PICK lo, hi : lo = req.lo /\ hi = req.hi
  OBVIOUS
<1>6. lo \in Nat /\ hi \in Nat /\ lo <= hi
  BY <1>5 DEF TypeInv
<1>7. ASSUME Few, NEW j \in 1 .. Len(kvs)
      PROVE  buf'[kvs[j].lba - lo] = IF j \in bad' THEN Corrupt ELSE kvs[j].at
  <2>1. kvs[j].lba \in Nat /\ lo <= kvs[j].lba /\ kvs[j].lba <= hi
    BY <1>5, EntryTyped
  <2>2. PICK p : p = kvs[j].lba - lo
    OBVIOUS
  <2>3. p \in Nat /\ p \in DOMAIN buf /\ lo + p = kvs[j].lba
    BY <1>3, <1>5, <1>6, <2>1, <2>2
  <2>4. \E f \in futs : In(f, p)
    BY <1>1, <1>5, <1>7, <2>2, FutureFor
  <2>5. PICK g : g = CHOOSE f \in futs : In(f, p)
    OBVIOUS
  <2>6. g \in futs /\ In(g, p)
    BY <2>4, <2>5, Zenon
  <2>7. buf'[p] = Stored(<<g.read.at[1], g.read.at[2] + p - g.off>>)
    BY <1>2, <2>3, <2>4, <2>5, Zenon
  <2>8. PICK i \in 1 .. Len(kvs) : /\ kvs[i].lba = lo + p
                                   /\ kvs[i].at = <<g.read.at[1], g.read.at[2] + p - g.off>>
    BY <1>1, <1>5, <2>3, <2>6, FutureIs
  <2>9. i = j
    BY <2>3, <2>8, OneEntry
  <2>10. buf'[p] = Stored(kvs[j].at)
    BY <2>7, <2>8, <2>9
  <2> QED BY <1>1, <2>2, <2>10, StoredIs
<1>8. ASSUME NEW l \in lo .. hi, ~Mapped(l)
      PROVE  buf'[l - lo] = Zero
  <2>1. PICK p : p = l - lo
    OBVIOUS
  <2>2. p \in Nat /\ p \in DOMAIN buf /\ lo + p = l
    BY <1>3, <1>5, <1>6, <2>1
  <2>3. ~\E f \in futs : In(f, p)
    <3>1. SUFFICES ASSUME NEW f \in futs, In(f, p) PROVE FALSE
      OBVIOUS
    <3>2. PICK j \in 1 .. Len(kvs) : kvs[j].lba = lo + p
      BY <1>1, <1>5, <2>2, <3>1, FutureIs
    <3> QED BY <1>8, <2>2, <3>2 DEF Mapped
  <2>4. buf'[p] = buf[p]
    BY <1>2, <2>2, <2>3, Zenon
  <2>5. buf[l - lo] = Zero
    BY <1>1, <1>5, <1>8 DEF SubmitInv, Ends
  <2> QED BY <2>1, <2>4, <2>5
<1>9. Holes' /\ (Few => Filled)'
  <2>1. Ends' = lo .. hi /\ req'.lo = lo /\ kvs' = kvs /\ \A l : Mapped(l)' <=> Mapped(l)
    BY <1>1, <1>5 DEF Ends, Mapped
  <2>2. Few' <=> Few
    BY <1>1 DEF Few
  <2> QED BY <1>7, <1>8, <2>1, <2>2 DEF Filled, Holes
<1>10. VerifyInv'
  <2>1. chk.i = 1 /\ chk.lba = req.lo /\ bad = {} /\ result = "none"
    BY <1>1 DEF VerifyInv
  <2>2. Matched(chk.i - 1)'
    BY <1>1, <2>1 DEF Matched
  <2> QED BY <1>1, <1>9, <2>1, <2>2 DEF VerifyInv
<1> QED BY <1>4, <1>10

(* verify_checksum: the lba and the position in the buffer skip a hole together. *)
LEMMA VerifySkipStep ==
    ASSUME Inv, VerifySkipHole
    PROVE  Inv'
<1> USE DEF Inv
<1>1. /\ stage = "verify" /\ chk.i <= Len(kvs)
      /\ chk' = [chk EXCEPT !.off = @ + kvs[chk.i].lba - chk.lba, !.lba = kvs[chk.i].lba]
      /\ UNCHANGED <<req, kvs, indexed, stage, plan, sub, futs, buf, bad, result>>
  BY DEF VerifySkipHole
<1>2. chk \in [i : Nat, lba : Nat, off : Nat] /\ Len(kvs) \in Nat
  BY DEF TypeInv
<1>3. PICK i, c, o, lo, a : i = chk.i /\ c = chk.lba /\ o = chk.off /\ lo = req.lo /\ a = kvs[i].lba
  OBVIOUS
<1>4. i \in 1 .. Len(kvs) /\ c >= lo /\ o = c - lo /\ c <= a
  BY <1>1, <1>2, <1>3 DEF VerifyInv
<1>5. a \in Nat /\ c \in Nat /\ o \in Nat /\ lo \in Nat /\ i \in Nat
  BY <1>2, <1>3, <1>4, EntryTyped DEF TypeInv
<1>6. PICK x : x = o + a - c
  OBVIOUS
<1>7. x = a - lo /\ x \in Nat /\ a >= lo
  BY <1>4, <1>5, <1>6
<1>8. /\ chk'.i = i /\ chk'.lba = a /\ chk'.off = x
      /\ chk' \in [i : Nat, lba : Nat, off : Nat]
  <2>1. chk' = [chk EXCEPT !.off = x, !.lba = a]
    BY <1>1, <1>3, <1>6
  <2> QED BY <1>2, <1>3, <1>5, <1>7, <2>1
<1>9. TypeInv' /\ EntriesInv' /\ PlanInv' /\ SubmitInv'
  BY <1>1, <1>8, PlanKept, SubmitKept DEF TypeInv, EntriesInv, Ends, Planning
<1>10. VerifyInv'
  <2>1. Holes' /\ (Few => Filled)'
    BY <1>1 DEF VerifyInv, Filled, Holes, Few, Ends, Mapped
  <2>2. chk'.i <= Len(kvs') => chk'.lba <= kvs'[chk'.i].lba
    BY <1>1, <1>3, <1>5, <1>8
  <2>3. Matched(chk.i - 1)'
    BY <1>1, <1>3, <1>8 DEF VerifyInv, Matched
  <2>4. chk'.i \in 1 .. Len(kvs') + 1 /\ chk'.lba >= req'.lo /\ chk'.off = chk'.lba - req'.lo
    BY <1>1, <1>2, <1>3, <1>4, <1>7, <1>8
  <2>5. result' = "none" /\ stage' = "verify"
    BY <1>1 DEF VerifyInv
  <2> QED BY <1>1, <1>8, <2>1, <2>2, <2>3, <2>4, <2>5 DEF VerifyInv
<1> QED BY <1>9, <1>10

(* A block is not what stands for one that does not match its checksum. *)
LEMMA CorruptIsNoBlock == \A b \in Block : b # Corrupt
<1>1. SUFFICES ASSUME NEW b \in Block, b = Corrupt PROVE FALSE
  OBVIOUS
<1>a. b = <<b[1], b[2]>>
  BY <1>1 DEF Block
<1>b. Len(<<b[1], b[2]>>) = 2
  OBVIOUS
<1>2. Len(b) = 2
  BY <1>a, <1>b
<1>3. Len(Corrupt) = 1
  BY DEF Corrupt
<1> QED BY <1>1, <1>2, <1>3

(* verify_checksum: one entry's block is compared with its checksum. *)
LEMMA VerifyBlockStep ==
    ASSUME Inv, VerifyBlock
    PROVE  Inv'
<1> USE DEF Inv
<1>1. /\ stage = "verify" /\ chk.i <= Len(kvs) /\ chk.lba = kvs[chk.i].lba
      /\ UNCHANGED <<req, kvs, indexed, plan, sub, futs, buf, bad>>
  BY DEF VerifyBlock
<1>2. chk \in [i : Nat, lba : Nat, off : Nat] /\ Len(kvs) \in Nat
  BY DEF TypeInv
<1>3. PICK i, c, o, lo : i = chk.i /\ c = chk.lba /\ o = chk.off /\ lo = req.lo
  OBVIOUS
<1>4. i \in 1 .. Len(kvs) /\ c >= lo /\ o = c - lo /\ c = kvs[i].lba
  BY <1>1, <1>2, <1>3 DEF VerifyInv
<1>5. c \in Nat /\ o \in Nat /\ lo \in Nat /\ i \in Nat
  BY <1>2, <1>3, <1>4 DEF TypeInv
<1>6. Holes' /\ (Few => Filled) /\ (Few => Filled)' /\ result = "none" /\ Matched(i - 1)
  BY <1>1, <1>3 DEF VerifyInv, Filled, Holes, Few, Ends, Mapped
<1>7. Few => buf[o] = IF i \in bad THEN Corrupt ELSE kvs[i].at
  BY <1>3, <1>4, <1>6 DEF Filled
<1>8. Few' <=> Few
  BY <1>1 DEF Few
<1>9. CASE buf[o] = kvs[i].at
  <2>1. chk' = [i |-> i + 1, lba |-> c + 1, off |-> o + 1] /\ UNCHANGED <<stage, result>>
    BY <1>3, <1>9 DEF VerifyBlock
  <2>2. /\ chk'.i = i + 1 /\ chk'.lba = c + 1 /\ chk'.off = o + 1
        /\ chk' \in [i : Nat, lba : Nat, off : Nat]
    BY <1>5, <2>1
  <2>3. TypeInv' /\ EntriesInv' /\ PlanInv' /\ SubmitInv'
    BY <1>1, <2>1, <2>2, PlanKept, SubmitKept DEF TypeInv, EntriesInv, Ends, Planning
  <2>4. chk'.i <= Len(kvs') => chk'.lba <= kvs'[chk'.i].lba
    <3>1. SUFFICES ASSUME i + 1 <= Len(kvs) PROVE c + 1 <= kvs[i + 1].lba
      BY <1>1, <2>2
    <3>2. i + 1 \in 1 .. Len(kvs) /\ i < i + 1
      BY <1>2, <1>5, <3>1
    <3>3. kvs[i].lba < kvs[i + 1].lba /\ kvs[i + 1].lba \in Nat
      BY <1>4, <3>2, EntryTyped DEF EntriesInv
    <3>4. c < kvs[i + 1].lba
      BY <1>4, <3>3
    <3> QED BY ONLY <1>5, <3>3, <3>4
  <2>5. chk'.i \in 1 .. Len(kvs') + 1 /\ chk'.lba >= req'.lo /\ chk'.off = chk'.lba - req'.lo
    <3>1. i + 1 \in 1 .. Len(kvs) + 1 /\ c + 1 >= lo /\ o + 1 = (c + 1) - lo
      <4>1. i + 1 \in 1 .. Len(kvs) + 1
        BY ONLY <1>2, <1>4, <1>5
      <4>2. c \in Nat /\ lo \in Nat /\ c >= lo /\ o = c - lo
        BY <1>4, <1>5
      <4>3. c + 1 >= lo /\ o + 1 = (c + 1) - lo
        BY ONLY <4>2
      <4> QED BY <4>1, <4>3
    <3> QED BY <1>1, <1>3, <2>2, <3>1
  <2>6. Matched(chk.i - 1)'
    <3>1. \A j \in 1 .. i : buf[kvs[j].lba - lo] = kvs[j].at
      <4>1. \A j \in 1 .. i - 1 : buf[kvs[j].lba - lo] = kvs[j].at
        BY <1>3, <1>6 DEF Matched
      <4>2. buf[kvs[i].lba - lo] = kvs[i].at
        BY <1>4, <1>9
      <4>3. \A j \in 1 .. i : j \in 1 .. i - 1 \/ j = i
        BY <1>5
      <4> QED BY <4>1, <4>2, <4>3
    <3>2. chk'.i - 1 = i /\ kvs' = kvs /\ buf' = buf /\ req'.lo = lo
      BY <1>1, <1>3, <1>5, <2>2
    <3> QED BY <3>1, <3>2 DEF Matched
  <2> QED BY <1>1, <1>6, <2>1, <2>3, <2>4, <2>5, <2>6 DEF VerifyInv
<1>10. CASE buf[o] # kvs[i].at
  <2>1. stage' = "done" /\ result' = "crc mismatch" /\ chk' = chk
    BY <1>3, <1>10 DEF VerifyBlock
  <2>3. (Few => bad # {})'
    BY <1>1, <1>7, <1>8, <1>10
  <2>2. TypeInv' /\ EntriesInv' /\ PlanInv' /\ SubmitInv'
    BY <1>1, <2>1, PlanKept, SubmitKept DEF TypeInv, EntriesInv, Ends, Planning
  <2> QED BY <1>1, <2>1, <2>2, <2>3 DEF VerifyInv
<1> QED BY <1>9, <1>10

(* verify_checksum has been through the entries: none is bad. *)
LEMMA VerifyDoneStep ==
    ASSUME Inv, VerifyDone
    PROVE  Inv'
<1> USE DEF Inv
<1>1. /\ stage = "verify" /\ chk.i > Len(kvs) /\ stage' = "done" /\ result' = "ok"
      /\ UNCHANGED <<req, kvs, indexed, plan, sub, futs, buf, bad, chk>>
  BY DEF VerifyDone
<1>2. Matched(Len(kvs)) /\ Holes
  <2>a. Len(kvs) \in Nat
    BY DEF TypeInv
  <2>b. chk.i \in 1 .. Len(kvs) + 1
    BY DEF VerifyInv
  <2>1. chk.i \in 1 .. Len(kvs) + 1 /\ Len(kvs) \in Nat
    BY <2>a, <2>b
  <2>2. chk.i - 1 = Len(kvs)
    BY <1>1, <2>1
  <2> QED BY <1>1, <2>2 DEF VerifyInv
<1>3. Few => bad = {}
  <2>1. SUFFICES ASSUME Few, NEW j \in bad PROVE FALSE
    OBVIOUS
  <2>2. j \in 1 .. Len(kvs)
    BY DEF TypeInv
  <2>3. buf[kvs[j].lba - req.lo] = Corrupt
    BY <1>1, <2>1, <2>2 DEF VerifyInv, Filled
  <2>4. buf[kvs[j].lba - req.lo] = kvs[j].at /\ kvs[j].at \in Block
    BY <1>2, <2>2, EntryTyped DEF Matched
  <2> QED BY <2>3, <2>4, CorruptIsNoBlock
<1>4. TypeInv' /\ EntriesInv' /\ PlanInv' /\ SubmitInv'
  BY <1>1, PlanKept, SubmitKept DEF TypeInv, EntriesInv, Ends, Planning
<1>5. Matched(Len(kvs))' /\ Holes' /\ (Few => bad = {})'
  BY <1>1, <1>2, <1>3 DEF Holes, Matched, Few, Ends, Mapped
<1> QED BY <1>1, <1>4, <1>5 DEF VerifyInv

(* A step that changes nothing. *)
LEMMA StutterStep ==
    ASSUME Inv, UNCHANGED vars
    PROVE  Inv'
<1> USE DEF Inv, vars
<1>1. TypeInv' /\ EntriesInv'
  BY DEF TypeInv, EntriesInv, Ends
<1>2. Planned' = Planned
  BY DEF Planned
<1>3. PlanInv'
  <2>1. Covers(plan.reads, Planned)'
    BY <1>2, CoversKept DEF PlanInv
  <2>2. \A j \in plan.start .. plan.i - 1 :
            Within(j, kvs[plan.start], j - plan.start)' = Within(j, kvs[plan.start], j - plan.start)
    BY DEF Within
  <2> QED BY <2>1, <2>2 DEF PlanInv, Planning
<1>4. SubmitInv'
  BY DEF SubmitInv, Planning, End, Tracks, Placed, Mapped, Ends
<1>5. VerifyInv'
  BY DEF VerifyInv, Filled, Holes, Matched, Few, Ends, Mapped
<1> QED BY <1>1, <1>3, <1>4, <1>5

-----------------------------------------------------------------------------
(* The theorems. *)

(* The invariant of read(): the entries are merged into reads of blocks that *)
(* are theirs, the reads are placed at the lbas' offsets, the holes are      *)
(* zeroed and the checksums are compared at the right positions.             *)
THEOREM ReadCorrect == Spec => []Inv
<1>1. Init => Inv
  BY InitInv
<1>2. Inv /\ [Next]_vars => Inv'
  BY ReadIndexStep, ReadIndexFailsStep, PlanExtendStep, PlanCutStep, PlanDoneStep, SubmitReadStep,
     SubmitTailStep, OverrunStep, ReadsCompleteStep, ReadFailsStep, VerifySkipStep, VerifyBlockStep,
     VerifyDoneStep, StutterStep DEF Next
<1> QED BY <1>1, <1>2, PTL DEF Spec

(* A read that succeeds, unless it is the index that failed, has put each    *)
(* mapped lba's block, and zeros for each hole, in its place in the caller's *)
(* buffer (BufferCorrect), for every range, every set of entries and every   *)
(* layout of their blocks, whatever the integers narrow.                     *)
THEOREM BufferTheorem == Spec => []BufferCorrect
<1>1. Inv => BufferCorrect
  <2>1. SUFFICES ASSUME Inv, result = "ok", indexed, NEW l \in req.lo .. req.hi
                 PROVE  buf[l - req.lo] = IF \E i \in DOMAIN kvs : kvs[i].lba = l
                            THEN (CHOOSE kv \in {kvs[i] : i \in DOMAIN kvs} : kv.lba = l).at
                            ELSE Zero
    BY DEF BufferCorrect
  <2>2. Matched(Len(kvs)) /\ Holes /\ DOMAIN kvs = 1 .. Len(kvs)
    BY <2>1 DEF Inv, VerifyInv, TypeInv
  <2>3. CASE ~Mapped(l)
    <3>1. ~\E i \in DOMAIN kvs : kvs[i].lba = l
      BY <2>2, <2>3 DEF Mapped
    <3>2. buf[l - req.lo] = Zero
      BY <2>2, <2>3 DEF Holes, Ends
    <3> QED BY <3>1, <3>2
  <2>4. CASE Mapped(l)
    <3>1. PICK j \in 1 .. Len(kvs) : kvs[j].lba = l
      BY <2>4 DEF Mapped
    <3>2. buf[l - req.lo] = kvs[j].at
      BY <2>2, <3>1 DEF Matched
    <3>3. PICK kv : kv = CHOOSE x \in {kvs[i] : i \in DOMAIN kvs} : x.lba = l
      OBVIOUS
    <3>4. kvs[j] \in {kvs[i] : i \in DOMAIN kvs}
      BY <2>2
    <3>5. kv \in {kvs[i] : i \in DOMAIN kvs} /\ kv.lba = l
      BY <3>1, <3>3, <3>4, Zenon
    <3>6. PICK i \in 1 .. Len(kvs) : kv = kvs[i]
      BY <2>2, <3>5
    <3>7. i = j
      BY <2>1, <3>1, <3>5, <3>6, OneEntry DEF Inv
    <3>8. \E k \in DOMAIN kvs : kvs[k].lba = l
      BY <2>2, <3>1
    <3> QED BY <3>2, <3>3, <3>6, <3>7, <3>8
  <2> QED BY <2>3, <2>4
<1> QED BY <1>1, ReadCorrect, PTL

(* A range with fewer entries than a blk_count_t has values returns          *)
(* CRC_MISMATCH when, and only when, a block read does not match its         *)
(* checksum (VerifyExact).                                                   *)
THEOREM VerifyTheorem == Spec => []VerifyExact
<1>1. Inv => VerifyExact
  BY DEF Inv, VerifyInv, VerifyExact, Few
<1> QED BY <1>1, ReadCorrect, PTL

(* submit_read_to_backend writes past the caller's buffer for no range that  *)
(* ends below lba 2^32 (InBuffer).                                           *)
THEOREM InBufferTheorem == Spec => []InBuffer
<1>1. Inv => InBuffer
  BY DEF Inv, SubmitInv, InBuffer
<1> QED BY <1>1, ReadCorrect, PTL
=============================================================================
