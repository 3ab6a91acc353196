---------------------------- MODULE PrefixIndexProofs ----------------------------
(***************************************************************************)
(* Proofs about PrefixIndex, for every width, size and bound: the index    *)
(* agrees with a plain map of the lbas (LookupAgrees), and no block is     *)
(* lost or given away (BlocksAccounted), also after a crash at any point,  *)
(* recovery included.                                                      *)
(***************************************************************************)
EXTENDS PrefixIndex, FiniteSetTheorems, TLAPS

-----------------------------------------------------------------------------
(* The invariant, part 1: types. *)

Csum == Nat \X Nat
Cell == [blk : AllBlocks, csum : Csum]
Map == UNION {[D -> Cell] : D \in SUBSET Nat}

(* A write, in memory or journaled. *)
WriteOK(e) ==
    /\ e.lba \in Nat /\ e.nlbas \in 1 .. MaxLen
    /\ e.blks \in Injection(1 .. e.nlbas, AllBlocks)
    /\ e.ends \in SUBSET (1 .. e.nlbas) /\ e.nlbas \in e.ends
    /\ Contiguous(e.blks, e.ends)
    /\ e.csums \in [1 .. e.nlbas -> Csum]

(* Positions where an extent begins. *)
Begins(e, n) == n \in 0 .. e.nlbas /\ (n = 0 \/ n \in e.ends)

(* The extents among the first d blocks do not span two bases. *)
InBaseUpTo(e, d) == \A n, m \in 0 .. d : Begins(e, n) /\ IsExtent(e, n, m) => InBase(e, n, m)

Request == [stage : {"data", "index", "journal"}, lba : Nat, nlbas : Nat,
            blks : Seq(AllBlocks), ends : SUBSET Nat, csums : Seq(Csum),
            old : SUBSET AllBlocks, done : Nat]

Entry == {e \in [lba : Nat, nlbas : Nat, num_old : Nat, csums : Seq(Csum),
                 old : Seq(AllBlocks), blks : Seq(AllBlocks), ends : SUBSET Nat] :
             WriteOK(e) /\ InBaseUpTo(e, e.nlbas)}

Live(r) ==
    /\ r \in Request /\ WriteOK(r)
    /\ Begins(r, r.done) /\ InBaseUpTo(r, r.done)
    /\ r.stage = "data" => r.done = 0 /\ r.old = {}
    /\ r.stage = "journal" => r.done = r.nlbas
    /\ IsFiniteSet(r.old) /\ Cardinality(r.old) <= r.done

SameWrite(e, r) == /\ e.lba = r.lba /\ e.nlbas = r.nlbas /\ e.blks = r.blks
                   /\ e.ends = r.ends /\ e.csums = r.csums

(* The last entry is that of the request whose commit is pending. *)
Journaled == req.stage = "journal" => journal # << >> /\ SameWrite(journal[Len(journal)], req)

Typed ==
    /\ journal \in Seq(Entry)
    /\ recover \in Seq(Map)
    /\ disk.lsn \in 0 .. Len(journal) /\ Len(recover) = Len(journal) - disk.lsn + 1
    /\ ref \in Map
    /\ (req = Idle \/ Live(req)) /\ Journaled
    /\ phase \in {"up", "recovering", "aborted"}
    /\ lsn \in Nat /\ put \in Nat /\ writes \in Nat
    /\ leak \in {"none", "until restart", "for good"} /\ torn \in BOOLEAN /\ disk.torn \in BOOLEAN
    /\ early \in BOOLEAN

-----------------------------------------------------------------------------
(* The invariant, part 2: the index is a map of lbas. *)

Agrees(t, f) ==
    /\ DOMAIN t = {Key(l) : l \in DOMAIN f}
    /\ \A l \in DOMAIN f : BlkId(t[Key(l)]) = f[l].blk /\ t[Key(l)].csum = f[l].csum

Recoverable ==
    \A i \in 1 .. Len(recover) - 1 :
        recover[i + 1] = Over(Info(journal[disk.lsn + i]), recover[i])

(* What the index holds in the middle of a recovery. *)
Replaying == IF put = 0 THEN recover[lsn - disk.lsn]
             ELSE Over(Given(journal[lsn], 0, put), recover[lsn - disk.lsn])

Replays ==
    /\ lsn \in disk.lsn + 1 .. Len(journal) + 1
    /\ lsn > Len(journal) => put = 0
    /\ lsn <= Len(journal) => Begins(journal[lsn], put)
    /\ req = Idle /\ ref = recover[Len(recover)]
    /\ Agrees(table, Replaying)

IndexAgrees ==
    /\ Agrees(disk.table, recover[1])
    /\ Recoverable
    /\ phase = "up" => Agrees(table, ref) /\ put = 0
    /\ phase = "recovering" => Replays

-----------------------------------------------------------------------------
(* The invariant, part 3: the blocks. *)

Blks(f) == {f[l].blk : l \in DOMAIN f}
OneToOne(f) == \A l, m \in DOMAIN f : f[l].blk = f[m].blk => l = m
Last == recover[Len(recover)]
Exact == leak # "for good"
Freeing(bits, e) == (bits \cup New(e)) \ Freed(e)

(* What recovery comes to.  The index of a checkpoint may be ahead of its    *)
(* bitmap by an entry that is not committed, so the blocks are counted from  *)
(* the bitmap on.                                                            *)
Taken(i) == IF i = 1 THEN disk.bitmap ELSE Blks(recover[i])

RecoveryAccounts ==
    /\ OneToOne(Last)
    /\ Blks(Last) \subseteq Taken(Len(recover))
    /\ Exact => Blks(Last) = Taken(Len(recover))
    /\ \A i \in 1 .. Len(recover) - 1 :
          /\ Blks(recover[i + 1]) \subseteq Freeing(Taken(i), journal[disk.lsn + i])
          /\ Exact => Blks(recover[i + 1]) = Freeing(Taken(i), journal[disk.lsn + i])

ReplayAccounts ==
    /\ Taken(lsn - disk.lsn) \subseteq bitmap
    /\ Exact => Taken(lsn - disk.lsn) = bitmap
    /\ held = {}

(* The bitmap, as it is once the entry being committed has been. *)
Committed == IF req.stage = "journal" THEN Freeing(bitmap, journal[Len(journal)]) ELSE bitmap
Put == IF req.stage = "index" THEN Lbas(req, 0, req.done) ELSE {}

BitsAccount ==
    /\ Blks(Last) \subseteq Committed
    /\ Exact => Blks(Last) = Committed
    /\ leak = "none" => held \subseteq (IF req = Idle THEN {} ELSE New(req))

RefAccounts ==
    /\ OneToOne(ref)
    /\ DOMAIN Last \subseteq DOMAIN ref
    /\ \A l \in DOMAIN ref :
          \/ l \in DOMAIN Last /\ ref[l].blk = Last[l].blk
          \/ ref[l].blk \in held \ Blks(Last)
    /\ ~torn => \A l \in DOMAIN ref \ Put : l \in DOMAIN Last /\ ref[l].blk = Last[l].blk

RequestAccounts ==
    req # Idle =>
        /\ New(req) \subseteq held
        /\ req.old \cap (New(req) \cup Blks(ref)) = {}
        /\ \A l \in Lbas(req, 0, req.done) :
              l \in DOMAIN ref /\ ref[l].blk = req.blks[l - req.lba + 1]
        /\ req.stage = "journal" => /\ Freed(journal[Len(journal)]) \subseteq req.old
                                    /\ New(req) \subseteq Blks(Last)
        /\ req.stage # "journal" =>
              /\ New(req) \cap Blks(Last) = {}
              /\ \A l \in DOMAIN ref : ref[l].blk \in New(req) => l \in Lbas(req, 0, req.done)
              /\ \A b \in req.old \cap Blks(Last) :
                    \E l \in Lbas(req, 0, req.done) \cap DOMAIN Last : Last[l].blk = b
              /\ Exact => \A l \in Lbas(req, 0, req.done) \cap DOMAIN Last : Last[l].blk \in req.old

Accounts ==
    /\ disk.torn => torn
    /\ torn => leak = "for good"
    /\ ~disk.torn /\ ~early =>
          /\ RecoveryAccounts
          /\ phase = "recovering" => ReplayAccounts
          /\ phase = "up" => BitsAccount /\ RefAccounts /\ RequestAccounts

-----------------------------------------------------------------------------
(* Arithmetic of keys and values. *)

(* Division undoes a multiplication with a remainder. *)
LEMMA DivModUnique ==
    ASSUME NEW a \in Nat, NEW b \in Nat, NEW m \in Nat \ {0}, b < m
    PROVE  (a * m + b) \div m = a /\ (a * m + b) % m = b
OBVIOUS

(* A number is its quotient times the divisor plus its remainder. *)
LEMMA DivModParts ==
    ASSUME NEW l \in Nat, NEW m \in Nat \ {0}
    PROVE  /\ l \div m \in Nat /\ l % m \in 0 .. m - 1
           /\ l = (l \div m) * m + (l % m)
<1>1. l \div m \in Int /\ l \div m >= 0
  OBVIOUS
<1>2. l % m \in 0 .. m - 1
  OBVIOUS
<1>3. l = m * (l \div m) + (l % m)
  OBVIOUS
<1> QED
  BY <1>1, <1>2, <1>3

(* A key keeps its lba. *)
LEMMA KeyParts ==
    ASSUME NEW l \in Nat
    PROVE  /\ Key(l).base \in Nat /\ Key(l).offset \in 0 .. U32 - 1
           /\ l = Key(l).base * U32 + Key(l).offset
           /\ Key(l) = [base |-> Key(l).base, offset |-> Key(l).offset]
           /\ LbaOf(Key(l)) = l
BY DivModParts, WidthAssumption DEF Key, LbaOf

(* Different lbas have different keys. *)
LEMMA KeyOneToOne ==
    ASSUME NEW l \in Nat, NEW m \in Nat, Key(l) = Key(m)
    PROVE  l = m
BY KeyParts

(* Keys are ordered as their lbas are. *)
LEMMA KeyOrder ==
    ASSUME NEW l \in Nat, NEW m \in Nat
    PROVE  KeyLess(Key(l), Key(m)) <=> l < m
<1> PICK p \in Nat, a \in 0 .. U32 - 1 :
        Key(l).base = p /\ Key(l).offset = a /\ l = p * U32 + a
  BY KeyParts
<1> PICK q \in Nat, b \in 0 .. U32 - 1 :
        Key(m).base = q /\ Key(m).offset = b /\ m = q * U32 + b
  BY KeyParts
<1> U32 \in Nat \ {0}
  BY WidthAssumption
<1>1. (p < q \/ (p = q /\ a < b)) <=> p * U32 + a < q * U32 + b
  <2>1. CASE p = q
    BY <2>1
  <2>2. CASE p < q
    <3>1. p + 1 <= q
      BY <2>2
    <3>2. (p + 1) * U32 <= q * U32
      BY <3>1
    <3>3. (p + 1) * U32 = p * U32 + U32 /\ p * U32 \in Nat /\ q * U32 \in Nat
      OBVIOUS
    <3> QED
      BY <2>2, <3>2, <3>3
  <2>3. CASE q < p
    <3>1. q + 1 <= p
      BY <2>3
    <3>2. (q + 1) * U32 <= p * U32
      BY <3>1
    <3>3. (q + 1) * U32 = q * U32 + U32 /\ p * U32 \in Nat /\ q * U32 \in Nat
      OBVIOUS
    <3> QED
      BY <2>3, <3>2, <3>3
  <2> QED
    BY <2>1, <2>2, <2>3
<1> QED
  BY <1>1 DEF KeyLess

(* Within a base, shift() adds to the lba and distance() is the difference. *)
LEMMA ShiftInBase ==
    ASSUME NEW l \in Nat, NEW k \in Nat, NEW i \in 0 .. k, SameBase(l, l + k)
    PROVE  KeyShift(Key(l), i) = Key(l + i) /\ Distance(Key(l + i), Key(l)) = i
<1> U32 \in Nat \ {0} /\ l + i \in Nat /\ l + k \in Nat
  BY WidthAssumption
<1> PICK p \in Nat, a \in 0 .. U32 - 1 :
        Key(l) = [base |-> p, offset |-> a] /\ l = p * U32 + a
  BY KeyParts
<1> PICK q \in Nat, b \in 0 .. U32 - 1 :
        Key(l + k) = [base |-> q, offset |-> b] /\ l + k = q * U32 + b
  BY KeyParts
<1>1. p = q
  BY DEF SameBase
<1>2. a + k = b /\ a + i < U32
  <2>1. p * U32 \in Nat
    OBVIOUS
  <2> QED
    BY <1>1, <2>1
<1>3. Key(l + i) = [base |-> p, offset |-> a + i]
  <2>1. l + i = p * U32 + (a + i) /\ a + i \in Nat
    OBVIOUS
  <2>2. PICK d \in Nat : d = a + i /\ d < U32
    BY <1>2, <2>1
  <2>3. (p * U32 + d) \div U32 = p /\ (p * U32 + d) % U32 = d
    BY <2>2, DivModUnique
  <2> QED
    BY <2>1, <2>2, <2>3 DEF Key
<1>4. KeyShift(Key(l), i) = Key(l + i)
  <2>1. (a + i) % U32 = a + i
    BY <1>2
  <2> QED
    BY <1>3, <2>1 DEF KeyShift
<1>5. (a + i - a) % U32 = i
  BY <1>2
<1> QED
  BY <1>3, <1>4, <1>5 DEF Distance

(* A block survives the encoding of a value and its shift. *)
LEMMA ValueRoundTrip ==
    ASSUME NEW c \in Chunk, NEW x \in BlkNum, NEW i \in Nat, x + i \in BlkNum,
           NEW csum, NEW info, NEW start
    PROVE  LET v == ValueShift(IndexValue(Block(c, x), csum), i, info, start)
           IN  BlkId(v) = Block(c, x + i) /\ v.csum = info[start + i].csum
<1> DEFINE q == c * U16 + 1
<1>1. /\ U32 \in Nat \ {0} /\ U16 \in Nat \ {0} /\ 1 < U16
      /\ c \in Nat /\ x \in Nat /\ x + i \in 0 .. (U32 \div 2) - 1 /\ x \in 0 .. (U32 \div 2) - 1
  BY WidthAssumption, RangeAssumption, LengthAssumption
<1>2. 2 * x < U32 /\ x + i < U32 /\ 2 * x \in Nat
  BY <1>1
<1>3. q \in Nat /\ q % U16 = 1 /\ q \div U16 = c
  <2>1. PICK d \in Nat : d = 1 /\ d < U16
    BY <1>1
  <2>2. (c * U16 + d) \div U16 = c /\ (c * U16 + d) % U16 = d
    BY <1>1, <2>1, DivModUnique
  <2> QED
    BY <1>1, <2>1, <2>2
<1> HIDE DEF q
<1>4. (q * U32 + 2 * x) \div U32 = q /\ (q * U32 + 2 * x) % U32 = 2 * x
  <2>1. PICK d \in Nat : d = 2 * x /\ d < U32
    BY <1>2
  <2>2. (q * U32 + d) \div U32 = q /\ (q * U32 + d) % U32 = d
    <3>1. q \in Nat /\ U32 \in Nat \ {0}
      BY <1>1, <1>3
    <3> QED
      BY ONLY <2>1, <3>1, d \in Nat, DivModUnique
  <2> QED
    BY <2>1, <2>2
<1>5. (2 * x) \div 2 = x
  BY <1>1
<1>6. ToInteger(Block(c, x)) = q * U32 + 2 * x
  BY DEF ToInteger, Block, q
<1>7. IndexValue(Block(c, x), csum) = [prefix |-> q, suffix |-> x, csum |-> csum]
  BY <1>4, <1>5, <1>6 DEF IndexValue
<1>8. (x + i) % U32 = x + i
  BY <1>1, <1>2
<1>9. ValueShift([prefix |-> q, suffix |-> x, csum |-> csum], i, info, start)
        = [prefix |-> q, suffix |-> x + i, csum |-> info[start + i].csum]
  BY <1>8 DEF ValueShift
<1> QED
  BY <1>3, <1>7, <1>9 DEF BlkId, Block

-----------------------------------------------------------------------------
(* Maps, writes and extents. *)

(* What Over yields. *)
LEMMA OverParts ==
    ASSUME NEW f, NEW g
    PROVE  /\ DOMAIN Over(f, g) = DOMAIN f \cup DOMAIN g
           /\ \A x \in DOMAIN f : Over(f, g)[x] = f[x]
           /\ \A x \in DOMAIN g \ DOMAIN f : Over(f, g)[x] = g[x]
BY DEF Over

(* A map over a map is a map. *)
LEMMA OverMap ==
    ASSUME NEW f \in Map, NEW g \in Map
    PROVE  Over(f, g) \in Map
<1> DOMAIN f \in SUBSET Nat /\ DOMAIN g \in SUBSET Nat
    /\ (\A x \in DOMAIN f : f[x] \in Cell) /\ (\A x \in DOMAIN g : g[x] \in Cell)
  BY DEF Map
<1> DEFINE D == DOMAIN f \cup DOMAIN g
<1>1. D \in SUBSET Nat
  OBVIOUS
<1>2. Over(f, g) \in [D -> Cell]
  BY DEF Over
<1> QED
  BY <1>1, <1>2 DEF Map

(* Cells and domains of a map. *)
LEMMA MapParts ==
    ASSUME NEW f \in Map
    PROVE  /\ DOMAIN f \subseteq Nat
           /\ \A l \in DOMAIN f : /\ f[l] \in Cell /\ f[l].blk \in AllBlocks
                                  /\ f[l] = [blk |-> f[l].blk, csum |-> f[l].csum]
BY DEF Map, Cell

(* The blocks and checksums of a write. *)
LEMMA WriteParts ==
    ASSUME NEW e, WriteOK(e), NEW i \in 1 .. e.nlbas
    PROVE  /\ e.blks[i] \in AllBlocks /\ e.csums[i] \in Csum
           /\ \E c \in Chunk, x \in BlkNum : e.blks[i] = Block(c, x)
BY DEF WriteOK, Injection, AllBlocks

(* What a write gives its lbas. *)
LEMMA GivenParts ==
    ASSUME NEW e, WriteOK(e), NEW n \in 0 .. e.nlbas, NEW m \in 0 .. e.nlbas
    PROVE  /\ Given(e, n, m) \in Map
           /\ DOMAIN Given(e, n, m) = Lbas(e, n, m)
           /\ Lbas(e, n, m) = {e.lba + i - 1 : i \in n + 1 .. m}
           /\ \A i \in n + 1 .. m : /\ Given(e, n, m)[e.lba + i - 1].blk = e.blks[i]
                                    /\ Given(e, n, m)[e.lba + i - 1].csum = e.csums[i]
<1> e.lba \in Nat /\ e.nlbas \in Nat
  BY DEF WriteOK
<1>1. Lbas(e, n, m) \in SUBSET Nat /\ \A l \in Lbas(e, n, m) : l - e.lba + 1 \in 1 .. e.nlbas
  BY DEF Lbas
<1>2. Given(e, n, m) \in [Lbas(e, n, m) -> Cell]
  BY <1>1, WriteParts DEF Given, Cell
<1>3. Given(e, n, m) \in Map
  BY <1>1, <1>2 DEF Map
<1>4. Lbas(e, n, m) = {e.lba + i - 1 : i \in n + 1 .. m}
  <2>1. ASSUME NEW l \in Lbas(e, n, m)
        PROVE  \E i \in n + 1 .. m : l = e.lba + i - 1
    <3>1. l - e.lba + 1 \in n + 1 .. m /\ l = e.lba + (l - e.lba + 1) - 1
      BY DEF Lbas
    <3> QED
      BY <3>1
  <2>2. ASSUME NEW i \in n + 1 .. m
        PROVE  e.lba + i - 1 \in Lbas(e, n, m)
    BY DEF Lbas
  <2> QED
    BY <2>1, <2>2
<1>5. ASSUME NEW i \in n + 1 .. m
      PROVE  /\ Given(e, n, m)[e.lba + i - 1].blk = e.blks[i]
             /\ Given(e, n, m)[e.lba + i - 1].csum = e.csums[i]
  <2>1. e.lba + i - 1 \in Lbas(e, n, m) /\ (e.lba + i - 1) - e.lba + 1 = i
    BY DEF Lbas
  <2> QED
    BY <2>1 DEF Given
<1> QED
  BY <1>2, <1>3, <1>4, <1>5

(* The keys of a range that lies in one base, and their distances. *)
LEMMA RangeKeysInBase ==
    ASSUME NEW l \in Nat, NEW k \in Nat, NEW j \in 0 .. k + 1, SameBase(l, l + k)
    PROVE  /\ RangeKeys(l, j) = {Key(x) : x \in l .. l + j - 1}
           /\ \A x \in l .. l + j - 1 : Distance(Key(x), Key(l)) = x - l
<1>1. ASSUME NEW i \in 0 .. j - 1
      PROVE  KeyShift(Key(l), i) = Key(l + i) /\ Distance(Key(l + i), Key(l)) = i
  <2>1. i \in 0 .. k
    OBVIOUS
  <2> QED
    BY <2>1, ShiftInBase
<1>2. \A x \in l .. l + j - 1 : x - l \in 0 .. j - 1 /\ l + (x - l) = x
  OBVIOUS
<1>3. \A i \in 0 .. j - 1 : l + i \in l .. l + j - 1
  OBVIOUS
<1>4. ASSUME NEW x \in l .. l + j - 1
      PROVE  KeyShift(Key(l), x - l) = Key(x) /\ Distance(Key(x), Key(l)) = x - l
  BY <1>1, <1>2
<1>5. RangeKeys(l, j) \subseteq {Key(x) : x \in l .. l + j - 1}
  BY <1>1, <1>3 DEF RangeKeys
<1>6. {Key(x) : x \in l .. l + j - 1} \subseteq RangeKeys(l, j)
  BY <1>2, <1>4 DEF RangeKeys
<1> QED
  BY <1>4, <1>5, <1>6

(* Inside an extent, the i-th value shifts to the i-th block and checksum. *)
LEMMA ExtentValues ==
    ASSUME NEW e, WriteOK(e), NEW n \in 0 .. e.nlbas, NEW m \in 0 .. e.nlbas, IsExtent(e, n, m),
           NEW i \in 0 .. m - n - 1
    PROVE  LET first == IndexValue(Info(e)[e.lba + n].blk, Info(e)[e.lba + n].csum)
               v == ValueShift(first, i, Info(e), e.lba + n)
           IN  BlkId(v) = e.blks[n + 1 + i] /\ v.csum = e.csums[n + 1 + i]
<1> e.lba \in Nat /\ e.nlbas \in Nat
  BY DEF WriteOK
<1>1. n + 1 \in 1 .. e.nlbas /\ n + 1 + i \in 1 .. e.nlbas /\ e.nlbas \in 0 .. e.nlbas /\ 0 \in 0 .. e.nlbas
  BY DEF IsExtent
<1>2. PICK c \in Chunk, x \in BlkNum : e.blks[n + 1] = Block(c, x)
  BY <1>1, WriteParts
<1>3. PICK d \in Chunk, y \in BlkNum : e.blks[n + 1 + i] = Block(d, y)
  BY <1>1, WriteParts
<1>4. e.blks[n + 1 + i] = Block(c, x + i)
  <2>1. DOMAIN e.blks = 1 .. e.nlbas
    BY DEF WriteOK, Injection
  <2>2. PICK p \in 1 .. e.nlbas, q \in 1 .. e.nlbas : p = n + 1 /\ q = n + 1 + i
    BY <1>1
  <2>3. p <= q /\ (p .. q - 1) \cap e.ends = {}
    BY <2>2 DEF IsExtent
  <2>4. e.blks[q] = Block(e.blks[p].chunk, e.blks[p].blk_num + q - p)
    BY <2>1, <2>3 DEF WriteOK, Contiguous
  <2>5. e.blks[p].chunk = c /\ e.blks[p].blk_num = x
    BY <1>2, <2>2 DEF Block
  <2>6. x + q - p = x + i
    BY <2>2, RangeAssumption
  <2> QED
    BY <2>2, <2>4, <2>5, <2>6
<1>5. x + i \in BlkNum
  BY <1>3, <1>4 DEF Block
<1>6. Info(e)[e.lba + n].blk = e.blks[n + 1]
  <2>1. e.lba + n = e.lba + (n + 1) - 1
    OBVIOUS
  <2> QED
    BY <1>1, <2>1, GivenParts DEF Info
<1>7. Info(e)[e.lba + n + i].csum = e.csums[n + 1 + i]
  <2>1. e.lba + n + i = e.lba + (n + 1 + i) - 1
    OBVIOUS
  <2> QED
    BY <1>1, <2>1, GivenParts DEF Info
<1>8. i \in Nat
  OBVIOUS
<1> QED
  BY <1>2, <1>4, <1>5, <1>6, <1>7, <1>8, ValueRoundTrip

(* A put of the first k lbas of an extent does to the index what giving      *)
(* those lbas does to the map.                                               *)
LEMMA PutAgrees ==
    ASSUME NEW e, WriteOK(e), NEW n \in 0 .. e.nlbas, NEW m \in 0 .. e.nlbas,
           IsExtent(e, n, m), InBase(e, n, m), NEW k \in 0 .. m - n,
           NEW t, NEW f \in Map, Agrees(t, f)
    PROVE  Agrees(PutRange(t, e.lba + n, k, Info(e)), Over(Given(e, n, n + k), f))
<1> DEFINE start == e.lba + n
           first == IndexValue(Info(e)[start].blk, Info(e)[start].csum)
           V(x) == ValueShift(first, x, Info(e), start)
           P == PutRange(t, start, k, Info(e))
           g == Given(e, n, n + k)
<1> e.lba \in Nat /\ e.nlbas \in Nat /\ start \in Nat /\ n < m
  BY DEF WriteOK, IsExtent
<1>1. /\ RangeKeys(start, k) = {Key(x) : x \in start .. start + k - 1}
      /\ \A x \in start .. start + k - 1 : Distance(Key(x), Key(start)) = x - start
  <2>1. PICK j \in Nat : j = m - n - 1 /\ k \in 0 .. j + 1 /\ start + j = e.lba + m - 1
    OBVIOUS
  <2>2. SameBase(start, start + j)
    BY <2>1 DEF InBase
  <2> QED
    BY <2>1, <2>2, RangeKeysInBase
<1>2. \A i \in 0 .. k - 1 : BlkId(V(i)) = e.blks[n + 1 + i] /\ V(i).csum = e.csums[n + 1 + i]
  BY ExtentValues
<1>3. /\ DOMAIN P = RangeKeys(start, k) \cup DOMAIN t
      /\ \A x \in RangeKeys(start, k) : P[x] = V(Distance(x, Key(start)))
      /\ \A x \in DOMAIN t \ RangeKeys(start, k) : P[x] = t[x]
  <2> DEFINE F == [x \in RangeKeys(start, k) |-> V(Distance(x, Key(start)))]
  <2>1. P = Over(F, t)
    BY DEF PutRange
  <2>2. DOMAIN F = RangeKeys(start, k)
        /\ \A x \in RangeKeys(start, k) : F[x] = V(Distance(x, Key(start)))
    OBVIOUS
  <2> HIDE DEF P, V, F
  <2>3. /\ DOMAIN Over(F, t) = DOMAIN F \cup DOMAIN t
        /\ \A x \in DOMAIN F : Over(F, t)[x] = F[x]
        /\ \A x \in DOMAIN t \ DOMAIN F : Over(F, t)[x] = t[x]
    BY OverParts
  <2> QED
    BY ONLY <2>1, <2>2, <2>3
<1> HIDE DEF P, V
<1>4. /\ DOMAIN g = start .. start + k - 1
      /\ \A i \in 0 .. k - 1 : g[start + i].blk = e.blks[n + 1 + i]
                               /\ g[start + i].csum = e.csums[n + 1 + i]
  <2>1. PICK j \in 0 .. e.nlbas : j = n + k
    OBVIOUS
  <2>2. ASSUME NEW i \in 0 .. k - 1
        PROVE  g[start + i].blk = e.blks[n + 1 + i] /\ g[start + i].csum = e.csums[n + 1 + i]
    <3>1. n + 1 + i \in n + 1 .. j /\ e.lba + (n + 1 + i) - 1 = start + i
      BY <2>1
    <3> QED
      BY <2>1, <3>1, GivenParts
  <2>3. Lbas(e, n, n + k) = start .. start + k - 1
    <3>1. e.lba + (n + k) - 1 = start + k - 1
      OBVIOUS
    <3> QED
      BY <3>1 DEF Lbas
  <2>4. DOMAIN g = Lbas(e, n, n + k)
    BY <2>1, GivenParts
  <2> QED
    BY <2>2, <2>3, <2>4
<1> k \in Nat
  OBVIOUS
<1> HIDE DEF g, start
<1>5. /\ DOMAIN Over(g, f) = DOMAIN g \cup DOMAIN f
      /\ \A x \in DOMAIN g : Over(g, f)[x] = g[x]
      /\ \A x \in DOMAIN f \ DOMAIN g : Over(g, f)[x] = f[x]
  BY OverParts
<1>6. DOMAIN P = {Key(l) : l \in DOMAIN Over(g, f)}
  BY <1>1, <1>3, <1>4, <1>5 DEF Agrees
<1>7. ASSUME NEW l \in DOMAIN g
      PROVE  BlkId(P[Key(l)]) = Over(g, f)[l].blk /\ P[Key(l)].csum = Over(g, f)[l].csum
  <2>1. PICK i \in 0 .. k - 1 : l = start + i
    <3>1. l - start \in 0 .. k - 1 /\ l = start + (l - start)
      BY <1>4
    <3> QED
      BY <3>1
  <2>2. P[Key(l)] = V(i)
    <3>1. l \in start .. start + k - 1 /\ l - start = i
      BY <1>4, <2>1
    <3> QED
      BY <1>1, <1>3, <3>1
  <2> QED
    BY <1>2, <1>4, <1>5, <2>1, <2>2
<1>8. ASSUME NEW l \in DOMAIN f \ DOMAIN g
      PROVE  BlkId(P[Key(l)]) = Over(g, f)[l].blk /\ P[Key(l)].csum = Over(g, f)[l].csum
  <2>1. Key(l) \notin RangeKeys(start, k)
    <3>1. l \in Nat /\ l \notin start .. start + k - 1
      BY <1>4, MapParts
    <3>2. \A x \in start .. start + k - 1 : x \in Nat
      OBVIOUS
    <3> QED
      BY <1>1, <3>1, <3>2, KeyOneToOne
  <2>2. Key(l) \in DOMAIN t /\ BlkId(t[Key(l)]) = f[l].blk /\ t[Key(l)].csum = f[l].csum
    BY DEF Agrees
  <2> QED
    BY <1>3, <1>5, <2>1, <2>2
<1> QED
  BY <1>5, <1>6, <1>7, <1>8 DEF Agrees, P, g, start

(* What a put finds of an extent is what the map had there. *)
LEMMA FoundAgrees ==
    ASSUME NEW e, WriteOK(e), NEW n \in 0 .. e.nlbas, NEW m \in 0 .. e.nlbas,
           IsExtent(e, n, m), InBase(e, n, m), NEW t, NEW f \in Map, Agrees(t, f)
    PROVE  Found(t, e.lba + n, m - n) = {f[l].blk : l \in Lbas(e, n, m) \cap DOMAIN f}
<1> e.lba \in Nat /\ e.nlbas \in Nat /\ n < m /\ e.lba + n \in Nat
  BY DEF WriteOK, IsExtent
<1>1. RangeKeys(e.lba + n, m - n) = {Key(x) : x \in Lbas(e, n, m)}
  <2>1. PICK j \in Nat : j = m - n - 1 /\ m - n \in 0 .. j + 1 /\ e.lba + n + j = e.lba + m - 1
    OBVIOUS
  <2>2. SameBase(e.lba + n, e.lba + n + j)
    BY <2>1 DEF InBase
  <2>3. PICK s \in Nat, c \in 0 .. j + 1 : s = e.lba + n /\ c = m - n
    BY <2>1
  <2>4. RangeKeys(s, c) = {Key(x) : x \in s .. s + c - 1}
    BY <2>2, <2>3, RangeKeysInBase
  <2>5. Lbas(e, n, m) = s .. s + c - 1
    BY <2>3 DEF Lbas
  <2> QED
    BY <2>3, <2>4, <2>5
<1>2. Lbas(e, n, m) \subseteq Nat /\ DOMAIN f \subseteq Nat
  BY MapParts DEF Lbas
<1>3. RangeKeys(e.lba + n, m - n) \cap DOMAIN t = {Key(l) : l \in Lbas(e, n, m) \cap DOMAIN f}
  BY <1>1, <1>2, KeyOneToOne DEF Agrees
<1> QED
  BY <1>3 DEF Found, Agrees

-----------------------------------------------------------------------------
(* The order of a lookup. *)

(* In a finite set weighed by distinct numbers, the elements below one are   *)
(* counted by their rank: there is one of each rank, and the ranks order the *)
(* elements as their weights do.                                             *)
LEMMA Ranking ==
    ASSUME NEW S, IsFiniteSet(S), NEW w \in [S -> Nat],
           \A j, k \in S : w[j] = w[k] => j = k
    PROVE  LET rank(k) == Cardinality({j \in S : w[j] < w[k]})
           IN  /\ \A i \in 1 .. Cardinality(S) : \E k \in S : rank(k) = i - 1
               /\ \A j, k \in S : rank(j) < rank(k) => w[j] < w[k]
<1> DEFINE Below(k) == {j \in S : w[j] < w[k]}
           rank(k) == Cardinality(Below(k))
           N == Cardinality(S)
           r == [k \in S |-> rank(k)]
<1>1. N \in Nat
  BY FS_CardinalityType
<1>2. ASSUME NEW k \in S
      PROVE  rank(k) \in 0 .. N - 1
  <2>1. IsFiniteSet(S \ {k}) /\ Cardinality(S \ {k}) = N - 1
    BY FS_RemoveElement
  <2>2. Below(k) \in SUBSET (S \ {k})
    OBVIOUS
  <2>3. IsFiniteSet(Below(k)) /\ rank(k) <= N - 1
    BY <2>1, <2>2, FS_Subset
  <2> QED
    BY <1>1, <2>3, FS_CardinalityType
<1>3. ASSUME NEW j \in S, NEW k \in S, w[j] < w[k]
      PROVE  rank(j) < rank(k)
  <2>1. IsFiniteSet(Below(k)) /\ IsFiniteSet(Below(j))
    BY FS_Subset
  <2>2. Below(j) \in SUBSET Below(k)
    BY <1>3
  <2>3. j \in Below(k) /\ j \notin Below(j)
    BY <1>3
  <2>4. rank(j) <= rank(k) /\ rank(j) # rank(k)
    BY <2>1, <2>2, <2>3, FS_Subset
  <2> QED
    BY <1>2, <2>4
<1>4. \A j, k \in S : rank(j) < rank(k) => w[j] < w[k]
  <2> SUFFICES ASSUME NEW j \in S, NEW k \in S, rank(j) < rank(k), ~(w[j] < w[k])
               PROVE  FALSE
    OBVIOUS
  <2>1. w[j] = w[k] \/ w[k] < w[j]
    OBVIOUS
  <2>2. rank(j) \in Nat /\ rank(k) \in Nat
    BY <1>1, <1>2
  <2>3. CASE w[j] = w[k]
    BY <2>2, <2>3
  <2>4. CASE w[k] < w[j]
    <3>1. rank(k) < rank(j)
      BY <1>3, <2>4
    <3> QED
      BY <2>2, <3>1
  <2> QED
    BY <2>1, <2>3, <2>4
<1>5. r \in Injection(S, 0 .. N - 1)
  <2>1. r \in [S -> 0 .. N - 1]
    BY <1>2
  <2>2. ASSUME NEW j \in S, NEW k \in S, r[j] = r[k]
        PROVE  j = k
    <3>1. rank(j) = rank(k) /\ rank(j) \in Nat
      BY <1>1, <1>2, <2>2
    <3>2. ~(w[j] < w[k]) /\ ~(w[k] < w[j])
      BY <1>3, <3>1
    <3> QED
      BY <3>2
  <2> QED
    BY <2>1, <2>2 DEF Injection, IsInjective
<1>6. IsFiniteSet(0 .. N - 1) /\ Cardinality(0 .. N - 1) = N
  BY <1>1, FS_Interval
<1>7. r \in Surjection(S, 0 .. N - 1)
  BY <1>5, <1>6, FS_Injection
<1>8. ASSUME NEW i \in 1 .. N
      PROVE  \E k \in S : rank(k) = i - 1
  <2>1. i - 1 \in 0 .. N - 1
    BY <1>1
  <2> QED
    BY <1>7, <2>1 DEF Surjection
<1> QED
  BY <1>4, <1>8

(* An index that agrees with a map answers every lookup as the map does. *)
LEMMA LookupFromAgrees ==
    ASSUME ref \in Map, Agrees(table, ref), NEW start \in Nat, NEW end \in Nat
    PROVE  LET got == ReadFromIndex(start, end)
               want == {l \in DOMAIN ref : start <= l /\ l <= end}
           IN  /\ Len(got) = Cardinality(want)
               /\ \A i \in DOMAIN got : /\ got[i].lba \in want
                                        /\ ref[got[i].lba] = [blk |-> got[i].blk, csum |-> got[i].csum]
                                        /\ i > 1 => got[i - 1].lba < got[i].lba
<1> DEFINE in == {k \in DOMAIN table : ~KeyLess(k, Key(start)) /\ ~KeyLess(Key(end), k)}
           want == {l \in DOMAIN ref : start <= l /\ l <= end}
           N == Cardinality(in)
           K == [l \in want |-> Key(l)]
           w == [k \in in |-> LbaOf(k)]
           rank(k) == Cardinality({j \in in : KeyLess(j, k)})
           at(i) == CHOOSE k \in in : rank(k) = i - 1
           got == ReadFromIndex(start, end)
<1>1. /\ DOMAIN ref \subseteq Nat /\ DOMAIN table = {Key(l) : l \in DOMAIN ref}
      /\ \A l \in DOMAIN ref : /\ ref[l] = [blk |-> ref[l].blk, csum |-> ref[l].csum]
                               /\ BlkId(table[Key(l)]) = ref[l].blk
                               /\ table[Key(l)].csum = ref[l].csum
  BY MapParts DEF Agrees
<1>2. in = {Key(l) : l \in want}
  <2>1. \A l \in DOMAIN ref : /\ KeyLess(Key(l), Key(start)) <=> l < start
                              /\ KeyLess(Key(end), Key(l)) <=> end < l
    BY <1>1, KeyOrder
  <2>2. \A l \in DOMAIN ref : /\ ~(l < start) <=> start <= l
                              /\ ~(end < l) <=> l <= end
    BY <1>1
  <2> QED
    BY <1>1, <2>1, <2>2
<1>3. IsFiniteSet(want) /\ want \subseteq Nat
  <2>1. IsFiniteSet(start .. end)
    BY FS_Interval
  <2>2. want \in SUBSET (start .. end)
    BY <1>1
  <2> QED
    BY <1>1, <2>1, <2>2, FS_Subset
<1>4. IsFiniteSet(in) /\ N = Cardinality(want)
  <2>1. K \in [want -> in] /\ \A x, y \in want : K[x] = K[y] => x = y
    BY <1>2, <1>3, KeyOneToOne
  <2>2. \A k \in in : \E x \in want : K[x] = k
    BY <1>2
  <2>3. K \in Bijection(want, in)
    BY <2>1, <2>2 DEF Bijection, Injection, Surjection, IsInjective
  <2>4. ExistsBijection(want, in)
    BY <2>3 DEF ExistsBijection
  <2> QED
    BY <1>3, <2>4, FS_Bijection
<1>5. \A k \in in : w[k] \in want /\ k = Key(w[k]) /\ w[k] \in Nat
  <2> SUFFICES ASSUME NEW k \in in
               PROVE  LbaOf(k) \in want /\ k = Key(LbaOf(k))
    BY <1>3
  <2>1. PICK l \in want : k = Key(l)
    BY <1>2
  <2>2. LbaOf(k) = l
    BY <1>3, <2>1, KeyParts
  <2> QED
    BY <2>1, <2>2
<1> HIDE DEF in, w, want
<1>6. \A j, k \in in : KeyLess(j, k) <=> w[j] < w[k]
  BY <1>5, KeyOrder
<1>7. /\ \A i \in 1 .. N : \E k \in in : rank(k) = i - 1
      /\ \A j, k \in in : rank(j) < rank(k) => w[j] < w[k]
  <2>1. w \in [in -> Nat]
    BY <1>5 DEF w
  <2>2. \A j, k \in in : w[j] = w[k] => j = k
    BY <1>5
  <2>3. \A k \in in : {j \in in : KeyLess(j, k)} = {j \in in : w[j] < w[k]}
    BY <1>6
  <2>4. /\ \A i \in 1 .. N : \E k \in in : Cardinality({j \in in : w[j] < w[k]}) = i - 1
        /\ \A j, k \in in : Cardinality({x \in in : w[x] < w[j]}) < Cardinality({x \in in : w[x] < w[k]})
                               => w[j] < w[k]
    BY <1>4, <2>1, <2>2, Ranking
  <2> QED
    BY <2>3, <2>4
<1>8. \A i \in 1 .. N : at(i) \in in /\ rank(at(i)) = i - 1
  BY <1>7
<1>9. N \in Nat
  BY <1>4, FS_CardinalityType
<1>10. got = [i \in 1 .. N |-> [lba |-> LbaOf(at(i)), blk |-> BlkId(table[at(i)]),
                                csum |-> table[at(i)].csum]]
  BY DEF ReadFromIndex, in
<1> HIDE DEF rank, at, N, got
<1>11. Len(got) = N /\ DOMAIN got = 1 .. N
  BY <1>9, <1>10
<1>12. \A i \in 1 .. N : /\ got[i].lba = w[at(i)] /\ got[i].blk = BlkId(table[at(i)])
                         /\ got[i].csum = table[at(i)].csum
  BY <1>8, <1>10 DEF w
<1>13. ASSUME NEW i \in 1 .. N
       PROVE  /\ got[i].lba \in want
              /\ ref[got[i].lba] = [blk |-> got[i].blk, csum |-> got[i].csum]
  <2>1. PICK l \in want : w[at(i)] = l /\ at(i) = Key(l)
    BY <1>5, <1>8
  <2>2. l \in DOMAIN ref
    BY DEF want
  <2> QED
    BY <1>1, <1>12, <2>1, <2>2
<1>14. ASSUME NEW i \in 1 .. N, i > 1
       PROVE  got[i - 1].lba < got[i].lba
  <2>1. i - 1 \in 1 .. N
    BY <1>9, <1>14
  <2>2. rank(at(i - 1)) = i - 1 - 1 /\ rank(at(i)) = i - 1 /\ at(i - 1) \in in /\ at(i) \in in
    BY <1>8, <2>1
  <2>3. rank(at(i - 1)) < rank(at(i))
    BY <1>9, <2>2
  <2>4. w[at(i - 1)] < w[at(i)]
    BY <1>7, <2>2, <2>3
  <2> QED
    BY <1>12, <2>1, <2>4
<1> QED
  BY <1>4, <1>11, <1>13, <1>14 DEF got, want

-----------------------------------------------------------------------------
(* The lemmas about requests and entries that the steps need. *)

(* A request and its journal entry are the same write. *)
(* What is said of a write is said of the same write. *)
LEMMA SameWriteParts ==
    ASSUME NEW e, NEW r, SameWrite(e, r)
    PROVE  /\ WriteOK(e) <=> WriteOK(r)
           /\ \A n, m : /\ Lbas(e, n, m) = Lbas(r, n, m) /\ Given(e, n, m) = Given(r, n, m)
                        /\ IsExtent(e, n, m) <=> IsExtent(r, n, m)
                        /\ InBase(e, n, m) <=> InBase(r, n, m)
           /\ \A n : Begins(e, n) <=> Begins(r, n)
           /\ \A d : InBaseUpTo(e, d) <=> InBaseUpTo(r, d)
           /\ New(e) = New(r) /\ Info(e) = Info(r)
<1>1. WriteOK(e) <=> WriteOK(r)
  BY DEF SameWrite, WriteOK
<1>2. ASSUME NEW n, NEW m
      PROVE  /\ Lbas(e, n, m) = Lbas(r, n, m) /\ Given(e, n, m) = Given(r, n, m)
             /\ IsExtent(e, n, m) <=> IsExtent(r, n, m)
             /\ InBase(e, n, m) <=> InBase(r, n, m)
  <2>1. Lbas(e, n, m) = Lbas(r, n, m)
    BY DEF SameWrite, Lbas
  <2>2. Given(e, n, m) = Given(r, n, m)
    BY <2>1 DEF SameWrite, Given
  <2> QED
    BY <2>1, <2>2 DEF SameWrite, IsExtent, InBase
<1>3. \A n : Begins(e, n) <=> Begins(r, n)
  BY DEF SameWrite, Begins
<1>4. \A d : InBaseUpTo(e, d) <=> InBaseUpTo(r, d)
  BY <1>2, <1>3 DEF InBaseUpTo
<1>5. New(e) = New(r)
  BY DEF SameWrite, New
<1>6. Info(e) = Info(r)
  BY <1>2 DEF SameWrite, Info
<1> QED
  BY <1>1, <1>2, <1>3, <1>4, <1>5, <1>6

(* The entries and the maps of the histories. *)
LEMMA HistoryParts ==
    ASSUME Typed
    PROVE  /\ \A i \in 1 .. Len(journal) :
                 /\ journal[i] \in Entry /\ WriteOK(journal[i])
                 /\ InBaseUpTo(journal[i], journal[i].nlbas)
                 /\ journal[i].nlbas \in Nat \ {0}
           /\ \A i \in 1 .. Len(recover) : recover[i] \in Map
           /\ Len(journal) \in Nat /\ Len(recover) \in Nat \ {0} /\ Len(recover) \in 1 .. Len(recover)
           /\ disk.lsn \in Nat /\ disk.lsn + Len(recover) = Len(journal) + 1
           /\ Last \in Map
<1>0. /\ journal \in Seq(Entry) /\ recover \in Seq(Map)
      /\ disk.lsn \in 0 .. Len(journal) /\ Len(recover) = Len(journal) - disk.lsn + 1
  BY DEF Typed
<1>1. /\ Len(journal) \in Nat /\ Len(recover) \in Nat /\ disk.lsn \in Nat
      /\ Len(recover) = Len(journal) - disk.lsn + 1 /\ disk.lsn <= Len(journal)
  BY <1>0
<1>2. Len(recover) \in Nat \ {0} /\ Len(recover) \in 1 .. Len(recover)
      /\ disk.lsn + Len(recover) = Len(journal) + 1
  BY <1>1
<1>3. \A i \in 1 .. Len(recover) : recover[i] \in Map
  BY <1>0
<1>4. ASSUME NEW i \in 1 .. Len(journal)
      PROVE  /\ journal[i] \in Entry /\ WriteOK(journal[i])
             /\ InBaseUpTo(journal[i], journal[i].nlbas)
             /\ journal[i].nlbas \in Nat \ {0}
  <2>1. journal[i] \in Entry
    BY <1>0
  <2> QED
    BY <2>1 DEF Entry, WriteOK
<1> QED
  BY <1>1, <1>2, <1>3, <1>4 DEF Last

(* Agreement only looks at the domain and the cells of a map. *)
LEMMA AgreesSame ==
    ASSUME NEW t, NEW f, NEW g, Agrees(t, f), DOMAIN f = DOMAIN g,
           \A l \in DOMAIN f : f[l] = g[l]
    PROVE  Agrees(t, g)
BY DEF Agrees

(* Giving the lbas of a write in two parts is giving them at once. *)
LEMMA GivenJoin ==
    ASSUME NEW e, WriteOK(e), NEW n \in 0 .. e.nlbas, NEW m \in 0 .. e.nlbas, n <= m, NEW f
    PROVE  LET g == Over(Given(e, n, m), Over(Given(e, 0, n), f))
               h == Over(Given(e, 0, m), f)
           IN  DOMAIN g = DOMAIN h /\ \A l \in DOMAIN g : g[l] = h[l]
<1> e.lba \in Nat /\ e.nlbas \in Nat
  BY DEF WriteOK
<1>1. Lbas(e, 0, m) = Lbas(e, 0, n) \cup Lbas(e, n, m)
  BY DEF Lbas
<1> QED
  BY <1>1 DEF Over, Given

(* The old blocks that num_old_blks counts: all of them while 16 bits do. *)
LEMMA ListingParts ==
    ASSUME NEW S, IsFiniteSet(S), S \subseteq AllBlocks, NEW list \in Listings(S)
    PROVE  /\ list \in Seq(AllBlocks)
           /\ NumOld(Cardinality(S)) \in Nat
           /\ {list[i] : i \in 1 .. NumOld(Cardinality(S))} \subseteq S
           /\ Cardinality(S) < U16 => {list[i] : i \in 1 .. NumOld(Cardinality(S))} = S
<1>1. PICK n \in Nat, u \in Nat \ {0} : n = Cardinality(S) /\ u = U16
  BY FS_CardinalityType, WidthAssumption
<1>2. PICK d \in Nat, c \in 0 .. u - 1 : c = n % u /\ n = d * u + c
  BY DivModParts
<1>3. c \in Nat /\ c <= n /\ (n < u => c = n) /\ NumOld(Cardinality(S)) = c
  <2>1. d * u \in Nat
    OBVIOUS
  <2>2. n < u => n % u = n
    OBVIOUS
  <2> QED
    BY <1>1, <1>2, <2>1, <2>2 DEF NumOld
<1>4. list \in [1 .. n -> S] /\ \A t \in S : \E i \in 1 .. n : list[i] = t
  BY <1>1 DEF Listings, Surjection
<1>5. list \in Seq(AllBlocks)
  BY <1>4
<1>6. {list[i] : i \in 1 .. c} \subseteq S
  BY <1>3, <1>4
<1>7. {list[i] : i \in 1 .. n} = S
  BY <1>4
<1> QED
  BY <1>1, <1>3, <1>5, <1>6, <1>7

(* A put of m - n lbas finds at most m - n old blocks. *)
LEMMA FoundBound ==
    ASSUME NEW e, WriteOK(e), NEW n \in 0 .. e.nlbas, NEW m \in 0 .. e.nlbas, n < m,
           NEW f, NEW S, S = {f[l].blk : l \in Lbas(e, n, m) \cap DOMAIN f}
    PROVE  IsFiniteSet(S) /\ Cardinality(S) \in Nat /\ Cardinality(S) <= m - n
<1> DEFINE D == Lbas(e, n, m) \cap DOMAIN f
           h == [l \in D |-> f[l].blk]
<1> e.lba \in Nat /\ e.nlbas \in Nat
  BY DEF WriteOK
<1>1. IsFiniteSet(Lbas(e, n, m)) /\ Cardinality(Lbas(e, n, m)) = m - n
  <2>1. PICK a \in Int, b \in Int : a = e.lba + n /\ b = e.lba + m - 1 /\ a <= b /\ b - a + 1 = m - n
    OBVIOUS
  <2>2. IsFiniteSet(a .. b) /\ Cardinality(a .. b) = b - a + 1
    <3>1. IsFiniteSet(a .. b) /\ Cardinality(a .. b) = IF a > b THEN 0 ELSE b - a + 1
      BY ONLY a \in Int, b \in Int, FS_Interval
    <3> QED
      BY <2>1, <3>1
  <2> QED
    BY <2>1, <2>2 DEF Lbas
<1>2. IsFiniteSet(D) /\ Cardinality(D) <= m - n
  BY <1>1, FS_Subset
<1>3. h \in Surjection(D, S)
  BY DEF Surjection
<1>4. IsFiniteSet(S) /\ Cardinality(S) <= Cardinality(D)
  BY <1>2, <1>3, FS_Surjection
<1>5. Cardinality(S) \in Nat /\ Cardinality(D) \in Nat
  BY <1>2, <1>4, FS_CardinalityType
<1> QED
  BY <1>2, <1>4, <1>5

-----------------------------------------------------------------------------
(* Types and agreement are preserved, action by action. *)

Inv1 == Typed /\ IndexAgrees

(* The first lba and the number of lbas of a write of bytes. *)
LEMMA ByteRange ==
    ASSUME NEW addr \in Addresses, NEW len \in 1 .. BlkSize * MaxLen
    PROVE  addr \div BlkSize \in Nat /\ (len \div BlkSize) % U32 \in 0 .. MaxLen
<1> U32 \in Nat \ {0} /\ BlkSize \in Nat \ {0} /\ MaxLen \in Nat /\ BlkSize * MaxLen \in Nat
  BY WidthAssumption, LengthAssumption
<1>1. addr \in Nat
  <2>1. PICK l \in Lba : addr \in BlkSize * l .. BlkSize * l + BlkSize - 1
    BY DEF Addresses
  <2>2. l \in Nat /\ BlkSize * l \in Nat
    BY RangeAssumption
  <2> QED
    BY <2>1, <2>2
<1>2. PICK q \in Nat, r \in 0 .. BlkSize - 1 : q = len \div BlkSize /\ len = q * BlkSize + r
  BY DivModParts
<1>3. q <= MaxLen
  <2> SUFFICES ASSUME q >= MaxLen + 1
               PROVE  FALSE
    OBVIOUS
  <2>1. q * BlkSize >= (MaxLen + 1) * BlkSize
    OBVIOUS
  <2>2. (MaxLen + 1) * BlkSize = BlkSize * MaxLen + BlkSize /\ q * BlkSize \in Nat
    OBVIOUS
  <2> QED
    BY <1>2, <2>1, <2>2
<1>4. q % U32 \in Nat /\ q % U32 <= q
  <2>1. PICK d \in Nat, c \in 0 .. U32 - 1 : c = q % U32 /\ q = d * U32 + c
    BY DivModParts
  <2>2. d * U32 \in Nat
    OBVIOUS
  <2> QED
    BY <2>1, <2>2
<1>5. addr \div BlkSize \in Nat
  BY <1>1, DivModParts
<1> QED
  BY <1>2, <1>3, <1>4, <1>5

(* The request that async_write begins. *)
LEMMA NewRequest ==
    ASSUME NEW first \in Nat, NEW n \in 0 .. MaxLen, NEW a \in Allocations(n), NEW w \in Nat,
           NEW r, r = [stage |-> "data", lba |-> first, nlbas |-> n,
                       blks |-> a.blks, ends |-> a.ends,
                       csums |-> [i \in 1 .. n |-> <<w, first + i - 1>>],
                       old |-> {}, done |-> 0]
    PROVE  Live(r)
<1> MaxLen \in Nat
  BY LengthAssumption
<1>1. /\ a.blks \in Injection(1 .. n, AllBlocks \ (bitmap \cup held)) /\ a.ends \in SUBSET (1 .. n)
      /\ n \in a.ends /\ Contiguous(a.blks, a.ends)
  BY DEF Allocations
<1>2. n \in 1 .. MaxLen
  BY <1>1
<1>3. /\ a.blks \in [1 .. n -> AllBlocks \ (bitmap \cup held)]
      /\ a.blks \in Injection(1 .. n, AllBlocks)
  BY <1>1 DEF Injection
<1>4. a.blks \in Seq(AllBlocks)
  BY <1>2, <1>3
<1>5. PICK c : c = [i \in 1 .. n |-> <<w, first + i - 1>>]
  OBVIOUS
<1>6. c \in [1 .. n -> Csum] /\ c \in Seq(Csum)
  <2>1. \A i \in 1 .. n : first + i - 1 \in Nat
    BY <1>2
  <2>2. c \in [1 .. n -> Csum]
    BY <1>5, <2>1 DEF Csum
  <2> QED
    BY <1>2, <2>2
<1>7. /\ r.stage = "data" /\ r.lba = first /\ r.nlbas = n /\ r.blks = a.blks /\ r.ends = a.ends
      /\ r.csums = c /\ r.old = {} /\ r.done = 0
  BY <1>5
<1>8. r \in Request
  <2>1. /\ n \in Nat /\ a.ends \in SUBSET Nat /\ {} \in SUBSET AllBlocks
        /\ "data" \in {"data", "index", "journal"}
    BY <1>1, <1>2
  <2>2. r = [stage |-> "data", lba |-> first, nlbas |-> n, blks |-> a.blks, ends |-> a.ends,
             csums |-> c, old |-> {}, done |-> 0]
    BY <1>5
  <2> QED
    BY ONLY first \in Nat, <1>4, <1>6, <2>1, <2>2 DEF Request
<1>9. WriteOK(r)
  BY <1>1, <1>2, <1>3, <1>6, <1>7 DEF WriteOK
<1>10. Begins(r, 0) /\ InBaseUpTo(r, 0)
  BY <1>7, <1>2 DEF Begins, InBaseUpTo, IsExtent
<1>11. IsFiniteSet({}) /\ Cardinality({}) = 0
  BY FS_EmptySet
<1> QED
  BY <1>7, <1>8, <1>9, <1>10, <1>11 DEF Live

(* A step that leaves the store, the recovery and the maps alone. *)
LEMMA RequestStep ==
    ASSUME Inv1, req' = Idle \/ Live(req'), req'.stage # "journal", phase = "up",
           UNCHANGED <<table, journal, disk, replay, ref, recover, early>>,
           writes' \in Nat, torn' \in BOOLEAN, leak' \in {"none", "until restart", "for good"}
    PROVE  Inv1'
<1>1. Typed'
  BY DEF Inv1, Typed, replay, Journaled
<1>2. /\ Agrees(disk.table, recover[1])' /\ Recoverable' /\ (Agrees(table, ref) /\ put = 0)'
  BY DEF Inv1, IndexAgrees, replay, Agrees, Recoverable
<1> QED
  BY <1>1, <1>2 DEF Inv1, IndexAgrees, replay

(* A request that is not idle is a live one, and the scalars have their types. *)
LEMMA TypedParts ==
    ASSUME Typed
    PROVE  /\ req.stage # "idle" => Live(req)
           /\ req = Idle <=> req.stage = "idle"
           /\ writes \in Nat /\ lsn \in Nat /\ put \in Nat /\ ref \in Map
           /\ torn \in BOOLEAN /\ disk.torn \in BOOLEAN /\ early \in BOOLEAN
           /\ leak \in {"none", "until restart", "for good"}
<1>1. req = Idle \/ Live(req)
  BY DEF Typed
<1>2. Idle.stage = "idle"
  BY DEF Idle
<1>3. /\ writes \in Nat /\ lsn \in Nat /\ put \in Nat /\ ref \in Map
      /\ torn \in BOOLEAN /\ disk.torn \in BOOLEAN /\ early \in BOOLEAN
      /\ leak \in {"none", "until restart", "for good"}
  BY DEF Typed
<1>4. Live(req) => req.stage # "idle"
  BY DEF Live, Request
<1> QED
  BY <1>1, <1>2, <1>3, <1>4

(* Init: everything is empty. *)
LEMMA Inv1Init == Init => Inv1
<1> SUFFICES ASSUME Init PROVE Inv1
  OBVIOUS
<1>1. Empty \in Map /\ DOMAIN Empty = {}
  <2>1. Empty \in [{} -> Cell] /\ {} \in SUBSET Nat
    BY DEF Empty
  <2> QED
    BY <2>1 DEF Map, Empty
<1>2. Agrees(Empty, Empty)
  BY <1>1 DEF Agrees
<1>3. /\ disk.table = Empty /\ disk.lsn = 0 /\ disk.torn = FALSE /\ journal = << >>
      /\ recover = <<Empty>>
  BY DEF Init
<1>4. /\ Len(recover) = 1 /\ recover[1] = Empty /\ recover \in Seq(Map)
      /\ Len(journal) = 0 /\ journal \in Seq(Entry)
  BY <1>1, <1>3
<1>5. disk.lsn \in 0 .. Len(journal) /\ Len(recover) = Len(journal) - disk.lsn + 1
  BY <1>3, <1>4
<1>6. Typed
  BY <1>1, <1>3, <1>4, <1>5 DEF Init, Typed, Journaled, Idle
<1>7. IndexAgrees
  BY <1>2, <1>3, <1>4 DEF Init, IndexAgrees, Recoverable
<1> QED
  BY <1>6, <1>7 DEF Inv1

(* async_write. *)
LEMMA Inv1AsyncWrite ==
    ASSUME Inv1, NEW addr \in Addresses, NEW len \in 1 .. BlkSize * MaxLen, AsyncWrite(addr, len)
    PROVE  Inv1'
<1>1. /\ addr \div BlkSize \in Nat /\ (len \div BlkSize) % U32 \in 0 .. MaxLen
  BY ByteRange
<1>2. writes' \in Nat
  <2>1. writes' = writes + 1
    BY DEF AsyncWrite
  <2>2. writes \in Nat
    BY TypedParts DEF Inv1
  <2> QED
    BY <2>1, <2>2
<1>3. Live(req')
  <2> DEFINE first == addr \div BlkSize
             n == (len \div BlkSize) % U32
  <2>1. PICK a \in Allocations(n) :
           req' = [stage |-> "data", lba |-> first, nlbas |-> n, blks |-> a.blks, ends |-> a.ends,
                   csums |-> [i \in 1 .. n |-> <<writes', first + i - 1>>], old |-> {}, done |-> 0]
    BY DEF AsyncWrite
  <2> HIDE DEF first, n
  <2> QED
    BY <1>1, <1>2, <2>1, NewRequest DEF first, n
<1>4. req'.stage = "data"
  BY DEF AsyncWrite
<1> QED
  BY <1>2, <1>3, <1>4, RequestStep DEF AsyncWrite, history, Inv1, Typed

(* The data write ends, or fails. *)
LEMMA Inv1Data ==
    ASSUME Inv1, DataWritten \/ DataFails
    PROVE  Inv1'
<1>1. CASE DataWritten
  <2>1. Live(req) /\ req.stage = "data"
    BY <1>1, TypedParts DEF DataWritten, Inv1
  <2>2. PICK r : r = [req EXCEPT !.stage = "index"]
    OBVIOUS
  <2>3. r \in Request /\ r.stage = "index" /\ r.old = req.old /\ r.done = req.done /\ SameWrite(r, req)
    BY <2>1, <2>2 DEF Live, Request, SameWrite
  <2>4. Live(r)
    BY <2>1, <2>3, SameWriteParts DEF Live
  <2> QED
    BY <1>1, <2>2, <2>3, <2>4, RequestStep DEF DataWritten, store, history, bounds, Inv1, Typed
<1>2. CASE DataFails
  <2>1. leak' \in {"none", "until restart", "for good"}
    BY <1>2 DEF DataFails, LeakUntilRestart, Inv1, Typed
  <2> QED
    BY <1>2, <2>1, RequestStep DEF DataFails, store, bounds, Inv1, Typed, Idle
<1> QED
  BY <1>1, <1>2

(* The commit of an entry, and an assertion, leave the index alone. *)
LEMMA Inv1Commit ==
    ASSUME Inv1, Commit
    PROVE  Inv1'
BY RequestStep DEF Commit, history, bounds, Inv1, Typed, Idle

(* A put that asserts leaves everything as it is. *)
LEMMA Inv1Asserts ==
    ASSUME Inv1, NEW m, WriteToIndexAsserts(m)
    PROVE  Inv1'
<1>1. /\ phase' = "aborted"
      /\ UNCHANGED <<table, journal, disk, req, lsn, put, ref, recover, torn, leak, early, writes>>
  BY DEF WriteToIndexAsserts, store, history, bounds
<1>2. Typed'
  BY <1>1 DEF Inv1, Typed, Journaled, SameWrite
<1>3. Agrees(disk.table, recover[1])' /\ Recoverable'
  BY <1>1 DEF Inv1, IndexAgrees, Agrees, Recoverable
<1> QED
  BY <1>1, <1>2, <1>3 DEF Inv1, IndexAgrees

(* A put of the next extent, or of its first k lbas, keeps the agreement. *)
LEMMA PutStep ==
    ASSUME Inv1, NEW m, PutReady(m), InBase(req, req.done, m), NEW k \in 0 .. m - req.done
    PROVE  /\ Live(req) /\ m \in 1 .. req.nlbas /\ req.done \in 0 .. req.nlbas /\ req.done < m
           /\ req.done + k \in 0 .. req.nlbas
           /\ Given(req, req.done, req.done + k) \in Map
           /\ Over(Given(req, req.done, req.done + k), ref) \in Map
           /\ Agrees(PutRange(table, req.lba + req.done, k, Info(req)),
                     Over(Given(req, req.done, req.done + k), ref))
<1>1. Live(req)
  BY TypedParts DEF Inv1, PutReady
<1>2. WriteOK(req) /\ req.done \in 0 .. req.nlbas /\ IsExtent(req, req.done, m)
  BY <1>1 DEF Live, Begins, PutReady
<1>3. m \in 1 .. req.nlbas /\ req.done < m /\ req.nlbas \in Nat
  BY <1>2 DEF IsExtent, WriteOK
<1>4. req.done + k \in 0 .. req.nlbas
  BY <1>2, <1>3
<1>5. ref \in Map /\ Agrees(table, ref)
  BY TypedParts DEF Inv1, IndexAgrees, PutReady
<1>6. Given(req, req.done, req.done + k) \in Map
  BY <1>2, <1>4, GivenParts
<1>7. Over(Given(req, req.done, req.done + k), ref) \in Map
  BY <1>5, <1>6, OverMap
<1>8. m \in 0 .. req.nlbas
  BY <1>3
<1>9. Agrees(PutRange(table, req.lba + req.done, k, Info(req)),
             Over(Given(req, req.done, req.done + k), ref))
  BY <1>2, <1>5, <1>8, PutAgrees
<1> QED
  BY <1>1, <1>2, <1>3, <1>4, <1>6, <1>7, <1>9

(* A step that puts to the index. *)
LEMMA IndexStep ==
    ASSUME Inv1, req' = Idle \/ Live(req'), req'.stage # "journal", phase = "up",
           ref' \in Map, Agrees(table, ref)',
           UNCHANGED <<journal, disk, replay, recover, early, writes>>,
           torn' \in BOOLEAN, leak' \in {"none", "until restart", "for good"}
    PROVE  Inv1'
<1>1. Typed'
  BY DEF Inv1, Typed, replay, Journaled
<1>2. Agrees(disk.table, recover[1])' /\ Recoverable'
  BY DEF Inv1, IndexAgrees, Agrees, Recoverable
<1> QED
  BY <1>1, <1>2 DEF Inv1, IndexAgrees, replay

(* The extents put so far and the next one lie each in a base. *)
LEMMA NextInBase ==
    ASSUME NEW e, WriteOK(e), NEW d, Begins(e, d), InBaseUpTo(e, d),
           NEW m, IsExtent(e, d, m), InBase(e, d, m)
    PROVE  Begins(e, m) /\ InBaseUpTo(e, m)
<1>1. /\ e.nlbas \in Nat /\ d \in 0 .. e.nlbas /\ m \in 1 .. e.nlbas /\ d < m /\ m \in e.ends
      /\ (d + 1 .. m - 1) \cap e.ends = {} /\ (d = 0 \/ d \in e.ends)
  BY DEF WriteOK, Begins, IsExtent
<1>2. ASSUME NEW x \in 0 .. m, NEW y \in 0 .. m, Begins(e, x), IsExtent(e, x, y)
      PROVE  InBase(e, x, y)
  <2>1. y \in e.ends /\ x < y /\ (x + 1 .. y - 1) \cap e.ends = {} /\ (x = 0 \/ x \in e.ends)
    BY <1>2 DEF Begins, IsExtent
  <2>2. CASE y <= d
    BY <1>1, <1>2, <2>1, <2>2 DEF InBaseUpTo
  <2>3. CASE y > d
    <3>1. y = m
      <4>1. y \notin d + 1 .. m - 1
        BY <1>1, <2>1
      <4> QED
        BY <1>1, <2>3, <4>1
    <3>2. ~(x < d)
      <4> SUFFICES ASSUME x < d
                   PROVE  FALSE
        OBVIOUS
      <4>1. d \in e.ends /\ d \in x + 1 .. y - 1
        BY <1>1, <2>3
      <4> QED
        BY <2>1, <4>1
    <3>3. ~(x > d)
      <4> SUFFICES ASSUME x > d
                   PROVE  FALSE
        OBVIOUS
      <4>1. x \in e.ends /\ x \in d + 1 .. m - 1
        BY <1>1, <2>1
      <4> QED
        BY <1>1, <4>1
    <3>4. x = d
      BY <1>1, <3>2, <3>3
    <3> QED
      BY <3>1, <3>4
  <2> QED
    BY <1>1, <2>2, <2>3
<1>3. InBaseUpTo(e, m)
  BY <1>2 DEF InBaseUpTo
<1>4. Begins(e, m)
  BY <1>1 DEF Begins
<1> QED
  BY <1>3, <1>4

(* The request after a put. *)
LEMMA PutRequest ==
    ASSUME Inv1, NEW m, WriteToIndex(m)
    PROVE  /\ Live(req') /\ SameWrite(req', req) /\ req'.stage = "index" /\ req'.done = m
           /\ req'.old = req.old \cup {ref[l].blk : l \in Lbas(req, req.done, m) \cap DOMAIN ref}
<1> DEFINE F == {ref[l].blk : l \in Lbas(req, req.done, m) \cap DOMAIN ref}
<1>1. PutReady(m) /\ InBase(req, req.done, m)
  BY DEF WriteToIndex
<1>2. /\ Live(req) /\ WriteOK(req) /\ m \in 1 .. req.nlbas /\ req.done \in 0 .. req.nlbas /\ req.done < m
      /\ req.stage = "index" /\ IsExtent(req, req.done, m) /\ m \in 0 .. req.nlbas /\ req.nlbas \in Nat
  <2>1. Live(req)
    BY <1>1, TypedParts DEF Inv1, PutReady
  <2>2. WriteOK(req) /\ req.done \in 0 .. req.nlbas /\ IsExtent(req, req.done, m) /\ req.stage = "index"
    BY <1>1, <2>1 DEF Live, Begins, PutReady
  <2> QED
    BY <2>1, <2>2 DEF IsExtent, WriteOK
<1>3. ref \in Map /\ Agrees(table, ref)
  BY <1>1, TypedParts DEF Inv1, IndexAgrees, PutReady
<1>4. Found(table, req.lba + req.done, m - req.done) = F
  <2>1. \A e, n, t, f : (/\ WriteOK(e) /\ n \in 0 .. e.nlbas /\ m \in 0 .. e.nlbas
                            /\ IsExtent(e, n, m) /\ InBase(e, n, m) /\ f \in Map /\ Agrees(t, f))
            => Found(t, e.lba + n, m - n) = {f[l].blk : l \in Lbas(e, n, m) \cap DOMAIN f}
    BY FoundAgrees
  <2> QED
    BY <1>1, <1>2, <1>3, <2>1
<1>5. IsFiniteSet(F) /\ Cardinality(F) \in Nat /\ Cardinality(F) <= m - req.done
  BY <1>2, FoundBound
<1>6. F \subseteq AllBlocks
  BY <1>3, MapParts
<1> HIDE DEF F
<1>7. PICK r : r = [req EXCEPT !.old = req.old \cup F, !.done = m]
  OBVIOUS
<1>8. req' = r
  BY <1>4, <1>7 DEF WriteToIndex
<1>9. /\ req \in Request /\ req.old \in SUBSET AllBlocks
      /\ IsFiniteSet(req.old) /\ Cardinality(req.old) <= req.done
  BY <1>2 DEF Live, Request
<1>10. m \in Nat /\ req.old \cup F \in SUBSET AllBlocks
  BY <1>2, <1>6, <1>9
<1>11. r \in Request /\ r.stage = "index" /\ r.old = req.old \cup F /\ r.done = m /\ SameWrite(r, req)
  BY <1>2, <1>7, <1>9, <1>10 DEF Request, SameWrite
<1>12. IsFiniteSet(r.old) /\ Cardinality(r.old) <= r.done
  <2>1. /\ IsFiniteSet(req.old \cup F)
        /\ Cardinality(req.old \cup F) = Cardinality(req.old) + Cardinality(F) - Cardinality(req.old \cap F)
    BY <1>5, <1>9, FS_Union
  <2>2. Cardinality(req.old) \in Nat /\ Cardinality(req.old \cap F) \in Nat
    BY <1>5, <1>9, FS_CardinalityType, FS_Intersection
  <2>3. Cardinality(req.old \cup F) <= m
    BY <1>2, <1>5, <1>9, <2>1, <2>2
  <2> QED
    BY <1>11, <2>1, <2>3
<1>13. Begins(req, m) /\ InBaseUpTo(req, m)
  BY <1>1, <1>2, NextInBase DEF Live
<1>14. Live(r)
  BY <1>2, <1>11, <1>12, <1>13, SameWriteParts DEF Live
<1> QED
  BY <1>8, <1>11, <1>14 DEF F

(* write_to_index, whole or in part. *)
LEMMA Inv1WriteToIndex ==
    ASSUME Inv1, NEW m, WriteToIndex(m) \/ \E n \in 0 .. MaxLen - 1 : WriteToIndexFails(m, n)
    PROVE  Inv1'
<1>1. CASE WriteToIndex(m)
  <2>1. PutReady(m) /\ InBase(req, req.done, m) /\ phase = "up"
    BY <1>1 DEF WriteToIndex, PutReady
  <2>2. req.done \in Nat /\ m \in Nat /\ req.done < m
    <3>1. Live(req)
      BY <2>1, TypedParts DEF Inv1, PutReady
    <3> QED
      BY <2>1, <3>1 DEF Live, Begins, PutReady, IsExtent, WriteOK
  <2>3. PICK k \in 0 .. m - req.done : k = m - req.done /\ req.done + k = m
    BY <2>2
  <2>4. /\ Over(Given(req, req.done, m), ref) \in Map
        /\ Agrees(PutRange(table, req.lba + req.done, m - req.done, Info(req)),
                  Over(Given(req, req.done, m), ref))
    BY <2>1, <2>3, PutStep
  <2>5. ref' \in Map /\ Agrees(table', ref')
    BY <1>1, <2>4 DEF WriteToIndex
  <2>6. Live(req') /\ req'.stage = "index"
    BY <1>1, PutRequest
  <2>7. UNCHANGED <<journal, disk, replay, recover, writes, torn, leak, early>>
    BY <1>1 DEF WriteToIndex, bounds
  <2> QED
    BY <2>1, <2>5, <2>6, <2>7, IndexStep, TypedParts DEF Inv1, Agrees
<1>2. ASSUME NEW n \in 0 .. MaxLen - 1, WriteToIndexFails(m, n)
      PROVE  Inv1'
  <2>1. PutReady(m) /\ InBase(req, req.done, m) /\ phase = "up" /\ n < m - req.done
    BY <1>2 DEF WriteToIndexFails, PutReady
  <2>2. req.done \in Nat /\ m \in Nat /\ req.done < m /\ MaxLen \in Nat
    <3>1. Live(req)
      BY <2>1, TypedParts DEF Inv1, PutReady
    <3> QED
      BY <2>1, <3>1, LengthAssumption DEF Live, Begins, PutReady, IsExtent, WriteOK
  <2>3. n \in 0 .. m - req.done
    BY <2>1, <2>2
  <2>4. /\ Over(Given(req, req.done, req.done + n), ref) \in Map
        /\ Agrees(PutRange(table, req.lba + req.done, n, Info(req)),
                  Over(Given(req, req.done, req.done + n), ref))
    BY <2>1, <2>3, PutStep
  <2>5. ref' \in Map /\ Agrees(table', ref')
    BY <1>2, <2>4 DEF WriteToIndexFails
  <2>6. req' = Idle /\ req'.stage = "idle" /\ UNCHANGED <<journal, disk, replay, recover, early, writes>>
    BY <1>2 DEF WriteToIndexFails, bounds, Idle
  <2>7. torn' \in BOOLEAN /\ leak' \in {"none", "until restart", "for good"}
    BY <1>2, TypedParts DEF WriteToIndexFails, LeakUntilRestart, Inv1
  <2> QED
    BY <2>1, <2>5, <2>6, <2>7, IndexStep DEF Agrees
<1> QED
  BY <1>1, <1>2

(* The entry that WriteJournal appends: the request's write, of whose old    *)
(* blocks it frees all that 16 bits count.                                   *)
LEMMA JournalEntry ==
    ASSUME Inv1, WriteJournal
    PROVE  \E e \in Entry : /\ journal' = Append(journal, e)
                            /\ SameWrite(e, req) /\ Freed(e) \subseteq req.old
                            /\ Cardinality(req.old) < U16 => Freed(e) = req.old
<1>1. Live(req) /\ WriteOK(req) /\ req.done = req.nlbas
  BY TypedParts DEF Inv1, WriteJournal, Live
<1>2. PICK list \in Listings(req.old) :
         journal' = Append(journal, [lba |-> req.lba, nlbas |-> req.nlbas,
                                     num_old |-> NumOld(Cardinality(req.old)),
                                     csums |-> req.csums, old |-> list,
                                     blks |-> req.blks, ends |-> req.ends])
  BY DEF WriteJournal
<1>3. PICK e : e = [lba |-> req.lba, nlbas |-> req.nlbas, num_old |-> NumOld(Cardinality(req.old)),
                    csums |-> req.csums, old |-> list, blks |-> req.blks, ends |-> req.ends]
  OBVIOUS
<1>4. /\ e.lba = req.lba /\ e.nlbas = req.nlbas /\ e.csums = req.csums /\ e.blks = req.blks
      /\ e.ends = req.ends /\ e.old = list /\ e.num_old = NumOld(Cardinality(req.old))
  BY <1>3
<1>5. SameWrite(e, req)
  BY <1>4 DEF SameWrite
<1>6. IsFiniteSet(req.old) /\ req.old \subseteq AllBlocks
  BY <1>1 DEF Live, Request
<1>7. /\ list \in Seq(AllBlocks) /\ NumOld(Cardinality(req.old)) \in Nat
      /\ {list[i] : i \in 1 .. NumOld(Cardinality(req.old))} \subseteq req.old
      /\ Cardinality(req.old) < U16 => {list[i] : i \in 1 .. NumOld(Cardinality(req.old))} = req.old
  BY <1>6, ListingParts
<1>8. Freed(e) \subseteq req.old /\ (Cardinality(req.old) < U16 => Freed(e) = req.old)
  <2>1. Freed(e) = {list[i] : i \in 1 .. NumOld(Cardinality(req.old))}
    BY <1>4 DEF Freed
  <2> QED
    BY <1>7, <2>1
<1>9. WriteOK(e) /\ InBaseUpTo(e, e.nlbas)
  BY <1>1, <1>4, <1>5, SameWriteParts DEF Live
<1>10. e \in [lba : Nat, nlbas : Nat, num_old : Nat, csums : Seq(Csum),
              old : Seq(AllBlocks), blks : Seq(AllBlocks), ends : SUBSET Nat]
  <2>1. /\ req.lba \in Nat /\ req.nlbas \in Nat /\ req.csums \in Seq(Csum) /\ req.blks \in Seq(AllBlocks)
        /\ req.ends \in SUBSET Nat
    BY <1>1 DEF Live, Request
  <2> QED
    BY <1>3, <1>7, <2>1
<1>11. e \in Entry
  BY <1>4, <1>7, <1>9, <1>10 DEF Entry
<1> QED
  BY <1>2, <1>3, <1>5, <1>8, <1>11

(* async_write_journal. *)
LEMMA Inv1WriteJournal ==
    ASSUME Inv1, WriteJournal
    PROVE  Inv1'
<1> DEFINE N == Len(recover)
           r == Over(Info(req), recover[N])
<1>1. PICK e \in Entry : journal' = Append(journal, e) /\ SameWrite(e, req)
  BY JournalEntry
<1>2. /\ phase = "up" /\ recover' = Append(recover, r)
      /\ req' = [req EXCEPT !.stage = "journal"]
      /\ UNCHANGED <<table, disk, replay, ref, torn, early, writes>>
  BY DEF WriteJournal, bounds
<1>3. /\ Live(req) /\ WriteOK(req) /\ req.done = req.nlbas
      /\ req.nlbas \in 0 .. req.nlbas /\ 0 \in 0 .. req.nlbas
  <2>1. Live(req) /\ WriteOK(req) /\ req.done = req.nlbas
    BY TypedParts DEF Inv1, WriteJournal, Live
  <2> QED
    BY <2>1 DEF WriteOK
<1>4. /\ journal \in Seq(Entry) /\ recover \in Seq(Map) /\ Len(journal) \in Nat /\ N \in Nat \ {0}
      /\ disk.lsn \in Nat /\ disk.lsn <= Len(journal) /\ disk.lsn + N = Len(journal) + 1 /\ recover[N] \in Map
  <2>1. journal \in Seq(Entry) /\ recover \in Seq(Map) /\ disk.lsn \in 0 .. Len(journal)
    BY DEF Inv1, Typed
  <2>2. /\ Len(journal) \in Nat /\ N \in Nat \ {0} /\ disk.lsn \in Nat
        /\ disk.lsn + N = Len(journal) + 1 /\ recover[N] \in Map
    BY HistoryParts DEF Inv1
  <2> QED
    BY <2>1, <2>2
<1>5. r \in Map
  BY <1>3, <1>4, GivenParts, OverMap DEF Info
<1> HIDE DEF r
<1>6. /\ journal' \in Seq(Entry) /\ Len(journal') = Len(journal) + 1 /\ journal'[Len(journal) + 1] = e
      /\ \A i \in 1 .. Len(journal) : journal'[i] = journal[i]
  BY <1>1, <1>4
<1>7. /\ recover' \in Seq(Map) /\ Len(recover') = N + 1 /\ recover'[N + 1] = r
      /\ \A i \in 1 .. N : recover'[i] = recover[i]
  BY <1>2, <1>4, <1>5
<1>8. Live(req') /\ SameWrite(req', req)
  <2>1. PICK q : q = [req EXCEPT !.stage = "journal"]
    OBVIOUS
  <2>2. q \in Request /\ q.stage = "journal" /\ q.old = req.old /\ q.done = req.done /\ SameWrite(q, req)
    BY <1>3, <2>1 DEF Live, Request, SameWrite
  <2>3. q.nlbas = req.nlbas
    BY <2>2 DEF SameWrite
  <2>4. Live(q)
    BY <1>3, <2>2, <2>3, SameWriteParts DEF Live
  <2> QED
    BY <1>2, <2>1, <2>2, <2>4
<1>9. Typed'
  <2>1. disk'.lsn \in 0 .. Len(journal') /\ Len(recover') = Len(journal') - disk'.lsn + 1
    BY <1>2, <1>4, <1>6, <1>7
  <2>2. Journaled'
    <3>1. journal'[Len(journal')] = e /\ journal' # << >>
      BY <1>4, <1>6
    <3> QED
      BY <1>1, <1>8, <3>1 DEF Journaled, SameWrite
  <2>3. leak' \in {"none", "until restart", "for good"}
    BY TypedParts DEF WriteJournal, Inv1
  <2> QED
    BY <1>2, <1>6, <1>7, <1>8, <2>1, <2>2, <2>3 DEF Inv1, Typed, replay
<1>10. Agrees(disk.table, recover[1])' /\ (Agrees(table, ref) /\ put = 0)'
  <2>1. 1 \in 1 .. N
    BY <1>4
  <2> QED
    BY <1>2, <1>7, <2>1 DEF Inv1, IndexAgrees, Agrees, replay
<1>11. Recoverable'
  <2> SUFFICES ASSUME NEW i \in 1 .. Len(recover') - 1
               PROVE  recover'[i + 1] = Over(Info(journal'[disk'.lsn + i]), recover'[i])
    BY DEF Recoverable, Info, Given, Lbas, Over
  <2>1. CASE i = N
    <3>1. disk'.lsn + i = Len(journal) + 1 /\ i \in 1 .. N
      BY <1>2, <1>4, <2>1
    <3>2. Info(e) = Info(req)
      BY <1>1, SameWriteParts
    <3> QED
      BY <1>6, <1>7, <2>1, <3>1, <3>2 DEF r
  <2>2. CASE i # N
    <3>1. i \in 1 .. N - 1 /\ i + 1 \in 1 .. N /\ i \in 1 .. N /\ disk.lsn + i \in 1 .. Len(journal)
      BY <1>4, <1>7, <2>2
    <3>2. recover[i + 1] = Over(Info(journal[disk.lsn + i]), recover[i])
      BY <3>1 DEF Inv1, IndexAgrees, Recoverable
    <3> QED
      BY <1>2, <1>6, <1>7, <3>1, <3>2
  <2> QED
    BY <2>1, <2>2
<1> QED
  BY <1>2, <1>9, <1>10, <1>11 DEF Inv1, IndexAgrees, replay

(* What a checkpoint saves, and the maps recovery then goes through. *)
LEMMA CheckpointParts ==
    ASSUME Checkpoint
    PROVE  /\ phase = "up" /\ disk'.table = table /\ disk'.bitmap = bitmap /\ disk'.torn = torn
           /\ UNCHANGED <<table, bitmap, held, journal, req, phase, lsn, put, ref, torn, leak, writes>>
           /\ req.stage = "journal" =>
                 /\ disk'.lsn = Len(journal) - 1
                 /\ recover' = <<ref, Over(Info(journal[Len(journal)]), ref)>>
           /\ req.stage # "journal" => disk'.lsn = Len(journal) /\ recover' = <<ref>>
<1>1. /\ phase = "up"
      /\ UNCHANGED <<table, bitmap, held, journal, req, phase, lsn, put, ref, torn, leak, writes>>
  BY DEF Checkpoint, replay, bounds
<1>2. CASE req.stage = "journal"
  <2>1. /\ disk' = [table |-> table, bitmap |-> bitmap, lsn |-> Len(journal) - 1, torn |-> torn]
        /\ recover' = <<ref, Over(Info(journal[Len(journal)]), ref)>>
    BY <1>2 DEF Checkpoint
  <2> QED
    BY <1>1, <1>2, <2>1
<1>3. CASE req.stage # "journal"
  <2>1. /\ disk' = [table |-> table, bitmap |-> bitmap, lsn |-> Len(journal), torn |-> torn]
        /\ recover' = <<ref>>
    BY <1>3 DEF Checkpoint
  <2> QED
    BY <1>1, <1>3, <2>1
<1> QED
  BY <1>2, <1>3

(* A checkpoint saves the index with the map it agrees with. *)
LEMMA Inv1Checkpoint ==
    ASSUME Inv1, Checkpoint
    PROVE  Inv1'
<1>1. /\ phase = "up" /\ disk'.table = table /\ disk'.torn = torn
      /\ UNCHANGED <<table, journal, req, phase, lsn, put, ref, torn, leak, writes>>
  BY CheckpointParts
<1>2. /\ ref \in Map /\ torn \in BOOLEAN /\ early \in BOOLEAN /\ Len(journal) \in Nat
      /\ Agrees(table, ref) /\ put = 0 /\ Journaled
  BY <1>1, TypedParts, HistoryParts DEF Inv1, IndexAgrees, Typed
<1>3. early' \in BOOLEAN
  BY <1>2 DEF Checkpoint
<1> SUFFICES /\ recover' \in Seq(Map) /\ recover'[1] = ref /\ Recoverable'
             /\ disk'.lsn \in 0 .. Len(journal') /\ Len(recover') = Len(journal') - disk'.lsn + 1
  <2> SUFFICES ASSUME recover' \in Seq(Map), recover'[1] = ref, Recoverable',
                      disk'.lsn \in 0 .. Len(journal'), Len(recover') = Len(journal') - disk'.lsn + 1
               PROVE  Inv1'
    OBVIOUS
  <2>1. Journaled'
    BY <1>1, <1>2 DEF Journaled, SameWrite
  <2>2. Typed'
    BY <1>1, <1>2, <1>3, <2>1 DEF Inv1, Typed
  <2>3. Agrees(disk.table, recover[1])' /\ (Agrees(table, ref) /\ put = 0)'
    BY <1>1, <1>2 DEF Agrees
  <2> QED
    BY <1>1, <2>2, <2>3 DEF Inv1, IndexAgrees
<1>4. CASE req.stage # "journal"
  <2>1. recover' = <<ref>> /\ disk'.lsn = Len(journal)
    BY <1>4, CheckpointParts
  <2>2. recover' \in Seq(Map) /\ Len(recover') = 1 /\ recover'[1] = ref
    BY <1>2, <2>1
  <2>3. disk'.lsn \in 0 .. Len(journal') /\ Len(recover') = Len(journal') - disk'.lsn + 1
    BY <1>1, <1>2, <2>1, <2>2
  <2>4. Recoverable'
    BY <2>2 DEF Recoverable
  <2> QED
    BY <2>2, <2>3, <2>4
<1>5. CASE req.stage = "journal"
  <2>1. PICK n \in Nat \ {0} : n = Len(journal)
    <3>1. journal # << >> /\ journal \in Seq(Entry)
      BY <1>2, <1>5 DEF Journaled, Inv1, Typed
    <3> QED
      BY <3>1
  <2>2. PICK g : g = Over(Info(journal[n]), ref)
    OBVIOUS
  <2>3. g \in Map
    <3>1. WriteOK(journal[n]) /\ journal[n].nlbas \in Nat
      BY <2>1, HistoryParts DEF Inv1
    <3>2. Info(journal[n]) \in Map
      BY <3>1, GivenParts DEF Info
    <3> QED
      BY <1>2, <2>2, <3>2, OverMap
  <2>4. recover' = <<ref, g>> /\ disk'.lsn = n - 1
    BY <1>5, <2>1, <2>2, CheckpointParts
  <2>5. recover' \in Seq(Map) /\ Len(recover') = 2 /\ recover'[1] = ref /\ recover'[2] = g
    BY <1>2, <2>3, <2>4
  <2>6. disk'.lsn \in 0 .. Len(journal') /\ Len(recover') = Len(journal') - disk'.lsn + 1
    BY <1>1, <2>1, <2>4, <2>5
  <2>7. Recoverable'
    <3> SUFFICES ASSUME NEW i \in 1 .. Len(recover') - 1
                 PROVE  recover'[i + 1] = Over(Info(journal'[disk'.lsn + i]), recover'[i])
      BY DEF Recoverable, Info, Given, Lbas, Over
    <3>1. i = 1 /\ disk'.lsn + i = n /\ i + 1 = 2
      BY <2>4, <2>5
    <3>2. recover'[2] = Over(Info(journal'[n]), recover'[1])
      BY <1>1, <2>2, <2>5
    <3> QED
      BY <3>1, <3>2
  <2> QED
    BY <2>5, <2>6, <2>7
<1> QED
  BY <1>4, <1>5

(* A crash starts over from the checkpoint. *)
LEMMA Inv1Crash ==
    ASSUME Inv1, Crash
    PROVE  Inv1'
<1>1. /\ table' = disk.table /\ req' = Idle
      /\ phase' = "recovering" /\ lsn' = disk.lsn + 1 /\ put' = 0
      /\ ref' = recover[Len(recover)] /\ torn' = disk.torn
      /\ leak' = (IF leak = "for good" THEN leak ELSE "none")
      /\ UNCHANGED <<journal, disk, recover, early, writes>>
  BY DEF Crash
<1>2. /\ Len(journal) \in Nat /\ Len(recover) \in Nat \ {0} /\ disk.lsn \in Nat /\ disk.lsn <= Len(journal)
      /\ recover[Len(recover)] \in Map /\ disk.torn \in BOOLEAN
      /\ \A i \in 1 .. Len(journal) : journal[i].nlbas \in Nat
  <2>1. disk.lsn \in 0 .. Len(journal) /\ disk.torn \in BOOLEAN
    BY DEF Inv1, Typed
  <2>2. /\ Len(journal) \in Nat /\ Len(recover) \in Nat \ {0} /\ disk.lsn \in Nat
        /\ recover[Len(recover)] \in Map
    BY HistoryParts DEF Inv1
  <2>3. \A i \in 1 .. Len(journal) : journal[i].nlbas \in Nat
    BY HistoryParts DEF Inv1
  <2>4. disk.lsn <= Len(journal)
    BY <2>1, <2>2
  <2> QED
    BY <2>1, <2>2, <2>3, <2>4
<1>3. leak' \in {"none", "until restart", "for good"}
  BY <1>1, TypedParts DEF Inv1
<1>4. lsn' = disk.lsn + 1 /\ put' = 0 /\ journal' = journal /\ disk' = disk
  BY <1>1
<1>5. lsn' \in Nat /\ put' \in Nat
  <2>1. disk.lsn \in Nat
    BY <1>2
  <2> QED
    BY <1>4, <2>1
<1>6. Typed'
  BY <1>1, <1>2, <1>3, <1>5 DEF Inv1, Typed, Journaled, Idle
<1>7. Agrees(disk.table, recover[1])' /\ Recoverable'
  BY <1>1 DEF Inv1, IndexAgrees, Agrees, Recoverable
<1>8. Replays'
  <2>1. /\ lsn' \in disk'.lsn + 1 .. Len(journal') + 1 /\ lsn' - disk'.lsn = 1
    <3>1. disk.lsn \in Nat /\ Len(journal) \in Nat /\ disk.lsn <= Len(journal)
      BY <1>2
    <3> QED
      BY <1>4, <3>1
  <2>2. lsn' <= Len(journal') => Begins(journal'[lsn'], put')
    <3>1. lsn' <= Len(journal) => lsn' \in 1 .. Len(journal)
      BY <1>2, <1>5, <2>1, <1>4
    <3>2. lsn' <= Len(journal) => journal[lsn'].nlbas \in Nat
      BY <1>2, <3>1
    <3> QED
      BY <1>4, <3>2 DEF Begins
  <2>3. Replaying' = recover[1]
    BY <1>1, <2>1 DEF Replaying
  <2>4. Agrees(table, Replaying)'
    BY <1>1, <2>3 DEF Inv1, IndexAgrees, Agrees
  <2> QED
    BY <1>1, <2>1, <2>2, <2>4 DEF Replays, Begins
<1> QED
  BY <1>1, <1>6, <1>7, <1>8 DEF Inv1, IndexAgrees

(* The position of a recovery, and the facts its steps use. *)
LEMMA ReplayParts ==
    ASSUME Inv1, phase = "recovering"
    PROVE  /\ lsn \in Nat /\ put \in Nat /\ disk.lsn \in Nat
           /\ Len(journal) \in Nat /\ lsn <= Len(journal) + 1
           /\ lsn - disk.lsn \in 1 .. Len(recover) /\ recover[lsn - disk.lsn] \in Map
           /\ lsn > Len(journal) => put = 0 /\ lsn - disk.lsn = Len(recover)
           /\ lsn <= Len(journal) =>
                 /\ lsn \in 1 .. Len(journal) /\ Begins(journal[lsn], put)
                 /\ lsn - disk.lsn \in 1 .. Len(recover) - 1
                 /\ recover[lsn - disk.lsn + 1] = Over(Info(journal[lsn]), recover[lsn - disk.lsn])
           /\ req = Idle /\ ref = recover[Len(recover)]
           /\ Agrees(table, Replaying)
<1>1. /\ lsn \in disk.lsn + 1 .. Len(journal) + 1
      /\ lsn > Len(journal) => put = 0
      /\ lsn <= Len(journal) => Begins(journal[lsn], put)
      /\ req = Idle /\ ref = recover[Len(recover)]
      /\ Agrees(table, Replaying)
  BY DEF Inv1, IndexAgrees, Replays
<1>2. /\ Len(journal) \in Nat /\ Len(recover) \in Nat \ {0} /\ disk.lsn \in Nat
      /\ disk.lsn + Len(recover) = Len(journal) + 1
      /\ \A i \in 1 .. Len(recover) : recover[i] \in Map
  BY HistoryParts DEF Inv1
<1>3. lsn \in Nat /\ put \in Nat
  BY TypedParts DEF Inv1
<1>4. /\ lsn - disk.lsn \in 1 .. Len(recover) /\ lsn <= Len(journal) + 1
      /\ lsn > Len(journal) => lsn - disk.lsn = Len(recover)
      /\ lsn <= Len(journal) => /\ lsn \in 1 .. Len(journal) /\ lsn - disk.lsn \in 1 .. Len(recover) - 1
                                /\ disk.lsn + (lsn - disk.lsn) = lsn
  <2>1. PICK d \in Nat, j \in Nat, n \in Nat \ {0} :
           d = disk.lsn /\ j = Len(journal) /\ n = Len(recover) /\ d + n = j + 1
    BY <1>2
  <2>2. lsn \in d + 1 .. j + 1
    BY <1>1, <2>1
  <2>3. /\ lsn - d \in 1 .. n /\ lsn <= j + 1
        /\ lsn > j => lsn - d = n
        /\ lsn <= j => lsn \in 1 .. j /\ lsn - d \in 1 .. n - 1 /\ d + (lsn - d) = lsn
    <3>1. lsn \in Nat /\ d + n = j + 1
      BY <1>3, <2>1
    <3> QED
      BY ONLY d \in Nat, j \in Nat, n \in Nat, <2>2, <3>1
  <2> QED
    BY <2>1, <2>3
<1>5. lsn <= Len(journal) =>
         recover[lsn - disk.lsn + 1] = Over(Info(journal[lsn]), recover[lsn - disk.lsn])
  BY <1>4 DEF Inv1, IndexAgrees, Recoverable
<1> QED
  BY <1>1, <1>2, <1>3, <1>4, <1>5

(* A step of the recovery leaves the histories alone. *)
LEMMA ReplayStep ==
    ASSUME Inv1, phase = "recovering", UNCHANGED <<journal, disk, req, history, writes>>,
           lsn' \in Nat, put' \in Nat, phase' \in {"up", "recovering"},
           phase' = "up" => Agrees(table, ref)' /\ put' = 0,
           phase' = "recovering" => Replays'
    PROVE  Inv1'
<1>1. Typed'
  BY DEF Inv1, Typed, history, Journaled, SameWrite
<1>2. Agrees(disk.table, recover[1])' /\ Recoverable'
  BY DEF Inv1, IndexAgrees, Agrees, Recoverable, history
<1> QED
  BY <1>1, <1>2 DEF Inv1, IndexAgrees

(* An extent of an entry is put back. *)
LEMMA Inv1ReplayPut ==
    ASSUME Inv1, NEW m, ReplayPut(m)
    PROVE  Inv1'
<1> DEFINE e == journal[lsn]
           f == recover[lsn - disk.lsn]
<1>1. /\ phase = "recovering" /\ lsn <= Len(journal) /\ IsExtent(e, put, m)
      /\ table' = PutRange(table, e.lba + put, m - put, Info(e))
      /\ put' = m
      /\ UNCHANGED <<journal, disk, req, phase, lsn, history, writes>>
  BY DEF ReplayPut, bounds
<1>2. /\ lsn \in Nat /\ put \in Nat /\ lsn \in 1 .. Len(journal) /\ Begins(e, put) /\ f \in Map
      /\ Agrees(table, Replaying)
  BY <1>1, ReplayParts
<1>3. /\ WriteOK(e) /\ InBaseUpTo(e, e.nlbas) /\ e.nlbas \in Nat
  BY <1>2, HistoryParts DEF Inv1
<1> HIDE DEF e, f
<1>4. put \in 0 .. e.nlbas /\ m \in 1 .. e.nlbas /\ m \in 0 .. e.nlbas /\ put < m /\ m \in Nat /\ m \in e.ends
  BY <1>1, <1>2, <1>3 DEF Begins, IsExtent, WriteOK
<1>5. InBase(e, put, m)
  BY <1>1, <1>2, <1>3, <1>4 DEF InBaseUpTo
<1>6. PICK k \in 0 .. m - put : k = m - put /\ put + k = m
  BY <1>4
<1>7. Replaying \in Map
  <2>1. CASE put = 0
    BY <1>2, <2>1 DEF Replaying, f
  <2>2. CASE put # 0
    <3>1. Given(e, 0, put) \in Map
      BY <1>3, <1>4, GivenParts
    <3>2. Over(Given(e, 0, put), f) \in Map
      BY <1>2, <3>1, OverMap
    <3> QED
      BY <2>2, <3>2 DEF Replaying, f, e
  <2> QED
    BY <2>1, <2>2
<1>8. Agrees(table', Over(Given(e, put, m), Replaying))
  BY <1>1, <1>2, <1>3, <1>4, <1>5, <1>6, <1>7, PutAgrees
<1>9. Agrees(table', Over(Given(e, 0, m), f))
  <2>1. CASE put = 0
    BY <1>8, <2>1 DEF Replaying, f
  <2>2. CASE put # 0
    <3>1. Replaying = Over(Given(e, 0, put), f)
      BY <2>2 DEF Replaying, e, f
    <3>2. /\ DOMAIN Over(Given(e, put, m), Over(Given(e, 0, put), f)) = DOMAIN Over(Given(e, 0, m), f)
          /\ \A l \in DOMAIN Over(Given(e, put, m), Over(Given(e, 0, put), f)) :
                Over(Given(e, put, m), Over(Given(e, 0, put), f))[l] = Over(Given(e, 0, m), f)[l]
      BY <1>3, <1>4, GivenJoin
    <3> QED
      BY <1>8, <3>1, <3>2, AgreesSame
  <2> QED
    BY <2>1, <2>2
<1>10. Replaying' = Over(Given(e, 0, m), f)
  BY <1>1, <1>4 DEF Replaying, e, f, history
<1>11. Agrees(table, Replaying)'
  BY <1>9, <1>10 DEF Agrees
<1>12. Begins(journal'[lsn'], put')
  BY <1>1, <1>4 DEF Begins, e
<1>13. Replays'
  <2>1. /\ lsn' \in disk'.lsn + 1 .. Len(journal') + 1 /\ ~(lsn' > Len(journal'))
        /\ (req = Idle)' /\ ref' = recover'[Len(recover')]
    BY <1>1, ReplayParts DEF history, Inv1, IndexAgrees, Replays
  <2> QED
    BY <1>11, <1>12, <2>1 DEF Replays, Begins
<1> QED
  BY <1>1, <1>2, <1>4, <1>13, ReplayStep

(* An entry has been replayed. *)
LEMMA Inv1ReplayFree ==
    ASSUME Inv1, ReplayFree
    PROVE  Inv1'
<1> DEFINE e == journal[lsn]
           f == recover[lsn - disk.lsn]
<1>1. /\ phase = "recovering" /\ lsn <= Len(journal) /\ put = e.nlbas
      /\ lsn' = lsn + 1 /\ put' = 0
      /\ UNCHANGED <<table, journal, disk, req, phase, history, writes>>
  BY DEF ReplayFree, bounds
<1>2. /\ lsn \in Nat /\ disk.lsn \in Nat /\ Len(journal) \in Nat /\ lsn \in 1 .. Len(journal)
      /\ lsn - disk.lsn \in 1 .. Len(recover) - 1
      /\ recover[lsn - disk.lsn + 1] = Over(Info(e), f) /\ req = Idle /\ ref = recover[Len(recover)]
      /\ Agrees(table, Replaying)
  BY <1>1, ReplayParts
<1>3. e.nlbas \in Nat \ {0}
  BY <1>2, HistoryParts DEF Inv1
<1>4. Agrees(table, recover[lsn - disk.lsn + 1])
  BY <1>1, <1>2, <1>3 DEF Replaying, Info
<1>5. /\ lsn' \in disk'.lsn + 1 .. Len(journal') + 1 /\ lsn' - disk'.lsn = lsn - disk.lsn + 1 /\ lsn' \in Nat
  <2>1. PICK d \in Nat, j \in Nat : d = disk.lsn /\ d = disk'.lsn /\ j = Len(journal) /\ j = Len(journal')
    BY <1>1, <1>2
  <2>2. lsn \in Nat /\ lsn <= j /\ lsn - d >= 1 /\ lsn' = lsn + 1
    BY <1>1, <1>2, <2>1
  <2>3. lsn' \in d + 1 .. j + 1 /\ lsn' - d = lsn - d + 1 /\ lsn' \in Nat
    BY <2>2
  <2> QED
    BY <2>1, <2>3
<1>6. Replaying' = recover[lsn - disk.lsn + 1]
  BY <1>1, <1>5 DEF Replaying, history
<1>7. Agrees(table, Replaying)'
  BY <1>1, <1>4, <1>6 DEF Agrees
<1>8. lsn' <= Len(journal') => Begins(journal'[lsn'], put')
  <2>1. lsn' <= Len(journal) => lsn' \in 1 .. Len(journal)
    BY <1>1, <1>2
  <2>2. lsn' <= Len(journal) => journal[lsn'].nlbas \in Nat
    BY <2>1, HistoryParts DEF Inv1
  <2> QED
    BY <1>1, <2>2 DEF Begins
<1>9. Replays'
  BY <1>1, <1>2, <1>5, <1>7, <1>8 DEF Replays, Begins, history
<1> QED
  BY <1>1, <1>5, <1>9, ReplayStep

(* The last entry has been replayed. *)
LEMMA Inv1Recovered ==
    ASSUME Inv1, Recovered
    PROVE  Inv1'
<1>1. /\ phase = "recovering" /\ lsn > Len(journal) /\ phase' = "up" /\ lsn' = 0
      /\ UNCHANGED <<table, journal, disk, req, put, history, writes>>
  BY DEF Recovered, store, bounds
<1>2. put = 0 /\ lsn - disk.lsn = Len(recover) /\ ref = recover[Len(recover)] /\ Agrees(table, Replaying)
  BY <1>1, ReplayParts
<1>3. Agrees(table, ref)
  BY <1>2 DEF Replaying
<1> QED
  BY <1>1, <1>2, <1>3, ReplayStep DEF Agrees, history

(* The types and the agreement of the index with the map are invariant. *)
THEOREM IndexInvariant == Spec => []Inv1
<1>1. Inv1 /\ [Next]_vars => Inv1'
  <2> SUFFICES ASSUME Inv1, [Next]_vars
               PROVE  Inv1'
    OBVIOUS
  <2>1. CASE \E addr \in Addresses, len \in 1 .. BlkSize * MaxLen : AsyncWrite(addr, len)
    BY <2>1, Inv1AsyncWrite
  <2>2. CASE DataWritten \/ DataFails
    BY <2>2, Inv1Data
  <2>3. ASSUME NEW m \in 1 .. MaxLen,
               \/ WriteToIndex(m) \/ WriteToIndexAsserts(m) \/ ReplayPut(m)
               \/ \E n \in 0 .. MaxLen - 1 : WriteToIndexFails(m, n)
        PROVE  Inv1'
    BY <2>3, Inv1WriteToIndex, Inv1Asserts, Inv1ReplayPut
  <2>4. CASE WriteJournal
    BY <2>4, Inv1WriteJournal
  <2>5. CASE Commit
    BY <2>5, Inv1Commit
  <2>6. CASE Checkpoint
    BY <2>6, Inv1Checkpoint
  <2>7. CASE Crash
    BY <2>7, Inv1Crash
  <2>8. CASE ReplayFree
    BY <2>8, Inv1ReplayFree
  <2>9. CASE Recovered
    BY <2>9, Inv1Recovered
  <2>10. CASE UNCHANGED vars
    <3>1. UNCHANGED <<table, journal, disk, req, phase, lsn, put, ref, recover, torn, leak, early, writes>>
      BY <2>10 DEF vars, store, replay, history, bounds
    <3>2. Typed'
      BY <3>1 DEF Inv1, Typed, Journaled, SameWrite
    <3>3. /\ Agrees(disk.table, recover[1])' /\ Recoverable' /\ Agrees(table, ref)' = Agrees(table, ref)
          /\ Replays' = Replays
      BY <3>1 DEF Inv1, IndexAgrees, Agrees, Recoverable, Replays, Replaying
    <3> QED
      BY <3>1, <3>2, <3>3 DEF Inv1, IndexAgrees
  <2> QED
    BY <2>1, <2>2, <2>3, <2>4, <2>5, <2>6, <2>7, <2>8, <2>9, <2>10 DEF Next
<1> QED
  BY <1>1, Inv1Init, PTL DEF Spec

(* The index is a map of lbas: every lookup, between writes, in the middle   *)
(* of one, and after recoveries, answers as the plain map of the last values *)
(* does, in the order of the lbas.                                           *)
THEOREM LookupCorrect == Spec => []LookupAgrees
<1>1. Inv1 => LookupAgrees
  <2> SUFFICES ASSUME Inv1, phase = "up", NEW start \in Lba, NEW end \in Lba
               PROVE  LET got == ReadFromIndex(start, end)
                          want == {l \in DOMAIN ref : start <= l /\ l <= end}
                      IN  /\ Len(got) = Cardinality(want)
                          /\ \A i \in DOMAIN got :
                                /\ got[i].lba \in want
                                /\ ref[got[i].lba] = [blk |-> got[i].blk, csum |-> got[i].csum]
                                /\ i > 1 => got[i - 1].lba < got[i].lba
    BY DEF LookupAgrees
  <2>1. ref \in Map /\ Agrees(table, ref) /\ start \in Nat /\ end \in Nat
    BY TypedParts, RangeAssumption DEF Inv1, IndexAgrees
  <2> QED
    BY <2>1, LookupFromAgrees
<1> QED
  BY <1>1, IndexInvariant, PTL

-----------------------------------------------------------------------------
(* The blocks, action by action. *)

Inv2 == Inv1 /\ Accounts

AccountsUp == BitsAccount /\ RefAccounts /\ RequestAccounts

(* The blocks of a write are its own and in order. *)
LEMMA GivenBlocks ==
    ASSUME NEW e, WriteOK(e), NEW n \in 0 .. e.nlbas, NEW m \in 0 .. e.nlbas
    PROVE  /\ \A l \in Lbas(e, n, m) : /\ Given(e, n, m)[l].blk = e.blks[l - e.lba + 1]
                                       /\ Given(e, n, m)[l].blk \in New(e)
                                       /\ l - e.lba + 1 \in 1 .. e.nlbas
           /\ \A l, k \in Lbas(e, 0, e.nlbas) :
                 e.blks[l - e.lba + 1] = e.blks[k - e.lba + 1] => l = k
           /\ \A b \in New(e) : \E l \in Lbas(e, 0, e.nlbas) : b = e.blks[l - e.lba + 1]
           /\ Lbas(e, n, m) \subseteq Lbas(e, 0, e.nlbas)
<1> e.lba \in Nat /\ e.nlbas \in Nat
  BY DEF WriteOK
<1>1. /\ e.blks \in [1 .. e.nlbas -> AllBlocks] /\ DOMAIN e.blks = 1 .. e.nlbas
      /\ \A i, j \in 1 .. e.nlbas : e.blks[i] = e.blks[j] => i = j
  BY DEF WriteOK, Injection, IsInjective
<1>2. \A l \in Lbas(e, 0, e.nlbas) : l - e.lba + 1 \in 1 .. e.nlbas /\ l \in Nat
  BY DEF Lbas
<1>3. Lbas(e, n, m) \subseteq Lbas(e, 0, e.nlbas)
  BY DEF Lbas
<1>4. ASSUME NEW l \in Lbas(e, n, m)
      PROVE  /\ Given(e, n, m)[l].blk = e.blks[l - e.lba + 1]
             /\ Given(e, n, m)[l].blk \in New(e)
             /\ l - e.lba + 1 \in 1 .. e.nlbas
  BY <1>1, <1>2, <1>3 DEF Given, New, Range
<1>5. ASSUME NEW l \in Lbas(e, 0, e.nlbas), NEW k \in Lbas(e, 0, e.nlbas),
             e.blks[l - e.lba + 1] = e.blks[k - e.lba + 1]
      PROVE  l = k
  <2>1. l - e.lba + 1 = k - e.lba + 1
    BY <1>1, <1>2, <1>5
  <2> QED
    BY <1>2, <2>1
<1>6. ASSUME NEW b \in New(e)
      PROVE  \E l \in Lbas(e, 0, e.nlbas) : b = e.blks[l - e.lba + 1]
  <2>1. PICK i \in 1 .. e.nlbas : b = e.blks[i]
    BY <1>1 DEF New, Range
  <2>2. e.lba + i - 1 \in Lbas(e, 0, e.nlbas) /\ (e.lba + i - 1) - e.lba + 1 = i
    BY DEF Lbas
  <2> QED
    BY <2>1, <2>2
<1> QED
  BY <1>3, <1>4, <1>5, <1>6

(* Everything the index names now, or would after a crash, is allocated. *)
LEMMA NamedAllocated ==
    ASSUME Inv1, AccountsUp
    PROVE  /\ Blks(ref) \subseteq bitmap \cup held /\ Blks(Last) \subseteq bitmap \cup held
           /\ Committed \subseteq bitmap \cup held
<1>1. Committed \subseteq bitmap \cup held
  <2>1. CASE req.stage = "journal"
    <3>1. req # Idle
      BY <2>1, TypedParts DEF Inv1
    <3>2. New(journal[Len(journal)]) = New(req)
      BY <2>1, SameWriteParts DEF Inv1, Typed, Journaled
    <3> QED
      BY <2>1, <3>1, <3>2 DEF AccountsUp, RequestAccounts, Committed, Freeing
  <2>2. CASE req.stage # "journal"
    BY <2>2 DEF Committed
  <2> QED
    BY <2>1, <2>2
<1>2. Blks(Last) \subseteq bitmap \cup held
  BY <1>1 DEF AccountsUp, BitsAccount
<1>3. Blks(ref) \subseteq bitmap \cup held
  BY <1>2 DEF AccountsUp, RefAccounts, Blks
<1> QED
  BY <1>1, <1>2, <1>3

(* What recovery comes to does not change with the state of the process. *)
LEMMA RecoveryFrame ==
    ASSUME RecoveryAccounts, UNCHANGED <<journal, disk, recover>>, Exact' => Exact
    PROVE  RecoveryAccounts'
<1>1. OneToOne(Last)'
  BY DEF RecoveryAccounts, Last, OneToOne
<1>2. (\A i : Blks(recover[i])' = Blks(recover[i]) /\ Taken(i)' = Taken(i))
      /\ Blks(Last)' = Blks(Last) /\ Taken(Len(recover))' = Taken(Len(recover))
  BY DEF Blks, Taken, Last
<1>3. \A i, j : Freeing(Taken(i), journal[disk.lsn + j])' = Freeing(Taken(i), journal[disk.lsn + j])
  BY <1>2 DEF Freeing, New, Freed
<1> QED
  BY <1>1, <1>2, <1>3 DEF RecoveryAccounts

(* Init. *)
LEMMA Inv2Init == Init => Inv2
<1> SUFFICES ASSUME Init PROVE Accounts
  BY Inv1Init DEF Inv2
<1>1. DOMAIN Empty = {} /\ Blks(Empty) = {} /\ OneToOne(Empty)
  BY DEF Empty, Blks, OneToOne
<1>2. /\ disk.bitmap = {} /\ disk.torn = FALSE /\ recover = <<Empty>> /\ ref = Empty
      /\ bitmap = {} /\ held = {} /\ req = Idle /\ torn = FALSE /\ leak = "none" /\ phase = "up"
  BY DEF Init
<1>3. Len(recover) = 1 /\ recover[1] = Empty /\ Last = Empty
  BY <1>2 DEF Last
<1>4. RecoveryAccounts
  BY <1>1, <1>2, <1>3 DEF RecoveryAccounts, Taken
<1>5. req.stage = "idle"
  BY <1>2 DEF Idle
<1>6. BitsAccount /\ RefAccounts /\ RequestAccounts
  BY <1>1, <1>2, <1>3, <1>5 DEF BitsAccount, RefAccounts, RequestAccounts, Committed
<1> QED
  BY <1>2, <1>4, <1>6 DEF Accounts

(* async_write takes blocks that nothing names. *)
LEMMA Inv2AsyncWrite ==
    ASSUME Inv2, NEW addr \in Addresses, NEW len \in 1 .. BlkSize * MaxLen, AsyncWrite(addr, len)
    PROVE  Accounts'
<1> DEFINE first == addr \div BlkSize
           n == (len \div BlkSize) % U32
<1>1. PICK a \in Allocations(n) :
         /\ held' = held \cup Range(a.blks)
         /\ req' = [stage |-> "data", lba |-> first, nlbas |-> n, blks |-> a.blks, ends |-> a.ends,
                    csums |-> [i \in 1 .. n |-> <<writes', first + i - 1>>], old |-> {}, done |-> 0]
  BY DEF AsyncWrite
<1>2. /\ phase = "up" /\ req.stage = "idle"
      /\ UNCHANGED <<table, bitmap, journal, disk, phase, ref, recover, torn, leak, early>>
  BY DEF AsyncWrite, replay, history
<1>3. first \in Nat /\ n \in 0 .. MaxLen /\ writes' \in Nat
  <2>1. Inv1'
    BY Inv1AsyncWrite DEF Inv2
  <2> QED
    BY <2>1, ByteRange DEF Inv1, Typed
<1> HIDE DEF first, n
<1>4. /\ Live(req') /\ New(req') = Range(a.blks) /\ Range(a.blks) \subseteq AllBlocks \ (bitmap \cup held)
  <2>3. PICK r : r = req'
    OBVIOUS
  <2>1. PICK w \in Nat : w = writes'
    BY <1>3
  <2>2. /\ Live(r) /\ New(r) = Range(a.blks) /\ Range(a.blks) \subseteq AllBlocks \ (bitmap \cup held)
    <3>1. r = [stage |-> "data", lba |-> first, nlbas |-> n, blks |-> a.blks, ends |-> a.ends,
               csums |-> [i \in 1 .. n |-> <<w, first + i - 1>>], old |-> {}, done |-> 0]
      BY <1>1, <2>1, <2>3
    <3>2. Live(r)
      BY <1>3, <3>1, NewRequest
    <3>3. New(r) = Range(a.blks)
      BY <3>1 DEF New
    <3>4. a.blks \in [1 .. n -> AllBlocks \ (bitmap \cup held)]
      BY DEF Allocations, Injection
    <3> QED
      BY <3>2, <3>3, <3>4 DEF Range
  <2> QED
    BY <2>2, <2>3
<1>5. req'.stage = "data" /\ req'.old = {} /\ req'.done = 0 /\ req' # Idle /\ req = Idle /\ req'.lba \in Nat
  BY <1>1, <1>2, <1>3, TypedParts DEF Idle, Inv2, Inv1
<1>6. Lbas(req', 0, req'.done) = {}
  BY <1>5 DEF Lbas
<1> SUFFICES ASSUME ~disk.torn, ~early
             PROVE  RecoveryAccounts' /\ BitsAccount' /\ RefAccounts' /\ RequestAccounts'
  BY <1>2 DEF Accounts, Inv2
<1>7. RecoveryAccounts /\ AccountsUp /\ Inv1
  BY <1>2 DEF Inv2, Accounts, AccountsUp
<1>8. RecoveryAccounts'
  BY <1>2, <1>7, RecoveryFrame DEF Exact
<1>9. Blks(ref) \subseteq bitmap \cup held /\ Blks(Last) \subseteq bitmap \cup held
  BY <1>7, NamedAllocated
<1>10. Last' = Last /\ Committed' = bitmap /\ Committed = bitmap /\ Put' = {} /\ Put = {}
  BY <1>2, <1>5 DEF Last, Committed, Put
<1>11. BitsAccount'
  BY <1>1, <1>2, <1>4, <1>5, <1>7, <1>10 DEF AccountsUp, BitsAccount, Exact
<1>12. RefAccounts'
  BY <1>1, <1>2, <1>7, <1>10 DEF AccountsUp, RefAccounts, OneToOne, Blks
<1>13. RequestAccounts'
  <2>1. New(req') \subseteq held' /\ New(req') \cap Blks(Last) = {}
    BY <1>1, <1>4, <1>9
  <2>2. \A l \in DOMAIN ref : ref[l].blk \notin New(req')
    BY <1>4, <1>9 DEF Blks
  <2> QED
    BY <1>2, <1>5, <1>6, <1>10, <2>1, <2>2 DEF RequestAccounts
<1> QED
  BY <1>8, <1>11, <1>12, <1>13

(* The data write ends, or fails. *)
LEMMA Inv2Data ==
    ASSUME Inv2, DataWritten \/ DataFails
    PROVE  Accounts'
<1>1. /\ phase = "up" /\ req.stage = "data"
      /\ UNCHANGED <<bitmap, held, journal, disk, phase, ref, recover, torn, early>>
      /\ \/ req' = [req EXCEPT !.stage = "index"] /\ leak' = leak
         \/ req' = Idle /\ leak' = LeakUntilRestart
  BY DEF DataWritten, DataFails, store, replay, history
<1>2. /\ leak' # "for good" => leak # "for good"
      /\ leak = "for good" => leak' = "for good"
      /\ req' = Idle => leak' # "none"
  <2>1. req # Idle /\ Live(req)
    BY <1>1, TypedParts DEF Inv2, Inv1
  <2>2. PICK r : r = [req EXCEPT !.stage = "index"]
    OBVIOUS
  <2>3. r.stage = "index" /\ Idle.stage = "idle"
    BY <2>1, <2>2 DEF Live, Request, Idle
  <2>4. r # Idle
    BY <2>3
  <2>5. CASE req' = r /\ leak' = leak
    BY <2>4, <2>5
  <2>6. CASE req' = Idle /\ leak' = LeakUntilRestart
    BY <2>6 DEF LeakUntilRestart
  <2> QED
    BY <1>1, <2>2, <2>5, <2>6
<1> SUFFICES ASSUME ~disk.torn, ~early
             PROVE  RecoveryAccounts' /\ BitsAccount' /\ RefAccounts' /\ RequestAccounts'
  BY <1>1, <1>2 DEF Accounts, Inv2
<1>3. RecoveryAccounts /\ AccountsUp /\ Inv1 /\ Live(req) /\ req # Idle
  BY <1>1, TypedParts DEF Inv2, Inv1, Accounts, AccountsUp
<1>4. RecoveryAccounts'
  BY <1>1, <1>2, <1>3, RecoveryFrame DEF Exact
<1>5. req.done = 0 /\ req.lba \in Nat /\ Lbas(req, 0, 0) = {}
  BY <1>1, <1>3 DEF Live, WriteOK, Lbas
<1>6. CASE req' = [req EXCEPT !.stage = "index"] /\ leak' = leak
  <2>1. PICK r : r = req'
    OBVIOUS
  <2>2. r.stage = "index" /\ r.old = req.old /\ r.done = req.done /\ SameWrite(r, req) /\ r # Idle
        /\ r.lba = req.lba /\ r.blks = req.blks
    BY <1>3, <1>6, <2>1 DEF Live, Request, SameWrite, Idle
  <2>3. New(r) = New(req) /\ \A x, y : Lbas(r, x, y) = Lbas(req, x, y)
    BY <2>2, SameWriteParts
  <2>4. Last' = Last /\ Committed' = bitmap /\ Committed = bitmap /\ Put' = {} /\ Put = {} /\ Exact' = Exact
    BY <1>1, <1>5, <1>6, <2>1, <2>2, <2>3 DEF Last, Committed, Put, Exact
  <2>5. BitsAccount'
    BY <1>1, <1>3, <1>6, <2>1, <2>2, <2>3, <2>4 DEF AccountsUp, BitsAccount
  <2>6. RefAccounts'
    BY <1>1, <1>3, <2>4 DEF AccountsUp, RefAccounts, OneToOne, Blks
  <2>7. RequestAccounts'
    BY <1>1, <1>3, <2>1, <2>2, <2>3, <2>4 DEF AccountsUp, RequestAccounts, Blks
  <2> QED
    BY <1>4, <2>5, <2>6, <2>7
<1>7. CASE req' = Idle /\ leak' = LeakUntilRestart
  <2>1. Last' = Last /\ Committed' = bitmap /\ Committed = bitmap /\ Put' = {} /\ Put = {}
    BY <1>1, <1>7 DEF Last, Committed, Put, Idle
  <2>2. BitsAccount'
    BY <1>1, <1>2, <1>3, <1>7, <2>1 DEF AccountsUp, BitsAccount, Exact
  <2>3. RefAccounts'
    BY <1>1, <1>3, <2>1 DEF AccountsUp, RefAccounts, OneToOne, Blks
  <2>4. RequestAccounts'
    BY <1>7 DEF RequestAccounts
  <2> QED
    BY <1>4, <2>2, <2>3, <2>4
<1> QED
  BY <1>1, <1>6, <1>7

(* An assertion stops the process; what recovery comes to stays. *)
LEMMA Inv2Asserts ==
    ASSUME Inv2, NEW m, WriteToIndexAsserts(m)
    PROVE  Accounts'
<1>1. phase = "up" /\ phase' = "aborted" /\ UNCHANGED <<journal, disk, recover, torn, leak, early>>
  BY DEF WriteToIndexAsserts, PutReady, store, history
<1>2. ~disk.torn /\ ~early => RecoveryAccounts'
  BY <1>1, RecoveryFrame DEF Inv2, Accounts, Exact
<1> QED
  BY <1>1, <1>2 DEF Inv2, Accounts

(* The lbas of a request that are put, and those of the next extent. *)
LEMMA PutLbas ==
    ASSUME NEW r, WriteOK(r), NEW d \in 0 .. r.nlbas, NEW k \in 0 .. r.nlbas, d <= k
    PROVE  /\ Lbas(r, 0, k) = Lbas(r, 0, d) \cup Lbas(r, d, k)
           /\ Lbas(r, 0, d) \cap Lbas(r, d, k) = {}
<1> r.lba \in Nat /\ r.nlbas \in Nat
  BY DEF WriteOK
<1> QED
  BY DEF Lbas

(* Puts that give the lbas d + 1 to k of the request keep the map one to     *)
(* one, and each of its blocks committed or held.                            *)
LEMMA PutRef ==
    ASSUME Inv1, AccountsUp, phase = "up", req.stage = "index", NEW k \in 0 .. req.nlbas, req.done <= k,
           NEW g, g = Over(Given(req, req.done, k), ref)
    PROVE  /\ OneToOne(g) /\ DOMAIN Last \subseteq DOMAIN g
           /\ \A l \in DOMAIN g : \/ l \in DOMAIN Last /\ g[l].blk = Last[l].blk
                                  \/ g[l].blk \in held \ Blks(Last)
           /\ \A l \in DOMAIN g : g[l].blk \in New(req) => l \in Lbas(req, 0, k)
           /\ \A l \in Lbas(req, 0, k) : /\ l \in DOMAIN g /\ g[l].blk = req.blks[l - req.lba + 1]
                                         /\ g[l].blk \in New(req)
           /\ \A l \in DOMAIN g \ Lbas(req, 0, k) : l \in DOMAIN ref /\ g[l] = ref[l]
<1> DEFINE P == Lbas(req, req.done, k)
<1>1. Live(req) /\ WriteOK(req) /\ req.done \in 0 .. req.nlbas /\ req # Idle
  BY TypedParts DEF Inv1, Live, Begins
<1>2. /\ DOMAIN g = P \cup DOMAIN ref
      /\ \A l \in P : g[l].blk = req.blks[l - req.lba + 1] /\ g[l].blk \in New(req)
      /\ \A l \in DOMAIN ref \ P : g[l] = ref[l]
  <2>1. PICK h : h = Given(req, req.done, k)
    OBVIOUS
  <2>2. /\ DOMAIN g = DOMAIN h \cup DOMAIN ref
        /\ \A x \in DOMAIN h : g[x] = h[x]
        /\ \A x \in DOMAIN ref \ DOMAIN h : g[x] = ref[x]
    <3>1. /\ DOMAIN Over(h, ref) = DOMAIN h \cup DOMAIN ref
          /\ \A x \in DOMAIN h : Over(h, ref)[x] = h[x]
          /\ \A x \in DOMAIN ref \ DOMAIN h : Over(h, ref)[x] = ref[x]
      BY OverParts
    <3> QED
      BY <2>1, <3>1
  <2>3. DOMAIN h = P
    BY <2>1 DEF Given
  <2>4. \A l \in P : h[l].blk = req.blks[l - req.lba + 1] /\ h[l].blk \in New(req)
    BY <1>1, <2>1, GivenBlocks
  <2> QED
    BY <2>2, <2>3, <2>4
<1>3. /\ New(req) \subseteq held /\ New(req) \cap Blks(Last) = {}
      /\ \A l \in DOMAIN ref : ref[l].blk \in New(req) => l \in Lbas(req, 0, req.done)
      /\ \A l \in Lbas(req, 0, req.done) : l \in DOMAIN ref /\ ref[l].blk = req.blks[l - req.lba + 1]
  BY <1>1 DEF AccountsUp, RequestAccounts
<1>4. /\ OneToOne(ref) /\ DOMAIN Last \subseteq DOMAIN ref
      /\ \A l \in DOMAIN ref : \/ l \in DOMAIN Last /\ ref[l].blk = Last[l].blk
                               \/ ref[l].blk \in held \ Blks(Last)
  BY DEF AccountsUp, RefAccounts
<1>5. Lbas(req, 0, k) = Lbas(req, 0, req.done) \cup P /\ Lbas(req, 0, req.done) \cap P = {}
  BY <1>1, PutLbas
<1>6. Lbas(req, 0, k) \subseteq Lbas(req, 0, req.nlbas)
      /\ (\A l, j \in Lbas(req, 0, req.nlbas) :
            req.blks[l - req.lba + 1] = req.blks[j - req.lba + 1] => l = j)
      /\ \A l \in Lbas(req, 0, req.nlbas) : req.blks[l - req.lba + 1] \in New(req)
  <2>1. 0 \in 0 .. req.nlbas /\ req.nlbas \in 0 .. req.nlbas
    BY <1>1 DEF WriteOK
  <2>2. /\ Lbas(req, 0, k) \subseteq Lbas(req, 0, req.nlbas)
        /\ \A l, j \in Lbas(req, 0, req.nlbas) :
              req.blks[l - req.lba + 1] = req.blks[j - req.lba + 1] => l = j
    BY <1>1, <2>1, GivenBlocks
  <2>3. \A l \in Lbas(req, 0, req.nlbas) :
            Given(req, 0, req.nlbas)[l].blk = req.blks[l - req.lba + 1]
            /\ Given(req, 0, req.nlbas)[l].blk \in New(req)
    BY <1>1, <2>1, GivenBlocks
  <2> QED
    BY <2>2, <2>3
<1> HIDE DEF P
<1>7. \A l \in Lbas(req, 0, k) : l \in DOMAIN g /\ g[l].blk = req.blks[l - req.lba + 1]
  BY <1>2, <1>3, <1>5
<1>8. \A l \in DOMAIN g : g[l].blk \in New(req) => l \in Lbas(req, 0, k)
  BY <1>2, <1>3, <1>5
<1>9. \A l \in DOMAIN g \ Lbas(req, 0, k) : l \in DOMAIN ref /\ g[l] = ref[l] /\ g[l].blk \notin New(req)
  BY <1>2, <1>5, <1>8
<1>10. \A l \in Lbas(req, 0, k) : g[l].blk \in New(req)
  BY <1>6, <1>7
<1>11. ASSUME NEW l \in DOMAIN g, NEW j \in DOMAIN g, g[l].blk = g[j].blk
       PROVE  l = j
  <2>1. CASE l \in Lbas(req, 0, k)
    <3>1. j \in Lbas(req, 0, k)
      BY <1>9, <1>10, <1>11, <2>1
    <3> QED
      BY <1>6, <1>7, <1>11, <2>1, <3>1
  <2>2. CASE l \notin Lbas(req, 0, k)
    <3>1. j \notin Lbas(req, 0, k)
      BY <1>9, <1>10, <1>11, <2>2
    <3> QED
      BY <1>4, <1>9, <1>11, <2>2, <3>1 DEF OneToOne
  <2> QED
    BY <2>1, <2>2
<1>12. ASSUME NEW l \in DOMAIN g
       PROVE  \/ l \in DOMAIN Last /\ g[l].blk = Last[l].blk
              \/ g[l].blk \in held \ Blks(Last)
  <2>1. CASE l \in Lbas(req, 0, k)
    BY <1>3, <1>10, <2>1
  <2>2. CASE l \notin Lbas(req, 0, k)
    BY <1>4, <1>9, <2>2
  <2> QED
    BY <2>1, <2>2
<1> QED
  BY <1>2, <1>4, <1>7, <1>8, <1>9, <1>10, <1>11, <1>12 DEF OneToOne

(* An extent is put: the blocks it replaces join those to be freed. *)
LEMMA Inv2WriteToIndex ==
    ASSUME Inv2, NEW m, WriteToIndex(m)
    PROVE  Accounts'
<1> DEFINE D == Lbas(req, 0, req.done)
           P == Lbas(req, req.done, m)
           K == Lbas(req, 0, m)
<1>1. /\ phase = "up" /\ req.stage = "index" /\ IsExtent(req, req.done, m)
      /\ ref' = Over(Given(req, req.done, m), ref)
      /\ UNCHANGED <<bitmap, held, journal, disk, phase, recover, torn, leak, early>>
  BY DEF WriteToIndex, PutReady, replay
<1>2. /\ SameWrite(req', req) /\ req'.stage = "index" /\ req'.done = m /\ Live(req')
      /\ req'.old = req.old \cup {ref[l].blk : l \in P \cap DOMAIN ref}
  BY PutRequest DEF Inv2
<1> SUFFICES ASSUME ~disk.torn, ~early
             PROVE  RecoveryAccounts' /\ BitsAccount' /\ RefAccounts' /\ RequestAccounts'
  BY <1>1 DEF Accounts, Inv2
<1>3. /\ RecoveryAccounts /\ AccountsUp /\ Inv1 /\ Live(req) /\ WriteOK(req) /\ req # Idle
      /\ Exact => ~torn
  BY <1>1, TypedParts DEF Inv2, Inv1, Accounts, AccountsUp, Live, Exact
<1>4. m \in 0 .. req.nlbas /\ req.done <= m /\ req.done \in 0 .. req.nlbas
  BY <1>1, <1>3 DEF Live, WriteOK, Begins, IsExtent
<1>5. K = D \cup P /\ D \cap P = {}
  BY <1>3, <1>4, PutLbas
<1>6. PICK g : g = Over(Given(req, req.done, m), ref) /\ g = ref'
  BY <1>1
<1>7. /\ OneToOne(g) /\ DOMAIN Last \subseteq DOMAIN g
      /\ \A l \in DOMAIN g : \/ l \in DOMAIN Last /\ g[l].blk = Last[l].blk
                             \/ g[l].blk \in held \ Blks(Last)
      /\ \A l \in DOMAIN g : g[l].blk \in New(req) => l \in K
      /\ \A l \in K : l \in DOMAIN g /\ g[l].blk = req.blks[l - req.lba + 1] /\ g[l].blk \in New(req)
      /\ \A l \in DOMAIN g \ K : l \in DOMAIN ref /\ g[l] = ref[l]
  BY <1>1, <1>3, <1>4, <1>6, PutRef
<1> HIDE DEF D, P, K
<1>8. req' # Idle /\ req'.lba = req.lba /\ req'.blks = req.blks
  BY <1>2 DEF SameWrite, Idle
<1>9. New(req') = New(req) /\ Lbas(req', 0, m) = K
  BY <1>2, SameWriteParts DEF K
<1>10. Last' = Last /\ Committed' = Committed /\ Put = D /\ Put' = K /\ Exact' = Exact
  BY <1>1, <1>2, <1>9 DEF Last, Committed, Put, Exact, D
<1>11. RecoveryAccounts'
  BY <1>1, <1>3, <1>10, RecoveryFrame
<1>12. BitsAccount'
  BY <1>1, <1>3, <1>8, <1>9, <1>10 DEF AccountsUp, BitsAccount
<1>13. RefAccounts'
  <2>1. ~torn => \A l \in DOMAIN g \ K : l \in DOMAIN Last /\ g[l].blk = Last[l].blk
    BY <1>3, <1>5, <1>7, <1>10 DEF AccountsUp, RefAccounts
  <2>2. /\ OneToOne(ref)' = OneToOne(g)
    BY <1>6 DEF OneToOne
  <2> QED
    BY <1>1, <1>6, <1>7, <1>10, <2>1, <2>2 DEF RefAccounts, Blks
<1>14. RequestAccounts'
  <2>1. /\ New(req) \subseteq held /\ req.old \cap (New(req) \cup Blks(ref)) = {}
        /\ New(req) \cap Blks(Last) = {}
        /\ \A l \in DOMAIN ref : ref[l].blk \in New(req) => l \in D
        /\ \A b \in req.old \cap Blks(Last) : \E l \in D \cap DOMAIN Last : Last[l].blk = b
        /\ Exact => \A l \in D \cap DOMAIN Last : Last[l].blk \in req.old
    BY <1>1, <1>3 DEF AccountsUp, RequestAccounts, D
  <2>2. /\ OneToOne(ref) /\ DOMAIN Last \subseteq DOMAIN ref
        /\ \A l \in DOMAIN ref : \/ l \in DOMAIN Last /\ ref[l].blk = Last[l].blk
                                 \/ ref[l].blk \in held \ Blks(Last)
        /\ ~torn => \A l \in DOMAIN ref \ D : l \in DOMAIN Last /\ ref[l].blk = Last[l].blk
    BY <1>3, <1>10 DEF AccountsUp, RefAccounts
  <2>3. ASSUME NEW l \in P \cap DOMAIN ref
        PROVE  ref[l].blk \notin New(req) /\ ref[l].blk \notin Blks(g)
    <3>1. ref[l].blk \notin New(req)
      BY <1>5, <2>1
    <3>2. ASSUME NEW j \in DOMAIN g, g[j].blk = ref[l].blk
          PROVE  FALSE
      <4>1. j \notin K
        BY <1>7, <3>1, <3>2
      <4>2. j = l
        BY <1>7, <2>2, <3>2, <4>1 DEF OneToOne
      <4> QED
        BY <1>5, <4>1, <4>2
    <3> QED
      BY <3>1, <3>2 DEF Blks
  <2>4. ASSUME NEW b \in req.old
        PROVE  b \notin New(req) /\ b \notin Blks(g)
    <3>1. b \notin New(req) /\ \A j \in DOMAIN ref : ref[j].blk # b
      BY <2>1 DEF Blks
    <3> QED
      BY <1>7, <3>1 DEF Blks
  <2>5. req'.old \cap (New(req) \cup Blks(g)) = {}
    BY <1>2, <2>3, <2>4
  <2>6. ASSUME NEW b \in req'.old \cap Blks(Last)
        PROVE  \E l \in K \cap DOMAIN Last : Last[l].blk = b
    <3>1. CASE b \in req.old
      BY <1>5, <2>1, <2>6, <3>1
    <3>2. CASE b \notin req.old
      <4>1. PICK l \in P \cap DOMAIN ref : b = ref[l].blk
        BY <1>2, <3>2
      <4> QED
        BY <1>5, <2>2, <2>6, <4>1
    <3> QED
      BY <3>1, <3>2
  <2>7. ASSUME Exact, NEW l \in K \cap DOMAIN Last
        PROVE  Last[l].blk \in req'.old
    <3>1. CASE l \in D
      BY <1>2, <2>1, <2>7, <3>1
    <3>2. CASE l \in P
      BY <1>2, <1>3, <1>5, <2>2, <2>7, <3>2
    <3> QED
      BY <1>5, <3>1, <3>2
  <2>8. Blks(ref)' = Blks(g) /\ Blks(Last)' = Blks(Last)
    BY <1>6, <1>10 DEF Blks
  <2>9. \A l \in DOMAIN ref' : ref'[l].blk \in New(req') => l \in K
    BY <1>6, <1>7, <1>9
  <2>10. \A l \in K : l \in DOMAIN ref' /\ ref'[l].blk = req'.blks[l - req'.lba + 1]
    BY <1>6, <1>7, <1>8
  <2> QED
    BY <1>1, <1>2, <1>9, <1>10, <2>1, <2>5, <2>6, <2>7, <2>8, <2>9, <2>10 DEF RequestAccounts
<1> QED
  BY <1>11, <1>12, <1>13, <1>14

(* A put fails: what it has put stays, and with it the blocks of the write. *)
LEMMA Inv2Fails ==
    ASSUME Inv2, NEW m, NEW n \in 0 .. MaxLen - 1, WriteToIndexFails(m, n)
    PROVE  Accounts'
<1> DEFINE k == req.done + n
           K == Lbas(req, 0, k)
<1>1. /\ phase = "up" /\ req.stage = "index" /\ IsExtent(req, req.done, m) /\ n < m - req.done
      /\ ref' = Over(Given(req, req.done, k), ref) /\ req' = Idle
      /\ UNCHANGED <<bitmap, held, journal, disk, phase, recover, early>>
  BY DEF WriteToIndexFails, PutReady, replay
<1>2. \/ torn' = TRUE /\ leak' = "for good"
      \/ n = 0 /\ req.done = 0 /\ leak' = LeakUntilRestart /\ torn' = torn
  <2>1. req.done \in Nat
    BY <1>1, TypedParts DEF Inv2, Inv1, Live, Request
  <2>2. CASE n > 0 \/ req.done > 0
    BY <2>2 DEF WriteToIndexFails
  <2>3. CASE ~(n > 0 \/ req.done > 0)
    <3>1. n = 0 /\ req.done = 0
      BY <2>1, <2>3, LengthAssumption
    <3> QED
      BY <2>3, <3>1 DEF WriteToIndexFails
  <2> QED
    BY <2>2, <2>3
<1>3. /\ leak' # "for good" => leak # "for good"
      /\ leak' # "none"
      /\ disk.torn => torn'
      /\ torn' => leak' = "for good"
  <2>1. (disk.torn => torn) /\ (torn => leak = "for good")
    BY DEF Inv2, Accounts
  <2>2. CASE torn' = TRUE /\ leak' = "for good"
    BY <2>2
  <2>3. CASE leak' = LeakUntilRestart /\ torn' = torn
    <3>1. leak' # "none" /\ (leak = "for good" <=> leak' = "for good")
      BY <2>3 DEF LeakUntilRestart
    <3> QED
      BY <2>1, <2>3, <3>1
  <2> QED
    BY <1>2, <2>2, <2>3
<1> SUFFICES ASSUME ~disk.torn, ~early
             PROVE  RecoveryAccounts' /\ BitsAccount' /\ RefAccounts' /\ RequestAccounts'
  BY <1>1, <1>3 DEF Accounts
<1>4. RecoveryAccounts /\ AccountsUp /\ Inv1 /\ Live(req) /\ WriteOK(req) /\ req # Idle
  BY <1>1, TypedParts DEF Inv2, Inv1, Accounts, AccountsUp, Live
<1>5. k \in 0 .. req.nlbas /\ req.done <= k
  <2>1. m \in 0 .. req.nlbas /\ req.done \in Nat /\ req.nlbas \in Nat
    BY <1>1, <1>4 DEF Live, WriteOK, Begins, IsExtent
  <2> QED
    BY <1>1, <2>1, LengthAssumption
<1> HIDE DEF k
<1>6. PICK g : g = Over(Given(req, req.done, k), ref) /\ g = ref'
  BY <1>1
<1>7. /\ OneToOne(g) /\ DOMAIN Last \subseteq DOMAIN g
      /\ \A l \in DOMAIN g : \/ l \in DOMAIN Last /\ g[l].blk = Last[l].blk
                             \/ g[l].blk \in held \ Blks(Last)
      /\ \A l \in DOMAIN g \ K : l \in DOMAIN ref /\ g[l] = ref[l]
  BY <1>1, <1>4, <1>5, <1>6, PutRef
<1> HIDE DEF K
<1>8. Last' = Last /\ Committed' = bitmap /\ Committed = bitmap /\ Put' = {}
  BY <1>1 DEF Last, Committed, Put, Idle
<1>9. RecoveryAccounts'
  BY <1>1, <1>3, <1>4, RecoveryFrame DEF Exact
<1>10. BitsAccount'
  <2>1. Blks(Last) \subseteq bitmap /\ (Exact => Blks(Last) = bitmap)
    BY <1>4, <1>8 DEF AccountsUp, BitsAccount
  <2>2. Exact' => Exact
    BY <1>3 DEF Exact
  <2> QED
    BY <1>3, <1>8, <2>1, <2>2 DEF BitsAccount, Blks
<1>11. RefAccounts'
  <2>1. ASSUME ~torn', NEW l \in DOMAIN g
        PROVE  l \in DOMAIN Last /\ g[l].blk = Last[l].blk
    <3>1. n = 0 /\ req.done = 0 /\ ~torn
      <4>1. torn' # TRUE
        BY <2>1
      <4> QED
        BY <1>2, <2>1, <4>1
    <3>2. K = {} /\ Put = {}
      BY <1>4, <3>1 DEF K, k, Put, Lbas, WriteOK
    <3> QED
      BY <1>4, <1>7, <3>1, <3>2 DEF AccountsUp, RefAccounts
  <2>2. OneToOne(ref)' = OneToOne(g)
    BY <1>6 DEF OneToOne
  <2> QED
    BY <1>1, <1>6, <1>7, <1>8, <2>1, <2>2 DEF RefAccounts, Blks
<1>12. RequestAccounts'
  BY <1>1 DEF RequestAccounts
<1> QED
  BY <1>9, <1>10, <1>11, <1>12

(* What recovery comes to, once a write that is all put is journaled: its    *)
(* blocks in, and those it replaced out.                                     *)
LEMMA JournalBlocks ==
    ASSUME Inv1, AccountsUp, OneToOne(Last), req.stage = "index", req.done = req.nlbas,
           NEW g, g = Over(Info(req), Last)
    PROVE  /\ DOMAIN g \subseteq DOMAIN ref /\ OneToOne(g)
           /\ \A l \in DOMAIN ref : \/ l \in DOMAIN g /\ ref[l].blk = g[l].blk
                                    \/ ref[l].blk \in held \ Blks(g)
           /\ ~torn => \A l \in DOMAIN ref : l \in DOMAIN g /\ ref[l].blk = g[l].blk
           /\ Blks(g) \subseteq (Blks(Last) \cup New(req)) \ req.old
           /\ Exact => Blks(g) = (Blks(Last) \cup New(req)) \ req.old
           /\ New(req) \subseteq Blks(g)
<1> DEFINE Q == Lbas(req, 0, req.nlbas)
<1>1. Live(req) /\ WriteOK(req) /\ req # Idle /\ 0 \in 0 .. req.nlbas /\ req.nlbas \in 0 .. req.nlbas
  <2>1. Live(req) /\ WriteOK(req) /\ req # Idle
    BY TypedParts DEF Inv1, Live
  <2> QED
    BY <2>1 DEF WriteOK
<1>2. /\ DOMAIN g = Q \cup DOMAIN Last
      /\ \A l \in Q : g[l].blk = req.blks[l - req.lba + 1] /\ g[l].blk \in New(req)
      /\ \A l \in DOMAIN Last \ Q : g[l] = Last[l]
  <2>1. PICK h : h = Given(req, 0, req.nlbas)
    OBVIOUS
  <2>2. PICK f : f = Last
    OBVIOUS
  <2>3. /\ DOMAIN Over(h, f) = DOMAIN h \cup DOMAIN f
        /\ \A x \in DOMAIN h : Over(h, f)[x] = h[x]
        /\ \A x \in DOMAIN f \ DOMAIN h : Over(h, f)[x] = f[x]
    BY OverParts
  <2>4. g = Over(h, f)
    BY <2>1, <2>2 DEF Info
  <2>5. DOMAIN h = Q
    BY <2>1 DEF Given
  <2>6. \A l \in Q : h[l].blk = req.blks[l - req.lba + 1] /\ h[l].blk \in New(req)
    BY <1>1, <2>1, GivenBlocks
  <2> QED
    BY <2>2, <2>3, <2>4, <2>5, <2>6
<1>3. /\ \A l, j \in Q : req.blks[l - req.lba + 1] = req.blks[j - req.lba + 1] => l = j
      /\ \A b \in New(req) : \E l \in Q : b = req.blks[l - req.lba + 1]
  BY <1>1, GivenBlocks
<1>4. /\ New(req) \subseteq held /\ req.old \cap (New(req) \cup Blks(ref)) = {}
      /\ New(req) \cap Blks(Last) = {}
      /\ \A l \in DOMAIN ref : ref[l].blk \in New(req) => l \in Q
      /\ \A l \in Q : l \in DOMAIN ref /\ ref[l].blk = req.blks[l - req.lba + 1]
      /\ \A b \in req.old \cap Blks(Last) : \E l \in Q \cap DOMAIN Last : Last[l].blk = b
      /\ Exact => \A l \in Q \cap DOMAIN Last : Last[l].blk \in req.old
  BY <1>1 DEF AccountsUp, RequestAccounts
<1>5. /\ DOMAIN Last \subseteq DOMAIN ref
      /\ \A l \in DOMAIN ref : \/ l \in DOMAIN Last /\ ref[l].blk = Last[l].blk
                               \/ ref[l].blk \in held \ Blks(Last)
      /\ ~torn => \A l \in DOMAIN ref \ Q : l \in DOMAIN Last /\ ref[l].blk = Last[l].blk
  BY DEF AccountsUp, RefAccounts, Put
<1> HIDE DEF Q
<1>6. \A l \in DOMAIN Last : Last[l].blk \in Blks(Last) /\ Last[l].blk \notin New(req)
  BY <1>4 DEF Blks
<1>7. ASSUME NEW l \in DOMAIN g, NEW j \in DOMAIN g, g[l].blk = g[j].blk
      PROVE  l = j
  <2>1. CASE l \in Q
    <3>1. j \in Q
      BY <1>2, <1>6, <1>7, <2>1
    <3> QED
      BY <1>2, <1>3, <1>7, <2>1, <3>1
  <2>2. CASE l \notin Q
    <3>1. j \notin Q
      BY <1>2, <1>6, <1>7, <2>2
    <3> QED
      BY <1>2, <1>7, <2>2, <3>1 DEF OneToOne
  <2> QED
    BY <2>1, <2>2
<1>8. ASSUME NEW l \in DOMAIN ref
      PROVE  /\ \/ l \in DOMAIN g /\ ref[l].blk = g[l].blk
                \/ ref[l].blk \in held \ Blks(g)
             /\ ~torn => l \in DOMAIN g /\ ref[l].blk = g[l].blk
  <2>1. CASE l \in Q
    BY <1>2, <1>4, <2>1
  <2>2. CASE l \notin Q /\ l \in DOMAIN Last /\ ref[l].blk = Last[l].blk
    BY <1>2, <2>2
  <2>3. CASE l \notin Q /\ ref[l].blk \in held \ Blks(Last)
    <3>1. ASSUME NEW j \in DOMAIN g, g[j].blk = ref[l].blk
          PROVE  FALSE
      <4>1. j \notin Q
        BY <1>2, <1>4, <2>3, <3>1
      <4> QED
        BY <1>2, <1>6, <2>3, <3>1, <4>1
    <3>2. ref[l].blk \notin Blks(g)
      BY <3>1 DEF Blks
    <3>3. ~torn => l \in DOMAIN g /\ ref[l].blk = g[l].blk
      BY <1>2, <1>5, <2>3
    <3> QED
      BY <2>3, <3>2, <3>3
  <2> QED
    BY <1>5, <2>1, <2>2, <2>3
<1>9. Blks(g) \subseteq (Blks(Last) \cup New(req)) \ req.old
  <2> SUFFICES ASSUME NEW l \in DOMAIN g
               PROVE  g[l].blk \in (Blks(Last) \cup New(req)) \ req.old
    BY DEF Blks
  <2>1. CASE l \in Q
    BY <1>2, <1>4, <2>1
  <2>2. CASE l \notin Q
    <3>1. l \in DOMAIN Last /\ g[l].blk = Last[l].blk
      BY <1>2, <2>2
    <3>2. Last[l].blk \notin req.old
      BY <1>4, <1>6, <2>2, <3>1 DEF OneToOne
    <3> QED
      BY <1>6, <3>1, <3>2
  <2> QED
    BY <2>1, <2>2
<1>10. New(req) \subseteq Blks(g)
  BY <1>2, <1>3 DEF Blks
<1>11. ASSUME Exact, NEW b \in (Blks(Last) \cup New(req)) \ req.old
       PROVE  b \in Blks(g)
  <2>1. CASE b \in New(req)
    BY <1>10, <2>1
  <2>2. CASE b \in Blks(Last)
    <3>1. PICK l \in DOMAIN Last : b = Last[l].blk
      BY <2>2 DEF Blks
    <3>2. l \notin Q
      BY <1>4, <1>11, <3>1
    <3> QED
      BY <1>2, <3>1, <3>2 DEF Blks
  <2> QED
    BY <1>11, <2>1, <2>2
<1> QED
  BY <1>2, <1>4, <1>5, <1>7, <1>8, <1>9, <1>10, <1>11 DEF OneToOne

(* async_write_journal: what recovery comes to gains the write. *)
LEMMA Inv2WriteJournal ==
    ASSUME Inv2, WriteJournal
    PROVE  Accounts'
<1> DEFINE N == Len(recover)
<1>1. PICK e \in Entry : /\ journal' = Append(journal, e) /\ SameWrite(e, req) /\ Freed(e) \subseteq req.old
                         /\ Cardinality(req.old) < U16 => Freed(e) = req.old
  BY JournalEntry DEF Inv2
<1>2. /\ phase = "up" /\ req.stage = "index" /\ req.done = req.nlbas
      /\ recover' = Append(recover, Over(Info(req), Last))
      /\ req' = [req EXCEPT !.stage = "journal"]
      /\ UNCHANGED <<bitmap, held, disk, phase, ref, torn, early>>
  BY DEF WriteJournal, replay, Last
<1>20. /\ leak' # "for good" => leak' = leak /\ Cardinality(req.old) < U16
       /\ leak = "for good" => leak' = "for good"
       /\ leak' = "none" => leak = "none"
  BY DEF WriteJournal
<1> SUFFICES ASSUME ~disk.torn, ~early
             PROVE  RecoveryAccounts' /\ BitsAccount' /\ RefAccounts' /\ RequestAccounts'
  BY <1>2, <1>20 DEF Accounts, Inv2
<1>3. RecoveryAccounts /\ AccountsUp /\ Inv1 /\ Live(req) /\ req # Idle /\ OneToOne(Last)
  BY <1>2, TypedParts DEF Inv2, Inv1, Accounts, AccountsUp, RecoveryAccounts
<1>4. PICK g : g = Over(Info(req), Last)
  OBVIOUS
<1>5. /\ DOMAIN g \subseteq DOMAIN ref /\ OneToOne(g)
      /\ \A l \in DOMAIN ref : \/ l \in DOMAIN g /\ ref[l].blk = g[l].blk
                               \/ ref[l].blk \in held \ Blks(g)
      /\ ~torn => \A l \in DOMAIN ref : l \in DOMAIN g /\ ref[l].blk = g[l].blk
      /\ Blks(g) \subseteq (Blks(Last) \cup New(req)) \ req.old
      /\ Exact => Blks(g) = (Blks(Last) \cup New(req)) \ req.old
      /\ New(req) \subseteq Blks(g)
  BY <1>2, <1>3, <1>4, JournalBlocks
<1>6. /\ journal \in Seq(Entry) /\ recover \in Seq(Map) /\ Len(journal) \in Nat /\ N \in Nat \ {0}
      /\ disk.lsn \in Nat /\ disk.lsn + N = Len(journal) + 1
  BY <1>3, HistoryParts DEF Inv1, Typed
<1>7. /\ journal' # << >> /\ Len(journal') = Len(journal) + 1 /\ journal'[Len(journal) + 1] = e
      /\ \A i \in 1 .. Len(journal) : journal'[i] = journal[i]
  BY <1>1, <1>6
<1>8. Len(recover') = N + 1 /\ recover'[N + 1] = g /\ \A i \in 1 .. N : recover'[i] = recover[i]
  BY <1>2, <1>4, <1>6
<1>9. Last' = g /\ (Exact' => Exact /\ Freed(e) = req.old)
  BY <1>1, <1>2, <1>8, <1>20 DEF Last, Exact
<1>10. PICK r : r = req'
  OBVIOUS
<1>11. r.stage = "journal" /\ r.old = req.old /\ r.done = req.done /\ r # Idle /\ SameWrite(r, req)
  BY <1>2, <1>3, <1>10 DEF Live, Request, SameWrite, Idle
<1>12. New(r) = New(req) /\ New(e) = New(req)
  BY <1>1, <1>11, SameWriteParts
<1>14. RecoveryAccounts'
  <2>1. OneToOne(Last)'
    BY <1>5, <1>9 DEF OneToOne
  <2>2. /\ \A i \in 1 .. N : Taken(i)' = Taken(i)
        /\ Taken(Len(recover))' = Blks(g)
        /\ Blks(Last) \subseteq Taken(N) /\ (Exact => Blks(Last) = Taken(N))
    <3>1. \A i \in 1 .. N : Taken(i)' = Taken(i)
      BY <1>2, <1>8 DEF Taken, Blks
    <3>2. Taken(Len(recover))' = Blks(g)
      <4>1. Len(recover') # 1 /\ recover'[Len(recover')] = g
        BY <1>6, <1>8
      <4> QED
        BY <4>1 DEF Taken, Blks
    <3> QED
      BY <1>3, <3>1, <3>2 DEF RecoveryAccounts
  <2>3. Blks(Last)' = Taken(Len(recover))'
    BY <1>9, <2>2 DEF Blks
  <2>4. ASSUME NEW i \in 1 .. Len(recover') - 1
        PROVE  /\ Blks(recover'[i + 1]) \subseteq Freeing(Taken(i)', journal'[disk'.lsn + i])
               /\ Exact' => Blks(recover'[i + 1]) = Freeing(Taken(i)', journal'[disk'.lsn + i])
    <3>1. CASE i = N
      <4>1. recover'[i + 1] = g /\ Taken(i)' = Taken(N) /\ journal'[disk'.lsn + i] = e
        BY <1>2, <1>6, <1>7, <1>8, <2>2, <3>1
      <4>2. /\ Blks(g) \subseteq Freeing(Taken(N), e)
            /\ Exact' => Blks(g) = Freeing(Taken(N), e)
        BY <1>1, <1>5, <1>9, <1>12, <2>2 DEF Freeing
      <4> QED
        BY <4>1, <4>2
    <3>2. CASE i # N
      <4>1. /\ i \in 1 .. N - 1 /\ i + 1 \in 1 .. N /\ i \in 1 .. N /\ disk.lsn + i \in 1 .. Len(journal)
        BY <1>6, <1>8, <3>2
      <4>2. /\ recover'[i + 1] = recover[i + 1] /\ Taken(i)' = Taken(i)
            /\ journal'[disk'.lsn + i] = journal[disk.lsn + i]
        BY <1>2, <1>7, <1>8, <2>2, <4>1
      <4> QED
        BY <1>3, <1>9, <4>1, <4>2 DEF RecoveryAccounts
    <3> QED
      BY <3>1, <3>2
  <2> QED
    BY <2>1, <2>3, <2>4 DEF RecoveryAccounts, Blks, Freeing, New, Freed
<1>15. Committed' = Freeing(bitmap, e) /\ Committed = bitmap /\ Put' = {}
  <2>1. journal'[Len(journal')] = e
    BY <1>7
  <2> QED
    BY <1>2, <1>10, <1>11, <2>1 DEF Committed, Put, Freeing, New, Freed
<1>16. BitsAccount'
  <2>1. /\ Blks(Last) \subseteq bitmap /\ (Exact => Blks(Last) = bitmap)
        /\ leak = "none" => held \subseteq New(req)
    BY <1>3, <1>15 DEF AccountsUp, BitsAccount
  <2>2. Blks(g) \subseteq Freeing(bitmap, e) /\ (Exact' => Blks(g) = Freeing(bitmap, e))
    BY <1>1, <1>5, <1>9, <1>12, <2>1 DEF Freeing
  <2> QED
    BY <1>2, <1>9, <1>10, <1>11, <1>12, <1>15, <1>20, <2>1, <2>2 DEF BitsAccount, Blks
<1>17. RefAccounts'
  <2>1. OneToOne(ref)'
    BY <1>2, <1>3 DEF AccountsUp, RefAccounts, OneToOne
  <2> QED
    BY <1>2, <1>5, <1>9, <1>15, <2>1 DEF RefAccounts, Blks
<1>18. RequestAccounts'
  <2>1. /\ New(req) \subseteq held /\ req.old \cap (New(req) \cup Blks(ref)) = {}
    BY <1>3 DEF AccountsUp, RequestAccounts
  <2>2. journal'[Len(journal')] = e
    BY <1>7
  <2>3. New(r) \subseteq held' /\ r.old \cap (New(r) \cup Blks(ref)') = {}
    BY <1>2, <1>11, <1>12, <2>1 DEF Blks
  <2>4. Freed(journal'[Len(journal')]) \subseteq r.old
    BY <1>1, <1>11, <2>2
  <2>5. New(r) \subseteq Blks(Last)'
    BY <1>5, <1>9, <1>12 DEF Blks
  <2>6. \A l \in Lbas(r, 0, r.done) : l \in DOMAIN ref' /\ ref'[l].blk = r.blks[l - r.lba + 1]
    <3>1. \A l \in Lbas(req, 0, req.done) : l \in DOMAIN ref /\ ref[l].blk = req.blks[l - req.lba + 1]
      BY <1>3 DEF AccountsUp, RequestAccounts
    <3>2. Lbas(r, 0, r.done) = Lbas(req, 0, req.done) /\ r.blks = req.blks /\ r.lba = req.lba
      BY <1>11, SameWriteParts DEF SameWrite
    <3> QED
      BY <1>2, <3>1, <3>2
  <2> QED
    BY <1>10, <1>11, <2>3, <2>4, <2>5, <2>6 DEF RequestAccounts, New, Freed, Lbas
<1> QED
  BY <1>14, <1>16, <1>17, <1>18

(* on_write: the blocks of the write are taken for good, and those it        *)
(* replaced are freed.                                                       *)
LEMMA Inv2Commit ==
    ASSUME Inv2, Commit
    PROVE  Accounts'
<1> DEFINE e == journal[Len(journal)]
<1>1. /\ phase = "up" /\ req.stage = "journal" /\ req' = Idle
      /\ bitmap' = Freeing(bitmap, e) /\ held' = held \ (New(e) \cup Freed(e))
      /\ UNCHANGED <<journal, disk, phase, ref, recover, torn, leak, early>>
  BY DEF Commit, replay, history, Freeing
<1> SUFFICES ASSUME ~disk.torn, ~early
             PROVE  RecoveryAccounts' /\ BitsAccount' /\ RefAccounts' /\ RequestAccounts'
  BY <1>1 DEF Accounts, Inv2
<1>2. RecoveryAccounts /\ AccountsUp /\ req # Idle
  BY <1>1, TypedParts DEF Inv2, Inv1, Accounts, AccountsUp
<1>3. /\ New(e) = New(req) /\ Freed(e) \subseteq req.old /\ New(req) \subseteq Blks(Last)
      /\ req.old \cap Blks(ref) = {}
  <2>1. New(e) = New(req)
    BY <1>1, SameWriteParts DEF Inv2, Inv1, Typed, Journaled
  <2> QED
    BY <1>1, <1>2, <2>1 DEF AccountsUp, RequestAccounts
<1> HIDE DEF e
<1>4. Last' = Last /\ Committed' = bitmap' /\ Committed = bitmap' /\ Put' = {} /\ Put = {} /\ Exact' = Exact
  BY <1>1 DEF Last, Committed, Put, Idle, Exact, e
<1>5. RecoveryAccounts'
  BY <1>1, <1>2, <1>4, RecoveryFrame
<1>6. BitsAccount'
  <2>1. leak' = "none" => held' = {}
    BY <1>1, <1>2, <1>3 DEF AccountsUp, BitsAccount
  <2> QED
    BY <1>1, <1>2, <1>4, <2>1 DEF AccountsUp, BitsAccount, Blks
<1>7. RefAccounts'
  <2>1. \A l \in DOMAIN ref : ref[l].blk \in held \ Blks(Last) => ref[l].blk \in held'
    BY <1>1, <1>3 DEF Blks
  <2> QED
    BY <1>1, <1>2, <1>4, <2>1 DEF AccountsUp, RefAccounts, OneToOne, Blks
<1>8. RequestAccounts'
  BY <1>1 DEF RequestAccounts
<1> QED
  BY <1>5, <1>6, <1>7, <1>8

(* A checkpoint that does not save index entries of a write without journal  *)
(* entry: what recovery comes to is the map, also when the entry of the      *)
(* request is left to the replay.                                            *)
LEMMA CheckpointMaps ==
    ASSUME Inv2, Checkpoint, ~torn, ~early'
    PROVE  /\ ~disk.torn /\ ~early /\ AccountsUp
           /\ Put = {} /\ Blks(ref) = Blks(Last)
           /\ DOMAIN Last' = DOMAIN ref /\ \A l \in DOMAIN ref : Last'[l].blk = ref[l].blk
<1>1. early' = (early \/ (req.stage = "index" /\ req.done > 0))
  BY DEF Checkpoint
<1>2. ~early /\ ~(req.stage = "index" /\ req.done > 0)
  BY <1>1
<1>3. phase = "up" /\ Inv1
  BY CheckpointParts DEF Inv2
<1>4. ~disk.torn /\ AccountsUp
  BY <1>2, <1>3 DEF Inv2, Accounts, AccountsUp
<1>5. Put = {}
  <2>1. CASE req.stage = "index"
    <3>1. Live(req)
      BY <1>3, <2>1, TypedParts DEF Inv1
    <3>2. req.done \in Nat /\ req.lba \in Nat
      BY <3>1 DEF Live, Request
    <3>3. req.done = 0
      BY <1>2, <2>1, <3>2
    <3> QED
      BY <2>1, <3>2, <3>3 DEF Put, Lbas
  <2>2. CASE req.stage # "index"
    BY <2>2 DEF Put
  <2> QED
    BY <2>1, <2>2
<1>6. Blks(ref) = Blks(Last)
  <2>1. /\ DOMAIN Last \subseteq DOMAIN ref
        /\ \A l \in DOMAIN ref : l \in DOMAIN Last /\ ref[l].blk = Last[l].blk
    BY <1>4, <1>5 DEF AccountsUp, RefAccounts
  <2> QED
    BY <2>1 DEF Blks
<1>7. DOMAIN Last' = DOMAIN ref /\ \A l \in DOMAIN ref : Last'[l].blk = ref[l].blk
  <2>1. CASE req.stage # "journal"
    <3>1. recover' = <<ref>>
      BY <2>1, CheckpointParts
    <3>2. Last' = ref
      BY <3>1 DEF Last
    <3> QED
      BY <3>2
  <2>2. CASE req.stage = "journal"
    <3>1. PICK e : e = journal[Len(journal)]
      OBVIOUS
    <3>2. SameWrite(e, req) /\ Live(req) /\ WriteOK(req) /\ req.done = req.nlbas /\ req # Idle
      BY <1>3, <2>2, <3>1, TypedParts DEF Inv1, Typed, Journaled, Live
    <3>3. PICK h : h = Given(req, 0, req.nlbas)
      OBVIOUS
    <3>4. Info(e) = h
      <4>1. Info(e) = Info(req)
        BY <3>2, SameWriteParts
      <4> QED
        BY <3>3, <4>1 DEF Info
    <3>5. PICK f : f = ref
      OBVIOUS
    <3>6. Last' = Over(h, f)
      <4>1. PICK g : g = Over(h, f)
        OBVIOUS
      <4>2. recover' = <<ref, g>>
        BY <2>2, <3>1, <3>4, <3>5, <4>1, CheckpointParts
      <4>3. Last' = g
        BY <4>2 DEF Last
      <4> QED
        BY <4>1, <4>3
    <3>7. /\ DOMAIN Over(h, f) = DOMAIN h \cup DOMAIN f
          /\ \A x \in DOMAIN h : Over(h, f)[x] = h[x]
          /\ \A x \in DOMAIN f \ DOMAIN h : Over(h, f)[x] = f[x]
      BY OverParts
    <3>8. DOMAIN h = Lbas(req, 0, req.nlbas)
      BY <3>3 DEF Given
    <3>9. \A l \in DOMAIN h : h[l].blk = req.blks[l - req.lba + 1]
      <4>1. 0 \in 0 .. req.nlbas /\ req.nlbas \in 0 .. req.nlbas
        BY <3>2 DEF WriteOK
      <4> QED
        BY <3>2, <3>3, <3>8, <4>1, GivenBlocks
    <3>10. \A l \in DOMAIN h : l \in DOMAIN ref /\ ref[l].blk = req.blks[l - req.lba + 1]
      BY <1>4, <3>2, <3>8 DEF AccountsUp, RequestAccounts
    <3> QED
      BY <3>5, <3>6, <3>7, <3>9, <3>10
  <2> QED
    BY <2>1, <2>2
<1> QED
  BY <1>2, <1>4, <1>5, <1>6, <1>7

(* A checkpoint, at any time. *)
LEMMA Inv2Checkpoint ==
    ASSUME Inv2, Checkpoint
    PROVE  Accounts'
<1>1. /\ phase = "up" /\ disk'.bitmap = bitmap /\ disk'.torn = torn
      /\ UNCHANGED <<bitmap, held, journal, req, phase, ref, torn, leak>>
  BY CheckpointParts
<1>2. torn => leak = "for good"
  BY DEF Inv2, Accounts
<1> SUFFICES ASSUME ~torn, ~early'
             PROVE  RecoveryAccounts' /\ BitsAccount' /\ RefAccounts' /\ RequestAccounts'
  BY <1>1, <1>2 DEF Accounts
<1>3. /\ AccountsUp /\ Put = {} /\ Blks(ref) = Blks(Last)
      /\ DOMAIN Last' = DOMAIN ref /\ \A l \in DOMAIN ref : Last'[l].blk = ref[l].blk
  BY CheckpointMaps
<1>4. Exact' = Exact /\ Committed' = Committed /\ Put' = {} /\ Blks(ref)' = Blks(ref)
  BY <1>1, <1>3 DEF Exact, Committed, Freeing, New, Freed, Put, Lbas, Blks
<1>5. Blks(Last)' = Blks(Last) /\ Blks(Last') = Blks(Last)
  <2>1. Blks(Last') = Blks(ref)
    BY <1>3 DEF Blks
  <2>2. Blks(Last)' = Blks(Last')
    BY DEF Blks
  <2> QED
    BY <1>3, <2>1, <2>2
<1>6. OneToOne(ref)' /\ OneToOne(Last)'
  BY <1>1, <1>3 DEF OneToOne, AccountsUp, RefAccounts
<1>7. Blks(Last) \subseteq Committed /\ (Exact => Blks(Last) = Committed)
  BY <1>3 DEF AccountsUp, BitsAccount
<1>8. RecoveryAccounts'
  <2>1. CASE req.stage # "journal"
    <3>1. recover' = <<ref>>
      BY <2>1, CheckpointParts
    <3>2. Len(recover') = 1 /\ Taken(Len(recover))' = bitmap /\ Committed = bitmap
      BY <1>1, <2>1, <3>1 DEF Taken, Committed
    <3> QED
      BY <1>4, <1>5, <1>6, <1>7, <3>2 DEF RecoveryAccounts
  <2>2. CASE req.stage = "journal"
    <3>1. PICK n \in Nat \ {0} : n = Len(journal)
      <4>1. journal # << >> /\ journal \in Seq(Entry)
        BY <2>2 DEF Journaled, Inv2, Inv1, Typed
      <4> QED
        BY <4>1
    <3>2. recover' = <<ref, Over(Info(journal[n]), ref)>> /\ disk'.lsn = n - 1
      BY <2>2, <3>1, CheckpointParts
    <3>3. Len(recover') = 2 /\ recover'[2] = Last'
      BY <3>2 DEF Last
    <3>4. Taken(1)' = bitmap /\ Committed = Freeing(bitmap, journal[n])
      BY <1>1, <2>2, <3>1 DEF Taken, Committed
    <3>5. Taken(Len(recover))' = Blks(Last)'
      BY <3>3 DEF Taken, Last
    <3>6. ASSUME NEW i \in 1 .. Len(recover') - 1
          PROVE  /\ Blks(recover'[i + 1]) \subseteq Freeing(Taken(i)', journal'[disk'.lsn + i])
                 /\ Exact => Blks(recover'[i + 1]) = Freeing(Taken(i)', journal'[disk'.lsn + i])
      <4>1. i = 1 /\ i + 1 = 2 /\ disk'.lsn + i = n
        BY <3>2, <3>3
      <4>2. Freeing(Taken(1)', journal'[n]) = Committed
        BY <1>1, <3>4
      <4> QED
        BY <1>5, <1>7, <3>3, <4>1, <4>2
    <3> QED
      BY <1>4, <1>6, <3>5, <3>6 DEF RecoveryAccounts, Blks, Freeing, New, Freed
  <2> QED
    BY <2>1, <2>2
<1>9. BitsAccount'
  <2>1. (IF req = Idle THEN {} ELSE New(req))' = (IF req = Idle THEN {} ELSE New(req))
    BY <1>1 DEF New, Idle
  <2> QED
    BY <1>1, <1>3, <1>4, <1>5, <1>7, <2>1 DEF AccountsUp, BitsAccount
<1>10. RefAccounts'
  BY <1>1, <1>3, <1>6 DEF RefAccounts
<1>11. RequestAccounts'
  <2> SUFFICES ASSUME req # Idle
               PROVE  RequestAccounts'
    BY <1>1 DEF RequestAccounts, Idle
  <2>1. /\ New(req) \subseteq held
        /\ req.old \cap (New(req) \cup Blks(ref)) = {}
        /\ \A l \in Lbas(req, 0, req.done) : l \in DOMAIN ref /\ ref[l].blk = req.blks[l - req.lba + 1]
    BY <1>3 DEF AccountsUp, RequestAccounts
  <2>2. New(req)' = New(req) /\ Lbas(req, 0, req.done)' = Lbas(req, 0, req.done)
    BY <1>1 DEF New, Lbas
  <2>3. CASE req.stage = "journal"
    <3>1. Freed(journal[Len(journal)]) \subseteq req.old /\ New(req) \subseteq Blks(Last)
      BY <1>3, <2>3 DEF AccountsUp, RequestAccounts
    <3>2. Freed(journal[Len(journal)])' = Freed(journal[Len(journal)])
      BY <1>1 DEF Freed
    <3> QED
      BY <1>1, <1>4, <1>5, <2>1, <2>2, <2>3, <3>1, <3>2 DEF RequestAccounts
  <2>4. CASE req.stage # "journal"
    <3>1. /\ New(req) \cap Blks(Last) = {}
          /\ \A l \in DOMAIN ref : ref[l].blk \in New(req) => l \in Lbas(req, 0, req.done)
      BY <1>3, <2>4 DEF AccountsUp, RequestAccounts
    <3>2. req.old \cap Blks(Last) = {}
      BY <1>3, <2>1
    <3>3. Lbas(req, 0, req.done) = {}
      <4>1. CASE req.stage = "index"
        BY <1>3, <4>1 DEF Put
      <4>2. CASE req.stage # "index"
        <5>1. Live(req)
          BY TypedParts DEF Inv2, Inv1, Typed
        <5>2. req.done = 0 /\ req.lba \in Nat
          BY <2>4, <4>2, <5>1 DEF Live, Request
        <5> QED
          BY <5>2 DEF Lbas
      <4> QED
        BY <4>1, <4>2
    <3> QED
      BY <1>1, <1>4, <1>5, <2>1, <2>2, <2>4, <3>1, <3>2, <3>3 DEF RequestAccounts
  <2> QED
    BY <2>3, <2>4
<1> QED
  BY <1>8, <1>9, <1>10, <1>11

(* A crash: the bitmap starts over from the checkpoint too. *)
LEMMA Inv2Crash ==
    ASSUME Inv2, Crash
    PROVE  Accounts'
<1>1. /\ phase' = "recovering" /\ bitmap' = disk.bitmap /\ held' = {} /\ lsn' = disk.lsn + 1
      /\ torn' = disk.torn /\ leak' = (IF leak = "for good" THEN leak ELSE "none")
      /\ UNCHANGED <<journal, disk, recover, early>>
  BY DEF Crash
<1>2. (disk.torn => torn) /\ (torn => leak = "for good")
  BY DEF Inv2, Accounts
<1>3. (disk'.torn => torn') /\ (torn' => leak' = "for good")
  BY <1>1, <1>2
<1>4. Exact' => Exact
  BY <1>1 DEF Exact
<1> SUFFICES ASSUME ~disk.torn, ~early
             PROVE  RecoveryAccounts' /\ ReplayAccounts'
  BY <1>1, <1>3 DEF Accounts
<1>5. RecoveryAccounts
  BY DEF Inv2, Accounts
<1>6. RecoveryAccounts'
  BY <1>1, <1>4, <1>5, RecoveryFrame
<1>7. lsn' - disk'.lsn = 1
  <2>1. PICK d \in Nat : d = disk.lsn
    BY HistoryParts DEF Inv2, Inv1
  <2>2. lsn' = d + 1 /\ disk'.lsn = d
    BY <1>1, <2>1
  <2> QED
    BY <2>2
<1>8. ReplayAccounts'
  <2>1. Taken(lsn - disk.lsn)' = bitmap'
    BY <1>1, <1>7 DEF Taken
  <2> QED
    BY <1>1, <2>1 DEF ReplayAccounts
<1> QED
  BY <1>6, <1>8

(* The steps of a recovery: the bitmap follows the entries. *)
LEMMA Inv2Replay ==
    ASSUME Inv2, (\E m : ReplayPut(m)) \/ ReplayFree
    PROVE  Accounts'
<1>1. /\ phase = "recovering" /\ phase' = "recovering" /\ lsn <= Len(journal)
      /\ UNCHANGED <<held, journal, disk, recover, torn, leak, early>>
      /\ \/ UNCHANGED <<bitmap, lsn>>
         \/ bitmap' = Freeing(bitmap, journal[lsn]) /\ lsn' = lsn + 1
  BY DEF ReplayPut, ReplayFree, history, Freeing
<1> SUFFICES ASSUME ~disk.torn, ~early
             PROVE  RecoveryAccounts' /\ ReplayAccounts'
  BY <1>1 DEF Inv2, Accounts
<1>2. RecoveryAccounts /\ ReplayAccounts
  BY <1>1 DEF Inv2, Accounts
<1>3. RecoveryAccounts' /\ Exact' = Exact
  BY <1>1, <1>2, RecoveryFrame DEF Exact
<1>4. CASE UNCHANGED <<bitmap, lsn>>
  BY <1>1, <1>2, <1>3, <1>4 DEF ReplayAccounts, Taken, Blks
<1>5. CASE bitmap' = Freeing(bitmap, journal[lsn]) /\ lsn' = lsn + 1
  <2>1. lsn \in Nat /\ disk.lsn \in Nat /\ lsn - disk.lsn \in 1 .. Len(recover) - 1
    BY <1>1, ReplayParts DEF Inv2
  <2>2. PICK i \in 1 .. Len(recover) - 1 :
           i = lsn - disk.lsn /\ lsn' - disk'.lsn = i + 1 /\ disk.lsn + i = lsn
    <3>1. PICK d \in Nat : d = disk.lsn /\ d = disk'.lsn
      BY <1>1, <2>1
    <3>2. lsn - d \in 1 .. Len(recover) - 1 /\ lsn' - d = lsn - d + 1 /\ d + (lsn - d) = lsn
      BY <1>5, <2>1, <3>1
    <3> QED
      BY <3>1, <3>2
  <2>3. /\ Blks(recover[i + 1]) \subseteq Freeing(Taken(i), journal[lsn])
        /\ Exact => Blks(recover[i + 1]) = Freeing(Taken(i), journal[lsn])
    BY <1>2, <2>2 DEF RecoveryAccounts
  <2>4. Taken(i) \subseteq bitmap /\ (Exact => Taken(i) = bitmap) /\ held = {}
    BY <1>2, <2>2 DEF ReplayAccounts
  <2>5. Blks(recover[i + 1]) \subseteq bitmap' /\ (Exact => Blks(recover[i + 1]) = bitmap')
    BY <1>5, <2>3, <2>4 DEF Freeing
  <2>6. Taken(lsn - disk.lsn)' = Blks(recover[i + 1])
    BY <1>1, <2>2 DEF Taken, Blks
  <2> QED
    BY <1>1, <1>3, <2>4, <2>5, <2>6 DEF ReplayAccounts
<1> QED
  BY <1>1, <1>3, <1>4, <1>5

(* The recovery ends with what it was to come to. *)
LEMMA Inv2Recovered ==
    ASSUME Inv2, Recovered
    PROVE  Accounts'
<1>1. /\ phase = "recovering" /\ lsn > Len(journal) /\ phase' = "up"
      /\ UNCHANGED <<bitmap, held, journal, disk, req, ref, recover, torn, leak, early>>
  BY DEF Recovered, store, history
<1>2. lsn - disk.lsn = Len(recover) /\ req = Idle /\ ref = Last
  BY <1>1, ReplayParts DEF Inv2, Last
<1> SUFFICES ASSUME ~disk.torn, ~early
             PROVE  RecoveryAccounts' /\ BitsAccount' /\ RefAccounts' /\ RequestAccounts'
  BY <1>1 DEF Inv2, Accounts
<1>3. RecoveryAccounts /\ ReplayAccounts
  BY <1>1 DEF Inv2, Accounts
<1>4. RecoveryAccounts' /\ Exact' = Exact
  BY <1>1, <1>3, RecoveryFrame DEF Exact
<1>5. Blks(Last) \subseteq bitmap /\ (Exact => Blks(Last) = bitmap) /\ held = {} /\ OneToOne(Last)
  BY <1>2, <1>3 DEF RecoveryAccounts, ReplayAccounts, Last
<1>6. Last' = Last /\ ref' = Last /\ Committed' = bitmap /\ Put' = {}
  BY <1>1, <1>2 DEF Last, Committed, Put, Idle
<1>7. BitsAccount'
  BY <1>1, <1>4, <1>5, <1>6 DEF BitsAccount, Blks
<1>8. RefAccounts'
  BY <1>5, <1>6 DEF RefAccounts, OneToOne
<1>9. RequestAccounts'
  BY <1>1, <1>2 DEF RequestAccounts
<1> QED
  BY <1>4, <1>7, <1>8, <1>9

(* The accounts of the blocks are invariant. *)
THEOREM AccountsInvariant == Spec => []Inv2
<1>1. Inv2 /\ Inv1' /\ [Next]_vars => Inv2'
  <2> SUFFICES ASSUME Inv2, [Next]_vars
               PROVE  Accounts'
    BY DEF Inv2
  <2>1. CASE \E addr \in Addresses, len \in 1 .. BlkSize * MaxLen : AsyncWrite(addr, len)
    BY <2>1, Inv2AsyncWrite
  <2>2. CASE DataWritten \/ DataFails
    BY <2>2, Inv2Data
  <2>3. ASSUME NEW m \in 1 .. MaxLen,
               \/ WriteToIndex(m) \/ WriteToIndexAsserts(m) \/ ReplayPut(m)
               \/ \E n \in 0 .. MaxLen - 1 : WriteToIndexFails(m, n)
        PROVE  Accounts'
    BY <2>3, Inv2WriteToIndex, Inv2Asserts, Inv2Replay, Inv2Fails
  <2>4. CASE WriteJournal
    BY <2>4, Inv2WriteJournal
  <2>5. CASE Commit
    BY <2>5, Inv2Commit
  <2>6. CASE Checkpoint
    BY <2>6, Inv2Checkpoint
  <2>7. CASE Crash
    BY <2>7, Inv2Crash
  <2>8. CASE ReplayFree
    BY <2>8, Inv2Replay
  <2>9. CASE Recovered
    BY <2>9, Inv2Recovered
  <2>10. CASE UNCHANGED vars
    <3>1. UNCHANGED <<bitmap, held, journal, disk, req, phase, lsn, ref, recover, torn, leak, early>>
      BY <2>10 DEF vars, store, replay, history
    <3>2. RecoveryAccounts' = RecoveryAccounts
      BY <3>1 DEF RecoveryAccounts, OneToOne, Last, Blks, Exact, Freeing, New, Freed, Taken
    <3>3. ReplayAccounts' = ReplayAccounts
      BY <3>1 DEF ReplayAccounts, Blks, Exact, Taken
    <3>4. BitsAccount' = BitsAccount
      BY <3>1 DEF BitsAccount, Blks, Last, Exact, Committed, Freeing, New, Freed
    <3>5. RefAccounts' = RefAccounts
      BY <3>1 DEF RefAccounts, OneToOne, Blks, Last, Put, Lbas
    <3>6. RequestAccounts' = RequestAccounts
      BY <3>1 DEF RequestAccounts, Blks, Last, Exact, New, Freed, Lbas
    <3> QED
      BY <3>1, <3>2, <3>3, <3>4, <3>5, <3>6 DEF Inv2, Accounts
  <2> QED
    BY <2>1, <2>2, <2>3, <2>4, <2>5, <2>6, <2>7, <2>8, <2>9, <2>10 DEF Next
<1>2. Init => Inv2
  BY Inv2Init
<1> QED
  BY <1>1, <1>2, IndexInvariant, PTL DEF Spec

(* No block is lost or given away: what the index names is allocated, and    *)
(* between writes nothing else is, also after checkpoints and crashes at any *)
(* point, unless a put failed half way, a checkpoint came between the puts   *)
(* of a write and its journal entry, a failed write kept its blocks, or old  *)
(* blocks were more than 16 bits count.                                      *)
THEOREM BlocksCorrect == Spec => []BlocksAccounted
<1>1. Inv2 => BlocksAccounted
  <2> SUFFICES ASSUME Inv2, phase = "up", ~torn, ~early
               PROVE  /\ Named \subseteq bitmap \cup held
                      /\ req.stage = "idle" /\ leak = "none" => bitmap \cup held = Named
    BY DEF BlocksAccounted
  <2>1. AccountsUp /\ Inv1
    BY DEF Inv2, Accounts, AccountsUp
  <2>2. Named = Blks(ref)
    BY <2>1 DEF Named, Blks, Inv1, IndexAgrees, Agrees
  <2>3. Blks(ref) \subseteq bitmap \cup held
    BY <2>1, NamedAllocated
  <2>4. ASSUME req.stage = "idle", leak = "none"
        PROVE  bitmap \cup held = Blks(ref)
    <3>1. req = Idle
      BY <2>1, <2>4, TypedParts DEF Inv1
    <3>2. Committed = bitmap /\ Put = {} /\ Exact
      BY <2>4 DEF Committed, Put, Exact
    <3>3. held = {} /\ bitmap = Blks(Last)
      BY <2>1, <2>4, <3>1, <3>2 DEF AccountsUp, BitsAccount
    <3>4. Blks(ref) = Blks(Last)
      BY <2>1, <3>2 DEF AccountsUp, RefAccounts, Blks
    <3> QED
      BY <3>3, <3>4
  <2> QED
    BY <2>2, <2>3, <2>4
<1> QED
  BY <1>1, AccountsInvariant, PTL
=============================================================================
