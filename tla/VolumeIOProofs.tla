---------------------------- MODULE VolumeIOProofs ----------------------------
(***************************************************************************)
(* Proofs about VolumeIO, for every number of lbas, blocks, writers and      *)
(* readers, any number of writes and crashes, and all faults: who waits for  *)
(* the journal, always; the index, recovery and the refinement of            *)
(* BlockStore, until the first mishap; and, at the end, the index until the  *)
(* first crash, mishaps or not.                                              *)
(***************************************************************************)
EXTENDS VolumeIO, FiniteSetTheorems, WellFoundedInduction, TLAPS

IndexEntry == [blk : Blk \cup {NoBlk}, csum : Nat]
Stage == {"idle", "data", "index", "journal", "refused"}
WriteRecord == [stage : Stage, val : Nat, lo : Lba, hi : Lba, cut : Int, next : Int,
                new : [Lba -> Blk \cup {NoBlk}], old : [Lba -> IndexEntry]]
JournalEntry == [val : Nat, lo : Lba, hi : Lba, new : [Lba -> Blk \cup {NoBlk}],
                 old : SUBSET Blk]
ReadRecord == [stage : {"idle", "data", "done", "crc mismatch"}, lba : Lba, at : IndexEntry,
               val : Int]
DiskRecord == [index : [Lba -> IndexEntry], bitmap : SUBSET Blk, lsn : Nat]

(* How far a write has got. *)
Progress(r) ==
    r.stage # "idle" =>
        /\ r.val \in Nat /\ r.val >= 1
        /\ r.next \in Int /\ r.lo <= r.next /\ r.next <= r.hi + 1
        /\ r.cut \in Int /\ r.lo <= r.cut
        /\ r.stage = "data" => r.next = r.lo
        /\ r.stage \in {"journal", "refused"} => r.next = r.hi + 1
        /\ \A l \in r.lo .. r.hi : r.new[l] \in Blk

(* The types of what a write touches, and how far a write has got. *)
TypeInv ==
    /\ index \in [Lba -> IndexEntry]
    /\ alloc \in SUBSET Blk /\ bitmap \in SUBSET Blk
    /\ data \in [Blk -> Nat]
    /\ journal \in Seq(JournalEntry)
    /\ committed \in 0 .. Len(journal)
    /\ disk \in DiskRecord /\ disk.lsn \in 0 .. Len(journal)
    /\ write \in [Writer -> WriteRecord]
    /\ read \in [Reader -> ReadRecord]
    /\ \A r \in Reader : read[r].stage = "data" => read[r].at.blk # NoBlk
    /\ issued \in 0 .. MaxWrites
    /\ \A w \in Writer : Progress(write[w]) /\ (Active(w) => write[w].val <= issued)
    /\ \A k \in 1 .. Len(journal) : NewOf(journal[k]) \in SUBSET Blk

Uncommitted == committed + 1 .. Len(journal)

(* Writes in progress have values of their own; and ranges of their own too. *)
ValuesInv ==
    \A w, v \in Writer : w # v /\ Active(w) /\ Active(v) => write[w].val # write[v].val

WriterInv ==
    \A w, v \in Writer : w # v /\ Active(w) /\ Active(v) =>
        /\ write[w].val # write[v].val
        /\ \A l \in Span(w) : l \notin Span(v)

(* A journal entry is of a write that was issued; one that is not committed  *)
(* is of a write that waits for it, and only for it, and every write that    *)
(* waits has one.                                                            *)
JournalInv ==
    /\ \A k \in 1 .. Len(journal) : journal[k].val \in 1 .. issued
    /\ \A k \in 1 .. Len(journal), w \in Writer :
           Active(w) /\ journal[k].val = write[w].val
           => k \in Uncommitted /\ write[w].stage = "journal"
    /\ \A w \in Writer : write[w].stage = "journal"
           => \E k \in Uncommitted : journal[k].val = write[w].val
    /\ \A k \in Uncommitted : \E w \in Writer : Active(w) /\ write[w].val = journal[k].val
    /\ \A j, k \in Uncommitted : j # k => journal[j].val # journal[k].val

(* The blocks of a write that a crash would undo are its own, are not among  *)
(* those a crash would leave allocated, and nobody is about to free them.    *)
BlockInv ==
    /\ \A w \in Writer : Unsaved(w) => \A l \in Span(w) :
           /\ write[w].new[l] \in alloc
           /\ write[w].new[l] \notin RecoveredBitmap
           /\ write[w].stage # "data" => data[write[w].new[l]] = write[w].val
           /\ \A k \in Uncommitted : write[w].new[l] \notin journal[k].old
    /\ \A w, v \in Writer : Unsaved(w) /\ Unsaved(v) =>
           \A l \in Span(w), m \in Span(v) :
               write[w].new[l] = write[v].new[m] => w = v /\ l = m

(* The blocks an uncommitted entry will free are still allocated, would not  *)
(* survive a crash, and are freed once.                                      *)
FreeInv ==
    /\ \A k \in Uncommitted : /\ \A b \in journal[k].old : b \in alloc /\ b \notin RecoveredBitmap
                              /\ \A b \in NewOf(journal[k]) : b \in alloc
    /\ \A j, k \in Uncommitted : j # k => \A b \in journal[j].old : b \notin journal[k].old
    /\ \A j, k \in Uncommitted : j <= k => \A b \in journal[j].old : b \notin NewOf(journal[k])
    /\ \A b \in bitmap : b \in alloc
    /\ \A b \in RecoveredBitmap : b \in alloc

(* What a crash would leave in the index is in blocks of its own, that a     *)
(* crash would leave allocated and that a commit has allocated or will.      *)
RecoveredSound ==
    \A l \in Lba : RecoveredIndex[l].blk # NoBlk =>
        /\ RecoveredIndex[l].blk \in RecoveredBitmap
        /\ data[RecoveredIndex[l].blk] = RecoveredIndex[l].csum
        /\ \A k \in Lba \ {l} : RecoveredIndex[k].blk # RecoveredIndex[l].blk

RecoveryInv ==
    /\ RecoveredSound
    /\ \A l \in Lba : RecoveredIndex[l].blk # NoBlk =>
           \/ RecoveredIndex[l].blk \in bitmap
           \/ \E k \in Uncommitted : /\ l \in journal[k].lo .. journal[k].hi
                                     /\ journal[k].new[l] = RecoveredIndex[l].blk

(* The index is what a crash would leave, but for what the writes that a     *)
(* crash would undo have put; those writes remember what they replaced.      *)
IndexInv ==
    /\ \A l \in Lba : (\A w \in Writer : Unsaved(w) => l \notin Shown(w))
                      => index[l] = RecoveredIndex[l]
    /\ \A w \in Writer : Unsaved(w) => \A l \in Shown(w) :
           /\ index[l] = [blk |-> write[w].new[l], csum |-> write[w].val]
           /\ write[w].old[l] = RecoveredIndex[l]

(* The bitmap is what a crash would leave, but for the blocks that the       *)
(* uncommitted entries name.                                                 *)
BitmapInv ==
    /\ disk.lsn <= committed
    /\ \A b \in Blk : (\A k \in Uncommitted : b \notin NewOf(journal[k]) /\ b \notin journal[k].old)
                      => (b \in bitmap <=> b \in RecoveredBitmap)

(* What holds whatever happens, and what holds until the first mishap. *)
WaitInv == ValuesInv /\ JournalInv

StoreInv == /\ WriterInv
            /\ JournalInv
            /\ BitmapInv
            /\ BlockInv
            /\ FreeInv
            /\ RecoveryInv
            /\ IndexInv

-----------------------------------------------------------------------------
(* What a replay leaves *)

(* A set of numbers that is bounded has a largest element: Max returns it. *)
LEMMA MaxOfBounded ==
    ASSUME NEW n \in Nat, NEW S \in SUBSET (0 .. n), S # {}
    PROVE  Max(S) \in S /\ \A k \in S : k <= Max(S)
<1> PICK T : T = {n - k : k \in S}
    OBVIOUS
<1>1. T \subseteq Nat /\ T # {}
  <2>1. \A k \in S : n - k \in Nat
      OBVIOUS
  <2> QED
      BY <2>1, Zenon
<1>2. PICK x \in T : \A y \in T : ~(<<y, x>> \in OpToRel(<, Nat))
    BY <1>1, NatLessThanWellFounded, WFMin, Zenon
<1>3. \A y \in T : ~(y < x)
    BY <1>1, <1>2 DEF OpToRel
<1>4. PICK m \in S : x = n - m
    OBVIOUS
<1>5. \A k \in S : m >= k
  <2> SUFFICES ASSUME NEW k \in S PROVE m >= k
      OBVIOUS
  <2>1. n - k \in T
      OBVIOUS
  <2>2. ~(n - k < n - m)
      BY <2>1, <1>3, <1>4
  <2> QED
      BY <2>2
<1>6. \E z \in S : \A k \in S : z >= k
    BY <1>5
<1>7. Max(S) \in S /\ \A k \in S : Max(S) >= k
    BY <1>6 DEF Max
<1>8. \A k \in S : k \in Int
    OBVIOUS
<1> QED
    BY <1>7, <1>8

(* What RecoveredIndex and RecoveredBitmap say of one lba and of one block:  *)
(* the last entry replayed that names it decides.                            *)
NamesLba(l) == {k \in Replayed : l \in journal[k].lo .. journal[k].hi}
NamesBlk(b) == {k \in Replayed : b \in NewOf(journal[k]) \cup journal[k].old}

(* The entries replayed are of the journal, and bounded. *)
LEMMA ReplayedBounded ==
    ASSUME TypeInv
    PROVE  /\ Len(journal) \in Nat /\ disk.lsn \in Nat
           /\ Replayed \in SUBSET (0 .. Len(journal))
           /\ \A k \in Replayed : k \in 1 .. Len(journal) /\ journal[k] \in JournalEntry
           /\ \A l : NamesLba(l) \in SUBSET (0 .. Len(journal))
           /\ \A b : NamesBlk(b) \in SUBSET (0 .. Len(journal))
<1>1. Len(journal) \in Nat /\ disk.lsn \in Nat /\ disk.lsn <= Len(journal)
    BY DEF TypeInv
<1>2. \A k \in Replayed : k \in 1 .. Len(journal)
    BY <1>1 DEF Replayed
<1>3. \A k \in 1 .. Len(journal) : journal[k] \in JournalEntry
    BY DEF TypeInv
<1>4. Replayed \in SUBSET (0 .. Len(journal))
    BY <1>1, <1>2
<1> QED
    BY <1>1, <1>2, <1>3, <1>4 DEF NamesLba, NamesBlk

(* What is recovered has the types of the index and of the bitmap. *)
LEMMA RecoveredTypes ==
    ASSUME TypeInv
    PROVE  RecoveredIndex \in [Lba -> IndexEntry] /\ RecoveredBitmap \in SUBSET Blk
<1>1. RecoveredBitmap \in SUBSET Blk
    BY DEF RecoveredBitmap
<1>2. ASSUME NEW l \in Lba
      PROVE  RecoveredIndex[l] \in IndexEntry
  <2>1. RecoveredIndex[l] = IF NamesLba(l) = {} THEN disk.index[l]
            ELSE [blk |-> journal[Max(NamesLba(l))].new[l], csum |-> journal[Max(NamesLba(l))].val]
      BY <1>2 DEF RecoveredIndex, NamesLba
  <2>2. disk.index[l] \in IndexEntry
      BY DEF TypeInv, DiskRecord
  <2>3. ASSUME NamesLba(l) # {}
        PROVE  journal[Max(NamesLba(l))] \in JournalEntry
    <3>1. Max(NamesLba(l)) \in NamesLba(l)
        BY <2>3, ReplayedBounded, MaxOfBounded
    <3> QED
        BY <3>1, ReplayedBounded DEF NamesLba
  <2>4. \A e \in JournalEntry : [blk |-> e.new[l], csum |-> e.val] \in IndexEntry
      BY DEF JournalEntry, IndexEntry
  <2> QED
      BY <2>1, <2>2, <2>3, <2>4
<1>3. RecoveredIndex = [l \in Lba |-> RecoveredIndex[l]]
    BY DEF RecoveredIndex
<1> QED
    BY <1>1, <1>2, <1>3

(* What is recovered depends on the checkpoint and the journal only. *)
LEMMA RecoveredSame ==
    ASSUME journal' = journal, disk' = disk
    PROVE  RecoveredIndex' = RecoveredIndex /\ RecoveredBitmap' = RecoveredBitmap
BY DEF RecoveredIndex, RecoveredBitmap, Replayed, NewOf

(* An entry appended decides for the lbas and the blocks that it names. *)
LEMMA RecoveredAppend ==
    ASSUME TypeInv, NEW e \in JournalEntry, journal' = Append(journal, e), disk' = disk
    PROVE  /\ \A l \in Lba : l \in e.lo .. e.hi
                  => RecoveredIndex'[l] = [blk |-> e.new[l], csum |-> e.val]
           /\ \A l \in Lba : l \notin e.lo .. e.hi => RecoveredIndex'[l] = RecoveredIndex[l]
           /\ \A b \in Blk : b \in NewOf(e) \cup e.old => (b \in RecoveredBitmap' <=> b \notin e.old)
           /\ \A b \in Blk : b \notin NewOf(e) \cup e.old
                  => (b \in RecoveredBitmap' <=> b \in RecoveredBitmap)
<1> PICK n \in Nat : n = Len(journal)
    BY DEF TypeInv
<1>1. /\ disk.lsn \in 0 .. n /\ Len(journal') = n + 1
      /\ \A k \in 1 .. n : journal'[k] = journal[k]
      /\ journal'[n + 1] = e
    BY DEF TypeInv
<1>2. Replayed' = Replayed \cup {n + 1} /\ (\A k \in Replayed : k \in 1 .. n) /\ n + 1 \in Replayed'
    BY <1>1 DEF Replayed
<1>3. ASSUME NEW S \in SUBSET Replayed', n + 1 \in S
      PROVE  Max(S) = n + 1
  <2>1. S \in SUBSET (0 .. n + 1) /\ S # {} /\ n + 1 \in Nat
      BY <1>2, <1>3
  <2>2. Max(S) \in S /\ \A k \in S : k <= Max(S)
      BY <2>1, MaxOfBounded
  <2>3. n + 1 <= Max(S) /\ Max(S) \in 0 .. n + 1
      BY ONLY <2>1, <2>2, <1>3, S \in SUBSET (0 .. n + 1)
  <2> QED
      BY ONLY <2>3, n \in Nat
<1>4. ASSUME NEW l \in Lba
      PROVE  RecoveredIndex'[l] = IF NamesLba(l)' = {} THEN disk.index[l]
                 ELSE [blk |-> journal'[Max(NamesLba(l)')].new[l],
                       csum |-> journal'[Max(NamesLba(l)')].val]
    BY <1>4 DEF RecoveredIndex, NamesLba
<1>5. ASSUME NEW l \in Lba
      PROVE  RecoveredIndex[l] = IF NamesLba(l) = {} THEN disk.index[l]
                 ELSE [blk |-> journal[Max(NamesLba(l))].new[l],
                       csum |-> journal[Max(NamesLba(l))].val]
    BY <1>5 DEF RecoveredIndex, NamesLba
<1>6. ASSUME NEW l \in Lba, l \in e.lo .. e.hi
      PROVE  RecoveredIndex'[l] = [blk |-> e.new[l], csum |-> e.val]
  <2>1. NamesLba(l)' \in SUBSET Replayed' /\ n + 1 \in NamesLba(l)'
      BY <1>1, <1>2, <1>6 DEF NamesLba
  <2>2. Max(NamesLba(l)') = n + 1
      BY <2>1, <1>3
  <2> QED
      BY <2>1, <2>2, <1>1, <1>4
<1>7. ASSUME NEW l \in Lba, l \notin e.lo .. e.hi
      PROVE  RecoveredIndex'[l] = RecoveredIndex[l]
  <2>1. NamesLba(l)' = NamesLba(l)
      BY <1>1, <1>2, <1>7 DEF NamesLba
  <2>2. NamesLba(l) # {} => journal'[Max(NamesLba(l))] = journal[Max(NamesLba(l))]
    <3> SUFFICES ASSUME NamesLba(l) # {}
                 PROVE  Max(NamesLba(l)) \in 1 .. n
        BY <1>1
    <3>1. Max(NamesLba(l)) \in NamesLba(l)
        BY ReplayedBounded, MaxOfBounded
    <3> QED
        BY <3>1, <1>2 DEF NamesLba
  <2> QED
      BY <2>1, <2>2, <1>4, <1>5
<1>8. ASSUME NEW b \in Blk
      PROVE  b \in RecoveredBitmap' <=> IF NamesBlk(b)' = {} THEN b \in disk.bitmap
                                        ELSE b \notin journal'[Max(NamesBlk(b)')].old
    BY <1>8 DEF RecoveredBitmap, NamesBlk
<1>9. ASSUME NEW b \in Blk
      PROVE  b \in RecoveredBitmap <=> IF NamesBlk(b) = {} THEN b \in disk.bitmap
                                       ELSE b \notin journal[Max(NamesBlk(b))].old
    BY <1>9 DEF RecoveredBitmap, NamesBlk
<1>10. ASSUME NEW b \in Blk, b \in NewOf(e) \cup e.old
       PROVE  b \in RecoveredBitmap' <=> b \notin e.old
  <2>1. NamesBlk(b)' \in SUBSET Replayed' /\ n + 1 \in NamesBlk(b)'
      BY <1>1, <1>2, <1>10 DEF NamesBlk, NewOf
  <2>2. Max(NamesBlk(b)') = n + 1
      BY <2>1, <1>3
  <2> QED
      BY <2>1, <2>2, <1>1, <1>8
<1>11. ASSUME NEW b \in Blk, b \notin NewOf(e) \cup e.old
       PROVE  b \in RecoveredBitmap' <=> b \in RecoveredBitmap
  <2>1. NamesBlk(b)' = NamesBlk(b)
      BY <1>1, <1>2, <1>11 DEF NamesBlk, NewOf
  <2>2. NamesBlk(b) # {} => journal'[Max(NamesBlk(b))] = journal[Max(NamesBlk(b))]
    <3> SUFFICES ASSUME NamesBlk(b) # {}
                 PROVE  Max(NamesBlk(b)) \in 1 .. n
        BY <1>1
    <3>1. Max(NamesBlk(b)) \in NamesBlk(b)
        BY ReplayedBounded, MaxOfBounded
    <3> QED
        BY <3>1, <1>2 DEF NamesBlk
  <2> QED
      BY <2>1, <2>2, <1>8, <1>9
<1> QED
    BY <1>6, <1>7, <1>10, <1>11

(* The last entry that names a block decides, when no later one does. *)
LEMMA NamedLast ==
    ASSUME TypeInv, NEW b \in Blk, NEW c \in Replayed,
           b \in NewOf(journal[c]) \/ b \in journal[c].old,
           \A k \in Replayed : k > c => b \notin NewOf(journal[k]) /\ b \notin journal[k].old
    PROVE  b \in RecoveredBitmap <=> b \notin journal[c].old
<1>1. b \in RecoveredBitmap <=> IF NamesBlk(b) = {} THEN b \in disk.bitmap
                                ELSE b \notin journal[Max(NamesBlk(b))].old
    BY DEF RecoveredBitmap, NamesBlk
<1>2. c \in NamesBlk(b) /\ Replayed \in SUBSET (0 .. Len(journal)) /\ Len(journal) \in Nat
    BY ReplayedBounded DEF NamesBlk
<1>3. Max(NamesBlk(b)) \in NamesBlk(b) /\ \A k \in NamesBlk(b) : k <= Max(NamesBlk(b))
    BY <1>2, ReplayedBounded, MaxOfBounded
<1>4. ~(Max(NamesBlk(b)) > c) /\ c <= Max(NamesBlk(b)) /\ Max(NamesBlk(b)) \in Replayed
    BY <1>2, <1>3 DEF NamesBlk
<1>5. Max(NamesBlk(b)) = c
  <2>1. \A k \in Replayed : k \in Nat
      BY ReplayedBounded
  <2>2. c \in Nat /\ Max(NamesBlk(b)) \in Nat
      BY <2>1, <1>4
  <2> QED
      BY ONLY <2>2, <1>4
<1> QED
    BY <1>1, <1>2, <1>5

(* A checkpoint of an index that is what a crash would leave changes only    *)
(* where it is found: what the uncommitted entries name, they still decide.  *)
LEMMA RecoveredCheckpoint ==
    ASSUME TypeInv, BitmapInv, \A l \in Lba : index[l] = RecoveredIndex[l],
           disk' = [index |-> index, bitmap |-> bitmap, lsn |-> committed],
           journal' = journal
    PROVE  RecoveredIndex' = RecoveredIndex /\ RecoveredBitmap' = RecoveredBitmap
<1> PICK n \in Nat : n = Len(journal)
    BY DEF TypeInv
<1> PICK c \in Nat : c = committed
    BY DEF TypeInv
<1>1. disk.lsn \in Nat /\ disk.lsn <= c /\ c <= n
    BY DEF TypeInv, BitmapInv
<1>2. /\ Replayed = disk.lsn + 1 .. n /\ Replayed' = c + 1 .. n
      /\ \A k : k \in Replayed' <=> k \in Replayed /\ k > c
  <2>1. Replayed = disk.lsn + 1 .. n /\ Replayed' = c + 1 .. n
      BY DEF Replayed
  <2> QED
      BY <2>1, <1>1
<1>3. ASSUME NEW S \in SUBSET (0 .. n), NEW T \in SUBSET S, T # {},
             \A k \in S : k > c => k \in T, \A k \in T : k > c
      PROVE  Max(S) = Max(T)
  <2>1. Max(S) \in S /\ \A k \in S : k <= Max(S)
      BY <1>3, MaxOfBounded
  <2>2. Max(T) \in T /\ \A k \in T : k <= Max(T)
      BY <1>3, MaxOfBounded
  <2>a. \A k \in 0 .. n : k \in Nat
      OBVIOUS
  <2>b. Max(T) \in S /\ Max(S) \in 0 .. n /\ Max(T) \in 0 .. n
      BY <2>1, <2>2, <1>3
  <2>3. Max(T) <= Max(S) /\ Max(T) > c /\ Max(S) \in Nat /\ Max(T) \in Nat
      BY <2>1, <2>2, <2>a, <2>b, <1>3
  <2>4. Max(S) > c
      BY ONLY <2>3, c \in Nat
  <2>5. Max(S) <= Max(T)
      BY <2>1, <2>2, <2>4, <1>3
  <2> QED
      BY ONLY <2>3, <2>5
<1>4. ASSUME NEW l \in Lba
      PROVE  RecoveredIndex'[l] = RecoveredIndex[l]
  <2>1. RecoveredIndex'[l] = IF NamesLba(l)' = {} THEN index[l]
                 ELSE [blk |-> journal[Max(NamesLba(l)')].new[l],
                       csum |-> journal[Max(NamesLba(l)')].val]
      BY <1>4 DEF RecoveredIndex, NamesLba
  <2>2. RecoveredIndex[l] = IF NamesLba(l) = {} THEN disk.index[l]
                 ELSE [blk |-> journal[Max(NamesLba(l))].new[l],
                       csum |-> journal[Max(NamesLba(l))].val]
      BY <1>4 DEF RecoveredIndex, NamesLba
  <2>3. \A k : k \in NamesLba(l)' <=> k \in NamesLba(l) /\ k > c
      BY <1>2 DEF NamesLba
  <2>4. NamesLba(l) \in SUBSET (0 .. n)
      BY ReplayedBounded
  <2>5. CASE NamesLba(l)' = {}
      BY <2>1, <2>5
  <2>6. CASE NamesLba(l)' # {}
    <3>1. Max(NamesLba(l)) = Max(NamesLba(l)') /\ NamesLba(l) # {}
        BY <2>3, <2>4, <2>6, <1>3
    <3> QED
        BY <2>1, <2>2, <2>6, <3>1
  <2> QED
      BY <2>5, <2>6
<1>5. ASSUME NEW b \in Blk
      PROVE  b \in RecoveredBitmap' <=> b \in RecoveredBitmap
  <2>1. b \in RecoveredBitmap' <=> IF NamesBlk(b)' = {} THEN b \in bitmap
                                   ELSE b \notin journal[Max(NamesBlk(b)')].old
      BY <1>5 DEF RecoveredBitmap, NamesBlk
  <2>2. b \in RecoveredBitmap <=> IF NamesBlk(b) = {} THEN b \in disk.bitmap
                                  ELSE b \notin journal[Max(NamesBlk(b))].old
      BY <1>5 DEF RecoveredBitmap, NamesBlk
  <2>3. \A k : k \in NamesBlk(b)' <=> k \in NamesBlk(b) /\ k > c
      BY <1>2 DEF NamesBlk, NewOf
  <2>4. NamesBlk(b) \in SUBSET (0 .. n)
      BY ReplayedBounded
  <2>5. CASE NamesBlk(b)' = {}
    <3>1. \A k \in Uncommitted : b \notin NewOf(journal[k]) /\ b \notin journal[k].old
      <4> SUFFICES ASSUME NEW k \in Uncommitted, b \in NewOf(journal[k]) \/ b \in journal[k].old
                   PROVE  k \in NamesBlk(b)'
          BY <2>5
      <4>1. k \in Replayed'
          BY <1>2 DEF Uncommitted
      <4> QED
          BY <4>1 DEF NamesBlk, NewOf
    <3> QED
        BY <2>1, <2>5, <3>1 DEF BitmapInv
  <2>6. CASE NamesBlk(b)' # {}
    <3>1. Max(NamesBlk(b)) = Max(NamesBlk(b)') /\ NamesBlk(b) # {}
        BY <2>3, <2>4, <2>6, <1>3
    <3> QED
        BY <2>1, <2>2, <2>6, <3>1
  <2> QED
      BY <2>5, <2>6
<1>6. RecoveredIndex' = [l \in Lba |-> RecoveredIndex'[l]] /\ RecoveredIndex = [l \in Lba |-> RecoveredIndex[l]]
    BY DEF RecoveredIndex
<1>7. RecoveredBitmap \subseteq Blk /\ RecoveredBitmap' \subseteq Blk
    BY DEF RecoveredBitmap
<1>8. RecoveredIndex' = RecoveredIndex
    BY <1>4, <1>6
<1>9. RecoveredBitmap' = RecoveredBitmap
    BY <1>5, <1>7
<1> QED
    BY <1>8, <1>9

-----------------------------------------------------------------------------
(* Types *)

(* An idle writer and an idle reader have their types. *)
LEMMA IdleTypes == NoWrite \in WriteRecord /\ NoRead \in ReadRecord /\ 0 \in Lba /\ Hole \in IndexEntry
<1>1. 0 \in Lba /\ MaxLba \in Nat
    BY BoundAssumption DEF Lba
<1>2. Hole \in IndexEntry
    BY DEF Hole, IndexEntry
<1>3. [l \in Lba |-> NoBlk] \in [Lba -> Blk \cup {NoBlk}] /\ [l \in Lba |-> Hole] \in [Lba -> IndexEntry]
    BY <1>2
<1> QED
    BY <1>1, <1>2, <1>3 DEF NoWrite, WriteRecord, NoRead, ReadRecord, Stage

(* One writer moves: its record keeps its type. *)
LEMMA WriterTyped ==
    ASSUME TypeInv, NEW w \in Writer, NEW r \in WriteRecord, Progress(r),
           r.stage # "idle" => r.val <= issued',
           write' = [write EXCEPT ![w] = r], issued' \in 0 .. MaxWrites, issued <= issued'
    PROVE  /\ write' \in [Writer -> WriteRecord]
           /\ \A v \in Writer : Progress(write'[v]) /\ (Active(v)' => write'[v].val <= issued')
<1>1. write' \in [Writer -> WriteRecord]
    BY DEF TypeInv
<1> SUFFICES ASSUME NEW v \in Writer
             PROVE  Progress(write'[v]) /\ (Active(v)' => write'[v].val <= issued')
    BY <1>1
<1>2. issued \in Nat /\ issued' \in Nat
    BY BoundAssumption DEF TypeInv
<1>3. CASE v = w
  <2>1. write'[v] = r
      BY <1>3 DEF TypeInv
  <2> QED
      BY <2>1 DEF Active
<1>4. CASE v # w
  <2>1. write'[v] = write[v]
      BY <1>4 DEF TypeInv
  <2>2. Progress(write[v]) /\ (Active(v) => write[v].val <= issued) /\ write[v].val \in Nat
      BY DEF TypeInv, WriteRecord
  <2> QED
      BY <2>1, <2>2, <1>2 DEF Active
<1> QED
    BY <1>3, <1>4

(* What TypeInv says of one writer. *)
LEMMA WriterHas ==
    ASSUME TypeInv, NEW w \in Writer
    PROVE  /\ write[w] \in WriteRecord /\ Progress(write[w])
           /\ write[w].stage # "idle" => write[w].val <= issued
           /\ issued \in Nat /\ issued \in 0 .. MaxWrites /\ write[w].lo \in Lba /\ write[w].hi \in Lba
           /\ write[w].lo \in Nat /\ write[w].hi \in Nat /\ write[w].next \in Int
           /\ write[w].new \in [Lba -> Blk \cup {NoBlk}] /\ write[w].old \in [Lba -> IndexEntry]
           /\ write[w].val \in Nat /\ write[w].stage \in Stage
           /\ Span(w) \subseteq Lba
<1>1. write[w] \in WriteRecord /\ issued \in Nat /\ issued \in 0 .. MaxWrites
    BY BoundAssumption DEF TypeInv
<1>2. /\ write[w].lo \in Lba /\ write[w].hi \in Lba /\ write[w].next \in Int
      /\ write[w].new \in [Lba -> Blk \cup {NoBlk}] /\ write[w].old \in [Lba -> IndexEntry]
      /\ write[w].val \in Nat /\ write[w].stage \in Stage
    BY <1>1 DEF WriteRecord
<1>3. write[w].lo \in Nat /\ write[w].hi \in Nat /\ Span(w) \subseteq Lba
    BY <1>2, BoundAssumption DEF Lba, Span
<1>4. Progress(write[w]) /\ (Active(w) => write[w].val <= issued)
    BY DEF TypeInv
<1> QED
    BY <1>1, <1>2, <1>3, <1>4 DEF Active

(* The record of a write that begins. *)
Begun(n, lo, hi, cut, new) ==
    [stage |-> "data", val |-> n, lo |-> lo, hi |-> hi, cut |-> cut,
     next |-> lo, old |-> [l \in Lba |-> Hole],
     new |-> [l \in Lba |-> IF l \in lo .. hi THEN new[l] ELSE NoBlk]]

(* It has its type, and is about to write its data. *)
LEMMA BegunTyped ==
    ASSUME NEW n \in Nat, n >= 1, NEW lo \in Lba, NEW hi \in lo .. MaxLba, NEW cut \in lo + 1 .. hi + 1,
           NEW new \in [lo .. hi -> Blk]
    PROVE  Begun(n, lo, hi, cut, new) \in WriteRecord /\ Progress(Begun(n, lo, hi, cut, new)) /\ hi \in Lba
<1>1. lo \in Nat /\ hi \in Nat /\ hi \in Lba /\ cut \in Int /\ lo <= hi
    BY BoundAssumption DEF Lba
<1>2. [l \in Lba |-> IF l \in lo .. hi THEN new[l] ELSE NoBlk] \in [Lba -> Blk \cup {NoBlk}]
    OBVIOUS
<1>3. [l \in Lba |-> Hole] \in [Lba -> IndexEntry]
    BY IdleTypes
<1>4. \A l \in lo .. hi : l \in Lba
    BY <1>1, BoundAssumption DEF Lba
<1> PICK r : r = Begun(n, lo, hi, cut, new)
    OBVIOUS
<1>5. r \in WriteRecord
    BY <1>1, <1>2, <1>3 DEF Begun, WriteRecord, Stage
<1>6. /\ r.stage = "data" /\ r.val = n /\ r.lo = lo /\ r.hi = hi /\ r.next = lo
      /\ r.cut = cut /\ lo <= cut
      /\ \A l \in lo .. hi : r.new[l] \in Blk
    BY <1>1, <1>4 DEF Begun
<1> QED
    BY <1>1, <1>5, <1>6 DEF Progress

(* What WriteAlloc does, with the blocks it picks named. *)
LEMMA AllocEffect ==
    ASSUME TypeInv, NEW w \in Writer, NEW lo \in Lba, NEW hi \in lo .. MaxLba,
           NEW cut \in lo + 1 .. hi + 1, WriteAlloc(w, lo, hi, cut)
    PROVE  \E new \in [lo .. hi -> Blk \ alloc], r \in WriteRecord :
               /\ \A k, l \in lo .. hi : new[k] = new[l] => k = l
               /\ alloc' = alloc \cup {new[l] : l \in lo .. hi}
               /\ Progress(r) /\ write' = [write EXCEPT ![w] = r]
               /\ r.stage = "data" /\ r.val = issued + 1 /\ r.lo = lo /\ r.hi = hi /\ r.next = lo
               /\ \A l \in lo .. hi : r.new[l] = new[l] /\ l \in Lba
<1>1. PICK new \in [lo .. hi -> Blk \ alloc] :
           /\ \A k, l \in lo .. hi : new[k] = new[l] => k = l
           /\ alloc' = alloc \cup {new[l] : l \in lo .. hi}
           /\ write' = [write EXCEPT ![w] = Begun(issued + 1, lo, hi, cut, new)]
    BY DEF WriteAlloc, Begun
<1>2. new \in [lo .. hi -> Blk] /\ issued + 1 \in Nat /\ issued + 1 >= 1
    BY BoundAssumption DEF TypeInv
<1> PICK r : r = Begun(issued + 1, lo, hi, cut, new)
    OBVIOUS
<1>3. r \in WriteRecord /\ Progress(r) /\ hi \in Lba
    BY <1>2, BegunTyped
<1>4. r.stage = "data" /\ r.val = issued + 1 /\ r.lo = lo /\ r.hi = hi /\ r.next = lo
    BY DEF Begun
<1>5. \A l \in lo .. hi : l \in Lba
    BY <1>3, BoundAssumption DEF Lba
<1>6. \A l \in lo .. hi : r.new[l] = new[l] /\ l \in Lba
    BY <1>5 DEF Begun
<1> QED
    BY <1>1, <1>3, <1>4, <1>6, ZenonT(40)

(* What IndexPut does to the writer's record. *)
LEMMA PutEffect ==
    ASSUME TypeInv, NEW w \in Writer, IndexPut(w)
    PROVE  \E r \in WriteRecord :
               /\ Progress(r) /\ write' = [write EXCEPT ![w] = r]
               /\ r.stage = "index" /\ r.val = write[w].val /\ r.lo = write[w].lo
               /\ r.hi = write[w].hi /\ r.new = write[w].new
               /\ r.next = write[w].next + 1
               /\ r.old = [write[w].old EXCEPT ![write[w].next] = index[write[w].next]]
               /\ write[w].next \in Span(w) /\ write[w].next \in Lba
<1> PICK l : l = write[w].next
    OBVIOUS
<1> PICK o : o = [write[w].old EXCEPT ![l] = index[l]]
    OBVIOUS
<1> PICK q : q = [write[w] EXCEPT !.old = o]
    OBVIOUS
<1> PICK r : r = [q EXCEPT !.next = l + 1]
    OBVIOUS
<1>1. write[w].stage = "index" /\ l <= write[w].hi /\ l \in Int /\ l >= write[w].lo /\ write[w].lo \in Nat
      /\ write[w].hi \in Nat
    BY WriterHas DEF IndexPut, Progress
<1>2. l \in Span(w) /\ l \in Lba
    BY <1>1, WriterHas DEF Span
<1>a. l + 1 \in Int
    BY <1>1
<1>3. o \in [Lba -> IndexEntry]
    BY <1>2, WriterHas DEF TypeInv
<1>4. q \in WriteRecord
    BY <1>3, WriterHas DEF WriteRecord
<1>5. r \in WriteRecord
    BY ONLY <1>4, <1>a, r = [q EXCEPT !.next = l + 1] DEF WriteRecord
<1>6. /\ q.stage = "index" /\ q.val = write[w].val /\ q.lo = write[w].lo
      /\ q.hi = write[w].hi /\ q.new = write[w].new /\ q.old = o /\ q.cut = write[w].cut
    BY <1>1, WriterHas DEF WriteRecord
<1>7. /\ r.stage = "index" /\ r.val = write[w].val /\ r.lo = write[w].lo
      /\ r.hi = write[w].hi /\ r.new = write[w].new /\ r.old = o /\ r.next = l + 1
      /\ r.cut = write[w].cut
    BY <1>6, <1>4 DEF WriteRecord
<1>8. Progress(r)
    BY <1>1, <1>7, WriterHas DEF Progress
<1>9. write' = [write EXCEPT ![w] = r]
    BY <1>1 DEF IndexPut, TypeInv
<1> QED
    BY <1>2, <1>5, <1>7, <1>8, <1>9

(* A step that only moves a write to its next stage. *)
LEMMA StageEffect ==
    ASSUME TypeInv, NEW w \in Writer, NEW s \in Stage, s # "data",
           write[w].stage # "idle", s \in {"journal", "refused"} => write[w].next > write[w].hi,
           write' = [write EXCEPT ![w].stage = s]
    PROVE  \E r \in WriteRecord :
               /\ Progress(r) /\ write' = [write EXCEPT ![w] = r]
               /\ r.stage = s /\ r.val = write[w].val /\ r.lo = write[w].lo
               /\ r.hi = write[w].hi /\ r.new = write[w].new
               /\ r.next = write[w].next /\ r.old = write[w].old
<1> PICK r : r = [write[w] EXCEPT !.stage = s]
    OBVIOUS
<1>1. r \in WriteRecord
    BY WriterHas DEF WriteRecord
<1>2. /\ r.stage = s /\ r.val = write[w].val /\ r.lo = write[w].lo
      /\ r.hi = write[w].hi /\ r.new = write[w].new
      /\ r.next = write[w].next /\ r.old = write[w].old /\ r.cut = write[w].cut
    BY WriterHas DEF WriteRecord
<1>3. Progress(r)
    BY <1>2, WriterHas DEF Progress
<1>4. write' = [write EXCEPT ![w] = r]
    BY DEF TypeInv
<1> QED
    BY <1>1, <1>2, <1>3, <1>4

(* The entry that WriteJournal appends. *)
EntryOf(w) == [val |-> write[w].val, lo |-> write[w].lo, hi |-> write[w].hi,
               new |-> write[w].new, old |-> OldBlks(w)]

(* It is a journal entry, with the fields of the write. *)
LEMMA EntryTyped ==
    ASSUME TypeInv, NEW w \in Writer
    PROVE  /\ EntryOf(w) \in JournalEntry
           /\ EntryOf(w).val = write[w].val /\ EntryOf(w).lo = write[w].lo /\ EntryOf(w).hi = write[w].hi
           /\ EntryOf(w).new = write[w].new /\ EntryOf(w).old = OldBlks(w)
           /\ Active(w) => NewOf(EntryOf(w)) \in SUBSET Blk
<1>1. \A l \in Span(w) : write[w].old[l].blk \in Blk \cup {NoBlk}
    BY WriterHas DEF IndexEntry
<1>2. OldBlks(w) \in SUBSET Blk
    BY <1>1 DEF OldBlks
<1>3. /\ EntryOf(w) \in JournalEntry
      /\ EntryOf(w).val = write[w].val /\ EntryOf(w).lo = write[w].lo /\ EntryOf(w).hi = write[w].hi
      /\ EntryOf(w).new = write[w].new /\ EntryOf(w).old = OldBlks(w)
    BY <1>2, WriterHas DEF EntryOf, JournalEntry
<1>4. Active(w) => \A l \in write[w].lo .. write[w].hi : write[w].new[l] \in Blk
    BY WriterHas DEF Progress, Active
<1> QED
    BY <1>3, <1>4 DEF NewOf

(* Initially the types hold. *)
LEMMA TypeInit == Init => TypeInv
<1> SUFFICES ASSUME Init PROVE TypeInv
    OBVIOUS
<1>1. index \in [Lba -> IndexEntry]
    BY IdleTypes DEF Init
<1>2. disk \in DiskRecord
    BY <1>1 DEF Init, DiskRecord
<1>3. journal = <<>> /\ Len(journal) = 0 /\ journal \in Seq(JournalEntry)
    BY DEF Init
<1>4. write \in [Writer -> WriteRecord] /\ \A w \in Writer : ~Active(w)
    BY IdleTypes DEF Init, Active, NoWrite
<1>5. \A w \in Writer : Progress(write[w])
    BY <1>4 DEF Progress, Active
<1>6. \A r \in Reader : read[r].stage # "data"
    BY DEF Init, NoRead
<1> QED
    BY <1>1, <1>2, <1>3, <1>4, <1>5, <1>6, IdleTypes, BoundAssumption DEF Init, TypeInv

(* A step that changes no write keeps what TypeInv says of the writes. *)
LEMMA WritersSame ==
    ASSUME TypeInv, write' = write, issued' \in Nat, issued <= issued'
    PROVE  /\ write' \in [Writer -> WriteRecord]
           /\ \A v \in Writer : Progress(write'[v]) /\ (Active(v)' => write'[v].val <= issued')
<1>1. issued \in Nat
    BY BoundAssumption DEF TypeInv
<1> SUFFICES ASSUME NEW v \in Writer
             PROVE  Progress(write'[v]) /\ (Active(v)' => write'[v].val <= issued')
    BY DEF TypeInv
<1>2. Progress(write[v]) /\ (Active(v) => write[v].val <= issued) /\ write[v].val \in Nat
    BY DEF TypeInv, WriteRecord
<1> QED
    BY <1>1, <1>2 DEF Active

(* Every step keeps the types. *)
LEMMA TypeStep ==
    ASSUME TypeInv, [Next]_vars
    PROVE  TypeInv'
<1>i. issued \in Nat /\ MaxWrites \in Nat /\ issued \in 0 .. MaxWrites
    BY BoundAssumption DEF TypeInv
<1>n. \A n \in Nat : n \in Int
    OBVIOUS
<1>1. ASSUME NEW w \in Writer, NEW lo \in Lba, NEW hi \in lo .. MaxLba, NEW cut \in lo + 1 .. hi + 1,
             WriteAlloc(w, lo, hi, cut)
      PROVE  TypeInv'
  <2>1. PICK new \in [lo .. hi -> Blk \ alloc], r \in WriteRecord :
               /\ alloc' = alloc \cup {new[l] : l \in lo .. hi}
               /\ Progress(r) /\ write' = [write EXCEPT ![w] = r] /\ r.val = issued + 1
      BY <1>1, AllocEffect
  <2>2. issued' = issued + 1 /\ issued' \in 0 .. MaxWrites /\ issued <= issued'
      BY <1>i, <1>1 DEF WriteAlloc
  <2>3. r.val <= issued'
      BY <2>1, <2>2, <1>i
  <2>4. /\ write' \in [Writer -> WriteRecord]
        /\ \A v \in Writer : Progress(write'[v]) /\ (Active(v)' => write'[v].val <= issued')
      BY <2>1, <2>2, <2>3, WriterTyped
  <2>5. alloc' \in SUBSET Blk
      BY <2>1 DEF TypeInv
  <2>6. UNCHANGED <<index, bitmap, data, journal, committed, disk, read, crashes>>
      BY <1>1 DEF WriteAlloc
  <2> QED
      BY <2>2, <2>4, <2>5, <2>6 DEF TypeInv
<1>2. ASSUME NEW w \in Writer, NEW lo \in Lba, NEW hi \in lo .. MaxLba, WriteNoSpace(w, lo, hi)
      PROVE  TypeInv'
  <2>1. /\ issued' = issued + 1 /\ issued' \in 0 .. MaxWrites /\ issued <= issued' /\ issued' \in Nat
        /\ UNCHANGED <<store, write, read, crashes>>
      BY <1>i, <1>2 DEF WriteNoSpace
  <2> QED
      BY <2>1, WritersSame DEF TypeInv, store
<1>3. ASSUME NEW w \in Writer, NEW r \in WriteRecord, Progress(r),
             r.stage # "idle" => r.val <= issued,
             write' = [write EXCEPT ![w] = r], issued' = issued
      PROVE  /\ write' \in [Writer -> WriteRecord]
             /\ \A v \in Writer : Progress(write'[v]) /\ (Active(v)' => write'[v].val <= issued')
  <2>1. issued' \in 0 .. MaxWrites /\ issued <= issued'
      BY <1>3, <1>i
  <2> QED
      BY <1>3, <2>1, WriterTyped
<1>4. ASSUME NEW w \in Writer, WriteData(w)
      PROVE  TypeInv'
  <2>1. write[w].stage = "data" /\ write' = [write EXCEPT ![w].stage = "index"]
        /\ UNCHANGED <<index, alloc, bitmap, journal, committed, disk, read, bounds>>
      BY <1>4 DEF WriteData
  <2>2. PICK r \in WriteRecord : /\ Progress(r) /\ write' = [write EXCEPT ![w] = r]
                                 /\ r.val = write[w].val
      BY <2>1, StageEffect DEF Stage
  <2>3. r.val <= issued
      BY <2>1, <2>2, WriterHas
  <2>4. data' \in [Blk -> Nat]
      BY <1>4, WriterHas DEF WriteData, TypeInv
  <2> QED
      BY <2>1, <2>2, <2>3, <2>4, <1>3 DEF TypeInv, bounds
<1>5. ASSUME NEW w \in Writer, WriteDataFails(w)
      PROVE  TypeInv'
  <2>1. /\ NoWrite \in WriteRecord /\ Progress(NoWrite) /\ NoWrite.stage = "idle"
        /\ write' = [write EXCEPT ![w] = NoWrite] /\ UNCHANGED <<store, read, bounds>>
      BY <1>5, IdleTypes DEF WriteDataFails, Progress, NoWrite
  <2> QED
      BY <2>1, <1>3 DEF TypeInv, bounds, store
<1>6. ASSUME NEW w \in Writer, IndexPut(w)
      PROVE  TypeInv'
  <2>1. PICK r \in WriteRecord : /\ Progress(r) /\ write' = [write EXCEPT ![w] = r]
                                 /\ r.val = write[w].val /\ write[w].next \in Lba
                                 /\ write[w].next \in Span(w)
      BY <1>6, PutEffect
  <2>2. r.val <= issued
      BY <1>6, <2>1, WriterHas DEF IndexPut
  <2> PICK i : i = [blk |-> write[w].new[write[w].next], csum |-> write[w].val]
      OBVIOUS
  <2>3. i \in IndexEntry
      BY <2>1, WriterHas DEF IndexEntry
  <2>4. index' = [index EXCEPT ![write[w].next] = i]
      BY <1>6 DEF IndexPut
  <2>5. index' \in [Lba -> IndexEntry]
      BY <2>1, <2>3, <2>4 DEF TypeInv
  <2>6. UNCHANGED <<alloc, bitmap, data, journal, committed, disk, read, bounds>>
      BY <1>6 DEF IndexPut
  <2> QED
      BY <2>1, <2>2, <2>5, <2>6, <1>3 DEF TypeInv, bounds
<1>7. ASSUME NEW w \in Writer, WriteJournal(w)
      PROVE  TypeInv'
  <2>1. /\ write[w].stage = "index" /\ write[w].next > write[w].hi
        /\ write' = [write EXCEPT ![w].stage = "journal"]
        /\ journal' = Append(journal, EntryOf(w))
        /\ UNCHANGED <<index, alloc, bitmap, data, committed, disk, read, bounds>>
      BY <1>7 DEF WriteJournal, EntryOf
  <2>2. PICK r \in WriteRecord : /\ Progress(r) /\ write' = [write EXCEPT ![w] = r]
                                 /\ r.val = write[w].val
      BY <2>1, StageEffect DEF Stage
  <2>3. r.val <= issued
      BY <2>1, <2>2, WriterHas
  <2>4. journal' \in Seq(JournalEntry) /\ Len(journal') = Len(journal) + 1 /\ Len(journal) \in Nat
      BY <2>1, EntryTyped DEF TypeInv
  <2>5. ASSUME NEW k \in 1 .. Len(journal')
        PROVE  NewOf(journal[k])' \in SUBSET Blk
    <3>1. k \in 1 .. Len(journal) \/ k = Len(journal) + 1
        BY <2>4
    <3>2. CASE k \in 1 .. Len(journal)
      <4>1. journal'[k] = journal[k]
          BY <2>1, <3>2 DEF TypeInv
      <4> QED
          BY <3>2, <4>1 DEF TypeInv, NewOf
    <3>3. CASE k = Len(journal) + 1
      <4>1. journal'[k] = EntryOf(w)
          BY <2>1, <3>3 DEF TypeInv
      <4>2. Active(w)
          BY <2>1 DEF Active
      <4> QED
          BY <4>1, <4>2, EntryTyped DEF NewOf
    <3> QED
        BY <3>1, <3>2, <3>3
  <2>6. /\ write' \in [Writer -> WriteRecord]
        /\ \A v \in Writer : Progress(write'[v]) /\ (Active(v)' => write'[v].val <= issued')
      BY <2>1, <2>2, <2>3, <1>3 DEF bounds
  <2>7. committed' \in 0 .. Len(journal') /\ disk'.lsn \in 0 .. Len(journal')
      BY <2>1, <2>4 DEF TypeInv
  <2>8. /\ index' \in [Lba -> IndexEntry]
        /\ alloc' \in SUBSET Blk /\ bitmap' \in SUBSET Blk
        /\ data' \in [Blk -> Nat] /\ disk' \in DiskRecord
        /\ read' \in [Reader -> ReadRecord] /\ issued' \in 0 .. MaxWrites
        /\ \A x \in Reader : read'[x].stage = "data" => read'[x].at.blk # NoBlk
      BY <2>1 DEF TypeInv, bounds
  <2> QED
      BY <2>4, <2>5, <2>6, <2>7, <2>8 DEF TypeInv
<1>8. ASSUME NEW w \in Writer, JournalFails(w)
      PROVE  TypeInv'
  <2>1. /\ write[w].stage = "index" /\ write[w].next > write[w].hi
        /\ write' = [write EXCEPT ![w].stage = "refused"]
        /\ UNCHANGED <<store, read, bounds>>
      BY <1>8 DEF JournalFails
  <2>2. PICK r \in WriteRecord : /\ Progress(r) /\ write' = [write EXCEPT ![w] = r]
                                 /\ r.val = write[w].val
      BY <2>1, StageEffect DEF Stage
  <2>3. r.val <= issued
      BY <2>1, <2>2, WriterHas
  <2> QED
      BY <2>1, <2>2, <2>3, <1>3 DEF TypeInv, bounds, store
<1>9. ASSUME Commit
      PROVE  TypeInv'
  <2>1. /\ committed < Len(journal) /\ committed' = committed + 1
        /\ UNCHANGED <<index, data, journal, disk, read, bounds>>
      BY <1>9 DEF Commit
  <2>2. committed \in Nat /\ Len(journal) \in Nat /\ committed + 1 \in 1 .. Len(journal)
      BY <2>1 DEF TypeInv
  <2> PICK e \in JournalEntry : e = journal[committed + 1]
      BY <2>2 DEF TypeInv
  <2>3. NewOf(e) \subseteq Blk
      BY <2>2 DEF TypeInv
  <2>4. /\ bitmap' = (bitmap \cup NewOf(e)) \ Freed(e)
        /\ alloc' = alloc \ Freed(e)
        /\ write' = [w \in Writer |-> IF write[w].stage = "journal" /\ write[w].val = e.val
                                      THEN NoWrite ELSE write[w]]
      BY <1>9 DEF Commit
  <2>5. write' \in [Writer -> WriteRecord]
      BY <2>4, IdleTypes DEF TypeInv
  <2>a. Progress(NoWrite) /\ NoWrite.stage = "idle"
      BY DEF Progress, NoWrite
  <2>6. \A w \in Writer : Progress(write'[w]) /\ (Active(w)' => write'[w].val <= issued)
      BY <2>4, <2>a DEF TypeInv, Active
  <2>7. bitmap' \in SUBSET Blk /\ alloc' \in SUBSET Blk
      BY <2>3, <2>4 DEF TypeInv
  <2> QED
      BY <2>1, <2>2, <2>5, <2>6, <2>7 DEF TypeInv, bounds
<1>10. ASSUME NEW r \in Reader, NEW q \in ReadRecord, read' = [read EXCEPT ![r] = q],
              q.stage = "data" => q.at.blk # NoBlk,
              UNCHANGED <<store, write, bounds>>
       PROVE  TypeInv'
  <2>1. /\ read' \in [Reader -> ReadRecord]
        /\ \A p \in Reader : read'[p].stage = "data" => read'[p].at.blk # NoBlk
      BY <1>10 DEF TypeInv
  <2> QED
      BY <1>10, <2>1, <1>i, WritersSame DEF TypeInv, store, bounds
<1>11. ASSUME NEW r \in Reader, NEW l \in Lba, ReadIndex(r, l)
       PROVE  TypeInv'
  <2> PICK q : q = [stage |-> IF index[l].blk = NoBlk THEN "done" ELSE "data",
                    lba |-> l, at |-> index[l], val |-> 0]
      OBVIOUS
  <2>a. index[l] \in IndexEntry /\ 0 \in Int
      BY DEF TypeInv
  <2> PICK st \in {"done", "data"} : st = IF index[l].blk = NoBlk THEN "done" ELSE "data"
      OBVIOUS
  <2>1. q \in ReadRecord
      BY <2>a DEF ReadRecord
  <2>2. q.stage = "data" => q.at.blk # NoBlk
      OBVIOUS
  <2> QED
      BY <1>10, <1>11, <2>1, <2>2 DEF ReadIndex
<1>12. ASSUME NEW r \in Reader, ReadReturn(r)
       PROVE  TypeInv'
  <2>1. NoRead.stage = "idle"
      BY DEF NoRead
  <2> QED
      BY <1>10, <1>12, <2>1, IdleTypes DEF ReadReturn
<1>13. ASSUME NEW r \in Reader, ReadData(r)
       PROVE  TypeInv'
  <2>1. read[r] \in ReadRecord /\ read[r].stage = "data" /\ read[r].at.blk # NoBlk
      BY <1>13 DEF TypeInv, ReadData
  <2> PICK d : d = data[read[r].at.blk]
      OBVIOUS
  <2> PICK st \in {"done", "crc mismatch"} : st = IF Verified(r) THEN "done" ELSE "crc mismatch"
      OBVIOUS
  <2>a. d \in Nat
      BY <2>1 DEF TypeInv, ReadRecord, IndexEntry
  <2>2. d \in Int
      BY <2>a, <1>n, Zenon
  <2> PICK p : p = [read[r] EXCEPT !.stage = st]
      OBVIOUS
  <2> PICK q : q = [p EXCEPT !.val = d]
      OBVIOUS
  <2>3. p \in ReadRecord /\ p.stage = st
      BY <2>1 DEF ReadRecord
  <2>4. q \in ReadRecord /\ q.stage # "data"
      BY <2>2, <2>3 DEF ReadRecord
  <2>5. read' = [read EXCEPT ![r] = q]
      BY <1>13 DEF ReadData, TypeInv
  <2> QED
      BY <1>10, <1>13, <2>4, <2>5 DEF ReadData
<1>14. ASSUME Checkpoint
       PROVE  TypeInv'
  <2>1. UNCHANGED <<index, alloc, bitmap, data, journal, committed, write, read, bounds>>
      BY <1>14 DEF Checkpoint
  <2>2. disk' = [index |-> index, bitmap |-> bitmap, lsn |-> committed]
      BY <1>14 DEF Checkpoint
  <2>3. disk' \in DiskRecord /\ disk'.lsn = committed
      BY <2>2 DEF TypeInv, DiskRecord
  <2> QED
      BY <2>1, <2>3, <1>i, WritersSame DEF TypeInv, bounds
<1>15. ASSUME CrashAndRecover
       PROVE  TypeInv'
  <2>1. /\ index' = RecoveredIndex /\ bitmap' = RecoveredBitmap /\ alloc' = RecoveredBitmap
        /\ committed' = Len(journal) /\ write' = [w \in Writer |-> NoWrite]
        /\ read' = [r \in Reader |-> NoRead] /\ UNCHANGED <<data, journal, disk, issued>>
      BY <1>15 DEF CrashAndRecover
  <2>2. Progress(NoWrite) /\ NoWrite.stage = "idle"
      BY DEF Progress, NoWrite
  <2>3. /\ write' \in [Writer -> WriteRecord] /\ read' \in [Reader -> ReadRecord]
        /\ \A r \in Reader : read'[r].stage # "data"
      BY <2>1, IdleTypes DEF NoRead
  <2>4. \A w \in Writer : Progress(write'[w]) /\ (Active(w)' => write'[w].val <= issued)
      BY <2>1, <2>2 DEF Active
  <2>5. index' \in [Lba -> IndexEntry] /\ bitmap' \in SUBSET Blk /\ alloc' \in SUBSET Blk
      BY <2>1, RecoveredTypes
  <2> QED
      BY <2>1, <2>3, <2>4, <2>5 DEF TypeInv
<1>16. ASSUME UNCHANGED vars
       PROVE  TypeInv'
    BY <1>16, <1>i, WritersSame DEF TypeInv, vars
<1>17. ASSUME NEW w \in Writer, IndexPutFails(w)
       PROVE  TypeInv'
  <2>1. /\ NoWrite \in WriteRecord /\ Progress(NoWrite) /\ NoWrite.stage = "idle"
        /\ write' = [write EXCEPT ![w] = NoWrite]
        /\ UNCHANGED <<alloc, bitmap, data, journal, committed, disk, read, bounds>>
      BY <1>17, IdleTypes DEF IndexPutFails, Progress, NoWrite
  <2>2. write[w].old \in [Lba -> IndexEntry] /\ index \in [Lba -> IndexEntry]
      BY WriterHas DEF TypeInv
  <2>3. index' = [l \in Lba |-> IF l \in ExtentStart(w) .. write[w].next - 1
                                 THEN write[w].old[l] ELSE index[l]]
      BY <1>17 DEF IndexPutFails
  <2>4. index' \in [Lba -> IndexEntry]
      BY <2>2, <2>3, Zenon
  <2> QED
      BY <2>1, <2>4, <1>3 DEF TypeInv, bounds
<1>18. ASSUME NEW r \in Reader, NEW l \in Lba, ReadIndexFails(r, l)
       PROVE  TypeInv'
  <2> PICK n \in Int : n = -1
      OBVIOUS
  <2> PICK q : q = [stage |-> "done", lba |-> l, at |-> Hole, val |-> n]
      OBVIOUS
  <2>1. q \in ReadRecord /\ q.stage # "data"
      BY IdleTypes DEF ReadRecord
  <2> QED
      BY <1>10, <1>18, <2>1 DEF ReadIndexFails
<1> QED
    BY <1>1, <1>2, <1>4, <1>5, <1>6, <1>7, <1>8, <1>9, <1>11, <1>12, <1>13, <1>14, <1>15, <1>16,
       <1>17, <1>18
       DEF Next, WriteStep

-----------------------------------------------------------------------------
(* Steps of one writer *)

(* A step of one writer leaves the others where they were. *)
LEMMA OthersSame ==
    ASSUME TypeInv, NEW w \in Writer, NEW r, write' = [write EXCEPT ![w] = r]
    PROVE  /\ write'[w] = r
           /\ \A v \in Writer : v # w =>
                  /\ write'[v] = write[v]
                  /\ Active(v)' <=> Active(v)
                  /\ Span(v)' = Span(v) /\ Shown(v)' = Shown(v)
                  /\ journal' = journal => (Journaled(v)' <=> Journaled(v))
                  /\ journal' = journal => (Unsaved(v)' <=> Unsaved(v))
<1>1. write'[w] = r /\ \A v \in Writer : v # w => write'[v] = write[v]
    BY DEF TypeInv
<1>2. \A v \in Writer : v # w =>
          (Active(v)' <=> Active(v)) /\ Span(v)' = Span(v) /\ Shown(v)' = Shown(v)
    BY <1>1 DEF Active, Span, Shown
<1>3. \A v \in Writer : v # w => (journal' = journal => (Journaled(v)' <=> Journaled(v)))
    BY <1>1 DEF Journaled
<1>4. \A v \in Writer : v # w => (journal' = journal => (Unsaved(v)' <=> Unsaved(v)))
    BY <1>2, <1>3 DEF Unsaved
<1> QED
    BY <1>1, <1>2, <1>3, <1>4

-----------------------------------------------------------------------------
(* Who waits for the journal, whatever else happens *)

(* A step that appends and commits nothing: every writer stays where it is,  *)
(* as the journal sees it, or gives up before it comes there.                *)
LEMMA WaitSame ==
    ASSUME TypeInv, WaitInv, UNCHANGED <<journal, committed>>, issued' \in Nat, issued <= issued',
           \A v \in Writer : \/ /\ write'[v].val = write[v].val /\ (Active(v)' <=> Active(v))
                                /\ write'[v].stage = "journal" <=> write[v].stage = "journal"
                             \/ /\ ~Active(v)' /\ write[v].stage # "journal"
                                /\ write'[v].stage # "journal"
    PROVE  WaitInv'
<1>1. Uncommitted' = Uncommitted /\ \A k \in Uncommitted : k \in 1 .. Len(journal)
    BY DEF Uncommitted, TypeInv
<1>2. \A v \in Writer : Active(v)' => Active(v) /\ write'[v].val = write[v].val
                                      /\ (write'[v].stage = "journal" <=> write[v].stage = "journal")
    OBVIOUS
<1>3. ValuesInv'
    BY <1>2 DEF WaitInv, ValuesInv
<1>4. \A k \in 1 .. Len(journal) : journal'[k].val \in 1 .. issued'
  <2>1. issued \in Nat
      BY BoundAssumption DEF TypeInv
  <2> QED
      BY <2>1 DEF WaitInv, JournalInv
<1>5. ASSUME NEW k \in 1 .. Len(journal), NEW w \in Writer, Active(w)', journal[k].val = write'[w].val
      PROVE  k \in Uncommitted /\ write'[w].stage = "journal"
    BY <1>2, <1>5 DEF WaitInv, JournalInv
<1>6. ASSUME NEW w \in Writer, write'[w].stage = "journal"
      PROVE  \E k \in Uncommitted : journal[k].val = write'[w].val
  <2>1. Active(w)'
      BY <1>6 DEF Active
  <2> QED
      BY <2>1, <1>2, <1>6 DEF WaitInv, JournalInv
<1>7. ASSUME NEW k \in Uncommitted
      PROVE  \E w \in Writer : Active(w)' /\ write'[w].val = journal[k].val
  <2>1. PICK w \in Writer : Active(w) /\ write[w].val = journal[k].val
      BY DEF WaitInv, JournalInv
  <2>2. write[w].stage = "journal"
      BY <2>1, <1>1 DEF WaitInv, JournalInv
  <2> QED
      BY <2>1, <2>2
<1>8. \A j, k \in Uncommitted : j # k => journal'[j].val # journal'[k].val
    BY DEF WaitInv, JournalInv
<1>9. JournalInv'
    BY <1>1, <1>4, <1>5, <1>6, <1>7, <1>8 DEF JournalInv
<1> QED
    BY <1>3, <1>9 DEF WaitInv

(* A write that begins has a value of its own. *)
LEMMA WaitAlloc ==
    ASSUME TypeInv, WaitInv, NEW w \in Writer, NEW lo \in Lba, NEW hi \in lo .. MaxLba,
           NEW cut \in lo + 1 .. hi + 1, WriteAlloc(w, lo, hi, cut)
    PROVE  WaitInv'
<1>1. PICK r \in WriteRecord :
               /\ write' = [write EXCEPT ![w] = r] /\ r.stage = "data" /\ r.val = issued + 1
    BY AllocEffect
<1>2. ~Active(w) /\ issued' = issued + 1 /\ journal' = journal /\ committed' = committed
    BY DEF WriteAlloc
<1>3. /\ write'[w] = r
      /\ \A v \in Writer : v # w => write'[v] = write[v] /\ (Active(v)' <=> Active(v))
    BY <1>1, OthersSame
<1>4. issued \in Nat /\ \A v \in Writer : Active(v) => write[v].val <= issued /\ write[v].val \in Nat
    BY WriterHas, BoundAssumption DEF TypeInv, Active
<1>5. Uncommitted' = Uncommitted /\ \A k \in Uncommitted : k \in 1 .. Len(journal)
    BY <1>2 DEF Uncommitted, TypeInv
<1>6. ValuesInv'
    BY <1>1, <1>3, <1>4 DEF WaitInv, ValuesInv
<1>7. \A k \in 1 .. Len(journal) : journal[k].val \in 1 .. issued
    BY DEF WaitInv, JournalInv
<1>8. \A k \in 1 .. Len(journal) : journal[k].val # issued + 1 /\ journal[k].val \in 1 .. issued'
    BY <1>2, <1>4, <1>7
<1>9. \A k \in 1 .. Len(journal), v \in Writer :
          Active(v)' /\ journal[k].val = write'[v].val
          => k \in Uncommitted /\ write'[v].stage = "journal"
    BY <1>1, <1>3, <1>8 DEF WaitInv, JournalInv
<1>10. \A k \in Uncommitted : \E v \in Writer : Active(v)' /\ write'[v].val = journal[k].val
    BY <1>2, <1>3 DEF WaitInv, JournalInv
<1>11. \A v \in Writer : write'[v].stage = "journal" => \E k \in Uncommitted : journal[k].val = write'[v].val
    BY <1>1, <1>3 DEF WaitInv, JournalInv
<1>12. JournalInv'
    BY <1>2, <1>5, <1>8, <1>9, <1>10, <1>11 DEF WaitInv, JournalInv
<1> QED
    BY <1>6, <1>12 DEF WaitInv

(* The entry appended is the one its write waits for. *)
LEMMA WaitJournal ==
    ASSUME TypeInv, WaitInv, NEW w \in Writer, WriteJournal(w)
    PROVE  WaitInv'
<1>1. /\ write[w].stage = "index" /\ write[w].next > write[w].hi
      /\ write' = [write EXCEPT ![w].stage = "journal"]
      /\ journal' = Append(journal, EntryOf(w))
      /\ committed' = committed /\ issued' = issued
    BY DEF WriteJournal, EntryOf, bounds
<1>2. PICK r \in WriteRecord : /\ write' = [write EXCEPT ![w] = r]
                               /\ r.stage = "journal" /\ r.val = write[w].val
    BY <1>1, StageEffect DEF Stage
<1>3. Active(w)
    BY <1>1 DEF Active
<1> PICK e \in JournalEntry : e.val = write[w].val /\ journal' = Append(journal, e)
    BY <1>1, EntryTyped
<1> PICK n \in Nat : n = Len(journal)
    BY DEF TypeInv
<1>4. /\ Len(journal') = n + 1 /\ journal'[n + 1] = e
      /\ \A k \in 1 .. n : journal'[k] = journal[k]
    BY DEF TypeInv
<1>5. /\ \A k : k \in Uncommitted' <=> k \in Uncommitted \/ k = n + 1
      /\ \A k \in Uncommitted : k \in 1 .. n
  <2>1. committed \in 0 .. n /\ committed' = committed
      BY <1>1 DEF TypeInv
  <2> QED
      BY <2>1, <1>4 DEF Uncommitted
<1>6. \A k \in Uncommitted : journal'[k] = journal[k]
    BY <1>4, <1>5
<1>15. /\ write'[w] = r
       /\ \A v \in Writer : v # w => write'[v] = write[v] /\ (Active(v)' <=> Active(v))
    BY <1>2, OthersSame
<1>16. Active(w)' /\ write'[w].val = write[w].val
    BY <1>2, <1>15 DEF Active
<1>19. ValuesInv'
    BY <1>3, <1>15, <1>16 DEF WaitInv, ValuesInv
<1>20. JournalInv'
  <2>1. write[w].val \in 1 .. issued /\ issued' = issued
      BY <1>1, <1>3, WriterHas DEF Progress, Active
  <2>2. ASSUME NEW k \in 1 .. n + 1
        PROVE  journal'[k].val \in 1 .. issued'
    <3>1. CASE k = n + 1
        BY <3>1, <2>1, <1>4
    <3>2. CASE k # n + 1
        BY <3>2, <2>1, <1>4 DEF WaitInv, JournalInv
    <3> QED
        BY <3>1, <3>2
  <2>3. ASSUME NEW k \in 1 .. n + 1, NEW v \in Writer, Active(v)', journal'[k].val = write'[v].val
        PROVE  k \in Uncommitted' /\ write'[v].stage = "journal"
    <3>1. CASE k = n + 1
      <4>1. v = w
          BY <3>1, <2>3, <1>3, <1>4, <1>15 DEF WaitInv, ValuesInv
      <4> QED
          BY <4>1, <3>1, <1>2, <1>5, <1>15
    <3>2. CASE k # n + 1
      <4>1. k \in 1 .. n /\ journal'[k] = journal[k]
          BY <3>2, <1>4
      <4>2. Active(v) /\ journal[k].val = write[v].val
          BY <4>1, <2>3, <1>3, <1>15, <1>16
      <4>3. k \in Uncommitted /\ write[v].stage = "journal"
          BY <4>1, <4>2 DEF WaitInv, JournalInv
      <4> QED
          BY <4>3, <1>1, <1>5, <1>15
    <3> QED
        BY <3>1, <3>2
  <2>4. ASSUME NEW k \in Uncommitted'
        PROVE  \E v \in Writer : Active(v)' /\ write'[v].val = journal'[k].val
    <3>1. CASE k = n + 1
        BY <3>1, <1>4, <1>16
    <3>2. CASE k # n + 1
      <4>1. k \in Uncommitted
          BY <3>2, <1>5
      <4>2. PICK v \in Writer : Active(v) /\ write[v].val = journal[k].val
          BY <4>1 DEF WaitInv, JournalInv
      <4>3. Active(v)' /\ write'[v].val = write[v].val
          BY <4>2, <1>15, <1>16
      <4> QED
          BY <4>1, <4>2, <4>3, <1>6
    <3> QED
        BY <3>1, <3>2
  <2>5. \A k \in Uncommitted : journal[k].val # e.val
    <3> SUFFICES ASSUME NEW k \in Uncommitted, journal[k].val = e.val
                 PROVE  FALSE
        OBVIOUS
    <3> QED
        BY <1>1, <1>3, <1>5 DEF WaitInv, JournalInv
  <2>6. ASSUME NEW j \in Uncommitted', NEW k \in Uncommitted', j # k
        PROVE  journal'[j].val # journal'[k].val
    <3>1. CASE j = n + 1
        BY <3>1, <2>5, <2>6, <1>4, <1>5, <1>6
    <3>2. CASE k = n + 1
        BY <3>2, <2>5, <2>6, <1>4, <1>5, <1>6
    <3>3. CASE j # n + 1 /\ k # n + 1
        BY <3>3, <2>6, <1>5, <1>6 DEF WaitInv, JournalInv
    <3> QED
        BY <3>1, <3>2, <3>3
  <2>7. ASSUME NEW v \in Writer, write'[v].stage = "journal"
        PROVE  \E k \in Uncommitted' : journal'[k].val = write'[v].val
    <3>1. CASE v = w
        BY <3>1, <1>4, <1>5, <1>16
    <3>2. CASE v # w
        BY <3>2, <2>7, <1>5, <1>6, <1>15 DEF WaitInv, JournalInv
    <3> QED
        BY <3>1, <3>2
  <2> QED
      BY <2>2, <2>3, <2>4, <2>6, <2>7, <1>4 DEF JournalInv
<1> QED
    BY <1>19, <1>20 DEF WaitInv

(* A commit ends the write that waits for its entry, and no other. *)
LEMMA WaitCommit ==
    ASSUME TypeInv, WaitInv, Commit
    PROVE  WaitInv'
<1>1. committed < Len(journal) /\ committed' = committed + 1 /\ journal' = journal /\ issued' = issued
    BY DEF Commit, bounds
<1> PICK n \in Nat : n = Len(journal)
    BY DEF TypeInv
<1> PICK c \in 1 .. n : c = committed + 1
    BY <1>1 DEF TypeInv
<1> PICK e \in JournalEntry : e = journal[c]
    BY DEF TypeInv
<1>2. /\ c \in Uncommitted /\ \A k : k \in Uncommitted' <=> k \in Uncommitted /\ k # c
      /\ \A k \in Uncommitted : k \in 1 .. n /\ c <= k
  <2>1. committed \in Nat /\ committed' = c /\ journal' = journal
      BY <1>1 DEF TypeInv
  <2> QED
      BY <2>1 DEF Uncommitted
<1>6. write' = [w \in Writer |-> IF write[w].stage = "journal" /\ write[w].val = e.val
                                 THEN NoWrite ELSE write[w]]
    BY DEF Commit
<1>8. \A w \in Writer : /\ write'[w] = write[w] \/ write'[w] = NoWrite
                        /\ Active(w)' <=> Active(w) /\ ~(write[w].stage = "journal" /\ write[w].val = e.val)
                        /\ Active(w)' => write'[w] = write[w] /\ Active(w)
    BY <1>6 DEF Active, NoWrite
<1>9. \A w \in Writer : Active(w) /\ write[w].val = e.val => ~Active(w)'
    BY <1>1, <1>8 DEF WaitInv, JournalInv
<1>11. ValuesInv'
    BY <1>8 DEF WaitInv, ValuesInv
<1>12. JournalInv'
  <2>1. ASSUME NEW k \in 1 .. n, NEW w \in Writer, Active(w)', journal[k].val = write'[w].val
        PROVE  k \in Uncommitted' /\ write'[w].stage = "journal"
    <3>1. Active(w) /\ write'[w] = write[w]
        BY <2>1, <1>8
    <3>2. k \in Uncommitted /\ write[w].stage = "journal"
        BY <2>1, <3>1 DEF WaitInv, JournalInv
    <3>3. k # c
        BY <2>1, <3>1, <1>9
    <3> QED
        BY <3>1, <3>2, <3>3, <1>2
  <2>2. ASSUME NEW k \in Uncommitted'
        PROVE  \E w \in Writer : Active(w)' /\ write'[w].val = journal[k].val
    <3>1. k \in Uncommitted /\ k # c
        BY <1>2
    <3>2. PICK w \in Writer : Active(w) /\ write[w].val = journal[k].val
        BY <3>1 DEF WaitInv, JournalInv
    <3>3. write[w].val # e.val
        BY <3>1, <3>2, <1>2 DEF WaitInv, JournalInv
    <3> QED
        BY <3>2, <3>3, <1>8
  <2>3. journal' = journal /\ issued' = issued
      BY <1>1
  <2>4. ASSUME NEW w \in Writer, write'[w].stage = "journal"
        PROVE  \E k \in Uncommitted' : journal[k].val = write'[w].val
    <3>1. Active(w)' /\ write'[w] = write[w]
        BY <2>4, <1>8 DEF Active
    <3>2. PICK k \in Uncommitted : journal[k].val = write[w].val
        BY <2>4, <3>1 DEF WaitInv, JournalInv
    <3>3. k # c
        BY <3>1, <3>2, <1>8, <1>9
    <3> QED
        BY <3>1, <3>2, <3>3, <1>2
  <2> QED
      BY <2>1, <2>2, <2>3, <2>4, <1>2 DEF WaitInv, JournalInv
<1> QED
    BY <1>11, <1>12 DEF WaitInv

(* Every step. *)
LEMMA WaitStep ==
    ASSUME TypeInv, WaitInv, [Next]_vars
    PROVE  WaitInv'
<1>i. issued \in Nat
    BY BoundAssumption DEF TypeInv
<1>1. ASSUME NEW w \in Writer, NEW r, write' = [write EXCEPT ![w] = r],
             UNCHANGED <<journal, committed, issued>>, Active(w), write[w].stage # "journal",
             r.stage # "journal", r.stage = "idle" \/ r.val = write[w].val
      PROVE  WaitInv'
  <2>1. write'[w] = r /\ \A v \in Writer : v # w => write'[v] = write[v] /\ (Active(v)' <=> Active(v))
      BY <1>1, OthersSame
  <2>2. Active(w)' <=> r.stage # "idle"
      BY <2>1 DEF Active
  <2>3. issued' \in Nat /\ issued <= issued'
      BY <1>1, <1>i
  <2> QED
      BY <1>1, <2>1, <2>2, <2>3, WaitSame
<1>2. ASSUME UNCHANGED <<journal, committed, write>>, issued' \in Nat, issued <= issued'
      PROVE  WaitInv'
    BY <1>2, WaitSame DEF Active
<1>n. NoWrite.stage = "idle"
    BY DEF NoWrite
<1>3. ASSUME NEW w \in Writer, WriteData(w)
      PROVE  WaitInv'
  <2>1. /\ write[w].stage = "data" /\ write' = [write EXCEPT ![w].stage = "index"]
        /\ UNCHANGED <<journal, committed, issued>>
      BY <1>3 DEF WriteData, bounds
  <2>2. PICK r \in WriteRecord : /\ write' = [write EXCEPT ![w] = r]
                                 /\ r.stage = "index" /\ r.val = write[w].val
      BY <2>1, StageEffect DEF Stage
  <2> QED
      BY <2>1, <2>2, <1>1 DEF Active
<1>4. ASSUME NEW w \in Writer, JournalFails(w)
      PROVE  WaitInv'
  <2>1. /\ write[w].stage = "index" /\ write[w].next > write[w].hi
        /\ write' = [write EXCEPT ![w].stage = "refused"]
        /\ UNCHANGED <<journal, committed, issued>>
      BY <1>4 DEF JournalFails, store, bounds
  <2>2. PICK r \in WriteRecord : /\ write' = [write EXCEPT ![w] = r]
                                 /\ r.stage = "refused" /\ r.val = write[w].val
      BY <2>1, StageEffect DEF Stage
  <2> QED
      BY <2>1, <2>2, <1>1 DEF Active
<1>5. ASSUME NEW w \in Writer, IndexPut(w)
      PROVE  WaitInv'
  <2>1. write[w].stage = "index" /\ UNCHANGED <<journal, committed, issued>>
      BY <1>5 DEF IndexPut, bounds
  <2>2. PICK r \in WriteRecord : /\ write' = [write EXCEPT ![w] = r]
                                 /\ r.stage = "index" /\ r.val = write[w].val
      BY <1>5, PutEffect
  <2> QED
      BY <2>1, <2>2, <1>1 DEF Active
<1>6. ASSUME NEW w \in Writer, WriteDataFails(w) \/ IndexPutFails(w)
      PROVE  WaitInv'
  <2>1. /\ write[w].stage \in {"data", "index"} /\ write' = [write EXCEPT ![w] = NoWrite]
        /\ UNCHANGED <<journal, committed, issued>>
      BY <1>6 DEF WriteDataFails, IndexPutFails, store, bounds
  <2> QED
      BY <2>1, <1>1, <1>n DEF Active
<1>7. ASSUME NEW w \in Writer, NEW lo \in Lba, NEW hi \in lo .. MaxLba, WriteNoSpace(w, lo, hi)
      PROVE  WaitInv'
  <2>1. UNCHANGED <<journal, committed, write>> /\ issued' \in Nat /\ issued <= issued'
      BY <1>7, <1>i DEF WriteNoSpace, store
  <2> QED
      BY <2>1, <1>2
<1>8. ASSUME NEW r \in Reader, NEW l \in Lba,
             ReadData(r) \/ ReadReturn(r) \/ ReadIndex(r, l) \/ ReadIndexFails(r, l)
      PROVE  WaitInv'
  <2>1. UNCHANGED <<store, write, bounds>>
      BY <1>8 DEF ReadData, ReadReturn, ReadIndex, ReadIndexFails
  <2>2. UNCHANGED <<journal, committed, write>> /\ issued' \in Nat /\ issued <= issued'
      BY <2>1, <1>i DEF store, bounds
  <2> QED
      BY <2>2, <1>2
<1>9. ASSUME Checkpoint \/ UNCHANGED vars
      PROVE  WaitInv'
  <2>1. UNCHANGED <<journal, committed, write, issued>>
      BY <1>9 DEF Checkpoint, bounds, vars
  <2>2. issued' \in Nat /\ issued <= issued'
      BY <2>1, <1>i
  <2> QED
      BY <2>1, <2>2, <1>2
<1>10. ASSUME CrashAndRecover
       PROVE  WaitInv'
  <2>1. /\ committed' = Len(journal) /\ write' = [w \in Writer |-> NoWrite]
        /\ UNCHANGED <<journal, issued>>
      BY <1>10 DEF CrashAndRecover
  <2>2. \A k : k \notin Uncommitted'
    <3>1. Len(journal) \in Nat
        BY DEF TypeInv
    <3> QED
        BY <3>1, <2>1 DEF Uncommitted
  <2>3. \A w \in Writer : ~Active(w)' /\ write'[w].stage # "journal"
      BY <2>1 DEF Active, NoWrite
  <2>4. ValuesInv'
      BY <2>3 DEF ValuesInv
  <2>5. JournalInv'
      BY <2>1, <2>2, <2>3 DEF WaitInv, JournalInv
  <2> QED
      BY <2>4, <2>5 DEF WaitInv
<1>11. ASSUME NEW w \in Writer, WriteStep(w)
       PROVE  WaitInv'
    BY <1>3, <1>4, <1>5, <1>6, <1>11, WaitJournal DEF WriteStep
<1>12. 0 \in Lba
    BY IdleTypes
<1> QED
    BY <1>7, <1>8, <1>9, <1>10, <1>11, <1>12, WaitAlloc, WaitCommit DEF Next

(* The part of it that the store's invariant has as well. *)
LEMMA JournalStep ==
    ASSUME TypeInv, StoreInv, Next
    PROVE  JournalInv'
<1>1. ValuesInv
    BY DEF StoreInv, WriterInv, ValuesInv
<1>2. WaitInv
    BY <1>1 DEF StoreInv, WaitInv
<1> QED
    BY <1>2, WaitStep DEF WaitInv

(* A write that waits for the journal has one entry there. *)
LEMMA WaitersHave == TypeInv /\ WaitInv => WaiterHasEntry
<1> SUFFICES ASSUME TypeInv, WaitInv, NEW w \in Writer, write[w].stage = "journal"
             PROVE  Cardinality({k \in Uncommitted : journal[k].val = write[w].val}) = 1
    BY DEF WaiterHasEntry, Uncommitted
<1>1. PICK k \in Uncommitted : journal[k].val = write[w].val
    BY DEF WaitInv, JournalInv
<1>2. {j \in Uncommitted : journal[j].val = write[w].val} = {k}
    BY <1>1 DEF WaitInv, JournalInv
<1> QED
    BY <1>2, FS_Singleton

-----------------------------------------------------------------------------
(* Steps that leave the store as it is *)

(* A step that changes neither the store, nor what a crash would leave of    *)
(* it, nor the writes.                                                       *)
LEMMA StoreSame ==
    ASSUME TypeInv, StoreInv, UNCHANGED <<index, alloc, bitmap, data, journal, committed, write>>,
           disk'.lsn <= committed,
           RecoveredIndex' = RecoveredIndex, RecoveredBitmap' = RecoveredBitmap,
           issued' \in Nat, issued <= issued'
    PROVE  StoreInv'
<1>1. RecoveredIndex' = RecoveredIndex /\ RecoveredBitmap' = RecoveredBitmap
    OBVIOUS
<1>2. \A w : Unsaved(w)' = Unsaved(w) /\ Active(w)' = Active(w) /\ Span(w)' = Span(w) /\ Shown(w)' = Shown(w)
    BY DEF Unsaved, Active, Span, Shown, Journaled
<1>3. WriterInv'
    BY <1>2 DEF StoreInv, WriterInv
<1>4. Uncommitted' = Uncommitted /\ \A k : NewOf(journal[k])' = NewOf(journal[k])
    BY DEF Uncommitted, NewOf
<1>5. JournalInv'
  <2>1. issued \in Nat
      BY BoundAssumption DEF TypeInv
  <2>2. \A k \in 1 .. Len(journal) : journal'[k].val \in 1 .. issued'
      BY <2>1 DEF StoreInv, JournalInv
  <2> QED
      BY <1>2, <1>4, <2>2 DEF StoreInv, JournalInv
<1>6. BlockInv'
    BY <1>1, <1>2, <1>4 DEF StoreInv, BlockInv
<1>7. FreeInv'
    BY <1>1, <1>4 DEF StoreInv, FreeInv
<1>8. RecoveryInv'
    BY <1>1, <1>4 DEF StoreInv, RecoveryInv, RecoveredSound
<1>9. IndexInv'
    BY <1>1, <1>2 DEF StoreInv, IndexInv
<1>10. BitmapInv'
    BY <1>1, <1>4 DEF StoreInv, BitmapInv
<1> QED
    BY <1>3, <1>5, <1>6, <1>7, <1>8, <1>9, <1>10 DEF StoreInv

-----------------------------------------------------------------------------
(* The steps of a write *)

(* A write that takes its blocks: they are free, so no crash leaves them     *)
(* allocated and no entry frees them.                                        *)
LEMMA AllocKeeps ==
    ASSUME TypeInv, StoreInv, NEW w \in Writer, NEW lo \in Lba, NEW hi \in lo .. MaxLba,
           NEW cut \in lo + 1 .. hi + 1, WriteAlloc(w, lo, hi, cut), mishaps' = {}
    PROVE  StoreInv'
<1>1. PICK new \in [lo .. hi -> Blk \ alloc], r \in WriteRecord :
               /\ \A k, l \in lo .. hi : new[k] = new[l] => k = l
               /\ alloc' = alloc \cup {new[l] : l \in lo .. hi}
               /\ Progress(r) /\ write' = [write EXCEPT ![w] = r]
               /\ r.stage = "data" /\ r.val = issued + 1 /\ r.lo = lo /\ r.hi = hi /\ r.next = lo
               /\ \A l \in lo .. hi : r.new[l] = new[l] /\ l \in Lba
    BY AllocEffect
<1>2. /\ ~Active(w)
      /\ \A v \in Writer : Active(v) => \A l \in Span(v) : l \notin lo .. hi
      /\ issued' = issued + 1
      /\ UNCHANGED <<index, bitmap, data, journal, committed, disk, read, crashes>>
    BY DEF WriteAlloc, Mishap
<1>3. RecoveredIndex' = RecoveredIndex /\ RecoveredBitmap' = RecoveredBitmap
    BY <1>2, RecoveredSame
<1>4. /\ write'[w] = r
      /\ \A v \in Writer : v # w =>
                  /\ write'[v] = write[v]
                  /\ Active(v)' <=> Active(v)
                  /\ Span(v)' = Span(v) /\ Shown(v)' = Shown(v)
                  /\ Unsaved(v)' <=> Unsaved(v)
  <2>1. journal' = journal /\ write' = [write EXCEPT ![w] = r]
      BY <1>1, <1>2
  <2> QED
      BY <2>1, OthersSame
<1>5. Uncommitted' = Uncommitted /\ \A k : NewOf(journal[k])' = NewOf(journal[k])
    BY <1>2 DEF Uncommitted, NewOf
<1>6. issued \in Nat /\ lo \in Nat
    BY BoundAssumption DEF TypeInv, Lba
<1>7. Active(w)' /\ Span(w)' = lo .. hi /\ Shown(w)' = {}
  <2>1. Shown(w)' = lo .. lo - 1
      BY <1>1, <1>4 DEF Shown
  <2>2. lo .. lo - 1 = {}
      BY <1>6
  <2> QED
      BY <1>1, <1>4, <2>1, <2>2 DEF Active, Span
<1>8. WriterInv'
  <2>1. ASSUME NEW v \in Writer, v # w, Active(v)
        PROVE  /\ write'[w].val # write'[v].val
               /\ \A l \in Span(w)' : l \notin Span(v)'
               /\ \A l \in Span(v)' : l \notin Span(w)'
    <3>1. write[v].val <= issued /\ write[v].val \in Nat
        BY <2>1, WriterHas DEF Active
    <3> QED
        BY <2>1, <3>1, <1>1, <1>2, <1>4, <1>6, <1>7
  <2>2. ASSUME NEW u \in Writer, NEW v \in Writer, u # v, Active(u)', Active(v)'
        PROVE  write'[u].val # write'[v].val /\ \A l \in Span(u)' : l \notin Span(v)'
    <3>1. CASE u = w
        BY <3>1, <2>1, <2>2, <1>4
    <3>2. CASE v = w
        BY <3>2, <2>1, <2>2, <1>4
    <3>3. CASE u # w /\ v # w
        BY <3>3, <2>2, <1>4 DEF StoreInv, WriterInv
    <3> QED
        BY <3>1, <3>2, <3>3
  <2> QED
      BY <2>2 DEF WriterInv
<1>9. \A k \in 1 .. Len(journal) : journal[k].val \in 1 .. issued
    BY DEF StoreInv, JournalInv
<1>10. \A k \in 1 .. Len(journal) : journal[k].val # issued + 1 /\ journal[k].val \in 1 .. issued'
    BY <1>2, <1>6, <1>9
<1>11. JournalInv'
  <2>1. Next
      BY DEF Next
  <2> QED
      BY <2>1, JournalStep
<1>12. \A l \in lo .. hi : /\ write'[w].new[l] = new[l] /\ new[l] \in Blk
                           /\ new[l] \notin alloc /\ new[l] \in alloc'
    BY <1>1, <1>4
<1>13. BlockInv'
  <2>1. ASSUME NEW v \in Writer, Unsaved(v)', NEW l \in Span(v)'
        PROVE  /\ write'[v].new[l] \in alloc'
               /\ write'[v].new[l] \notin RecoveredBitmap'
               /\ write'[v].stage # "data" => data'[write'[v].new[l]] = write'[v].val
               /\ \A k \in Uncommitted' : write'[v].new[l] \notin journal'[k].old
    <3>1. CASE v = w
        BY <3>1, <2>1, <1>1, <1>2, <1>3, <1>4, <1>5, <1>7, <1>12 DEF StoreInv, FreeInv
    <3>2. CASE v # w
        BY <3>2, <2>1, <1>1, <1>2, <1>3, <1>4, <1>5 DEF StoreInv, BlockInv
    <3> QED
        BY <3>1, <3>2
  <2>2. ASSUME NEW u \in Writer, NEW v \in Writer, Unsaved(u)', Unsaved(v)',
               NEW l \in Span(u)', NEW m \in Span(v)', write'[u].new[l] = write'[v].new[m]
        PROVE  u = v /\ l = m
    <3>1. CASE u = w /\ v = w
        BY <3>1, <2>2, <1>1, <1>7, <1>12
    <3>2. CASE u = w /\ v # w
      <4>1. write[v].new[m] \in alloc
          BY <3>2, <2>2, <1>4 DEF StoreInv, BlockInv
      <4> QED
          BY <4>1, <3>2, <2>2, <1>4, <1>7, <1>12
    <3>3. CASE u # w /\ v = w
      <4>1. write[u].new[l] \in alloc
          BY <3>3, <2>2, <1>4 DEF StoreInv, BlockInv
      <4> QED
          BY <4>1, <3>3, <2>2, <1>4, <1>7, <1>12
    <3>4. CASE u # w /\ v # w
        BY <3>4, <2>2, <1>4 DEF StoreInv, BlockInv
    <3> QED
        BY <3>1, <3>2, <3>3, <3>4
  <2> QED
      BY <2>1, <2>2 DEF BlockInv
<1>14. FreeInv' /\ BitmapInv'
    BY <1>1, <1>2, <1>3, <1>5 DEF StoreInv, FreeInv, BitmapInv
<1>15. RecoveryInv'
    BY <1>2, <1>3, <1>5 DEF StoreInv, RecoveryInv, RecoveredSound
<1>16. IndexInv'
  <2>1. ~Unsaved(w) /\ index' = index
      BY <1>2 DEF Unsaved
  <2>2. ASSUME NEW l \in Lba, \A v \in Writer : Unsaved(v)' => l \notin Shown(v)'
        PROVE  index'[l] = RecoveredIndex'[l]
    <3>1. \A v \in Writer : Unsaved(v) => l \notin Shown(v)
        BY <2>1, <2>2, <1>4
    <3> QED
        BY <3>1, <2>1, <1>3 DEF StoreInv, IndexInv
  <2>3. ASSUME NEW v \in Writer, Unsaved(v)', NEW l \in Shown(v)'
        PROVE  /\ index'[l] = [blk |-> write'[v].new[l], csum |-> write'[v].val]
               /\ write'[v].old[l] = RecoveredIndex'[l]
    <3>1. v # w
        BY <2>3, <1>7
    <3> QED
        BY <3>1, <2>1, <2>3, <1>3, <1>4 DEF StoreInv, IndexInv
  <2> QED
      BY <2>2, <2>3 DEF IndexInv
<1> QED
    BY <1>8, <1>11, <1>13, <1>14, <1>15, <1>16 DEF StoreInv

(* A write that has not come to the journal would be undone by a crash. *)
LEMMA NotJournaledYet ==
    ASSUME TypeInv, StoreInv, NEW w \in Writer, Active(w), write[w].stage # "journal"
    PROVE  Unsaved(w)
<1>1. DOMAIN journal = 1 .. Len(journal)
    BY DEF TypeInv
<1> QED
    BY <1>1 DEF StoreInv, JournalInv, Unsaved, Journaled

(* A write whose data is written, put in one step or refused by the journal, *)
(* seen by the invariants about who owns what: its range, blocks and value   *)
(* stay, the journal and the allocator too.                                  *)
LEMMA StepKeeps ==
    ASSUME TypeInv, StoreInv, NEW w \in Writer, NEW r, Active(w), r.stage # "idle",
           write[w].stage # "journal", write[w].stage # "data" => r.stage # "data",
           write' = [write EXCEPT ![w] = r],
           r.val = write[w].val, r.lo = write[w].lo, r.hi = write[w].hi, r.new = write[w].new,
           UNCHANGED <<alloc, bitmap, journal, committed, disk, issued>>,
           \A v \in Writer : Unsaved(v) => \A l \in Span(v) :
               v # w /\ write[v].stage # "data" => data'[write[v].new[l]] = data[write[v].new[l]],
           r.stage # "data" => \A l \in Span(w) : data'[write[w].new[l]] = write[w].val,
           \A b \in RecoveredBitmap : data'[b] = data[b]
    PROVE  /\ WriterInv' /\ BitmapInv' /\ BlockInv' /\ FreeInv' /\ RecoveryInv'
           /\ Unsaved(w) /\ Unsaved(w)' /\ Span(w)' = Span(w)
           /\ RecoveredIndex' = RecoveredIndex
           /\ write'[w] = r
           /\ \A v \in Writer : v # w =>
                  /\ write'[v] = write[v]
                  /\ Shown(v)' = Shown(v)
                  /\ Unsaved(v)' <=> Unsaved(v)
<1>1. RecoveredIndex' = RecoveredIndex /\ RecoveredBitmap' = RecoveredBitmap
    BY RecoveredSame
<1>2. /\ write'[w] = r
      /\ \A v \in Writer : v # w =>
                  /\ write'[v] = write[v]
                  /\ Active(v)' <=> Active(v)
                  /\ Span(v)' = Span(v) /\ Shown(v)' = Shown(v)
                  /\ Unsaved(v)' <=> Unsaved(v)
    BY OthersSame
<1>3. Uncommitted' = Uncommitted /\ \A k : NewOf(journal[k])' = NewOf(journal[k])
    BY DEF Uncommitted, NewOf
<1>4. Unsaved(w)
    BY NotJournaledYet
<1>5. Unsaved(w)' /\ Active(w)' /\ Span(w)' = Span(w) /\ write'[w].val = write[w].val
      /\ write'[w].new = write[w].new
    BY <1>2, <1>4 DEF Unsaved, Active, Journaled, Span
<1>6. \A v \in Writer : /\ Active(v)' <=> Active(v)
                        /\ Unsaved(v)' <=> Unsaved(v)
                        /\ Span(v)' = Span(v) /\ write'[v].val = write[v].val
                        /\ write'[v].new = write[v].new
    BY <1>2, <1>4, <1>5
<1>7. WriterInv'
    BY <1>6 DEF StoreInv, WriterInv
<1>8. BitmapInv'
    BY <1>1, <1>3 DEF StoreInv, BitmapInv
<1>9. BlockInv'
  <2>1. ASSUME NEW v \in Writer, Unsaved(v)', NEW l \in Span(v)'
        PROVE  /\ write'[v].new[l] \in alloc'
               /\ write'[v].new[l] \notin RecoveredBitmap'
               /\ write'[v].stage # "data" => data'[write'[v].new[l]] = write'[v].val
               /\ \A k \in Uncommitted' : write'[v].new[l] \notin journal'[k].old
    <3>1. Unsaved(v) /\ l \in Span(v)
        BY <2>1, <1>6
    <3>2. /\ write[v].new[l] \in alloc
          /\ write[v].new[l] \notin RecoveredBitmap
          /\ write[v].stage # "data" => data[write[v].new[l]] = write[v].val
          /\ \A k \in Uncommitted : write[v].new[l] \notin journal[k].old
        BY <3>1 DEF StoreInv, BlockInv
    <3>3. write'[v].stage # "data" => data'[write'[v].new[l]] = write'[v].val
        BY <3>1, <3>2, <1>2, <1>6
    <3> QED
        BY <3>2, <3>3, <1>1, <1>3, <1>6
  <2>2. ASSUME NEW u \in Writer, NEW v \in Writer, Unsaved(u)', Unsaved(v)',
               NEW l \in Span(u)', NEW m \in Span(v)', write'[u].new[l] = write'[v].new[m]
        PROVE  u = v /\ l = m
      BY <2>2, <1>6 DEF StoreInv, BlockInv
  <2> QED
      BY <2>1, <2>2 DEF BlockInv
<1>10. FreeInv'
    BY <1>1, <1>3 DEF StoreInv, FreeInv
<1>11. RecoveryInv'
    BY <1>1, <1>3 DEF StoreInv, RecoveryInv, RecoveredSound
<1> QED
    BY <1>1, <1>2, <1>4, <1>5, <1>7, <1>8, <1>9, <1>10, <1>11

(* The index after a step of a write that puts nothing. *)
LEMMA IndexKept ==
    ASSUME TypeInv, StoreInv, NEW w \in Writer, NEW r,
           Unsaved(w), Unsaved(w)', RecoveredIndex' = RecoveredIndex, index' = index,
           write'[w] = r, r.lo = write[w].lo, r.next = write[w].next,
           r.new = write[w].new, r.old = write[w].old, r.val = write[w].val,
           \A v \in Writer : v # w =>
                  /\ write'[v] = write[v]
                  /\ Shown(v)' = Shown(v)
                  /\ Unsaved(v)' <=> Unsaved(v)
    PROVE  IndexInv'
<1>1. \A v \in Writer : /\ Unsaved(v)' <=> Unsaved(v)
                        /\ Shown(v)' = Shown(v) /\ write'[v].val = write[v].val
                        /\ write'[v].new = write[v].new /\ write'[v].old = write[v].old
    BY DEF Shown
<1>2. ASSUME NEW l \in Lba, \A v \in Writer : Unsaved(v)' => l \notin Shown(v)'
      PROVE  index'[l] = RecoveredIndex'[l]
    BY <1>1, <1>2 DEF StoreInv, IndexInv
<1>3. ASSUME NEW v \in Writer, Unsaved(v)', NEW l \in Shown(v)'
      PROVE  /\ index'[l] = [blk |-> write'[v].new[l], csum |-> write'[v].val]
             /\ write'[v].old[l] = RecoveredIndex'[l]
    BY <1>1, <1>3 DEF StoreInv, IndexInv
<1> QED
    BY <1>2, <1>3 DEF IndexInv

(* The data is written into blocks that nobody else has. *)
LEMMA DataKeeps ==
    ASSUME TypeInv, StoreInv, NEW w \in Writer, WriteData(w)
    PROVE  StoreInv'
<1>1. /\ write[w].stage = "data" /\ write' = [write EXCEPT ![w].stage = "index"]
      /\ UNCHANGED <<index, alloc, bitmap, journal, committed, disk, read, bounds>>
    BY DEF WriteData
<1>2. PICK r \in WriteRecord :
               /\ write' = [write EXCEPT ![w] = r]
               /\ r.stage = "index" /\ r.val = write[w].val /\ r.lo = write[w].lo
               /\ r.hi = write[w].hi /\ r.new = write[w].new
               /\ r.next = write[w].next /\ r.old = write[w].old
    BY <1>1, StageEffect DEF Stage
<1>3. Active(w) /\ Unsaved(w)
    BY <1>1, NotJournaledYet DEF Active
<1>4. /\ \A b \in Blk : (\A l \in Span(w) : write[w].new[l] # b) => data'[b] = data[b]
      /\ \A l \in Span(w) : write[w].new[l] \in Blk => data'[write[w].new[l]] = write[w].val
    BY DEF WriteData
<1>5. \A l \in Span(w) : write[w].new[l] \in Blk /\ write[w].new[l] \notin RecoveredBitmap
    BY <1>3 DEF StoreInv, BlockInv, TypeInv
<1>6. \A v \in Writer : Unsaved(v) => \A l \in Span(v) :
               v # w /\ write[v].stage # "data" => data'[write[v].new[l]] = data[write[v].new[l]]
  <2> SUFFICES ASSUME NEW v \in Writer, Unsaved(v), NEW l \in Span(v), v # w
               PROVE  data'[write[v].new[l]] = data[write[v].new[l]]
      OBVIOUS
  <2>1. write[v].new[l] \in Blk
      BY DEF StoreInv, BlockInv, TypeInv
  <2>2. \A m \in Span(w) : write[w].new[m] # write[v].new[l]
      BY <1>3 DEF StoreInv, BlockInv
  <2> QED
      BY <2>1, <2>2, <1>4
<1>7. \A b \in RecoveredBitmap : data'[b] = data[b]
    BY <1>4, <1>5, RecoveredTypes
<1>8. \A l \in Span(w) : data'[write[w].new[l]] = write[w].val
    BY <1>4, <1>5
<1>9. /\ WriterInv' /\ BitmapInv' /\ BlockInv' /\ FreeInv' /\ RecoveryInv'
      /\ Unsaved(w) /\ Unsaved(w)' /\ RecoveredIndex' = RecoveredIndex
      /\ write'[w] = r
      /\ \A v \in Writer : v # w =>
                  /\ write'[v] = write[v]
                  /\ Shown(v)' = Shown(v)
                  /\ Unsaved(v)' <=> Unsaved(v)
    BY <1>1, <1>2, <1>3, <1>6, <1>7, <1>8, StepKeeps DEF bounds
<1>10. IndexInv'
    BY <1>1, <1>2, <1>9, IndexKept
<1>j. JournalInv'
  <2>1. Next
      BY DEF Next, WriteStep
  <2> QED
      BY <2>1, JournalStep
<1> QED
    BY <1>9, <1>10, <1>j DEF StoreInv

(* The journal refuses the entry: the write stays as it is. *)
LEMMA RefusedKeeps ==
    ASSUME TypeInv, StoreInv, NEW w \in Writer, JournalFails(w)
    PROVE  StoreInv'
<1>1. /\ write[w].stage = "index" /\ write[w].next > write[w].hi
      /\ write' = [write EXCEPT ![w].stage = "refused"]
      /\ UNCHANGED <<index, alloc, bitmap, data, journal, committed, disk, read, bounds>>
    BY DEF JournalFails, store
<1>2. PICK r \in WriteRecord :
               /\ write' = [write EXCEPT ![w] = r]
               /\ r.stage = "refused" /\ r.val = write[w].val /\ r.lo = write[w].lo
               /\ r.hi = write[w].hi /\ r.new = write[w].new
               /\ r.next = write[w].next /\ r.old = write[w].old
    BY <1>1, StageEffect DEF Stage
<1>3. Active(w) /\ Unsaved(w)
    BY <1>1, NotJournaledYet DEF Active
<1>4. \A l \in Span(w) : data[write[w].new[l]] = write[w].val
    BY <1>1, <1>3 DEF StoreInv, BlockInv
<1>5. /\ WriterInv' /\ BitmapInv' /\ BlockInv' /\ FreeInv' /\ RecoveryInv'
      /\ Unsaved(w) /\ Unsaved(w)' /\ RecoveredIndex' = RecoveredIndex
      /\ write'[w] = r
      /\ \A v \in Writer : v # w =>
                  /\ write'[v] = write[v]
                  /\ Shown(v)' = Shown(v)
                  /\ Unsaved(v)' <=> Unsaved(v)
    BY <1>1, <1>2, <1>3, <1>4, StepKeeps DEF bounds
<1>6. IndexInv'
    BY <1>1, <1>2, <1>5, IndexKept
<1>j. JournalInv'
  <2>1. Next
      BY DEF Next, WriteStep
  <2> QED
      BY <2>1, JournalStep
<1> QED
    BY <1>5, <1>6, <1>j DEF StoreInv

(* One put: what it replaces is what a crash would bring back. *)
LEMMA PutKeeps ==
    ASSUME TypeInv, StoreInv, NEW w \in Writer, IndexPut(w)
    PROVE  StoreInv'
<1>1. /\ write[w].stage = "index"
      /\ index' = [index EXCEPT ![write[w].next] =
                       [blk |-> write[w].new[write[w].next], csum |-> write[w].val]]
      /\ UNCHANGED <<alloc, bitmap, data, journal, committed, disk, read, bounds>>
    BY DEF IndexPut
<1>2. PICK r \in WriteRecord :
               /\ write' = [write EXCEPT ![w] = r]
               /\ r.stage = "index" /\ r.val = write[w].val /\ r.lo = write[w].lo
               /\ r.hi = write[w].hi /\ r.new = write[w].new
               /\ r.next = write[w].next + 1
               /\ r.old = [write[w].old EXCEPT ![write[w].next] = index[write[w].next]]
               /\ write[w].next \in Span(w) /\ write[w].next \in Lba
    BY PutEffect
<1>3. Active(w) /\ Unsaved(w)
    BY <1>1, NotJournaledYet DEF Active
<1>4. \A l \in Span(w) : data[write[w].new[l]] = write[w].val
    BY <1>1, <1>3 DEF StoreInv, BlockInv
<1>5. /\ WriterInv' /\ BitmapInv' /\ BlockInv' /\ FreeInv' /\ RecoveryInv'
      /\ Unsaved(w) /\ Unsaved(w)' /\ RecoveredIndex' = RecoveredIndex
      /\ write'[w] = r
      /\ \A v \in Writer : v # w =>
                  /\ write'[v] = write[v]
                  /\ Shown(v)' = Shown(v)
                  /\ Unsaved(v)' <=> Unsaved(v)
    BY <1>1, <1>2, <1>3, <1>4, StepKeeps DEF bounds
<1> PICK n \in Lba : n = write[w].next
    BY <1>2
<1>6. n \in Nat /\ write[w].lo \in Nat /\ write[w].hi \in Nat /\ write[w].lo <= n /\ n <= write[w].hi
    BY <1>1, <1>2, WriterHas, BoundAssumption DEF Lba, Progress, Span
<1>7. \A l : l \in Shown(w)' <=> l \in Shown(w) \/ l = n
  <2>1. Shown(w) = write[w].lo .. n - 1 /\ Shown(w)' = write[w].lo .. (n + 1) - 1
      BY <1>2, <1>5 DEF Shown
  <2> QED
      BY <1>6, <2>1
<1>8. \A v \in Writer : Unsaved(v) => n \notin Shown(v)
  <2>1. n \notin Shown(w)
      BY <1>6 DEF Shown
  <2>2. ASSUME NEW v \in Writer, Unsaved(v), v # w
        PROVE  n \notin Shown(v)
    <3>1. n \notin Span(v) /\ Active(v)
        BY <2>2, <1>2, <1>3 DEF StoreInv, WriterInv, Unsaved
    <3>2. Shown(v) \subseteq Span(v)
        BY <3>1, WriterHas DEF Shown, Span, Active, Progress
    <3> QED
        BY <3>1, <3>2
  <2> QED
      BY <2>1, <2>2
<1>9. index[n] = RecoveredIndex[n]
    BY <1>8 DEF StoreInv, IndexInv
<1>10. \A l \in Lba : l # n => index'[l] = index[l] /\ r.old[l] = write[w].old[l]
    BY <1>1, <1>2, WriterHas DEF TypeInv
<1>11. index'[n] = [blk |-> write[w].new[n], csum |-> write[w].val] /\ r.old[n] = index[n]
    BY <1>1, <1>2, WriterHas DEF TypeInv
<1>12. IndexInv'
  <2>1. ASSUME NEW l \in Lba, \A v \in Writer : Unsaved(v)' => l \notin Shown(v)'
        PROVE  index'[l] = RecoveredIndex'[l]
    <3>1. l # n /\ \A v \in Writer : Unsaved(v) => l \notin Shown(v)
        BY <2>1, <1>5, <1>7
    <3> QED
        BY <3>1, <1>5, <1>10 DEF StoreInv, IndexInv
  <2>2. ASSUME NEW v \in Writer, Unsaved(v)', NEW l \in Shown(v)'
        PROVE  /\ index'[l] = [blk |-> write'[v].new[l], csum |-> write'[v].val]
               /\ write'[v].old[l] = RecoveredIndex'[l]
    <3>1. Unsaved(v) /\ (l \in Shown(v) \/ (v = w /\ l = n))
        BY <2>2, <1>5, <1>7
    <3>2. CASE l \in Shown(v)
      <4>1. l # n
          BY <3>1, <3>2, <1>8
      <4>2. l \in Lba
        <5>1. l \in Span(v)
            BY <3>1, <3>2, WriterHas DEF Shown, Span, Active, Progress, Unsaved
        <5> QED
            BY <5>1, WriterHas
      <4>3. /\ index[l] = [blk |-> write[v].new[l], csum |-> write[v].val]
            /\ write[v].old[l] = RecoveredIndex[l]
          BY <3>1, <3>2 DEF StoreInv, IndexInv
      <4>4. /\ write'[v].new = write[v].new /\ write'[v].val = write[v].val
            /\ write'[v].old[l] = write[v].old[l]
        <5>1. CASE v = w
          <6>1. r.new = write[w].new /\ r.val = write[w].val
              BY ONLY <1>2
          <6>2. write'[w] = r
              BY ONLY <1>5
          <6>3. r.old[l] = write[w].old[l]
              BY ONLY <4>1, <4>2, <1>10
          <6> QED
              BY ONLY <5>1, <6>1, <6>2, <6>3
        <5>2. CASE v # w
            BY ONLY <5>2, <1>5, v \in Writer
        <5> QED
            BY <5>1, <5>2
      <4>5. index'[l] = index[l]
          BY <4>1, <4>2, <1>10
      <4> QED
          BY <4>3, <4>4, <4>5, <1>5
    <3>3. CASE v = w /\ l = n
        BY <3>3, <1>2, <1>5, <1>9, <1>11
    <3> QED
        BY <3>1, <3>2, <3>3
  <2> QED
      BY <2>1, <2>2 DEF IndexInv
<1>j. JournalInv'
  <2>1. Next
      BY DEF Next, WriteStep
  <2> QED
      BY <2>1, JournalStep
<1> QED
    BY <1>5, <1>12, <1>j DEF StoreInv

(* A write that has not come to the journal fails: what it shows is restored *)
(* to what a crash would leave, and nothing is lost but its blocks.          *)
LEMMA FailKeeps ==
    ASSUME TypeInv, StoreInv, JournalInv', NEW w \in Writer, Active(w), write[w].stage # "journal",
           write' = [write EXCEPT ![w] = NoWrite],
           UNCHANGED <<alloc, bitmap, data, journal, committed, disk>>,
           \A l \in Lba : index'[l] = IF l \in Shown(w) THEN RecoveredIndex[l] ELSE index[l]
    PROVE  StoreInv'
<1>1. /\ write' = [write EXCEPT ![w] = NoWrite]
      /\ UNCHANGED <<alloc, bitmap, data, journal, committed, disk>>
    OBVIOUS
<1>2. RecoveredIndex' = RecoveredIndex /\ RecoveredBitmap' = RecoveredBitmap
    BY <1>1, RecoveredSame
<1>3. /\ write'[w] = NoWrite
      /\ \A v \in Writer : v # w =>
                  /\ write'[v] = write[v]
                  /\ Active(v)' <=> Active(v)
                  /\ Span(v)' = Span(v) /\ Shown(v)' = Shown(v)
                  /\ Unsaved(v)' <=> Unsaved(v)
  <2>1. journal' = journal /\ write' = [write EXCEPT ![w] = NoWrite]
      BY <1>1
  <2> QED
      BY <2>1, OthersSame
<1>4. Uncommitted' = Uncommitted /\ \A k : NewOf(journal[k])' = NewOf(journal[k])
    BY <1>1 DEF Uncommitted, NewOf
<1>5. ~Active(w)' /\ ~Unsaved(w)' /\ Active(w) /\ Unsaved(w)
    BY <1>1, <1>3, NotJournaledYet DEF Active, NoWrite, Unsaved
<1>6. \A v \in Writer : Unsaved(v) /\ v # w => \A l \in Shown(v) : l \in Lba /\ l \notin Shown(w)
  <2>1. \A v \in Writer : Unsaved(v) => Active(v) /\ Shown(v) \subseteq Span(v) /\ Span(v) \subseteq Lba
      BY WriterHas DEF Shown, Span, Active, Progress, Unsaved
  <2> QED
      BY <2>1, <1>5 DEF StoreInv, WriterInv
<1>7. \A v \in Writer : Active(v)' => v # w /\ Active(v)
    BY <1>3, <1>5
<1>8. \A v \in Writer : Unsaved(v)' => v # w /\ Unsaved(v)
    BY <1>3, <1>5
<1>9. WriterInv'
    BY <1>3, <1>7 DEF StoreInv, WriterInv
<1>11. BlockInv'
    BY <1>1, <1>2, <1>3, <1>4, <1>8 DEF StoreInv, BlockInv
<1>12. FreeInv' /\ BitmapInv'
    BY <1>1, <1>2, <1>4 DEF StoreInv, FreeInv, BitmapInv
<1>13. RecoveryInv'
    BY <1>1, <1>2, <1>4 DEF StoreInv, RecoveryInv, RecoveredSound
<1>14. IndexInv'
  <2>1. ASSUME NEW l \in Lba, \A v \in Writer : Unsaved(v)' => l \notin Shown(v)'
        PROVE  index'[l] = RecoveredIndex'[l]
    <3>1. CASE l \in Shown(w)
        BY <3>1, <1>2
    <3>2. CASE l \notin Shown(w)
      <4>1. \A v \in Writer : Unsaved(v) => l \notin Shown(v)
          BY <3>2, <2>1, <1>3
      <4>2. index[l] = RecoveredIndex[l]
          BY <4>1 DEF StoreInv, IndexInv
      <4> QED
          BY <3>2, <4>2, <1>2
    <3> QED
        BY <3>1, <3>2
  <2>2. ASSUME NEW v \in Writer, Unsaved(v)', NEW l \in Shown(v)'
        PROVE  /\ index'[l] = [blk |-> write'[v].new[l], csum |-> write'[v].val]
               /\ write'[v].old[l] = RecoveredIndex'[l]
    <3>1. v # w /\ Unsaved(v) /\ l \in Shown(v) /\ write'[v] = write[v]
        BY <2>2, <1>3, <1>8
    <3>2. index'[l] = index[l]
        BY <3>1, <1>6
    <3>3. /\ index[l] = [blk |-> write[v].new[l], csum |-> write[v].val]
          /\ write[v].old[l] = RecoveredIndex[l]
        BY <3>1 DEF StoreInv, IndexInv
    <3> QED
        BY <3>1, <3>2, <3>3, <1>2
  <2> QED
      BY <2>1, <2>2 DEF IndexInv
<1> QED
    BY <1>9, <1>11, <1>12, <1>13, <1>14 DEF StoreInv

(* The data write fails before the write shows anything. *)
LEMMA DataFailsKeeps ==
    ASSUME TypeInv, StoreInv, NEW w \in Writer, WriteDataFails(w)
    PROVE  StoreInv'
<1>1. /\ write[w].stage = "data" /\ write' = [write EXCEPT ![w] = NoWrite]
      /\ UNCHANGED <<index, alloc, bitmap, data, journal, committed, disk>>
    BY DEF WriteDataFails, store
<1>2. Active(w) /\ Shown(w) = {}
    BY <1>1, WriterHas DEF Shown, Progress, Active
<1>j. JournalInv'
  <2>1. Next
      BY DEF Next, WriteStep
  <2> QED
      BY <2>1, JournalStep
<1> QED
    BY <1>1, <1>2, <1>j, FailKeeps

(* The failing put is in the first extent: the rollback covers all the lbas  *)
(* that were put.                                                            *)
LEMMA RolledBack ==
    ASSUME TypeInv, NEW w \in Writer, IndexPutFails(w), mishaps' = {}
    PROVE  /\ write[w].stage = "index" /\ write' = [write EXCEPT ![w] = NoWrite] /\ Active(w)
           /\ UNCHANGED <<alloc, bitmap, data, journal, committed, disk, read, issued>>
           /\ \A l \in Lba : index'[l] = IF l \in Shown(w) THEN write[w].old[l] ELSE index[l]
<1>1. /\ write[w].stage = "index" /\ write' = [write EXCEPT ![w] = NoWrite] /\ Active(w)
      /\ UNCHANGED <<alloc, bitmap, data, journal, committed, disk, read, issued>>
      /\ ~(ExtentStart(w) > write[w].lo)
      /\ index' = [l \in Lba |-> IF l \in ExtentStart(w) .. write[w].next - 1
                                 THEN write[w].old[l] ELSE index[l]]
    BY DEF IndexPutFails, Mishap, bounds, Active
<1>2. write[w].lo \in Nat /\ write[w].cut \in Int /\ write[w].lo <= write[w].cut
    BY <1>1, WriterHas DEF Progress, Active
<1>3. ExtentStart(w) = write[w].lo
    BY <1>1, <1>2 DEF ExtentStart
<1> QED
    BY <1>1, <1>3 DEF Shown

(* A put fails in the first extent. *)
LEMMA PutFailsKeeps ==
    ASSUME TypeInv, StoreInv, NEW w \in Writer, IndexPutFails(w), mishaps' = {}
    PROVE  StoreInv'
<1>1. /\ write[w].stage = "index" /\ write' = [write EXCEPT ![w] = NoWrite] /\ Active(w)
      /\ UNCHANGED <<alloc, bitmap, data, journal, committed, disk, read, issued>>
      /\ \A l \in Lba : index'[l] = IF l \in Shown(w) THEN write[w].old[l] ELSE index[l]
    BY RolledBack
<1>2. \A l \in Shown(w) : write[w].old[l] = RecoveredIndex[l]
    BY <1>1, NotJournaledYet DEF StoreInv, IndexInv
<1>j. JournalInv'
  <2>1. Next
      BY DEF Next, WriteStep
  <2> QED
      BY <2>1, JournalStep
<1> QED
    BY <1>1, <1>2, <1>j, FailKeeps

(* The journal entry makes the write durable: a crash now keeps the new      *)
(* blocks and gives up the old ones, which are the ones it would have kept.  *)
LEMMA JournalKeeps ==
    ASSUME TypeInv, StoreInv, NEW w \in Writer, WriteJournal(w)
    PROVE  StoreInv'
<1>1. /\ write[w].stage = "index" /\ write[w].next > write[w].hi
      /\ write' = [write EXCEPT ![w].stage = "journal"]
      /\ journal' = Append(journal, EntryOf(w))
      /\ UNCHANGED <<index, alloc, bitmap, data, committed, disk, read, bounds>>
    BY DEF WriteJournal, EntryOf
<1>2. PICK r \in WriteRecord :
               /\ write' = [write EXCEPT ![w] = r]
               /\ r.stage = "journal" /\ r.val = write[w].val /\ r.lo = write[w].lo
               /\ r.hi = write[w].hi /\ r.new = write[w].new
               /\ r.next = write[w].next /\ r.old = write[w].old
    BY <1>1, StageEffect DEF Stage
<1>3. Active(w) /\ Unsaved(w)
    BY <1>1, NotJournaledYet DEF Active
<1> PICK e \in JournalEntry :
        /\ e.val = write[w].val /\ e.lo = write[w].lo /\ e.hi = write[w].hi
        /\ e.new = write[w].new /\ e.old = OldBlks(w)
        /\ NewOf(e) \in SUBSET Blk /\ journal' = Append(journal, e)
    BY <1>1, <1>3, EntryTyped
<1> PICK n \in Nat : n = Len(journal)
    BY DEF TypeInv
<1>4. /\ Len(journal') = n + 1 /\ journal'[n + 1] = e
      /\ \A k \in 1 .. n : journal'[k] = journal[k]
    BY DEF TypeInv
<1>5. /\ committed \in 0 .. n /\ Uncommitted = committed + 1 .. n
      /\ \A k : k \in Uncommitted' <=> k \in Uncommitted \/ k = n + 1
      /\ \A k \in Uncommitted : k \in 1 .. n
  <2>1. committed \in 0 .. n /\ committed' = committed
      BY <1>1 DEF TypeInv
  <2> QED
      BY <2>1, <1>4 DEF Uncommitted
<1>6. \A k \in Uncommitted : journal'[k] = journal[k] /\ NewOf(journal[k])' = NewOf(journal[k])
    BY <1>4, <1>5 DEF NewOf
<1>7. NewOf(journal[n + 1])' = NewOf(e)
    BY <1>4 DEF NewOf
<1>8. /\ \A l \in Lba : l \in Span(w)
                  => RecoveredIndex'[l] = [blk |-> write[w].new[l], csum |-> write[w].val]
      /\ \A l \in Lba : l \notin Span(w) => RecoveredIndex'[l] = RecoveredIndex[l]
      /\ \A b \in Blk : b \in NewOf(e) \cup e.old => (b \in RecoveredBitmap' <=> b \notin e.old)
      /\ \A b \in Blk : b \notin NewOf(e) \cup e.old
                  => (b \in RecoveredBitmap' <=> b \in RecoveredBitmap)
  <2>1. disk' = disk
      BY <1>1
  <2> QED
      BY <2>1, RecoveredAppend DEF Span
<1>9. RecoveredBitmap \in SUBSET Blk /\ RecoveredBitmap' \in SUBSET Blk
    BY RecoveredTypes DEF RecoveredBitmap
<1>10. Span(w) \subseteq Lba /\ Shown(w) = Span(w)
  <2>1. Progress(write[w]) /\ Span(w) \subseteq Lba /\ write[w].lo \in Nat /\ write[w].hi \in Nat
      BY WriterHas
  <2>2. write[w].next = write[w].hi + 1
      BY <2>1, <1>1, <1>3 DEF Progress, Active
  <2>3. write[w].next - 1 = write[w].hi
      BY <2>1, <2>2
  <2> QED
      BY <2>1, <2>3 DEF Shown, Span
<1>r. ASSUME NEW l \in Span(w)
      PROVE  RecoveredIndex'[l].blk = write[w].new[l] /\ RecoveredIndex'[l].csum = write[w].val
  <2>1. RecoveredIndex'[l] = [blk |-> write[w].new[l], csum |-> write[w].val]
      BY <1>8, <1>10
  <2> QED
      BY ONLY <2>1
<1>11. \A l \in Span(w) : index[l] = [blk |-> write[w].new[l], csum |-> write[w].val]
                          /\ write[w].old[l] = RecoveredIndex[l]
    BY <1>3, <1>10 DEF StoreInv, IndexInv
<1>12. \A b \in e.old : b \in RecoveredBitmap /\ \E l \in Span(w) : RecoveredIndex[l].blk = b /\ b # NoBlk
  <2> SUFFICES ASSUME NEW b \in e.old
               PROVE  b \in RecoveredBitmap /\ \E l \in Span(w) : RecoveredIndex[l].blk = b /\ b # NoBlk
      OBVIOUS
  <2>1. PICK l \in Span(w) : b = write[w].old[l].blk /\ b # NoBlk
      BY DEF OldBlks
  <2>2. RecoveredIndex[l].blk = b /\ l \in Lba
      BY <2>1, <1>10, <1>11
  <2> QED
      BY <2>1, <2>2 DEF StoreInv, RecoveryInv, RecoveredSound
<1>13. \A b : b \in NewOf(e) <=> \E l \in Span(w) : b = write[w].new[l]
    BY DEF NewOf, Span
<1>14. \A l \in Span(w) :
           /\ write[w].new[l] \in alloc /\ write[w].new[l] \in Blk
           /\ write[w].new[l] \notin RecoveredBitmap
           /\ data[write[w].new[l]] = write[w].val
           /\ \A k \in Uncommitted : write[w].new[l] \notin journal[k].old
           /\ write[w].new[l] \in NewOf(e) /\ write[w].new[l] \notin e.old
           /\ write[w].new[l] \in RecoveredBitmap'
  <2>1. \A l \in Span(w) :
           /\ write[w].new[l] \in alloc /\ write[w].new[l] \in Blk
           /\ write[w].new[l] \notin RecoveredBitmap
           /\ data[write[w].new[l]] = write[w].val
           /\ \A k \in Uncommitted : write[w].new[l] \notin journal[k].old
      BY <1>1, <1>3 DEF StoreInv, BlockInv, TypeInv
  <2>2. \A l \in Span(w) : write[w].new[l] \in NewOf(e) /\ write[w].new[l] \notin e.old
      BY <2>1, <1>12, <1>13
  <2> QED
      BY <2>1, <2>2, <1>8
<1>15. /\ write'[w] = r
       /\ \A v \in Writer : v # w =>
                  /\ write'[v] = write[v]
                  /\ Active(v)' <=> Active(v)
                  /\ Span(v)' = Span(v) /\ Shown(v)' = Shown(v)
    BY <1>2, OthersSame
<1>16. Active(w)' /\ ~Unsaved(w)' /\ Span(w)' = Span(w) /\ write'[w].val = write[w].val
  <2>1. n + 1 \in DOMAIN journal'
      BY <1>4
  <2> QED
      BY <2>1, <1>2, <1>4, <1>15 DEF Active, Unsaved, Journaled, Span
<1>17. \A v \in Writer : Unsaved(v)' => v # w /\ Unsaved(v)
  <2> SUFFICES ASSUME NEW v \in Writer, Unsaved(v)'
               PROVE  v # w /\ Unsaved(v)
      OBVIOUS
  <2>1. v # w
      BY <1>16
  <2>2. ~Journaled(v)
    <3>1. DOMAIN journal = 1 .. n /\ DOMAIN journal' = 1 .. n + 1
        BY <1>4 DEF TypeInv
    <3>2. ASSUME NEW k \in DOMAIN journal, journal[k].val = write[v].val
          PROVE  FALSE
      <4>1. k \in DOMAIN journal' /\ journal'[k] = journal[k]
          BY <3>1, <1>4
      <4> QED
          BY <4>1, <3>2, <2>1, <1>15 DEF Unsaved, Journaled
    <3> QED
        BY <3>2 DEF Journaled
  <2> QED
      BY <2>1, <2>2, <1>15 DEF Unsaved
<1>18. \A v \in Writer : Unsaved(v) /\ v # w => Unsaved(v)'
  <2> SUFFICES ASSUME NEW v \in Writer, Unsaved(v), v # w
               PROVE  ~Journaled(v)'
      BY <1>15 DEF Unsaved
  <2>1. write[v].val # write[w].val
      BY <1>3 DEF Unsaved, StoreInv, WriterInv
  <2>2. DOMAIN journal = 1 .. n /\ DOMAIN journal' = 1 .. n + 1
      BY <1>4 DEF TypeInv
  <2>3. ASSUME NEW k \in DOMAIN journal', journal'[k].val = write'[v].val
        PROVE  FALSE
    <3>1. k \in 1 .. n \/ k = n + 1
        BY <2>2
    <3>2. k # n + 1
        BY <2>1, <2>3, <1>4, <1>15
    <3>3. k \in DOMAIN journal /\ journal[k].val = write[v].val
        BY <3>1, <3>2, <2>2, <2>3, <1>4, <1>15
    <3> QED
        BY <3>3 DEF Unsaved, Journaled
  <2> QED
      BY <2>3 DEF Journaled
<1>19. WriterInv'
    BY <1>3, <1>15, <1>16 DEF StoreInv, WriterInv
<1>20. JournalInv'
  <2>1. Next
      BY DEF Next, WriteStep
  <2> QED
      BY <2>1, JournalStep
<1>b. BitmapInv'
  <2>1. disk'.lsn <= committed'
      BY <1>1 DEF StoreInv, BitmapInv
  <2>2. ASSUME NEW b \in Blk,
               \A k \in Uncommitted' : b \notin NewOf(journal[k])' /\ b \notin journal'[k].old
        PROVE  b \in bitmap' <=> b \in RecoveredBitmap'
    <3>1. b \notin NewOf(e) /\ b \notin e.old
        BY <2>2, <1>4, <1>5, <1>7
    <3>2. \A k \in Uncommitted : b \notin NewOf(journal[k]) /\ b \notin journal[k].old
        BY <2>2, <1>5, <1>6
    <3>3. b \in bitmap <=> b \in RecoveredBitmap
        BY <3>2 DEF StoreInv, BitmapInv
    <3>4. bitmap' = bitmap
        BY <1>1
    <3> QED
        BY <3>1, <3>3, <3>4, <1>8
  <2> QED
      BY <2>1, <2>2 DEF BitmapInv
<1>21. BlockInv'
  <2>1. ASSUME NEW v \in Writer, Unsaved(v)', NEW l \in Span(v)'
        PROVE  /\ write'[v].new[l] \in alloc'
               /\ write'[v].new[l] \notin RecoveredBitmap'
               /\ write'[v].stage # "data" => data'[write'[v].new[l]] = write'[v].val
               /\ \A k \in Uncommitted' : write'[v].new[l] \notin journal'[k].old
    <3>1. v # w /\ Unsaved(v) /\ l \in Span(v) /\ write'[v] = write[v]
        BY <2>1, <1>15, <1>17
    <3> PICK b : b = write[v].new[l]
        OBVIOUS
    <3>2. /\ b \in alloc /\ b \in Blk
          /\ b \notin RecoveredBitmap
          /\ write[v].stage # "data" => data[b] = write[v].val
          /\ \A k \in Uncommitted : b \notin journal[k].old
        BY <3>1 DEF StoreInv, BlockInv, TypeInv
    <3>3. b \notin NewOf(e)
        BY <3>1, <1>3, <1>13 DEF StoreInv, BlockInv
    <3>4. b \notin e.old
        BY <3>2, <1>12
    <3>5. b \notin RecoveredBitmap'
        BY <3>2, <3>3, <3>4, <1>8
    <3>6. \A k \in Uncommitted' : b \notin journal'[k].old
        BY <3>2, <3>4, <1>4, <1>5, <1>6
    <3>7. alloc' = alloc /\ data' = data
        BY <1>1
    <3>8. write'[v].new[l] = b /\ write'[v].stage = write[v].stage /\ write'[v].val = write[v].val
        BY <3>1
    <3> QED
        BY ONLY <3>2, <3>5, <3>6, <3>7, <3>8
  <2>2. ASSUME NEW u \in Writer, NEW v \in Writer, Unsaved(u)', Unsaved(v)',
               NEW l \in Span(u)', NEW m \in Span(v)', write'[u].new[l] = write'[v].new[m]
        PROVE  u = v /\ l = m
      BY <2>2, <1>15, <1>17 DEF StoreInv, BlockInv
  <2> QED
      BY <2>1, <2>2 DEF BlockInv
<1>22. FreeInv'
  <2>1. ASSUME NEW k \in Uncommitted
        PROVE  /\ \A b \in journal[k].old : b \in alloc /\ b \notin RecoveredBitmap' /\ b \notin NewOf(e)
                                            /\ b \notin e.old
               /\ \A b \in NewOf(journal[k]) : b \in alloc
    <3>1. ASSUME NEW b \in journal[k].old
          PROVE  b \in alloc /\ b \notin RecoveredBitmap' /\ b \notin NewOf(e) /\ b \notin e.old
      <4>1. b \in alloc /\ b \in Blk /\ b \notin RecoveredBitmap
          BY <3>1 DEF StoreInv, FreeInv, TypeInv
      <4>2. b \notin NewOf(e)
          BY <3>1, <1>13, <1>14
      <4>3. b \notin e.old
          BY <4>1, <1>12
      <4> QED
          BY <4>1, <4>2, <4>3, <1>8
    <3> QED
        BY <3>1 DEF StoreInv, FreeInv
  <2>2. /\ \A b \in e.old : b \in alloc /\ b \notin RecoveredBitmap' /\ b \notin NewOf(e)
        /\ \A b \in NewOf(e) : b \in alloc
    <3>1. \A b \in e.old : b \in alloc /\ b \in Blk
        BY <1>9, <1>12 DEF StoreInv, FreeInv
    <3> QED
        BY <3>1, <1>8, <1>13, <1>14
  <2>3. alloc' = alloc /\ bitmap' = bitmap
      BY <1>1
  <2>4. ASSUME NEW k \in Uncommitted'
        PROVE  /\ \A b \in journal'[k].old : b \in alloc' /\ b \notin RecoveredBitmap'
               /\ \A b \in NewOf(journal[k])' : b \in alloc'
    <3>1. CASE k = n + 1
        BY <3>1, <2>2, <2>3, <1>4, <1>7
    <3>2. CASE k # n + 1
        BY <3>2, <2>1, <2>3, <1>5, <1>6
    <3> QED
        BY <3>1, <3>2
  <2>5. ASSUME NEW j \in Uncommitted', NEW k \in Uncommitted', j # k, NEW b \in journal'[j].old
        PROVE  b \notin journal'[k].old
    <3>1. CASE j = n + 1
        BY <3>1, <2>1, <2>5, <1>4, <1>5, <1>6
    <3>2. CASE k = n + 1
        BY <3>2, <2>1, <2>5, <1>4, <1>5, <1>6
    <3>3. CASE j # n + 1 /\ k # n + 1
        BY <3>3, <2>5, <1>5, <1>6 DEF StoreInv, FreeInv
    <3> QED
        BY <3>1, <3>2, <3>3
  <2>6. ASSUME NEW j \in Uncommitted', NEW k \in Uncommitted', j <= k, NEW b \in journal'[j].old
        PROVE  b \notin NewOf(journal[k])'
    <3>1. CASE k = n + 1
        BY <3>1, <2>1, <2>2, <2>6, <1>4, <1>5, <1>6, <1>7
    <3>2. CASE k # n + 1
      <4>1. k \in Uncommitted /\ k \in 1 .. n
          BY <3>2, <1>5
      <4>2. j \in Uncommitted
          BY <4>1, <2>6, <1>5
      <4> QED
          BY <4>1, <4>2, <2>6, <1>6 DEF StoreInv, FreeInv
    <3> QED
        BY <3>1, <3>2
  <2>7. ASSUME NEW b \in RecoveredBitmap'
        PROVE  b \in alloc'
    <3>1. b \in Blk
        BY <1>9
    <3>2. CASE b \in NewOf(e)
        BY <3>2, <2>2, <2>3
    <3>3. CASE b \notin NewOf(e)
      <4>1. b \in RecoveredBitmap
          BY <3>1, <3>3, <2>7, <1>8
      <4> QED
          BY <4>1, <2>3 DEF StoreInv, FreeInv
    <3> QED
        BY <3>2, <3>3
  <2>8. \A b \in bitmap' : b \in alloc'
      BY <2>3 DEF StoreInv, FreeInv
  <2> QED
      BY <2>4, <2>5, <2>6, <2>7, <2>8 DEF FreeInv
<1>23. ASSUME NEW l \in Lba, l \notin Span(w), RecoveredIndex[l].blk # NoBlk
       PROVE  /\ RecoveredIndex[l].blk \in RecoveredBitmap'
              /\ RecoveredIndex[l].blk \in RecoveredBitmap
              /\ data[RecoveredIndex[l].blk] = RecoveredIndex[l].csum
  <2> PICK b : b = RecoveredIndex[l].blk
      OBVIOUS
  <2>1. /\ b \in RecoveredBitmap /\ data[b] = RecoveredIndex[l].csum
        /\ \A k \in Lba \ {l} : RecoveredIndex[k].blk # b
      BY <1>23 DEF StoreInv, RecoveryInv, RecoveredSound
  <2>2. b \notin e.old
      BY <2>1, <1>10, <1>12, <1>23
  <2>3. b \notin NewOf(e)
      BY <2>1, <1>13, <1>14
  <2>4. b \in RecoveredBitmap'
      BY <2>1, <2>2, <2>3, <1>8, <1>9
  <2> QED
      BY <2>1, <2>4
<1>24. RecoveredSound'
  <2>1. data' = data
      BY <1>1
  <2>2. ASSUME NEW l \in Lba, RecoveredIndex'[l].blk # NoBlk
        PROVE  /\ RecoveredIndex'[l].blk \in RecoveredBitmap'
               /\ data'[RecoveredIndex'[l].blk] = RecoveredIndex'[l].csum
               /\ \A k \in Lba \ {l} : RecoveredIndex'[k].blk # RecoveredIndex'[l].blk
    <3>1. CASE l \in Span(w)
      <4>1. RecoveredIndex'[l].blk = write[w].new[l] /\ RecoveredIndex'[l].csum = write[w].val
          BY <3>1, <1>r
      <4>2. ASSUME NEW k \in Lba \ {l}
            PROVE  RecoveredIndex'[k].blk # RecoveredIndex'[l].blk
        <5>1. CASE k \in Span(w)
          <6>1. RecoveredIndex'[k].blk = write[w].new[k]
              BY <5>1, <1>r
          <6>2. write[w].new[k] # write[w].new[l]
              BY <3>1, <5>1, <4>2, <1>3 DEF StoreInv, BlockInv
          <6> QED
              BY <4>1, <6>1, <6>2
        <5>2. CASE k \notin Span(w)
          <6>1. RecoveredIndex'[k] = RecoveredIndex[k]
              BY <5>2, <1>8
          <6> QED
              BY <4>1, <6>1, <5>2, <3>1, <2>2, <1>14, <1>23
        <5> QED
            BY <5>1, <5>2
      <4> QED
          BY <3>1, <4>1, <4>2, <2>1, <1>14
    <3>2. CASE l \notin Span(w)
      <4>1. RecoveredIndex'[l] = RecoveredIndex[l]
          BY <3>2, <1>8
      <4>2. ASSUME NEW k \in Lba \ {l}
            PROVE  RecoveredIndex'[k].blk # RecoveredIndex[l].blk
        <5>1. CASE k \in Span(w)
          <6>1. RecoveredIndex'[k].blk = write[w].new[k]
              BY <5>1, <1>r
          <6> QED
              BY <4>1, <6>1, <5>1, <3>2, <2>2, <1>14, <1>23
        <5>2. CASE k \notin Span(w)
          <6>1. RecoveredIndex'[k] = RecoveredIndex[k]
              BY <5>2, <1>8
          <6> QED
              BY <4>1, <6>1, <2>2 DEF StoreInv, RecoveryInv, RecoveredSound
        <5> QED
            BY <5>1, <5>2
      <4> QED
          BY <3>2, <4>1, <4>2, <2>1, <2>2, <1>23
    <3> QED
        BY <3>1, <3>2
  <2> QED
      BY <2>2 DEF RecoveredSound
<1>25. RecoveryInv'
  <2>1. ASSUME NEW l \in Lba, RecoveredIndex'[l].blk # NoBlk
        PROVE  \/ RecoveredIndex'[l].blk \in bitmap'
               \/ \E k \in Uncommitted' : /\ l \in journal'[k].lo .. journal'[k].hi
                                          /\ journal'[k].new[l] = RecoveredIndex'[l].blk
    <3>1. CASE l \in Span(w)
      <4>1. n + 1 \in Uncommitted' /\ l \in e.lo .. e.hi /\ e.new[l] = RecoveredIndex'[l].blk
          BY <3>1, <1>5, <1>r DEF Span
      <4> QED
          BY <4>1, <1>4
    <3>2. CASE l \notin Span(w)
      <4>1. RecoveredIndex'[l] = RecoveredIndex[l]
          BY <3>2, <1>8
      <4>2. \/ RecoveredIndex[l].blk \in bitmap
            \/ \E k \in Uncommitted : /\ l \in journal[k].lo .. journal[k].hi
                                      /\ journal[k].new[l] = RecoveredIndex[l].blk
          BY <4>1, <2>1 DEF StoreInv, RecoveryInv
      <4> QED
          BY <4>1, <4>2, <1>1, <1>5, <1>6
    <3> QED
        BY <3>1, <3>2
  <2> QED
      BY <2>1, <1>24 DEF RecoveryInv
<1>26. IndexInv'
  <2>1. index' = index
      BY <1>1
  <2>2. ASSUME NEW l \in Lba, \A v \in Writer : Unsaved(v)' => l \notin Shown(v)'
        PROVE  index'[l] = RecoveredIndex'[l]
    <3>1. CASE l \in Span(w)
        BY <3>1, <2>1, <1>8, <1>11
    <3>2. CASE l \notin Span(w)
      <4>1. \A v \in Writer : Unsaved(v) => l \notin Shown(v)
          BY <3>2, <2>2, <1>10, <1>15, <1>18
      <4> QED
          BY <3>2, <4>1, <2>1, <1>8 DEF StoreInv, IndexInv
    <3> QED
        BY <3>1, <3>2
  <2>3. ASSUME NEW v \in Writer, Unsaved(v)', NEW l \in Shown(v)'
        PROVE  /\ index'[l] = [blk |-> write'[v].new[l], csum |-> write'[v].val]
               /\ write'[v].old[l] = RecoveredIndex'[l]
    <3>1. v # w /\ Unsaved(v) /\ l \in Shown(v) /\ write'[v] = write[v]
        BY <2>3, <1>15, <1>17
    <3>2. l \in Span(v)
        BY <3>1, WriterHas DEF Shown, Span, Active, Progress, Unsaved
    <3>3. l \in Lba /\ l \notin Span(w)
        BY <3>1, <3>2, <1>3, WriterHas DEF StoreInv, WriterInv, Unsaved
    <3>4. RecoveredIndex'[l] = RecoveredIndex[l]
        BY <3>3, <1>8
    <3> QED
        BY <3>1, <3>4, <2>1 DEF StoreInv, IndexInv
  <2> QED
      BY <2>2, <2>3 DEF IndexInv
<1> QED
    BY <1>19, <1>20, <1>21, <1>22, <1>25, <1>26, <1>b DEF StoreInv

-----------------------------------------------------------------------------
(* Commit, checkpoint and crash *)

(* A commit frees the old blocks of its entry, which nobody refers to, and   *)
(* ends the write that waits for it.                                         *)
LEMMA CommitKeeps ==
    ASSUME TypeInv, StoreInv, Commit
    PROVE  StoreInv'
<1>1. /\ committed < Len(journal) /\ committed' = committed + 1
      /\ UNCHANGED <<index, data, journal, disk, read, bounds>>
    BY DEF Commit
<1> PICK n \in Nat : n = Len(journal)
    BY DEF TypeInv
<1> PICK c \in 1 .. n : c = committed + 1
    BY <1>1 DEF TypeInv
<1> PICK e \in JournalEntry : e = journal[c]
    BY DEF TypeInv
<1>2. /\ c \in Uncommitted /\ \A k : k \in Uncommitted' <=> k \in Uncommitted /\ k # c
      /\ \A k \in Uncommitted : k \in 1 .. n /\ c <= k
  <2>1. committed \in Nat /\ committed' = c /\ journal' = journal
      BY <1>1 DEF TypeInv
  <2> QED
      BY <2>1 DEF Uncommitted
<1>3. \A k \in Uncommitted' : journal'[k] = journal[k] /\ NewOf(journal[k])' = NewOf(journal[k])
    BY <1>1 DEF NewOf
<1>4. \A b \in e.old : b \in alloc /\ b \notin RecoveredBitmap /\ b \notin NewOf(e)
    BY <1>2 DEF StoreInv, FreeInv
<1>5. \A b : b \in Freed(e) <=> b \in e.old
    BY <1>4 DEF Freed
<1>6. /\ \A b : b \in bitmap' <=> (b \in bitmap \/ b \in NewOf(e)) /\ b \notin e.old
      /\ \A b : b \in alloc' <=> b \in alloc /\ b \notin e.old
      /\ write' = [w \in Writer |-> IF write[w].stage = "journal" /\ write[w].val = e.val
                                    THEN NoWrite ELSE write[w]]
    BY <1>5 DEF Commit
<1>7. RecoveredIndex' = RecoveredIndex /\ RecoveredBitmap' = RecoveredBitmap
    BY <1>1, RecoveredSame
<1>8. \A w \in Writer : /\ write'[w] = write[w] \/ write'[w] = NoWrite
                        /\ Active(w)' <=> Active(w) /\ ~(write[w].stage = "journal" /\ write[w].val = e.val)
                        /\ Active(w)' => write'[w] = write[w] /\ Active(w)
    BY <1>6 DEF Active, NoWrite
<1>9. \A w \in Writer : Active(w) /\ write[w].val = e.val => ~Active(w)'
    BY <1>1, <1>8 DEF StoreInv, JournalInv
<1>10. \A w \in Writer : /\ Unsaved(w)' <=> Unsaved(w)
                         /\ Unsaved(w) => write'[w] = write[w] /\ Span(w)' = Span(w) /\ Shown(w)' = Shown(w)
  <2> SUFFICES ASSUME NEW w \in Writer
               PROVE  /\ Unsaved(w)' <=> Unsaved(w)
                      /\ Unsaved(w) => write'[w] = write[w]
      BY DEF Span, Shown
  <2>1. DOMAIN journal = 1 .. n /\ journal' = journal
      BY <1>1 DEF TypeInv
  <2>2. CASE Active(w)'
      BY <2>1, <2>2, <1>8 DEF Unsaved, Journaled
  <2>3. CASE ~Active(w)'
    <3>1. Active(w) => write[w].val = journal[c].val /\ c \in DOMAIN journal
        BY <2>1, <2>3, <1>8
    <3>2. ~Unsaved(w)
        BY <3>1 DEF Unsaved, Journaled
    <3> QED
        BY <3>2, <2>3 DEF Unsaved
  <2> QED
      BY <2>2, <2>3
<1>11. WriterInv'
    BY <1>8 DEF StoreInv, WriterInv, Span
<1>12. JournalInv'
  <2>1. Next
      BY DEF Next
  <2> QED
      BY <2>1, JournalStep
<1>b. BitmapInv'
  <2>1. disk'.lsn <= committed' /\ disk.lsn < c
    <3>1. disk.lsn <= committed /\ disk.lsn \in Nat /\ committed \in Nat
        BY DEF StoreInv, BitmapInv, TypeInv
    <3>2. disk' = disk /\ committed' = c
        BY <1>1
    <3> QED
        BY <3>1, <3>2
  <2>2. ASSUME NEW b \in Blk,
               \A k \in Uncommitted' : b \notin NewOf(journal[k])' /\ b \notin journal'[k].old
        PROVE  b \in bitmap' <=> b \in RecoveredBitmap'
    <3>1. \A k \in Uncommitted : k # c => b \notin NewOf(journal[k]) /\ b \notin journal[k].old
        BY <2>2, <1>2, <1>3
    <3>2. CASE b \in NewOf(e) \/ b \in e.old
      <4>1. c \in Replayed
          BY <2>1, ReplayedBounded DEF Replayed
      <4>2. \A k \in Replayed : k > c => k \in Uncommitted /\ k # c
        <5>1. committed \in Nat /\ disk.lsn \in Nat
            BY DEF TypeInv
        <5> QED
            BY <5>1 DEF Replayed, Uncommitted
      <4>3. b \in RecoveredBitmap <=> b \notin e.old
          BY <3>1, <3>2, <4>1, <4>2, NamedLast
      <4> QED
          BY <3>2, <4>3, <1>4, <1>6, <1>7
    <3>3. CASE b \notin NewOf(e) /\ b \notin e.old
      <4>1. b \in bitmap <=> b \in RecoveredBitmap
          BY <3>1, <3>3 DEF StoreInv, BitmapInv
      <4> QED
          BY <3>3, <4>1, <1>6, <1>7
    <3> QED
        BY <3>2, <3>3
  <2> QED
      BY <2>1, <2>2 DEF BitmapInv
<1>13. BlockInv'
  <2>1. ASSUME NEW v \in Writer, Unsaved(v)', NEW l \in Span(v)'
        PROVE  /\ write'[v].new[l] \in alloc'
               /\ write'[v].new[l] \notin RecoveredBitmap'
               /\ write'[v].stage # "data" => data'[write'[v].new[l]] = write'[v].val
               /\ \A k \in Uncommitted' : write'[v].new[l] \notin journal'[k].old
    <3>1. Unsaved(v) /\ l \in Span(v) /\ write'[v] = write[v]
        BY <2>1, <1>10
    <3> PICK b : b = write[v].new[l]
        OBVIOUS
    <3>2. /\ b \in alloc
          /\ b \notin RecoveredBitmap
          /\ write[v].stage # "data" => data[b] = write[v].val
          /\ \A k \in Uncommitted : b \notin journal[k].old
        BY <3>1 DEF StoreInv, BlockInv
    <3>3. b \in alloc'
        BY <3>2, <1>2, <1>6
    <3>4. data' = data /\ journal' = journal
        BY <1>1
    <3> QED
        BY <3>1, <3>2, <3>3, <3>4, <1>2, <1>7
  <2>2. ASSUME NEW u \in Writer, NEW v \in Writer, Unsaved(u)', Unsaved(v)',
               NEW l \in Span(u)', NEW m \in Span(v)', write'[u].new[l] = write'[v].new[m]
        PROVE  u = v /\ l = m
      BY <2>2, <1>10 DEF StoreInv, BlockInv
  <2> QED
      BY <2>1, <2>2 DEF BlockInv
<1>14. FreeInv'
  <2>1. ASSUME NEW k \in Uncommitted'
        PROVE  /\ \A b \in journal'[k].old : b \in alloc' /\ b \notin RecoveredBitmap'
               /\ \A b \in NewOf(journal[k])' : b \in alloc'
    <3>1. k \in Uncommitted /\ k # c /\ c <= k
        BY <1>2
    <3>2. /\ \A b \in journal[k].old : b \in alloc /\ b \notin RecoveredBitmap
          /\ \A b \in NewOf(journal[k]) : b \in alloc
          /\ \A b \in e.old : b \notin journal[k].old /\ b \notin NewOf(journal[k])
        BY <3>1, <1>2 DEF StoreInv, FreeInv
    <3> QED
        BY <3>2, <1>3, <1>6, <1>7
  <2>2. ASSUME NEW j \in Uncommitted', NEW k \in Uncommitted', NEW b \in journal'[j].old
        PROVE  /\ j # k => b \notin journal'[k].old
               /\ j <= k => b \notin NewOf(journal[k])'
      BY <2>2, <1>2, <1>3 DEF StoreInv, FreeInv
  <2>3. \A b \in bitmap' : b \in alloc'
      BY <1>2, <1>6 DEF StoreInv, FreeInv
  <2>4. \A b \in RecoveredBitmap' : b \in alloc'
      BY <1>4, <1>6, <1>7 DEF StoreInv, FreeInv
  <2> QED
      BY <2>1, <2>2, <2>3, <2>4 DEF FreeInv
<1>15. RecoveryInv'
  <2>1. RecoveredSound'
      BY <1>1, <1>7 DEF StoreInv, RecoveryInv, RecoveredSound
  <2>2. ASSUME NEW l \in Lba, RecoveredIndex[l].blk # NoBlk
        PROVE  \/ RecoveredIndex[l].blk \in bitmap'
               \/ \E k \in Uncommitted' : /\ l \in journal'[k].lo .. journal'[k].hi
                                          /\ journal'[k].new[l] = RecoveredIndex[l].blk
    <3>1. RecoveredIndex[l].blk \in RecoveredBitmap
        BY <2>2 DEF StoreInv, RecoveryInv, RecoveredSound
    <3>2. RecoveredIndex[l].blk \notin e.old
        BY <3>1, <1>4
    <3>3. CASE RecoveredIndex[l].blk \in bitmap
        BY <3>2, <3>3, <1>6
    <3>4. CASE \E k \in Uncommitted : /\ l \in journal[k].lo .. journal[k].hi
                                      /\ journal[k].new[l] = RecoveredIndex[l].blk
      <4>1. PICK k \in Uncommitted : /\ l \in journal[k].lo .. journal[k].hi
                                     /\ journal[k].new[l] = RecoveredIndex[l].blk
          BY <3>4
      <4>2. CASE k = c
        <5>1. RecoveredIndex[l].blk \in NewOf(e)
            BY <4>1, <4>2 DEF NewOf
        <5> QED
            BY <5>1, <3>2, <1>6
      <4>3. CASE k # c
        <5>1. k \in Uncommitted' /\ journal' = journal
            BY <4>3, <1>1, <1>2
        <5> QED
            BY <4>1, <5>1
      <4> QED
          BY <4>2, <4>3
    <3> QED
        BY <2>2, <3>3, <3>4 DEF StoreInv, RecoveryInv
  <2> QED
      BY <2>1, <2>2, <1>7 DEF RecoveryInv
<1>16. IndexInv'
  <2>1. index' = index
      BY <1>1
  <2>2. ASSUME NEW l \in Lba, \A v \in Writer : Unsaved(v)' => l \notin Shown(v)'
        PROVE  index'[l] = RecoveredIndex'[l]
    <3>1. \A v \in Writer : Unsaved(v) => l \notin Shown(v)
        BY <2>2, <1>10
    <3> QED
        BY <3>1, <2>1, <1>7 DEF StoreInv, IndexInv
  <2>3. ASSUME NEW v \in Writer, Unsaved(v)', NEW l \in Shown(v)'
        PROVE  /\ index'[l] = [blk |-> write'[v].new[l], csum |-> write'[v].val]
               /\ write'[v].old[l] = RecoveredIndex'[l]
    <3>1. Unsaved(v) /\ l \in Shown(v) /\ write'[v] = write[v]
        BY <2>3, <1>10
    <3>2. /\ index[l] = [blk |-> write[v].new[l], csum |-> write[v].val]
          /\ write[v].old[l] = RecoveredIndex[l]
        BY <3>1 DEF StoreInv, IndexInv
    <3> QED
        BY <3>1, <3>2, <2>1, <1>7
  <2> QED
      BY <2>2, <2>3 DEF IndexInv
<1> QED
    BY <1>11, <1>12, <1>13, <1>14, <1>15, <1>16, <1>b DEF StoreInv

(* When no write that a crash would undo shows anything, the index is what a *)
(* crash would leave.                                                        *)
LEMMA CheckpointSame ==
    ASSUME TypeInv, StoreInv, Checkpoint, mishaps' = {}
    PROVE  /\ RecoveredIndex' = RecoveredIndex /\ RecoveredBitmap' = RecoveredBitmap
           /\ UNCHANGED <<index, alloc, bitmap, data, journal, committed, write, read, issued>>
           /\ disk'.lsn = committed
<1>1. /\ \A w \in Writer : Unsaved(w) => Shown(w) = {}
      /\ disk' = [index |-> index, bitmap |-> bitmap, lsn |-> committed]
      /\ UNCHANGED <<index, alloc, bitmap, data, journal, committed, write, read, issued>>
    BY DEF Checkpoint, Mishap, bounds
<1>2. \A l \in Lba : index[l] = RecoveredIndex[l]
    BY <1>1 DEF StoreInv, IndexInv
<1>3. BitmapInv /\ journal' = journal
    BY <1>1 DEF StoreInv
<1>4. RecoveredIndex' = RecoveredIndex /\ RecoveredBitmap' = RecoveredBitmap
    BY <1>1, <1>2, <1>3, RecoveredCheckpoint
<1>5. disk'.lsn = committed
    BY <1>1
<1> QED
    BY <1>1, <1>4, <1>5

(* A checkpoint then changes only where it is found. *)
LEMMA CheckpointKeeps ==
    ASSUME TypeInv, StoreInv, Checkpoint, mishaps' = {}
    PROVE  StoreInv'
<1>1. /\ RecoveredIndex' = RecoveredIndex /\ RecoveredBitmap' = RecoveredBitmap
      /\ UNCHANGED <<index, alloc, bitmap, data, journal, committed, write, issued>>
      /\ disk'.lsn = committed
    BY CheckpointSame
<1>2. issued \in Nat /\ committed \in Nat
    BY BoundAssumption DEF TypeInv
<1>3. issued' \in Nat /\ issued <= issued' /\ disk'.lsn <= committed
    BY <1>1, <1>2
<1> QED
    BY <1>1, <1>3, StoreSame

(* A crash leaves what is recovered, and no write in progress. *)
LEMMA CrashKeeps ==
    ASSUME TypeInv, StoreInv, CrashAndRecover
    PROVE  StoreInv'
<1>1. /\ index' = RecoveredIndex /\ bitmap' = RecoveredBitmap /\ alloc' = RecoveredBitmap
      /\ committed' = Len(journal) /\ write' = [w \in Writer |-> NoWrite]
      /\ UNCHANGED <<data, journal, disk, issued>>
    BY DEF CrashAndRecover
<1>2. RecoveredIndex' = RecoveredIndex /\ RecoveredBitmap' = RecoveredBitmap
    BY <1>1, RecoveredSame
<1>3. \A k : k \notin Uncommitted'
  <2>1. Len(journal) \in Nat
      BY DEF TypeInv
  <2> QED
      BY <2>1, <1>1 DEF Uncommitted
<1>4. \A w \in Writer : ~Active(w)' /\ ~Unsaved(w)'
    BY <1>1 DEF Active, Unsaved, NoWrite
<1>5. WriterInv'
    BY <1>4 DEF WriterInv
<1>6. JournalInv'
  <2>1. Next
      BY DEF Next
  <2> QED
      BY <2>1, JournalStep
<1>7. BlockInv'
    BY <1>4 DEF BlockInv
<1>8. FreeInv'
    BY <1>1, <1>2, <1>3 DEF FreeInv
<1>9. RecoveryInv'
    BY <1>1, <1>2 DEF StoreInv, RecoveryInv, RecoveredSound
<1>10. IndexInv'
    BY <1>1, <1>2, <1>4 DEF IndexInv
<1>11. BitmapInv'
  <2>1. disk'.lsn <= committed'
      BY <1>1 DEF TypeInv
  <2> QED
      BY <2>1, <1>1, <1>2 DEF BitmapInv
<1> QED
    BY <1>11, <1>5, <1>6, <1>7, <1>8, <1>9, <1>10 DEF StoreInv

(* The empty store satisfies the invariant. *)
LEMMA StoreInit == Init => StoreInv
<1> SUFFICES ASSUME Init PROVE StoreInv
    OBVIOUS
<1>1. journal = <<>> /\ Len(journal) = 0 /\ committed = 0 /\ disk.lsn = 0 /\ disk.index = index
      /\ index = [l \in Lba |-> Hole] /\ alloc = {} /\ bitmap = {} /\ disk.bitmap = {}
    BY DEF Init
<1>2. Replayed = {} /\ Uncommitted = {}
    BY <1>1 DEF Replayed, Uncommitted
<1>3. \A l \in Lba : RecoveredIndex[l] = index[l] /\ index[l].blk = NoBlk
    BY <1>1, <1>2 DEF RecoveredIndex, Hole
<1>4. \A b : b \notin RecoveredBitmap
    BY <1>1, <1>2 DEF RecoveredBitmap
<1>5. \A w \in Writer : ~Active(w) /\ ~Unsaved(w)
    BY DEF Init, Active, Unsaved, NoWrite
<1>6. WriterInv /\ BlockInv /\ IndexInv
    BY <1>3, <1>5 DEF WriterInv, BlockInv, IndexInv
<1>7. JournalInv
  <2>1. \A w \in Writer : write[w].stage # "journal"
      BY DEF Init, NoWrite
  <2> QED
      BY <2>1, <1>1, <1>2, <1>5 DEF JournalInv
<1>8. FreeInv /\ BitmapInv
    BY <1>1, <1>2, <1>4 DEF FreeInv, BitmapInv
<1>9. RecoveryInv
    BY <1>3 DEF RecoveryInv, RecoveredSound
<1> QED
    BY <1>6, <1>7, <1>8, <1>9 DEF StoreInv

-----------------------------------------------------------------------------
(* What is proved *)

Inv == TypeInv /\ StoreInv

(* A mishap is never forgotten. *)
LEMMA MishapStays ==
    ASSUME [Next]_vars, mishaps' = {}
    PROVE  mishaps = {}
BY DEF Next, vars, WriteStep, WriteAlloc, WriteNoSpace, WriteData, WriteDataFails, IndexPut,
       IndexPutFails, WriteJournal, JournalFails, Commit, ReadData, ReadReturn, ReadIndex,
       ReadIndexFails, Checkpoint, CrashAndRecover, Mishap

(* Every step that is not a mishap keeps the invariant. *)
LEMMA InvStep ==
    ASSUME Inv, [Next]_vars, mishaps' = {}
    PROVE  Inv'
<1> USE DEF Inv
<1>1. TypeInv'
    BY TypeStep
<1>2. issued \in Nat /\ issued' \in Nat
    BY <1>1, BoundAssumption DEF TypeInv
<1>3. ASSUME NEW w \in Writer, WriteStep(w)
      PROVE  StoreInv'
    BY <1>3, DataKeeps, DataFailsKeeps, PutKeeps, PutFailsKeeps, JournalKeeps, RefusedKeeps
       DEF WriteStep
<1>4. ASSUME NEW w \in Writer, NEW lo \in Lba, NEW hi \in lo .. MaxLba, NEW cut \in lo + 1 .. hi + 1,
             WriteAlloc(w, lo, hi, cut)
      PROVE  StoreInv'
    BY <1>4, AllocKeeps
<1>5. ASSUME UNCHANGED <<index, alloc, bitmap, data, journal, committed, disk, write>>, issued <= issued'
      PROVE  StoreInv'
  <2>1. RecoveredIndex' = RecoveredIndex /\ RecoveredBitmap' = RecoveredBitmap
      BY <1>5, RecoveredSame
  <2>2. disk'.lsn <= committed
      BY <1>5 DEF StoreInv, BitmapInv
  <2> QED
      BY <1>2, <1>5, <2>1, <2>2, StoreSame
<1>6. ASSUME NEW w \in Writer, NEW lo \in Lba, NEW hi \in lo .. MaxLba, WriteNoSpace(w, lo, hi)
      PROVE  StoreInv'
  <2>1. UNCHANGED <<index, alloc, bitmap, data, journal, committed, disk, write>> /\ issued <= issued'
      BY <1>2, <1>6 DEF WriteNoSpace, store
  <2> QED
      BY <2>1, <1>5
<1>7. ASSUME NEW r \in Reader,
             \/ ReadData(r) \/ ReadReturn(r)
             \/ \E l \in Lba : ReadIndex(r, l) \/ ReadIndexFails(r, l)
      PROVE  StoreInv'
  <2>1. UNCHANGED <<store, write, bounds>>
      BY <1>7 DEF ReadData, ReadReturn, ReadIndex, ReadIndexFails
  <2>2. UNCHANGED <<index, alloc, bitmap, data, journal, committed, disk, write>> /\ issued <= issued'
      BY <2>1, <1>2 DEF store, bounds
  <2> QED
      BY <2>2, <1>5
<1>8. ASSUME UNCHANGED vars
      PROVE  StoreInv'
  <2>1. UNCHANGED <<index, alloc, bitmap, data, journal, committed, disk, write>> /\ issued <= issued'
      BY <1>2, <1>8 DEF vars
  <2> QED
      BY <2>1, <1>5
<1>9. StoreInv'
    BY <1>3, <1>4, <1>6, <1>7, <1>8, CommitKeeps, CheckpointKeeps, CrashKeeps DEF Next
<1> QED
    BY <1>1, <1>9

(* What holds of the volume in every run. *)
VolumeInv == /\ TypeInv
             /\ WaitInv
             /\ mishaps = {} => StoreInv

(* The write path, the commit callback, checkpoints and recovery keep the    *)
(* invariant in every run, however many writers and crashes there are.       *)
THEOREM StoreCorrect == Spec => []VolumeInv
<1>1. Init => VolumeInv
  <2>1. Init => TypeInv /\ StoreInv
      BY TypeInit, StoreInit
  <2>2. StoreInv => WaitInv
      BY DEF StoreInv, WriterInv, WaitInv, ValuesInv
  <2> QED
      BY <2>1, <2>2 DEF VolumeInv
<1>2. VolumeInv /\ [Next]_vars => VolumeInv'
  <2> SUFFICES ASSUME VolumeInv, [Next]_vars PROVE VolumeInv'
      OBVIOUS
  <2>1. TypeInv /\ WaitInv
      BY DEF VolumeInv
  <2>2. TypeInv' /\ WaitInv'
      BY <2>1, TypeStep, WaitStep
  <2>3. ASSUME mishaps' = {} PROVE StoreInv'
    <3>1. Inv
        BY <2>3, MishapStays DEF VolumeInv, Inv
    <3> QED
        BY <3>1, <2>3, InvStep DEF Inv
  <2> QED
      BY <2>2, <2>3 DEF VolumeInv
<1> QED
    BY <1>1, <1>2, PTL DEF Spec

(* An index entry is a write's own, or what a crash would leave. *)
LEMMA EntryFrom ==
    ASSUME TypeInv, StoreInv, NEW l \in Lba, Mapped(l)
    PROVE  \/ \E w \in Writer : /\ Unsaved(w) /\ l \in Shown(w) /\ l \in Span(w)
                                /\ index[l].blk = write[w].new[l] /\ index[l].csum = write[w].val
           \/ index[l] = RecoveredIndex[l]
<1>1. CASE \E w \in Writer : Unsaved(w) /\ l \in Shown(w)
  <2>1. PICK w \in Writer : Unsaved(w) /\ l \in Shown(w)
      BY <1>1
  <2>2. index[l] = [blk |-> write[w].new[l], csum |-> write[w].val]
      BY <2>1 DEF StoreInv, IndexInv
  <2>3. index[l].blk = write[w].new[l] /\ index[l].csum = write[w].val
      BY ONLY <2>2
  <2>4. l \in Span(w)
      BY <2>1, WriterHas DEF Shown, Span, Active, Progress, Unsaved
  <2> QED
      BY <2>1, <2>3, <2>4
<1>2. CASE ~\E w \in Writer : Unsaved(w) /\ l \in Shown(w)
    BY <1>2 DEF StoreInv, IndexInv
<1> QED
    BY <1>1, <1>2

(* What the runs check of the index. *)
IndexSound ==
    \A l \in Lba : Mapped(l) =>
        /\ index[l].blk \in alloc
        /\ data[index[l].blk] = index[l].csum
        /\ \A k \in Lba \ {l} : index[k].blk # index[l].blk

(* The invariant gives it. *)
LEMMA InvLive == Inv => IndexSound
<1> SUFFICES ASSUME TypeInv, StoreInv, NEW l \in Lba, Mapped(l)
             PROVE  /\ index[l].blk \in alloc
                    /\ data[index[l].blk] = index[l].csum
                    /\ \A k \in Lba \ {l} : index[k].blk # index[l].blk
    BY DEF Inv, IndexSound
<1>1. CASE \E w \in Writer : /\ Unsaved(w) /\ l \in Shown(w) /\ l \in Span(w)
                             /\ index[l].blk = write[w].new[l] /\ index[l].csum = write[w].val
  <2>1. PICK w \in Writer : /\ Unsaved(w) /\ l \in Shown(w) /\ l \in Span(w)
                            /\ index[l].blk = write[w].new[l] /\ index[l].csum = write[w].val
      BY <1>1
  <2>2. write[w].stage # "data"
      BY <2>1, WriterHas DEF Shown, Progress
  <2>3. index[l].blk \in alloc /\ data[index[l].blk] = index[l].csum /\ index[l].blk \notin RecoveredBitmap
      BY <2>1, <2>2 DEF StoreInv, BlockInv
  <2>4. ASSUME NEW k \in Lba \ {l}, index[k].blk = index[l].blk
        PROVE  FALSE
    <3>1. Mapped(k)
        BY <2>4 DEF Mapped
    <3>2. CASE \E v \in Writer : Unsaved(v) /\ k \in Span(v) /\ index[k].blk = write[v].new[k]
      <4>1. PICK v \in Writer : Unsaved(v) /\ k \in Span(v) /\ index[k].blk = write[v].new[k]
          BY <3>2
      <4>2. write[v].new[k] = write[w].new[l] /\ k # l
          BY <4>1, <2>1, <2>4
      <4> QED
          BY <4>1, <4>2, <2>1 DEF StoreInv, BlockInv
    <3>3. CASE index[k] = RecoveredIndex[k]
        BY <3>1, <3>3, <2>3, <2>4 DEF Mapped, StoreInv, RecoveryInv, RecoveredSound
    <3>4. k \in Lba
        OBVIOUS
    <3>5. \/ \E v \in Writer : Unsaved(v) /\ k \in Span(v) /\ index[k].blk = write[v].new[k]
          \/ index[k] = RecoveredIndex[k]
        BY <3>1, <3>4, EntryFrom
    <3> QED
        BY ONLY <3>2, <3>3, <3>5
  <2> QED
      BY <2>3, <2>4
<1>2. CASE index[l] = RecoveredIndex[l]
  <2>1. /\ index[l].blk \in RecoveredBitmap
        /\ data[index[l].blk] = index[l].csum
        /\ \A k \in Lba \ {l} : RecoveredIndex[k].blk # index[l].blk
      BY <1>2 DEF Mapped, StoreInv, RecoveryInv, RecoveredSound
  <2>2. index[l].blk \in alloc
      BY <2>1 DEF StoreInv, FreeInv
  <2>3. ASSUME NEW k \in Lba \ {l}, index[k].blk = index[l].blk
        PROVE  FALSE
    <3>1. Mapped(k)
        BY <2>3 DEF Mapped
    <3>2. CASE \E v \in Writer : Unsaved(v) /\ k \in Span(v) /\ index[k].blk = write[v].new[k]
      <4>1. PICK v \in Writer : Unsaved(v) /\ k \in Span(v) /\ index[k].blk = write[v].new[k]
          BY <3>2
      <4>2. write[v].new[k] \notin RecoveredBitmap
          BY <4>1 DEF StoreInv, BlockInv
      <4> QED
          BY <4>1, <4>2, <2>1, <2>3
    <3>3. CASE index[k] = RecoveredIndex[k]
        BY <3>3, <2>1, <2>3
    <3>4. k \in Lba
        OBVIOUS
    <3>5. \/ \E v \in Writer : Unsaved(v) /\ k \in Span(v) /\ index[k].blk = write[v].new[k]
          \/ index[k] = RecoveredIndex[k]
        BY <3>1, <3>4, EntryFrom
    <3> QED
        BY ONLY <3>2, <3>3, <3>5
  <2> QED
      BY <2>1, <2>2, <2>3
<1> QED
    BY <1>1, <1>2, EntryFrom

(* The same for what backs an index entry. *)
LEMMA InvBacked == Inv => IndexBacked
<1> SUFFICES ASSUME TypeInv, StoreInv, NEW l \in Lba, Mapped(l)
             PROVE  \/ index[l].blk \in bitmap
                    \/ \E w \in Writer : Active(w) /\ write[w].new[l] = index[l].blk
                    \/ \E k \in committed + 1 .. Len(journal) : journal[k].new[l] = index[l].blk
    BY DEF Inv, IndexBacked
<1>1. CASE \E w \in Writer : Unsaved(w) /\ index[l].blk = write[w].new[l]
    BY <1>1 DEF Unsaved
<1>2. CASE index[l] = RecoveredIndex[l]
    BY <1>2 DEF Mapped, StoreInv, RecoveryInv, Uncommitted
<1> QED
    BY <1>1, <1>2, EntryFrom

(* Every index entry is backed by a committed allocation, by the write in    *)
(* progress that made it, or by an entry the commit callback has yet to see, *)
(* failed and rolled back writes included, until the first mishap.           *)
THEOREM IndexBackedCorrect == Spec => []IndexBacked
<1>1. VolumeInv => IndexBacked
    BY InvBacked DEF VolumeInv, Inv, IndexBacked
<1> QED
    BY <1>1, StoreCorrect, PTL

(* A crash at any moment: replaying the journal through on_write yields an   *)
(* index of allocated blocks that hold the data, each for one lba, unless a  *)
(* mishap came before.                                                       *)
THEOREM CrashRecoveryCorrect == Spec => []RecoveryConsistent
<1>1. VolumeInv => RecoveryConsistent
    BY DEF VolumeInv, StoreInv, RecoveryInv, RecoveredSound, RecoveryConsistent
<1> QED
    BY <1>1, StoreCorrect, PTL

(* A write that waits for the journal has one entry there whose commit will  *)
(* complete it (on_write), in every run, mishaps or not.                     *)
THEOREM WaitersCorrect == Spec => []WaiterHasEntry
<1>1. VolumeInv => WaiterHasEntry
    BY WaitersHave DEF VolumeInv
<1> QED
    BY <1>1, StoreCorrect, PTL

-----------------------------------------------------------------------------
(* The volume implements BlockStore *)

(* What a block holds, read off the checksum of the entry that names it. *)
Claimed(e) == IF e.blk = NoBlk THEN 0 ELSE e.csum

(* Under the invariant the data agrees with the checksums, in the index and  *)
(* in what a crash would leave.                                              *)
LEMMA HeldIsClaimed ==
    ASSUME Inv, NEW l \in Lba
    PROVE  Held(index[l]) = Claimed(index[l]) /\ Held(RecoveredIndex[l]) = Claimed(RecoveredIndex[l])
<1>1. IndexSound /\ RecoveredSound
    BY InvLive DEF Inv, StoreInv, RecoveryInv
<1> QED
    BY <1>1 DEF IndexSound, RecoveredSound, Held, Claimed, Mapped

(* A step that leaves the index, what a crash would leave, the writes and    *)
(* the reads as BlockStore sees them.                                        *)
LEMMA ViewSame ==
    ASSUME \A l \in Lba : Held(index[l])' = Held(index[l]),
           \A l \in Lba : Held(RecoveredIndex[l])' = Held(RecoveredIndex[l]),
           \A w \in Writer : PendingOf(w)' = PendingOf(w),
           \A r \in Reader : AnswerOf(r)' = AnswerOf(r)
    PROVE  UNCHANGED Store!vars
BY DEF Store!vars

(* The contents seen by reads and by a crash, after a step that keeps the    *)
(* entries.                                                                  *)
LEMMA ContentSame ==
    ASSUME Inv, Inv'
    PROVE  /\ \A l \in Lba : index'[l] = index[l] => Held(index[l])' = Held(index[l])
           /\ \A l \in Lba : RecoveredIndex'[l] = RecoveredIndex[l]
                  => Held(RecoveredIndex[l])' = Held(RecoveredIndex[l])
<1>1. \A l \in Lba : /\ Held(index[l]) = Claimed(index[l])
                     /\ Held(RecoveredIndex[l]) = Claimed(RecoveredIndex[l])
    BY HeldIsClaimed
<1>2. \A l \in Lba : /\ Held(index[l])' = Claimed(index'[l])
                     /\ Held(RecoveredIndex[l])' = Claimed(RecoveredIndex'[l])
  <2> SUFFICES ASSUME NEW l \in Lba
               PROVE  /\ Held(index[l])' = Claimed(index'[l])
                      /\ Held(RecoveredIndex[l])' = Claimed(RecoveredIndex'[l])
      OBVIOUS
  <2>1. (Held(index[l]) = Claimed(index[l]) /\ Held(RecoveredIndex[l]) = Claimed(RecoveredIndex[l]))'
      BY HeldIsClaimed, PTL
  <2> QED
      BY <2>1 DEF Claimed
<1> QED
    BY <1>1, <1>2

(* The steps of BlockStore, in terms of what the volume's state shows. *)
Others(w) == \A v \in Writer : v # w => PendingOf(v)' = PendingOf(v)
ContentKept == \A l \in Lba : Held(index[l])' = Held(index[l])
DurableKept == \A l \in Lba : Held(RecoveredIndex[l])' = Held(RecoveredIndex[l])
AnswersKept == \A r \in Reader : AnswerOf(r)' = AnswerOf(r)

(* A write begins. *)
LEMMA ViewBegin ==
    ASSUME NEW w \in Writer, ~PendingOf(w).busy, PendingOf(w)' \in Store!Begun, Others(w),
           \A x \in Writer : \A l \in PendingOf(x).lbas : l \notin PendingOf(w)'.lbas,
           ContentKept, DurableKept, AnswersKept
    PROVE  Store!Begin(w)
<1> USE DEF Others, ContentKept, DurableKept, AnswersKept
<1>1. \A x \in Writer : PendingOf(x).lbas \cap PendingOf(w)'.lbas = {}
    OBVIOUS
<1> QED
    BY <1>1 DEF Store!Begin

(* An lba of a write becomes visible. *)
LEMMA ViewShow ==
    ASSUME NEW w \in Writer, NEW l \in Lba, l \in PendingOf(w).lbas \ PendingOf(w).shown,
           PendingOf(w)' = [PendingOf(w) EXCEPT !.shown = PendingOf(w).shown \cup {l}], Others(w),
           Held(index[l])' = PendingOf(w).val,
           \A m \in Lba : m # l => Held(index[m])' = Held(index[m]),
           DurableKept, AnswersKept
    PROVE  Store!Show(w, l)
BY DEF Others, DurableKept, AnswersKept, Store!Show

(* A write becomes durable. *)
LEMMA ViewSave ==
    ASSUME NEW w \in Writer, PendingOf(w).busy, ~PendingOf(w).saved,
           PendingOf(w).shown = PendingOf(w).lbas,
           PendingOf(w)' = [PendingOf(w) EXCEPT !.saved = TRUE], Others(w),
           \A l \in Lba : Held(RecoveredIndex[l])' = IF l \in PendingOf(w).lbas THEN PendingOf(w).val
                                                     ELSE Held(RecoveredIndex[l]),
           ContentKept, AnswersKept
    PROVE  Store!Save(w)
BY DEF Others, ContentKept, AnswersKept, Store!Save

(* A durable write is acknowledged. *)
LEMMA ViewEnd ==
    ASSUME NEW w \in Writer, PendingOf(w)' = Store!NoWrite, Others(w),
           ContentKept, DurableKept, AnswersKept
    PROVE  PendingOf(w).saved => Store!Ack(w)
BY DEF Others, ContentKept, DurableKept, AnswersKept, Store!Ack

(* A write fails, and what it showed is gone. *)
LEMMA ViewFail ==
    ASSUME NEW w \in Writer, PendingOf(w).busy, ~PendingOf(w).saved,
           PendingOf(w)' = Store!NoWrite, Others(w),
           \A l \in Lba : Held(index[l])' = IF l \in PendingOf(w).shown THEN Held(RecoveredIndex[l])
                                            ELSE Held(index[l]),
           DurableKept, AnswersKept
    PROVE  Store!Fail(w)
BY DEF Others, DurableKept, AnswersKept, Store!Fail

(* A read looks the lba up, answers and returns. *)
LEMMA ViewRead ==
    ASSUME NEW r \in Reader, \A p \in Reader : p # r => AnswerOf(p)' = AnswerOf(p),
           \A v \in Writer : PendingOf(v)' = PendingOf(v), ContentKept, DurableKept
    PROVE  /\ \A l \in Lba : /\ AnswerOf(r).stage = "idle"
                             /\ AnswerOf(r)' \in [stage : {"reading", "ok"}, val : {Held(index[l])}]
                             => Store!Look(r, l)
           /\ /\ AnswerOf(r).stage = "reading"
              /\ AnswerOf(r)' \in {[stage |-> "ok", val |-> AnswerOf(r).val],
                                   [stage |-> "error", val |-> 0]}
              => Store!Answer(r)
           /\ AnswerOf(r).stage \in {"ok", "error"} /\ AnswerOf(r)' = Store!NoRead => Store!Return(r)
<1> USE DEF ContentKept, DurableKept
<1>1. \A l \in Lba : /\ AnswerOf(r).stage = "idle"
                     /\ AnswerOf(r)' \in [stage : {"reading", "ok"}, val : {Held(index[l])}]
                     => Store!Look(r, l)
    BY DEF Store!Look
<1>2. /\ AnswerOf(r).stage = "reading"
      /\ AnswerOf(r)' \in {[stage |-> "ok", val |-> AnswerOf(r).val],
                           [stage |-> "error", val |-> 0]}
      => Store!Answer(r)
    BY DEF Store!Answer
<1>3. AnswerOf(r).stage \in {"ok", "error"} /\ AnswerOf(r)' = Store!NoRead => Store!Return(r)
    BY DEF Store!Return
<1> QED
    BY <1>1, <1>2, <1>3

(* A crash. *)
LEMMA ViewCrash ==
    ASSUME \A w \in Writer : PendingOf(w)' = Store!NoWrite,
           \A r \in Reader : AnswerOf(r)' = Store!NoRead,
           \A l \in Lba : Held(index[l])' = Held(RecoveredIndex[l]), DurableKept
    PROVE  Store!Crash
BY DEF DurableKept, Store!Crash

(* What BlockStore sees of a write in progress and of an idle writer. *)
LEMMA PendingFields ==
    ASSUME NEW w \in Writer
    PROVE  /\ Active(w) => /\ PendingOf(w) = [busy |-> TRUE, val |-> write[w].val, lbas |-> Span(w),
                                              shown |-> Shown(w), saved |-> Journaled(w)]
                           /\ PendingOf(w).busy /\ PendingOf(w).val = write[w].val
                           /\ PendingOf(w).lbas = Span(w) /\ PendingOf(w).shown = Shown(w)
                           /\ PendingOf(w).saved <=> Journaled(w)
           /\ ~Active(w) => /\ PendingOf(w) = Store!NoWrite
                            /\ ~PendingOf(w).busy /\ PendingOf(w).lbas = {} /\ ~PendingOf(w).saved
<1>1. Active(w) => PendingOf(w) = [busy |-> TRUE, val |-> write[w].val, lbas |-> Span(w),
                                   shown |-> Shown(w), saved |-> Journaled(w)]
    BY DEF PendingOf, Shown
<1>2. ~Active(w) => PendingOf(w) = Store!NoWrite
    BY DEF PendingOf, Store!NoWrite
<1>3. Store!NoWrite = [busy |-> FALSE, val |-> 0, lbas |-> {}, shown |-> {}, saved |-> FALSE]
    BY DEF Store!NoWrite
<1> QED
    BY <1>1, <1>2, <1>3

(* A step of one writer that appends nothing leaves the others' view. *)
LEMMA OthersView ==
    ASSUME TypeInv, NEW w \in Writer, NEW r, write' = [write EXCEPT ![w] = r], journal' = journal
    PROVE  Others(w)
<1>1. \A v \in Writer : v # w => write'[v] = write[v]
    BY OthersSame
<1>2. ASSUME NEW v \in Writer, v # w
      PROVE  PendingOf(v)' = PendingOf(v)
    BY <1>1, <1>2 DEF PendingOf, Active, Span, Journaled
<1> QED
    BY <1>2 DEF Others

(* What BlockStore sees of reads does not depend on the rest. *)
LEMMA AnswersView ==
    ASSUME read' = read
    PROVE  AnswersKept
BY DEF AnswersKept, AnswerOf

(* WriteAlloc begins a write. *)
LEMMA AllocRefines ==
    ASSUME Inv, Inv', NEW w \in Writer, NEW lo \in Lba, NEW hi \in lo .. MaxLba,
           NEW cut \in lo + 1 .. hi + 1, WriteAlloc(w, lo, hi, cut), mishaps' = {}
    PROVE  Store!Begin(w)
<1>0. TypeInv /\ StoreInv /\ TypeInv' /\ StoreInv'
    BY DEF Inv
<1>1. PICK r \in WriteRecord :
               /\ write' = [write EXCEPT ![w] = r] /\ Progress(r)
               /\ r.stage = "data" /\ r.val = issued + 1 /\ r.lo = lo /\ r.hi = hi /\ r.next = lo
               /\ \A l \in lo .. hi : l \in Lba
    BY <1>0, AllocEffect
<1>2. /\ ~Active(w) /\ issued < MaxWrites
      /\ \A v \in Writer : Active(v) => \A l \in Span(v) : l \notin lo .. hi
      /\ UNCHANGED <<index, bitmap, data, journal, committed, disk, read, crashes>>
    BY DEF WriteAlloc, Mishap
<1>3. write'[w] = r
    BY <1>0, <1>1 DEF TypeInv
<1>4. issued \in Nat /\ lo \in Nat /\ MaxWrites \in Nat
    BY <1>0, BoundAssumption DEF TypeInv, Lba
<1>5. Active(w)' /\ Span(w)' = lo .. hi /\ Shown(w)' = {}
  <2>1. Shown(w)' = lo .. lo - 1
      BY <1>1, <1>3 DEF Shown
  <2>2. lo .. lo - 1 = {}
      BY <1>4
  <2> QED
      BY <1>1, <1>3, <2>1, <2>2 DEF Active, Span
<1>6. ~Journaled(w)'
  <2>1. \A k \in 1 .. Len(journal) : journal[k].val \in 1 .. issued
      BY <1>0 DEF StoreInv, JournalInv
  <2>2. DOMAIN journal' = 1 .. Len(journal) /\ journal' = journal
      BY <1>0, <1>2 DEF TypeInv
  <2> QED
      BY <2>1, <2>2, <1>1, <1>3, <1>4 DEF Journaled
<1>7. PendingOf(w)' = [busy |-> TRUE, val |-> issued + 1, lbas |-> lo .. hi, shown |-> {}, saved |-> FALSE]
  <2>1. (Active(w) => PendingOf(w) = [busy |-> TRUE, val |-> write[w].val, lbas |-> Span(w),
                                      shown |-> Shown(w), saved |-> Journaled(w)])'
      BY PendingFields, PTL
  <2>2. Journaled(w)' = FALSE
      BY <1>6 DEF Journaled
  <2> QED
      BY <2>1, <2>2, <1>1, <1>3, <1>5
<1>8. PendingOf(w)' \in Store!Begun /\ PendingOf(w)'.lbas = lo .. hi
  <2>1. issued + 1 \in Value /\ lo .. hi \in SUBSET Lba
      BY <1>1, <1>2, <1>4 DEF Value
  <2> QED
      BY <2>1, <1>7 DEF Store!Begun
<1>9. \A x \in Writer : \A l \in PendingOf(x).lbas : l \notin PendingOf(w)'.lbas
    BY <1>2, <1>8, PendingFields
<1>10. ~PendingOf(w).busy
    BY <1>2, PendingFields
<1>11. Others(w)
    BY <1>0, <1>1, <1>2, OthersView
<1>12. AnswersKept
    BY <1>2, AnswersView
<1>13. ContentKept /\ DurableKept
    BY <1>2, ContentSame, RecoveredSame DEF ContentKept, DurableKept
<1> QED
    BY <1>8, <1>9, <1>10, <1>11, <1>12, <1>13, ViewBegin

(* A step that only moves a write to its next stage is not visible. *)
LEMMA StageStutters ==
    ASSUME Inv, Inv', NEW w \in Writer, NEW s \in Stage, s # "data", s # "idle",
           write[w].stage # "idle", s \in {"journal", "refused"} => write[w].next > write[w].hi,
           write' = [write EXCEPT ![w].stage = s], UNCHANGED <<index, journal, disk, read>>
    PROVE  UNCHANGED Store!vars
<1>0. TypeInv /\ StoreInv
    BY DEF Inv
<1>1. PICK r \in WriteRecord :
               /\ Progress(r) /\ write' = [write EXCEPT ![w] = r]
               /\ r.stage = s /\ r.val = write[w].val /\ r.lo = write[w].lo
               /\ r.hi = write[w].hi /\ r.new = write[w].new
               /\ r.next = write[w].next /\ r.old = write[w].old
  <2> USE <1>0
  <2> QED
      BY ONLY StageEffect, TypeInv, w \in Writer, s \in Stage, s # "data",
              write[w].stage # "idle", s \in {"journal", "refused"} => write[w].next > write[w].hi,
              write' = [write EXCEPT ![w].stage = s]
<1>2. write'[w] = r
    BY <1>0, <1>1 DEF TypeInv
<1>3. Others(w) /\ AnswersKept
    BY <1>0, <1>1, OthersView, AnswersView
<1>4. PendingOf(w)' = PendingOf(w)
    BY <1>1, <1>2 DEF PendingOf, Active, Span, Journaled
<1>5. ContentKept /\ DurableKept
    BY ContentSame, RecoveredSame DEF ContentKept, DurableKept
<1> QED
    BY <1>3, <1>4, <1>5, ViewSame DEF Others, AnswersKept, ContentKept, DurableKept

(* A write that fails before the journal ends with its lbas restored. *)
LEMMA FailRefines ==
    ASSUME Inv, Inv', NEW w \in Writer, Active(w), write[w].stage # "journal",
           write' = [write EXCEPT ![w] = NoWrite], UNCHANGED <<journal, disk, read>>,
           \A l \in Lba : index'[l] = IF l \in Shown(w) THEN RecoveredIndex[l] ELSE index[l]
    PROVE  Store!Fail(w)
<1>0. TypeInv /\ StoreInv
    BY DEF Inv
<1>1. Others(w) /\ AnswersKept
    BY <1>0, OthersView, AnswersView
<1>2. write'[w] = NoWrite
    BY <1>0 DEF TypeInv
<1>3. PendingOf(w)' = Store!NoWrite
  <2>1. ~Active(w)'
      BY <1>2 DEF Active, NoWrite
  <2>2. (~Active(w) => PendingOf(w) = Store!NoWrite)'
      BY PendingFields, PTL
  <2> QED
      BY <2>1, <2>2 DEF Store!NoWrite
<1>4. ~Journaled(w)
    BY <1>0, NotJournaledYet DEF Unsaved
<1>5. PendingOf(w).busy /\ ~PendingOf(w).saved /\ PendingOf(w).shown = Shown(w)
    BY <1>4, PendingFields
<1>6. DurableKept
    BY ContentSame, RecoveredSame DEF DurableKept
<1>7. ASSUME NEW l \in Lba
      PROVE  Held(index[l])' = IF l \in Shown(w) THEN Held(RecoveredIndex[l]) ELSE Held(index[l])
  <2>1. CASE l \in Shown(w)
    <3>1. index'[l] = RecoveredIndex[l]
        BY <2>1
    <3>2. Held(RecoveredIndex[l]) = Claimed(RecoveredIndex[l])
        BY HeldIsClaimed
    <3>3. (Held(index[l]) = Claimed(index[l]))'
        BY HeldIsClaimed, PTL
    <3>4. Held(index[l])' = Claimed(index'[l])
        BY <3>3 DEF Claimed
    <3> QED
        BY <2>1, <3>1, <3>2, <3>4
  <2>2. CASE l \notin Shown(w)
      BY <2>2, ContentSame
  <2> QED
      BY <2>1, <2>2
<1> QED
    BY <1>1, <1>3, <1>5, <1>6, <1>7, ViewFail

(* A failed data write ends a write that shows nothing. *)
LEMMA DataFailsRefines ==
    ASSUME Inv, Inv', NEW w \in Writer, WriteDataFails(w)
    PROVE  Store!Fail(w)
<1>0. TypeInv
    BY DEF Inv
<1>1. /\ write[w].stage = "data" /\ write' = [write EXCEPT ![w] = NoWrite]
      /\ UNCHANGED <<index, journal, disk, read>>
    BY DEF WriteDataFails, store
<1>2. Active(w) /\ Shown(w) = {}
    BY <1>0, <1>1, WriterHas DEF Shown, Progress, Active
<1> QED
    BY <1>1, <1>2, FailRefines

(* A failed put in the first extent ends a write that is rolled back. *)
LEMMA PutFailsRefines ==
    ASSUME Inv, Inv', NEW w \in Writer, IndexPutFails(w), mishaps' = {}
    PROVE  Store!Fail(w)
<1>0. TypeInv /\ StoreInv
    BY DEF Inv
<1>1. /\ write[w].stage = "index" /\ write' = [write EXCEPT ![w] = NoWrite] /\ Active(w)
      /\ UNCHANGED <<journal, disk, read>>
      /\ \A l \in Lba : index'[l] = IF l \in Shown(w) THEN write[w].old[l] ELSE index[l]
    BY <1>0, RolledBack
<1>2. \A l \in Shown(w) : write[w].old[l] = RecoveredIndex[l]
    BY <1>0, <1>1, NotJournaledYet DEF StoreInv, IndexInv
<1> QED
    BY <1>1, <1>2, FailRefines

(* A put makes one lba of the write visible. *)
LEMMA PutRefines ==
    ASSUME Inv, Inv', NEW w \in Writer, IndexPut(w)
    PROVE  \E l \in Lba : Store!Show(w, l)
<1>0. TypeInv /\ StoreInv
    BY DEF Inv
<1>1. /\ write[w].stage = "index"
      /\ index' = [index EXCEPT ![write[w].next] =
                       [blk |-> write[w].new[write[w].next], csum |-> write[w].val]]
      /\ UNCHANGED <<journal, disk, read>>
    BY DEF IndexPut
<1>2. PICK r \in WriteRecord :
               /\ write' = [write EXCEPT ![w] = r]
               /\ r.stage = "index" /\ r.val = write[w].val /\ r.lo = write[w].lo
               /\ r.hi = write[w].hi /\ r.new = write[w].new
               /\ r.next = write[w].next + 1
               /\ write[w].next \in Span(w) /\ write[w].next \in Lba
    BY <1>0, PutEffect
<1> PICK n \in Lba : n = write[w].next
    BY <1>2
<1>3. Active(w) /\ Unsaved(w)
    BY <1>0, <1>1, NotJournaledYet DEF Active
<1>4. n \in Nat /\ write[w].lo \in Nat /\ write[w].lo <= n /\ n \in Span(w)
    BY <1>0, <1>2, WriterHas, BoundAssumption DEF Lba, Span
<1>5. write'[w] = r
    BY <1>0, <1>2 DEF TypeInv
<1>6. /\ Active(w)' /\ Span(w)' = Span(w) /\ write'[w].val = write[w].val
      /\ Journaled(w)' = Journaled(w)
    BY <1>1, <1>2, <1>5 DEF Active, Span, Journaled
<1>7. n \notin Shown(w) /\ Shown(w)' = Shown(w) \cup {n}
  <2>1. Shown(w) = write[w].lo .. n - 1 /\ Shown(w)' = write[w].lo .. (n + 1) - 1
      BY <1>2, <1>5 DEF Shown
  <2> QED
      BY <1>4, <2>1
<1>8. n \in PendingOf(w).lbas \ PendingOf(w).shown
    BY <1>3, <1>4, <1>7, PendingFields
<1>9. PendingOf(w)' = [PendingOf(w) EXCEPT !.shown = PendingOf(w).shown \cup {n}]
  <2>1. (Active(w) => PendingOf(w) = [busy |-> TRUE, val |-> write[w].val, lbas |-> Span(w),
                                      shown |-> Shown(w), saved |-> Journaled(w)])'
      BY PendingFields, PTL
  <2>2. PendingOf(w)' = [busy |-> TRUE, val |-> write[w].val, lbas |-> Span(w),
                         shown |-> Shown(w) \cup {n}, saved |-> Journaled(w)]
      BY <2>1, <1>6, <1>7
  <2>3. /\ PendingOf(w) = [busy |-> TRUE, val |-> write[w].val, lbas |-> Span(w),
                           shown |-> Shown(w), saved |-> Journaled(w)]
        /\ PendingOf(w).shown = Shown(w)
      BY <1>3, PendingFields
  <2> PICK b, v, t, h, g, j : /\ b = TRUE /\ v = write[w].val /\ t = Span(w) /\ h = Shown(w)
                              /\ g = Shown(w) \cup {n} /\ j = Journaled(w)
      OBVIOUS
  <2>4. PendingOf(w)' = [busy |-> b, val |-> v, lbas |-> t, shown |-> g, saved |-> j]
      BY <2>2
  <2>5. PendingOf(w) = [busy |-> b, val |-> v, lbas |-> t, shown |-> h, saved |-> j]
      BY <2>3
  <2>6. PendingOf(w).shown \cup {n} = g
      BY <2>3
  <2> QED
      BY ONLY <2>4, <2>5, <2>6
<1>10. Others(w) /\ AnswersKept
    BY <1>0, <1>1, <1>2, OthersView, AnswersView
<1>11. DurableKept
    BY <1>1, ContentSame, RecoveredSame DEF DurableKept
<1>12. \A m \in Lba : m # n => Held(index[m])' = Held(index[m])
  <2>1. \A m \in Lba : m # n => index'[m] = index[m]
      BY <1>0, <1>1 DEF TypeInv
  <2> QED
      BY <2>1, ContentSame
<1>13. Held(index[n])' = PendingOf(w).val
  <2>1. index'[n] = [blk |-> write[w].new[n], csum |-> write[w].val]
      BY <1>0, <1>1 DEF TypeInv
  <2>2. index'[n].blk = write[w].new[n] /\ index'[n].csum = write[w].val
      BY ONLY <2>1
  <2>3. write[w].new[n] # NoBlk
      BY <1>0, <1>3, <1>4, WriterHas, NoBlkAssumption DEF Progress, Active, Span
  <2>4. IndexSound'
      BY InvLive, PTL
  <2>5. Mapped(n)'
      BY <2>2, <2>3 DEF Mapped
  <2>6. data'[index'[n].blk] = index'[n].csum
      BY <2>4, <2>5 DEF IndexSound
  <2>7. Held(index[n])' = write[w].val
      BY <2>2, <2>3, <2>6 DEF Held
  <2> QED
      BY <2>7, <1>3, PendingFields
<1>14. Store!Show(w, n)
    BY <1>8, <1>9, <1>10, <1>11, <1>12, <1>13, ViewShow
<1> QED
    BY <1>14

(* The journal entry makes the write durable. *)
LEMMA JournalRefines ==
    ASSUME Inv, Inv', NEW w \in Writer, WriteJournal(w)
    PROVE  Store!Save(w)
<1>0. TypeInv /\ StoreInv
    BY DEF Inv
<1>1. /\ write[w].stage = "index" /\ write[w].next > write[w].hi
      /\ write' = [write EXCEPT ![w].stage = "journal"]
      /\ journal' = Append(journal, EntryOf(w))
      /\ UNCHANGED <<index, disk, read>>
    BY DEF WriteJournal, EntryOf
<1>2. PICK r \in WriteRecord :
               /\ write' = [write EXCEPT ![w] = r]
               /\ r.stage = "journal" /\ r.val = write[w].val /\ r.lo = write[w].lo
               /\ r.hi = write[w].hi /\ r.next = write[w].next
    BY <1>0, <1>1, StageEffect DEF Stage
<1>3. Active(w) /\ Unsaved(w) /\ ~Journaled(w)
    BY <1>0, <1>1, NotJournaledYet DEF Active, Unsaved
<1> PICK e \in JournalEntry :
        /\ e.val = write[w].val /\ e.lo = write[w].lo /\ e.hi = write[w].hi
        /\ e.new = write[w].new /\ journal' = Append(journal, e)
    BY <1>0, <1>1, EntryTyped
<1> PICK n \in Nat : n = Len(journal)
    BY <1>0 DEF TypeInv
<1>4. /\ DOMAIN journal = 1 .. n /\ DOMAIN journal' = 1 .. n + 1
      /\ journal'[n + 1] = e /\ \A k \in 1 .. n : journal'[k] = journal[k]
    BY <1>0 DEF TypeInv
<1>5. write'[w] = r /\ \A v \in Writer : v # w => write'[v] = write[v]
    BY <1>0, <1>2 DEF TypeInv
<1>6. Active(w)' /\ Span(w)' = Span(w) /\ Shown(w)' = Shown(w) /\ write'[w].val = write[w].val
    BY <1>2, <1>5 DEF Active, Span, Shown
<1>7. Journaled(w)' = TRUE
    BY <1>2, <1>4, <1>5 DEF Journaled
<1>8. Others(w)
  <2>1. ASSUME NEW v \in Writer, v # w, Active(v)
        PROVE  Journaled(v)' = Journaled(v)
    <3>1. write[v].val # e.val
        BY <1>0, <1>3, <2>1 DEF StoreInv, WriterInv
    <3>2. Journaled(v)' <=> Journaled(v)
      <4>1. ASSUME NEW k \in 1 .. n + 1, journal'[k].val = write'[v].val
            PROVE  Journaled(v)
        <5>1. k # n + 1
            BY <4>1, <3>1, <2>1, <1>4, <1>5
        <5>2. k \in 1 .. n
            BY <5>1
        <5> QED
            BY <5>2, <4>1, <2>1, <1>4, <1>5 DEF Journaled
      <4>2. ASSUME NEW k \in 1 .. n, journal[k].val = write[v].val
            PROVE  Journaled(v)'
        <5>1. k \in 1 .. n + 1
            OBVIOUS
        <5> QED
            BY <5>1, <4>2, <2>1, <1>4, <1>5 DEF Journaled
      <4> QED
          BY <4>1, <4>2, <1>4 DEF Journaled
    <3> QED
        BY <3>2 DEF Journaled
  <2>2. ASSUME NEW v \in Writer, v # w
        PROVE  PendingOf(v)' = PendingOf(v)
      BY <2>1, <2>2, <1>5 DEF PendingOf, Active, Span
  <2> QED
      BY <2>2 DEF Others
<1>9. PendingOf(w)' = [PendingOf(w) EXCEPT !.saved = TRUE]
  <2>1. (Active(w) => PendingOf(w) = [busy |-> TRUE, val |-> write[w].val, lbas |-> Span(w),
                                      shown |-> Shown(w), saved |-> Journaled(w)])'
      BY PendingFields, PTL
  <2>2. PendingOf(w)' = [busy |-> TRUE, val |-> write[w].val, lbas |-> Span(w),
                         shown |-> Shown(w), saved |-> TRUE]
      BY <2>1, <1>6, <1>7
  <2>3. PendingOf(w) = [busy |-> TRUE, val |-> write[w].val, lbas |-> Span(w),
                        shown |-> Shown(w), saved |-> Journaled(w)]
      BY <1>3, PendingFields
  <2> PICK b, v, t, h, i, j : /\ b = TRUE /\ v = write[w].val /\ t = Span(w) /\ h = Shown(w)
                              /\ i = TRUE /\ j = Journaled(w)
      OBVIOUS
  <2>4. PendingOf(w)' = [busy |-> b, val |-> v, lbas |-> t, shown |-> h, saved |-> i]
      BY <2>2
  <2>5. PendingOf(w) = [busy |-> b, val |-> v, lbas |-> t, shown |-> h, saved |-> j]
      BY <2>3
  <2>6. PendingOf(w)' = [PendingOf(w) EXCEPT !.saved = i]
      BY ONLY <2>4, <2>5
  <2> QED
      BY <2>6
<1>10. Shown(w) = Span(w) /\ Span(w) \subseteq Lba
  <2>1. Progress(write[w]) /\ write[w].lo \in Nat /\ write[w].hi \in Nat /\ Span(w) \subseteq Lba
      BY <1>0, WriterHas
  <2>2. write[w].next = write[w].hi + 1
      BY <2>1, <1>1, <1>3 DEF Progress, Active
  <2>3. write[w].next - 1 = write[w].hi
      BY <2>1, <2>2
  <2> QED
      BY <2>1, <2>3 DEF Shown, Span
<1>11. PendingOf(w).busy /\ ~PendingOf(w).saved /\ PendingOf(w).shown = PendingOf(w).lbas
       /\ PendingOf(w).lbas = Span(w) /\ PendingOf(w).val = write[w].val
    BY <1>3, <1>10, PendingFields
<1>12. AnswersKept
    BY <1>1, AnswersView
<1>13. ContentKept
    BY <1>1, ContentSame DEF ContentKept
<1>14. \A l \in Lba : Held(RecoveredIndex[l])' = IF l \in Span(w) THEN write[w].val
                                                 ELSE Held(RecoveredIndex[l])
  <2>1. /\ \A l \in Lba : l \in Span(w)
                  => RecoveredIndex'[l] = [blk |-> write[w].new[l], csum |-> write[w].val]
        /\ \A l \in Lba : l \notin Span(w) => RecoveredIndex'[l] = RecoveredIndex[l]
    <3>1. disk' = disk
        BY <1>1
    <3> QED
        BY <1>0, <3>1, RecoveredAppend DEF Span
  <2>2. ASSUME NEW l \in Lba, l \in Span(w)
        PROVE  Held(RecoveredIndex[l])' = write[w].val
    <3>1. RecoveredIndex'[l] = [blk |-> write[w].new[l], csum |-> write[w].val]
        BY <2>1, <2>2
    <3>2. RecoveredIndex'[l].blk = write[w].new[l] /\ RecoveredIndex'[l].csum = write[w].val
        BY ONLY <3>1
    <3>3. write[w].new[l] # NoBlk
        BY <2>2, <1>0, <1>3, WriterHas, NoBlkAssumption DEF Progress, Active, Span
    <3>4. RecoveredSound'
        BY DEF Inv, StoreInv, RecoveryInv
    <3>5. data'[RecoveredIndex'[l].blk] = RecoveredIndex'[l].csum
        BY <3>2, <3>3, <3>4 DEF RecoveredSound
    <3> QED
        BY <3>2, <3>3, <3>5 DEF Held
  <2>3. ASSUME NEW l \in Lba, l \notin Span(w)
        PROVE  Held(RecoveredIndex[l])' = Held(RecoveredIndex[l])
      BY <2>1, <2>3, ContentSame
  <2> QED
      BY <2>2, <2>3
<1>15. \A l \in Lba : Held(RecoveredIndex[l])' = IF l \in PendingOf(w).lbas THEN PendingOf(w).val
                                                 ELSE Held(RecoveredIndex[l])
    BY <1>11, <1>14
<1> QED
    BY <1>8, <1>9, <1>11, <1>12, <1>13, <1>15, ViewSave

(* A commit acknowledges the write that waits for its entry. *)
LEMMA CommitRefines ==
    ASSUME Inv, Inv', Commit
    PROVE  \E w \in Writer : Store!Ack(w)
<1>0. TypeInv /\ StoreInv
    BY DEF Inv
<1>1. committed < Len(journal) /\ UNCHANGED <<index, journal, disk, read>>
    BY DEF Commit
<1> PICK c \in 1 .. Len(journal) : c = committed + 1
    BY <1>0, <1>1 DEF TypeInv
<1> PICK e : e = journal[c]
    OBVIOUS
<1>2. c \in Uncommitted
    BY <1>0, <1>1 DEF TypeInv, Uncommitted
<1>3. PICK w \in Writer : Active(w) /\ write[w].val = e.val
    BY <1>0, <1>2 DEF StoreInv, JournalInv
<1>4. write[w].stage = "journal"
    BY <1>0, <1>3 DEF StoreInv, JournalInv
<1>5. \A v \in Writer : v # w /\ write[v].stage = "journal" => write[v].val # e.val
    BY <1>0, <1>3 DEF StoreInv, WriterInv, Active
<1>6. write' = [v \in Writer |-> IF write[v].stage = "journal" /\ write[v].val = e.val
                                 THEN NoWrite ELSE write[v]]
    BY DEF Commit
<1>7. write'[w] = NoWrite /\ \A v \in Writer : v # w => write'[v] = write[v]
    BY <1>3, <1>4, <1>5, <1>6
<1>8. Others(w)
  <2>1. ASSUME NEW v \in Writer, v # w
        PROVE  PendingOf(v)' = PendingOf(v)
      BY <2>1, <1>1, <1>7 DEF PendingOf, Active, Span, Journaled
  <2> QED
      BY <2>1 DEF Others
<1>9. PendingOf(w)' = Store!NoWrite
  <2>1. ~Active(w)'
      BY <1>7 DEF Active, NoWrite
  <2>2. (~Active(w) => PendingOf(w) = Store!NoWrite)'
      BY PendingFields, PTL
  <2> QED
      BY <2>1, <2>2 DEF Store!NoWrite
<1>10. PendingOf(w).saved
  <2>1. c \in DOMAIN journal
      BY <1>0 DEF TypeInv
  <2>2. Journaled(w)
      BY <2>1, <1>3 DEF Journaled
  <2> QED
      BY <2>2, <1>3, PendingFields
<1>11. AnswersKept
    BY <1>1, AnswersView
<1>12. ContentKept /\ DurableKept
    BY <1>1, ContentSame, RecoveredSame DEF ContentKept, DurableKept
<1> QED
    BY <1>8, <1>9, <1>10, <1>11, <1>12, ViewEnd

(* The view of a step of one reader. *)
LEMMA ReaderView ==
    ASSUME Inv, Inv', NEW r \in Reader, NEW q, read' = [read EXCEPT ![r] = q],
           UNCHANGED <<store, write, bounds>>
    PROVE  /\ read'[r] = q /\ \A p \in Reader : p # r => AnswerOf(p)' = AnswerOf(p)
           /\ \A v \in Writer : PendingOf(v)' = PendingOf(v)
           /\ ContentKept /\ DurableKept
<1>0. TypeInv
    BY DEF Inv
<1>1. UNCHANGED <<index, journal, disk, write>>
    BY DEF store
<1>2. read'[r] = q /\ \A p \in Reader : p # r => read'[p] = read[p]
    BY <1>0 DEF TypeInv
<1>3. \A p \in Reader : p # r => AnswerOf(p)' = AnswerOf(p)
    BY <1>2 DEF AnswerOf
<1>4. \A v \in Writer : PendingOf(v)' = PendingOf(v)
    BY <1>1 DEF PendingOf, Active, Span, Journaled
<1>5. ContentKept /\ DurableKept
    BY <1>1, ContentSame, RecoveredSame DEF ContentKept, DurableKept
<1> QED
    BY <1>2, <1>3, <1>4, <1>5

(* A read looks one lba up, and takes the checksum of the entry with it. *)
LEMMA ReadIndexRefines ==
    ASSUME Inv, Inv', NEW r \in Reader, NEW l \in Lba, ReadIndex(r, l)
    PROVE  Store!Look(r, l)
<1>0. TypeInv
    BY DEF Inv
<1> PICK st : st = IF index[l].blk = NoBlk THEN "done" ELSE "data"
    OBVIOUS
<1> PICK q : q = [stage |-> st, lba |-> l, at |-> index[l], val |-> 0]
    OBVIOUS
<1>1. read[r].stage = "idle" /\ read' = [read EXCEPT ![r] = q] /\ UNCHANGED <<store, write, bounds>>
    BY DEF ReadIndex
<1>2. /\ read'[r] = q /\ \A p \in Reader : p # r => AnswerOf(p)' = AnswerOf(p)
      /\ \A v \in Writer : PendingOf(v)' = PendingOf(v)
      /\ ContentKept /\ DurableKept
    BY <1>1, ReaderView
<1>3. AnswerOf(r).stage = "idle"
    BY <1>1 DEF AnswerOf
<1>4. Held(index[l]) = Claimed(index[l])
    BY HeldIsClaimed
<1>5. q.stage = st /\ q.at = index[l] /\ q.val = 0
    OBVIOUS
<1>6. CASE index[l].blk = NoBlk
  <2>1. AnswerOf(r)' = [stage |-> "ok", val |-> 0]
      BY <1>2, <1>5, <1>6 DEF AnswerOf
  <2>2. Held(index[l]) = 0
      BY <1>4, <1>6 DEF Claimed
  <2>3. AnswerOf(r)' \in [stage : {"reading", "ok"}, val : {Held(index[l])}]
      BY <2>1, <2>2
  <2> QED
      BY <2>3, <1>2, <1>3, ViewRead
<1>7. CASE index[l].blk # NoBlk
  <2>1. AnswerOf(r)' = [stage |-> "reading", val |-> index[l].csum]
      BY <1>2, <1>5, <1>7 DEF AnswerOf
  <2>2. Held(index[l]) = index[l].csum
      BY <1>4, <1>7 DEF Claimed
  <2>3. AnswerOf(r)' \in [stage : {"reading", "ok"}, val : {Held(index[l])}]
      BY <2>1, <2>2
  <2> QED
      BY <2>3, <1>2, <1>3, ViewRead
<1> QED
    BY <1>6, <1>7

(* It returns the data only if the data has that checksum. *)
LEMMA ReadDataRefines ==
    ASSUME Inv, Inv', NEW r \in Reader, ReadData(r)
    PROVE  Store!Answer(r)
<1>0. TypeInv
    BY DEF Inv
<1> PICK d : d = data[read[r].at.blk]
    OBVIOUS
<1> PICK st : st = IF Verified(r) THEN "done" ELSE "crc mismatch"
    OBVIOUS
<1> PICK p : p = [read[r] EXCEPT !.stage = st]
    OBVIOUS
<1> PICK q : q = [p EXCEPT !.val = d]
    OBVIOUS
<1>1. read[r].stage = "data" /\ read[r] \in ReadRecord
    BY <1>0 DEF ReadData, TypeInv
<1>2. read' = [read EXCEPT ![r] = q] /\ UNCHANGED <<store, write, bounds>>
    BY <1>0 DEF ReadData, TypeInv
<1>3. p.stage = st /\ DOMAIN p = {"stage", "lba", "at", "val"}
    BY <1>1 DEF ReadRecord
<1>4. q.stage = st /\ q.val = d
    BY <1>3
<1>5. /\ read'[r] = q /\ \A x \in Reader : x # r => AnswerOf(x)' = AnswerOf(x)
      /\ \A v \in Writer : PendingOf(v)' = PendingOf(v)
      /\ ContentKept /\ DurableKept
    BY <1>2, ReaderView
<1>6. AnswerOf(r) = [stage |-> "reading", val |-> read[r].at.csum]
    BY <1>1 DEF AnswerOf
<1>7. AnswerOf(r).stage = "reading" /\ AnswerOf(r).val = read[r].at.csum
    BY ONLY <1>6
<1>8. CASE Verified(r)
  <2>1. AnswerOf(r)' = [stage |-> "ok", val |-> d]
      BY <1>4, <1>5, <1>8 DEF AnswerOf
  <2>2. d = AnswerOf(r).val
      BY <1>7, <1>8 DEF Verified
  <2> QED
      BY <2>1, <2>2, <1>5, <1>7, ViewRead
<1>9. CASE ~Verified(r)
  <2>1. AnswerOf(r)' = [stage |-> "error", val |-> 0]
      BY <1>4, <1>5, <1>9 DEF AnswerOf
  <2> QED
      BY <2>1, <1>5, <1>7, ViewRead
<1> QED
    BY <1>8, <1>9

(* And returns. *)
LEMMA ReadReturnRefines ==
    ASSUME Inv, Inv', NEW r \in Reader, ReadReturn(r)
    PROVE  Store!Return(r)
<1>1. /\ read[r].stage \in {"done", "crc mismatch"} /\ read' = [read EXCEPT ![r] = NoRead]
      /\ UNCHANGED <<store, write, bounds>>
    BY DEF ReadReturn
<1>2. /\ read'[r] = NoRead /\ \A x \in Reader : x # r => AnswerOf(x)' = AnswerOf(x)
      /\ \A v \in Writer : PendingOf(v)' = PendingOf(v)
      /\ ContentKept /\ DurableKept
    BY <1>1, ReaderView
<1>3. AnswerOf(r).stage \in {"ok", "error"}
    BY <1>1 DEF AnswerOf
<1>4. AnswerOf(r)' = Store!NoRead
  <2>1. read'[r].stage = "idle"
      BY <1>2 DEF NoRead
  <2> QED
      BY ONLY <2>1 DEF AnswerOf, Store!NoRead
<1> QED
    BY <1>2, <1>3, <1>4, ViewRead

(* A checkpoint is not visible. *)
LEMMA CheckpointStutters ==
    ASSUME Inv, Inv', Checkpoint, mishaps' = {}
    PROVE  UNCHANGED Store!vars
<1>0. TypeInv /\ StoreInv
    BY DEF Inv
<1>1. UNCHANGED <<index, journal, write, read>> /\ RecoveredIndex' = RecoveredIndex
    BY <1>0, CheckpointSame
<1>4. \A l \in Lba : RecoveredIndex'[l] = RecoveredIndex[l] /\ index'[l] = index[l]
    BY <1>1
<1>5. ContentKept /\ DurableKept
    BY <1>4, ContentSame DEF ContentKept, DurableKept
<1>6. \A w \in Writer : PendingOf(w)' = PendingOf(w)
    BY <1>1 DEF PendingOf, Active, Span, Journaled
<1>7. AnswersKept
    BY <1>1, AnswersView
<1> QED
    BY <1>5, <1>6, <1>7, ViewSame DEF ContentKept, DurableKept, AnswersKept

(* A crash leaves the durable contents. *)
LEMMA CrashRefines ==
    ASSUME Inv, Inv', CrashAndRecover
    PROVE  Store!Crash
<1>1. /\ index' = RecoveredIndex /\ write' = [w \in Writer |-> NoWrite]
      /\ read' = [r \in Reader |-> NoRead] /\ UNCHANGED <<data, journal, disk>>
    BY DEF CrashAndRecover
<1>2. \A w \in Writer : PendingOf(w)' = Store!NoWrite
  <2> SUFFICES ASSUME NEW w \in Writer PROVE PendingOf(w)' = Store!NoWrite
      OBVIOUS
  <2>1. ~Active(w)'
      BY <1>1 DEF Active, NoWrite
  <2>2. (~Active(w) => PendingOf(w) = Store!NoWrite)'
      BY PendingFields, PTL
  <2> QED
      BY <2>1, <2>2 DEF Store!NoWrite
<1>3. \A r \in Reader : AnswerOf(r)' = Store!NoRead
    BY <1>1 DEF AnswerOf, NoRead, Store!NoRead
<1>4. \A l \in Lba : Held(index[l])' = Held(RecoveredIndex[l])
    BY <1>1 DEF Held
<1>5. DurableKept
    BY <1>1, ContentSame, RecoveredSame DEF DurableKept
<1> QED
    BY <1>2, <1>3, <1>4, <1>5, ViewCrash

(* Every step that is not a mishap is a step of BlockStore, is not visible   *)
(* there, or is a failed index query of a read.                              *)
LEMMA RefineStep ==
    ASSUME Inv, Inv', [Next]_vars, mishaps' = {}
    PROVE  [Store!Next \/ Misread]_(Store!vars)
<1>1. ASSUME NEW w \in Writer, NEW lo \in Lba, NEW hi \in lo .. MaxLba, NEW cut \in lo + 1 .. hi + 1,
             WriteAlloc(w, lo, hi, cut)
      PROVE  Store!Next
  <2>1. Store!Begin(w)
      BY <1>1, AllocRefines
  <2> QED
      BY <2>1 DEF Store!Next
<1>2. ASSUME UNCHANGED <<index, journal, disk, write, read>>
      PROVE  UNCHANGED Store!vars
  <2>1. ContentKept /\ DurableKept /\ AnswersKept
      BY <1>2, ContentSame, RecoveredSame, AnswersView DEF ContentKept, DurableKept
  <2>2. \A w \in Writer : PendingOf(w)' = PendingOf(w)
      BY <1>2 DEF PendingOf, Active, Span, Journaled
  <2> QED
      BY <2>1, <2>2, ViewSame DEF ContentKept, DurableKept, AnswersKept
<1>3. ASSUME NEW w \in Writer, NEW lo \in Lba, NEW hi \in lo .. MaxLba, WriteNoSpace(w, lo, hi)
      PROVE  UNCHANGED Store!vars
    BY <1>2, <1>3 DEF WriteNoSpace, store
<1>4. ASSUME NEW w \in Writer, WriteData(w)
      PROVE  UNCHANGED Store!vars
  <2>1. /\ write[w].stage # "idle" /\ write' = [write EXCEPT ![w].stage = "index"]
        /\ UNCHANGED <<index, journal, disk, read>>
      BY <1>4 DEF WriteData
  <2> QED
      BY <2>1, StageStutters DEF Stage
<1>5. ASSUME NEW w \in Writer, JournalFails(w)
      PROVE  UNCHANGED Store!vars
  <2>1. /\ write[w].stage # "idle" /\ write' = [write EXCEPT ![w].stage = "refused"]
        /\ write[w].next > write[w].hi /\ UNCHANGED <<index, journal, disk, read>>
      BY <1>5 DEF JournalFails, store
  <2> QED
      BY <2>1, StageStutters DEF Stage
<1>6. ASSUME NEW w \in Writer, WriteDataFails(w) \/ IndexPut(w) \/ IndexPutFails(w) \/ WriteJournal(w)
      PROVE  Store!Next
    BY <1>6, DataFailsRefines, PutRefines, PutFailsRefines, JournalRefines DEF Store!Next
<1>7. ASSUME NEW w \in Writer, WriteStep(w)
      PROVE  [Store!Next]_(Store!vars)
    BY <1>4, <1>5, <1>6, <1>7 DEF WriteStep
<1>8. ASSUME Commit
      PROVE  Store!Next
    BY <1>8, CommitRefines DEF Store!Next
<1>9. ASSUME NEW r \in Reader, ReadData(r) \/ ReadReturn(r) \/ \E l \in Lba : ReadIndex(r, l)
      PROVE  Store!Next
    BY <1>9, ReadIndexRefines, ReadDataRefines, ReadReturnRefines DEF Store!Next
<1>10. ASSUME CrashAndRecover
       PROVE  Store!Next
    BY <1>10, CrashRefines DEF Store!Next
<1>11. ASSUME Checkpoint
       PROVE  UNCHANGED Store!vars
    BY <1>11, CheckpointStutters
<1>12. ASSUME UNCHANGED vars
       PROVE  UNCHANGED Store!vars
    BY <1>2, <1>12 DEF vars
<1> HIDE DEF Store!Next, Store!vars
<1> QED
    BY <1>1, <1>3, <1>7, <1>8, <1>9, <1>10, <1>11, <1>12 DEF Next, Misread

(* The volume is "a crash-consistent block-volume store": the empty volume   *)
(* is an empty BlockStore, and until the first mishap every step of writes,  *)
(* commits, reads, checkpoints and crashes is one of BlockStore's or is not  *)
(* visible there, but for the index query that fails and reports success.    *)
THEOREM BlockStoreRefined == Spec => ImplementsBlockStore
<1>1. Init => Store!Init
  <2> SUFFICES ASSUME Init PROVE Store!Init
      OBVIOUS
  <2>1. TypeInv /\ StoreInv
      BY TypeInit, StoreInit
  <2>2. \A w \in Writer : ~Active(w) /\ ~Unsaved(w)
      BY DEF Init, Active, Unsaved, NoWrite
  <2>3. \A l \in Lba : index[l] = RecoveredIndex[l] /\ Held(index[l]) = 0
      BY <2>1, <2>2 DEF StoreInv, IndexInv, Init, Held, Hole
  <2>4. \A l \in Lba : Held(RecoveredIndex[l]) = 0
      BY <2>3 DEF Held
  <2>5. \A w \in Writer : PendingOf(w) = Store!NoWrite
      BY <2>2, PendingFields
  <2>6. \A r \in Reader : AnswerOf(r) = Store!NoRead
      BY DEF Init, AnswerOf, NoRead, Store!NoRead
  <2> QED
      BY <2>3, <2>4, <2>5, <2>6 DEF Store!Init
<1>2. VolumeInv /\ VolumeInv' /\ [Next]_vars
      => [mishaps' = {} => Store!Next \/ Misread]_(Store!vars)
  <2> SUFFICES ASSUME VolumeInv, VolumeInv', [Next]_vars, mishaps' = {}
               PROVE  [Store!Next \/ Misread]_(Store!vars)
      OBVIOUS
  <2>1. Inv /\ Inv'
      BY MishapStays DEF VolumeInv, Inv
  <2> QED
      BY <2>1, RefineStep
<1> QED
    BY <1>1, <1>2, StoreCorrect, PTL DEF Spec, ImplementsBlockStore

-----------------------------------------------------------------------------
(* Overlapping writes and failing puts, without a crash *)

(* The lbas whose replaced entry a write remembers and may still restore, and *)
(* those whose new block it has yet to put.                                   *)
Replaced(w) == IF write[w].stage = "index" THEN Shown(w) ELSE {}
Awaiting(w) == IF write[w].stage \in {"data", "index"} THEN write[w].next .. write[w].hi ELSE {}

(* What the index names, what a write would restore, what it would put and   *)
(* what a commit will free is allocated, and holds what its checksum says.   *)
IndexLive ==
    \A l \in Lba : Mapped(l) => index[l].blk \in alloc /\ data[index[l].blk] = index[l].csum
OldLive ==
    \A w \in Writer : \A l \in Replaced(w) : write[w].old[l].blk # NoBlk =>
        /\ write[w].old[l].blk \in alloc
        /\ data[write[w].old[l].blk] = write[w].old[l].csum
NewLive ==
    \A w \in Writer : \A l \in Awaiting(w) :
        /\ write[w].new[l] \in alloc
        /\ write[w].stage = "index" => data[write[w].new[l]] = write[w].val
FreedLive == \A j \in Uncommitted : \A b \in journal[j].old : b \in alloc

(* Each of these blocks is in one such place only. *)
IndexOnce == \A k, l \in Lba : Mapped(l) /\ index[k].blk = index[l].blk => k = l
OldNotShown ==
    \A w \in Writer : \A l \in Replaced(w), k \in Lba : Mapped(k) => write[w].old[l].blk # index[k].blk
NewNotShown == \A w \in Writer : \A l \in Awaiting(w), k \in Lba : write[w].new[l] # index[k].blk
FreedNotShown == \A j \in Uncommitted, k \in Lba : index[k].blk \notin journal[j].old
OldOnce ==
    \A w, v \in Writer : \A l \in Replaced(w), m \in Replaced(v) :
        write[w].old[l].blk # NoBlk /\ write[w].old[l].blk = write[v].old[m].blk => w = v /\ l = m
OldNotNew ==
    \A w, v \in Writer : \A l \in Replaced(w), m \in Awaiting(v) : write[w].old[l].blk # write[v].new[m]
OldNotFreed ==
    \A w \in Writer : \A l \in Replaced(w), j \in Uncommitted : write[w].old[l].blk \notin journal[j].old
NewOnce ==
    \A w, v \in Writer : \A l \in Awaiting(w), m \in Awaiting(v) :
        write[w].new[l] = write[v].new[m] => w = v /\ l = m
NewNotFreed ==
    \A w \in Writer : \A l \in Awaiting(w), j \in Uncommitted : write[w].new[l] \notin journal[j].old
FreedOnce == \A i, j \in Uncommitted : i # j => \A b \in journal[i].old : b \notin journal[j].old

OwnersLive == IndexLive /\ OldLive /\ NewLive /\ FreedLive
OneOwner == /\ IndexOnce /\ OldNotShown /\ NewNotShown /\ FreedNotShown
            /\ OldOnce /\ OldNotNew /\ OldNotFreed
            /\ NewOnce /\ NewNotFreed
            /\ FreedOnce
OwnerInv == OwnersLive /\ OneOwner

(* The invariant says what IndexSound does. *)
LEMMA OwnersShown == OwnerInv => IndexSound
<1> SUFFICES ASSUME OwnerInv PROVE IndexSound
    OBVIOUS
<1>1. IndexLive /\ IndexOnce
    BY DEF OwnerInv, OwnersLive, OneOwner
<1> QED
    BY <1>1 DEF IndexSound, IndexLive, IndexOnce

(* The places of a writer are among its lbas. *)
LEMMA PlacesOf ==
    ASSUME TypeInv, NEW w \in Writer
    PROVE  /\ Replaced(w) \subseteq Lba /\ Awaiting(w) \subseteq Lba
           /\ \A l \in Awaiting(w) : write[w].new[l] \in Blk
           /\ \A l \in Replaced(w) : write[w].old[l] \in IndexEntry
           /\ \A l \in Replaced(w) : l \in Nat /\ l < write[w].next
           /\ \A l \in Awaiting(w) : l \in Nat /\ l >= write[w].next
<1>1. /\ write[w].lo \in Nat /\ write[w].hi \in Nat /\ write[w].next \in Int
      /\ write[w].hi <= MaxLba /\ MaxLba \in Nat
      /\ write[w].old \in [Lba -> IndexEntry]
    BY WriterHas, BoundAssumption DEF Lba
<1>2. write[w].stage # "idle" =>
          /\ write[w].lo <= write[w].next /\ write[w].next <= write[w].hi + 1
          /\ \A l \in write[w].lo .. write[w].hi : write[w].new[l] \in Blk
    BY WriterHas DEF Progress
<1>3. ASSUME NEW l \in Replaced(w)
      PROVE  l \in Lba /\ l \in Nat /\ l < write[w].next /\ write[w].old[l] \in IndexEntry
  <2>1. write[w].stage = "index" /\ l \in write[w].lo .. write[w].next - 1
      BY <1>3, Zenon DEF Replaced, Shown
  <2>2. l \in Lba /\ l \in Nat /\ l < write[w].next
      BY <2>1, <1>1, <1>2 DEF Lba
  <2> QED
      BY <2>2, <1>1
<1>4. ASSUME NEW l \in Awaiting(w)
      PROVE  l \in Lba /\ l \in Nat /\ l >= write[w].next /\ write[w].new[l] \in Blk
  <2>1. write[w].stage # "idle" /\ l \in write[w].next .. write[w].hi
      BY <1>4, Zenon DEF Awaiting
  <2>2. l \in Lba /\ l \in Nat /\ l >= write[w].next /\ l \in write[w].lo .. write[w].hi
      BY <2>1, <1>1, <1>2 DEF Lba
  <2> QED
      BY <2>1, <2>2, <1>2
<1> QED
    BY <1>3, <1>4

(* A writer that has not moved keeps its places. *)
LEMMA PlacesSame ==
    ASSUME NEW w, write'[w] = write[w]
    PROVE  Replaced(w)' = Replaced(w) /\ Awaiting(w)' = Awaiting(w)
BY DEF Replaced, Awaiting, Shown

(* Steps that give up places and take none. *)
LEMMA OwnersFewer ==
    ASSUME TypeInv, OwnerInv, UNCHANGED <<index, alloc, data, journal, committed>>,
           \A v \in Writer : \/ write'[v] = write[v]
                             \/ Replaced(v)' = {} /\ Awaiting(v)' = {}
    PROVE  OwnerInv'
<1>1. \A v \in Writer : \A l \in Replaced(v)' : l \in Replaced(v) /\ write'[v] = write[v]
    BY PlacesSame
<1>2. \A v \in Writer : \A l \in Awaiting(v)' : l \in Awaiting(v) /\ write'[v] = write[v]
    BY PlacesSame
<1>3. Uncommitted' = Uncommitted
    BY DEF Uncommitted
<1>4. IndexLive' /\ IndexOnce'
    BY DEF OwnerInv, OwnersLive, OneOwner, IndexLive, IndexOnce, Mapped
<1>5. FreedLive' /\ FreedOnce' /\ FreedNotShown'
    BY <1>3 DEF OwnerInv, OwnersLive, OneOwner, FreedLive, FreedOnce, FreedNotShown
<1>6. OldLive' /\ OldNotShown' /\ OldOnce'
    BY <1>1 DEF OwnerInv, OwnersLive, OneOwner, OldLive, OldNotShown, OldOnce, Mapped
<1>7. OldNotNew' /\ OldNotFreed'
    BY <1>1, <1>2, <1>3 DEF OwnerInv, OneOwner, OldNotNew, OldNotFreed
<1>8. NewLive' /\ NewNotShown'
    BY <1>2 DEF OwnerInv, OwnersLive, OneOwner, NewLive, NewNotShown
<1>9. NewOnce' /\ NewNotFreed'
    BY <1>2, <1>3 DEF OwnerInv, OneOwner, NewOnce, NewNotFreed
<1> QED
    BY <1>4, <1>5, <1>6, <1>7, <1>8, <1>9 DEF OwnerInv, OwnersLive, OneOwner

(* Blocks from the allocator are in no other place. *)
LEMMA AllocOwns ==
    ASSUME TypeInv, OwnerInv, NEW w \in Writer, NEW lo \in Lba, NEW hi \in lo .. MaxLba,
           NEW cut \in lo + 1 .. hi + 1, WriteAlloc(w, lo, hi, cut)
    PROVE  OwnerInv'
<1>1. PICK new \in [lo .. hi -> Blk \ alloc], r \in WriteRecord :
           /\ \A k, l \in lo .. hi : new[k] = new[l] => k = l
           /\ alloc' = alloc \cup {new[l] : l \in lo .. hi}
           /\ write' = [write EXCEPT ![w] = r]
           /\ r.stage = "data" /\ r.val = issued + 1 /\ r.lo = lo /\ r.hi = hi /\ r.next = lo
           /\ \A l \in lo .. hi : r.new[l] = new[l] /\ l \in Lba
    BY AllocEffect
<1>2. UNCHANGED <<index, data, journal, committed>>
    BY DEF WriteAlloc
<1>3. write'[w] = r /\ \A v \in Writer : v # w => write'[v] = write[v]
    BY <1>1, OthersSame
<1>4. Replaced(w)' = {} /\ Awaiting(w)' = lo .. hi
    BY <1>1, <1>3 DEF Replaced, Awaiting
<1>5. \A v \in Writer : \A l \in Replaced(v)' : l \in Replaced(v) /\ write'[v] = write[v]
    BY <1>3, <1>4, PlacesSame
<1>6. \A v \in Writer : \A l \in Awaiting(v)' :
          \/ l \in Awaiting(v) /\ write'[v] = write[v] /\ v # w /\ write'[v].new[l] \in alloc
          \/ v = w /\ l \in lo .. hi /\ write'[v].new[l] = new[l] /\ new[l] \in Blk \ alloc
             /\ write'[v].stage = "data"
  <2> SUFFICES ASSUME NEW v \in Writer, NEW l \in Awaiting(v)'
               PROVE  \/ l \in Awaiting(v) /\ write'[v] = write[v] /\ v # w /\ write'[v].new[l] \in alloc
                      \/ v = w /\ l \in lo .. hi /\ write'[v].new[l] = new[l] /\ new[l] \in Blk \ alloc
                         /\ write'[v].stage = "data"
      OBVIOUS
  <2>1. CASE v = w
    <3>1. l \in lo .. hi
        BY <2>1, <1>4
    <3>2. new[l] \in Blk \ alloc
        BY <3>1, <1>1
    <3>3. r.new[l] = new[l] /\ r.stage = "data" /\ write'[v] = r
        BY <2>1, <3>1, <1>1, <1>3
    <3> QED
        BY <2>1, <3>1, <3>2, <3>3
  <2>2. CASE v # w
    <3>1. write'[v] = write[v]
        BY <2>2, <1>3
    <3>2. l \in Awaiting(v)
        BY <3>1, PlacesSame
    <3> QED
        BY <2>2, <3>1, <3>2 DEF OwnerInv, OwnersLive, NewLive
  <2> QED
      BY <2>1, <2>2
<1>7. Uncommitted' = Uncommitted
    BY <1>2 DEF Uncommitted
<1>8. \A b \in alloc : b \in alloc'
    BY <1>1
<1>9. IndexLive' /\ IndexOnce'
    BY <1>2, <1>8 DEF OwnerInv, OwnersLive, OneOwner, IndexLive, IndexOnce, Mapped
<1>10. FreedLive' /\ FreedOnce' /\ FreedNotShown'
    BY <1>2, <1>7, <1>8 DEF OwnerInv, OwnersLive, OneOwner, FreedLive, FreedOnce, FreedNotShown
<1>11. OldLive' /\ OldNotShown' /\ OldOnce'
    BY <1>2, <1>5, <1>8 DEF OwnerInv, OwnersLive, OneOwner, OldLive, OldNotShown, OldOnce, Mapped
<1>12. OldNotNew'
    BY <1>5, <1>6, NoBlkAssumption DEF OwnerInv, OwnersLive, OneOwner, OldNotNew, OldLive
<1>13. OldNotFreed'
    BY <1>2, <1>5, <1>7 DEF OwnerInv, OneOwner, OldNotFreed
<1>14. NewLive'
    BY <1>1, <1>2, <1>6, <1>8 DEF OwnerInv, OwnersLive, NewLive
<1>15. NewNotShown'
    BY <1>2, <1>6, NoBlkAssumption DEF OwnerInv, OwnersLive, OneOwner, NewNotShown, IndexLive, Mapped
<1>16. NewOnce'
    BY <1>1, <1>6 DEF OwnerInv, OneOwner, NewOnce
<1>17. NewNotFreed'
    BY <1>2, <1>6, <1>7 DEF OwnerInv, OwnersLive, OneOwner, NewNotFreed, FreedLive
<1> QED
    BY <1>9, <1>10, <1>11, <1>12, <1>13, <1>14, <1>15, <1>16, <1>17 DEF OwnerInv, OwnersLive, OneOwner

(* The data goes to blocks that are in no other place. *)
LEMMA DataOwns ==
    ASSUME TypeInv, OwnerInv, NEW w \in Writer, WriteData(w)
    PROVE  OwnerInv'
<1>1. /\ write[w].stage = "data" /\ write' = [write EXCEPT ![w].stage = "index"]
      /\ UNCHANGED <<index, alloc, journal, committed>>
      /\ data' = [b \in Blk |-> IF \E l \in Span(w) : write[w].new[l] = b
                                THEN write[w].val ELSE data[b]]
    BY DEF WriteData
<1>2. PICK r \in WriteRecord :
           /\ write' = [write EXCEPT ![w] = r]
           /\ r.stage = "index" /\ r.val = write[w].val /\ r.lo = write[w].lo
           /\ r.hi = write[w].hi /\ r.new = write[w].new
           /\ r.next = write[w].next /\ r.old = write[w].old
    BY <1>1, StageEffect DEF Stage
<1>3. write'[w] = r /\ \A v \in Writer : v # w => write'[v] = write[v]
    BY <1>2, OthersSame
<1>4. write[w].next = write[w].lo /\ write[w].lo \in Nat /\ write[w].hi \in Nat
    BY <1>1, WriterHas DEF Progress
<1>5. Replaced(w)' = {} /\ Awaiting(w)' = Span(w) /\ Awaiting(w) = Span(w)
    BY <1>1, <1>2, <1>3, <1>4 DEF Replaced, Awaiting, Shown, Span
<1>6. \A v \in Writer : \A l \in Replaced(v)' : l \in Replaced(v) /\ write'[v] = write[v]
    BY <1>3, <1>5, PlacesSame
<1>7. \A v \in Writer : \A l \in Awaiting(v)' :
          /\ l \in Awaiting(v) /\ write'[v].new[l] = write[v].new[l] /\ write'[v].val = write[v].val
          /\ v # w => write'[v] = write[v]
    BY <1>2, <1>3, <1>5, PlacesSame
<1>8. Uncommitted' = Uncommitted
    BY <1>1 DEF Uncommitted
<1>9. \A b \in Blk : (\A l \in Awaiting(w) : write[w].new[l] # b) => data'[b] = data[b]
    BY <1>1, <1>5
<1>10. \A l \in Awaiting(w) : write[w].new[l] \in Blk /\ data'[write[w].new[l]] = write[w].val
    BY <1>1, <1>5, PlacesOf
<1>11. alloc \subseteq Blk
    BY DEF TypeInv
<1>12. IndexLive' /\ IndexOnce'
    BY <1>1, <1>9, <1>11 DEF OwnerInv, OwnersLive, OneOwner, IndexLive, IndexOnce, NewNotShown, Mapped
<1>13. FreedLive' /\ FreedOnce' /\ FreedNotShown'
    BY <1>1, <1>8 DEF OwnerInv, OwnersLive, OneOwner, FreedLive, FreedOnce, FreedNotShown
<1>14. OldLive' /\ OldNotShown' /\ OldOnce'
    BY <1>1, <1>6, <1>9, <1>11
       DEF OwnerInv, OwnersLive, OneOwner, OldLive, OldNotShown, OldOnce, OldNotNew, Mapped
<1>15. OldNotNew' /\ OldNotFreed'
    BY <1>1, <1>6, <1>7, <1>8 DEF OwnerInv, OneOwner, OldNotNew, OldNotFreed
<1>16. NewLive'
  <2> SUFFICES ASSUME NEW v \in Writer, NEW l \in Awaiting(v)'
               PROVE  /\ write'[v].new[l] \in alloc'
                      /\ write'[v].stage = "index" => data'[write'[v].new[l]] = write'[v].val
      BY DEF NewLive
  <2>1. write'[v].new[l] \in alloc'
      BY <1>1, <1>7 DEF OwnerInv, OwnersLive, NewLive
  <2>2. CASE v = w
      BY <2>1, <2>2, <1>7, <1>10
  <2>3. CASE v # w
    <3>1. \A m \in Awaiting(w) : write[w].new[m] # write[v].new[l]
        BY <2>3, <1>7 DEF OwnerInv, OneOwner, NewOnce
    <3>2. data'[write[v].new[l]] = data[write[v].new[l]]
        BY <3>1, <1>7, <1>9, PlacesOf
    <3> QED
        BY <2>1, <2>3, <3>2, <1>7 DEF OwnerInv, OwnersLive, NewLive
  <2> QED
      BY <2>2, <2>3
<1>17. NewNotShown' /\ NewOnce' /\ NewNotFreed'
    BY <1>1, <1>7, <1>8 DEF OwnerInv, OneOwner, NewNotShown, NewOnce, NewNotFreed
<1> QED
    BY <1>12, <1>13, <1>14, <1>15, <1>16, <1>17 DEF OwnerInv, OwnersLive, OneOwner

(* A put: the new block moves to the index, the block replaced to the write. *)
LEMMA PutOwns ==
    ASSUME TypeInv, OwnerInv, NEW w \in Writer, IndexPut(w)
    PROVE  OwnerInv'
<1> PICK n : n = write[w].next
    OBVIOUS
<1> PICK b : b = write[w].new[n]
    OBVIOUS
<1>1. PICK r \in WriteRecord :
           /\ write' = [write EXCEPT ![w] = r]
           /\ r.stage = "index" /\ r.val = write[w].val /\ r.lo = write[w].lo
           /\ r.hi = write[w].hi /\ r.new = write[w].new
           /\ r.next = n + 1 /\ r.old = [write[w].old EXCEPT ![n] = index[n]]
           /\ n \in Span(w) /\ n \in Lba
    BY PutEffect
<1>2. /\ write[w].stage = "index" /\ UNCHANGED <<alloc, data, journal, committed>>
      /\ index' = [index EXCEPT ![n] = [blk |-> b, csum |-> write[w].val]]
    BY DEF IndexPut
<1>3. write'[w] = r /\ \A v \in Writer : v # w => write'[v] = write[v]
    BY <1>1, OthersSame
<1>4. write[w].lo \in Nat /\ write[w].hi \in Nat /\ n \in Nat /\ write[w].lo <= n /\ n <= write[w].hi
    BY <1>1, WriterHas DEF Span, Lba
<1>5. n \in Awaiting(w) /\ b \in Blk /\ b \in alloc /\ data[b] = write[w].val
  <2>1. n \in Awaiting(w)
      BY <1>2, <1>4 DEF Awaiting
  <2> QED
      BY <2>1, <1>2, PlacesOf DEF OwnerInv, OwnersLive, NewLive
<1>6. /\ index'[n].blk = b /\ index'[n].csum = write[w].val
      /\ \A k \in Lba : k # n => index'[k] = index[k]
    BY <1>1, <1>2 DEF TypeInv
<1>7. \A v \in Writer : \A l \in Replaced(v)' :
          \/ v = w /\ l = n /\ write'[v].old[l] = index[n]
          \/ l \in Replaced(v) /\ write'[v].old[l] = write[v].old[l] /\ ~(v = w /\ l = n)
  <2> SUFFICES ASSUME NEW v \in Writer, NEW l \in Replaced(v)'
               PROVE  \/ v = w /\ l = n /\ write'[v].old[l] = index[n]
                      \/ l \in Replaced(v) /\ write'[v].old[l] = write[v].old[l] /\ ~(v = w /\ l = n)
      OBVIOUS
  <2>1. CASE v # w
      BY <2>1, <1>3, PlacesSame
  <2>2. CASE v = w
    <3>1. l \in r.lo .. r.next - 1 /\ write'[v] = r
        BY <2>2, <1>1, <1>3 DEF Replaced, Shown
    <3>2. l = n \/ l \in write[w].lo .. n - 1
        BY <3>1, <1>1, <1>4
    <3>3. CASE l = n
      <4>1. r.old[l] = index[n]
          BY <3>3, <1>1, WriterHas
      <4> QED
          BY <2>2, <3>1, <3>3, <4>1
    <3>4. CASE l \in write[w].lo .. n - 1
      <4>1. l # n /\ l \in Replaced(w)
          BY <3>4, <1>2, <1>4 DEF Replaced, Shown
      <4>2. l \in Lba
          BY <4>1, PlacesOf
      <4>3. r.old[l] = write[w].old[l]
          BY <4>1, <4>2, <1>1, WriterHas
      <4> QED
          BY <2>2, <3>1, <4>1, <4>3
    <3> QED
        BY <3>2, <3>3, <3>4
  <2> QED
      BY <2>1, <2>2
<1>8. \A v \in Writer : \A l \in Awaiting(v)' :
          /\ l \in Awaiting(v) /\ ~(v = w /\ l = n)
          /\ write'[v].new[l] = write[v].new[l] /\ write'[v].val = write[v].val
          /\ write'[v].stage = write[v].stage
  <2> SUFFICES ASSUME NEW v \in Writer, NEW l \in Awaiting(v)'
               PROVE  /\ l \in Awaiting(v) /\ ~(v = w /\ l = n)
                      /\ write'[v].new[l] = write[v].new[l] /\ write'[v].val = write[v].val
                      /\ write'[v].stage = write[v].stage
      OBVIOUS
  <2>1. CASE v # w
      BY <2>1, <1>3, PlacesSame
  <2>2. CASE v = w
    <3>1. l \in n + 1 .. write[w].hi
        BY <2>2, <1>1, <1>3 DEF Awaiting
    <3>2. l # n /\ l \in Awaiting(w)
        BY <3>1, <1>2, <1>4 DEF Awaiting
    <3> QED
        BY <2>2, <3>2, <1>1, <1>2, <1>3
  <2> QED
      BY <2>1, <2>2
<1>9. Uncommitted' = Uncommitted
    BY <1>2 DEF Uncommitted
<1>10. (\A k \in Lba : index[k].blk # b) /\ b # NoBlk
    BY <1>5, NoBlkAssumption DEF OwnerInv, OneOwner, NewNotShown
<1>11. \A j \in Uncommitted : b \notin journal[j].old
    BY <1>5 DEF OwnerInv, OneOwner, NewNotFreed
<1>12. \A v \in Writer : \A l \in Replaced(v) : write[v].old[l].blk # b
    BY <1>5 DEF OwnerInv, OneOwner, OldNotNew
<1>13. \A v \in Writer : \A l \in Awaiting(v) : ~(v = w /\ l = n) => write[v].new[l] # b
    BY <1>5 DEF OwnerInv, OneOwner, NewOnce
<1>14. \A k, l \in Lba : index'[k].blk # NoBlk /\ index'[k].blk = index'[l].blk => k = l
    BY <1>6, <1>10 DEF OwnerInv, OneOwner, IndexOnce, Mapped
<1>15. IndexOnce'
    BY <1>14 DEF IndexOnce, Mapped
<1>16. IndexLive'
    BY <1>2, <1>5, <1>6 DEF OwnerInv, OwnersLive, IndexLive, Mapped
<1>17. FreedLive' /\ FreedOnce'
    BY <1>2, <1>9 DEF OwnerInv, OwnersLive, OneOwner, FreedLive, FreedOnce
<1>18. FreedNotShown'
    BY <1>2, <1>6, <1>9, <1>11 DEF OwnerInv, OneOwner, FreedNotShown
<1>19. OldLive'
    BY <1>1, <1>2, <1>7 DEF OwnerInv, OwnersLive, OldLive, IndexLive, Mapped
<1>20. OldNotShown'
  <2> SUFFICES ASSUME NEW v \in Writer, NEW l \in Replaced(v)', NEW k \in Lba, index'[k].blk # NoBlk
               PROVE  write'[v].old[l].blk # index'[k].blk
      BY DEF OldNotShown, Mapped
  <2>1. CASE v = w /\ l = n /\ write'[v].old[l] = index[n]
    <3>1. CASE k = n
        BY <2>1, <3>1, <1>1, <1>6, <1>10
    <3>2. CASE k # n
        BY <2>1, <3>2, <1>1, <1>6 DEF OwnerInv, OneOwner, IndexOnce, Mapped
    <3> QED
        BY <3>1, <3>2
  <2>2. CASE l \in Replaced(v) /\ write'[v].old[l] = write[v].old[l]
      BY <2>2, <1>6, <1>12 DEF OwnerInv, OneOwner, OldNotShown, Mapped
  <2> QED
      BY <2>1, <2>2, <1>7
<1>21. OldOnce'
  <2> SUFFICES ASSUME NEW u \in Writer, NEW v \in Writer, NEW l \in Replaced(u)', NEW m \in Replaced(v)',
                      write'[u].old[l].blk # NoBlk, write'[u].old[l].blk = write'[v].old[m].blk
               PROVE  u = v /\ l = m
      BY DEF OldOnce
  <2>1. CASE u = w /\ l = n /\ v = w /\ m = n
      BY <2>1
  <2>2. CASE u = w /\ l = n /\ ~(v = w /\ m = n)
    <3>1. write'[u].old[l] = index[n] /\ m \in Replaced(v) /\ write'[v].old[m] = write[v].old[m]
        BY <2>2, <1>7
    <3> QED
        BY <3>1, <1>1 DEF OwnerInv, OneOwner, OldNotShown, Mapped
  <2>3. CASE v = w /\ m = n /\ ~(u = w /\ l = n)
    <3>1. write'[v].old[m] = index[n] /\ l \in Replaced(u) /\ write'[u].old[l] = write[u].old[l]
        BY <2>3, <1>7
    <3> QED
        BY <3>1, <1>1 DEF OwnerInv, OneOwner, OldNotShown, Mapped
  <2>4. CASE ~(u = w /\ l = n) /\ ~(v = w /\ m = n)
    <3>1. /\ l \in Replaced(u) /\ write'[u].old[l] = write[u].old[l]
          /\ m \in Replaced(v) /\ write'[v].old[m] = write[v].old[m]
        BY <2>4, <1>7
    <3> QED
        BY <3>1 DEF OwnerInv, OneOwner, OldOnce
  <2> QED
      BY <2>1, <2>2, <2>3, <2>4
<1>22. OldNotNew'
    BY <1>1, <1>7, <1>8 DEF OwnerInv, OneOwner, OldNotNew, NewNotShown
<1>23. OldNotFreed'
    BY <1>1, <1>2, <1>7, <1>9 DEF OwnerInv, OneOwner, OldNotFreed, FreedNotShown
<1>24. NewLive'
    BY <1>2, <1>8 DEF OwnerInv, OwnersLive, NewLive
<1>25. NewNotShown'
    BY <1>6, <1>8, <1>13 DEF OwnerInv, OneOwner, NewNotShown
<1>26. NewOnce'
    BY <1>8 DEF OwnerInv, OneOwner, NewOnce
<1>27. NewNotFreed'
    BY <1>2, <1>8, <1>9 DEF OwnerInv, OneOwner, NewNotFreed
<1> QED
    BY <1>15, <1>16, <1>17, <1>18, <1>19, <1>20, <1>21, <1>22, <1>23, <1>24, <1>25, <1>26, <1>27
       DEF OwnerInv, OwnersLive, OneOwner

(* A put fails: the blocks of this extent that were replaced move back to    *)
(* the index, from this write only.                                          *)
LEMMA PutFailsOwns ==
    ASSUME TypeInv, OwnerInv, NEW w \in Writer, IndexPutFails(w)
    PROVE  OwnerInv'
<1> PICK S : S = ExtentStart(w) .. write[w].next - 1
    OBVIOUS
<1>1. /\ write[w].stage = "index" /\ UNCHANGED <<alloc, data, journal, committed>>
      /\ index' = [l \in Lba |-> IF l \in S THEN write[w].old[l] ELSE index[l]]
      /\ write' = [write EXCEPT ![w] = NoWrite]
    BY DEF IndexPutFails
<1>2. write'[w] = NoWrite /\ \A v \in Writer : v # w => write'[v] = write[v]
    BY <1>1, OthersSame
<1>3. S \subseteq Replaced(w)
  <2>1. /\ write[w].lo \in Nat /\ write[w].next \in Int /\ write[w].cut \in Int
        /\ write[w].lo <= write[w].cut
      BY <1>1, WriterHas DEF Progress
  <2>2. ExtentStart(w) \in Int /\ write[w].lo <= ExtentStart(w)
      BY <2>1 DEF ExtentStart
  <2>3. S \subseteq write[w].lo .. write[w].next - 1
      BY <2>1, <2>2
  <2> QED
      BY <2>3, <1>1 DEF Replaced, Shown
<1>4. NoWrite.stage = "idle"
    BY DEF NoWrite
<1>5. Replaced(w)' = {} /\ Awaiting(w)' = {}
    BY <1>2, <1>4 DEF Replaced, Awaiting
<1>6. \A v \in Writer : \A l \in Replaced(v)' : l \in Replaced(v) /\ write'[v] = write[v] /\ v # w
    BY <1>2, <1>5, PlacesSame
<1>7. \A v \in Writer : \A l \in Awaiting(v)' : l \in Awaiting(v) /\ write'[v] = write[v]
    BY <1>2, <1>5, PlacesSame
<1>8. Uncommitted' = Uncommitted
    BY <1>1 DEF Uncommitted
<1>9. \A k \in Lba : \/ k \in Replaced(w) /\ index'[k] = write[w].old[k]
                     \/ index'[k] = index[k]
    BY <1>1, <1>3
<1>10. IndexLive'
    BY <1>1, <1>9 DEF OwnerInv, OwnersLive, IndexLive, OldLive, Mapped
<1>11. IndexOnce'
  <2> SUFFICES ASSUME NEW k \in Lba, NEW l \in Lba, index'[l].blk # NoBlk, index'[k].blk = index'[l].blk
               PROVE  k = l
      BY DEF IndexOnce, Mapped
  <2>1. CASE index'[k] = index[k] /\ index'[l] = index[l]
      BY <2>1 DEF OwnerInv, OneOwner, IndexOnce, Mapped
  <2>2. CASE k \in Replaced(w) /\ index'[k] = write[w].old[k] /\ index'[l] = index[l]
      BY <2>2 DEF OwnerInv, OneOwner, OldNotShown, Mapped
  <2>3. CASE l \in Replaced(w) /\ index'[l] = write[w].old[l] /\ index'[k] = index[k]
      BY <2>3 DEF OwnerInv, OneOwner, OldNotShown, Mapped
  <2>4. CASE k \in Replaced(w) /\ index'[k] = write[w].old[k] /\ l \in Replaced(w)
             /\ index'[l] = write[w].old[l]
      BY <2>4 DEF OwnerInv, OneOwner, OldOnce
  <2> QED
      BY <2>1, <2>2, <2>3, <2>4, <1>9
<1>12. FreedLive' /\ FreedOnce'
    BY <1>1, <1>8 DEF OwnerInv, OwnersLive, OneOwner, FreedLive, FreedOnce
<1>13. FreedNotShown'
    BY <1>1, <1>8, <1>9 DEF OwnerInv, OneOwner, FreedNotShown, OldNotFreed
<1>14. OldLive' /\ OldOnce'
    BY <1>1, <1>6 DEF OwnerInv, OwnersLive, OneOwner, OldLive, OldOnce
<1>15. OldNotShown'
    BY <1>6, <1>9 DEF OwnerInv, OneOwner, OldNotShown, OldOnce, Mapped
<1>16. OldNotNew' /\ OldNotFreed'
    BY <1>1, <1>6, <1>7, <1>8 DEF OwnerInv, OneOwner, OldNotNew, OldNotFreed
<1>17. NewLive' /\ NewOnce'
    BY <1>1, <1>7 DEF OwnerInv, OwnersLive, OneOwner, NewLive, NewOnce
<1>18. NewNotShown'
    BY <1>7, <1>9 DEF OwnerInv, OneOwner, NewNotShown, OldNotNew
<1>19. NewNotFreed'
    BY <1>1, <1>7, <1>8 DEF OwnerInv, OneOwner, NewNotFreed
<1> QED
    BY <1>10, <1>11, <1>12, <1>13, <1>14, <1>15, <1>16, <1>17, <1>18, <1>19
       DEF OwnerInv, OwnersLive, OneOwner

(* The journal entry takes over the blocks the write replaced. *)
LEMMA JournalOwns ==
    ASSUME TypeInv, OwnerInv, NEW w \in Writer, WriteJournal(w)
    PROVE  OwnerInv'
<1> PICK n : n = Len(journal) + 1
    OBVIOUS
<1>1. /\ write[w].stage = "index" /\ write[w].next > write[w].hi
      /\ write' = [write EXCEPT ![w].stage = "journal"]
      /\ journal' = Append(journal, EntryOf(w))
      /\ UNCHANGED <<index, alloc, data, committed>>
    BY DEF WriteJournal, EntryOf
<1>2. PICK r \in WriteRecord : write' = [write EXCEPT ![w] = r] /\ r.stage = "journal"
    BY <1>1, StageEffect DEF Stage
<1>3. write'[w] = r /\ \A v \in Writer : v # w => write'[v] = write[v]
    BY <1>2, OthersSame
<1>4. Replaced(w)' = {} /\ Awaiting(w)' = {}
    BY <1>2, <1>3 DEF Replaced, Awaiting
<1>5. \A v \in Writer : \A l \in Replaced(v)' : l \in Replaced(v) /\ write'[v] = write[v] /\ v # w
    BY <1>3, <1>4, PlacesSame
<1>6. \A v \in Writer : \A l \in Awaiting(v)' : l \in Awaiting(v) /\ write'[v] = write[v]
    BY <1>3, <1>4, PlacesSame
<1>7. Span(w) = Replaced(w)
  <2>1. /\ write[w].lo \in Nat /\ write[w].hi \in Nat /\ write[w].next \in Int
        /\ write[w].next <= write[w].hi + 1
      BY <1>1, WriterHas DEF Progress
  <2>2. write[w].next - 1 = write[w].hi
    <3>1. write[w].next > write[w].hi
        BY <1>1
    <3> QED
        BY ONLY <2>1, <3>1
  <2> QED
      BY <2>2, <1>1 DEF Span, Replaced, Shown
<1>8. \A b \in EntryOf(w).old : b # NoBlk /\ \E l \in Replaced(w) : b = write[w].old[l].blk
    BY <1>7, EntryTyped DEF OldBlks
<1>9. /\ Len(journal) \in Nat /\ committed \in Nat /\ committed <= Len(journal)
      /\ Len(journal') = n /\ journal'[n] = EntryOf(w)
      /\ \A j \in 1 .. Len(journal) : journal'[j] = journal[j]
    BY <1>1, EntryTyped DEF TypeInv
<1>10. \A j \in Uncommitted' : \/ j \in Uncommitted /\ journal'[j] = journal[j] /\ j # n
                               \/ j = n /\ journal'[j] = EntryOf(w)
  <2> SUFFICES ASSUME NEW j \in Uncommitted'
               PROVE  \/ j \in Uncommitted /\ journal'[j] = journal[j] /\ j # n
                      \/ j = n /\ journal'[j] = EntryOf(w)
      OBVIOUS
  <2>1. j \in committed + 1 .. n
      BY <1>1, <1>9 DEF Uncommitted
  <2>2. j = n \/ (j \in committed + 1 .. Len(journal) /\ j \in 1 .. Len(journal) /\ j # n)
      BY <2>1, <1>9
  <2> QED
      BY <2>2, <1>9 DEF Uncommitted
<1>11. IndexLive' /\ IndexOnce'
    BY <1>1 DEF OwnerInv, OwnersLive, OneOwner, IndexLive, IndexOnce, Mapped
<1>12. FreedLive'
  <2> SUFFICES ASSUME NEW j \in Uncommitted', NEW b \in journal'[j].old
               PROVE  b \in alloc
      BY <1>1 DEF FreedLive
  <2>1. CASE j \in Uncommitted /\ journal'[j] = journal[j]
      BY <2>1 DEF OwnerInv, OwnersLive, FreedLive
  <2>2. CASE journal'[j] = EntryOf(w)
      BY <2>2, <1>8 DEF OwnerInv, OwnersLive, OldLive
  <2> QED
      BY <2>1, <2>2, <1>10
<1>13. FreedNotShown'
  <2> SUFFICES ASSUME NEW j \in Uncommitted', NEW k \in Lba, index[k].blk \in journal'[j].old
               PROVE  FALSE
      BY <1>1 DEF FreedNotShown
  <2>1. CASE j \in Uncommitted /\ journal'[j] = journal[j]
      BY <2>1 DEF OwnerInv, OneOwner, FreedNotShown
  <2>2. CASE journal'[j] = EntryOf(w)
      BY <2>2, <1>8 DEF OwnerInv, OneOwner, OldNotShown, Mapped
  <2> QED
      BY <2>1, <2>2, <1>10
<1>14. FreedOnce'
  <2> SUFFICES ASSUME NEW i \in Uncommitted', NEW j \in Uncommitted', i # j,
                      NEW b \in journal'[i].old, b \in journal'[j].old
               PROVE  FALSE
      BY DEF FreedOnce
  <2>1. CASE i # n /\ j # n
      BY <2>1, <1>10 DEF OwnerInv, OneOwner, FreedOnce
  <2>2. CASE i = n
      BY <2>2, <1>8, <1>10 DEF OwnerInv, OneOwner, OldNotFreed
  <2>3. CASE j = n
      BY <2>3, <1>8, <1>10 DEF OwnerInv, OneOwner, OldNotFreed
  <2> QED
      BY <2>1, <2>2, <2>3
<1>15. OldLive' /\ OldNotShown' /\ OldOnce'
    BY <1>1, <1>5 DEF OwnerInv, OwnersLive, OneOwner, OldLive, OldNotShown, OldOnce, Mapped
<1>16. OldNotNew'
    BY <1>5, <1>6 DEF OwnerInv, OneOwner, OldNotNew
<1>17. OldNotFreed'
  <2> SUFFICES ASSUME NEW v \in Writer, NEW l \in Replaced(v)', NEW j \in Uncommitted',
                      write'[v].old[l].blk \in journal'[j].old
               PROVE  FALSE
      BY DEF OldNotFreed
  <2>1. CASE j \in Uncommitted /\ journal'[j] = journal[j]
      BY <2>1, <1>5 DEF OwnerInv, OneOwner, OldNotFreed
  <2>2. CASE journal'[j] = EntryOf(w)
      BY <2>2, <1>5, <1>8 DEF OwnerInv, OneOwner, OldOnce
  <2> QED
      BY <2>1, <2>2, <1>10
<1>18. NewLive' /\ NewNotShown' /\ NewOnce'
    BY <1>1, <1>6 DEF OwnerInv, OwnersLive, OneOwner, NewLive, NewNotShown, NewOnce
<1>19. NewNotFreed'
  <2> SUFFICES ASSUME NEW v \in Writer, NEW l \in Awaiting(v)', NEW j \in Uncommitted',
                      write'[v].new[l] \in journal'[j].old
               PROVE  FALSE
      BY DEF NewNotFreed
  <2>1. CASE j \in Uncommitted /\ journal'[j] = journal[j]
      BY <2>1, <1>6 DEF OwnerInv, OneOwner, NewNotFreed
  <2>2. CASE journal'[j] = EntryOf(w)
      BY <2>2, <1>6, <1>8 DEF OwnerInv, OneOwner, OldNotNew
  <2> QED
      BY <2>1, <2>2, <1>10
<1> QED
    BY <1>11, <1>12, <1>13, <1>14, <1>15, <1>16, <1>17, <1>18, <1>19
       DEF OwnerInv, OwnersLive, OneOwner

(* The blocks that on_write frees are in no other place. *)
LEMMA CommitOwns ==
    ASSUME TypeInv, OwnerInv, Commit
    PROVE  OwnerInv'
<1> PICK c : c = committed + 1
    OBVIOUS
<1>1. /\ committed < Len(journal) /\ committed' = c
      /\ UNCHANGED <<index, data, journal>>
      /\ alloc' = alloc \ Freed(journal[c])
      /\ write' = [w \in Writer |-> IF write[w].stage = "journal" /\ write[w].val = journal[c].val
                                    THEN NoWrite ELSE write[w]]
    BY DEF Commit
<1>2. committed \in Nat /\ Len(journal) \in Nat /\ c \in Uncommitted
    BY <1>1 DEF TypeInv, Uncommitted
<1>3. \A j \in Uncommitted' : j \in Uncommitted /\ j # c
    BY <1>1, <1>2 DEF Uncommitted
<1>4. \A b \in alloc : b \notin journal[c].old => b \in alloc'
    BY <1>1 DEF Freed
<1>5. ASSUME NEW v \in Writer
      PROVE  write'[v] = write[v] \/ (Replaced(v)' = {} /\ Awaiting(v)' = {})
  <2>1. CASE write'[v] = NoWrite
    <3>1. write'[v].stage = "idle"
        BY <2>1 DEF NoWrite
    <3> QED
        BY <3>1 DEF Replaced, Awaiting
  <2> QED
      BY <2>1, <1>1
<1>6. \A v \in Writer : \A l \in Replaced(v)' : l \in Replaced(v) /\ write'[v] = write[v]
    BY <1>5, PlacesSame
<1>7. \A v \in Writer : \A l \in Awaiting(v)' : l \in Awaiting(v) /\ write'[v] = write[v]
    BY <1>5, PlacesSame
<1>8. IndexLive' /\ IndexOnce'
    BY <1>1, <1>2, <1>4 DEF OwnerInv, OwnersLive, OneOwner, IndexLive, IndexOnce, FreedNotShown, Mapped
<1>9. FreedLive' /\ FreedOnce' /\ FreedNotShown'
    BY <1>1, <1>2, <1>3, <1>4 DEF OwnerInv, OwnersLive, OneOwner, FreedLive, FreedOnce, FreedNotShown
<1>10. OldLive' /\ OldNotShown' /\ OldOnce'
    BY <1>1, <1>2, <1>4, <1>6
       DEF OwnerInv, OwnersLive, OneOwner, OldLive, OldNotShown, OldOnce, OldNotFreed, Mapped
<1>11. OldNotNew' /\ OldNotFreed'
    BY <1>1, <1>3, <1>6, <1>7 DEF OwnerInv, OneOwner, OldNotNew, OldNotFreed
<1>12. NewLive' /\ NewNotShown'
    BY <1>1, <1>2, <1>4, <1>7 DEF OwnerInv, OwnersLive, OneOwner, NewLive, NewNotShown, NewNotFreed
<1>13. NewOnce' /\ NewNotFreed'
    BY <1>1, <1>3, <1>7 DEF OwnerInv, OneOwner, NewOnce, NewNotFreed
<1> QED
    BY <1>8, <1>9, <1>10, <1>11, <1>12, <1>13 DEF OwnerInv, OwnersLive, OneOwner

(* Every step but a crash keeps each block in one place. *)
LEMMA OwnerStep ==
    ASSUME TypeInv, OwnerInv, [Next]_vars, ~CrashAndRecover
    PROVE  OwnerInv'
<1>1. ASSUME NEW w \in Writer, WriteDataFails(w)
      PROVE  OwnerInv'
  <2>1. UNCHANGED <<index, alloc, data, journal, committed>> /\ write' = [write EXCEPT ![w] = NoWrite]
      BY <1>1 DEF WriteDataFails, store
  <2>2. write'[w] = NoWrite /\ \A v \in Writer : v # w => write'[v] = write[v]
      BY <2>1, OthersSame
  <2>3. Replaced(w)' = {} /\ Awaiting(w)' = {}
      BY <2>2 DEF Replaced, Awaiting, NoWrite
  <2> QED
      BY <2>1, <2>2, <2>3, OwnersFewer
<1>2. ASSUME NEW w \in Writer, JournalFails(w)
      PROVE  OwnerInv'
  <2>1. /\ UNCHANGED <<index, alloc, data, journal, committed>>
        /\ write[w].stage = "index" /\ write[w].next > write[w].hi
        /\ write' = [write EXCEPT ![w].stage = "refused"]
      BY <1>2 DEF JournalFails, store
  <2>2. PICK r \in WriteRecord : write' = [write EXCEPT ![w] = r] /\ r.stage = "refused"
      BY <2>1, StageEffect DEF Stage
  <2>3. write'[w] = r /\ \A v \in Writer : v # w => write'[v] = write[v]
      BY <2>2, OthersSame
  <2>4. Replaced(w)' = {} /\ Awaiting(w)' = {}
      BY <2>2, <2>3 DEF Replaced, Awaiting
  <2> QED
      BY <2>1, <2>3, <2>4, OwnersFewer
<1>3. ASSUME UNCHANGED <<index, alloc, data, journal, committed, write>>
      PROVE  OwnerInv'
    BY <1>3, OwnersFewer
<1>4. ASSUME NEW w \in Writer, NEW lo \in Lba, NEW hi \in lo .. MaxLba, WriteNoSpace(w, lo, hi)
      PROVE  OwnerInv'
    BY <1>3, <1>4 DEF WriteNoSpace, store
<1>5. ASSUME NEW r \in Reader, NEW l \in Lba, ReadIndex(r, l) \/ ReadIndexFails(r, l)
      PROVE  OwnerInv'
    BY <1>3, <1>5 DEF ReadIndex, ReadIndexFails, store
<1>6. ASSUME NEW r \in Reader, ReadData(r) \/ ReadReturn(r)
      PROVE  OwnerInv'
    BY <1>3, <1>6 DEF ReadData, ReadReturn, store
<1>7. CASE Checkpoint
    BY <1>3, <1>7 DEF Checkpoint
<1>8. CASE UNCHANGED vars
    BY <1>3, <1>8 DEF vars
<1> QED
    BY <1>1, <1>2, <1>4, <1>5, <1>6, <1>7, <1>8, AllocOwns, DataOwns, PutOwns, PutFailsOwns,
       JournalOwns, CommitOwns
       DEF Next, WriteStep

(* Initially nothing is in any place. *)
LEMMA OwnerInit == Init => OwnerInv
<1> SUFFICES ASSUME Init PROVE OwnerInv
    OBVIOUS
<1>1. \A l \in Lba : index[l].blk = NoBlk
    BY DEF Init, Hole
<1>2. \A w \in Writer : write[w] = NoWrite /\ write[w].stage = "idle"
    BY DEF Init, NoWrite
<1>3. \A w \in Writer : Replaced(w) = {} /\ Awaiting(w) = {}
    BY <1>2 DEF Replaced, Awaiting
<1>4. Uncommitted = {}
  <2>1. Len(journal) = 0 /\ committed = 0
      BY DEF Init
  <2> QED
      BY <2>1 DEF Uncommitted
<1>5. OwnersLive
    BY <1>1, <1>3, <1>4 DEF OwnersLive, IndexLive, OldLive, NewLive, FreedLive, Mapped
<1>6. OneOwner
    BY <1>1, <1>3, <1>4 DEF OneOwner, IndexOnce, OldNotShown, NewNotShown, FreedNotShown, OldOnce,
       OldNotNew, OldNotFreed, NewOnce, NewNotFreed, FreedOnce, Mapped
<1> QED
    BY <1>5, <1>6 DEF OwnerInv

(* Until the first crash each block is in one place. *)
OwnedInv == TypeInv /\ crashes \in Nat /\ (crashes = 0 => OwnerInv)

(* Until the first crash, whatever writes overlap, wherever checkpoints fall *)
(* and whichever put, data write or journal entry fails, each block is in    *)
(* one place: the index, a write that would put or restore it, or an entry   *)
(* whose commit frees it.                                                    *)
THEOREM OwnersCorrect == Spec => []OwnedInv
<1>1. Init => OwnedInv
    BY TypeInit, OwnerInit DEF Init, OwnedInv
<1>2. OwnedInv /\ [Next]_vars => OwnedInv'
  <2> SUFFICES ASSUME OwnedInv, [Next]_vars
               PROVE  OwnedInv'
      OBVIOUS
  <2>1. TypeInv /\ crashes \in Nat /\ (crashes = 0 => OwnerInv)
      BY DEF OwnedInv
  <2>2. TypeInv'
      BY <2>1, TypeStep
  <2>3. CASE CrashAndRecover
    <3>1. crashes' = crashes + 1
        BY <2>3 DEF CrashAndRecover
    <3>2. crashes' \in Nat /\ crashes' # 0
        BY <2>1, <3>1
    <3> QED
        BY <2>2, <3>2 DEF OwnedInv
  <2>4. CASE ~CrashAndRecover
    <3>1. crashes' = crashes
      <4>1. ASSUME NEW w \in Writer, WriteStep(w)
            PROVE  crashes' = crashes
          BY <4>1 DEF WriteStep, WriteData, WriteDataFails, IndexPut, IndexPutFails, WriteJournal,
             JournalFails, bounds
      <4>2. ASSUME NEW w \in Writer, NEW lo \in Lba, NEW hi \in lo .. MaxLba,
                   \/ WriteNoSpace(w, lo, hi)
                   \/ \E cut \in lo + 1 .. hi + 1 : WriteAlloc(w, lo, hi, cut)
            PROVE  crashes' = crashes
          BY <4>2 DEF WriteNoSpace, WriteAlloc
      <4>3. ASSUME NEW r \in Reader,
                   \/ ReadData(r) \/ ReadReturn(r)
                   \/ \E l \in Lba : ReadIndex(r, l) \/ ReadIndexFails(r, l)
            PROVE  crashes' = crashes
          BY <4>3 DEF ReadData, ReadReturn, ReadIndex, ReadIndexFails, bounds
      <4>4. CASE Commit
          BY <4>4 DEF Commit, bounds
      <4>5. CASE Checkpoint
          BY <4>5 DEF Checkpoint, bounds
      <4>6. CASE UNCHANGED vars
          BY <4>6 DEF vars
      <4> QED
          BY <2>4, <4>1, <4>2, <4>3, <4>4, <4>5, <4>6 DEF Next
    <3>2. crashes = 0 => OwnerInv'
        BY <2>1, <2>4, OwnerStep
    <3> QED
        BY <2>1, <2>2, <3>1, <3>2 DEF OwnedInv
  <2> QED
      BY <2>3, <2>4
<1> QED
    BY <1>1, <1>2, PTL DEF Spec

(* The index never names a free block, a block with other data or a block of *)
(* another lba.  Until the first crash this holds whatever happens:          *)
(* overlapping writes that replace each other's blocks, and rollback_write   *)
(* after a failed put, free nothing the index still refers to (volume.cpp,   *)
(* write_to_index and on_write).  Across crashes it holds until the first    *)
(* mishap.                                                                   *)
THEOREM IndexLiveCorrect == Spec => []IndexBlocksLive
<1>1. OwnedInv /\ VolumeInv => IndexBlocksLive
  <2>1. OwnedInv => (crashes = 0 => IndexSound)
      BY OwnersShown DEF OwnedInv
  <2>2. VolumeInv => (mishaps = {} => IndexSound)
      BY InvLive DEF VolumeInv, Inv
  <2> QED
      BY <2>1, <2>2 DEF IndexSound, IndexBlocksLive
<1> QED
    BY <1>1, OwnersCorrect, StoreCorrect, PTL
=============================================================================
