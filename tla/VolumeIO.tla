-------------------------------- MODULE VolumeIO --------------------------------
(***************************************************************************)
(* The legacy data path of one volume: volume::write (allocate, write the  *)
(* data, update the index, journal), the commit callback on_write, read    *)
(* with checksum verification (volume.cpp, volume_mgr.cpp), on the fixed   *)
(* index table (index_fixed_table.hpp); and the recovery that replays the  *)
(* journal through on_write.                                               *)
(*                                                                         *)
(* A block is atomic, and its contents are the number of the write that    *)
(* filled it; the checksum of a block is taken to identify its contents.   *)
(* HomeStore is external: its index checkpoints, block bitmap and journal  *)
(* are modelled from how this code uses them.                              *)
(***************************************************************************)
EXTENDS Integers, Sequences, FiniteSets, FiniteSetsExt

CONSTANTS
    MaxLba,        \* the lbas are 0 .. MaxLba
    Blk,           \* blocks of the data service
    Writer,        \* writes that may be in progress together
    Reader,        \* reads (of one lba each) in progress together
    MaxWrites,     \* bound on writes issued; the n-th writes the value n
    MaxCrash,      \* bound on crashes
    Faults,        \* what may fail: subset of {"data", "index", "journal"}
    NoBlk

ASSUME BoundAssumption == MaxLba \in Nat /\ MaxWrites \in Nat /\ MaxCrash \in Nat
ASSUME FaultAssumption == Faults \subseteq {"data", "index", "journal"}
ASSUME NoBlkAssumption == NoBlk \notin Blk

VARIABLES
    index,      \* the index table: lba -> block and checksum
    alloc,      \* blocks the allocator will not hand out
    bitmap,     \* blocks allocated by committed journal entries
    data,       \* contents of the blocks
    journal,    \* entries, by lsn
    committed,  \* lsn up to which on_write has run
    disk,       \* last checkpoint: index, bitmap, and the lsn it covers
    write,      \* per writer: the write in progress
    read,       \* per reader: the read in progress and its outcome
    mishaps,    \* history: what has happened that nothing in the code prevents
    issued, crashes   \* bounds used up

vars == <<index, alloc, bitmap, data, journal, committed, disk, write, read, mishaps,
          issued, crashes>>
store == <<index, alloc, bitmap, data, journal, committed, disk>>
bounds == <<issued, crashes>>

Lba == 0 .. MaxLba
Value == 1 .. MaxWrites
Hole == [blk |-> NoBlk, csum |-> 0]
NoWrite == [stage |-> "idle", val |-> 0, lo |-> 0, hi |-> 0, cut |-> 0, next |-> 0,
            new |-> [l \in Lba |-> NoBlk], old |-> [l \in Lba |-> Hole]]
NoRead == [stage |-> "idle", lba |-> 0, at |-> Hole, val |-> 0]

Span(w) == write[w].lo .. write[w].hi
Active(w) == write[w].stage # "idle"

Init ==
    /\ index = [l \in Lba |-> Hole]
    /\ alloc = {} /\ bitmap = {}
    /\ data = [b \in Blk |-> 0]
    /\ journal = <<>> /\ committed = 0
    /\ disk = [index |-> index, bitmap |-> {}, lsn |-> 0]
    /\ write = [w \in Writer |-> NoWrite]
    /\ read = [r \in Reader |-> NoRead]
    /\ mishaps = {}
    /\ issued = 0 /\ crashes = 0

(* The mishaps: "overlap", a write was started over a range that another one *)
(* is writing; "partial", an index put failed and lbas of an earlier extent  *)
(* stayed in the index; "early", a checkpoint persisted index entries of a   *)
(* write that has no journal entry.                                          *)
Mishap(what, happened) == mishaps' = IF happened THEN mishaps \cup {what} ELSE mishaps

-----------------------------------------------------------------------------
(* volume::write *)

(* alloc_blks: one block per lba, in one or two extents (new_blkids); cut is *)
(* the first lba of the second extent.                                       *)
WriteAlloc(w, lo, hi, cut) ==
    /\ ~Active(w)
    /\ issued < MaxWrites
    /\ \E new \in [lo .. hi -> Blk \ alloc] :
           /\ \A k, l \in lo .. hi : new[k] = new[l] => k = l
           /\ alloc' = alloc \cup {new[l] : l \in lo .. hi}
           /\ write' = [write EXCEPT ![w] =
                  [stage |-> "data", val |-> issued + 1, lo |-> lo, hi |-> hi, cut |-> cut,
                   next |-> lo, old |-> [l \in Lba |-> Hole],
                   new |-> [l \in Lba |-> IF l \in lo .. hi THEN new[l] ELSE NoBlk]]]
    /\ issued' = issued + 1
    /\ Mishap("overlap", \E v \in Writer : Active(v) /\ Span(v) \cap (lo .. hi) # {})
    /\ UNCHANGED <<index, bitmap, data, journal, committed, disk, read, crashes>>

WriteNoSpace(w, lo, hi) ==
    /\ ~Active(w)
    /\ issued < MaxWrites
    /\ Cardinality(Blk \ alloc) < hi - lo + 1
    /\ issued' = issued + 1
    /\ UNCHANGED <<store, write, read, mishaps, crashes>>

WriteData(w) ==
    /\ write[w].stage = "data"
    /\ data' = [b \in Blk |-> IF \E l \in Span(w) : write[w].new[l] = b
                              THEN write[w].val ELSE data[b]]
    /\ write' = [write EXCEPT ![w].stage = "index"]
    /\ UNCHANGED <<index, alloc, bitmap, journal, committed, disk, read, mishaps, bounds>>

(* The blocks are not given back. *)
WriteDataFails(w) ==
    /\ "data" \in Faults
    /\ write[w].stage = "data"
    /\ write' = [write EXCEPT ![w] = NoWrite]
    /\ UNCHANGED <<store, read, mishaps, bounds>>

(* write_to_index, one put: the filter callback records the entry replaced. *)
IndexPut(w) ==
    /\ write[w].stage = "index"
    /\ write[w].next <= write[w].hi
    /\ LET l == write[w].next IN
           /\ index' = [index EXCEPT ![l] = [blk |-> write[w].new[l], csum |-> write[w].val]]
           /\ write' = [write EXCEPT ![w].old[l] = index[l], ![w].next = l + 1]
    /\ UNCHANGED <<alloc, bitmap, data, journal, committed, disk, read, mishaps, bounds>>

(* A put fails: rollback_write restores the lbas of this extent that were    *)
(* put, and the write returns INDEX_ERROR.                                   *)
ExtentStart(w) == IF write[w].next < write[w].cut THEN write[w].lo ELSE write[w].cut

(* Mutant: the put is reported and nothing rolled back. *)
IndexPutNoRollback(w) ==
    /\ "index" \in Faults
    /\ write[w].stage = "index"
    /\ write[w].next <= write[w].hi
    /\ write' = [write EXCEPT ![w] = NoWrite]
    /\ Mishap("partial", ExtentStart(w) > write[w].lo)
    /\ UNCHANGED <<store, read, bounds>>

IndexPutFails(w) ==
    /\ "index" \in Faults
    /\ write[w].stage = "index"
    /\ write[w].next <= write[w].hi
    /\ index' = [l \in Lba |-> IF l \in ExtentStart(w) .. write[w].next - 1
                               THEN write[w].old[l] ELSE index[l]]
    /\ write' = [write EXCEPT ![w] = NoWrite]
    /\ Mishap("partial", ExtentStart(w) > write[w].lo)
    /\ UNCHANGED <<alloc, bitmap, data, journal, committed, disk, read, bounds>>

(* async_write_journal: the entry carries the checksums and old blocks. *)
OldBlks(w) == {write[w].old[l].blk : l \in Span(w)} \ {NoBlk}

WriteJournal(w) ==
    /\ write[w].stage = "index"
    /\ write[w].next > write[w].hi
    /\ journal' = Append(journal, [val |-> write[w].val, lo |-> write[w].lo, hi |-> write[w].hi,
                                   new |-> write[w].new, old |-> OldBlks(w)])
    /\ write' = [write EXCEPT ![w].stage = "journal"]
    /\ UNCHANGED <<index, alloc, bitmap, data, committed, disk, read, mishaps, bounds>>

(* The journal refuses the entry: HBListener::on_error does nothing, and     *)
(* nobody completes the write.                                               *)
JournalFails(w) ==
    /\ "journal" \in Faults
    /\ write[w].stage = "index"
    /\ write[w].next > write[w].hi
    /\ write' = [write EXCEPT ![w].stage = "refused"]
    /\ UNCHANGED <<store, read, mishaps, bounds>>

NewOf(e) == {e.new[l] : l \in e.lo .. e.hi}

(* Mutant: the blocks freed are the new ones. *)
FreedNew(e) == NewOf(e) \cap alloc

(* on_commit, in lsn order: the new blocks are allocated for good, on_write  *)
(* frees the old ones that are allocated and completes the write.            *)
Freed(e) == e.old \cap alloc

(* Mutant: the promise is never completed. *)
CommitSilent ==
    /\ committed < Len(journal)
    /\ LET e == journal[committed + 1] IN
           /\ bitmap' = (bitmap \cup NewOf(e)) \ Freed(e)
           /\ alloc' = alloc \ Freed(e)
    /\ committed' = committed + 1
    /\ UNCHANGED <<index, data, journal, disk, write, read, mishaps, bounds>>

Commit ==
    /\ committed < Len(journal)
    /\ LET e == journal[committed + 1] IN
           /\ bitmap' = (bitmap \cup NewOf(e)) \ Freed(e)
           /\ alloc' = alloc \ Freed(e)
           /\ write' = [w \in Writer |-> IF write[w].stage = "journal" /\ write[w].val = e.val
                                         THEN NoWrite ELSE write[w]]
    /\ committed' = committed + 1
    /\ UNCHANGED <<index, data, journal, disk, read, mishaps, bounds>>

-----------------------------------------------------------------------------
(* volume::read *)

ReadIndex(r, l) ==
    /\ read[r].stage = "idle"
    /\ read' = [read EXCEPT ![r] = [stage |-> IF index[l].blk = NoBlk THEN "done" ELSE "data",
                                    lba |-> l, at |-> index[l], val |-> 0]]
    /\ UNCHANGED <<store, write, mishaps, bounds>>

(* The index query fails: the error is logged and success returned.  0 - 1   *)
(* stands for what the caller's buffer held.                                 *)
ReadIndexFails(r, l) ==
    /\ "index" \in Faults
    /\ read[r].stage = "idle"
    /\ read' = [read EXCEPT ![r] = [stage |-> "done", lba |-> l, at |-> Hole, val |-> -1]]
    /\ UNCHANGED <<store, write, mishaps, bounds>>

Verified(r) == data[read[r].at.blk] = read[r].at.csum

ReadData(r) ==
    /\ read[r].stage = "data"
    /\ read' = [read EXCEPT ![r].stage = IF Verified(r) THEN "done" ELSE "crc mismatch",
                            ![r].val = data[read[r].at.blk]]
    /\ UNCHANGED <<store, write, mishaps, bounds>>

ReadReturn(r) ==
    /\ read[r].stage \in {"done", "crc mismatch"}
    /\ read' = [read EXCEPT ![r] = NoRead]
    /\ UNCHANGED <<store, write, mishaps, bounds>>

-----------------------------------------------------------------------------
(* HomeStore's checkpoint persists the index and the bitmap, and covers the  *)
(* journal up to the last commit.  Nothing in volume::write holds it off     *)
(* between the index update and the journal entry.                           *)
Journaled(w) == \E k \in DOMAIN journal : journal[k].val = write[w].val
Unsaved(w) == Active(w) /\ ~Journaled(w)
Shown(w) == write[w].lo .. write[w].next - 1

Checkpoint ==
    /\ disk.lsn < committed \/ disk.index # index
    /\ disk' = [index |-> index, bitmap |-> bitmap, lsn |-> committed]
    /\ Mishap("early", \E w \in Writer : Unsaved(w) /\ Shown(w) # {})
    /\ UNCHANGED <<index, alloc, bitmap, data, journal, committed, write, read, bounds>>

(* Replay: on_write without a context, for every entry after the checkpoint, *)
(* in order: the index entries are written again, the old blocks freed if    *)
(* they are allocated.  The last entry that names an lba or a block decides. *)
Replayed == disk.lsn + 1 .. Len(journal)

(* Mutants: replay does not write the index; it applies only the oldest     *)
(* entry of an lba.                                                          *)
RecoveredIndexOnDisk == disk.index

RecoveredIndexOldest ==
    [l \in Lba |-> LET names == {k \in Replayed : l \in journal[k].lo .. journal[k].hi} IN
        IF names = {} THEN disk.index[l]
        ELSE [blk |-> journal[Min(names)].new[l], csum |-> journal[Min(names)].val]]

RecoveredIndex ==
    [l \in Lba |-> LET names == {k \in Replayed : l \in journal[k].lo .. journal[k].hi} IN
        IF names = {} THEN disk.index[l]
        ELSE [blk |-> journal[Max(names)].new[l], csum |-> journal[Max(names)].val]]

RecoveredBitmap ==
    {b \in Blk : LET names == {k \in Replayed : b \in NewOf(journal[k]) \cup journal[k].old} IN
        IF names = {} THEN b \in disk.bitmap ELSE b \notin journal[Max(names)].old}

CrashAndRecover ==
    /\ crashes < MaxCrash
    /\ crashes' = crashes + 1
    /\ index' = RecoveredIndex
    /\ bitmap' = RecoveredBitmap
    /\ alloc' = RecoveredBitmap
    /\ committed' = Len(journal)
    /\ write' = [w \in Writer |-> NoWrite]
    /\ read' = [r \in Reader |-> NoRead]
    /\ UNCHANGED <<data, journal, disk, mishaps, issued>>

-----------------------------------------------------------------------------
WriteStep(w) ==
    \/ WriteData(w) \/ WriteDataFails(w) \/ IndexPut(w) \/ IndexPutFails(w)
    \/ WriteJournal(w) \/ JournalFails(w)

Next ==
    \/ \E w \in Writer : \/ WriteStep(w)
                         \/ \E lo \in Lba : \E hi \in lo .. MaxLba :
                                \/ \E cut \in lo + 1 .. hi + 1 : WriteAlloc(w, lo, hi, cut)
                                \/ WriteNoSpace(w, lo, hi)
    \/ Commit
    \/ \E r \in Reader : \/ ReadData(r) \/ ReadReturn(r)
                         \/ \E l \in Lba : ReadIndex(r, l) \/ ReadIndexFails(r, l)
    \/ Checkpoint \/ CrashAndRecover

Spec == Init /\ [][Next]_vars

-----------------------------------------------------------------------------
(* Properties *)

Mapped(l) == index[l].blk # NoBlk

(* A block that the index refers to is not free for the next write, holds    *)
(* what its checksum says and belongs to one lba, whatever was freed,        *)
(* reused, rolled back, lost in a crash and replayed: always until the first *)
(* crash, and after it as long as there was no mishap.                       *)
IndexBlocksLive ==
    crashes = 0 \/ mishaps = {} =>
        \A l \in Lba : Mapped(l) =>
            /\ index[l].blk \in alloc
            /\ data[index[l].blk] = index[l].csum
            /\ \A k \in Lba \ {l} : index[k].blk # index[l].blk

(* An index entry is backed by a committed allocation or by the write in     *)
(* progress that made it: write_to_index means to "rollback the lbas for     *)
(* which we have already written to the index table" when it fails, and does *)
(* so for the extent that failed.                                            *)
IndexBacked ==
    mishaps = {} =>
        \A l \in Lba : Mapped(l) =>
            \/ index[l].blk \in bitmap
            \/ \E w \in Writer : Active(w) /\ write[w].new[l] = index[l].blk
            \/ \E k \in committed + 1 .. Len(journal) : journal[k].new[l] = index[l].blk

(* A crash at any point: the recovered index refers only to allocated blocks *)
(* that hold the data, each for one lba ("after recovery there is no index"  *)
(* for a write whose journal entry did not make it), unless an overlapping   *)
(* write, an extent left behind by a failed put or a checkpoint between an   *)
(* index update and its journal entry came before.                           *)
RecoveryConsistent ==
    mishaps = {} =>
        \A l \in Lba : RecoveredIndex[l].blk # NoBlk =>
            /\ RecoveredIndex[l].blk \in RecoveredBitmap
            /\ data[RecoveredIndex[l].blk] = RecoveredIndex[l].csum
            /\ \A k \in Lba \ {l} : RecoveredIndex[k].blk # RecoveredIndex[l].blk

(* "read/write resolve to the byte count transferred or a volume_error": a   *)
(* write that waits for the journal has one entry there, not yet committed,  *)
(* whose on_write will complete it; a write that the journal refused is the  *)
(* only one that nobody completes (HBListener::on_error).                    *)
WaiterHasEntry ==
    \A w \in Writer : write[w].stage = "journal" =>
        Cardinality({k \in committed + 1 .. Len(journal) : journal[k].val = write[w].val}) = 1

(* What a read sees of an lba is the data in the block the index names, and  *)
(* what a crash leaves is the data in the block the recovered index would    *)
(* name, so a block freed or reused too early shows.  A write is durable     *)
(* once its journal entry is; commits and checkpoints are not visible.       *)
Held(e) == IF e.blk = NoBlk THEN 0 ELSE data[e.blk]

PendingOf(w) ==
    IF Active(w)
    THEN [busy |-> TRUE, val |-> write[w].val, lbas |-> Span(w),
          shown |-> write[w].lo .. write[w].next - 1, saved |-> Journaled(w)]
    ELSE [busy |-> FALSE, val |-> 0, lbas |-> {}, shown |-> {}, saved |-> FALSE]

AnswerOf(r) ==
    CASE read[r].stage = "idle" -> [stage |-> "idle", val |-> 0]
      [] read[r].stage = "data" -> [stage |-> "reading", val |-> read[r].at.csum]
      [] read[r].stage = "done" -> [stage |-> "ok", val |-> read[r].val]
      [] read[r].stage = "crc mismatch" -> [stage |-> "error", val |-> 0]

Store == INSTANCE BlockStore WITH
    Blank <- 0,
    content <- [l \in Lba |-> Held(index[l])],
    durable <- [l \in Lba |-> Held(RecoveredIndex[l])],
    pending <- [w \in Writer |-> PendingOf(w)],
    answer <- [r \in Reader |-> AnswerOf(r)]

(* "A crash-consistent block-volume store": as long as there is no mishap,   *)
(* every step of the volume is a step of BlockStore or is invisible there,   *)
(* but for a failed index query, which read reports as success.              *)
Misread == \E r \in Reader, l \in Lba : ReadIndexFails(r, l)

ImplementsBlockStore ==
    Store!Init /\ [][mishaps' = {} => Store!Next \/ Misread]_(Store!vars)
=============================================================================
