------------------------------- MODULE PrefixIndex -------------------------------
(***************************************************************************)
(* The prefix index table, which the build uses unless USE_FIXED_INDEX is  *)
(* set (index_prefix_kv.hpp, index_prefix_table.hpp): how a write of a     *)
(* byte range reaches it extent by extent (volume_mgr.cpp, volume.cpp),    *)
(* how it is journaled, and how the journal is replayed into it.           *)
(*                                                                         *)
(* A key is an lba split into a base and an offset of 32 bits; a value is  *)
(* a 64-bit block id split the same way, and a checksum.  HomeStore stores *)
(* an extent from its first key and value and asks both to shift for the   *)
(* others.  VolumeIO has the concurrency of writes; here they come one     *)
(* after the other, and the numbers keep their (scaled) widths.            *)
(***************************************************************************)
EXTENDS Integers, FiniteSets, Sequences, Functions

CONSTANTS
    U32, U16,    \* 2^32 and 2^16, scaled
    BlkSize,     \* block size in bytes
    Lba,         \* lbas written; around U32 both bases occur
    MaxLen,      \* bound on the blocks of a write
    Chunk, BlkNum,          \* chunk numbers, block numbers in a chunk
    MaxWrites, MaxCrash     \* bounds on writes and crashes

ASSUME WidthAssumption == U32 \in Nat \ {0} /\ U16 \in Nat \ {0, 1} /\ BlkSize \in Nat \ {0}
ASSUME RangeAssumption == Lba \subseteq Nat /\ Chunk \subseteq 0 .. U16 - 1
                          /\ BlkNum \subseteq 0 .. (U32 \div 2) - 1

ASSUME LengthAssumption == MaxLen \in Nat

VARIABLES
    table,     \* the index: key -> value
    bitmap,    \* blocks allocated for good, by the journal entry that took them
    held,      \* blocks allocated by writes without a committed entry
    journal,   \* the log of the solo repl dev
    disk,      \* what the last checkpoint saved
    req,       \* the write in progress
    phase,     \* life of the process
    lsn, put,  \* recovery: the entry being replayed, and how many of its lbas are put
    ref,       \* history: what each lba was last given, as a plain map
    recover,   \* history: ref as of the checkpoint, and after each entry since
    torn,      \* history: a put failed half way in what the table came from
    leak,      \* history: blocks were left allocated, and for how long
    early,     \* history: a checkpoint saved index entries of a write not yet journaled
    writes, crashes    \* bounds used up

store == <<table, bitmap, held, journal, disk>>
replay == <<phase, lsn, put>>
history == <<ref, recover, torn, leak, early>>
bounds == <<writes, crashes>>
vars == <<store, req, replay, history, bounds>>

Empty == [x \in {} |-> x]
Over(f, g) == [x \in DOMAIN f \cup DOMAIN g |-> IF x \in DOMAIN f THEN f[x] ELSE g[x]]
Idle == [stage |-> "idle"]

-----------------------------------------------------------------------------
(* VolumeIndexKey: shift() adds to the offset only. *)
Key(lba) == [base |-> lba \div U32, offset |-> lba % U32]
LbaOf(k) == k.base * U32 + k.offset

KeyShift(k, n) == [k EXCEPT !.offset = (@ + n) % U32]
Distance(k, from) == (k.offset - from.offset) % U32

(* Mutant: the bases are not compared. *)
KeyLessOffset(j, k) == j.offset < k.offset

KeyLess(j, k) == j.base < k.base \/ (j.base = k.base /\ j.offset < k.offset)

(* distance() asserts that the bases agree and the offset does not go back. *)
SameBase(start, end) == Key(start).base = Key(end).base

(* blk_id::to_integer: chunk and count in the upper half, the block number   *)
(* and the multi bit, zero here, in the lower.                               *)
ToInteger(b) == (b.chunk * U16 + b.nblks) * U32 + 2 * b.blk_num

(* VolumeIndexValue *)
IndexValue(b, csum) == [prefix |-> ToInteger(b) \div U32,
                        suffix |-> (ToInteger(b) % U32) \div 2, csum |-> csum]

BlkId(v) == [blk_num |-> v.suffix, nblks |-> v.prefix % U16, chunk |-> v.prefix \div U16]

ValueShift(v, n, info, start) == [prefix |-> v.prefix, suffix |-> (v.suffix + n) % U32,
                                  csum |-> info[start + n].csum]

(* VolumeIndexTable::write_to_index for the n lbas from start: the values,   *)
(* and the old block ids that the filter callback leaves in blocks_info.     *)
RangeKeys(start, n) == {KeyShift(Key(start), i) : i \in 0 .. n - 1}

PutRange(tbl, start, n, info) ==
    LET first == IndexValue(info[start].blk, info[start].csum)
    IN  Over([k \in RangeKeys(start, n) |->
                 ValueShift(first, Distance(k, Key(start)), info, start)], tbl)

Found(tbl, start, n) == {BlkId(tbl[k]) : k \in RangeKeys(start, n) \cap DOMAIN tbl}

(* read_from_index: the entries between two keys, in key order. *)
ReadFromIndex(start, end) ==
    LET in == {k \in DOMAIN table : ~KeyLess(k, Key(start)) /\ ~KeyLess(Key(end), k)}
    IN  [i \in 1 .. Cardinality(in) |->
            LET k == CHOOSE k \in in : Cardinality({j \in in : KeyLess(j, k)}) = i - 1
            IN  [lba |-> LbaOf(k), blk |-> BlkId(table[k]), csum |-> table[k].csum]]

-----------------------------------------------------------------------------
(* A write e, in memory or in a journal entry, has nlbas single blocks from  *)
(* e.lba on: the split of the extents alloc_blks returned, which end at the  *)
(* positions e.ends.  The blocks of an extent are contiguous in a chunk.     *)

Block(c, b) == [blk_num |-> b, nblks |-> 1, chunk |-> c]
AllBlocks == {Block(c, b) : c \in Chunk, b \in BlkNum}

Contiguous(blks, ends) ==
    \A i, j \in DOMAIN blks :
        i <= j /\ (i .. j - 1) \cap ends = {}
            => blks[j] = Block(blks[i].chunk, blks[i].blk_num + j - i)

Allocations(n) ==
    {a \in [blks : Injection(1 .. n, AllBlocks \ (bitmap \cup held)), ends : SUBSET (1 .. n)] :
        n \in a.ends /\ Contiguous(a.blks, a.ends)}

(* The extent that follows the first n blocks ends with block m. *)
IsExtent(e, n, m) == m \in e.ends /\ n < m /\ (n + 1 .. m - 1) \cap e.ends = {}

Lbas(e, n, m) == e.lba + n .. e.lba + m - 1

(* blocks_info, and what it gives the lbas after the first n up to the m-th. *)
Given(e, n, m) == [l \in Lbas(e, n, m) |-> [blk |-> e.blks[l - e.lba + 1],
                                            csum |-> e.csums[l - e.lba + 1]]]
Info(e) == Given(e, 0, e.nlbas)

-----------------------------------------------------------------------------
Init ==
    /\ table = Empty /\ bitmap = {} /\ held = {} /\ journal = << >>
    /\ disk = [table |-> Empty, bitmap |-> {}, lsn |-> 0, torn |-> FALSE]
    /\ req = Idle
    /\ phase = "up" /\ lsn = 0 /\ put = 0
    /\ ref = Empty /\ recover = <<Empty>> /\ torn = FALSE /\ leak = "none" /\ early = FALSE
    /\ writes = 0 /\ crashes = 0

(* async_write and step 1 of volume::write: io_precheck wants address and    *)
(* length on block boundaries, and nothing else (Lba bounds the inputs); the *)
(* checksum of a block stands for its content.                               *)
AsyncWrite(addr, len) ==
    /\ phase = "up" /\ req.stage = "idle"
    /\ addr % BlkSize = 0 /\ len % BlkSize = 0
    /\ (addr + len - 1) \div BlkSize \in Lba
    /\ writes < MaxWrites /\ writes' = writes + 1
    /\ LET first == addr \div BlkSize
           n == (len \div BlkSize) % U32 IN
           \E a \in Allocations(n) :
              /\ held' = held \cup Range(a.blks)
              /\ req' = [stage |-> "data", lba |-> first, nlbas |-> n,
                         blks |-> a.blks, ends |-> a.ends,
                         csums |-> [i \in 1 .. n |-> <<writes', first + i - 1>>],
                         old |-> {}, done |-> 0]
    /\ UNCHANGED <<table, bitmap, journal, disk, replay, history, crashes>>

DataWritten ==
    /\ phase = "up" /\ req.stage = "data"
    /\ req' = [req EXCEPT !.stage = "index"]
    /\ UNCHANGED <<store, replay, history, bounds>>

(* The blocks are not given back; a restart recovers them. *)
LeakUntilRestart == IF leak = "none" THEN "until restart" ELSE leak

DataFails ==
    /\ phase = "up" /\ req.stage = "data"
    /\ req' = Idle /\ leak' = LeakUntilRestart
    /\ UNCHANGED <<store, replay, ref, recover, torn, early, bounds>>

(* The next extent goes into the index: lbas done + 1 to m of the write. *)
PutReady(m) == /\ phase = "up" /\ req.stage = "index"
               /\ IsExtent(req, req.done, m)
InBase(e, n, m) == SameBase(e.lba + n, e.lba + m - 1)

WriteToIndex(m) ==
    /\ PutReady(m) /\ InBase(req, req.done, m)
    /\ table' = PutRange(table, req.lba + req.done, m - req.done, Info(req))
    /\ ref' = Over(Given(req, req.done, m), ref)
    /\ req' = [req EXCEPT !.old = @ \cup Found(table, req.lba + req.done, m - req.done),
                          !.done = m]
    /\ UNCHANGED <<bitmap, held, journal, disk, replay, recover, torn, leak, early, bounds>>

(* The put stops after n keys; what it has put, and what it has replaced,    *)
(* stays as it is, and so do the extents before.  The next write of those    *)
(* keys journals the wrong old blocks, and the right ones are lost for good. *)
WriteToIndexFails(m, n) ==
    /\ PutReady(m) /\ InBase(req, req.done, m)
    /\ n < m - req.done
    /\ table' = PutRange(table, req.lba + req.done, n, Info(req))
    /\ ref' = Over(Given(req, req.done, req.done + n), ref)
    /\ IF n > 0 \/ req.done > 0 THEN torn' = TRUE /\ leak' = "for good"
       ELSE leak' = LeakUntilRestart /\ UNCHANGED torn
    /\ req' = Idle
    /\ UNCHANGED <<bitmap, held, journal, disk, replay, recover, early, bounds>>

(* An extent that spans two bases trips the (debug) assertion of distance(); *)
(* a release build, whose offsets wrap around in the lower base, is not      *)
(* followed.                                                                 *)
WriteToIndexAsserts(m) ==
    /\ PutReady(m) /\ ~InBase(req, req.done, m)
    /\ phase' = "aborted"
    /\ UNCHANGED <<store, req, lsn, put, history, bounds>>

(* Mutant: num_old_blks has half the range. *)
NumOldHalf(n) == n % (U16 \div 2)

NumOld(n) == n % U16        \* static_cast< uint16_t >

(* The old blocks, in the order the hash map yields them. *)
Listings(S) == Surjection(1 .. Cardinality(S), S)

(* async_write_journal: lba, num_old_blks, checksums, the old blocks and the *)
(* new blocks.  Of old blocks that 16 bits cannot count only the remainder   *)
(* will be freed: max_vol_io_size(), which callers are told, is below that,  *)
(* but nothing enforces it.                                                  *)
WriteJournal ==
    /\ phase = "up" /\ req.stage = "index" /\ req.done = req.nlbas
    /\ \E list \in Listings(req.old) :
          journal' = Append(journal, [lba |-> req.lba, nlbas |-> req.nlbas,
                                      num_old |-> NumOld(Cardinality(req.old)),
                                      csums |-> req.csums, old |-> list,
                                      blks |-> req.blks, ends |-> req.ends])
    /\ recover' = Append(recover, Over(Info(req), recover[Len(recover)]))
    /\ leak' = IF Cardinality(req.old) < U16 THEN leak ELSE "for good"
    /\ req' = [req EXCEPT !.stage = "journal"]
    /\ UNCHANGED <<table, bitmap, held, disk, replay, ref, torn, early, bounds>>

(* on_write: the first num_old_blks of the old blocks are freed if they are  *)
(* allocated.                                                                *)
New(e) == Range(e.blks)
Freed(e) == {e.old[i] : i \in 1 .. e.num_old}

Commit ==
    /\ phase = "up" /\ req.stage = "journal"
    /\ LET e == journal[Len(journal)] IN
           /\ bitmap' = (bitmap \cup New(e)) \ Freed(e)
           /\ held' = held \ (New(e) \cup Freed(e))
    /\ req' = Idle
    /\ UNCHANGED <<table, journal, disk, replay, history, bounds>>

(* HomeStore's checkpoint, at any time: nothing in volume::write holds it    *)
(* off.  An entry that is journaled but not committed is left to the replay; *)
(* of a write that is not journaled yet, the index entries are saved and the *)
(* blocks are not.                                                           *)
Checkpoint ==
    /\ phase = "up"
    /\ IF req.stage = "journal"
       THEN /\ disk' = [table |-> table, bitmap |-> bitmap, lsn |-> Len(journal) - 1, torn |-> torn]
            /\ recover' = <<ref, Over(Info(journal[Len(journal)]), ref)>>
       ELSE /\ disk' = [table |-> table, bitmap |-> bitmap, lsn |-> Len(journal), torn |-> torn]
            /\ recover' = <<ref>>
    /\ early' = (early \/ (req.stage = "index" /\ req.done > 0))
    /\ UNCHANGED <<table, bitmap, held, journal, req, replay, ref, torn, leak, bounds>>

(* The process stops, also in the middle of a recovery (where a failing put  *)
(* is an assertion), and starts from the checkpoint.  A crash in a recovery  *)
(* leads back to where that began and does not count.                        *)
Crash ==
    /\ \/ phase = "up" /\ crashes < MaxCrash /\ crashes' = crashes + 1
       \/ phase = "recovering" /\ UNCHANGED crashes
    /\ table' = disk.table /\ bitmap' = disk.bitmap /\ held' = {}
    /\ req' = Idle
    /\ phase' = "recovering" /\ lsn' = disk.lsn + 1 /\ put' = 0
    /\ ref' = recover[Len(recover)] /\ torn' = disk.torn
    /\ leak' = IF leak = "for good" THEN leak ELSE "none"
    /\ UNCHANGED <<journal, disk, recover, early, writes>>

(* on_write without a context, for the entries after the checkpoint: the     *)
(* extents are put one after the other, the checksums taken from the entry   *)
(* over all of them, and what the put finds is ignored.                      *)
ReplayPut(m) ==
    /\ phase = "recovering" /\ lsn <= Len(journal)
    /\ IsExtent(journal[lsn], put, m)
    /\ table' = PutRange(table, journal[lsn].lba + put, m - put, Info(journal[lsn]))
    /\ put' = m
    /\ UNCHANGED <<bitmap, held, journal, disk, req, phase, lsn, history, bounds>>

ReplayFree ==
    /\ phase = "recovering" /\ lsn <= Len(journal)
    /\ put = journal[lsn].nlbas
    /\ bitmap' = (bitmap \cup New(journal[lsn])) \ Freed(journal[lsn])
    /\ lsn' = lsn + 1 /\ put' = 0
    /\ UNCHANGED <<table, held, journal, disk, req, phase, history, bounds>>

Recovered ==
    /\ phase = "recovering" /\ lsn > Len(journal)
    /\ phase' = "up" /\ lsn' = 0
    /\ UNCHANGED <<store, req, put, history, bounds>>

-----------------------------------------------------------------------------
Addresses == UNION {BlkSize * l .. BlkSize * l + BlkSize - 1 : l \in Lba}

Next ==
    \/ \E addr \in Addresses, len \in 1 .. BlkSize * MaxLen :
          AsyncWrite(addr, len)
    \/ DataWritten \/ DataFails
    \/ \E m \in 1 .. MaxLen :
          \/ WriteToIndex(m) \/ WriteToIndexAsserts(m) \/ ReplayPut(m)
          \/ \E n \in 0 .. MaxLen - 1 : WriteToIndexFails(m, n)
    \/ WriteJournal \/ Commit
    \/ Checkpoint \/ Crash \/ ReplayFree \/ Recovered

Spec == Init /\ [][Next]_vars

-----------------------------------------------------------------------------
(* Properties *)

(* The index is a map of lbas: over any range it yields, in the order of the *)
(* lbas, the block and the checksum last given to each, through the splits,  *)
(* the shifts, half-done puts, and replay after a crash.                     *)
LookupAgrees ==
    phase = "up" => \A start \in Lba : \A end \in Lba :
        start <= end =>
            LET got == ReadFromIndex(start, end)
                want == {l \in DOMAIN ref : start <= l /\ l <= end}
            IN  /\ Len(got) = Cardinality(want)
                /\ \A i \in DOMAIN got :
                      LET kv == got[i] IN
                          /\ kv.lba \in want
                          /\ ref[kv.lba] = [blk |-> kv.blk, csum |-> kv.csum]
                          /\ i > 1 => got[i - 1].lba < kv.lba

(* Blocks are neither lost nor given away: a block the index names is        *)
(* allocated, and between writes only those are, now and after a crash at    *)
(* any point.  The exceptions are the code's own.  A put that failed half    *)
(* way, or a checkpoint between the puts of a write and its journal entry,   *)
(* leaves index entries without an allocation (write_to_index undoes         *)
(* nothing, and volume::write does not hold off a checkpoint); a failed      *)
(* write keeps its blocks; and old blocks beyond 16 bits are not freed.      *)
Named == {BlkId(table[k]) : k \in DOMAIN table}

BlocksAccounted ==
    phase = "up" /\ ~torn /\ ~early =>
        /\ Named \subseteq bitmap \cup held
        /\ req.stage = "idle" /\ leak = "none" => bitmap \cup held = Named
=============================================================================
