# TLA+ specification of HomeBlocks

HomeBlocks is a block-volume store on top of HomeStore: it keeps volumes, gives
each a share of the device's chunks, an index table from lbas to blocks and a
journal, and serves reads and writes. A second data path, CRAFT, journals
writes by a client-assigned sequence number (dLSN) on each replica of a
partition. This directory holds TLA+ modules for the parts with state, the TLC
configurations that check them, two abstract specifications that detailed
modules are shown to implement, and TLAPS proofs, for every value of the
constants, of the safety invariants the runs check.

## 1. The system

| Component (source) | State | Operations | Talks to |
|---|---|---|---|
| Volume control plane (`volume_mgr.cpp`, `homeblks_impl.cpp`) | `vol_map_`, `ordinal_reserver_`, `outstanding_reqs_`, shutdown and restricted flags | `create_volume`, `remove_volume`, `do_remove_volume`, `vol_gc`, `shutdown`, `on_vol_meta_blk_found`, `on_init_complete` | worker reactors (posted removals), timers (reaper, shutdown), both chunk selectors |
| HomeBlocks superblock (`homeblks_impl.*`) | `sb_` in memory and on the meta device: graceful and restricted flags, boot count | `init_homestore`, `superblk_init`, `on_hb_meta_blk_found`, `shutdown`, `fault_containment(nullptr)` | HomeStore meta service, shutdown timer, fault containment callback |
| Volume (`volume/volume.cpp`, `.hpp`) | state, superblock, repl dev, index table, outstanding requests, `destroy_started_` | `init`, `destroy`, `state_change`, `write`, `read`, `update_vol_sb_cb` | HomeStore repl, index, data and meta services |
| Fault containment (`homeblks_impl.*`) | volume OFFLINE, instance restricted | `fault_containment`, `exit_fc` | volume superblock |
| `VolumeChunkSelector` | pool per device, slot per ordinal, `resize_op` | `allocate_init_chunks`, `select_chunk`, `resize_volume_num_chunks`, `release_chunks`, `recover_chunks` | HomeStore's block allocator calls it from writes; a worker runs the resize; `update_vol_sb_cb` |
| Commit and replay (`listener.cpp`, `on_write`) | none of its own | `on_commit`, `on_error` | called on the commit thread; completes the write's promise |
| Index table (`index_prefix_*`, the default build, or `index_fixed_*`) | lba to block and checksum | `write_to_index`, `read_from_index`, `rollback_write` | HomeStore btree |
| CRAFT replica (`craft/craft_repl_dev.cpp`) | watermark, commit LSN, term, `missing_lsns_`, `empty_lsns_`, journal | `write`, `truncate`, `fetch_data`, `get_lsns`, the term/commit/verdict mutators | journal backend (log store, data service) |

What is hard here, and what would make each part correct:

* **Control plane.** Creates, removals, IO, timers and shutdown run on
  different threads, and what one checks another changes. Ordinals and chunk
  slots must have one owner; a volume once marked for destruction must go away,
  also across a crash between any two of the steps that remove it; shutdown
  must wait for what is in progress, and must not wait for ever.
* **Superblock.** The flags of one life of the process tell the next how it
  ended. They are changed in memory by two threads, one of them without the
  lock, and reach the disk at two places only. A crash must not look like a
  clean exit, nor restricted mode be forgotten.
* **Chunk selector.** One flag guards the resizes of all volumes, and the check,
  the claim, the posted job and the release are four separate steps. A chunk
  must have one owner in memory and in the superblocks, at every crash point.
* **Data path.** Index, allocator and journal are changed one after another and
  persisted at different times. No block may be named by the index and be free,
  now or after a replay; replay is idempotent; a read that races a free is
  caught by the checksum. The default index packs lbas and block ids into pairs
  of 32-bit words that are shifted separately, and has no rollback.
* **CRAFT.** The watermark is advanced before the append that justifies it, and
  the lock is dropped around the append. What the replica reports as held must
  be durable, and gaps must be accounted for.

`PROJECT.json` lists the hazards one by one, at the lines where they bite, with
the properties that watch them.

## 2. Modules

| Module | Models | Checked by |
|---|---|---|
| `CraftReplDev` | a CRAFT replica: `write` in its pre-flight, allocation, append and post-flight steps, `truncate`, `fetch_data`, term, commit and Empty verdicts | `MCCraftReplDev`, `craft_*.cfg` |
| `SlotLog` | abstract: what a replica promises about the slots of its log | `ImplementsSlotLog` of `CraftReplDev` |
| `CraftReplDevProofs`, `CraftLogProofs` | theorems about `CraftReplDev`: the state of one replica, and its log against `SlotLog` | TLAPS |
| `VolumeLifecycle` | control plane, fault containment, boot | `MCVolumeLifecycle`, `lifecycle_*.cfg` |
| `VolumeLifecycleProofs` | theorems about `VolumeLifecycle` | TLAPS |
| `Superblock` | the HomeBlocks superblock over several lives of the process | `MCSuperblock`, `superblock_*.cfg` |
| `SuperblockProofs` | theorems about `Superblock` | TLAPS |
| `ChunkSelector` | the data chunk selector with its superblock callback | `MCChunkSelector`, `chunks_*.cfg` |
| `ChunkSelectorProofs` | theorems about `ChunkSelector` | TLAPS |
| `VolumeIO` | write, commit, replay, and a read racing them, on the fixed index | `MCVolumeIO`, `io_safety.cfg` |
| `BlockStore` | abstract: what a volume promises its users | `ImplementsBlockStore` of `VolumeIO` |
| `VolumeIOProofs` | theorems about `VolumeIO`, with the refinement | TLAPS |
| `PrefixIndex` | the prefix index with its encodings, from the byte address of a write to the journal and its replay | `MCPrefixIndex`, `prefix_index.cfg` |
| `PrefixIndexProofs` | theorems about `PrefixIndex` | TLAPS |
| `ReadPath` | the buffer arithmetic of one read | `MCReadPath`, `read_buffer.cfg` |
| `ReadPathProofs` | theorems about `ReadPath` | TLAPS |

Conventions. An action is a stretch of code between two points where another
thread can be seen: a lock, a suspension of a coroutine, or a step that becomes
persistent on its own. Variables keep the names of the members they stand for.
A definition headed *Mutant* is a wrong version of the one that follows it, used
to see that a property notices the difference; no specification uses it. Names
in quotation marks in a property's comment are the words of the source the
property comes from.

The models do what the code lets happen, also where that ends badly. Where an
event after which a property no longer holds is possible, the event is recorded
in a history variable and the property says "until then", or excepts the object
the event happened to; the runs reach the event, and the theorems are about
every behaviour. No history variable appears in a guard. Only CRAFT has a switch,
`Serialised`, for the contract its source documents.

| History variable | Event |
|---|---|
| `lost` (`VolumeLifecycle`) | a create refused for want of an ordinal kept its reference |
| `again` | `destroy()` was begun twice on a volume |
| `revived` | fault containment overwrote the DESTROYING state of these volumes |
| `orphans` | the id of these volumes was taken when `create_volume` came to the emplace |
| `overtaken` (`ChunkSelector`) | a removal began during the resize of its own volume |
| `mishaps` (`VolumeIO`) | "overlap": a write began over a range being written; "partial": a failed put left an earlier extent in the index; "early": a checkpoint saved index entries of a write that has no journal entry |
| `indexed` (`ReadPath`) | false once the index failed the query |
| `torn`, `leak`, `early` (`PrefixIndex`) | a put failed half way; blocks stay allocated, until the restart or for good; a checkpoint as in "early" above |

**CraftReplDev.** `pc` and `req` hold the writes in progress, `journal` the slot
store, `allocated` the data blocks. `write` is `WriteMalformed`,
`WriteRejected`, `WriteIdempotent` or `WriteAdmitted` under the lock, then
`AllocData`/`AllocFails`, `SlotDurable`/`SlotRejected`/`CompletionLost`, and
`PostFlightAck`/`PostFlightStale` under the lock again. `truncate` is two steps
with the lock dropped between, `fetch_data` one step per slot classified or
read. `Serialised` is the assumption the code documents: login, which truncates
and changes the term, is not concurrent with writes. Runs and theorems say
whether they need it. int64 is the range `Lsn` with its top value; Guard 1 is
what keeps the arithmetic inside it. The replacement of an existing journal
entry follows the journal of the unit tests.

`SlotLog` knows slots that are absent, held or void, a committed prefix and a
cut. The mapping takes the Empty verdicts as void, what `write` would treat as
an idempotent retry (at or below the watermark and not missing) as held,
`commit_lsn` as the prefix and a `truncate` between its two steps as the cut.
Each append of the replica is one step of `SlotLog`, whatever was admitted,
failed and retried around it; everything else is a stutter. The mapping holds
under `Serialised` only: a write acked between the two steps of a truncate is
otherwise cut off.

**VolumeLifecycle.** A volume object is numbered by the `create_volume` call that
made it; `vol_map` registers objects under ids. `sb`, `index` and `repl` survive
a crash, the rest is rebuilt by `Boot`. A removal is a task: posted,
found, marked, checked, then `destroy()` one persistent step at a time; any number
of removals run beside each other, as on several worker reactors. `phase` follows
the process: up, draining, released, down or crashed, or aborted by an assertion
at boot. A reference kept by a refused create (`lost`) is the one that nobody
gives back. A volume that is `revived` can be ONLINE without a repl dev: a crash
in `destroy()`, a boot, then `exit_fc`. One that is an orphan has a superblock and
no map entry: two creates of one id.

**Superblock.** `sb` is the buffer in memory, `disk` what was last written. A
`set_flag` is a load and a store, so that the one of `shutdown`, which takes no
lock, interleaves with that of fault containment. `log` says whether a replay
would find something. The recurring shutdown timer may fire again between the
promise and its cancellation; the second `set_value` throws and the process is
gone.

**ChunkSelector.** The filled entries of `m_chunks` are a set, with the active
ones a subset; block counts are kept per chunk. A `select_chunk` call keeps the
sample it took before its loop, as the code does; the return of a chunk and the
allocation in it, which is HomeStore's, are one step. A removal waits for the IO of its
volume and for nothing else: when it begins during the resize of its volume
(`overtaken`), the job goes on with the slot of a volume that is gone, and may
write the superblock of the next one with that ordinal.

**VolumeIO.** A block is atomic and holds the number of the write that filled it;
the checksum identifies the contents (the code uses a 16-bit CRC, whose
collisions are left out). `WriteJournal` stands for a durable append, so an
entry buffered but not flushed is one not yet appended. The free that `on_write`
starts and does not await is part of `Commit`. HomeStore's checkpoint, bitmap
and replay order are external and modelled from their use. Writes overlap or not,
and a checkpoint falls anywhere, also inside a write. A write that the journal
refused stays in stage "refused": `HBListener::on_error` completes nothing.

`BlockStore` has no blocks, index or journal: a write becomes visible lba by
lba, durable as a whole and is acknowledged after that; a crash leaves the
durable contents; a read returns what was visible at one moment. The mapping
reads the contents of an lba through the index and the block (`Held`), and what
is durable through the index that a recovery at this moment would build, so that
a block freed or reused too early shows as a change nobody asked for. A write is
durable once its journal entry is. `ImplementsBlockStore` says it of every step up
to the first mishap, through data, index and journal errors and crashes, except
for the one step in which `read` reports a failed index query as success.

**PrefixIndex.** Keys and values keep their two words, scaled by `U32` and `U16`;
`KeyShift`, `Distance`, `ValueShift` and `ToInteger` are the bit arithmetic of the
source, and lbas on both sides of `U32` make both bases occur. Writes come one
after another. A write has its single blocks in `blks`; `ends` are the positions
where the extents that `alloc_blks` returned end, so `WriteToIndex(m)` puts the
extent up to position `m`. A crash goes back to what the last checkpoint saved,
and recovery replays the entries after it one at a time, each put by put
(`ReplayPut`) and then its frees (`ReplayFree`); it may itself be cut off by a
crash. A checkpoint falls anywhere, so what it saves of a write in progress is
what the write has put so far; if the entry of the write is journaled and not
committed, replay begins with it. `ref` is the plain map the index has to agree
with, `recover` that map as of the checkpoint and after each entry since.
`BlocksAccounted` is stated until a put failed half way (`torn`) or a checkpoint
fell between the puts of a write and its journal entry (`early`); its second half,
that no other block is allocated, also excepts blocks left behind (`leak`): until
the restart by a failed write, for good by a write that replaces more blocks than
the 16-bit `num_old_blks` counts.

**ReadPath.** One step per loop iteration of `generate_blkids_to_read`,
`submit_read_to_backend` and `verify_checksum`, offsets counted in blocks. A failed
index query ends in success over an untouched buffer, as in the code. `U16` and
`U32` are the numbers of values of a `blk_count_t` and a `uint32_t`, scaled down: a
merged count and the end of the last read wrap at them. A write past the caller's
buffer is undefined behaviour; the step that would make it goes to the stage
"overrun" (release builds; a debug build stops on an assertion there or earlier).

## 3. Runs

Passing runs:

| Run | Shows | Bounds |
|---|---|---|
| `craft_serialised` | the replica implements `SlotLog`; held slots are durable and are what a fetch reads, nothing lies above the watermark, committed slots survive truncation, acks cover their write, the stale branch is not reached | two writers, dLSNs up to an int64 limit of 3, a term change, a fetch of up to two slots, `MaxMissing` 1 |
| `craft_live` | missing set sound (no slot above the watermark or with a verdict), no journal entry on a freed block, gap fills admitted at capacity, with no assumption on the caller; writes return; gaps drain at capacity with a client that retries | one writer, one block, no fetch; fair |
| `lifecycle_safety` | exclusive ordinals and chunk slots, usable volumes, lookup, the count shutdown waits on, shutdown waits for creates and destroys | 2 ids, 2 creates at once, 2 ordinals, 2 removals at once, faults, a crash |
| `lifecycle_live` | removals and shutdown complete | 1 id, 2 creates, 1 ordinal, 2 removals at once, an IO, a crash; fair; no faults |
| `superblock_flags` | restricted mode survives crashes; a clean exit is recorded | 4 starts, 2 requests, crashes anywhere |
| `chunks_safety` | chunks conserved, persisted before active, recovery assertions hold, size respected, up to a removal that overtakes its resize | 5 chunks on 2 devices, 2 volumes, 2 writers, a crash |
| `io_safety` | the data path implements `BlockStore`; index, allocator and data agree, now and after a crash anywhere; a write that waits has its entry | 2 lbas, 3 blocks, 2 writers, a reader, 3 writes, checkpoints, a crash, data, index and journal errors |
| `prefix_index` | the index agrees with a plain map of lbas; blocks are neither lost nor given away | 3 lbas around the limit of the offset, writes of up to 2 blocks in 1 or 2 extents over 2 chunks, `U16` 2 (a count of 2 old blocks is truncated), 3 writes, a crash and any number more during recovery |
| `read_buffer` | merged reads, holes and checksum pass against the definition of a read; no write past the buffer below 2^32 | every range of 7 lbas over 2 chunks of 4 blocks, `U32` 6, `U16` 4 |

The largest, `prefix_index` and `io_safety`, have 3.3 and 2.1 million states.

Why the bounds suffice: each property is broken by at most two actors on one
object, and the runs have two of every actor involved, the objects a reuse needs
(a block, an ordinal or a chunk freed and taken again), and crashes
at every step; where replay of a replay matters, recovery itself may crash. The
events in the table of history variables all happen inside the bounds, and each
exception is needed: without it TLC finds a counterexample there, but for the
`again` of `RegisteredIsUsable`, which only the proof asks for. The mutants in
`PROJECT.json` show for each property that a wrong version of the code is found
inside the bounds. Deadlock is not checked because the bounds on calls let the
system stop.

Three runs are expected to fail: the code does other than what a comment of the
repository says (`findings` has the quotations).

* `lifecycle_destroy`: two removals of one volume, on two of the worker reactors
  they are posted to at random, both read `can_remove()` before either sets
  `destroy_started_`, and both run `destroy()`. The second gives away the ordinal
  and the chunk slot of whatever volume has them by then.
* `superblock_graceful`: the boot after a graceful shutdown clears the flag in
  memory and nothing writes it; if that life ends in a crash, the next boot
  finds the old flag and replays the log with `gracefully_shutdown_` set, which
  `on_write` asserts never happens.
* `chunks_resize`: a writer whose sample is stale claims `resize_op`, finds the
  resize no longer needed and returns without giving the claim back. Nobody is
  resizing, and no volume is ever resized again.

What the exceptions in the properties stand for, and the other places where the
code falls short, are in the notes of `hazards`: two creates of one id; a create
or a posted removal that shutdown does not see; the reference lost when ordinals
run out; an IO that starts beside `destroy()`; the crash points that leave an index
table without a superblock or the reverse;
`exit_fc` over DESTROYING; a resize that outlives its volume; devices that are
overcommitted; a partial index failure; overlapping writes and replay; a
checkpoint between the index update and the journal entry; the index and journal
error paths that report success or nothing; lbas beyond 32 bits, and an extent
across that limit; merged reads and old blocks that do not fit their count; and,
in CRAFT, two in-flight writes of one dLSN, a write voided while in flight, and
in-order writes that grow the missing set.

## 4. Fairness

Only steps the code's own machinery drives are fair: a write in progress
advances (coroutines resume), posted tasks run on their reactor, recurring timers
(reaper, shutdown) fire, the log flush commits what was appended, IO in progress
ends. Client calls, faults, crashes and checkpoints are never fair. `craft_live`
also assumes a client that retries the dLSNs it was refused, as the CRAFT
documents ask of it. `ShutdownCompletes` excepts the case `lost > 0`: the count
then never reaches zero. `RemovalCompletes` excepts a boot that stops on an
assertion, and `again`: a second `destroy()` may take the volume out of the map,
where the reaper looks. That a write of the legacy path returns is not stated as
liveness, because it is false after a journal error; `WaiterHasEntry` says instead
that every other waiting write has an entry whose commit completes it.

## 5. Proofs

`CraftReplDevProofs` proves, for any number of writers, any limits and any range:

| Theorem | Says | Assumes |
|---|---|---|
| `TypeCorrect` | `TypeOK`; the watermark and the missing set stay in the range Guard 1 admits | constants |
| `PresentDurable` | a slot reported as held is in the journal | `Serialised` |
| `NoGhostTailCorrect` | no journal entry above the watermark | `Serialised` |
| `StaleBranchDead` | the post-flight stale branch is dead code | `Serialised` |
| `MissingCorrect` | the missing set is sound: nothing above the watermark, nothing with an Empty verdict | constants |
| `GapFillCorrect` | a write of the session's term to a missing slot, or to the next one, is admitted, at any capacity | constants |
| `BlocksCorrect` | no journal entry refers to a freed or shared block | constants |

`PresentIsDurable` is not inductive: an ack relies on the entry it saw made
durable still being there, and the clamp of `truncate` on nobody being between
two steps. `DurableInv` adds those facts (`InFlightCovered`, `ResumedIsDurable`,
`TruncatesQuiesced`) and is proved action by action. `BlocksCorrect` needs
`BlocksOwned`: a block is held by one write in progress or one entry.
`MissingCorrect` is inductive given `TypeOK`, and `GapFillCorrect` follows from the
two: a missing slot lies at or below the watermark and so inside every guard.

`SuperblockProofs` proves, for any number of starts, crashes and requests:

| Theorem | Says | Assumes |
|---|---|---|
| `RestrictedCorrect` | restricted mode survives a crash at any point, until a shutdown has stored its flag | constants |
| `CleanExitCorrect` | a shutdown that ran to its end leaves one of the two flags | constants |

`SbInv` adds what the two need: before `shutdown` stores its flag no word, not
even one that fault containment loaded earlier, carries it (`NoFlagYet`); the
restricted flag, once stored, is undone by the store of `shutdown` only
(`FlagStored`); after that store one of the flags is in memory and then on disk
(`SomeFlag`); and a process that is not running is in neither call.

`CraftLogProofs` goes on from `DurableInv`:

| Theorem | Says | Assumes |
|---|---|---|
| `CommitCorrect` | the commit watermark stays below the append watermark and every cut, and nothing committed becomes missing again (`CommitInv`) | constants |
| `CommittedPrefixCorrect` | everything committed is in the journal or verdicted Empty, also in the middle of a `truncate` | `Serialised` |
| `AckCorrect` | an ack covers the slot it answers, and the commit LSN it carries | `Serialised` |
| `FetchCorrect` | `fetch_data` reads and returns what the journal holds, though it drops the lock between the two | `Serialised` |
| `LogRefined` | `CraftReplDev` implements `SlotLog` | `Serialised` |

`CommitInv` is what ties `commit_lsn` to the clamp of a truncation in progress.
`FetchInv` follows a slot from its classification to its read. `LogRefined` maps
each action to an append, cut, commit, verdict or stutter; the cases that need
the invariants are the admission (a stutter: the slots it jumps over become
missing in the same step that raises the watermark over them) and the ack (the
append: no truncation is in progress, and the slot leaves the missing set; the
ack of a retry, whose slot has left it, is a stutter).

`ChunkSelectorProofs`, for any number of chunks, devices, volumes and writers, with
no assumption but those on the constants; the last five until `overtaken`:

| Theorem | Says |
|---|---|
| `TypeCorrect` | `TypeOK` |
| `ConservationCorrect` | each chunk is free, or one volume's, or in the hands of the resize |
| `ActiveCorrect` | what a volume may write to is in its superblock |
| `RecoveryCorrect` | the assertions of `recover_chunks` hold after a crash anywhere |
| `PersistedCorrect` | no superblock names a free chunk |
| `SizeCorrect` | a volume's chunks stay within its size |

All but the types come from `SelectorInv` (`SelectorCorrect`). Its parts say what
each stage of a volume's life holds in memory and on disk (`LifeInv`), by which
chunks of the resize the two may differ and when (`ResizeInv`), that the volume
being resized is live and that the chunks taken fit its size (`JobInv`: this is
what a removal that overtakes the resize breaks), that one thread at a time has claimed the
resize and not posted it (`CallInv`), and that ordinals and chunks have one
owner (`OrdinalInv`, `ChunkInv`). `WithinSize` needs it because the room is
computed steps before it is used.

`VolumeLifecycleProofs`, for any number of ids, ordinals, creates, removals, IOs
and crashes:

| Theorem | Says | Until, or except |
|---|---|---|
| `OrdinalsCorrect` | the ordinals of volumes registered, being made or being destroyed are reserved and different | `again` |
| `ChunksCorrect` | a registered volume owns its chunk slot until its superblock is destroyed | `again` |
| `UsableCorrect` | what an IO dereferences, the repl dev included, exists until `destroy()` begins | `again`, `revived` volumes |
| `RetrievableCorrect` | what exists on disk can be looked up | `again`, `orphans` |
| `ShutdownWaitsCorrect` | shutdown is not released over a create or a `destroy()` (action property) | `again`, `revived` volumes |
| `RefsCorrect` | the count shutdown waits on is the creates in progress and `lost` | |

None assumes anything of the number of workers or creators. The invariant
(`LifecycleCorrect`) describes each stage of a create (`CreateInv`) and of a removal
(`TaskInv`) by what exists of its volume at that point; a map entry (`MapInv`) by
who may still be working on it; objects not made yet (`FreshInv`); and a process
that is not running (`StoppedInv`). `KnownInv` ties superblocks to the map for
`RetrievableCorrect`: it fails for exactly the volumes whose id was taken at the
emplace. `ReadyInv` ties the state of a volume to its repl dev for `UsableCorrect`
and `ShutdownWaitsCorrect`: the superblock mirrors the state in memory, a volume
outside DESTROYING has its repl dev, and a removal past the mark keeps its volume
DESTROYING unless fault containment overwrites it.

`VolumeIOProofs`, for any number of lbas, blocks, writers, readers, writes,
checkpoints, faults and crashes:

| Theorem | Says | Until |
|---|---|---|
| `IndexLiveCorrect` | a block the index names is allocated, holds what its checksum says, and has one lba | both a mishap and a crash have happened |
| `IndexBackedCorrect` | an index entry is backed by a committed allocation, its write, or an entry not committed yet | the first mishap |
| `CrashRecoveryCorrect` | a crash now would recover an index of allocated blocks that hold their data | the first mishap |
| `BlockStoreRefined` | each step is one of `BlockStore` or a stutter, but for a failed index query of a read | the first mishap |
| `WaitersCorrect` | a write waiting for the journal has exactly one uncommitted entry | |

None is inductive. `WaitInv`, which holds whatever happens, adds that values are
unique among writes and entries. `StoreInv` (`StoreCorrect`), which holds until the
first mishap, adds: writes in progress have
values and ranges of their own (`WriterInv`); each entry not yet committed is of
one write that waits for it (`JournalInv`); the blocks of a write that a crash
would undo are its own, and nobody is about to free them (`BlockInv`); the blocks
an uncommitted entry will free are still allocated, would not survive a crash and
are freed once (`FreeInv`); what a crash would leave in the index is in blocks that
a commit has allocated or will (`RecoveryInv`); and the index is what a crash
would leave, but for the lbas that writes not yet journaled have put, which
remember what they replaced (`IndexInv`). The replayed index is defined by the
last entry covering an lba, so its theory is that of the maximum of a bounded set
of naturals, whose existence is proved from the well-foundedness of `<`. The
refinement then takes one step per action: `Commit`, with its frees, only
acknowledges the write, because the contents of an lba, now and after a
recovery, are kept.

Until the first crash `IndexLiveCorrect` rests on an invariant of another kind (`OwnerInv`,
`OwnersCorrect`): a block is in at most one of four places, the index, a write
that has yet to put it, a write that replaced it and may restore it, or an
uncommitted entry that will free it; and wherever it is, it is allocated and
holds its data. A put moves two blocks at once (the new one into the index, the
replaced one to the write), `rollback_write` moves blocks back, `WriteJournal`
hands them to the entry, and `Commit` frees blocks that are nowhere else, so it
does not matter that two writes of an lba replace each other's blocks, or that
one of them fails. The condition on crashes is needed: when two overlapping
writes reach the journal in the other order than the index, replay gives the lba
to the later entry, whose block the other write's commit has freed (two writers
on one lba, a third write and one crash are enough for TLC to show it).

`ReadPathProofs`, for every range, every set of index entries in it, every layout of
their blocks and all widths `U16` > 1 and `U32`:

| Theorem | Says | Except |
|---|---|---|
| `BufferTheorem` | a read that succeeds has put each block and each hole in its place | a failed index query |
| `VerifyTheorem` | CRC_MISMATCH exactly when a block does not match its checksum | ranges with `U16` entries or more |
| `InBufferTheorem` | no write past the caller's buffer | ranges that end at lba `U32` - 1 or above |

The invariant (`ReadCorrect`) carries the three loops: the reads planned stand for exactly
the entries passed, block by block and in order (`Covers`, kept by lemma
`CoverExtends`); the reads submitted lie at the offset of their lba and the holes
before them are zero (`SubmitInv`); the position in the buffer follows the lba
through the holes (`VerifyInv`). Narrowed counts make a read too short, so an entry
is in some read only when the counts fit (`Few`); what the other blocks hold is
then left to the checksum pass, which compares every entry with the buffer: this
is why no width gives wrong data. The sum of the two `uint32_t` is the true end or
at least `U32` below it (`Tracks`), so a hole is either computed right or reaches
past the buffer.

`PrefixIndexProofs`, for every width, block size, set of lbas and blocks, and any
number of writes, checkpoints and crashes:

| Theorem | Says | Until, or except |
|---|---|---|
| `LookupCorrect` | a lookup yields, in the order of the lbas, the block and checksum last given to each | |
| `BlocksCorrect` | a block the index names is allocated, and between writes no other is | `torn`, `early`; the second half `leak` |

The constants' assumptions are the widths the encodings rely on: chunk numbers
fit 16 bits and block numbers 31. The length of a write is not bounded by a width.

The first lemmas are about the arithmetic: a key keeps its lba and keys are
ordered as lbas are (`KeyParts`, `KeyOrder`), inside one base `shift` adds to the
lba (`ShiftInBase`), and a block id survives the split, the shift and the way back
(`ValueRoundTrip`). From these a put of any first part of an extent does to the
index what an update does to the plain map (`PutAgrees`), which covers whole puts,
failing puts and replayed puts alike. `LookupAgrees` is not inductive because a
recovery has to rebuild the agreement. `Inv1` (`IndexInvariant`) adds the types of
requests and entries; that the extents put or journaled lie each in one base;
that the checkpoint's index agrees with the first map of `recover`, and each
further map is the one before with an entry over it (`Recoverable`); and that in
the middle of a recovery the index agrees with the map before the entry at `lsn`
with the entry's first `put` lbas over it (`Replays`). No fold over the journal is
needed: the history gives each step its map.

`BlocksAccounted` needs `Accounts` (`AccountsInvariant`). Along `recover`, the blocks
of each map are those of the one before, plus the entry's new blocks, minus the
ones it frees (`RecoveryAccounts`), so that replay of the bitmap follows the maps
(`ReplayAccounts`); they are counted from the checkpoint's bitmap (`Taken`), since the
checkpoint's index may be ahead of it by an entry not committed. In normal
operation the committed bitmap is the blocks of the last map (`BitsAccount`); the
index differs from that map only on lbas the write in progress has put, with
blocks that are held (`RefAccounts`); and the old blocks the write has collected are exactly those that the last map names at these lbas, and
the index no longer does (`RequestAccounts`). Inclusions hold up to a put that
failed half way and was saved by a checkpoint; equalities up to a put that failed
half way at all, the one that the next write of these lbas turns into a loss.

Only model-checked: all liveness (fairness and `ENABLED` are outside the
prover), and the three runs that find a violation.

## 6. Not modelled

The CRAFT operations that are stubs (`read`, `login`, `keep_alive` and the RAFT
helpers), the API layer that forwards to them, and `seed_lsns`, which exists in
test builds and writes the state behind the journal's back; the serialisation
of keys and values, which copies fields, and the nodes of HomeStore's btree;
device detection and chunk sizes; metrics, configuration, the coroutine
helpers, `get_stats`, `volume_ids`, `unmap` (a no-op) and the ublk tool, a test
harness. The index chunk selector appears as one slot per ordinal. Release
builds are not followed past a failed debug assertion (`BootAborts`,
`WriteToIndexAsserts`).

## 7. Plan

Every safety property of the passing runs is stated by a theorem. What is left:
how much of the control plane a second `destroy()` leaves sound, and how much of
`RecoveryConsistent` survives overlapping writes when the journal keeps the order
of the index.
