----------------------------- MODULE ChunkSelector -----------------------------
(***************************************************************************)
(* VolumeChunkSelector for the data volumes: thin allocation of chunks at  *)
(* volume creation, select_chunk called by concurrent writes, the resize   *)
(* that a write starts and a worker reactor performs, release at removal,  *)
(* and recovery (volume_chunk_selector.cpp), together with the superblock  *)
(* callback update_vol_sb_cb (volume_mgr.cpp, volume.cpp).                 *)
(*                                                                         *)
(* A chunk is atomic except for the number of its free blocks.  The filled *)
(* entries of m_chunks are a set, and num_active_chunks the subset that is *)
(* active: the code fills and activates them in the same order.            *)
(***************************************************************************)
EXTENDS Integers, FiniteSets, FiniteSetsExt

CONSTANTS
    Chunk,            \* the chunks of the data service
    Pdev,             \* physical devices
    pdev_of,          \* the device of each chunk
    Blks,             \* blocks in a chunk
    Ordinal,          \* ordinals of volumes
    Volume,           \* volume objects; each is created at most once
    Sizes,            \* the max_num_chunks that created volumes may have
    InitChunks,       \* num_chunks_per_vol_init
    ResizeChunks,     \* num_chunks_per_resize
    Writer,           \* threads that may be in select_chunk together
    MaxCrash,         \* bound on crashes
    None

ASSUME DeviceAssumption == pdev_of \in [Chunk -> Pdev]
ASSUME SizeAssumption == /\ Blks \in Nat \ {0} /\ Sizes \subseteq Nat \ {0}
                         /\ InitChunks \in Nat \ {0} /\ ResizeChunks \in Nat \ {0}
                         /\ MaxCrash \in Nat /\ IsFiniteSet(Chunk)
ASSUME NoneAssumption == None \notin Chunk \cup Pdev \cup Ordinal \cup Volume

VARIABLES
    pool,          \* m_per_dev_chunks: the chunks free for allocation
    m_vol_ordinal, \* per chunk: the ordinal it was assigned to
    avail,         \* per chunk: available_blks()
    vol,           \* per volume object: where it is in its life, its ordinal and
                   \* its VolumeChunksInfo (pdev, max_num_chunks, chunks, active)
    sb,            \* persistent: the chunk ids in the volume superblock
    resize_op,     \* Idle or InProgress, one for the whole selector
    job,           \* the resize handed to a worker
    call,          \* per writer: the select_chunk in progress
    phase,         \* life of the process
    crashes,       \* bound used up
    overtaken      \* history: a volume was destroyed under its own resize

vars == <<pool, m_vol_ordinal, avail, vol, sb, resize_op, job, call, phase, crashes, overtaken>>

Unborn == [life |-> "unborn", ord |-> None, pdev |-> None, max |-> 0,
           chunks |-> {}, active |-> {}]
NoJob == [stage |-> "none", vol |-> None, new |-> {}]
NoCall == [stage |-> "idle", vol |-> None, nblks |-> 0, low |-> FALSE]

(* The volume m_volume_chunks holds for an ordinal, and the one vol_map_ has. *)
InSlot(v, n) == vol[v].ord = n /\ vol[v].life \in {"allocated", "live", "dying"}
InMap(v, n) == vol[v].ord = n /\ vol[v].life \in {"live", "dying", "released"}

Total(v) == Blks * Cardinality(vol[v].chunks)
Available(v) == MapThenSumSet(LAMBDA c : avail[c], vol[v].chunks)
Room(v) == Cardinality(vol[v].active) < vol[v].max

-----------------------------------------------------------------------------
(* add_chunk has put every chunk in the pool; no volume exists. *)
Init ==
    /\ pool = Chunk
    /\ m_vol_ordinal = [c \in Chunk |-> None]
    /\ avail = [c \in Chunk |-> Blks]
    /\ vol = [v \in Volume |-> Unborn]
    /\ sb = [v \in Volume |-> {}]
    /\ resize_op = "Idle" /\ job = NoJob
    /\ call = [w \in Writer |-> NoCall]
    /\ phase = "up" /\ crashes = 0 /\ overtaken = FALSE

-----------------------------------------------------------------------------
(* Volumes come and go: make_volume and destroy(), the part that concerns    *)
(* the selector.                                                             *)

(* allocate_init_chunks: a device with room for the whole volume, of which   *)
(* only the initial chunks are taken.  The create fails if there is none.    *)
AllocateInitChunks(v, n, p, m) ==
    /\ phase = "up"
    /\ vol[v].life = "unborn"
    /\ \A u \in Volume : ~InSlot(u, n) /\ ~InMap(u, n)
    /\ Cardinality({c \in pool : pdev_of[c] = p}) >= m
    /\ \E new \in kSubset(Min({m, InitChunks}), {c \in pool : pdev_of[c] = p}) :
           /\ pool' = pool \ new
           /\ m_vol_ordinal' = [c \in Chunk |-> IF c \in new THEN n ELSE m_vol_ordinal[c]]
           /\ vol' = [vol EXCEPT ![v] = [life |-> "allocated", ord |-> n, pdev |-> p,
                                         max |-> m, chunks |-> new, active |-> new]]
    /\ UNCHANGED <<avail, sb, resize_op, job, call, phase, crashes, overtaken>>

(* The superblock is written with the chunk ids, and the volume registered. *)
Publish(v) ==
    /\ phase = "up"
    /\ vol[v].life = "allocated"
    /\ sb' = [sb EXCEPT ![v] = vol[v].chunks]
    /\ vol' = [vol EXCEPT ![v].life = "live"]
    /\ UNCHANGED <<pool, m_vol_ordinal, avail, resize_op, job, call, phase, crashes, overtaken>>

(* A volume is destroyed when no IO is outstanding on it; nobody looks       *)
(* whether a resize of it is.  The superblock goes first.                    *)
DestroySuperblock(v) ==
    /\ phase = "up"
    /\ vol[v].life = "live"
    /\ \A w \in Writer : call[w].vol # v
    /\ sb' = [sb EXCEPT ![v] = {}]
    /\ vol' = [vol EXCEPT ![v].life = "dying"]
    /\ overtaken' = (overtaken \/ job.vol = v)
    /\ UNCHANGED <<pool, m_vol_ordinal, avail, resize_op, job, call, phase, crashes>>

(* The data of the volume is freed with its repl dev: its blocks are         *)
(* available to the next owner.                                              *)
ReleaseChunks(v) ==
    /\ phase = "up"
    /\ vol[v].life = "dying"
    /\ pool' = pool \cup vol[v].chunks
    /\ m_vol_ordinal' = [c \in Chunk |-> IF c \in vol[v].chunks THEN None
                                         ELSE m_vol_ordinal[c]]
    /\ avail' = [c \in Chunk |-> IF c \in vol[v].chunks THEN Blks ELSE avail[c]]
    /\ vol' = [vol EXCEPT ![v].life = "released"]
    /\ UNCHANGED <<sb, resize_op, job, call, phase, crashes, overtaken>>

Erase(v) ==
    /\ phase = "up"
    /\ vol[v].life = "released"
    /\ vol' = [vol EXCEPT ![v].life = "gone"]
    /\ UNCHANGED <<pool, m_vol_ordinal, avail, sb, resize_op, job, call, phase, crashes, overtaken>>

-----------------------------------------------------------------------------
(* select_chunk *)

(* The free space is sampled once, before the loop; low is the condition on  *)
(* it that the loop tests in every turn.                                     *)
SelectChunk(w, v, n) ==
    /\ phase = "up"
    /\ call[w].stage = "idle"
    /\ vol[v].life = "live"
    /\ call' = [call EXCEPT ![w] = [stage |-> "loop", vol |-> v, nblks |-> n,
                                    low |-> \/ n > Available(v)
                                            \/ 2 * Available(v) < Total(v)]]
    /\ UNCHANGED <<pool, m_vol_ordinal, avail, vol, sb, resize_op, job, phase, crashes, overtaken>>

SkipResize(w) ==
    /\ phase = "up"
    /\ call[w].stage = "loop"
    /\ ~(call[w].low /\ Room(call[w].vol))
    /\ call' = [call EXCEPT ![w].stage = "scan"]
    /\ UNCHANGED <<pool, m_vol_ordinal, avail, vol, sb, resize_op, job, phase, crashes, overtaken>>

(* The condition holds: resize_volume_num_chunks is called. *)
TryResize(w) ==
    /\ phase = "up"
    /\ call[w].stage = "loop"
    /\ call[w].low /\ Room(call[w].vol)
    /\ call' = [call EXCEPT ![w].stage = "cas"]
    /\ UNCHANGED <<pool, m_vol_ordinal, avail, vol, sb, resize_op, job, phase, crashes, overtaken>>

(* The compare-exchange on resize_op: lost, and won. *)
ResizeBusy(w) ==
    /\ phase = "up"
    /\ call[w].stage = "cas" /\ resize_op = "InProgress"
    /\ call' = [call EXCEPT ![w].stage = "scan"]
    /\ UNCHANGED <<pool, m_vol_ordinal, avail, vol, sb, resize_op, job, phase, crashes, overtaken>>

ResizeClaim(w) ==
    /\ phase = "up"
    /\ call[w].stage = "cas" /\ resize_op = "Idle"
    /\ resize_op' = "InProgress"
    /\ call' = [call EXCEPT ![w].stage = "recheck"]
    /\ UNCHANGED <<pool, m_vol_ordinal, avail, vol, sb, job, phase, crashes, overtaken>>

Enough(v, n) == n < Available(v) /\ 2 * Available(v) > Total(v)

(* The space is looked at again.  Enough by now: return, with resize_op as   *)
(* it is.  Otherwise the resize is posted to a worker.                       *)
ResizeNotNeeded(w) ==
    /\ phase = "up"
    /\ call[w].stage = "recheck"
    /\ Enough(call[w].vol, call[w].nblks)
    /\ call' = [call EXCEPT ![w].stage = "scan"]
    /\ UNCHANGED <<pool, m_vol_ordinal, avail, vol, sb, resize_op, job, phase, crashes, overtaken>>

ResizePost(w) ==
    /\ phase = "up"
    /\ call[w].stage = "recheck"
    /\ ~Enough(call[w].vol, call[w].nblks)
    /\ job' = [stage |-> "posted", vol |-> call[w].vol, new |-> {}]
    /\ call' = [call EXCEPT ![w].stage = "scan"]
    /\ UNCHANGED <<pool, m_vol_ordinal, avail, vol, sb, resize_op, phase, crashes, overtaken>>

(* Mutant of Selected: a chunk without free blocks is returned. *)
SelectedUnchecked(w, c) ==
    /\ phase = "up"
    /\ call[w].stage = "scan"
    /\ c \in vol[call[w].vol].active
    /\ avail' = [avail EXCEPT ![c] = @ - 1]
    /\ call' = [call EXCEPT ![w] = NoCall]
    /\ UNCHANGED <<pool, m_vol_ordinal, vol, sb, resize_op, job, phase, crashes, overtaken>>

(* The scan: an active chunk with free blocks is returned, and a block of it *)
(* allocated; if there is none, sleep and take another turn.                 *)
Selected(w, c) ==
    /\ phase = "up"
    /\ call[w].stage = "scan"
    /\ c \in vol[call[w].vol].active
    /\ avail[c] > 0
    /\ avail' = [avail EXCEPT ![c] = @ - 1]
    /\ call' = [call EXCEPT ![w] = NoCall]
    /\ UNCHANGED <<pool, m_vol_ordinal, vol, sb, resize_op, job, phase, crashes, overtaken>>

SleepAndRetry(w) ==
    /\ phase = "up"
    /\ call[w].stage = "scan"
    /\ \A c \in vol[call[w].vol].active : avail[c] = 0
    /\ call' = [call EXCEPT ![w].stage = "loop"]
    /\ UNCHANGED <<pool, m_vol_ordinal, avail, vol, sb, resize_op, job, phase, crashes, overtaken>>

(* A block of a live volume is freed (the write that replaced it is done). *)
FreeBlk(v, c) ==
    /\ phase = "up"
    /\ vol[v].life = "live" /\ c \in vol[v].active
    /\ avail[c] < Blks
    /\ avail' = [avail EXCEPT ![c] = @ + 1]
    /\ UNCHANGED <<pool, m_vol_ordinal, vol, sb, resize_op, job, call, phase, crashes, overtaken>>

-----------------------------------------------------------------------------
(* The resize on the worker.  job.vol is the captured VolumeChunksInfo. *)

WantedUncapped == ResizeChunks          \* mutant: the size of the volume is ignored
TakeableAnywhere == pool                \* mutant: the device is ignored

Wanted == Min({ResizeChunks, vol[job.vol].max - Cardinality(vol[job.vol].active)})
Takeable == {c \in pool : pdev_of[c] = vol[job.vol].pdev}

(* Mutant of ResizeTake: the chunks stay in the pool. *)
ResizeTakeShared ==
    /\ phase = "up"
    /\ job.stage = "posted"
    /\ Wanted > 0
    /\ \E new \in kSubset(Wanted, Takeable) :
           job' = [job EXCEPT !.stage = "taken", !.new = new]
    /\ UNCHANGED <<pool, m_vol_ordinal, avail, vol, sb, resize_op, call, phase, crashes, overtaken>>

(* allocate_resize_chunks_from_pdev, under the mutex. *)
ResizeTake ==
    /\ phase = "up"
    /\ job.stage = "posted"
    /\ Wanted > 0
    /\ \E new \in kSubset(Wanted, Takeable) :
           /\ pool' = pool \ new
           /\ job' = [job EXCEPT !.stage = "taken", !.new = new]
    /\ UNCHANGED <<m_vol_ordinal, avail, vol, sb, resize_op, call, phase, crashes, overtaken>>

(* Mutant of ResizeAdd: the chunks are active before they are persisted. *)
ResizeAddActive ==
    /\ phase = "up"
    /\ job.stage = "taken"
    /\ vol' = [vol EXCEPT ![job.vol].chunks = @ \cup job.new,
                          ![job.vol].active = @ \cup job.new]
    /\ job' = [job EXCEPT !.stage = "added"]
    /\ UNCHANGED <<pool, m_vol_ordinal, avail, sb, resize_op, call, phase, crashes, overtaken>>

ResizeAdd ==
    /\ phase = "up"
    /\ job.stage = "taken"
    /\ vol' = [vol EXCEPT ![job.vol].chunks = @ \cup job.new]
    /\ job' = [job EXCEPT !.stage = "added"]
    /\ UNCHANGED <<pool, m_vol_ordinal, avail, sb, resize_op, call, phase, crashes, overtaken>>

(* update_vol_sb_cb: the volume is looked up by its ordinal, and its         *)
(* superblock rewritten with the chunk ids.  Without such a volume the       *)
(* assertion "volume not found" ends the process.                            *)
ResizePersist(v) ==
    /\ phase = "up"
    /\ job.stage = "added"
    /\ InMap(v, vol[job.vol].ord)
    /\ sb[v] # {}
    /\ sb' = [sb EXCEPT ![v] = vol[job.vol].chunks]
    /\ job' = [job EXCEPT !.stage = "persisted"]
    /\ UNCHANGED <<pool, m_vol_ordinal, avail, vol, resize_op, call, phase, crashes, overtaken>>

ResizeActivate ==
    /\ phase = "up"
    /\ job.stage = "persisted"
    /\ vol' = [vol EXCEPT ![job.vol].active = @ \cup job.new]
    /\ resize_op' = "Idle"
    /\ job' = NoJob
    /\ UNCHANGED <<pool, m_vol_ordinal, avail, sb, call, phase, crashes, overtaken>>

-----------------------------------------------------------------------------
(* The process stops: a crash, or an assertion of the resize.  What was in   *)
(* memory is gone; volumes without a superblock do not come back.            *)
Stop(p) ==
    /\ phase' = p
    /\ vol' = [v \in Volume |-> IF vol[v].life = "unborn" \/ sb[v] # {} THEN vol[v]
                                ELSE [vol[v] EXCEPT !.life = "gone"]]
    /\ resize_op' = "Idle" /\ job' = NoJob
    /\ call' = [w \in Writer |-> NoCall]
    /\ UNCHANGED <<pool, m_vol_ordinal, avail, sb, overtaken>>

Crash ==
    /\ phase = "up" /\ crashes < MaxCrash
    /\ crashes' = crashes + 1
    /\ Stop("crashed")

(* The assertions of the resize: "No chunks available for resize", "Not      *)
(* enough chunks for volume" and, in update_vol_sb_cb, "volume not found".   *)
NothingWanted == job.stage = "posted" /\ Wanted = 0
NotEnoughChunks == job.stage = "posted" /\ Wanted > Cardinality(Takeable)
VolumeNotFound == /\ job.stage = "added"
                  /\ \A v \in Volume : InMap(v, vol[job.vol].ord) => sb[v] = {}

ResizeAborts ==
    /\ phase = "up"
    /\ NothingWanted \/ NotEnoughChunks \/ VolumeNotFound
    /\ Stop("aborted")
    /\ UNCHANGED crashes

(* recover_chunks for every superblock: all chunks found are active, and no  *)
(* longer free.                                                              *)
Recovered == {v \in Volume : sb[v] # {}}
Persisted == UNION {sb[v] : v \in Recovered}

EverythingFree == Chunk                 \* mutant: recovered chunks stay in the pool

FreeAfterRecovery == Chunk \ Persisted

Recover ==
    /\ phase # "up"
    /\ \A u, v \in Recovered : u # v => sb[u] \cap sb[v] = {}
    /\ phase' = "up"
    /\ pool' = FreeAfterRecovery
    /\ m_vol_ordinal' = [c \in Chunk |-> IF c \in Persisted
                                         THEN vol[CHOOSE v \in Recovered : c \in sb[v]].ord
                                         ELSE None]
    /\ avail' = [c \in Chunk |-> IF c \in Persisted THEN avail[c] ELSE Blks]
    /\ vol' = [v \in Volume |-> IF v \in Recovered
                                THEN [vol[v] EXCEPT !.life = "live", !.chunks = sb[v],
                                                    !.active = sb[v]]
                                ELSE vol[v]]
    /\ UNCHANGED <<sb, resize_op, job, call, crashes, overtaken>>

-----------------------------------------------------------------------------
SelectStep(w) ==
    \/ SkipResize(w) \/ TryResize(w) \/ ResizeBusy(w) \/ ResizeClaim(w)
    \/ ResizeNotNeeded(w) \/ ResizePost(w)
    \/ \E c \in Chunk : Selected(w, c)
    \/ SleepAndRetry(w)

ResizeStep ==
    \/ ResizeTake \/ ResizeAdd \/ (\E v \in Volume : ResizePersist(v)) \/ ResizeActivate
    \/ ResizeAborts

Next ==
    \/ \E v \in Volume : \/ \E n \in Ordinal, p \in Pdev, m \in Sizes :
                                AllocateInitChunks(v, n, p, m)
                         \/ Publish(v) \/ DestroySuperblock(v) \/ ReleaseChunks(v) \/ Erase(v)
                         \/ \E c \in Chunk : FreeBlk(v, c)
    \/ \E w \in Writer : SelectStep(w) \/ \E v \in Volume, n \in 1 .. Blks : SelectChunk(w, v, n)
    \/ ResizeStep
    \/ Crash \/ Recover

Spec == Init /\ [][Next]_vars

-----------------------------------------------------------------------------
(* Properties *)

VolumeRecord == [life : {"unborn", "allocated", "live", "dying", "released", "gone"},
                 ord : Ordinal \cup {None}, pdev : Pdev \cup {None}, max : Nat,
                 chunks : SUBSET Chunk, active : SUBSET Chunk]

(* Every variable has its type. *)
TypeOK ==
    /\ pool \subseteq Chunk
    /\ m_vol_ordinal \in [Chunk -> Ordinal \cup {None}]
    /\ avail \in [Chunk -> 0 .. Blks]
    /\ vol \in [Volume -> VolumeRecord]
    /\ sb \in [Volume -> SUBSET Chunk]
    /\ resize_op \in {"Idle", "InProgress"}
    /\ job \in [stage : {"none", "posted", "taken", "added", "persisted"},
                vol : Volume \cup {None}, new : SUBSET Chunk]
    /\ call \in [Writer -> [stage : {"idle", "loop", "cas", "recheck", "scan"},
                            vol : Volume \cup {None}, nblks : 0 .. Blks, low : BOOLEAN]]
    /\ phase \in {"up", "crashed", "aborted"}
    /\ crashes \in 0 .. MaxCrash
    /\ overtaken \in BOOLEAN

Holds(v) == IF vol[v].life \in {"allocated", "live", "dying"} THEN vol[v].chunks ELSE {}

(* The properties hold until a volume is destroyed while its own resize is   *)
(* in progress, which destroy() does not look for: the job then gives chunks *)
(* to a volume that is gone, and update_vol_sb_cb, which finds the volume by *)
(* ordinal, may write them to the superblock of the next one.                *)

(* "Chunks once allocated to volume are removed from this pool": a chunk is  *)
(* free, or held by one volume, or on its way to one in the resize; none is  *)
(* lost, and a free one is not assigned (the assertion of                    *)
(* allocate_init_chunks), as long as no resize was overtaken by a removal.   *)
ChunksConserved ==
    phase = "up" /\ ~overtaken =>
        /\ \A u, v \in Volume : u # v => Holds(u) \cap Holds(v) = {}
        /\ \A v \in Volume : Holds(v) \cap pool = {}
        /\ \A c \in pool : m_vol_ordinal[c] = None
        /\ job.stage = "taken" => job.new \cap (pool \cup UNION {Holds(v) : v \in Volume}) = {}
        /\ Chunk = pool \cup (UNION {Holds(v) : v \in Volume})
                        \cup (IF job.stage = "taken" THEN job.new ELSE {})

(* "Persist the new chunk ids to the metablk of volume before making them    *)
(* active": every chunk a live volume may write to is in its superblock, so  *)
(* that a crash at any point keeps the data reachable, as long as no resize  *)
(* was overtaken by a removal.                                               *)
ActivePersisted ==
    phase = "up" /\ ~overtaken =>
        \A v \in Volume : vol[v].life = "live" => vol[v].active \subseteq sb[v]

(* What the assertions of recover_chunks ask of the superblocks found after  *)
(* a crash at any point: no chunk is in two of them, and the chunks of a     *)
(* volume are all on its device, as long as no resize was overtaken by a     *)
(* removal.                                                                  *)
RecoverySucceeds ==
    ~overtaken => \A v \in Volume : /\ \A u \in Volume \ {v} : sb[u] \cap sb[v] = {}
                                    /\ \A c \in sb[v] : pdev_of[c] = vol[v].pdev

(* A chunk that a superblock names is not free for another volume: the       *)
(* superblock is rewritten after chunks leave the pool, and destroyed before *)
(* they return to it, as long as no resize was overtaken by a removal.       *)
PersistedNotFree == phase = "up" /\ ~overtaken => Persisted \cap pool = {}

(* A volume never has more chunks than its size calls for, although the size *)
(* of the resize is computed when it starts and writers race for it; until a *)
(* removal overtakes a resize.                                               *)
WithinSize == ~overtaken => \A v \in Volume : Cardinality(vol[v].chunks) <= vol[v].max

(* "Some other thread is in process of adding the chunks" is what a lost     *)
(* compare-exchange in resize_volume_num_chunks is taken to mean: resize_op  *)
(* is InProgress only while a thread is between its claim and the post, or   *)
(* the posted resize has not finished.                                       *)
ResizeIsRunning ==
    phase = "up" /\ resize_op = "InProgress" =>
        job # NoJob \/ \E w \in Writer : call[w].stage = "recheck"
=============================================================================
