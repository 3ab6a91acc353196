-------------------------- MODULE ChunkSelectorProofs --------------------------
(***************************************************************************)
(* Proofs about ChunkSelector, for every number of chunks, devices, volumes *)
(* and writers, every volume size and resize increment, and any number of   *)
(* crashes.                                                                 *)
(***************************************************************************)
EXTENDS ChunkSelector, FiniteSetTheorems, TLAPS

(* A select_chunk in progress, and a posted resize, are for a volume. *)
CallsNameVolumes ==
    /\ \A w \in Writer : call[w].stage # "idle" => call[w].vol \in Volume
    /\ job.stage # "none" => job.vol \in Volume

TypeInv == TypeOK /\ CallsNameVolumes

(* The assumption on the sizes, in the form the proofs use. *)
LEMMA Bounds == /\ Blks \in Nat /\ Blks > 0 /\ Blks \in 0 .. Blks
                /\ MaxCrash \in Nat /\ Sizes \subseteq Nat
  BY SizeAssumption

Life == {"unborn", "allocated", "live", "dying", "released", "gone"}

(* Replacing a field of a volume's record leaves a record with the others. *)
LEMMA RecordLife ==
  ASSUME NEW r \in VolumeRecord, NEW l \in Life
  PROVE  /\ [r EXCEPT !.life = l] \in VolumeRecord
         /\ [r EXCEPT !.life = l] = [life |-> l, ord |-> r.ord, pdev |-> r.pdev, max |-> r.max,
                                     chunks |-> r.chunks, active |-> r.active]
  BY DEF VolumeRecord, Life

(* The same for the chunks. *)
LEMMA RecordChunks ==
  ASSUME NEW r \in VolumeRecord, NEW C \in SUBSET Chunk
  PROVE  /\ [r EXCEPT !.chunks = C] \in VolumeRecord
         /\ [r EXCEPT !.chunks = C] = [life |-> r.life, ord |-> r.ord, pdev |-> r.pdev,
                                       max |-> r.max, chunks |-> C, active |-> r.active]
         /\ [r EXCEPT !.active = C] \in VolumeRecord
         /\ [r EXCEPT !.active = C] = [life |-> r.life, ord |-> r.ord, pdev |-> r.pdev,
                                       max |-> r.max, chunks |-> r.chunks, active |-> C]
  BY DEF VolumeRecord

(* A step in the life of a volume changes nothing else of it, and nothing of *)
(* another one.                                                              *)
LEMMA SetLife ==
  ASSUME TypeOK, NEW v \in Volume, NEW l \in Life, vol' = [vol EXCEPT ![v].life = l]
  PROVE  /\ vol' \in [Volume -> VolumeRecord]
         /\ \A u \in Volume : /\ u # v => vol'[u] = vol[u]
                              /\ vol'[u].ord = vol[u].ord /\ vol'[u].pdev = vol[u].pdev
                              /\ vol'[u].max = vol[u].max /\ vol'[u].chunks = vol[u].chunks
                              /\ vol'[u].active = vol[u].active
         /\ vol'[v].life = l
<1>1. vol \in [Volume -> VolumeRecord] /\ vol[v] \in VolumeRecord
  BY DEF TypeOK
<1>2. PICK r \in VolumeRecord :
          r = [life |-> l, ord |-> vol[v].ord, pdev |-> vol[v].pdev, max |-> vol[v].max,
               chunks |-> vol[v].chunks, active |-> vol[v].active]
          /\ [vol[v] EXCEPT !.life = l] = r
  BY <1>1, RecordLife
<1>3. vol' = [vol EXCEPT ![v] = r]
  BY <1>2
<1>4. \A u \in Volume : vol'[u] = IF u = v THEN r ELSE vol[u]
  BY <1>1, <1>3
<1>5. r.life = l /\ r.ord = vol[v].ord /\ r.pdev = vol[v].pdev /\ r.max = vol[v].max
      /\ r.chunks = vol[v].chunks /\ r.active = vol[v].active
  BY <1>2
<1> QED BY <1>1, <1>3, <1>4, <1>5

(* The chunks a resize adds to, or activates in, a volume change nothing     *)
(* else of it, and nothing of another one.                                   *)
LEMMA SetChunks ==
  ASSUME TypeOK, NEW v \in Volume, NEW C \in SUBSET Chunk,
         vol' = [vol EXCEPT ![v].chunks = @ \cup C]
  PROVE  /\ vol' \in [Volume -> VolumeRecord]
         /\ \A u \in Volume : /\ u # v => vol'[u] = vol[u]
                              /\ vol'[u].ord = vol[u].ord /\ vol'[u].pdev = vol[u].pdev
                              /\ vol'[u].max = vol[u].max /\ vol'[u].life = vol[u].life
                              /\ vol'[u].active = vol[u].active
         /\ vol'[v].chunks = vol[v].chunks \cup C
<1>1. vol \in [Volume -> VolumeRecord] /\ vol[v] \in VolumeRecord
  BY DEF TypeOK
<1>2. PICK D \in SUBSET Chunk : D = vol[v].chunks \cup C
  BY <1>1 DEF VolumeRecord
<1>3. PICK r \in VolumeRecord :
          r = [life |-> vol[v].life, ord |-> vol[v].ord, pdev |-> vol[v].pdev,
               max |-> vol[v].max, chunks |-> D, active |-> vol[v].active]
          /\ [vol[v] EXCEPT !.chunks = D] = r
  BY <1>1, RecordChunks
<1>4. vol' = [vol EXCEPT ![v] = r]
  BY <1>2, <1>3
<1>5. \A u \in Volume : vol'[u] = IF u = v THEN r ELSE vol[u]
  BY <1>1, <1>4
<1>6. r.life = vol[v].life /\ r.ord = vol[v].ord /\ r.pdev = vol[v].pdev
      /\ r.max = vol[v].max /\ r.chunks = D /\ r.active = vol[v].active
  BY <1>3
<1> QED BY <1>1, <1>2, <1>4, <1>5, <1>6

(* What adding chunks to the active ones of v leaves of the volumes. *)
LEMMA SetActive ==
  ASSUME TypeOK, NEW v \in Volume, NEW C \in SUBSET Chunk,
         vol' = [vol EXCEPT ![v].active = @ \cup C]
  PROVE  /\ vol' \in [Volume -> VolumeRecord]
         /\ \A u \in Volume : /\ u # v => vol'[u] = vol[u]
                              /\ vol'[u].ord = vol[u].ord /\ vol'[u].pdev = vol[u].pdev
                              /\ vol'[u].max = vol[u].max /\ vol'[u].life = vol[u].life
                              /\ vol'[u].chunks = vol[u].chunks
         /\ vol'[v].active = vol[v].active \cup C
<1>1. vol \in [Volume -> VolumeRecord] /\ vol[v] \in VolumeRecord
  BY DEF TypeOK
<1>2. PICK D \in SUBSET Chunk : D = vol[v].active \cup C
  BY <1>1 DEF VolumeRecord
<1>3. PICK r \in VolumeRecord :
          r = [life |-> vol[v].life, ord |-> vol[v].ord, pdev |-> vol[v].pdev,
               max |-> vol[v].max, chunks |-> vol[v].chunks, active |-> D]
          /\ [vol[v] EXCEPT !.active = D] = r
  BY <1>1, RecordChunks
<1>4. vol' = [vol EXCEPT ![v] = r]
  BY <1>2, <1>3
<1>5. \A u \in Volume : vol'[u] = IF u = v THEN r ELSE vol[u]
  BY <1>1, <1>4
<1>6. r.life = vol[v].life /\ r.ord = vol[v].ord /\ r.pdev = vol[v].pdev
      /\ r.max = vol[v].max /\ r.active = D /\ r.chunks = vol[v].chunks
  BY <1>3
<1> QED BY <1>1, <1>2, <1>4, <1>5, <1>6

(* When the process stops, a volume without a superblock is gone. *)
LEMMA SetStopped ==
  ASSUME TypeOK, NEW p, Stop(p)
  PROVE  /\ vol' \in [Volume -> VolumeRecord]
         /\ \A v \in Volume : /\ vol'[v].ord = vol[v].ord /\ vol'[v].pdev = vol[v].pdev
                              /\ vol'[v].max = vol[v].max /\ vol'[v].chunks = vol[v].chunks
                              /\ vol'[v].active = vol[v].active
                              /\ vol'[v].life = IF vol[v].life = "unborn" \/ sb[v] # {}
                                                THEN vol[v].life ELSE "gone"
<1>1. \A v \in Volume : vol[v] \in VolumeRecord
  BY DEF TypeOK
<1>2. \A v \in Volume : vol'[v] = IF vol[v].life = "unborn" \/ sb[v] # {} THEN vol[v]
                                  ELSE [vol[v] EXCEPT !.life = "gone"]
  BY DEF Stop
<1>3. ASSUME NEW v \in Volume
      PROVE  /\ vol'[v].ord = vol[v].ord /\ vol'[v].pdev = vol[v].pdev
             /\ vol'[v].max = vol[v].max /\ vol'[v].chunks = vol[v].chunks
             /\ vol'[v].active = vol[v].active
             /\ vol'[v].life = IF vol[v].life = "unborn" \/ sb[v] # {}
                               THEN vol[v].life ELSE "gone"
             /\ vol'[v] \in VolumeRecord
  <2>1. CASE vol[v].life = "unborn" \/ sb[v] # {}
    BY <1>1, <1>2, <2>1
  <2>2. CASE ~(vol[v].life = "unborn" \/ sb[v] # {})
    <3>1. PICK r \in VolumeRecord :
              r = [life |-> "gone", ord |-> vol[v].ord, pdev |-> vol[v].pdev,
                   max |-> vol[v].max, chunks |-> vol[v].chunks, active |-> vol[v].active]
              /\ [vol[v] EXCEPT !.life = "gone"] = r
      BY <1>1, RecordLife DEF Life
    <3>2. vol'[v] = r
      BY <1>2, <2>2, <3>1
    <3> QED BY <2>2, <3>1, <3>2
  <2> QED BY <2>1, <2>2
<1>4. vol' = [v \in Volume |-> vol'[v]]
  BY DEF Stop
<1> QED BY <1>3, <1>4

(* Recovery rebuilds a volume from its superblock, with every chunk active. *)
LEMMA SetRecovered ==
  ASSUME TypeOK, Recover
  PROVE  /\ vol' \in [Volume -> VolumeRecord]
         /\ \A v \in Volume : /\ vol'[v].ord = vol[v].ord /\ vol'[v].pdev = vol[v].pdev
                              /\ vol'[v].max = vol[v].max
                              /\ sb[v] = {} => vol'[v] = vol[v]
                              /\ sb[v] # {} => /\ vol'[v].life = "live"
                                               /\ vol'[v].chunks = sb[v]
                                               /\ vol'[v].active = sb[v]
<1>1. \A v \in Volume : vol[v] \in VolumeRecord /\ sb[v] \in SUBSET Chunk
  BY DEF TypeOK
<1>2. \A v \in Volume : vol'[v] = IF sb[v] # {}
                                  THEN [vol[v] EXCEPT !.life = "live", !.chunks = sb[v],
                                                      !.active = sb[v]]
                                  ELSE vol[v]
  BY DEF Recover, Recovered
<1>3. ASSUME NEW v \in Volume
      PROVE  /\ vol'[v].ord = vol[v].ord /\ vol'[v].pdev = vol[v].pdev
             /\ vol'[v].max = vol[v].max
             /\ sb[v] = {} => vol'[v] = vol[v]
             /\ sb[v] # {} => /\ vol'[v].life = "live"
                              /\ vol'[v].chunks = sb[v]
                              /\ vol'[v].active = sb[v]
             /\ vol'[v] \in VolumeRecord
  <2>1. CASE sb[v] = {}
    BY <1>1, <1>2, <2>1
  <2>2. CASE sb[v] # {}
    <3>1. PICK r \in VolumeRecord : r = [vol[v] EXCEPT !.life = "live"]
      BY <1>1, RecordLife DEF Life
    <3>2. PICK s \in VolumeRecord : s = [r EXCEPT !.chunks = sb[v]]
      BY <1>1, RecordChunks
    <3>3. PICK q \in VolumeRecord : q = [s EXCEPT !.active = sb[v]] /\ vol'[v] = q
      BY <1>1, <1>2, <2>2, <3>1, <3>2, RecordChunks
    <3>4. /\ r.life = "live" /\ r.ord = vol[v].ord /\ r.pdev = vol[v].pdev
          /\ r.max = vol[v].max
      BY <1>1, <3>1, RecordLife DEF Life
    <3>5. /\ s.life = r.life /\ s.ord = r.ord /\ s.pdev = r.pdev /\ s.max = r.max
          /\ s.chunks = sb[v]
      BY <1>1, <3>2, RecordChunks
    <3>6. /\ q.life = s.life /\ q.ord = s.ord /\ q.pdev = s.pdev /\ q.max = s.max
          /\ q.chunks = s.chunks /\ q.active = sb[v]
      BY <1>1, <3>3, RecordChunks
    <3> QED BY <2>2, <3>3, <3>4, <3>5, <3>6
  <2> QED BY <2>1, <2>2
<1>4. vol' = [v \in Volume |-> vol'[v]]
  BY DEF Recover
<1> QED BY <1>3, <1>4

(* Every variable keeps its type: no chunk ever has a negative number of     *)
(* free blocks or more than its size, and a resize always is for a volume.   *)
LEMMA TypeStep ==
  ASSUME TypeInv, [Next]_vars
  PROVE  TypeInv'
<1> USE Bounds DEF TypeInv, TypeOK, CallsNameVolumes
<1>1. CASE UNCHANGED vars
  BY <1>1 DEF vars
<1>2. ASSUME NEW v \in Volume, NEW n \in Ordinal, NEW p \in Pdev, NEW m \in Sizes,
             AllocateInitChunks(v, n, p, m)
      PROVE  TypeInv'
  <2>1. PICK new \in SUBSET pool :
            /\ pool' = pool \ new
            /\ m_vol_ordinal' = [c \in Chunk |-> IF c \in new THEN n ELSE m_vol_ordinal[c]]
            /\ vol' = [vol EXCEPT ![v] = [life |-> "allocated", ord |-> n, pdev |-> p,
                                          max |-> m, chunks |-> new, active |-> new]]
    BY <1>2 DEF AllocateInitChunks, kSubset
  <2>2. UNCHANGED <<avail, sb, resize_op, job, call, phase, crashes, overtaken>>
    BY <1>2 DEF AllocateInitChunks
  <2> QED BY <2>1, <2>2 DEF VolumeRecord
<1>3. ASSUME NEW v \in Volume,
             Publish(v) \/ DestroySuperblock(v) \/ ReleaseChunks(v) \/ Erase(v)
      PROVE  TypeInv'
  <2>1. CASE Publish(v)
    BY <2>1, SetLife DEF Publish, Life, VolumeRecord
  <2>2. CASE DestroySuperblock(v)
    BY <2>2, SetLife DEF DestroySuperblock, Life
  <2>3. CASE ReleaseChunks(v)
    <3>1. vol[v].chunks \subseteq Chunk
      BY DEF VolumeRecord
    <3>2. pool' \subseteq Chunk
      BY <2>3, <3>1 DEF ReleaseChunks
    <3>3. avail' \in [Chunk -> 0 .. Blks]
      BY <2>3 DEF ReleaseChunks
    <3>4. m_vol_ordinal' \in [Chunk -> Ordinal \cup {None}]
      BY <2>3 DEF ReleaseChunks
    <3> QED BY <2>3, <3>2, <3>3, <3>4, SetLife DEF ReleaseChunks, Life
  <2>4. CASE Erase(v)
    BY <2>4, SetLife DEF Erase, Life
  <2> QED BY <1>3, <2>1, <2>2, <2>3, <2>4
<1>4. ASSUME NEW v \in Volume, NEW c \in Chunk, FreeBlk(v, c)
      PROVE  TypeInv'
  BY <1>4 DEF FreeBlk
<1>5. ASSUME NEW w \in Writer, SelectStep(w)
      PROVE  TypeInv'
  <2>1. CASE SkipResize(w)
    BY <2>1 DEF SkipResize
  <2>2. CASE TryResize(w)
    BY <2>2 DEF TryResize
  <2>3. CASE ResizeBusy(w)
    BY <2>3 DEF ResizeBusy
  <2>4. CASE ResizeClaim(w)
    BY <2>4 DEF ResizeClaim
  <2>5. CASE ResizeNotNeeded(w)
    BY <2>5 DEF ResizeNotNeeded
  <2>6. CASE ResizePost(w)
    BY <2>6 DEF ResizePost
  <2>7. ASSUME NEW c \in Chunk, Selected(w, c)
        PROVE  TypeInv'
    BY <2>7 DEF Selected, NoCall
  <2>8. CASE SleepAndRetry(w)
    BY <2>8 DEF SleepAndRetry
  <2> QED BY <1>5, <2>1, <2>2, <2>3, <2>4, <2>5, <2>6, <2>7, <2>8 DEF SelectStep
<1>6. ASSUME NEW w \in Writer, NEW v \in Volume, NEW n \in 1 .. Blks, SelectChunk(w, v, n)
      PROVE  TypeInv'
  <2> DEFINE low == n > Available(v) \/ 2 * Available(v) < Total(v)
  <2>1. low \in BOOLEAN
    OBVIOUS
  <2>2. call' = [call EXCEPT ![w] = [stage |-> "loop", vol |-> v, nblks |-> n, low |-> low]]
    BY <1>6 DEF SelectChunk
  <2>3. UNCHANGED <<pool, m_vol_ordinal, avail, vol, sb, resize_op, job, phase, crashes, overtaken>>
    BY <1>6 DEF SelectChunk
  <2> HIDE DEF low
  <2> QED BY <2>1, <2>2, <2>3
<1>7. CASE ResizeStep
  <2>1. CASE ResizeTake
    <3>1. PICK new \in SUBSET Takeable :
              pool' = pool \ new /\ job' = [job EXCEPT !.stage = "taken", !.new = new]
      BY <2>1 DEF ResizeTake, kSubset
    <3> QED BY <2>1, <3>1 DEF ResizeTake, Takeable
  <2>2. CASE ResizeAdd
    <3>1. vol' \in [Volume -> VolumeRecord]
      BY <2>2, SetChunks DEF ResizeAdd
    <3> QED BY <2>2, <3>1 DEF ResizeAdd
  <2>3. ASSUME NEW v \in Volume, ResizePersist(v)
        PROVE  TypeInv'
    BY <2>3 DEF ResizePersist, VolumeRecord
  <2>4. CASE ResizeActivate
    BY <2>4, SetActive DEF ResizeActivate, NoJob
  <2>5. CASE ResizeAborts
    <3>1. Stop("aborted") /\ crashes' = crashes
      BY <2>5 DEF ResizeAborts
    <3>2. vol' \in [Volume -> VolumeRecord]
      BY <3>1, SetStopped
    <3> QED BY <3>1, <3>2 DEF Stop, NoJob, NoCall
  <2> QED BY <1>7, <2>1, <2>2, <2>3, <2>4, <2>5 DEF ResizeStep
<1>8. CASE Crash
  BY <1>8, SetStopped DEF Crash, Stop, NoJob, NoCall
<1>9. CASE Recover
  <2>1. ASSUME NEW c \in Persisted
        PROVE  (CHOOSE v \in Recovered : c \in sb[v]) \in Volume
    BY DEF Persisted, Recovered
  <2>2. m_vol_ordinal' \in [Chunk -> Ordinal \cup {None}]
    BY <1>9, <2>1 DEF Recover, VolumeRecord
  <2>3. pool' \subseteq Chunk
    BY <1>9 DEF Recover, FreeAfterRecovery
  <2>4. avail' \in [Chunk -> 0 .. Blks]
    BY <1>9 DEF Recover
  <2> QED BY <1>9, <2>2, <2>3, <2>4, SetRecovered DEF Recover
<1> QED BY <1>1, <1>2, <1>3, <1>4, <1>5, <1>6, <1>7, <1>8, <1>9 DEF Next

(* The type invariant holds for every interleaving of selects, resizes,      *)
(* removals, crashes and recoveries; removals may overlap resizes.           *)
THEOREM TypeInvCorrect == Spec => []TypeInv
<1>1. Init => TypeInv
  <2> SUFFICES ASSUME Init PROVE TypeInv
    OBVIOUS
  <2>1. overtaken \in BOOLEAN
    BY DEF Init
  <2>2. avail \in [Chunk -> 0 .. Blks] /\ crashes \in 0 .. MaxCrash
    BY Bounds DEF Init
  <2> QED BY <2>1, <2>2, Bounds DEF Init, TypeInv, TypeOK, CallsNameVolumes, Unborn, NoJob, NoCall, VolumeRecord
<1>2. TypeInv /\ [Next]_vars => TypeInv'
  BY TypeStep
<1> QED BY <1>1, <1>2, PTL DEF Spec

-----------------------------------------------------------------------------
(* The volumes that occupy a slot or an entry of vol_map_. *)
Occupies(v) == vol[v].life \in {"allocated", "live", "dying", "released"}
Owns(v) == vol[v].life \in {"allocated", "live", "dying"}

(* The resize of v has added chunks that are not active yet, respectively    *)
(* not yet in the superblock.                                                *)
Growing(v) == job.stage \in {"added", "persisted"} /\ job.vol = v
Unsaved(v) == job.stage = "added" /\ job.vol = v

(* What exists of a volume at each point of its life: a superblock exactly   *)
(* while it is live, and in the superblock what is active or more.           *)
LifeInv ==
    \A v \in Volume :
        /\ sb[v] # {} <=> vol[v].life = "live"
        /\ phase # "up" => vol[v].life \in {"unborn", "live", "gone"}
        /\ vol[v].life = "allocated" => vol[v].chunks # {}
        /\ sb[v] \subseteq vol[v].chunks
        /\ \A c \in vol[v].chunks : pdev_of[c] = vol[v].pdev

(* Memory against superblock: they differ only by the chunks of the resize   *)
(* in progress, and only between its steps.                                  *)
ResizeInv ==
    phase = "up" => \A v \in Volume :
        /\ Owns(v) /\ ~Growing(v) => vol[v].chunks = vol[v].active
        /\ Owns(v) /\ Growing(v) => vol[v].chunks = vol[v].active \cup job.new
        /\ vol[v].life = "live" /\ Unsaved(v) => sb[v] = vol[v].active
        /\ vol[v].life = "live" /\ ~Unsaved(v) => sb[v] = vol[v].chunks

(* One resize at a time, of a live volume; taken chunks fit its size and     *)
(* device.                                                                   *)
JobInv ==
    job.stage # "none" =>
        /\ phase = "up" /\ resize_op = "InProgress"
        /\ vol[job.vol].life = "live"
        /\ \A w \in Writer : call[w].stage # "recheck"
        /\ job.stage = "taken" =>
               /\ \A c \in job.new : pdev_of[c] = vol[job.vol].pdev
               /\ Cardinality(vol[job.vol].active) + Cardinality(job.new) <= vol[job.vol].max

(* A select_chunk runs on a live volume; one thread at a time has claimed    *)
(* the resize and not yet posted it.                                         *)
CallInv ==
    /\ \A w \in Writer : call[w].stage # "idle" => phase = "up" /\ vol[call[w].vol].life = "live"
    /\ \A w \in Writer : call[w].stage = "recheck" => resize_op = "InProgress"
    /\ \A u, w \in Writer : call[u].stage = "recheck" /\ call[w].stage = "recheck" => u = w

(* No two volumes that are in a slot or in vol_map_ have the same ordinal. *)
OrdinalInv ==
    \A u, v \in Volume : u # v /\ Occupies(u) /\ Occupies(v) => vol[u].ord # vol[v].ord

(* ChunksConserved, chunk by chunk. *)
ChunkInv ==
    phase = "up" =>
        /\ \A u, v \in Volume : u # v => \A c \in Holds(u) : c \notin Holds(v)
        /\ \A c \in pool : m_vol_ordinal[c] = None /\ \A v \in Volume : c \notin Holds(v)
        /\ job.stage = "taken" =>
               \A c \in job.new : c \notin pool /\ \A v \in Volume : c \notin Holds(v)
        /\ \A c \in Chunk : \/ c \in pool
                            \/ \E v \in Volume : c \in Holds(v)
                            \/ job.stage = "taken" /\ c \in job.new

(* The superblocks share no chunk, and a volume's chunks are on its device. *)
SuperblockInv ==
    \A v \in Volume : /\ \A u \in Volume \ {v} : sb[u] \cap sb[v] = {}
                      /\ \A c \in sb[v] : pdev_of[c] = vol[v].pdev

(* The chunks of a volume are within its size. *)
SizeInv == \A v \in Volume : Cardinality(vol[v].chunks) <= vol[v].max

SelectorInv == /\ LifeInv
               /\ ResizeInv
               /\ JobInv
               /\ CallInv
               /\ OrdinalInv
               /\ ChunkInv
               /\ SuperblockInv
               /\ SizeInv

-----------------------------------------------------------------------------
(* Sets of chunks are finite and can be counted. *)
LEMMA ChunkSets ==
  ASSUME NEW C \in SUBSET Chunk, NEW D \in SUBSET Chunk
  PROVE  /\ Cardinality(C) \in Nat /\ Cardinality(D) \in Nat
         /\ C # {} <=> Cardinality(C) > 0
         /\ C \subseteq D => Cardinality(C) <= Cardinality(D)
         /\ Cardinality(C \cup D) <= Cardinality(C) + Cardinality(D)
<1>1. IsFiniteSet(C) /\ IsFiniteSet(D)
  BY SizeAssumption, FS_Subset
<1>2. Cardinality(C) \in Nat /\ Cardinality(D) \in Nat
  BY <1>1, FS_CardinalityType
<1>3. C # {} <=> Cardinality(C) > 0
  BY <1>1, <1>2, FS_EmptySet
<1>4. C \subseteq D => Cardinality(C) <= Cardinality(D)
  BY <1>1, FS_Subset
<1>5. Cardinality(C \cup D) <= Cardinality(C) + Cardinality(D)
  <2>1. IsFiniteSet(C \cap D)
    BY <1>1, FS_Subset
  <2>2. Cardinality(C \cap D) \in Nat
    BY <2>1, FS_CardinalityType
  <2>3. Cardinality(C \cup D) = Cardinality(C) + Cardinality(D) - Cardinality(C \cap D)
    BY <1>1, FS_Union
  <2> QED BY <1>2, <2>2, <2>3
<1> QED BY <1>2, <1>3, <1>4, <1>5

(* The smaller of two numbers, as the code takes it with std::min. *)
LEMMA MinOfTwo ==
  ASSUME NEW a \in Int, NEW b \in Int
  PROVE  Min({a, b}) \in {a, b} /\ Min({a, b}) <= a /\ Min({a, b}) <= b
<1>1. \E x \in {a, b} : \A y \in {a, b} : x <= y
  OBVIOUS
<1> QED BY <1>1 DEF Min

(* A step of select_chunk that neither claims nor posts a resize, on a live  *)
(* volume, disturbs nothing.                                                 *)
LEMMA CallsOnly ==
  ASSUME TypeInv, SelectorInv,
         UNCHANGED <<pool, m_vol_ordinal, vol, sb, resize_op, job, phase>>,
         NEW w \in Writer, \A u \in Writer : u # w => call'[u] = call[u],
         call'[w].stage # "recheck",
         call'[w].stage # "idle" => phase = "up" /\ vol[call'[w].vol].life = "live"
  PROVE  SelectorInv'
<1>1. LifeInv' /\ OrdinalInv' /\ SuperblockInv' /\ SizeInv'
  BY DEF SelectorInv, LifeInv, OrdinalInv, Occupies, SuperblockInv, SizeInv
<1>2. ResizeInv' /\ ChunkInv'
  BY DEF SelectorInv, ResizeInv, Owns, Growing, Unsaved, ChunkInv, Holds
<1>3. JobInv' /\ CallInv'
  BY DEF SelectorInv, JobInv, CallInv
<1> QED BY <1>1, <1>2, <1>3 DEF SelectorInv

(* The steps of select_chunk keep the invariant; a resize is claimed by one  *)
(* thread and posted only when none is in progress.                          *)
LEMMA SelectStepKeeps ==
  ASSUME TypeInv, SelectorInv, NEW w \in Writer, SelectStep(w)
  PROVE  SelectorInv'
<1> USE DEF TypeInv, TypeOK
<1>1. CASE SkipResize(w) \/ TryResize(w) \/ ResizeBusy(w) \/ ResizeNotNeeded(w)
           \/ SleepAndRetry(w) \/ \E c \in Chunk : Selected(w, c)
  <2>1. /\ UNCHANGED <<pool, m_vol_ordinal, vol, sb, resize_op, job, phase>>
        /\ \A u \in Writer : u # w => call'[u] = call[u]
    BY <1>1 DEF SkipResize, TryResize, ResizeBusy, ResizeNotNeeded, SleepAndRetry, Selected
  <2>2. phase = "up" /\ call[w].stage # "idle"
    BY <1>1 DEF SkipResize, TryResize, ResizeBusy, ResizeNotNeeded, SleepAndRetry, Selected
  <2>3. /\ call'[w].stage # "recheck"
        /\ call'[w].stage # "idle" => call'[w].vol = call[w].vol
    BY <1>1 DEF SkipResize, TryResize, ResizeBusy, ResizeNotNeeded, SleepAndRetry, Selected,
       NoCall
  <2>4. vol[call[w].vol].life = "live"
    BY <2>2 DEF SelectorInv, CallInv
  <2> QED BY <2>1, <2>2, <2>3, <2>4, CallsOnly
<1>2. CASE ResizeClaim(w)
  <2>1. /\ UNCHANGED <<pool, m_vol_ordinal, avail, vol, sb, job, phase, crashes>>
        /\ resize_op = "Idle" /\ resize_op' = "InProgress" /\ phase = "up"
        /\ \A u \in Writer : u # w => call'[u] = call[u]
        /\ call[w].stage = "cas" /\ call'[w].stage = "recheck" /\ call'[w].vol = call[w].vol
    BY <1>2 DEF ResizeClaim
  <2>2. job.stage = "none" /\ \A u \in Writer : call[u].stage # "recheck"
    BY <2>1 DEF SelectorInv, JobInv, CallInv
  <2>3. LifeInv' /\ OrdinalInv' /\ SuperblockInv' /\ SizeInv'
    BY <2>1 DEF SelectorInv, LifeInv, OrdinalInv, Occupies, SuperblockInv, SizeInv
  <2>4. ResizeInv' /\ ChunkInv'
    BY <2>1 DEF SelectorInv, ResizeInv, Owns, Growing, Unsaved, ChunkInv, Holds
  <2>5. JobInv' /\ CallInv'
    BY <2>1, <2>2 DEF SelectorInv, JobInv, CallInv
  <2> QED BY <2>3, <2>4, <2>5 DEF SelectorInv
<1>3. CASE ResizePost(w)
  <2>1. /\ UNCHANGED <<pool, m_vol_ordinal, avail, vol, sb, resize_op, phase, crashes>>
        /\ \A u \in Writer : u # w => call'[u] = call[u]
        /\ call[w].stage = "recheck" /\ call'[w].stage = "scan" /\ call'[w].vol = call[w].vol
        /\ job'.stage = "posted" /\ job'.vol = call[w].vol /\ phase = "up"
    BY <1>3 DEF ResizePost
  <2>2. /\ job.stage = "none" /\ resize_op = "InProgress"
        /\ \A u \in Writer : u # w => call[u].stage # "recheck"
        /\ vol[call[w].vol].life = "live"
    BY <2>1 DEF SelectorInv, JobInv, CallInv
  <2>3. LifeInv' /\ OrdinalInv' /\ SuperblockInv' /\ SizeInv'
    BY <2>1 DEF SelectorInv, LifeInv, OrdinalInv, Occupies, SuperblockInv, SizeInv
  <2>4. ResizeInv' /\ ChunkInv'
    BY <2>1, <2>2 DEF SelectorInv, ResizeInv, Owns, Growing, Unsaved, ChunkInv, Holds
  <2>5. JobInv' /\ CallInv'
    BY <2>1, <2>2 DEF SelectorInv, JobInv, CallInv
  <2> QED BY <2>3, <2>4, <2>5 DEF SelectorInv
<1> QED BY <1>1, <1>2, <1>3 DEF SelectStep

(* allocate_init_chunks gives a new volume free chunks of one device, and an *)
(* ordinal nobody has.                                                       *)
LEMMA AllocateKeeps ==
  ASSUME TypeInv, SelectorInv, NEW v \in Volume, NEW n \in Ordinal, NEW p \in Pdev,
         NEW m \in Sizes, AllocateInitChunks(v, n, p, m)
  PROVE  SelectorInv'
<1> USE DEF TypeInv, TypeOK, VolumeRecord
<1>1. PICK new \in SUBSET pool :
          /\ \A c \in new : pdev_of[c] = p
          /\ Cardinality(new) = Min({m, InitChunks})
          /\ pool' = pool \ new
          /\ m_vol_ordinal' = [c \in Chunk |-> IF c \in new THEN n ELSE m_vol_ordinal[c]]
          /\ vol' = [vol EXCEPT ![v] = [life |-> "allocated", ord |-> n, pdev |-> p,
                                        max |-> m, chunks |-> new, active |-> new]]
  BY DEF AllocateInitChunks, kSubset
<1>2. /\ UNCHANGED <<sb, resize_op, job, call, phase>> /\ phase = "up"
      /\ vol[v].life = "unborn" /\ \A u \in Volume : Occupies(u) => vol[u].ord # n
  BY DEF AllocateInitChunks, InSlot, InMap, Occupies
<1>3. new # {} /\ Cardinality(new) <= m
  <2>1. m \in Nat /\ m > 0 /\ InitChunks \in Nat /\ InitChunks > 0
    BY SizeAssumption
  <2>2. Cardinality(new) > 0 /\ Cardinality(new) <= m
    BY <1>1, <2>1, MinOfTwo, m \in Int, InitChunks \in Int, ZenonT(40)
  <2> QED BY <2>2, ChunkSets
<1>4. /\ vol'[v] = [life |-> "allocated", ord |-> n, pdev |-> p, max |-> m,
                    chunks |-> new, active |-> new]
      /\ \A u \in Volume : u # v => vol'[u] = vol[u]
  BY <1>1
<1>5. sb[v] = {} /\ (job.vol # v \/ job.stage = "none")
  BY <1>2 DEF SelectorInv, LifeInv, JobInv
<1>6. LifeInv' /\ SuperblockInv' /\ SizeInv'
  BY <1>1, <1>2, <1>3, <1>4, <1>5 DEF SelectorInv, LifeInv, SuperblockInv, SizeInv
<1>7. ResizeInv'
  BY <1>2, <1>4, <1>5 DEF SelectorInv, ResizeInv, Owns, Growing, Unsaved
<1>8. JobInv' /\ CallInv'
  BY <1>2, <1>4, <1>5 DEF SelectorInv, JobInv, CallInv, CallsNameVolumes
<1>9. OrdinalInv'
  BY <1>2, <1>4 DEF SelectorInv, OrdinalInv, Occupies
<1>10. ChunkInv'
  <2>1. Holds(v)' = new /\ Holds(v) = {} /\ \A u \in Volume : u # v => Holds(u)' = Holds(u)
    BY <1>2, <1>4 DEF Holds
  <2>2. \A c \in pool : m_vol_ordinal[c] = None /\ \A u \in Volume : c \notin Holds(u)
    BY <1>2 DEF SelectorInv, ChunkInv
  <2>3. \A c \in pool' : m_vol_ordinal'[c] = None /\ \A u \in Volume : c \notin Holds(u)'
    BY <1>1, <2>1, <2>2
  <2>4. \A t, u \in Volume : t # u => \A c \in Holds(t)' : c \notin Holds(u)'
    BY <1>1, <1>2, <2>1, <2>2 DEF SelectorInv, ChunkInv
  <2>5. job'.stage = "taken" =>
            \A c \in job'.new : c \notin pool' /\ \A u \in Volume : c \notin Holds(u)'
    BY <1>1, <1>2, <2>1 DEF SelectorInv, ChunkInv
  <2>6. ASSUME NEW c \in Chunk
        PROVE  \/ c \in pool'
               \/ \E u \in Volume : c \in Holds(u)'
               \/ job'.stage = "taken" /\ c \in job'.new
    BY <1>1, <1>2, <2>1 DEF SelectorInv, ChunkInv
  <2> QED BY <2>3, <2>4, <2>5, <2>6 DEF ChunkInv
<1> QED BY <1>6, <1>7, <1>8, <1>9, <1>10 DEF SelectorInv

(* The steps of a volume's life after its chunks are allocated: publication, *)
(* and the destruction, if it overtakes no resize of the volume.             *)
LEMMA LifeStepKeeps ==
  ASSUME ~overtaken', TypeInv, SelectorInv, NEW v \in Volume,
         Publish(v) \/ DestroySuperblock(v) \/ ReleaseChunks(v) \/ Erase(v)
  PROVE  SelectorInv'
<1> USE DEF TypeInv, TypeOK
<1>1. CASE Publish(v)
  <2>1. /\ vol[v].life = "allocated" /\ vol'[v].life = "live" /\ phase = "up"
        /\ \A u \in Volume : u # v => vol'[u] = vol[u] /\ sb'[u] = sb[u]
        /\ \A u \in Volume : /\ vol'[u].ord = vol[u].ord /\ vol'[u].pdev = vol[u].pdev
                             /\ vol'[u].max = vol[u].max /\ vol'[u].chunks = vol[u].chunks
                             /\ vol'[u].active = vol[u].active
        /\ sb'[v] = vol[v].chunks
        /\ UNCHANGED <<pool, m_vol_ordinal, resize_op, job, call, phase>>
    BY <1>1, SetLife DEF Publish, Life
  <2>2. job.stage = "none" \/ job.vol # v
    BY <2>1 DEF SelectorInv, JobInv
  <2>3. Holds(v)' = vol[v].chunks /\ Holds(v) = vol[v].chunks
        /\ \A u \in Volume : Holds(u)' = Holds(u)
    BY <2>1 DEF Holds
  <2>4. LifeInv' /\ SizeInv'
    BY <2>1 DEF SelectorInv, LifeInv, SizeInv
  <2>5. ResizeInv'
    BY <2>1, <2>2 DEF SelectorInv, ResizeInv, Owns, Growing, Unsaved
  <2>6. JobInv' /\ CallInv'
    BY <2>1, <2>2 DEF SelectorInv, JobInv, CallInv, CallsNameVolumes
  <2>7. OrdinalInv' /\ ChunkInv'
    BY <2>1, <2>3 DEF SelectorInv, OrdinalInv, Occupies, ChunkInv
  <2>8. SuperblockInv'
    <3>1. \A u \in Volume : sb[u] \subseteq Holds(u)
      BY DEF SelectorInv, LifeInv, Holds
    <3> QED BY <2>1, <2>3, <3>1 DEF SelectorInv, SuperblockInv, ChunkInv, LifeInv
  <2> QED BY <2>4, <2>5, <2>6, <2>7, <2>8 DEF SelectorInv
<1>2. CASE DestroySuperblock(v)
  <2>1. /\ vol[v].life = "live" /\ vol'[v].life = "dying" /\ phase = "up"
        /\ \A u \in Volume : u # v => vol'[u] = vol[u] /\ sb'[u] = sb[u]
        /\ \A u \in Volume : /\ vol'[u].ord = vol[u].ord /\ vol'[u].pdev = vol[u].pdev
                             /\ vol'[u].max = vol[u].max /\ vol'[u].chunks = vol[u].chunks
                             /\ vol'[u].active = vol[u].active
        /\ sb'[v] = {} /\ \A w \in Writer : call[w].vol # v
        /\ UNCHANGED <<pool, m_vol_ordinal, resize_op, job, call, phase>>
    BY <1>2, SetLife DEF DestroySuperblock, Life
  <2>0. job.vol # v
    BY <1>2 DEF DestroySuperblock
  <2>2. \A u \in Volume : Holds(u)' = Holds(u)
    BY <2>1 DEF Holds
  <2>3. LifeInv' /\ SizeInv' /\ SuperblockInv'
    BY <2>1 DEF SelectorInv, LifeInv, SizeInv, SuperblockInv
  <2>4. ResizeInv'
    BY <2>0, <2>1 DEF SelectorInv, ResizeInv, Owns, Growing, Unsaved
  <2>5. JobInv' /\ CallInv'
    BY <2>0, <2>1 DEF SelectorInv, JobInv, CallInv, CallsNameVolumes
  <2>6. OrdinalInv' /\ ChunkInv'
    BY <2>1, <2>2 DEF SelectorInv, OrdinalInv, Occupies, ChunkInv
  <2> QED BY <2>3, <2>4, <2>5, <2>6 DEF SelectorInv
<1>3. CASE ReleaseChunks(v)
  <2>1. /\ vol[v].life = "dying" /\ vol'[v].life = "released" /\ phase = "up"
        /\ \A u \in Volume : u # v => vol'[u] = vol[u]
        /\ \A u \in Volume : /\ vol'[u].ord = vol[u].ord /\ vol'[u].pdev = vol[u].pdev
                             /\ vol'[u].max = vol[u].max /\ vol'[u].chunks = vol[u].chunks
                             /\ vol'[u].active = vol[u].active
        /\ pool' = pool \cup vol[v].chunks
        /\ m_vol_ordinal' = [c \in Chunk |-> IF c \in vol[v].chunks THEN None
                                             ELSE m_vol_ordinal[c]]
        /\ UNCHANGED <<sb, resize_op, job, call, phase>>
    BY <1>3, SetLife DEF ReleaseChunks, Life
  <2>2. job.stage = "none" \/ job.vol # v
    BY <2>1 DEF SelectorInv, JobInv
  <2>3. Holds(v)' = {} /\ Holds(v) = vol[v].chunks /\ vol[v].chunks \subseteq Chunk
        /\ \A u \in Volume : u # v => Holds(u)' = Holds(u)
    BY <2>1 DEF Holds, VolumeRecord
  <2>4. LifeInv' /\ SizeInv' /\ SuperblockInv'
    BY <2>1 DEF SelectorInv, LifeInv, SizeInv, SuperblockInv
  <2>5. ResizeInv'
    BY <2>1, <2>2 DEF SelectorInv, ResizeInv, Owns, Growing, Unsaved
  <2>6. JobInv' /\ CallInv'
    BY <2>1, <2>2 DEF SelectorInv, JobInv, CallInv, CallsNameVolumes
  <2>7. OrdinalInv'
    BY <2>1 DEF SelectorInv, OrdinalInv, Occupies
  <2>8. ChunkInv'
    BY <2>1, <2>3, SMTT(30) DEF SelectorInv, ChunkInv
  <2> QED BY <2>4, <2>5, <2>6, <2>7, <2>8 DEF SelectorInv
<1>4. CASE Erase(v)
  <2>1. /\ vol[v].life = "released" /\ vol'[v].life = "gone" /\ phase = "up"
        /\ \A u \in Volume : u # v => vol'[u] = vol[u]
        /\ \A u \in Volume : /\ vol'[u].ord = vol[u].ord /\ vol'[u].pdev = vol[u].pdev
                             /\ vol'[u].max = vol[u].max /\ vol'[u].chunks = vol[u].chunks
                             /\ vol'[u].active = vol[u].active
        /\ UNCHANGED <<pool, m_vol_ordinal, sb, resize_op, job, call, phase>>
    BY <1>4, SetLife DEF Erase, Life
  <2>2. \A u \in Volume : Holds(u)' = Holds(u)
    BY <2>1 DEF Holds
  <2>3. LifeInv' /\ SizeInv' /\ SuperblockInv'
    BY <2>1 DEF SelectorInv, LifeInv, SizeInv, SuperblockInv
  <2>4. ResizeInv'
    BY <2>1 DEF SelectorInv, ResizeInv, Owns, Growing, Unsaved
  <2>5. JobInv' /\ CallInv'
    BY <2>1 DEF SelectorInv, JobInv, CallInv, CallsNameVolumes
  <2>6. OrdinalInv' /\ ChunkInv'
    BY <2>1, <2>2 DEF SelectorInv, OrdinalInv, Occupies, ChunkInv
  <2> QED BY <2>3, <2>4, <2>5, <2>6 DEF SelectorInv
<1> QED BY <1>1, <1>2, <1>3, <1>4

(* The worker takes at most as many chunks as the volume has room for, all   *)
(* of its device and all free.                                               *)
LEMMA ResizeTakeKeeps ==
  ASSUME TypeInv, SelectorInv, ResizeTake
  PROVE  SelectorInv'
<1> USE DEF TypeInv, TypeOK
<1>1. PICK new \in SUBSET pool :
          /\ \A c \in new : pdev_of[c] = vol[job.vol].pdev
          /\ Cardinality(new) = Wanted
          /\ pool' = pool \ new /\ job' = [job EXCEPT !.stage = "taken", !.new = new]
  BY DEF ResizeTake, kSubset, Takeable
<1>2. /\ job.stage = "posted" /\ phase = "up"
      /\ UNCHANGED <<m_vol_ordinal, vol, sb, resize_op, call, phase>>
      /\ job'.stage = "taken" /\ job'.vol = job.vol /\ job'.new = new
  BY <1>1 DEF ResizeTake
<1>3. job.vol \in Volume
  BY <1>2 DEF CallsNameVolumes
<1>4. Cardinality(vol[job.vol].active) + Cardinality(new) <= vol[job.vol].max
  <2>1. vol[job.vol].active \in SUBSET Chunk /\ new \in SUBSET Chunk /\ vol[job.vol].max \in Int
    BY <1>3 DEF VolumeRecord
  <2>2. Cardinality(vol[job.vol].active) \in Nat /\ Cardinality(new) \in Nat
    BY <2>1, ChunkSets
  <2>3. vol[job.vol].max - Cardinality(vol[job.vol].active) \in Int /\ ResizeChunks \in Int
    BY <2>1, <2>2, SizeAssumption
  <2>4. Wanted <= vol[job.vol].max - Cardinality(vol[job.vol].active)
    BY <2>3, MinOfTwo DEF Wanted
  <2> QED BY <1>1, <2>1, <2>2, <2>4
<1>5. LifeInv' /\ OrdinalInv' /\ SuperblockInv' /\ SizeInv'
  BY <1>2 DEF SelectorInv, LifeInv, OrdinalInv, Occupies, SuperblockInv, SizeInv
<1>6. ResizeInv'
  BY <1>2 DEF SelectorInv, ResizeInv, Owns, Growing, Unsaved
<1>7. JobInv' /\ CallInv'
  BY <1>1, <1>2, <1>4 DEF SelectorInv, JobInv, CallInv
<1>8. ChunkInv'
  <2>1. \A v \in Volume : Holds(v)' = Holds(v)
    BY <1>2 DEF Holds
  <2> QED BY <1>1, <1>2, <2>1 DEF SelectorInv, ChunkInv
<1> QED BY <1>5, <1>6, <1>7, <1>8 DEF SelectorInv

(* The chunks move from the resize to the volume; they fit its size. *)
LEMMA ResizeAddKeeps ==
  ASSUME TypeInv, SelectorInv, ResizeAdd
  PROVE  SelectorInv'
<1> USE DEF TypeInv, TypeOK
<1>1. PICK v \in Volume : v = job.vol
  BY DEF ResizeAdd, CallsNameVolumes
<1>2. /\ job.stage = "taken" /\ phase = "up"
      /\ UNCHANGED <<pool, m_vol_ordinal, sb, resize_op, call, phase>>
      /\ job'.stage = "added" /\ job'.vol = v /\ job'.new = job.new
      /\ job.new \in SUBSET Chunk
  BY <1>1 DEF ResizeAdd
<1>3. /\ \A u \in Volume : /\ u # v => vol'[u] = vol[u]
                           /\ vol'[u].ord = vol[u].ord /\ vol'[u].pdev = vol[u].pdev
                           /\ vol'[u].max = vol[u].max /\ vol'[u].life = vol[u].life
                           /\ vol'[u].active = vol[u].active
      /\ vol'[v].chunks = vol[v].chunks \cup job.new
  BY <1>1, <1>2, SetChunks DEF ResizeAdd
<1>4. /\ vol[v].life = "live" /\ vol[v].chunks = vol[v].active /\ sb[v] = vol[v].chunks
      /\ \A c \in job.new : pdev_of[c] = vol[v].pdev
      /\ Cardinality(vol[v].active) + Cardinality(job.new) <= vol[v].max
      /\ \A w \in Writer : call[w].stage # "recheck"
  BY <1>1, <1>2 DEF SelectorInv, JobInv, ResizeInv, Owns, Growing, Unsaved
<1>5. SizeInv'
  <2>1. PICK A \in SUBSET Chunk, B \in SUBSET Chunk :
            A = vol[v].chunks /\ B = job.new /\ vol[v].max \in Int
    BY <1>2 DEF VolumeRecord
  <2>2. A \cup B \in SUBSET Chunk
    OBVIOUS
  <2>3. Cardinality(A \cup B) \in Nat
    BY <2>2, ChunkSets
  <2>4. /\ Cardinality(A) \in Nat /\ Cardinality(B) \in Nat
        /\ Cardinality(A \cup B) <= Cardinality(A) + Cardinality(B)
    BY ChunkSets
  <2>5. Cardinality(vol'[v].chunks) <= vol[v].max
    BY <1>3, <1>4, <2>1, <2>3, <2>4
  <2> QED BY <1>3, <2>5 DEF SelectorInv, SizeInv
<1>6. LifeInv' /\ OrdinalInv' /\ SuperblockInv'
  <2>1. LifeInv'
    BY <1>2, <1>3, <1>4 DEF SelectorInv, LifeInv
  <2>2. OrdinalInv'
    BY <1>2, <1>3 DEF SelectorInv, OrdinalInv, Occupies
  <2>3. SuperblockInv'
    BY <1>2, <1>3 DEF SelectorInv, SuperblockInv
  <2> QED BY <2>1, <2>2, <2>3
<1>7. ResizeInv'
  BY <1>1, <1>2, <1>3, <1>4 DEF SelectorInv, ResizeInv, Owns, Growing, Unsaved
<1>8. JobInv' /\ CallInv'
  BY <1>1, <1>2, <1>3, <1>4 DEF SelectorInv, JobInv, CallInv, CallsNameVolumes
<1>9. ChunkInv'
  <2>1. Holds(v)' = Holds(v) \cup job.new /\ \A u \in Volume : u # v => Holds(u)' = Holds(u)
    BY <1>3, <1>4 DEF Holds
  <2> QED BY <1>2, <2>1 DEF SelectorInv, ChunkInv
<1> QED BY <1>5, <1>6, <1>7, <1>8, <1>9 DEF SelectorInv

(* update_vol_sb_cb finds, by the ordinal, the volume that is being resized, *)
(* and nobody else's superblock is written.                                  *)
LEMMA ResizePersistKeeps ==
  ASSUME TypeInv, SelectorInv, NEW v \in Volume, ResizePersist(v)
  PROVE  SelectorInv'
<1> USE DEF TypeInv, TypeOK
<1>1. /\ job.stage = "added" /\ phase = "up" /\ job.vol \in Volume
      /\ UNCHANGED <<pool, m_vol_ordinal, vol, resize_op, call, phase>>
      /\ job'.stage = "persisted" /\ job'.vol = job.vol /\ job'.new = job.new
      /\ sb'[v] = vol[job.vol].chunks /\ \A u \in Volume : u # v => sb'[u] = sb[u]
  BY DEF ResizePersist, CallsNameVolumes
<1>2. v = job.vol
  BY <1>1 DEF ResizePersist, InMap, SelectorInv, JobInv, OrdinalInv, Occupies
<1>3. vol[v].life = "live" /\ vol[v].chunks # {}
  BY <1>1, <1>2 DEF SelectorInv, JobInv, LifeInv
<1>4. LifeInv' /\ SizeInv' /\ OrdinalInv'
  BY <1>1, <1>2, <1>3 DEF SelectorInv, LifeInv, SizeInv, OrdinalInv, Occupies
<1>5. ResizeInv'
  BY <1>1, <1>2 DEF SelectorInv, ResizeInv, Owns, Growing, Unsaved
<1>6. JobInv' /\ CallInv'
  BY <1>1 DEF SelectorInv, JobInv, CallInv
<1>7. ChunkInv'
  BY <1>1 DEF SelectorInv, ChunkInv, Holds
<1>8. SuperblockInv'
  <2>1. \A u \in Volume : sb[u] \subseteq Holds(u)
    BY DEF SelectorInv, LifeInv, Holds
  <2>2. sb'[v] = Holds(v)
    BY <1>1, <1>2, <1>3 DEF Holds
  <2>3. \A u \in Volume : sb'[u] \subseteq Holds(u)
    BY <1>1, <2>1, <2>2
  <2>4. \A t, u \in Volume : t # u => sb'[t] \cap sb'[u] = {}
    BY <1>1, <2>3 DEF SelectorInv, ChunkInv
  <2>5. \A u \in Volume : \A c \in sb'[u] : pdev_of[c] = vol[u].pdev
    BY <2>3 DEF SelectorInv, LifeInv, Holds
  <2> QED BY <1>1, <2>4, <2>5 DEF SuperblockInv
<1> QED BY <1>4, <1>5, <1>6, <1>7, <1>8 DEF SelectorInv

(* Activation: by now the superblock names the new chunks. *)
LEMMA ResizeActivateKeeps ==
  ASSUME TypeInv, SelectorInv, ResizeActivate
  PROVE  SelectorInv'
<1> USE DEF TypeInv, TypeOK
<1>1. PICK v \in Volume : v = job.vol
  BY DEF ResizeActivate, CallsNameVolumes
<1>2. /\ job.stage = "persisted" /\ phase = "up"
      /\ UNCHANGED <<pool, m_vol_ordinal, sb, call, phase>>
      /\ job'.stage = "none" /\ job.new \in SUBSET Chunk
  BY DEF ResizeActivate, NoJob
<1>3. /\ \A u \in Volume : /\ u # v => vol'[u] = vol[u]
                           /\ vol'[u].ord = vol[u].ord /\ vol'[u].pdev = vol[u].pdev
                           /\ vol'[u].max = vol[u].max /\ vol'[u].life = vol[u].life
                           /\ vol'[u].chunks = vol[u].chunks
      /\ vol'[v].active = vol[v].active \cup job.new
  BY <1>1, <1>2, SetActive DEF ResizeActivate
<1>4. LifeInv' /\ OrdinalInv' /\ SuperblockInv' /\ SizeInv'
  BY <1>2, <1>3 DEF SelectorInv, LifeInv, OrdinalInv, Occupies, SuperblockInv, SizeInv
<1>5. ResizeInv'
  <2>1. /\ vol[v].life = "live" /\ vol[v].chunks = vol[v].active \cup job.new
        /\ sb[v] = vol[v].chunks
    BY <1>1, <1>2 DEF SelectorInv, ResizeInv, JobInv, Owns, Growing, Unsaved
  <2>2. \A u \in Volume : u # v => /\ Owns(u) => vol[u].chunks = vol[u].active
                                   /\ vol[u].life = "live" => sb[u] = vol[u].chunks
    BY <1>1, <1>2 DEF SelectorInv, ResizeInv, Growing, Unsaved
  <2>3. \A u \in Volume : /\ Owns(u)' => vol'[u].chunks = vol'[u].active
                          /\ vol'[u].life = "live" => sb'[u] = vol'[u].chunks
    <3>1. ASSUME NEW u \in Volume, u # v
          PROVE  /\ Owns(u)' => vol'[u].chunks = vol'[u].active
                 /\ vol'[u].life = "live" => sb'[u] = vol'[u].chunks
      BY <1>2, <1>3, <2>2, <3>1 DEF Owns
    <3>2. vol'[v].chunks = vol'[v].active /\ sb'[v] = vol'[v].chunks
      BY <1>2, <1>3, <2>1
    <3> QED BY <3>1, <3>2
  <2> QED BY <1>2, <2>3 DEF ResizeInv, Growing, Unsaved
<1>6. JobInv' /\ CallInv'
  BY <1>2, <1>3 DEF SelectorInv, JobInv, CallInv, CallsNameVolumes
<1>7. ChunkInv'
  <2>1. \A u \in Volume : Holds(u)' = Holds(u)
    BY <1>3 DEF Holds
  <2> QED BY <1>2, <2>1 DEF SelectorInv, ChunkInv
<1> QED BY <1>4, <1>5, <1>6, <1>7 DEF SelectorInv

(* A crash, or an assertion of the resize, at any point. *)
LEMMA StopKeeps ==
  ASSUME TypeInv, SelectorInv, NEW p, p # "up", Stop(p)
  PROVE  SelectorInv'
<1> USE DEF TypeInv
<1>1. /\ \A v \in Volume : /\ vol'[v].ord = vol[v].ord /\ vol'[v].pdev = vol[v].pdev
                           /\ vol'[v].max = vol[v].max /\ vol'[v].chunks = vol[v].chunks
                           /\ vol'[v].life = IF vol[v].life = "unborn" \/ sb[v] # {}
                                             THEN vol[v].life ELSE "gone"
      /\ sb' = sb /\ phase' # "up" /\ job'.stage = "none"
      /\ \A w \in Writer : call'[w].stage = "idle"
  BY SetStopped DEF Stop, NoJob, NoCall
<1>2. LifeInv'
  BY <1>1 DEF SelectorInv, LifeInv
<1>3. ResizeInv' /\ ChunkInv' /\ JobInv' /\ CallInv'
  BY <1>1 DEF ResizeInv, ChunkInv, JobInv, CallInv
<1>4. OrdinalInv' /\ SuperblockInv' /\ SizeInv'
  BY <1>1 DEF SelectorInv, OrdinalInv, Occupies, SuperblockInv, SizeInv
<1> QED BY <1>2, <1>3, <1>4 DEF SelectorInv

(* Recovery rebuilds the selector from the superblocks alone. *)
LEMMA RecoverKeeps ==
  ASSUME TypeInv, SelectorInv, Recover
  PROVE  SelectorInv'
<1> USE DEF TypeInv
<1>1. /\ \A v \in Volume : /\ vol'[v].ord = vol[v].ord /\ vol'[v].pdev = vol[v].pdev
                           /\ vol'[v].max = vol[v].max
                           /\ sb[v] = {} => vol'[v] = vol[v]
                           /\ sb[v] # {} => /\ vol'[v].life = "live"
                                            /\ vol'[v].chunks = sb[v]
                                            /\ vol'[v].active = sb[v]
      /\ sb' = sb /\ phase' = "up" /\ phase # "up"
      /\ UNCHANGED <<job, call, resize_op>>
      /\ pool' = Chunk \ Persisted
      /\ \A c \in pool' : m_vol_ordinal'[c] = None
  BY SetRecovered DEF Recover, FreeAfterRecovery
<1>2. job.stage = "none" /\ \A w \in Writer : call[w].stage = "idle"
  BY <1>1 DEF SelectorInv, JobInv, CallInv
<1>3. \A v \in Volume : /\ vol[v].life \in {"unborn", "live", "gone"}
                        /\ sb[v] # {} <=> vol[v].life = "live"
                        /\ sb[v] \subseteq vol[v].chunks
  BY <1>1 DEF SelectorInv, LifeInv
<1>4. \A v \in Volume : vol'[v].life = vol[v].life
  BY <1>1, <1>3
<1>5. LifeInv'
  BY <1>1, <1>3, <1>4 DEF SelectorInv, LifeInv
<1>6. OrdinalInv' /\ SuperblockInv'
  BY <1>1, <1>4 DEF SelectorInv, OrdinalInv, Occupies, SuperblockInv
<1>7. SizeInv'
  <2> SUFFICES ASSUME NEW v \in Volume
               PROVE  Cardinality(vol'[v].chunks) <= vol'[v].max
    BY DEF SizeInv
  <2>1. vol[v].chunks \in SUBSET Chunk /\ sb[v] \in SUBSET Chunk /\ vol[v].max \in Nat
    BY DEF TypeOK, VolumeRecord
  <2>2. /\ Cardinality(sb[v]) \in Nat /\ Cardinality(vol[v].chunks) \in Nat
        /\ Cardinality(sb[v]) <= Cardinality(vol[v].chunks)
    BY <1>3, <2>1, ChunkSets
  <2>3. Cardinality(vol[v].chunks) <= vol[v].max
    BY DEF SelectorInv, SizeInv
  <2> QED BY <1>1, <2>1, <2>2, <2>3
<1>8. ResizeInv' /\ JobInv' /\ CallInv'
  BY <1>1, <1>2, <1>3, <1>4 DEF ResizeInv, JobInv, CallInv, Owns, Growing, Unsaved
<1>9. ChunkInv'
  <2>1. \A v \in Volume : Holds(v)' = sb[v]
    BY <1>1, <1>3, <1>4 DEF Holds
  <2>2. \A c \in Chunk : c \in Persisted <=> \E v \in Volume : c \in sb[v]
    BY DEF Persisted, Recovered
  <2>3. \A v \in Volume : sb[v] \subseteq Chunk
    BY DEF TypeOK
  <2> QED BY <1>1, <1>2, <2>1, <2>2, <2>3 DEF SelectorInv, ChunkInv, SuperblockInv
<1> QED BY <1>5, <1>6, <1>7, <1>8, <1>9 DEF SelectorInv

(* Every step of the writers, the worker, the control plane, and every crash *)
(* and recovery keeps SelectorInv, but for a destruction that overtakes the  *)
(* resize of its volume.                                                     *)
LEMMA SelectorStep ==
  ASSUME ~overtaken', TypeInv, SelectorInv, [Next]_vars
  PROVE  SelectorInv'
<1>1. CASE UNCHANGED vars
  BY <1>1 DEF vars, SelectorInv, LifeInv, ResizeInv, JobInv, CallInv, OrdinalInv, ChunkInv,
     SuperblockInv, SizeInv, Occupies, Owns, Growing, Unsaved, Holds
<1>2. ASSUME NEW v \in Volume, NEW c \in Chunk, FreeBlk(v, c)
      PROVE  SelectorInv'
  BY <1>2 DEF FreeBlk, SelectorInv, LifeInv, ResizeInv, JobInv, CallInv, OrdinalInv, ChunkInv,
     SuperblockInv, SizeInv, Occupies, Owns, Growing, Unsaved, Holds
<1>3. ASSUME NEW w \in Writer, NEW v \in Volume, NEW n \in 1 .. Blks, SelectChunk(w, v, n)
      PROVE  SelectorInv'
  <2>1. /\ UNCHANGED <<pool, m_vol_ordinal, vol, sb, resize_op, job, phase>>
        /\ \A u \in Writer : u # w => call'[u] = call[u]
        /\ call'[w].stage = "loop" /\ call'[w].vol = v /\ phase = "up"
        /\ vol[v].life = "live"
    BY <1>3 DEF SelectChunk, TypeInv, TypeOK
  <2> QED BY <2>1, CallsOnly
<1>4. CASE Crash
  BY <1>4, StopKeeps DEF Crash
<1>5. CASE ResizeAborts
  BY <1>5, StopKeeps DEF ResizeAborts
<1> QED BY <1>1, <1>2, <1>3, <1>4, <1>5, AllocateKeeps, LifeStepKeeps, SelectStepKeeps,
        ResizeTakeKeeps, ResizeAddKeeps, ResizePersistKeeps, ResizeActivateKeeps, RecoverKeeps
        DEF Next, ResizeStep

(* No step forgets that a resize was overtaken. *)
LEMMA OvertakenStays ==
  ASSUME [Next]_vars, ~overtaken'
  PROVE  ~overtaken
<1>1. CASE UNCHANGED vars
  BY <1>1 DEF vars
<1>2. ASSUME NEW v \in Volume,
             \/ \E n \in Ordinal, p \in Pdev, m \in Sizes : AllocateInitChunks(v, n, p, m)
             \/ Publish(v) \/ DestroySuperblock(v) \/ ReleaseChunks(v) \/ Erase(v)
             \/ \E c \in Chunk : FreeBlk(v, c)
      PROVE  ~overtaken
  BY <1>2 DEF AllocateInitChunks, Publish, DestroySuperblock, ReleaseChunks, Erase, FreeBlk
<1>3. ASSUME NEW w \in Writer,
             SelectStep(w) \/ \E v \in Volume, n \in 1 .. Blks : SelectChunk(w, v, n)
      PROVE  ~overtaken
  BY <1>3 DEF SelectStep, SkipResize, TryResize, ResizeBusy, ResizeClaim, ResizeNotNeeded,
     ResizePost, Selected, SleepAndRetry, SelectChunk
<1>4. CASE ResizeStep
  BY <1>4 DEF ResizeStep, ResizeTake, ResizeAdd, ResizePersist, ResizeActivate, ResizeAborts, Stop
<1>5. CASE Crash \/ Recover
  BY <1>5 DEF Crash, Stop, Recover
<1> QED BY <1>1, <1>2, <1>3, <1>4, <1>5 DEF Next

InvUntilOvertaken == ~overtaken => SelectorInv

(* The invariant holds until a removal overtakes the resize of its volume. *)
THEOREM SelectorCorrect == Spec => []InvUntilOvertaken
<1>1. Init => InvUntilOvertaken
  <2> SUFFICES ASSUME Init PROVE SelectorInv
    BY DEF InvUntilOvertaken
  <2>1. /\ pool = Chunk /\ job.stage = "none" /\ phase = "up"
        /\ \A c \in Chunk : m_vol_ordinal[c] = None
        /\ \A v \in Volume : /\ vol[v].life = "unborn" /\ vol[v].chunks = {}
                             /\ vol[v].max = 0 /\ sb[v] = {}
        /\ \A w \in Writer : call[w].stage = "idle"
    BY DEF Init, Unborn, NoJob, NoCall
  <2>2. Cardinality({}) = 0
    BY FS_EmptySet
  <2>3. LifeInv /\ ResizeInv /\ JobInv /\ CallInv /\ OrdinalInv /\ SuperblockInv
    BY <2>1 DEF LifeInv, ResizeInv, JobInv, CallInv, OrdinalInv, SuperblockInv,
       Occupies, Owns
  <2>4. ChunkInv
    BY <2>1 DEF ChunkInv, Holds
  <2>5. SizeInv
    <3>1. \A v \in Volume : Cardinality(vol[v].chunks) = 0
      BY <2>1, <2>2
    <3> QED BY <2>1, <3>1 DEF SizeInv
  <2> QED BY <2>3, <2>4, <2>5 DEF SelectorInv
<1>2. TypeInv /\ InvUntilOvertaken /\ [Next]_vars => InvUntilOvertaken'
  BY SelectorStep, OvertakenStays DEF InvUntilOvertaken
<1> QED BY <1>1, <1>2, TypeInvCorrect, PTL DEF Spec

-----------------------------------------------------------------------------
(* Every variable has its type, also when a removal overtakes a resize. *)
THEOREM TypeCorrect == Spec => []TypeOK
<1>1. TypeInv => TypeOK
  BY DEF TypeInv
<1> QED BY <1>1, TypeInvCorrect, PTL

(* A chunk is free, or held by exactly one volume, or in the hands of the    *)
(* resize, and none is lost, for every interleaving of creates, writes,      *)
(* resizes, removals, crashes and recoveries, until a removal overtakes the  *)
(* resize of its volume.                                                     *)
THEOREM ConservationCorrect == Spec => []ChunksConserved
<1>1. TypeInv /\ InvUntilOvertaken => ChunksConserved
  <2> SUFFICES ASSUME TypeInv, SelectorInv, phase = "up"
               PROVE  /\ \A u, v \in Volume : u # v => Holds(u) \cap Holds(v) = {}
                      /\ \A v \in Volume : Holds(v) \cap pool = {}
                      /\ \A c \in pool : m_vol_ordinal[c] = None
                      /\ job.stage = "taken" =>
                             job.new \cap (pool \cup UNION {Holds(v) : v \in Volume}) = {}
                      /\ Chunk = pool \cup (UNION {Holds(v) : v \in Volume})
                                      \cup (IF job.stage = "taken" THEN job.new ELSE {})
    BY DEF ChunksConserved, InvUntilOvertaken
  <2>1. pool \subseteq Chunk /\ job.new \subseteq Chunk
        /\ \A v \in Volume : Holds(v) \subseteq Chunk
    BY DEF TypeInv, TypeOK, VolumeRecord, Holds
  <2>2. \A u, v \in Volume : u # v => Holds(u) \cap Holds(v) = {}
    BY DEF SelectorInv, ChunkInv
  <2>3. \A c \in pool : m_vol_ordinal[c] = None /\ \A v \in Volume : c \notin Holds(v)
    BY DEF SelectorInv, ChunkInv
  <2>4. job.stage = "taken" => job.new \cap (pool \cup UNION {Holds(v) : v \in Volume}) = {}
    BY DEF SelectorInv, ChunkInv
  <2>5. \A c \in Chunk : \/ c \in pool
                         \/ \E v \in Volume : c \in Holds(v)
                         \/ job.stage = "taken" /\ c \in job.new
    BY DEF SelectorInv, ChunkInv
  <2>6. Chunk = pool \cup (UNION {Holds(v) : v \in Volume})
                     \cup (IF job.stage = "taken" THEN job.new ELSE {})
    <3>1. CASE job.stage = "taken"
      BY <2>1, <2>5, <3>1
    <3>2. CASE job.stage # "taken"
      BY <2>1, <2>5, <3>2
    <3> QED BY <3>1, <3>2
  <2> QED BY <2>2, <2>3, <2>4, <2>6
<1> QED BY <1>1, TypeInvCorrect, SelectorCorrect, PTL

(* Every chunk a live volume may write to is in its superblock: the resize   *)
(* activates after it persists, and only a removal of the same volume can    *)
(* come between the two and matter.                                          *)
THEOREM ActiveCorrect == Spec => []ActivePersisted
<1>1. InvUntilOvertaken => ActivePersisted
  BY DEF InvUntilOvertaken, SelectorInv, ResizeInv, Owns, Growing, Unsaved, ActivePersisted
<1> QED BY <1>1, SelectorCorrect, PTL

(* After a crash at any point the assertions of recover_chunks hold, until a *)
(* removal overtakes a resize.                                               *)
THEOREM RecoveryCorrect == Spec => []RecoverySucceeds
<1>1. InvUntilOvertaken => RecoverySucceeds
  BY DEF InvUntilOvertaken, SelectorInv, SuperblockInv, RecoverySucceeds
<1> QED BY <1>1, SelectorCorrect, PTL

(* A chunk a superblock names is never in the pool, until a removal          *)
(* overtakes a resize.                                                       *)
THEOREM PersistedCorrect == Spec => []PersistedNotFree
<1>1. InvUntilOvertaken => PersistedNotFree
  <2> SUFFICES ASSUME SelectorInv, phase = "up", NEW v \in Volume, NEW c \in sb[v]
               PROVE  c \notin pool
    BY DEF InvUntilOvertaken, PersistedNotFree, Persisted, Recovered
  <2>1. c \in Holds(v)
    BY DEF SelectorInv, LifeInv, Holds
  <2> QED BY <2>1 DEF SelectorInv, ChunkInv
<1> QED BY <1>1, SelectorCorrect, PTL

(* A volume never has more chunks than its size calls for, although the room *)
(* is computed before the chunks are taken and they are added in a later     *)
(* step; until a removal overtakes a resize.                                 *)
THEOREM SizeCorrect == Spec => []WithinSize
<1>1. InvUntilOvertaken => WithinSize
  BY DEF InvUntilOvertaken, SelectorInv, SizeInv, WithinSize
<1> QED BY <1>1, SelectorCorrect, PTL
=============================================================================
