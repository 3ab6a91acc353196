---------------------------- MODULE VolumeLifecycle ----------------------------
(***************************************************************************)
(* The volume control plane of HomeBlocks: create_volume, remove_volume,   *)
(* the reaper, fault containment, graceful shutdown, crash and boot        *)
(* (volume_mgr.cpp, homeblks_impl.cpp, volume.cpp).                        *)
(*                                                                         *)
(* create_volume runs on a client thread; a removal is posted to a worker  *)
(* reactor and runs there as a coroutine; the reaper and the shutdown      *)
(* check run on timers; IO runs anywhere.  Every action is a stretch       *)
(* between two points where another thread can be seen: a lock, a          *)
(* suspension, or a step that becomes persistent on its own.               *)
(***************************************************************************)
EXTENDS Integers, FiniteSets

CONSTANTS
    Id,            \* volume uuids
    MaxObj,        \* bound: create_volume calls; the n-th makes volume object n
    Ordinal,       \* volume ordinals, MAX_NUM_VOLUMES of them
    Creator,       \* client threads that may be in create_volume together
    Task,          \* removals that may be posted or running together
    Io,            \* IOs that may be in progress together
    MaxCrash,      \* bound on crashes
    Faults         \* TRUE: fault containment events may occur

ASSUME BoundAssumption == /\ MaxObj \in Nat \ {0}
                          /\ MaxCrash \in Nat
                          /\ IsFiniteSet(Creator)
ASSUME SwitchAssumption == Faults \in BOOLEAN

VARIABLES
    vol_map,     \* id -> the volume object registered under it
    vol,         \* per object: id, ordinal, m_state_, outstanding_reqs_,
                 \* destroy_started_, and whether rd_ is set
    sb,          \* persistent: the state in the volume superblock
    index,       \* persistent: objects whose index table exists
    repl,        \* persistent: ids whose solo repl dev exists
    reserved,    \* ordinal_reserver_
    chunks,      \* m_volume_chunks of the data chunk selector, by ordinal
    refs,        \* HomeBlocksImpl::outstanding_reqs_
    lost,        \* history: references of calls that returned without dec_ref
    again,       \* history: destroy() has begun twice on one volume object
    revived,     \* history: objects whose DESTROYING fault containment overwrote
    orphans,     \* history: objects made ONLINE whose id was taken at the emplace
    create, task, io,   \* the calls in progress
    phase,       \* life of the process
    restricted,  \* is_restricted_
    created, crashes    \* bounds used up

objects == <<vol_map, vol, sb, index, repl, reserved, chunks>>
life == <<phase, restricted, created, crashes>>
calls == <<create, task, io>>
history == <<lost, again, revived, orphans>>
vars == <<objects, refs, history, calls, life>>

Obj == 1 .. MaxObj
None == 0

State == {"INIT", "ONLINE", "OFFLINE", "DESTROYING"}
NoVolume == [id |-> None, ord |-> None, state |-> "INIT", outstanding |-> 0,
             started |-> FALSE, rd |-> FALSE]

(* The process runs; it accepts calls until the instance is reset. *)
Running == phase \in {"up", "draining", "released"}
ShuttingDown == phase \in {"draining", "released"}

NoCall == [stage |-> "idle", obj |-> None, id |-> None]

-----------------------------------------------------------------------------
Init ==
    /\ vol_map = [i \in Id |-> None]
    /\ vol = [o \in Obj |-> NoVolume]
    /\ sb = [o \in Obj |-> "none"]
    /\ index = {} /\ repl = {} /\ reserved = {}
    /\ chunks = [n \in Ordinal |-> None]
    /\ refs = 0 /\ lost = 0
    /\ again = FALSE /\ revived = {} /\ orphans = {}
    /\ create = [c \in Creator |-> NoCall]
    /\ task = [k \in Task |-> NoCall]
    /\ io = [i \in Io |-> NoCall]
    /\ phase = "up" /\ restricted = FALSE /\ created = 0 /\ crashes = 0

(* volume::state_change: persists the state if it differs from the           *)
(* superblock's, and then sets the in-memory one.                            *)
StateChange(o, s) ==
    IF sb[o] = s THEN UNCHANGED <<sb, vol>>
    ELSE /\ sb' = [sb EXCEPT ![o] = s]
         /\ vol' = [vol EXCEPT ![o].state = s]

-----------------------------------------------------------------------------
(* create_volume *)

(* The counted reference is taken before vol_lock_. *)
CreateBegin(c, i) ==
    /\ Running /\ ~restricted
    /\ create[c].stage = "idle"
    /\ created < MaxObj
    /\ created' = created + 1
    /\ refs' = refs + 1
    /\ create' = [create EXCEPT ![c] = [stage |-> "begun", obj |-> created', id |-> i]]
    /\ UNCHANGED <<history, objects, task, io, phase, restricted, crashes>>

(* Under vol_lock_: reserve an ordinal, then look the id up.  The three      *)
(* outcomes: no ordinal is left, and the call returns without dec_ref; the   *)
(* id exists, and the ordinal stays reserved; the volume is to be made.      *)
CreateNoOrdinal(c) ==
    /\ Running /\ create[c].stage = "begun"
    /\ reserved = Ordinal
    /\ create' = [create EXCEPT ![c] = NoCall]
    /\ lost' = lost + 1
    /\ UNCHANGED <<objects, refs, again, revived, orphans, task, io, life>>

CreateExists(c, n) ==
    /\ Running /\ create[c].stage = "begun"
    /\ n \in Ordinal \ reserved
    /\ vol_map[create[c].id] # None
    /\ reserved' = reserved \cup {n}
    /\ refs' = refs - 1
    /\ create' = [create EXCEPT ![c] = NoCall]
    /\ UNCHANGED <<history, vol_map, vol, sb, index, repl, chunks, task, io, life>>

CreateReserve(c, n) ==
    /\ Running /\ create[c].stage = "begun"
    /\ n \in Ordinal \ reserved
    /\ vol_map[create[c].id] = None
    /\ reserved' = reserved \cup {n}
    /\ vol' = [vol EXCEPT ![create[c].obj] = [NoVolume EXCEPT !.id = create[c].id,
                                                              !.ord = n]]
    /\ create' = [create EXCEPT ![c].stage = "chunks"]
    /\ UNCHANGED <<history, vol_map, sb, index, repl, chunks, refs, task, io, life>>

(* volume::init, step by step: chunks (an already filled slot is reused),    *)
(* the repl dev, the index table, and the superblock written ONLINE.         *)
CreateChunks(c) ==
    /\ Running /\ create[c].stage = "chunks"
    /\ chunks' = IF chunks[vol[create[c].obj].ord] = None
                 THEN [chunks EXCEPT ![vol[create[c].obj].ord] = create[c].obj]
                 ELSE chunks
    /\ create' = [create EXCEPT ![c].stage = "repl"]
    /\ UNCHANGED <<history, vol_map, vol, sb, index, repl, reserved, refs, task, io, life>>

CreateRepl(c) ==
    /\ Running /\ create[c].stage = "repl"
    /\ create[c].id \notin repl
    /\ repl' = repl \cup {create[c].id}
    /\ vol' = [vol EXCEPT ![create[c].obj].rd = TRUE]
    /\ create' = [create EXCEPT ![c].stage = "index"]
    /\ UNCHANGED <<history, vol_map, sb, index, reserved, chunks, refs, task, io, life>>

CreateIndex(c) ==
    /\ Running /\ create[c].stage = "index"
    /\ index' = index \cup {create[c].obj}
    /\ create' = [create EXCEPT ![c].stage = "online"]
    /\ UNCHANGED <<history, vol_map, vol, sb, repl, reserved, chunks, refs, task, io, life>>

CreateOnline(c) ==
    /\ Running /\ create[c].stage = "online"
    /\ StateChange(create[c].obj, "ONLINE")
    /\ create' = [create EXCEPT ![c].stage = "emplace"]
    /\ UNCHANGED <<history, vol_map, index, repl, reserved, chunks, refs, task, io, life>>

(* std::map::emplace leaves an existing entry alone: the volume just made is  *)
(* then in no map.                                                           *)
CreateEmplace(c) ==
    /\ Running /\ create[c].stage = "emplace"
    /\ vol_map' = IF vol_map[create[c].id] = None
                  THEN [vol_map EXCEPT ![create[c].id] = create[c].obj]
                  ELSE vol_map
    /\ orphans' = IF vol_map[create[c].id] = None THEN orphans
                  ELSE orphans \cup {create[c].obj}
    /\ refs' = refs - 1
    /\ create' = [create EXCEPT ![c] = NoCall]
    /\ UNCHANGED <<lost, again, revived, vol, sb, index, repl, reserved, chunks, task, io, life>>

(* Mutant of CreateFails: dec_ref is missing. *)
CreateFailsKeepsRef(c) ==
    /\ Running /\ create[c].stage \in {"chunks", "repl", "index"}
    /\ create' = [create EXCEPT ![c] = NoCall]
    /\ UNCHANGED <<history, objects, refs, task, io, life>>

(* A failing step of volume::init: what the earlier steps made, and the      *)
(* ordinal, stay behind.                                                     *)
CreateFails(c) ==
    /\ Running /\ create[c].stage \in {"chunks", "repl", "index"}
    /\ refs' = refs - 1
    /\ create' = [create EXCEPT ![c] = NoCall]
    /\ UNCHANGED <<history, objects, task, io, life>>

-----------------------------------------------------------------------------
(* remove_volume: checks, and posts do_remove_volume(id) to a worker. *)

Post(k, i) ==
    /\ task[k].stage = "idle"
    /\ task' = [task EXCEPT ![k] = [stage |-> "posted", obj |-> None, id |-> i]]

Removable(i) == /\ ~restricted
                /\ vol_map[i] # None
                /\ vol[vol_map[i]].state # "OFFLINE"

RemoveVolume(k, i) ==
    /\ Running
    /\ Removable(i)
    /\ Post(k, i)
    /\ UNCHANGED <<history, objects, refs, create, io, life>>

CanRemove(o) == ~vol[o].started /\ vol[o].outstanding = 0

(* Mutant of Reap: destroy_started_ is read the wrong way round. *)
ReapStarted(k, i) ==
    /\ Running
    /\ vol_map[i] # None
    /\ vol[vol_map[i]].state = "DESTROYING" /\ vol[vol_map[i]].started
    /\ Removable(i)
    /\ Post(k, i)
    /\ UNCHANGED <<history, objects, refs, create, io, life>>

(* vol_gc, on its timer, for one of the volumes it collects. *)
Reap(k, i) ==
    /\ Running
    /\ vol_map[i] # None
    /\ vol[vol_map[i]].state = "DESTROYING" /\ CanRemove(vol_map[i])
    /\ Removable(i)
    /\ Post(k, i)
    /\ UNCHANGED <<history, objects, refs, create, io, life>>

(* do_remove_volume, on a worker reactor picked at random: look the id up    *)
(* under vol_lock_; nothing to do if it is gone.                             *)
RemoveNotFound(k) ==
    /\ Running /\ task[k].stage = "posted"
    /\ vol_map[task[k].id] = None
    /\ task' = [task EXCEPT ![k] = NoCall]
    /\ UNCHANGED <<history, objects, refs, create, io, life>>

RemoveFind(k) ==
    /\ Running /\ task[k].stage = "posted"
    /\ vol_map[task[k].id] # None
    /\ task' = [task EXCEPT ![k].stage = "found", ![k].obj = vol_map[task[k].id]]
    /\ UNCHANGED <<history, objects, refs, create, io, life>>

(* The state changes outside the lock. *)
RemoveMark(k) ==
    /\ Running /\ task[k].stage = "found"
    /\ sb[task[k].obj] # "none"
    /\ StateChange(task[k].obj, "DESTROYING")
    /\ task' = [task EXCEPT ![k].stage = "marked"]
    /\ UNCHANGED <<history, vol_map, index, repl, reserved, chunks, refs, create, io, life>>

(* can_remove() decides; if it says no the reaper is left to finish. *)
RemoveCheck(k) ==
    /\ Running /\ task[k].stage = "marked"
    /\ task' = [task EXCEPT ![k] = IF CanRemove(task[k].obj)
                                   THEN [task[k] EXCEPT !.stage = "checked"]
                                   ELSE NoCall]
    /\ UNCHANGED <<history, objects, refs, create, io, life>>

(* volume::destroy() *)

(* Mutant of DestroyBegin: destroy_started_ is never set. *)
DestroyBeginUnmarked(k) ==
    /\ Running /\ task[k].stage = "checked"
    /\ task' = [task EXCEPT ![k].stage = "repl"]
    /\ UNCHANGED <<history, objects, refs, create, io, life>>

DestroyBegin(k) ==
    /\ Running /\ task[k].stage = "checked"
    /\ again' = (again \/ vol[task[k].obj].started)
    /\ vol' = [vol EXCEPT ![task[k].obj].started = TRUE]
    /\ task' = [task EXCEPT ![k].stage = "repl"]
    /\ UNCHANGED <<lost, revived, orphans, vol_map, sb, index, repl, reserved, chunks, refs,
                   create, io, life>>

(* A volume recovered after its repl dev was removed has none to remove. *)
DestroyRepl(k) ==
    /\ Running /\ task[k].stage = "repl"
    /\ repl' = IF vol[task[k].obj].rd THEN repl \ {vol[task[k].obj].id} ELSE repl
    /\ vol' = [vol EXCEPT ![task[k].obj].rd = FALSE]
    /\ task' = [task EXCEPT ![k].stage = "index"]
    /\ UNCHANGED <<history, vol_map, sb, index, reserved, chunks, refs, create, io, life>>

DestroyIndex(k) ==
    /\ Running /\ task[k].stage = "index"
    /\ index' = index \ {task[k].obj}
    /\ task' = [task EXCEPT ![k].stage = "sb"]
    /\ UNCHANGED <<history, vol_map, vol, sb, repl, reserved, chunks, refs, create, io, life>>

(* The superblock goes before the chunks, so that a crash between the two    *)
(* leaves the chunks free.                                                   *)
DestroySuperblock(k) ==
    /\ Running /\ task[k].stage = "sb"
    /\ sb' = [sb EXCEPT ![task[k].obj] = "none"]
    /\ chunks' = [chunks EXCEPT ![vol[task[k].obj].ord] = None]
    /\ task' = [task EXCEPT ![k].stage = "erase"]
    /\ UNCHANGED <<history, vol_map, vol, index, repl, reserved, refs, create, io, life>>

RemoveErase(k) ==
    /\ Running /\ task[k].stage = "erase"
    /\ vol_map' = [vol_map EXCEPT ![vol[task[k].obj].id] = None]
    /\ reserved' = reserved \ {vol[task[k].obj].ord}
    /\ task' = [task EXCEPT ![k] = NoCall]
    /\ UNCHANGED <<history, vol, sb, index, repl, chunks, refs, create, io, life>>

-----------------------------------------------------------------------------
(* IO: io_precheck and the vol_io_guard that counts the request are two      *)
(* steps; the handle may be of a volume that is being removed.               *)

IoPrecheck(i, o) ==
    /\ Running /\ ~restricted /\ ~ShuttingDown
    /\ io[i].stage = "idle"
    /\ ~ \E c \in Creator : create[c].obj = o      \* create_volume has returned the handle
    /\ vol[o].state = "ONLINE"
    /\ io' = [io EXCEPT ![i] = [stage |-> "checked", obj |-> o, id |-> None]]
    /\ UNCHANGED <<history, objects, refs, create, task, life>>

IoBegin(i) ==
    /\ Running /\ io[i].stage = "checked"
    /\ vol' = [vol EXCEPT ![io[i].obj].outstanding = @ + 1]
    /\ io' = [io EXCEPT ![i].stage = "inflight"]
    /\ UNCHANGED <<history, vol_map, sb, index, repl, reserved, chunks, refs, create, task, life>>

IoEnd(i) ==
    /\ Running /\ io[i].stage = "inflight"
    /\ vol' = [vol EXCEPT ![io[i].obj].outstanding = @ - 1]
    /\ io' = [io EXCEPT ![i] = NoCall]
    /\ UNCHANGED <<history, vol_map, sb, index, repl, reserved, chunks, refs, create, task, life>>

-----------------------------------------------------------------------------
(* Fault containment: HBFCSvcCB looks the volume up by id; a volume goes     *)
(* OFFLINE or back ONLINE whatever state it was in, the system RESTRICTED.   *)

FaultVolume(i, s) ==
    /\ Faults /\ Running
    /\ vol_map[i] # None
    /\ sb[vol_map[i]] # "none"
    /\ sb[vol_map[i]] # s
    /\ StateChange(vol_map[i], s)
    /\ revived' = IF sb[vol_map[i]] = "DESTROYING" THEN revived \cup {vol_map[i]} ELSE revived
    /\ UNCHANGED <<lost, again, orphans, vol_map, index, repl, reserved, chunks, refs, calls, life>>

FaultGlobal ==
    /\ Faults /\ Running /\ ~restricted
    /\ restricted' = TRUE
    /\ UNCHANGED <<history, objects, refs, calls, phase, created, crashes>>

-----------------------------------------------------------------------------
(* Shutdown: shutdown() raises the flag and waits; do_shutdown, on a         *)
(* recurring timer, releases it when can_shutdown() holds.                   *)

ShutdownStart ==
    /\ phase = "up"
    /\ phase' = "draining"
    /\ UNCHANGED <<history, objects, refs, calls, restricted, created, crashes>>

(* Mutant of NoOutstandingVols: a volume being destroyed is not waited for. *)
NoOutstandingIo == \A i \in Id : vol_map[i] # None => vol[vol_map[i]].outstanding = 0

NoOutstandingVols ==
    \A i \in Id : vol_map[i] # None => /\ vol[vol_map[i]].state # "DESTROYING"
                                       /\ vol[vol_map[i]].outstanding = 0

DoShutdown ==
    /\ phase = "draining"
    /\ NoOutstandingVols /\ refs = 0
    /\ phase' = "released"
    /\ UNCHANGED <<history, objects, refs, calls, restricted, created, crashes>>

(* Everything in memory is gone; what is persistent stays. *)
ProcessGone ==
    /\ vol_map' = [i \in Id |-> None]
    /\ vol' = [o \in Obj |-> [vol[o] EXCEPT !.state = "INIT", !.outstanding = 0,
                                            !.started = FALSE, !.rd = FALSE]]
    /\ reserved' = {} /\ chunks' = [n \in Ordinal |-> None]
    /\ refs' = 0 /\ lost' = 0 /\ orphans' = {}
    /\ create' = [c \in Creator |-> NoCall]
    /\ task' = [k \in Task |-> NoCall]
    /\ io' = [i \in Io |-> NoCall]
    /\ UNCHANGED <<sb, index, repl, created, again, revived>>

(* The GRACEFUL_SHUTDOWN flag written by shutdown() hides a RESTRICTED flag  *)
(* from the next boot.                                                       *)
ShutdownFinish ==
    /\ phase = "released"
    /\ phase' = "down" /\ restricted' = FALSE
    /\ ProcessGone
    /\ UNCHANGED crashes

Crash ==
    /\ Running /\ crashes < MaxCrash
    /\ phase' = "crashed" /\ crashes' = crashes + 1
    /\ ProcessGone
    /\ UNCHANGED restricted

(* A state_change on a volume whose superblock object is already destroyed:  *)
(* by a removal that found it before, or by fault containment.               *)
TouchDestroyedSuperblock ==
    /\ Running
    /\ \/ \E k \in Task : task[k].stage = "found" /\ sb[task[k].obj] = "none"
       \/ Faults /\ \E i \in Id : vol_map[i] # None /\ sb[vol_map[i]] = "none"
    /\ phase' = "crashed"
    /\ ProcessGone
    /\ UNCHANGED <<restricted, crashes>>

(* Boot: every index table is recovered first, then every volume superblock. *)
(* Two index tables with one ordinal trip the assertion of recover_chunks, a *)
(* superblock without an index table, or a second one with the same id,      *)
(* those of on_vol_meta_blk_found.                                           *)
RecoveredButOffline == {o \in Obj : sb[o] \in {"ONLINE", "DESTROYING"}}   \* mutant: skips OFFLINE

Recovered == {o \in Obj : sb[o] # "none"}
Recoverable == /\ Recovered \subseteq index
               /\ \A o, p \in index : vol[o].ord = vol[p].ord => o = p
               /\ \A o, p \in Recovered : vol[o].id = vol[p].id => o = p

BootAborts ==
    /\ phase \in {"down", "crashed"}
    /\ ~Recoverable
    /\ phase' = "aborted"
    /\ UNCHANGED <<history, objects, refs, calls, restricted, created, crashes>>

(* What on_vol_meta_blk_found and volume::init(recovery) set up for the      *)
(* superblocks found: ordinals, chunk slots, and the removals to resume.     *)
NoRecoveredOrdinals == {}               \* mutant: recovery does not reserve them
NoRecoveredChunks(n) == None            \* mutant: recovery leaves the slots empty

RecoveredOrdinals == {vol[o].ord : o \in Recovered}

RecoveredChunks(n) ==
    IF \E o \in Recovered : vol[o].ord = n
    THEN CHOOSE o \in Recovered : vol[o].ord = n ELSE None

Resumed == {vol[o].id : o \in {p \in Recovered : sb[p] = "DESTROYING" /\ ~restricted}}

Boot ==
    /\ phase \in {"down", "crashed"}
    /\ Recoverable
    /\ phase' = "up"
    /\ vol_map' = [i \in Id |-> IF \E o \in Recovered : vol[o].id = i
                                THEN CHOOSE o \in Recovered : vol[o].id = i ELSE None]
    /\ vol' = [o \in Obj |-> IF o \in Recovered
                             THEN [vol[o] EXCEPT !.state = sb[o], !.rd = (vol[o].id \in repl)]
                             ELSE vol[o]]
    /\ reserved' = RecoveredOrdinals
    /\ chunks' = [n \in Ordinal |-> RecoveredChunks(n)]
    /\ \E by \in [Resumed -> Task] :
           /\ \A i, j \in Resumed : by[i] = by[j] => i = j
           /\ task' = [k \in Task |-> IF \E i \in Resumed : by[i] = k
                                      THEN [stage |-> "posted", obj |-> None,
                                            id |-> CHOOSE i \in Resumed : by[i] = k]
                                      ELSE NoCall]
    /\ UNCHANGED <<history, sb, index, repl, refs, create, io, restricted, created, crashes>>

-----------------------------------------------------------------------------
CreateStep(c) ==
    \/ CreateNoOrdinal(c)
    \/ \E n \in Ordinal : CreateExists(c, n) \/ CreateReserve(c, n)
    \/ CreateChunks(c) \/ CreateRepl(c) \/ CreateIndex(c) \/ CreateOnline(c)
    \/ CreateEmplace(c) \/ CreateFails(c)

RemoveStep(k) ==
    \/ RemoveNotFound(k) \/ RemoveFind(k) \/ RemoveMark(k) \/ RemoveCheck(k)
    \/ DestroyBegin(k) \/ DestroyRepl(k) \/ DestroyIndex(k) \/ DestroySuperblock(k)
    \/ RemoveErase(k)

Next ==
    \/ \E c \in Creator : CreateStep(c) \/ \E i \in Id : CreateBegin(c, i)
    \/ \E k \in Task : RemoveStep(k) \/ \E i \in Id : RemoveVolume(k, i) \/ Reap(k, i)
    \/ \E i \in Io : IoBegin(i) \/ IoEnd(i) \/ \E o \in 1 .. created : IoPrecheck(i, o)
    \/ \E i \in Id, s \in {"ONLINE", "OFFLINE"} : FaultVolume(i, s)
    \/ FaultGlobal
    \/ ShutdownStart \/ DoShutdown \/ ShutdownFinish
    \/ Crash \/ TouchDestroyedSuperblock
    \/ Boot \/ BootAborts

Spec == Init /\ [][Next]_vars

(* Fairness: started calls run; a reactor gets to every coroutine it holds,  *)
(* whatever the others do in between; the timers keep firing and eventually  *)
(* sample a quiet moment; the process is restarted.                          *)
Fairness ==
    /\ \A c \in Creator : WF_vars(CreateStep(c))
    /\ \A k \in Task : SF_vars(RemoveStep(k))
    /\ \A i \in Io : WF_vars(IoBegin(i) \/ IoEnd(i))
    /\ \A i \in Id : SF_vars(\E k \in Task : Reap(k, i))
    /\ SF_vars(DoShutdown) /\ WF_vars(ShutdownFinish) /\ WF_vars(Boot \/ BootAborts)

LiveSpec == Spec /\ Fairness

-----------------------------------------------------------------------------
(* Properties *)

Mapped(o) == \E i \in Id : vol_map[i] = o
Creating(o) == \E c \in Creator : create[c].obj = o /\ create[c].stage \notin {"idle", "begun"}
InDestroy(k) == task[k].stage \in {"repl", "index", "sb", "erase"}
Destroying(o) == \E k \in Task : task[k].obj = o /\ InDestroy(k)

(* The ordinal is "unique to local homeblk instance" (volume.hpp): the       *)
(* volumes in the map, being created or being destroyed have different       *)
(* ordinals, all reserved, so that their chunk slots are their own.  It      *)
(* holds until destroy() has run twice on a volume, which destroy_started_   *)
(* does not prevent (DestroyedOnce): the second run gives away an ordinal    *)
(* that may be another volume's by then.                                     *)
OrdinalsExclusive ==
    ~again => \A o \in Obj : Mapped(o) \/ Creating(o) \/ Destroying(o) =>
        /\ vol[o].ord \in reserved
        /\ \A p \in Obj \ {o} : Mapped(p) \/ Creating(p) \/ Destroying(p)
                                => vol[p].ord # vol[o].ord

(* A registered volume owns the chunk slot of its ordinal until its          *)
(* superblock is destroyed: no other volume's removal, create or failed      *)
(* create released or took it, unless a volume was destroyed twice.          *)
ChunksOwned ==
    ~again => \A o \in Obj : Mapped(o) /\ sb[o] # "none" => chunks[vol[o].ord] = o

(* A registered volume whose destruction has not begun in this process still *)
(* has its superblock and its index table and, outside DESTROYING, holds its *)
(* repl dev, which exists: what every IO on the handle dereferences.  Not so *)
(* a volume whose DESTROYING was overwritten by fault containment: its repl  *)
(* dev may be gone already, and io_precheck lets IO through to it.           *)
RegisteredIsUsable ==
    ~again => \A o \in Obj : Mapped(o) /\ ~vol[o].started =>
        /\ sb[o] # "none" /\ o \in index
        /\ vol[o].state # "DESTROYING" /\ o \notin revived => vol[o].rd /\ vol[o].id \in repl

(* outstanding_reqs_, which shutdown waits on, counts the create_volume calls *)
(* in progress and those that were refused for want of an ordinal, and        *)
(* nothing else: no other way out of create_volume loses or drops a reference. *)
RefsCountCreates ==
    refs = Cardinality({c \in Creator : create[c].stage # "idle"}) + lost

(* "get_volume returns a ready-to-use handle for an existing (created or     *)
(* recovered) volume" (home_blocks.hpp): a volume whose superblock says it   *)
(* exists is in the map, unless its creation has not returned yet, or its id *)
(* was taken when create_volume came to the emplace: two creates of one id   *)
(* with a removal between them.                                              *)
ExistingIsRetrievable ==
    Running /\ ~again => \A o \in Obj \ orphans : sb[o] \in {"ONLINE", "OFFLINE"}
                                                  => Mapped(o) \/ Creating(o)

(* "vol in destroying state already indicates an outstanding volume which    *)
(* consumed in no_outstanding_vols()" (volume_mgr.cpp): the instance is not  *)
(* released while a create_volume or a destroy() is in progress, although    *)
(* nothing counts a removal; except on a volume whose DESTROYING fault       *)
(* containment overwrote, or that is destroyed twice.                        *)
ShutdownWaits ==
    [][phase = "draining" /\ phase' = "released" =>
           /\ \A c \in Creator : create[c].stage = "idle"
           /\ \A k \in Task : InDestroy(k) => again \/ task[k].obj \in revived]_vars

(* A volume marked DESTROYING is eventually gone, also when IO was in        *)
(* progress, when removals race and when the process crashes half way; or the *)
(* boot stops on a superblock whose index table is gone, or a destroy() that  *)
(* ran twice took the volume out of the map, where the reaper looks.         *)
RemovalCompletes ==
    \A o \in Obj : sb[o] = "DESTROYING" ~> (sb[o] = "none" \/ phase = "aborted" \/ again)

(* A graceful shutdown that has started finishes, unless a create_volume was  *)
(* refused for want of an ordinal and kept its reference.                    *)
ShutdownCompletes == phase = "draining" ~> (phase # "draining" \/ lost > 0)

(* destroy_started_ "indicates if volume destroy has started, avoid destroy  *)
(* to be executed more than once" (volume.hpp): two removals never both run  *)
(* destroy() on a volume.                                                    *)
DestroyedOnce ==
    \A j, k \in Task : j # k /\ task[j].obj = task[k].obj => ~(InDestroy(j) /\ InDestroy(k))
=============================================================================
