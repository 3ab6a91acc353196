------------------------- MODULE VolumeLifecycleProofs -------------------------
(***************************************************************************)
(* Proofs about VolumeLifecycle, for every number of ids, ordinals, client  *)
(* threads, removals and IOs, and any number of creates and crashes.        *)
(***************************************************************************)
EXTENDS VolumeLifecycle, FiniteSetTheorems, TLAPS

CreateStage == {"idle", "begun", "chunks", "repl", "index", "online", "emplace"}
TaskStage == {"idle", "posted", "found", "marked", "checked", "repl", "index", "sb", "erase"}
IoStage == {"idle", "checked", "inflight"}
CallRecord(S) == [stage : S, obj : Obj \cup {None}, id : Id \cup {None}]
VolumeRecord == [id : Id \cup {None}, ord : Ordinal \cup {None}, state : State,
                 outstanding : Int, started : BOOLEAN, rd : BOOLEAN]

(* The types the induction needs: those of the calls too, and what a call    *)
(* that has got so far names.                                                *)
TypeInv ==
    /\ vol_map \in [Id -> Obj \cup {None}]
    /\ vol \in [Obj -> VolumeRecord]
    /\ sb \in [Obj -> State \cup {"none"}]
    /\ index \subseteq Obj /\ repl \subseteq Id /\ reserved \subseteq Ordinal
    /\ chunks \in [Ordinal -> Obj \cup {None}]
    /\ create \in [Creator -> CallRecord(CreateStage)]
    /\ task \in [Task -> CallRecord(TaskStage)]
    /\ io \in [Io -> CallRecord(IoStage)]
    /\ phase \in {"up", "draining", "released", "down", "crashed", "aborted"}
    /\ created \in 0 .. MaxObj
    /\ \A c \in Creator : create[c].stage # "idle" => /\ create[c].obj \in 1 .. created
                                                      /\ create[c].id \in Id
    /\ \A k \in Task : /\ task[k].stage # "idle" => task[k].id \in Id
                       /\ task[k].stage \notin {"idle", "posted"} => task[k].obj \in Obj
    /\ \A i \in Io : io[i].stage # "idle" => io[i].obj \in Obj

(* The stages of a call that has made a volume object, and of a removal that *)
(* has one.                                                                  *)
Made(c) == create[c].stage \notin {"idle", "begun"}
Found(k) == task[k].stage \notin {"idle", "posted"}

Unused(o) == /\ sb[o] = "none" /\ o \notin index /\ ~vol[o].rd /\ ~vol[o].started
             /\ \A i \in Id : vol_map[i] # o

(* An object that no create_volume has got to leaves no trace. *)
FreshInv == \A o \in Obj : o > created => Unused(o)

(* A volume that is being made: its ordinal and chunk slot are its own, and  *)
(* it appears nowhere else before the last step.                             *)
CreateInv ==
    /\ \A c \in Creator : create[c].stage = "begun" => Unused(create[c].obj)
    /\ \A c \in Creator : Made(c) =>
           /\ vol[create[c].obj].id = create[c].id
           /\ vol[create[c].obj].ord \in reserved
           /\ \A i \in Id : vol_map[i] # create[c].obj
           /\ ~vol[create[c].obj].started
           /\ sb[create[c].obj] # "none" <=> create[c].stage = "emplace"
           /\ create[c].stage \in {"online", "emplace"} => create[c].obj \in index
           /\ chunks[vol[create[c].obj].ord] = IF create[c].stage = "chunks" THEN None
                                               ELSE create[c].obj
    /\ \A c, d \in Creator : c # d /\ create[c].stage # "idle" /\ create[d].stage # "idle"
                             => create[c].obj # create[d].obj
    /\ \A c, d \in Creator : c # d /\ Made(c) /\ Made(d)
                             => vol[create[c].obj].ord # vol[create[d].obj].ord

(* A registered volume: under its own id, with an ordinal and, as long as it *)
(* has a superblock, a chunk slot of its own; whole unless destroy() began.  *)
MapInv ==
    /\ \A i \in Id : vol_map[i] # None =>
           /\ vol[vol_map[i]].id = i
           /\ vol[vol_map[i]].ord \in reserved
           /\ sb[vol_map[i]] # "none" => chunks[vol[vol_map[i]].ord] = vol_map[i]
           /\ ~vol[vol_map[i]].started => sb[vol_map[i]] # "none" /\ vol_map[i] \in index
           /\ \A c \in Creator : Made(c) => vol[create[c].obj].ord # vol[vol_map[i]].ord
    /\ \A i, j \in Id : i # j /\ vol_map[i] # None /\ vol_map[j] # None
                        => vol[vol_map[i]].ord # vol[vol_map[j]].ord

(* The slot of an ordinal that is not reserved is empty. *)
SlotInv == \A n \in Ordinal \ reserved : chunks[n] = None

(* A removal works on a volume that was registered, and that still is unless *)
(* another removal destroyed it; only one runs destroy() on it.              *)
TaskInv ==
    /\ \A k \in Task : Found(k) =>
           /\ \A p \in Obj : p > created => p # task[k].obj
           /\ \A c \in Creator : create[c].stage # "idle" => create[c].obj # task[k].obj
           /\ vol[task[k].obj].id \in Id
           /\ InDestroy(k) \/ ~vol[task[k].obj].started
              => vol_map[vol[task[k].obj].id] = task[k].obj
           /\ InDestroy(k) => vol[task[k].obj].started
           /\ task[k].stage = "erase" => /\ sb[task[k].obj] = "none"
                                         /\ chunks[vol[task[k].obj].ord] = None
    /\ \A j, k \in Task : j # k /\ InDestroy(j) /\ InDestroy(k) => task[j].obj # task[k].obj

(* A volume object that holds its repl dev: the repl dev exists, and no      *)
(* other object of the same id holds it.                                     *)
ReplInv ==
    /\ \A o \in Obj : vol[o].rd => vol[o].id \in repl
    /\ \A o, p \in Obj : o # p /\ vol[o].rd /\ vol[p].rd => vol[o].id # vol[p].id

(* What has a superblock has an id and an ordinal. *)
PersistInv == \A o \in Obj : sb[o] # "none" => vol[o].id \in Id /\ vol[o].ord \in Ordinal

(* Nothing but the persistent state survives the process. *)
StoppedInv ==
    ~Running => /\ \A i \in Id : vol_map[i] = None
                /\ \A c \in Creator : create[c].stage = "idle"
                /\ \A k \in Task : task[k].stage = "idle"
                /\ \A o \in Obj : ~vol[o].rd /\ ~vol[o].started

LifecycleInv == /\ FreshInv
                /\ CreateInv
                /\ MapInv
                /\ SlotInv
                /\ TaskInv
                /\ ReplInv
                /\ PersistInv
                /\ StoppedInv

(* What has a superblock is registered or about to be, or lost its id.       *)
KnownInv ==
    Running => \A o \in Obj \ orphans :
        sb[o] # "none" => \/ \E i \in Id : vol_map[i] = o
                          \/ \E c \in Creator : Made(c) /\ create[c].obj = o

(* A volume being made has an id and an ordinal. *)
MadeTyped == \A c \in Creator : Made(c) => /\ vol[create[c].obj].id \in Id
                                           /\ vol[create[c].obj].ord \in Ordinal

-----------------------------------------------------------------------------
(* What the updates of the model do, field by field. *)

(* The assumption on the bounds, and that no object is called None. *)
LEMMA Bounds == /\ MaxObj \in Nat /\ MaxObj > 0 /\ MaxCrash \in Nat
                /\ None \notin Obj /\ Obj \subseteq Nat
  BY BoundAssumption DEF None, Obj

(* What the invariants read of a volume: all but m_state_ and the            *)
(* outstanding requests.                                                     *)
SameIds == \A o \in Obj : vol'[o].id = vol[o].id /\ vol'[o].ord = vol[o].ord
SameVolumes == /\ SameIds
               /\ \A o \in Obj : vol'[o].started = vol[o].started /\ vol'[o].rd = vol[o].rd

(* A change of the state. *)
LEMMA SetState ==
  ASSUME vol \in [Obj -> VolumeRecord], NEW o \in Obj, NEW s \in State,
         vol' = [vol EXCEPT ![o].state = s]
  PROVE  vol' \in [Obj -> VolumeRecord] /\ SameVolumes
<1>1. vol[o] \in VolumeRecord
  OBVIOUS
<1>2. PICK r \in VolumeRecord : /\ r = [vol[o] EXCEPT !.state = s]
                                /\ r.id = vol[o].id /\ r.ord = vol[o].ord
                                /\ r.started = vol[o].started /\ r.rd = vol[o].rd
  BY <1>1 DEF VolumeRecord
<1>3. vol' = [vol EXCEPT ![o] = r]
  BY <1>2
<1> QED BY <1>2, <1>3 DEF SameVolumes, SameIds

(* A change of the number of outstanding requests. *)
LEMMA SetOutstanding ==
  ASSUME vol \in [Obj -> VolumeRecord], NEW o \in Obj, NEW n \in Int,
         vol' = [vol EXCEPT ![o].outstanding = n]
  PROVE  vol' \in [Obj -> VolumeRecord] /\ SameVolumes
<1>1. vol[o] \in VolumeRecord
  OBVIOUS
<1>2. PICK r \in VolumeRecord : /\ r = [vol[o] EXCEPT !.outstanding = n]
                                /\ r.id = vol[o].id /\ r.ord = vol[o].ord
                                /\ r.started = vol[o].started /\ r.rd = vol[o].rd
  BY <1>1 DEF VolumeRecord
<1>3. vol' = [vol EXCEPT ![o] = r]
  BY <1>2
<1> QED BY <1>2, <1>3 DEF SameVolumes, SameIds

(* The mark of a destroy() that has begun. *)
LEMMA SetStarted ==
  ASSUME vol \in [Obj -> VolumeRecord], NEW o \in Obj,
         vol' = [vol EXCEPT ![o].started = TRUE]
  PROVE  /\ vol' \in [Obj -> VolumeRecord] /\ SameIds
         /\ \A p \in Obj : vol'[p].rd = vol[p].rd
         /\ \A p \in Obj \ {o} : vol'[p] = vol[p]
         /\ vol'[o].started
<1>1. PICK s \in VolumeRecord : s = vol[o]
  OBVIOUS
<1>2. PICK b \in BOOLEAN : b = TRUE
  OBVIOUS
<1>3. PICK r : r = [s EXCEPT !.started = b]
  OBVIOUS
<1>4. r \in VolumeRecord
  BY <1>1, <1>3 DEF VolumeRecord
<1>5. r.id = s.id /\ r.ord = s.ord /\ r.started = b /\ r.rd = s.rd
  BY <1>1, <1>3 DEF VolumeRecord
<1>6. vol' = [vol EXCEPT ![o] = r]
  BY <1>1, <1>2, <1>3
<1> QED BY <1>1, <1>2, <1>4, <1>5, <1>6 DEF SameIds

(* A repl dev opened or given up. *)
LEMMA SetRd ==
  ASSUME vol \in [Obj -> VolumeRecord], NEW o \in Obj, NEW b \in BOOLEAN,
         vol' = [vol EXCEPT ![o].rd = b]
  PROVE  /\ vol' \in [Obj -> VolumeRecord] /\ SameIds
         /\ \A p \in Obj : vol'[p].started = vol[p].started
         /\ \A p \in Obj \ {o} : vol'[p] = vol[p]
         /\ vol'[o].rd = b
<1>1. vol[o] \in VolumeRecord
  OBVIOUS
<1>2. PICK r \in VolumeRecord : /\ r = [vol[o] EXCEPT !.rd = b]
                                /\ r.id = vol[o].id /\ r.ord = vol[o].ord
                                /\ r.started = vol[o].started /\ r.rd = b
  BY <1>1 DEF VolumeRecord
<1>3. vol' = [vol EXCEPT ![o] = r]
  BY <1>2
<1> QED BY <1>2, <1>3 DEF SameIds

(* A new volume object. *)
LEMMA SetNew ==
  ASSUME vol \in [Obj -> VolumeRecord], NEW o \in Obj, NEW i \in Id, NEW n \in Ordinal,
         vol' = [vol EXCEPT ![o] = [NoVolume EXCEPT !.id = i, !.ord = n]]
  PROVE  /\ vol' \in [Obj -> VolumeRecord]
         /\ \A p \in Obj \ {o} : vol'[p] = vol[p]
         /\ vol'[o].id = i /\ vol'[o].ord = n
         /\ ~vol'[o].started /\ ~vol'[o].rd
<1>1. PICK f \in BOOLEAN : f = FALSE
  OBVIOUS
<1>2. PICK q : q = [id |-> None, ord |-> None, state |-> "INIT", outstanding |-> 0,
                    started |-> f, rd |-> f]
  OBVIOUS
<1>3. PICK p : p = [id |-> i, ord |-> None, state |-> "INIT", outstanding |-> 0,
                    started |-> f, rd |-> f]
  OBVIOUS
<1>4. PICK r : r = [id |-> i, ord |-> n, state |-> "INIT", outstanding |-> 0,
                    started |-> f, rd |-> f]
  OBVIOUS
<1>5. NoVolume = q
  BY <1>1, <1>2 DEF NoVolume
<1>6. [q EXCEPT !.id = i] = p
  BY <1>2, <1>3
<1>7. [p EXCEPT !.ord = n] = r
  BY <1>3, <1>4
<1>8. [NoVolume EXCEPT !.id = i, !.ord = n] = r
  BY <1>5, <1>6, <1>7
<1>9. r \in VolumeRecord /\ r.id = i /\ r.ord = n /\ r.started = f /\ r.rd = f
  BY <1>4 DEF VolumeRecord, State
<1>10. vol' = [vol EXCEPT ![o] = r]
  BY <1>8
<1> QED BY <1>1, <1>9, <1>10

(* The next stage of a create_volume: what it is about stays. *)
LEMMA SetCreate ==
  ASSUME create \in [Creator -> CallRecord(CreateStage)], NEW c \in Creator, NEW s \in CreateStage,
         create' = [create EXCEPT ![c].stage = s]
  PROVE  /\ create' \in [Creator -> CallRecord(CreateStage)]
         /\ \A d \in Creator : create'[d].obj = create[d].obj /\ create'[d].id = create[d].id
         /\ \A d \in Creator \ {c} : create'[d] = create[d]
         /\ create'[c].stage = s
<1>1. PICK r \in CallRecord(CreateStage) :
          /\ r = [create[c] EXCEPT !.stage = s]
          /\ r.stage = s /\ r.obj = create[c].obj /\ r.id = create[c].id
  BY DEF CallRecord
<1>2. create' = [create EXCEPT ![c] = r]
  BY <1>1
<1> QED BY <1>1, <1>2

(* The next stage of a removal. *)
LEMMA SetTask ==
  ASSUME task \in [Task -> CallRecord(TaskStage)], NEW k \in Task, NEW s \in TaskStage,
         task' = [task EXCEPT ![k].stage = s]
  PROVE  /\ task' \in [Task -> CallRecord(TaskStage)]
         /\ \A d \in Task : task'[d].obj = task[d].obj /\ task'[d].id = task[d].id
         /\ \A d \in Task \ {k} : task'[d] = task[d]
         /\ task'[k].stage = s
<1>1. PICK r \in CallRecord(TaskStage) :
          /\ r = [task[k] EXCEPT !.stage = s]
          /\ r.stage = s /\ r.obj = task[k].obj /\ r.id = task[k].id
  BY DEF CallRecord
<1>2. task' = [task EXCEPT ![k] = r]
  BY <1>1
<1> QED BY <1>1, <1>2

(* The next stage of an IO. *)
LEMMA SetIo ==
  ASSUME io \in [Io -> CallRecord(IoStage)], NEW i \in Io, NEW s \in IoStage,
         io' = [io EXCEPT ![i].stage = s]
  PROVE  /\ io' \in [Io -> CallRecord(IoStage)]
         /\ \A d \in Io : io'[d].obj = io[d].obj /\ io'[d].id = io[d].id
         /\ \A d \in Io \ {i} : io'[d] = io[d]
         /\ io'[i].stage = s
<1>1. PICK r \in CallRecord(IoStage) :
          /\ r = [io[i] EXCEPT !.stage = s]
          /\ r.stage = s /\ r.obj = io[i].obj /\ r.id = io[i].id
  BY DEF CallRecord
<1>2. io' = [io EXCEPT ![i] = r]
  BY <1>1
<1> QED BY <1>1, <1>2

(* A removal that has found its volume. *)
LEMMA SetFound ==
  ASSUME task \in [Task -> CallRecord(TaskStage)], NEW k \in Task, NEW o \in Obj,
         task' = [task EXCEPT ![k].stage = "found", ![k].obj = o]
  PROVE  /\ task' \in [Task -> CallRecord(TaskStage)]
         /\ \A j \in Task \ {k} : task'[j] = task[j]
         /\ task'[k].stage = "found" /\ task'[k].obj = o /\ task'[k].id = task[k].id
<1>1. PICK r \in CallRecord(TaskStage) :
          /\ r = [task[k] EXCEPT !.stage = "found"]
          /\ r.stage = "found" /\ r.id = task[k].id
  BY DEF CallRecord, TaskStage
<1>2. PICK q : q = [r EXCEPT !.obj = o]
  OBVIOUS
<1>3. q = [stage |-> r.stage, obj |-> o, id |-> r.id]
  BY <1>1, <1>2 DEF CallRecord
<1>4. /\ q \in CallRecord(TaskStage)
      /\ q.stage = "found" /\ q.id = task[k].id /\ q.obj = o
  BY <1>1, <1>3 DEF CallRecord
<1>5. PICK t : t = [task EXCEPT ![k].stage = "found"]
  OBVIOUS
<1>6. t = [task EXCEPT ![k] = r]
  BY <1>1, <1>5
<1>7. task' = [t EXCEPT ![k].obj = o]
  BY <1>5
<1>8. task' = [task EXCEPT ![k] = q]
  BY <1>2, <1>6, <1>7
<1> QED BY <1>1, <1>4, <1>8

(* No call in progress is a call record in any set of stages with "idle". *)
LEMMA NoCallType ==
  /\ NoCall.stage = "idle"
  /\ NoCall \in CallRecord(CreateStage) /\ NoCall \in CallRecord(TaskStage)
  /\ NoCall \in CallRecord(IoStage)
  BY DEF NoCall, CallRecord, CreateStage, TaskStage, IoStage

(* The end of the process: of a volume its id and its ordinal are left. *)
LEMMA SetGone ==
  ASSUME vol \in [Obj -> VolumeRecord], ProcessGone
  PROVE  /\ vol' \in [Obj -> VolumeRecord] /\ SameIds
         /\ \A o \in Obj : ~vol'[o].started /\ ~vol'[o].rd
<1>1. ASSUME NEW o \in Obj
      PROVE  /\ vol'[o] \in VolumeRecord
             /\ vol'[o].id = vol[o].id /\ vol'[o].ord = vol[o].ord
             /\ ~vol'[o].started /\ ~vol'[o].rd
  <2>1. PICK r \in VolumeRecord : r = vol[o]
    OBVIOUS
  <2>2. PICK f \in BOOLEAN : f = FALSE
    OBVIOUS
  <2>3. PICK r1 : r1 = [r EXCEPT !.state = "INIT"]
    OBVIOUS
  <2>4. r1 \in VolumeRecord /\ r1.id = r.id /\ r1.ord = r.ord
    BY <2>3 DEF VolumeRecord, State
  <2>5. PICK r2 : r2 = [r1 EXCEPT !.outstanding = 0]
    OBVIOUS
  <2>6. r2 \in VolumeRecord /\ r2.id = r.id /\ r2.ord = r.ord
    BY <2>4, <2>5 DEF VolumeRecord
  <2>7. PICK r3 : r3 = [r2 EXCEPT !.started = f]
    OBVIOUS
  <2>8. r3 \in VolumeRecord
    BY <2>6, <2>7 DEF VolumeRecord
  <2>9. r3.id = r.id /\ r3.ord = r.ord /\ r3.started = f
    BY <2>6, <2>7 DEF VolumeRecord
  <2>10. PICK r4 : r4 = [r3 EXCEPT !.rd = f]
    OBVIOUS
  <2>11. r4 \in VolumeRecord
    BY <2>8, <2>10 DEF VolumeRecord
  <2>12. r4.id = r.id /\ r4.ord = r.ord /\ r4.started = f /\ r4.rd = f
    BY <2>8, <2>9, <2>10 DEF VolumeRecord
  <2>13. vol'[o] = [vol[o] EXCEPT !.state = "INIT", !.outstanding = 0,
                                  !.started = FALSE, !.rd = FALSE]
    BY DEF ProcessGone
  <2>14. vol'[o] = r4
    BY <2>1, <2>2, <2>3, <2>5, <2>7, <2>10, <2>13
  <2> QED BY <2>1, <2>2, <2>11, <2>12, <2>14
<1>2. vol' = [o \in Obj |-> vol'[o]]
  BY DEF ProcessGone
<1> QED BY <1>1, <1>2 DEF SameIds

(* A boot: a volume with a superblock takes its state from there, and has a  *)
(* repl dev if one of its id was found.                                      *)
LEMMA SetBooted ==
  ASSUME vol \in [Obj -> VolumeRecord], sb \in [Obj -> State \cup {"none"}], Boot
  PROVE  /\ vol' \in [Obj -> VolumeRecord] /\ SameIds
         /\ \A o \in Obj : vol'[o].started = vol[o].started
         /\ \A o \in Obj : sb[o] = "none" => vol'[o].rd = vol[o].rd
         /\ \A o \in Obj : sb[o] # "none" => vol'[o].rd = (vol[o].id \in repl)
<1>1. ASSUME NEW o \in Obj
      PROVE  /\ vol'[o] \in VolumeRecord
             /\ vol'[o].id = vol[o].id /\ vol'[o].ord = vol[o].ord
             /\ vol'[o].started = vol[o].started
             /\ sb[o] = "none" => vol'[o].rd = vol[o].rd
             /\ sb[o] # "none" => vol'[o].rd = (vol[o].id \in repl)
  <2>1. CASE sb[o] = "none"
    <3>1. vol'[o] = vol[o]
      BY <2>1 DEF Boot, Recovered
    <3> QED BY <2>1, <3>1
  <2>2. CASE sb[o] # "none"
    <3>1. PICK r \in VolumeRecord : r = vol[o]
      OBVIOUS
    <3>2. PICK b \in BOOLEAN : b = (vol[o].id \in repl)
      <4>1. CASE vol[o].id \in repl
        <5>1. TRUE = (vol[o].id \in repl)
          BY <4>1
        <5> QED BY <5>1, Zenon
      <4>2. CASE vol[o].id \notin repl
        <5>1. FALSE = (vol[o].id \in repl)
          BY <4>2
        <5> QED BY <5>1, Zenon
      <4> QED BY <4>1, <4>2
    <3>3. PICK r1 : r1 = [r EXCEPT !.state = sb[o]]
      OBVIOUS
    <3>4. sb[o] \in State
      BY <2>2
    <3>5. r1 \in VolumeRecord /\ r1.id = r.id /\ r1.ord = r.ord /\ r1.started = r.started
      BY <3>3, <3>4 DEF VolumeRecord
    <3>6. PICK r2 : r2 = [r1 EXCEPT !.rd = b]
      OBVIOUS
    <3>7. r2 \in VolumeRecord
      BY <3>5, <3>6 DEF VolumeRecord
    <3>8. r2.id = r.id /\ r2.ord = r.ord /\ r2.started = r.started /\ r2.rd = b
      BY <3>5, <3>6 DEF VolumeRecord
    <3>9. vol'[o] = [vol[o] EXCEPT !.state = sb[o], !.rd = (vol[o].id \in repl)]
      BY <2>2 DEF Boot, Recovered
    <3>10. vol'[o] = r2
      BY <3>1, <3>2, <3>3, <3>6, <3>9
    <3> QED BY <2>2, <3>1, <3>2, <3>7, <3>8, <3>10
  <2> QED BY <2>1, <2>2
<1>2. vol' = [o \in Obj |-> vol'[o]]
  BY DEF Boot
<1> QED BY <1>1, <1>2 DEF SameIds

-----------------------------------------------------------------------------
(* Types *)

(* A change of state keeps the types, what the invariants read of a volume,  *)
(* and, but for a volume that had none, which superblocks exist.             *)
LEMMA StateStep ==
  ASSUME TypeInv, NEW o \in Obj, NEW s \in State, StateChange(o, s)
  PROVE  /\ vol' \in [Obj -> VolumeRecord] /\ sb' \in [Obj -> State \cup {"none"}]
         /\ SameVolumes
         /\ \A p \in Obj \ {o} : sb'[p] = sb[p]
         /\ sb'[o] = s
<1>1. CASE sb[o] = s
  BY <1>1 DEF StateChange, TypeInv, SameVolumes, SameIds
<1>2. CASE sb[o] # s
  <2>1. vol' = [vol EXCEPT ![o].state = s] /\ sb' = [sb EXCEPT ![o] = s]
    BY <1>2 DEF StateChange
  <2>2. s \in State \cup {"none"}
    OBVIOUS
  <2>3. /\ sb' \in [Obj -> State \cup {"none"}]
        /\ \A p \in Obj \ {o} : sb'[p] = sb[p]
        /\ sb'[o] = s
    BY <2>1, <2>2 DEF TypeInv
  <2> QED BY <2>1, <2>3, SetState DEF TypeInv
<1> QED BY <1>1, <1>2

(* The types after a step of create_volume. *)
LEMMA CreateType ==
  ASSUME TypeInv, NEW c \in Creator, CreateStep(c) \/ \E i \in Id : CreateBegin(c, i)
  PROVE  TypeInv'
<1> USE Bounds DEF TypeInv
<1>1. ASSUME NEW i \in Id, CreateBegin(c, i)
      PROVE  TypeInv'
  <2>1. created' \in 1 .. MaxObj /\ created' = created + 1
    BY <1>1 DEF CreateBegin
  <2>2. PICK r \in CallRecord(CreateStage) : r = [stage |-> "begun", obj |-> created', id |-> i]
    BY <2>1 DEF CallRecord, CreateStage, Obj
  <2>3. r.obj = created' /\ r.id = i
    BY <2>2
  <2>4. create' = [create EXCEPT ![c] = r]
    BY <1>1, <2>2 DEF CreateBegin
  <2>5. UNCHANGED <<vol_map, vol, sb, index, repl, reserved, chunks, task, io, phase>>
    BY <1>1 DEF CreateBegin, objects
  <2>6. \A d \in Creator : create'[d].stage # "idle" => create'[d].obj \in 1 .. created' /\ create'[d].id \in Id
    BY <2>1, <2>3, <2>4
  <2> QED BY <2>1, <2>4, <2>5, <2>6
<1>2. ASSUME create' = [create EXCEPT ![c] = NoCall], UNCHANGED <<vol, sb, index, repl, chunks, task, io, life>>,
             vol_map' \in [Id -> Obj \cup {None}], reserved' \subseteq Ordinal
      PROVE  TypeInv'
  BY <1>2, NoCallType DEF life
<1>3. ASSUME NEW s \in CreateStage, create' = [create EXCEPT ![c].stage = s], create[c].stage # "idle",
             UNCHANGED <<vol_map, task, io, life>>, vol' \in [Obj -> VolumeRecord],
             sb' \in [Obj -> State \cup {"none"}],
             index' \subseteq Obj /\ repl' \subseteq Id /\ reserved' \subseteq Ordinal,
             chunks' \in [Ordinal -> Obj \cup {None}]
      PROVE  TypeInv'
  <2>1. create \in [Creator -> CallRecord(CreateStage)]
    OBVIOUS
  <2>2. /\ create' \in [Creator -> CallRecord(CreateStage)]
        /\ \A d \in Creator : create'[d].obj = create[d].obj /\ create'[d].id = create[d].id
        /\ \A d \in Creator \ {c} : create'[d] = create[d]
    BY <1>3, <2>1, SetCreate
  <2> QED BY <1>3, <2>2 DEF life
<1>4. CASE CreateNoOrdinal(c)
  BY <1>4, <1>2 DEF CreateNoOrdinal, objects
<1>5. ASSUME NEW n \in Ordinal, CreateExists(c, n)
      PROVE  TypeInv'
  BY <1>5, <1>2 DEF CreateExists
<1>6. ASSUME NEW n \in Ordinal, CreateReserve(c, n)
      PROVE  TypeInv'
  <2>1. create[c].obj \in Obj /\ create[c].id \in Id
    BY <1>6 DEF CreateReserve, Obj
  <2>2. vol' \in [Obj -> VolumeRecord]
    BY <1>6, <2>1, SetNew DEF CreateReserve
  <2> QED BY <1>6, <1>3, <2>2 DEF CreateReserve, CreateStage
<1>7. CASE CreateChunks(c)
  <2>1. create[c].obj \in Obj
    BY <1>7 DEF CreateChunks, Obj
  <2> QED BY <1>7, <1>3, <2>1 DEF CreateChunks, CreateStage
<1>8. CASE CreateRepl(c)
  <2>1. create[c].obj \in Obj /\ create[c].id \in Id
    BY <1>8 DEF CreateRepl, Obj
  <2>2. vol' \in [Obj -> VolumeRecord]
    BY <1>8, <2>1, SetRd DEF CreateRepl
  <2> QED BY <1>8, <1>3, <2>1, <2>2 DEF CreateRepl, CreateStage
<1>9. CASE CreateIndex(c)
  <2>1. create[c].obj \in Obj
    BY <1>9 DEF CreateIndex, Obj
  <2> QED BY <1>9, <1>3, <2>1 DEF CreateIndex, CreateStage
<1>10. CASE CreateOnline(c)
  <2>1. create[c].obj \in Obj
    BY <1>10 DEF CreateOnline, Obj
  <2>2. vol' \in [Obj -> VolumeRecord] /\ sb' \in [Obj -> State \cup {"none"}]
    BY <1>10, <2>1, StateStep DEF CreateOnline, State
  <2> QED BY <1>10, <1>3, <2>2 DEF CreateOnline, CreateStage
<1>11. CASE CreateEmplace(c)
  <2>1. create[c].obj \in Obj
    BY <1>11 DEF CreateEmplace, Obj
  <2> QED BY <1>11, <1>2, <2>1 DEF CreateEmplace
<1>12. CASE CreateFails(c)
  BY <1>12, <1>2 DEF CreateFails, objects
<1> QED BY <1>1, <1>4, <1>5, <1>6, <1>7, <1>8, <1>9, <1>10, <1>11, <1>12 DEF CreateStep

(* The types after a step of a removal. *)
LEMMA RemoveType ==
  ASSUME TypeInv, NEW k \in Task,
         RemoveStep(k) \/ \E i \in Id : RemoveVolume(k, i) \/ Reap(k, i)
  PROVE  TypeInv'
<1> USE Bounds DEF TypeInv
<1>1. ASSUME NEW i \in Id, RemoveVolume(k, i) \/ Reap(k, i)
      PROVE  TypeInv'
  <2>1. PICK r \in CallRecord(TaskStage) : r = [stage |-> "posted", obj |-> None, id |-> i]
    BY DEF CallRecord, TaskStage
  <2>2. r.stage = "posted" /\ r.id = i
    BY <2>1
  <2>3. task' = [task EXCEPT ![k] = r]
    BY <1>1, <2>1 DEF RemoveVolume, Reap, Post
  <2>4. UNCHANGED <<objects, create, io, life>>
    BY <1>1 DEF RemoveVolume, Reap
  <2> QED BY <2>2, <2>3, <2>4 DEF objects, life
<1>2. ASSUME task' = [task EXCEPT ![k] = NoCall],
             UNCHANGED <<vol, sb, index, repl, chunks, create, io, life>>,
             vol_map' \in [Id -> Obj \cup {None}], reserved' \subseteq Ordinal
      PROVE  TypeInv'
  BY <1>2, NoCallType DEF life
<1>3. ASSUME NEW s \in TaskStage, task' = [task EXCEPT ![k].stage = s],
             task[k].stage \notin {"idle", "posted"},
             UNCHANGED <<vol_map, create, io, life>>, vol' \in [Obj -> VolumeRecord],
             sb' \in [Obj -> State \cup {"none"}],
             index' \subseteq Obj /\ repl' \subseteq Id /\ reserved' \subseteq Ordinal,
             chunks' \in [Ordinal -> Obj \cup {None}]
      PROVE  TypeInv'
  <2>1. task \in [Task -> CallRecord(TaskStage)]
    OBVIOUS
  <2>2. /\ task' \in [Task -> CallRecord(TaskStage)]
        /\ \A j \in Task : task'[j].obj = task[j].obj /\ task'[j].id = task[j].id
        /\ \A j \in Task \ {k} : task'[j] = task[j]
    BY <1>3, <2>1, SetTask
  <2> QED BY <1>3, <2>2 DEF life
<1>4. CASE RemoveNotFound(k)
  BY <1>4, <1>2 DEF RemoveNotFound, objects
<1>5. CASE RemoveFind(k)
  <2>1. PICK o \in Obj : o = vol_map[task[k].id]
    BY <1>5 DEF RemoveFind
  <2>3. task' = [task EXCEPT ![k].stage = "found", ![k].obj = o]
    BY <1>5, <2>1 DEF RemoveFind
  <2>4. /\ task' \in [Task -> CallRecord(TaskStage)]
        /\ \A j \in Task \ {k} : task'[j] = task[j]
        /\ task'[k].stage = "found" /\ task'[k].obj = o /\ task'[k].id = task[k].id
    BY <2>3, SetFound
  <2>5. task[k].id \in Id
    BY <1>5 DEF RemoveFind
  <2> QED BY <1>5, <2>4, <2>5 DEF RemoveFind, life, objects
<1>12. CASE RemoveMark(k)
  <2>1. PICK o \in Obj : o = task[k].obj
    BY <1>12 DEF RemoveMark
  <2>2. vol' \in [Obj -> VolumeRecord] /\ sb' \in [Obj -> State \cup {"none"}]
    BY <1>12, <2>1, StateStep DEF RemoveMark, State
  <2> QED BY <1>12, <1>3, <2>2 DEF RemoveMark, TaskStage
<1>6. CASE RemoveCheck(k)
  <2>1. CASE CanRemove(task[k].obj)
    <3>1. task' = [task EXCEPT ![k].stage = "checked"]
      BY <1>6, <2>1 DEF RemoveCheck
    <3> QED BY <1>6, <1>3, <3>1 DEF RemoveCheck, TaskStage, objects
  <2>2. CASE ~CanRemove(task[k].obj)
    <3>1. task' = [task EXCEPT ![k] = NoCall]
      BY <1>6, <2>2 DEF RemoveCheck
    <3> QED BY <1>6, <1>2, <3>1 DEF RemoveCheck, objects
  <2> QED BY <2>1, <2>2
<1>7. CASE DestroyBegin(k)
  <2>1. task[k].obj \in Obj
    BY <1>7 DEF DestroyBegin
  <2>2. vol' \in [Obj -> VolumeRecord]
    BY <1>7, <2>1, SetStarted DEF DestroyBegin
  <2> QED BY <1>7, <1>3, <2>2 DEF DestroyBegin, TaskStage
<1>8. CASE DestroyRepl(k)
  <2>1. task[k].obj \in Obj
    BY <1>8 DEF DestroyRepl
  <2>2. vol' \in [Obj -> VolumeRecord]
    BY <1>8, <2>1, SetRd DEF DestroyRepl
  <2>3. repl' \subseteq Id
    BY <1>8 DEF DestroyRepl
  <2> QED BY <1>8, <1>3, <2>2, <2>3 DEF DestroyRepl, TaskStage
<1>9. CASE DestroyIndex(k)
  BY <1>9, <1>3 DEF DestroyIndex, TaskStage
<1>10. CASE DestroySuperblock(k)
  <2>1. "none" \in State \cup {"none"} /\ None \in Obj \cup {None}
    OBVIOUS
  <2>2. sb' \in [Obj -> State \cup {"none"}]
    BY <1>10, <2>1 DEF DestroySuperblock
  <2>3. chunks' \in [Ordinal -> Obj \cup {None}]
    BY <1>10, <2>1 DEF DestroySuperblock
  <2> QED BY <1>10, <1>3, <2>2, <2>3 DEF DestroySuperblock, TaskStage
<1>11. CASE RemoveErase(k)
  <2>1. vol_map' \in [Id -> Obj \cup {None}]
    BY <1>11 DEF RemoveErase
  <2> QED BY <1>11, <1>2, <2>1 DEF RemoveErase
<1> QED BY <1>1, <1>4, <1>5, <1>6, <1>7, <1>8, <1>9, <1>10, <1>11, <1>12 DEF RemoveStep

(* The types after a step of an IO. *)
LEMMA IoType ==
  ASSUME TypeInv, NEW i \in Io, IoBegin(i) \/ IoEnd(i) \/ \E o \in 1 .. created : IoPrecheck(i, o)
  PROVE  TypeInv' /\ SameVolumes
<1> USE Bounds DEF TypeInv
<1>1. ASSUME NEW o \in 1 .. created, IoPrecheck(i, o)
      PROVE  TypeInv' /\ SameVolumes
  <2>1. o \in Obj
    BY DEF Obj
  <2>2. PICK r \in CallRecord(IoStage) : r = [stage |-> "checked", obj |-> o, id |-> None]
    BY <2>1 DEF CallRecord, IoStage
  <2>3. io' = [io EXCEPT ![i] = r] /\ r.obj = o
    BY <1>1, <2>2 DEF IoPrecheck
  <2>4. UNCHANGED <<objects, create, task, life>>
    BY <1>1 DEF IoPrecheck
  <2> QED BY <2>1, <2>3, <2>4 DEF objects, life, SameVolumes, SameIds
<1>2. ASSUME NEW n \in Int, vol' = [vol EXCEPT ![io[i].obj].outstanding = n], io[i].obj \in Obj
      PROVE  vol' \in [Obj -> VolumeRecord] /\ SameVolumes
  BY <1>2, SetOutstanding
<1>3. CASE IoBegin(i)
  <2>1. io[i].obj \in Obj
    BY <1>3 DEF IoBegin
  <2>2. vol[io[i].obj].outstanding + 1 \in Int
    <3>1. vol[io[i].obj] \in VolumeRecord
      BY <2>1
    <3>2. vol[io[i].obj].outstanding \in Int
      BY <3>1 DEF VolumeRecord
    <3> QED BY <3>2
  <2>3. vol' \in [Obj -> VolumeRecord] /\ SameVolumes
    BY <1>2, <1>3, <2>1, <2>2 DEF IoBegin
  <2>4. /\ io' \in [Io -> CallRecord(IoStage)]
        /\ \A j \in Io : io'[j].obj = io[j].obj
        /\ \A j \in Io \ {i} : io'[j] = io[j]
    BY <1>3, SetIo DEF IoBegin, IoStage
  <2> QED BY <1>3, <2>1, <2>3, <2>4 DEF IoBegin, life
<1>4. CASE IoEnd(i)
  <2>1. io[i].obj \in Obj
    BY <1>4 DEF IoEnd
  <2>2. vol[io[i].obj].outstanding - 1 \in Int
    <3>1. vol[io[i].obj] \in VolumeRecord
      BY <2>1
    <3>2. vol[io[i].obj].outstanding \in Int
      BY <3>1 DEF VolumeRecord
    <3> QED BY <3>2
  <2>3. vol' \in [Obj -> VolumeRecord] /\ SameVolumes
    BY <1>2, <1>4, <2>1, <2>2 DEF IoEnd
  <2> QED BY <1>4, <2>3, NoCallType DEF IoEnd, life
<1> QED BY <1>1, <1>3, <1>4

(* The types after fault containment. *)
LEMMA FaultType ==
  ASSUME TypeInv, NEW i \in Id, NEW s \in {"ONLINE", "OFFLINE"}, FaultVolume(i, s)
  PROVE  /\ TypeInv' /\ SameVolumes
         /\ \A o \in Obj : sb'[o] # "none" <=> sb[o] # "none"
<1>1. PICK o \in Obj : o = vol_map[i]
  BY DEF FaultVolume, TypeInv
<1>2. StateChange(o, s) /\ sb[o] # "none"
  BY <1>1 DEF FaultVolume
<1>3. s \in State /\ s # "none"
  BY DEF State
<1>4. /\ vol' \in [Obj -> VolumeRecord] /\ sb' \in [Obj -> State \cup {"none"}]
      /\ SameVolumes
      /\ \A p \in Obj \ {o} : sb'[p] = sb[p]
      /\ sb'[o] = s
  BY <1>2, <1>3, StateStep
<1> QED BY <1>2, <1>3, <1>4 DEF FaultVolume, TypeInv, life, calls

(* The types after the end of the process. *)
LEMMA GoneType ==
  ASSUME TypeInv, ProcessGone, phase' \in {"down", "crashed"}
  PROVE  TypeInv'
<1>1. vol' \in [Obj -> VolumeRecord]
  BY SetGone DEF TypeInv
<1> QED BY <1>1, NoCallType DEF ProcessGone, TypeInv

(* The types after a boot. *)
LEMMA BootType ==
  ASSUME TypeInv, PersistInv, Boot
  PROVE  TypeInv'
<1> USE Bounds DEF TypeInv
<1>1. vol' \in [Obj -> VolumeRecord]
  BY SetBooted
<1>2. ASSUME NEW i \in Id
      PROVE  (IF \E o \in Recovered : vol[o].id = i
              THEN CHOOSE o \in Recovered : vol[o].id = i ELSE None) \in Obj \cup {None}
  BY DEF Recovered
<1>3. vol_map' \in [Id -> Obj \cup {None}]
  BY <1>2 DEF Boot
<1>4. chunks' \in [Ordinal -> Obj \cup {None}]
  <2>1. ASSUME NEW n \in Ordinal PROVE RecoveredChunks(n) \in Obj \cup {None}
    BY DEF Recovered, RecoveredChunks
  <2> QED BY <2>1 DEF Boot
<1>5. reserved' \subseteq Ordinal
  <2>1. \A o \in Recovered : vol[o].ord \in Ordinal
    BY DEF Recovered, PersistInv
  <2>2. RecoveredOrdinals \subseteq Ordinal
    BY ONLY <2>1 DEF RecoveredOrdinals
  <2> QED BY <2>2 DEF Boot
<1>6. Resumed \subseteq Id
  BY DEF Resumed, Recovered, PersistInv
<1>7. PICK by \in [Resumed -> Task] :
          task' = [k \in Task |-> IF \E i \in Resumed : by[i] = k
                                  THEN [stage |-> "posted", obj |-> None,
                                        id |-> CHOOSE i \in Resumed : by[i] = k]
                                  ELSE NoCall]
  BY DEF Boot
<1>8. ASSUME NEW k \in Task
      PROVE  /\ task'[k] \in CallRecord(TaskStage)
             /\ task'[k].stage \in {"idle", "posted"}
             /\ task'[k].stage # "idle" => task'[k].id \in Id
  <2>1. CASE \E i \in Resumed : by[i] = k
    <3>1. PICK j \in Id : j = CHOOSE i \in Resumed : by[i] = k
      BY <1>6, <2>1
    <3>2. task'[k] = [stage |-> "posted", obj |-> None, id |-> j]
      BY <1>7, <2>1, <3>1
    <3> QED BY <3>2 DEF CallRecord, TaskStage
  <2>2. CASE ~ \E i \in Resumed : by[i] = k
    <3>1. task'[k] = NoCall
      BY <1>7, <2>2
    <3> QED BY <3>1, NoCallType
  <2> QED BY <2>1, <2>2
<1>9. task' = [k \in Task |-> task'[k]]
  BY <1>7
<1>10. task' \in [Task -> CallRecord(TaskStage)]
  BY <1>8, <1>9
<1>11. UNCHANGED <<sb, index, repl, create, io, created>> /\ phase' = "up"
  BY DEF Boot
<1> QED BY <1>1, <1>3, <1>4, <1>5, <1>8, <1>10, <1>11

-----------------------------------------------------------------------------
(* The invariant *)

(* A step that leaves the volumes and the creates alone. *)
LEMMA QuietVolumes ==
  ASSUME TypeInv, LifecycleInv, SameVolumes,
         UNCHANGED <<vol_map, index, repl, reserved, chunks, create, created>>,
         \A o \in Obj : sb'[o] # "none" <=> sb[o] # "none"
  PROVE  FreshInv' /\ CreateInv' /\ MapInv' /\ SlotInv' /\ ReplInv' /\ PersistInv'
<1> USE Bounds DEF TypeInv, SameVolumes, SameIds
<1>1. \A c \in Creator : create[c].stage # "idle" => create[c].obj \in Obj
  BY DEF Obj
<1>2. \A i \in Id : vol_map[i] # None => vol_map[i] \in Obj
  OBVIOUS
<1>3. FreshInv'
  BY DEF LifecycleInv, FreshInv, Unused
<1>4. CreateInv'
  BY <1>1 DEF LifecycleInv, CreateInv, Made, Unused
<1>5. MapInv'
  <2>1. ASSUME NEW i \in Id, vol_map[i] # None
        PROVE  /\ vol'[vol_map[i]].id = i
               /\ vol'[vol_map[i]].ord \in reserved
               /\ sb'[vol_map[i]] # "none" => chunks[vol'[vol_map[i]].ord] = vol_map[i]
               /\ ~vol'[vol_map[i]].started => sb'[vol_map[i]] # "none" /\ vol_map[i] \in index
               /\ \A c \in Creator : Made(c) => vol'[create[c].obj].ord # vol'[vol_map[i]].ord
    <3>1. PICK o \in Obj : o = vol_map[i]
      BY <2>1
    <3>2. /\ vol'[o].id = vol[o].id /\ vol'[o].ord = vol[o].ord
          /\ (vol'[o].started <=> vol[o].started) /\ (sb'[o] # "none" <=> sb[o] # "none")
      OBVIOUS
    <3>3. /\ vol[o].id = i
          /\ vol[o].ord \in reserved
          /\ sb[o] # "none" => chunks[vol[o].ord] = o
          /\ ~vol[o].started => sb[o] # "none" /\ o \in index
          /\ \A c \in Creator : Made(c) => vol[create[c].obj].ord # vol[o].ord
      BY <2>1, <3>1 DEF LifecycleInv, MapInv
    <3>4. \A c \in Creator : Made(c) => vol'[create[c].obj].ord = vol[create[c].obj].ord
      BY <1>1 DEF Made
    <3> QED BY ONLY <3>1, <3>2, <3>3, <3>4
  <2>2. ASSUME NEW i \in Id, NEW j \in Id, i # j, vol_map[i] # None, vol_map[j] # None
        PROVE  vol'[vol_map[i]].ord # vol'[vol_map[j]].ord
    <3>1. vol[vol_map[i]].ord # vol[vol_map[j]].ord
      BY <2>2 DEF LifecycleInv, MapInv
    <3>2. vol_map[i] \in Obj /\ vol_map[j] \in Obj
      BY <1>2, <2>2
    <3>3. vol'[vol_map[i]].ord = vol[vol_map[i]].ord /\ vol'[vol_map[j]].ord = vol[vol_map[j]].ord
      BY <3>2
    <3> QED BY <3>1, <3>3
  <2> QED BY <2>1, <2>2 DEF MapInv, Made
<1>6. SlotInv'
  BY DEF LifecycleInv, SlotInv
<1>7. ReplInv'
  <2>1. \A o \in Obj : vol'[o].id = vol[o].id /\ (vol'[o].rd <=> vol[o].rd)
    OBVIOUS
  <2>2. ReplInv /\ repl' = repl
    BY DEF LifecycleInv
  <2> QED BY ONLY <2>1, <2>2 DEF ReplInv
<1>8. PersistInv'
  BY DEF LifecycleInv, PersistInv
<1> QED BY <1>3, <1>4, <1>5, <1>6, <1>7, <1>8

(* The removals, when none of them moves. *)
LEMMA TaskFrame ==
  ASSUME TaskInv, task' = task, created' = created,
         \A d \in Creator : /\ create'[d].obj = create[d].obj
                            /\ create'[d].stage # "idle" => create[d].stage # "idle",
         \A k \in Task : Found(k) =>
             /\ vol'[task[k].obj].id = vol[task[k].obj].id
             /\ vol'[task[k].obj].ord = vol[task[k].obj].ord
             /\ vol'[task[k].obj].started <=> vol[task[k].obj].started
             /\ vol_map[vol[task[k].obj].id] = task[k].obj
                => vol_map'[vol[task[k].obj].id] = task[k].obj
             /\ sb[task[k].obj] = "none" => sb'[task[k].obj] = "none"
             /\ task[k].stage = "erase" => chunks'[vol[task[k].obj].ord] = chunks[vol[task[k].obj].ord]
  PROVE  TaskInv'
<1>1. ASSUME NEW k \in Task, Found(k)
      PROVE  /\ vol'[task[k].obj].id \in Id
             /\ InDestroy(k) \/ ~vol'[task[k].obj].started
                => vol_map'[vol'[task[k].obj].id] = task[k].obj
             /\ InDestroy(k) => vol'[task[k].obj].started
             /\ task[k].stage = "erase" => /\ sb'[task[k].obj] = "none"
                                           /\ chunks'[vol'[task[k].obj].ord] = None
  BY <1>1 DEF TaskInv
<1>2. \A k \in Task : Found(k) => /\ \A p \in Obj : p > created' => p # task[k].obj
                                  /\ \A c \in Creator : create'[c].stage # "idle" => create'[c].obj # task[k].obj
  BY DEF TaskInv
<1> QED BY <1>1, <1>2 DEF TaskInv, Found, InDestroy

(* A step that leaves alone what the invariant reads. *)
LEMMA Quiet ==
  ASSUME TypeInv, LifecycleInv, SameVolumes, Running' <=> Running,
         UNCHANGED <<vol_map, index, repl, reserved, chunks, create, task, created>>,
         \A o \in Obj : sb'[o] # "none" <=> sb[o] # "none"
  PROVE  LifecycleInv'
<1>1. FreshInv' /\ CreateInv' /\ MapInv' /\ SlotInv' /\ ReplInv' /\ PersistInv'
  BY QuietVolumes
<1>2. \A k \in Task : Found(k) => task[k].obj \in Obj
  BY DEF Found, TypeInv
<1>3. TaskInv'
  BY <1>2 DEF LifecycleInv, TaskInv, Found, InDestroy, SameVolumes, SameIds
<1>4. StoppedInv'
  BY DEF LifecycleInv, StoppedInv, SameVolumes
<1> QED BY <1>1, <1>3, <1>4 DEF LifecycleInv

(* create_volume begins on an object nobody has used. *)
LEMMA CreateBeginInv ==
  ASSUME TypeInv, LifecycleInv, NEW c \in Creator, NEW i \in Id, CreateBegin(c, i)
  PROVE  LifecycleInv'
<1> USE Bounds DEF TypeInv, LifecycleInv
<1>1. /\ created' = created + 1 /\ created' \in Obj
      /\ create[c].stage = "idle" /\ Running /\ phase' = phase
      /\ UNCHANGED <<vol_map, vol, sb, index, repl, reserved, chunks, task>>
  BY DEF CreateBegin, objects, Obj
<1>2. /\ create'[c].stage = "begun" /\ create'[c].obj = created'
      /\ \A d \in Creator \ {c} : create'[d] = create[d]
  BY DEF CreateBegin
<1>3. Unused(created')
  BY <1>1 DEF FreshInv
<1>4. FreshInv'
  BY <1>1 DEF FreshInv, Unused
<1>5. \A d \in Creator \ {c} : create[d].stage # "idle" => create[d].obj # created'
  BY <1>1
<1>6. CreateInv'
  BY <1>1, <1>2, <1>3, <1>5 DEF CreateInv, Made, Unused
<1>7. MapInv'
  BY <1>1, <1>2 DEF MapInv, Made
<1>8. SlotInv'
  BY <1>1 DEF SlotInv
<1>10. TaskInv'
  <2>1. \A k \in Task : Found(k) => task[k].obj # created'
    BY <1>1 DEF TaskInv
  <2>2. \A d \in Creator : create'[d].stage # "idle"
                           => create'[d].obj = created' \/ (create[d].stage # "idle" /\ create'[d] = create[d])
    BY <1>2
  <2>3. \A p \in Obj : p > created' => p > created
    BY <1>1
  <2> QED BY <1>1, <2>1, <2>2, <2>3 DEF TaskInv, Found, InDestroy
<1>9. ReplInv' /\ PersistInv' /\ StoppedInv'
  BY <1>1 DEF ReplInv, PersistInv, StoppedInv, Running
<1> QED BY <1>4, <1>6, <1>7, <1>8, <1>9, <1>10

(* create_volume returns early, or fails: what it made stays behind. *)
LEMMA CreateEndsInv ==
  ASSUME TypeInv, LifecycleInv, NEW c \in Creator,
         create' = [create EXCEPT ![c] = NoCall],
         reserved \subseteq reserved', Running, phase' = phase,
         UNCHANGED <<vol_map, vol, sb, index, repl, chunks, task, created>>
  PROVE  LifecycleInv'
<1> USE Bounds DEF TypeInv, LifecycleInv
<1>1. create'[c].stage = "idle" /\ \A d \in Creator \ {c} : create'[d] = create[d]
  BY NoCallType
<1>2. FreshInv'
  BY DEF FreshInv, Unused
<1>3. CreateInv'
  BY <1>1 DEF CreateInv, Made, Unused
<1>4. MapInv'
  BY <1>1 DEF MapInv, Made
<1>5. SlotInv' /\ TaskInv'
  BY <1>1 DEF SlotInv, TaskInv, Found, InDestroy
<1>6. ReplInv' /\ PersistInv' /\ StoppedInv'
  BY DEF ReplInv, PersistInv, StoppedInv, Running
<1> QED BY <1>2, <1>3, <1>4, <1>5, <1>6

(* The ordinal a volume is made with was not reserved, so its slot is empty   *)
(* and nobody else's.                                                        *)
LEMMA CreateReserveInv ==
  ASSUME TypeInv, LifecycleInv, NEW c \in Creator, NEW n \in Ordinal, CreateReserve(c, n)
  PROVE  LifecycleInv'
<1> USE Bounds DEF TypeInv, LifecycleInv
<1>0. PICK o \in Obj, i \in Id : o = create[c].obj /\ i = create[c].id
  BY DEF CreateReserve, Obj
<1>1. /\ create[c].stage = "begun" /\ create[c].id \in Id /\ Running /\ phase' = phase
      /\ n \notin reserved /\ reserved' = reserved \cup {n}
      /\ UNCHANGED <<vol_map, sb, index, repl, chunks, task, created>>
  BY DEF CreateReserve, life
<1>2. /\ \A p \in Obj \ {o} : vol'[p] = vol[p]
      /\ vol'[o].id = i /\ vol'[o].ord = n
      /\ ~vol'[o].started /\ ~vol'[o].rd
  <2>1. vol' = [vol EXCEPT ![o] = [NoVolume EXCEPT !.id = i, !.ord = n]]
    BY <1>0 DEF CreateReserve
  <2>2. vol \in [Obj -> VolumeRecord]
    OBVIOUS
  <2> QED BY ONLY <2>1, <2>2, SetNew
<1>3. /\ create'[c].stage = "chunks" /\ create'[c].obj = o /\ create'[c].id = i
      /\ \A d \in Creator \ {c} : create'[d] = create[d]
  BY <1>0, SetCreate DEF CreateReserve, CreateStage
<1>4. Unused(o)
  BY <1>0, <1>1 DEF CreateInv
<1>5. chunks[n] = None
  BY <1>1 DEF SlotInv
<1>6. \A d \in Creator \ {c} : create[d].stage # "idle" => create[d].obj \in Obj \ {o}
  BY <1>0, <1>1 DEF CreateInv, Obj
<1>7. \A j \in Id : vol_map[j] # None => vol_map[j] \in Obj \ {o}
  BY <1>4 DEF Unused
<1>8. FreshInv'
  BY <1>0, <1>1, <1>2 DEF FreshInv, Unused
<1>9. CreateInv'
  BY <1>1, <1>2, <1>3, <1>4, <1>5, <1>6, SMTT(30) DEF CreateInv, Made, Unused
<1>10. MapInv'
  <2>1. ASSUME NEW j \in Id, vol_map[j] # None
        PROVE  /\ vol'[vol_map[j]] = vol[vol_map[j]] /\ vol[vol_map[j]].ord # n
               /\ \A d \in Creator : Made(d)' => vol'[create'[d].obj].ord # vol[vol_map[j]].ord
    <3>1. PICK p \in Obj \ {o} : p = vol_map[j] /\ vol'[p] = vol[p]
      BY <1>2, <1>7, <2>1
    <3>2. vol[p].ord \in reserved /\ \A d \in Creator : Made(d) => vol[create[d].obj].ord # vol[p].ord
      BY <2>1, <3>1 DEF MapInv
    <3>3. ASSUME NEW d \in Creator, Made(d)'
          PROVE  vol'[create'[d].obj].ord # vol[p].ord
      BY <1>1, <1>2, <1>3, <1>6, <3>2, <3>3 DEF Made
    <3> QED BY <1>1, <3>1, <3>2, <3>3
  <2> QED BY <1>1, <2>1 DEF MapInv
<1>11. SlotInv'
  BY <1>1 DEF SlotInv
<1>12. \A k \in Task : Found(k) => task[k].obj \in Obj \ {o}
  BY <1>0, <1>1 DEF TaskInv, Found
<1>13. TaskInv'
  <2>1. \A d \in Creator : create'[d].obj = create[d].obj /\ (create'[d].stage # "idle" => create[d].stage # "idle")
    BY <1>0, <1>1, <1>3
  <2> QED BY <1>1, <1>2, <1>12, <2>1, TaskFrame
<1>14. ReplInv' /\ PersistInv' /\ StoppedInv'
  BY <1>1, <1>2, <1>4 DEF ReplInv, PersistInv, StoppedInv, Running, Unused
<1> QED BY <1>8, <1>9, <1>10, <1>11, <1>13, <1>14

(* The registered volumes, when none of them changes. *)
LEMMA MapFrame ==
  ASSUME MapInv, vol_map' = vol_map, reserved \subseteq reserved',
         \A i \in Id : vol_map[i] # None =>
             /\ vol'[vol_map[i]].id = vol[vol_map[i]].id
             /\ vol'[vol_map[i]].ord = vol[vol_map[i]].ord
             /\ vol'[vol_map[i]].started <=> vol[vol_map[i]].started
             /\ sb'[vol_map[i]] # "none" <=> sb[vol_map[i]] # "none"
             /\ vol_map[i] \in index => vol_map[i] \in index'
             /\ chunks'[vol[vol_map[i]].ord] = chunks[vol[vol_map[i]].ord],
         \A d \in Creator : Made(d)' => /\ Made(d)
                                        /\ vol'[create'[d].obj].ord = vol[create[d].obj].ord
  PROVE  MapInv'
<1>1. ASSUME NEW i \in Id, vol_map'[i] # None
      PROVE  /\ vol'[vol_map'[i]].id = i
             /\ vol'[vol_map'[i]].ord \in reserved'
             /\ sb'[vol_map'[i]] # "none" => chunks'[vol'[vol_map'[i]].ord] = vol_map'[i]
             /\ ~vol'[vol_map'[i]].started => sb'[vol_map'[i]] # "none" /\ vol_map'[i] \in index'
             /\ \A d \in Creator : Made(d)' => vol'[create'[d].obj].ord # vol'[vol_map'[i]].ord
  <2>1. PICK o : o = vol_map[i] /\ o = vol_map'[i] /\ o # None
    BY <1>1
  <2>2. /\ vol'[o].id = vol[o].id /\ vol'[o].ord = vol[o].ord
        /\ vol'[o].started <=> vol[o].started
        /\ sb'[o] # "none" <=> sb[o] # "none"
        /\ o \in index => o \in index'
        /\ chunks'[vol[o].ord] = chunks[vol[o].ord]
    BY <2>1
  <2>3. /\ vol[o].id = i /\ vol[o].ord \in reserved
        /\ sb[o] # "none" => chunks[vol[o].ord] = o
        /\ ~vol[o].started => sb[o] # "none" /\ o \in index
        /\ \A d \in Creator : Made(d) => vol[create[d].obj].ord # vol[o].ord
    BY <2>1 DEF MapInv
  <2> QED BY <2>1, <2>2, <2>3
<1>2. \A i, j \in Id : i # j /\ vol_map'[i] # None /\ vol_map'[j] # None
                       => vol'[vol_map'[i]].ord # vol'[vol_map'[j]].ord
  BY DEF MapInv
<1> QED BY <1>1, <1>2 DEF MapInv

(* The volumes being made, when none of the objects is exchanged. *)
LEMMA CreateFrame ==
  ASSUME CreateInv,
         \A n \in reserved \ reserved' : \A d \in Creator : Made(d) => vol[create[d].obj].ord # n,
         \A i \in Id : vol_map'[i] # vol_map[i] => vol_map'[i] = None,
         \A d \in Creator : /\ create'[d].obj = create[d].obj /\ create'[d].id = create[d].id
                            /\ Made(d)' => Made(d)
                            /\ create'[d].stage # "idle" => create[d].stage # "idle"
                            /\ create'[d].stage = "begun" => Unused(create[d].obj)',
         \A d \in Creator : Made(d)' =>
             /\ vol'[create[d].obj].id = vol[create[d].obj].id
             /\ vol'[create[d].obj].ord = vol[create[d].obj].ord
             /\ vol'[create[d].obj].started <=> vol[create[d].obj].started
             /\ sb'[create[d].obj] # "none" <=> create'[d].stage = "emplace"
             /\ create'[d].stage \in {"online", "emplace"} => create[d].obj \in index'
             /\ chunks'[vol[create[d].obj].ord] = IF create'[d].stage = "chunks" THEN None
                                                  ELSE create[d].obj,
         \A d \in Creator : Made(d) => create[d].obj # None
  PROVE  CreateInv'
<1>1. ASSUME NEW d \in Creator, Made(d)'
      PROVE  /\ vol'[create'[d].obj].id = create'[d].id
             /\ vol'[create'[d].obj].ord \in reserved'
             /\ \A i \in Id : vol_map'[i] # create'[d].obj
             /\ ~vol'[create'[d].obj].started
             /\ sb'[create'[d].obj] # "none" <=> create'[d].stage = "emplace"
             /\ create'[d].stage \in {"online", "emplace"} => create'[d].obj \in index'
             /\ chunks'[vol'[create'[d].obj].ord] = IF create'[d].stage = "chunks" THEN None
                                                    ELSE create'[d].obj
  <2>1. PICK p : p = create[d].obj /\ p = create'[d].obj
    OBVIOUS
  <2>2. Made(d) /\ p # None
    BY <1>1, <2>1
  <2>3. /\ vol[p].id = create[d].id /\ vol[p].ord \in reserved /\ ~vol[p].started
        /\ \A i \in Id : vol_map[i] # p
    BY <2>1, <2>2 DEF CreateInv
  <2>4. /\ vol'[p].id = vol[p].id /\ vol'[p].ord = vol[p].ord
        /\ vol'[p].started <=> vol[p].started
        /\ sb'[p] # "none" <=> create'[d].stage = "emplace"
        /\ create'[d].stage \in {"online", "emplace"} => p \in index'
        /\ chunks'[vol[p].ord] = IF create'[d].stage = "chunks" THEN None ELSE p
    BY <1>1, <2>1
  <2>5. create'[d].id = create[d].id
    OBVIOUS
  <2>6. \A i \in Id : vol_map'[i] # p
    BY <2>2, <2>3
  <2>7. vol[p].ord \in reserved'
    BY <2>1, <2>2, <2>3
  <2> QED BY ONLY <2>1, <2>3, <2>4, <2>5, <2>6, <2>7
<1>2. \A d, e \in Creator : d # e /\ create'[d].stage # "idle" /\ create'[e].stage # "idle"
                            => create'[d].obj # create'[e].obj
  BY DEF CreateInv
<1>3. ASSUME NEW d \in Creator, NEW e \in Creator, d # e, Made(d)', Made(e)'
      PROVE  vol'[create'[d].obj].ord # vol'[create'[e].obj].ord
  <2>1. /\ vol'[create[d].obj].ord = vol[create[d].obj].ord
        /\ vol'[create[e].obj].ord = vol[create[e].obj].ord
        /\ create'[d].obj = create[d].obj /\ create'[e].obj = create[e].obj
    BY <1>3
  <2>2. vol[create[d].obj].ord # vol[create[e].obj].ord
    BY <1>3 DEF CreateInv
  <2> QED BY <2>1, <2>2
<1>4. \A d \in Creator : create'[d].stage = "begun" => Unused(create[d].obj)'
  OBVIOUS
<1> QED BY <1>1, <1>2, <1>3, <1>4 DEF CreateInv

(* A volume about to be made is unused as long as nobody touches its object. *)
LEMMA UnusedFrame ==
  ASSUME CreateInv, NEW c \in Creator, create[c].stage = "begun",
         create'[c].obj = create[c].obj, create[c].obj # None,
         vol'[create[c].obj].rd <=> vol[create[c].obj].rd,
         vol'[create[c].obj].started <=> vol[create[c].obj].started,
         sb'[create[c].obj] = sb[create[c].obj],
         create[c].obj \in index' => create[c].obj \in index,
         \A i \in Id : vol_map'[i] # vol_map[i] => vol_map'[i] # create[c].obj
  PROVE  Unused(create[c].obj)'
<1>1. Unused(create[c].obj)
  BY DEF CreateInv
<1> QED BY <1>1 DEF Unused

(* What a call inside volume::init works on: an object of its own. *)
LEMMA CreateOwn ==
  ASSUME TypeInv, LifecycleInv, NEW c \in Creator, Made(c)
  PROVE  /\ create[c].obj \in Obj /\ create[c].id \in Id
         /\ vol[create[c].obj].ord \in Ordinal
         /\ \A d \in Creator \ {c} : create[d].stage # "idle" => create[d].obj \in Obj \ {create[c].obj}
         /\ \A i \in Id : vol_map[i] # None => vol_map[i] \in Obj \ {create[c].obj}
         /\ \A k \in Task : Found(k) => task[k].obj \in Obj \ {create[c].obj}
         /\ \A o \in Obj : o > created => o # create[c].obj
<1> USE Bounds DEF TypeInv, LifecycleInv
<1>1. create[c].obj \in Obj /\ create[c].id \in Id
  BY DEF Made, Obj
<1>2. vol[create[c].obj].ord \in Ordinal
  BY DEF CreateInv
<1>3. \A d \in Creator \ {c} : create[d].stage # "idle" => create[d].obj \in Obj \ {create[c].obj}
  BY <1>1 DEF CreateInv, Made, Obj
<1>4. \A i \in Id : vol_map[i] # None => vol_map[i] \in Obj \ {create[c].obj}
  BY <1>1 DEF CreateInv
<1>5. \A k \in Task : Found(k) => task[k].obj \in Obj \ {create[c].obj}
  BY <1>1 DEF TaskInv, Found, Made
<1>6. \A o \in Obj : o > created => o # create[c].obj
  BY DEF Made, Obj
<1> QED BY <1>1, <1>2, <1>3, <1>4, <1>5, <1>6

(* The chunks: the slot of an ordinal that is one's own was empty. *)
LEMMA CreateChunksInv ==
  ASSUME TypeInv, LifecycleInv, NEW c \in Creator, CreateChunks(c)
  PROVE  LifecycleInv'
<1> USE Bounds DEF TypeInv, LifecycleInv
<1>1. /\ create[c].stage = "chunks" /\ Made(c) /\ Running /\ phase' = phase
      /\ UNCHANGED <<vol_map, vol, sb, index, repl, reserved, task, created>>
  BY DEF CreateChunks, life, Made
<1>2. PICK o \in Obj, n \in Ordinal : o = create[c].obj /\ n = vol[o].ord
  BY <1>1, CreateOwn
<1>3. /\ create'[c].stage = "repl" /\ Made(c)'
      /\ \A d \in Creator : create'[d].obj = create[d].obj /\ create'[d].id = create[d].id
      /\ \A d \in Creator \ {c} : create'[d] = create[d]
  BY SetCreate DEF CreateChunks, CreateStage, Made
<1>4. chunks[n] = None
  BY <1>1, <1>2 DEF CreateInv
<1>5. chunks'[n] = o /\ \A m \in Ordinal \ {n} : chunks'[m] = chunks[m]
  BY <1>2, <1>4 DEF CreateChunks
<1>6. FreshInv'
  BY <1>1 DEF FreshInv, Unused
<1>7. CreateInv'
  <2>1. ASSUME NEW d \in Creator, Made(d)'
        PROVE  chunks'[vol[create[d].obj].ord] = IF create'[d].stage = "chunks" THEN None
                                                 ELSE create[d].obj
    <3>1. CASE d = c
      BY <1>2, <1>3, <1>5, <3>1
    <3>2. CASE d # c
      <4>1. Made(d) /\ create'[d] = create[d] /\ vol[create[d].obj].ord \in Ordinal
        BY <1>3, <2>1, <3>2, CreateOwn DEF Made
      <4>2. vol[create[d].obj].ord # n
        BY <1>1, <1>2, <3>2, <4>1 DEF CreateInv
      <4> QED BY <1>5, <4>1, <4>2 DEF CreateInv
    <3> QED BY <3>1, <3>2
  <2>2. \A d \in Creator : (Made(d)' <=> Made(d)) /\ (create'[d].stage = "begun" <=> create[d].stage = "begun")
                           /\ (create'[d].stage = "idle" <=> create[d].stage = "idle")
                           /\ (create'[d].stage = "emplace" <=> create[d].stage = "emplace")
                           /\ (create'[d].stage = "online" <=> create[d].stage = "online")
    BY <1>1, <1>3 DEF Made
  <2> QED BY <1>1, <1>3, <2>1, <2>2 DEF CreateInv, Unused
<1>8. MapInv'
  <2>1. ASSUME NEW i \in Id, vol_map[i] # None, sb[vol_map[i]] # "none"
        PROVE  chunks'[vol[vol_map[i]].ord] = vol_map[i]
    <3>1. vol[vol_map[i]].ord # n /\ vol[vol_map[i]].ord \in Ordinal
      BY <1>1, <1>2, <2>1 DEF MapInv
    <3> QED BY <1>5, <2>1, <3>1 DEF MapInv
  <2>2. \A d \in Creator : Made(d)' <=> Made(d)
    BY <1>1, <1>3 DEF Made
  <2> QED BY <1>1, <1>3, <2>1, <2>2 DEF MapInv
<1>9. SlotInv'
  BY <1>1, <1>2, <1>5 DEF SlotInv, CreateInv
<1>10. TaskInv'
  <2>1. ASSUME NEW k \in Task, Found(k), task[k].stage = "erase"
        PROVE  chunks'[vol[task[k].obj].ord] = chunks[vol[task[k].obj].ord]
    <3>1. PICK i \in Id : vol_map[i] = task[k].obj /\ vol_map[i] # None
      BY <2>1 DEF TaskInv, Found, InDestroy
    <3>2. vol[task[k].obj].ord # n /\ vol[task[k].obj].ord \in Ordinal
      BY <1>1, <1>2, <3>1 DEF MapInv
    <3> QED BY <1>5, <2>1, <3>2
  <2>2. \A d \in Creator : create'[d].stage # "idle" => create[d].stage # "idle"
    BY <1>1, <1>3
  <2> QED BY <1>1, <1>3, <2>1, <2>2, TaskFrame
<1>11. ReplInv' /\ PersistInv' /\ StoppedInv'
  BY <1>1 DEF ReplInv, PersistInv, StoppedInv, Running
<1> QED BY <1>6, <1>7, <1>8, <1>9, <1>10, <1>11

(* The repl dev: nobody else holds the one of this id. *)
LEMMA CreateReplInv ==
  ASSUME TypeInv, LifecycleInv, NEW c \in Creator, CreateRepl(c)
  PROVE  LifecycleInv'
<1> USE Bounds DEF TypeInv, LifecycleInv
<1>1. /\ create[c].stage = "repl" /\ Made(c) /\ Running /\ phase' = phase
      /\ create[c].id \notin repl /\ repl' = repl \cup {create[c].id}
      /\ UNCHANGED <<vol_map, sb, index, chunks, reserved, task, created>>
  BY DEF CreateRepl, life, Made
<1>2. PICK o \in Obj : o = create[c].obj
  BY <1>1, CreateOwn
<1>3. /\ create'[c].stage = "index" /\ Made(c)'
      /\ \A d \in Creator : create'[d].obj = create[d].obj /\ create'[d].id = create[d].id
      /\ \A d \in Creator \ {c} : create'[d] = create[d]
  BY SetCreate DEF CreateRepl, CreateStage, Made
<1>4. /\ \A p \in Obj : vol'[p].id = vol[p].id /\ vol'[p].ord = vol[p].ord
      /\ \A p \in Obj : vol'[p].started = vol[p].started
      /\ \A p \in Obj \ {o} : vol'[p] = vol[p]
  BY <1>2, SetRd DEF CreateRepl, SameIds
<1>5. vol[o].id = create[c].id
  BY <1>1, <1>2 DEF CreateInv
<1>6. FreshInv'
  BY <1>1, <1>2, <1>4, CreateOwn DEF FreshInv, Unused
<1>7. CreateInv'
  <2>1. \A d \in Creator : (Made(d)' <=> Made(d)) /\ (create'[d].stage = "begun" <=> create[d].stage = "begun")
                           /\ (create'[d].stage = "idle" <=> create[d].stage = "idle")
                           /\ (create'[d].stage = "emplace" <=> create[d].stage = "emplace")
                           /\ (create'[d].stage = "online" <=> create[d].stage = "online")
                           /\ (create'[d].stage = "chunks" <=> create[d].stage = "chunks")
    BY <1>1, <1>3 DEF Made
  <2>2. \A d \in Creator : create[d].stage = "begun" => create[d].obj \in Obj \ {o}
    BY <1>1, <1>2, CreateOwn
  <2>3. ASSUME NEW d \in Creator, create'[d].stage = "begun"
        PROVE  Unused(create[d].obj)'
    <3>1. Unused(create[d].obj) /\ vol'[create[d].obj] = vol[create[d].obj]
      BY <1>4, <2>1, <2>2, <2>3 DEF CreateInv
    <3>2. create'[d].obj = create[d].obj
      BY <1>3
    <3> QED BY ONLY <1>1, <3>1, <3>2 DEF Unused
  <2>4. \A d \in Creator : create'[d].stage = "begun" => Unused(create[d].obj)'
    BY <2>3
  <2>5. ASSUME NEW d \in Creator, Made(d)'
        PROVE  /\ vol'[create[d].obj].id = vol[create[d].obj].id
               /\ vol'[create[d].obj].ord = vol[create[d].obj].ord
               /\ vol'[create[d].obj].started <=> vol[create[d].obj].started
               /\ sb'[create[d].obj] # "none" <=> create'[d].stage = "emplace"
               /\ create'[d].stage \in {"online", "emplace"} => create[d].obj \in index'
               /\ chunks'[vol[create[d].obj].ord] = IF create'[d].stage = "chunks" THEN None
                                                    ELSE create[d].obj
    <3>1. Made(d) /\ create[d].obj \in Obj
      BY <2>1, <2>5, CreateOwn
    <3>2. /\ vol'[create[d].obj].id = vol[create[d].obj].id
          /\ vol'[create[d].obj].ord = vol[create[d].obj].ord
          /\ vol'[create[d].obj].started <=> vol[create[d].obj].started
      BY <1>4, <3>1
    <3>3. /\ sb'[create[d].obj] # "none" <=> create'[d].stage = "emplace"
          /\ create'[d].stage \in {"online", "emplace"} => create[d].obj \in index'
      BY <1>1, <2>1, <3>1 DEF CreateInv
    <3>4. chunks'[vol[create[d].obj].ord] = IF create'[d].stage = "chunks" THEN None
                                            ELSE create[d].obj
      BY <1>1, <2>1, <3>1 DEF CreateInv
    <3> QED BY <3>2, <3>3, <3>4
  <2>6. \A d \in Creator : Made(d) => create[d].obj # None
    BY CreateOwn
  <2> QED BY <1>1, <1>3, <2>1, <2>4, <2>5, <2>6, CreateFrame
<1>8. MapInv'
  <2>1. \A d \in Creator : Made(d)' <=> Made(d)
    BY <1>1, <1>3 DEF Made
  <2>2. \A d \in Creator : Made(d)' => Made(d) /\ vol'[create'[d].obj].ord = vol[create[d].obj].ord
    BY <1>3, <1>4, <2>1, CreateOwn
  <2>3. \A i \in Id : vol_map[i] # None => vol'[vol_map[i]] = vol[vol_map[i]]
    BY <1>1, <1>2, <1>4, CreateOwn
  <2> QED BY <1>1, <2>2, <2>3, MapFrame
<1>9. SlotInv'
  BY <1>1 DEF SlotInv
<1>10. TaskInv'
  <2>1. \A k \in Task : Found(k) => vol'[task[k].obj] = vol[task[k].obj]
    BY <1>1, <1>2, <1>4, CreateOwn
  <2>2. \A d \in Creator : create'[d].stage # "idle" => create[d].stage # "idle"
    BY <1>1, <1>3
  <2> QED BY <1>1, <1>3, <2>1, <2>2, TaskFrame
<1>11. ReplInv'
  <2>1. \A p \in Obj : p # o /\ vol'[p].rd => vol[p].rd /\ vol[p].id \in repl
    BY <1>4 DEF ReplInv
  <2>2. \A p \in Obj : vol'[p].rd => vol'[p].id \in repl'
    BY <1>1, <1>2, <1>4, <1>5, <2>1
  <2>3. \A p, q \in Obj : p # q /\ vol'[p].rd /\ vol'[q].rd => vol'[p].id # vol'[q].id
    BY <1>1, <1>4, <1>5, <2>1 DEF ReplInv
  <2> QED BY <2>2, <2>3 DEF ReplInv
<1>12. PersistInv' /\ StoppedInv'
  BY <1>1, <1>4 DEF PersistInv, StoppedInv, Running
<1> QED BY <1>6, <1>7, <1>8, <1>9, <1>10, <1>11, <1>12

(* The index table of a volume being made. *)
LEMMA CreateIndexInv ==
  ASSUME TypeInv, LifecycleInv, NEW c \in Creator, CreateIndex(c)
  PROVE  LifecycleInv'
<1> USE Bounds DEF TypeInv, LifecycleInv
<1>1. /\ create[c].stage = "index" /\ Made(c) /\ Running /\ phase' = phase
      /\ index' = index \cup {create[c].obj}
      /\ UNCHANGED <<vol_map, vol, sb, repl, chunks, reserved, task, created>>
  BY DEF CreateIndex, life, Made
<1>2. PICK o \in Obj : o = create[c].obj
  BY <1>1, CreateOwn
<1>3. /\ create'[c].stage = "online" /\ Made(c)'
      /\ \A d \in Creator : create'[d].obj = create[d].obj /\ create'[d].id = create[d].id
      /\ \A d \in Creator \ {c} : create'[d] = create[d]
  BY SetCreate DEF CreateIndex, CreateStage, Made
<1>4. FreshInv'
  BY <1>1, <1>2, CreateOwn DEF FreshInv, Unused
<1>5. \A d \in Creator : /\ Made(d)' <=> Made(d)
                         /\ create'[d].stage = "begun" <=> create[d].stage = "begun"
                         /\ create'[d].stage = "idle" <=> create[d].stage = "idle"
                         /\ create'[d].stage = "emplace" <=> create[d].stage = "emplace"
                         /\ create'[d].stage = "chunks" <=> create[d].stage = "chunks"
  BY <1>1, <1>3 DEF Made
<1>6. CreateInv'
  <2>1. ASSUME NEW d \in Creator, create'[d].stage = "begun"
        PROVE  Unused(create[d].obj)'
    <3>1. create[d].stage = "begun" /\ create[d].obj \in Obj \ {o}
      BY <1>1, <1>2, <1>5, <2>1, CreateOwn DEF Made
    <3> QED BY <1>1, <1>2, <1>3, <3>1, UnusedFrame
  <2>2. ASSUME NEW d \in Creator, Made(d)'
        PROVE  /\ sb'[create[d].obj] # "none" <=> create'[d].stage = "emplace"
               /\ create'[d].stage \in {"online", "emplace"} => create[d].obj \in index'
               /\ chunks'[vol[create[d].obj].ord] = IF create'[d].stage = "chunks" THEN None
                                                    ELSE create[d].obj
    <3>1. Made(d)
      BY <1>5, <2>2
    <3>2. create'[d].stage \in {"online", "emplace"} => create[d].obj \in index'
      BY <1>1, <1>3, <3>1 DEF CreateInv
    <3> QED BY <1>1, <1>5, <3>1, <3>2 DEF CreateInv
  <2>3. \A d \in Creator : Made(d) => create[d].obj # None
    BY CreateOwn
  <2>4. \A d \in Creator : create'[d].stage = "begun" => Unused(create[d].obj)'
    BY <2>1
  <2> QED BY <1>1, <1>3, <1>5, <2>2, <2>3, <2>4, CreateFrame
<1>7. MapInv'
  BY <1>1, <1>3, <1>5, MapFrame
<1>8. TaskInv'
  BY <1>1, <1>3, <1>5, TaskFrame
<1>9. SlotInv' /\ ReplInv' /\ PersistInv' /\ StoppedInv'
  BY <1>1 DEF SlotInv, ReplInv, PersistInv, StoppedInv, Running
<1> QED BY <1>4, <1>6, <1>7, <1>8, <1>9

(* The superblock of a volume being made appears, ONLINE. *)
LEMMA CreateOnlineInv ==
  ASSUME TypeInv, LifecycleInv, NEW c \in Creator, CreateOnline(c)
  PROVE  LifecycleInv'
<1> USE Bounds DEF TypeInv, LifecycleInv
<1>1. /\ create[c].stage = "online" /\ Made(c) /\ Running /\ phase' = phase
      /\ UNCHANGED <<vol_map, index, repl, chunks, reserved, task, created>>
  BY DEF CreateOnline, life, Made
<1>2. PICK o \in Obj : o = create[c].obj
  BY <1>1, CreateOwn
<1>3. /\ create'[c].stage = "emplace" /\ Made(c)'
      /\ \A d \in Creator : create'[d].obj = create[d].obj /\ create'[d].id = create[d].id
      /\ \A d \in Creator \ {c} : create'[d] = create[d]
  BY SetCreate DEF CreateOnline, CreateStage, Made
<1>4. /\ SameVolumes
      /\ \A p \in Obj \ {o} : sb'[p] = sb[p]
      /\ sb'[o] = "ONLINE"
  BY <1>2, StateStep DEF CreateOnline, State
<1>5. /\ \A p \in Obj : vol'[p].id = vol[p].id /\ vol'[p].ord = vol[p].ord
      /\ \A p \in Obj : (vol'[p].started <=> vol[p].started) /\ (vol'[p].rd <=> vol[p].rd)
  BY <1>4 DEF SameVolumes, SameIds
<1>6. FreshInv'
  BY <1>1, <1>2, <1>4, <1>5, CreateOwn DEF FreshInv, Unused
<1>7. \A d \in Creator : /\ Made(d)' <=> Made(d)
                         /\ create'[d].stage = "begun" <=> create[d].stage = "begun"
                         /\ create'[d].stage = "idle" <=> create[d].stage = "idle"
                         /\ create'[d].stage = "chunks" <=> create[d].stage = "chunks"
  BY <1>1, <1>3 DEF Made
<1>8. \A d \in Creator : Made(d) => create[d].obj \in Obj
  BY CreateOwn
<1>9. CreateInv'
  <2>1. ASSUME NEW d \in Creator, create'[d].stage = "begun"
        PROVE  Unused(create[d].obj)'
    <3>1. create[d].stage = "begun" /\ create[d].obj \in Obj \ {o}
      BY <1>1, <1>2, <1>7, <2>1, CreateOwn DEF Made
    <3>2. create'[d].obj = create[d].obj /\ sb'[create[d].obj] = sb[create[d].obj]
      BY <1>3, <1>4, <3>1
    <3> QED BY <1>1, <1>5, <3>1, <3>2, UnusedFrame
  <2>2. ASSUME NEW d \in Creator, Made(d)'
        PROVE  /\ vol'[create[d].obj].id = vol[create[d].obj].id
               /\ vol'[create[d].obj].ord = vol[create[d].obj].ord
               /\ vol'[create[d].obj].started <=> vol[create[d].obj].started
               /\ sb'[create[d].obj] # "none" <=> create'[d].stage = "emplace"
               /\ create'[d].stage \in {"online", "emplace"} => create[d].obj \in index'
               /\ chunks'[vol[create[d].obj].ord] = IF create'[d].stage = "chunks" THEN None
                                                    ELSE create[d].obj
    <3>1. Made(d) /\ create[d].obj \in Obj
      BY <1>7, <1>8, <2>2
    <3>2. sb'[create[d].obj] # "none" <=> create'[d].stage = "emplace"
      <4>1. CASE d = c
        BY <1>2, <1>3, <1>4, <4>1
      <4>2. CASE d # c
        <5>1. create[d].obj \in Obj \ {o} /\ create'[d] = create[d]
          BY <1>1, <1>2, <1>3, <3>1, <4>2, CreateOwn DEF Made
        <5> QED BY <1>4, <3>1, <5>1, ZenonT(40) DEF CreateInv
      <4> QED BY <4>1, <4>2
    <3>3. create'[d].stage \in {"online", "emplace"} => create[d].obj \in index'
      BY <1>1, <1>3, <3>1 DEF CreateInv
    <3>4. chunks'[vol[create[d].obj].ord] = IF create'[d].stage = "chunks" THEN None
                                            ELSE create[d].obj
      BY <1>1, <1>7, <3>1 DEF CreateInv
    <3> QED BY <1>5, <3>1, <3>2, <3>3, <3>4
  <2>3. \A d \in Creator : create'[d].stage = "begun" => Unused(create[d].obj)'
    BY <2>1
  <2>4. \A d \in Creator : Made(d) => create[d].obj # None
    BY <1>8
  <2> QED BY <1>1, <1>3, <1>7, <2>2, <2>3, <2>4, CreateFrame
<1>10. MapInv'
  <2>1. \A i \in Id : vol_map[i] # None => vol_map[i] \in Obj \ {o}
    BY <1>1, <1>2, CreateOwn
  <2>2. \A d \in Creator : Made(d)' => Made(d) /\ vol'[create'[d].obj].ord = vol[create[d].obj].ord
    BY <1>3, <1>5, <1>7, <1>8
  <2> QED BY <1>1, <1>4, <1>5, <2>1, <2>2, MapFrame
<1>11. TaskInv'
  <2>1. \A k \in Task : Found(k) => task[k].obj \in Obj \ {o}
    BY <1>1, <1>2, CreateOwn
  <2> QED BY <1>1, <1>3, <1>4, <1>5, <1>7, <2>1, TaskFrame
<1>12. SlotInv'
  BY <1>1 DEF SlotInv
<1>13. ReplInv'
  BY ONLY ReplInv, <1>1, <1>5 DEF ReplInv
<1>14. PersistInv'
  <2>1. vol[o].id \in Id /\ vol[o].ord \in Ordinal
    BY <1>1, <1>2, CreateOwn DEF CreateInv
  <2> QED BY <1>4, <1>5, <2>1 DEF PersistInv
<1>15. StoppedInv'
  BY <1>1 DEF StoppedInv, Running
<1> QED BY <1>6, <1>9, <1>10, <1>11, <1>12, <1>13, <1>14, <1>15

(* A volume that was made is registered, unless its id is taken. *)
LEMMA CreateEmplaceInv ==
  ASSUME TypeInv, LifecycleInv, NEW c \in Creator, CreateEmplace(c)
  PROVE  LifecycleInv'
<1> USE Bounds DEF TypeInv, LifecycleInv
<1>1. /\ create[c].stage = "emplace" /\ Made(c) /\ Running /\ phase' = phase
      /\ create' = [create EXCEPT ![c] = NoCall]
      /\ UNCHANGED <<vol, sb, index, repl, chunks, reserved, task, created>>
  BY DEF CreateEmplace, life, Made
<1>2. PICK o \in Obj, i \in Id : o = create[c].obj /\ i = create[c].id
  BY <1>1, CreateOwn
<1>3. create'[c].stage = "idle" /\ \A d \in Creator \ {c} : create'[d] = create[d]
  BY <1>1, NoCallType
<1>4. CASE vol_map[i] # None
  <2>1. vol_map' = vol_map
    BY <1>2, <1>4 DEF CreateEmplace
  <2> QED BY <1>1, <2>1, CreateEndsInv
<1>5. CASE vol_map[i] = None
  <2>1. vol_map'[i] = o /\ \A j \in Id \ {i} : vol_map'[j] = vol_map[j]
    BY <1>2, <1>5 DEF CreateEmplace
  <2>2. /\ vol[o].id = i /\ vol[o].ord \in reserved /\ ~vol[o].started
        /\ sb[o] # "none" /\ o \in index /\ chunks[vol[o].ord] = o
    BY <1>1, <1>2 DEF CreateInv
  <2>3. FreshInv'
    <3>1. \A p \in Obj : p > created => p # o
      BY <1>1, <1>2, CreateOwn
    <3> QED BY <1>1, <2>1, <3>1 DEF FreshInv, Unused
  <2>4. \A d \in Creator \ {c} : create[d].stage # "idle" => create[d].obj \in Obj \ {o}
    BY <1>1, <1>2, CreateOwn
  <2>5. CreateInv'
    BY <1>1, <1>3, <2>1, <2>4 DEF CreateInv, Made, Unused
  <2>6. \A d \in Creator : Made(d)' => d # c /\ Made(d) /\ create'[d] = create[d]
    BY <1>3 DEF Made
  <2>7. MapInv'
    <3>1. ASSUME NEW j \in Id, vol_map'[j] # None
          PROVE  /\ vol'[vol_map'[j]].id = j
                 /\ vol'[vol_map'[j]].ord \in reserved'
                 /\ sb'[vol_map'[j]] # "none" => chunks'[vol'[vol_map'[j]].ord] = vol_map'[j]
                 /\ ~vol'[vol_map'[j]].started => sb'[vol_map'[j]] # "none" /\ vol_map'[j] \in index'
                 /\ \A d \in Creator : Made(d)' => vol'[create'[d].obj].ord # vol'[vol_map'[j]].ord
      <4>1. CASE j = i
        <5>1. \A d \in Creator : Made(d)' => vol[create[d].obj].ord # vol[o].ord
          BY <1>1, <1>2, <2>6 DEF CreateInv
        <5> QED BY <1>1, <2>1, <2>2, <2>6, <4>1, <5>1
      <4>2. CASE j # i
        <5>1. vol_map'[j] = vol_map[j] /\ vol_map[j] # None
          BY <2>1, <3>1, <4>2
        <5> QED BY <1>1, <2>6, <5>1 DEF MapInv
      <4> QED BY <4>1, <4>2
    <3>2. \A j \in Id : vol_map[j] # None => vol[vol_map[j]].ord # vol[o].ord
      BY <1>1, <1>2 DEF MapInv
    <3>3. \A j, l \in Id : j # l /\ vol_map'[j] # None /\ vol_map'[l] # None
                           => vol'[vol_map'[j]].ord # vol'[vol_map'[l]].ord
      BY <1>1, <2>1, <3>2 DEF MapInv
    <3> QED BY <3>1, <3>3 DEF MapInv
  <2>8. TaskInv'
    <3>1. \A k \in Task : Found(k) => task[k].obj # None /\ vol[task[k].obj].id \in Id
      BY DEF TaskInv, Found
    <3>2. \A k \in Task : Found(k) => (vol_map[vol[task[k].obj].id] = task[k].obj
                                       => vol_map'[vol[task[k].obj].id] = task[k].obj)
      BY <1>5, <2>1, <3>1
    <3>3. TaskInv /\ task' = task /\ created' = created
      BY <1>1
    <3>4. ASSUME NEW k \in Task, Found(k)
          PROVE  /\ \A p \in Obj : p > created' => p # task[k].obj
                 /\ \A d \in Creator : create'[d].stage # "idle" => create'[d].obj # task[k].obj
      BY <1>3, <3>3, <3>4 DEF TaskInv
    <3>5. ASSUME NEW k \in Task, Found(k)
          PROVE  /\ vol'[task[k].obj].id \in Id
                 /\ InDestroy(k) \/ ~vol'[task[k].obj].started
                    => vol_map'[vol'[task[k].obj].id] = task[k].obj
                 /\ InDestroy(k) => vol'[task[k].obj].started
                 /\ task[k].stage = "erase" => /\ sb'[task[k].obj] = "none"
                                               /\ chunks'[vol'[task[k].obj].ord] = None
      BY <1>1, <3>2, <3>5 DEF TaskInv
    <3> QED BY <3>3, <3>4, <3>5 DEF TaskInv, Found, InDestroy
  <2>9. SlotInv' /\ ReplInv' /\ PersistInv' /\ StoppedInv'
    BY <1>1 DEF SlotInv, ReplInv, PersistInv, StoppedInv, Running
  <2> QED BY <2>3, <2>5, <2>7, <2>8, <2>9
<1> QED BY <1>4, <1>5

(* Every step of create_volume keeps the invariant. *)
LEMMA CreateKeeps ==
  ASSUME TypeInv, LifecycleInv, NEW c \in Creator,
         CreateStep(c) \/ \E i \in Id : CreateBegin(c, i)
  PROVE  LifecycleInv'
<1>1. CASE CreateNoOrdinal(c) \/ CreateFails(c)
  BY <1>1, CreateEndsInv DEF CreateNoOrdinal, CreateFails, objects, life
<1>2. ASSUME NEW n \in Ordinal, CreateExists(c, n)
      PROVE  LifecycleInv'
  BY <1>2, CreateEndsInv DEF CreateExists, life
<1> QED BY <1>1, <1>2, CreateBeginInv, CreateReserveInv, CreateChunksInv, CreateReplInv,
           CreateIndexInv, CreateOnlineInv, CreateEmplaceInv DEF CreateStep

(* What a removal works on that runs destroy(), or is the first to: a         *)
(* registered volume.                                                        *)
LEMMA RemoveOwn ==
  ASSUME TypeInv, LifecycleInv, NEW k \in Task, Found(k),
         InDestroy(k) \/ ~vol[task[k].obj].started
  PROVE  /\ task[k].obj \in Obj /\ vol[task[k].obj].id \in Id
         /\ vol_map[vol[task[k].obj].id] = task[k].obj
         /\ vol[task[k].obj].ord \in Ordinal /\ vol[task[k].obj].ord \in reserved
         /\ \A o \in Obj : o > created => o # task[k].obj
         /\ \A d \in Creator : create[d].stage # "idle" => create[d].obj \in Obj \ {task[k].obj}
         /\ \A d \in Creator : Made(d) => vol[create[d].obj].ord # vol[task[k].obj].ord
         /\ \A i \in Id : vol_map[i] # None /\ vol_map[i] # task[k].obj
                          => vol[vol_map[i]].ord # vol[task[k].obj].ord
<1> USE Bounds DEF TypeInv, LifecycleInv
<1>1. PICK o \in Obj, i \in Id : /\ o = task[k].obj /\ i = vol[o].id /\ vol_map[i] = o
                                 /\ o # None
  <2>1. task[k].obj \in Obj /\ task[k].obj # None
    BY DEF Found
  <2>2. vol[task[k].obj].id \in Id /\ vol_map[vol[task[k].obj].id] = task[k].obj
    BY DEF TaskInv
  <2> QED BY ONLY <2>1, <2>2
<1>2. vol[o].ord \in Ordinal /\ vol[o].ord \in reserved
  BY <1>1 DEF MapInv
<1>3. \A p \in Obj : p > created => p # o
  BY <1>1 DEF FreshInv, Unused
<1>4. \A d \in Creator : create[d].stage # "idle" => create[d].obj \in Obj \ {o}
  BY <1>1 DEF CreateInv, Unused, Made, Obj
<1>5. \A d \in Creator : Made(d) => vol[create[d].obj].ord # vol[o].ord
  BY <1>1 DEF MapInv
<1>6. \A j \in Id : vol_map[j] # None /\ vol_map[j] # o => vol[vol_map[j]].ord # vol[o].ord
  BY <1>1 DEF MapInv
<1> QED BY <1>1, <1>2, <1>3, <1>4, <1>5, <1>6

(* A removal is posted, finds nothing, or backs off. *)
LEMMA RemoveIdleInv ==
  ASSUME TypeInv, LifecycleInv, NEW k \in Task, NEW r,
         task' = [task EXCEPT ![k] = r], r.stage \in {"idle", "posted"},
         UNCHANGED <<objects, create, life>>, Running
  PROVE  LifecycleInv'
<1> USE DEF LifecycleInv
<1>1. /\ UNCHANGED <<vol_map, vol, sb, index, repl, reserved, chunks, create, created, phase>>
      /\ SameVolumes
  BY DEF objects, life, SameVolumes, SameIds
<1>2. FreshInv' /\ CreateInv' /\ MapInv' /\ SlotInv' /\ ReplInv' /\ PersistInv'
  BY <1>1, QuietVolumes
<1>3. task'[k] = r /\ \A j \in Task \ {k} : task'[j] = task[j]
  BY DEF TypeInv
<1>4. TaskInv'
  BY <1>1, <1>3 DEF TaskInv, Found, InDestroy
<1>5. StoppedInv'
  BY <1>1 DEF StoppedInv, Running
<1> QED BY <1>2, <1>4, <1>5

(* A removal finds the registered volume. *)
LEMMA RemoveFindInv ==
  ASSUME TypeInv, LifecycleInv, NEW k \in Task, RemoveFind(k)
  PROVE  LifecycleInv'
<1> USE Bounds DEF TypeInv, LifecycleInv
<1>1. PICK i \in Id, o \in Obj : i = task[k].id /\ o = vol_map[i]
  BY DEF RemoveFind
<1>2. /\ Running /\ phase' = phase
      /\ task' = [task EXCEPT ![k].stage = "found", ![k].obj = o]
      /\ UNCHANGED <<vol_map, vol, sb, index, repl, reserved, chunks, create, created>>
  BY <1>1 DEF RemoveFind, life, objects
<1>3. SameVolumes
  BY <1>2 DEF SameVolumes, SameIds
<1>4. /\ \A j \in Task \ {k} : task'[j] = task[j]
      /\ task'[k].stage = "found" /\ task'[k].obj = o
  BY <1>2, SetFound
<1>5. FreshInv' /\ CreateInv' /\ MapInv' /\ SlotInv' /\ ReplInv' /\ PersistInv'
  BY <1>2, <1>3, QuietVolumes
<1>6. /\ vol[o].id = i /\ vol_map[i] = o
      /\ \A p \in Obj : p > created => p # o
      /\ \A c \in Creator : create[c].stage # "idle" => create[c].obj # o
  <2>1. vol[o].id = i /\ vol_map[i] = o
    BY <1>1 DEF MapInv
  <2>2. \A p \in Obj : p > created => p # o
    BY <2>1 DEF FreshInv, Unused
  <2>3. \A c \in Creator : create[c].stage # "idle" => create[c].obj # o
    BY <2>1 DEF CreateInv, Unused, Made
  <2> QED BY <2>1, <2>2, <2>3
<1>7. TaskInv'
  BY <1>2, <1>4, <1>6 DEF TaskInv, Found, InDestroy
<1>8. StoppedInv'
  BY <1>2 DEF StoppedInv, Running
<1> QED BY <1>5, <1>7, <1>8

(* A removal marks the volume it found, whose superblock is still there. *)
LEMMA RemoveMarkInv ==
  ASSUME TypeInv, LifecycleInv, NEW k \in Task, RemoveMark(k)
  PROVE  LifecycleInv'
<1> USE Bounds DEF TypeInv, LifecycleInv
<1>1. PICK o \in Obj : o = task[k].obj
  BY DEF RemoveMark
<1>2. /\ Running /\ phase' = phase /\ sb[o] # "none" /\ task[k].stage = "found"
      /\ StateChange(o, "DESTROYING")
      /\ task' = [task EXCEPT ![k].stage = "marked"]
      /\ UNCHANGED <<vol_map, index, repl, reserved, chunks, create, created>>
  BY <1>1 DEF RemoveMark, life
<1>3. /\ SameVolumes /\ \A p \in Obj \ {o} : sb'[p] = sb[p]
      /\ sb'[o] = "DESTROYING"
  BY <1>2, StateStep DEF State
<1>4. /\ \A j \in Task : task'[j].obj = task[j].obj
      /\ \A j \in Task \ {k} : task'[j] = task[j]
      /\ task'[k].stage = "marked"
  BY <1>2, SetTask DEF TaskStage
<1>5. FreshInv' /\ CreateInv' /\ MapInv' /\ SlotInv' /\ ReplInv' /\ PersistInv'
  BY <1>2, <1>3, QuietVolumes
<1>7. TaskInv'
  <2>1. \A j \in Task : /\ Found(j)' <=> Found(j)
                        /\ InDestroy(j)' <=> InDestroy(j)
                        /\ task'[j].stage = "erase" <=> task[j].stage = "erase"
    BY <1>2, <1>4 DEF Found, InDestroy
  <2>2. ASSUME NEW j \in Task, Found(j)'
        PROVE  /\ vol'[task'[j].obj].id \in Id
               /\ InDestroy(j)' \/ ~vol'[task'[j].obj].started
                  => vol_map'[vol'[task'[j].obj].id] = task'[j].obj
               /\ InDestroy(j)' => vol'[task'[j].obj].started
               /\ task'[j].stage = "erase" => /\ sb'[task'[j].obj] = "none"
                                              /\ chunks'[vol'[task'[j].obj].ord] = None
    <3>1. PICK p \in Obj : p = task[j].obj /\ p = task'[j].obj
      BY <1>4, <2>1, <2>2 DEF Found
    <3>2. /\ vol[p].id \in Id
          /\ InDestroy(j) \/ ~vol[p].started => vol_map[vol[p].id] = p
          /\ InDestroy(j) => vol[p].started
          /\ task[j].stage = "erase" => sb[p] = "none" /\ chunks[vol[p].ord] = None
      BY <2>1, <2>2, <3>1 DEF TaskInv
    <3>3. vol'[p].id = vol[p].id /\ vol'[p].ord = vol[p].ord /\ (vol'[p].started <=> vol[p].started)
      BY <1>3 DEF SameVolumes, SameIds
    <3>4. sb[p] = "none" => sb'[p] = "none"
      BY <1>2, <1>3
    <3>5. vol_map' = vol_map /\ chunks' = chunks
      BY <1>2
    <3> QED BY ONLY <2>1, <3>1, <3>2, <3>3, <3>4, <3>5
  <2>3. \A j, l \in Task : j # l /\ InDestroy(j)' /\ InDestroy(l)' => task'[j].obj # task'[l].obj
    BY <1>4, <2>1 DEF TaskInv
  <2>4. \A j \in Task : Found(j)' =>
            /\ \A p \in Obj : p > created' => p # task'[j].obj
            /\ \A c \in Creator : create'[c].stage # "idle" => create'[c].obj # task'[j].obj
    BY <1>2, <1>4, <2>1 DEF TaskInv
  <2> QED BY <2>2, <2>3, <2>4 DEF TaskInv
<1>8. StoppedInv'
  BY <1>2 DEF StoppedInv, Running
<1> QED BY <1>5, <1>7, <1>8

(* can_remove() held when it was read. *)
LEMMA RemoveCheckedInv ==
  ASSUME TypeInv, LifecycleInv, NEW k \in Task, task[k].stage = "marked",
         task' = [task EXCEPT ![k].stage = "checked"],
         UNCHANGED <<objects, create, life>>, Running
  PROVE  LifecycleInv'
<1> USE DEF LifecycleInv
<1>1. /\ UNCHANGED <<vol_map, vol, sb, index, repl, reserved, chunks, create, created, phase>>
      /\ SameVolumes
  BY DEF objects, life, SameVolumes, SameIds
<1>2. FreshInv' /\ CreateInv' /\ MapInv' /\ SlotInv' /\ ReplInv' /\ PersistInv'
  BY <1>1, QuietVolumes
<1>3. /\ task'[k].stage = "checked" /\ task'[k].obj = task[k].obj
      /\ \A j \in Task \ {k} : task'[j] = task[j]
  BY SetTask DEF TypeInv, TaskStage
<1>4. TaskInv'
  BY <1>1, <1>3 DEF TaskInv, Found, InDestroy
<1>5. StoppedInv'
  BY <1>1 DEF StoppedInv, Running
<1> QED BY <1>2, <1>4, <1>5

(* A destroy() that touches one volume, its slot and its ordinal leaves the  *)
(* volumes being made, and the unused objects, alone.                        *)
LEMMA DestroyOthers ==
  ASSUME TypeInv, LifecycleInv, NEW k \in Task, Found(k), NEW o \in Obj, o = task[k].obj,
         InDestroy(k) \/ ~vol[o].started,
         UNCHANGED <<create, created>>, SameIds,
         \A p \in Obj \ {o} : /\ vol'[p] = vol[p] /\ sb'[p] = sb[p]
                              /\ p \in index' <=> p \in index,
         \A i \in Id : vol_map'[i] # vol_map[i] => vol_map'[i] = None,
         \A n \in Ordinal \ {vol[o].ord} : /\ chunks'[n] = chunks[n]
                                           /\ n \in reserved => n \in reserved'
  PROVE  FreshInv' /\ CreateInv'
<1> USE Bounds DEF LifecycleInv
<1>1. /\ \A p \in Obj : p > created => p # o
      /\ \A d \in Creator : create[d].stage # "idle" => create[d].obj \in Obj \ {o}
      /\ \A d \in Creator : Made(d) => vol[create[d].obj].ord # vol[o].ord
  BY RemoveOwn
<1>2. ASSUME NEW p \in Obj, p > created
      PROVE  Unused(p)'
  <2>1. Unused(p) /\ p # o
    BY <1>1, <1>2 DEF FreshInv
  <2> QED BY <2>1 DEF Unused
<1>3. FreshInv'
  BY <1>2 DEF FreshInv
<1>4. ASSUME NEW d \in Creator, create'[d].stage = "begun"
      PROVE  Unused(create[d].obj)'
  <2>1. create[d].stage = "begun" /\ create[d].obj \in Obj \ {o}
    BY <1>1, <1>4
  <2>2. vol'[create[d].obj] = vol[create[d].obj] /\ sb'[create[d].obj] = sb[create[d].obj]
        /\ (create[d].obj \in index' <=> create[d].obj \in index)
    BY <2>1
  <2> QED BY <2>1, <2>2, UnusedFrame
<1>5. ASSUME NEW d \in Creator, Made(d)'
      PROVE  /\ vol'[create[d].obj].id = vol[create[d].obj].id
             /\ vol'[create[d].obj].ord = vol[create[d].obj].ord
             /\ vol'[create[d].obj].started <=> vol[create[d].obj].started
             /\ sb'[create[d].obj] # "none" <=> create'[d].stage = "emplace"
             /\ create'[d].stage \in {"online", "emplace"} => create[d].obj \in index'
             /\ chunks'[vol[create[d].obj].ord] = IF create'[d].stage = "chunks" THEN None
                                                  ELSE create[d].obj
  <2>1. Made(d) /\ create'[d] = create[d]
    BY <1>5 DEF Made
  <2>2. PICK p \in Obj \ {o} : p = create[d].obj
    BY <1>1, <2>1 DEF Made
  <2>3. /\ sb[p] # "none" <=> create[d].stage = "emplace"
        /\ create[d].stage \in {"online", "emplace"} => p \in index
        /\ chunks[vol[p].ord] = IF create[d].stage = "chunks" THEN None ELSE p
    BY <2>1, <2>2 DEF CreateInv
  <2>4. vol[p].ord \in Ordinal \ {vol[o].ord}
    BY <1>1, <2>1, <2>2, CreateOwn
  <2>5. chunks'[vol[p].ord] = chunks[vol[p].ord]
    BY <2>4
  <2>6. vol'[p] = vol[p] /\ sb'[p] = sb[p] /\ (p \in index' <=> p \in index)
    OBVIOUS
  <2> QED BY ONLY <2>1, <2>2, <2>3, <2>5, <2>6
<1>6. \A d \in Creator : Made(d) => create[d].obj # None
  BY CreateOwn
<1>7. \A n \in reserved \ reserved' : \A d \in Creator : Made(d) => vol[create[d].obj].ord # n
  BY <1>1, CreateOwn
<1>8. \A d \in Creator : create'[d].stage = "begun" => Unused(create[d].obj)'
  BY <1>4
<1>9. \A d \in Creator : Made(d)' => Made(d)
  BY DEF Made
<1>10. CreateInv'
  BY <1>5, <1>6, <1>7, <1>8, <1>9, CreateFrame
<1> QED BY <1>3, <1>10

(* destroy() marks the volume, the first time. *)
LEMMA DestroyBeginInv ==
  ASSUME TypeInv, LifecycleInv, NEW k \in Task, DestroyBegin(k), ~again'
  PROVE  LifecycleInv'
<1> USE Bounds DEF TypeInv, LifecycleInv
<1>1. /\ task[k].stage = "checked" /\ Found(k) /\ Running /\ phase' = phase
      /\ UNCHANGED <<vol_map, sb, index, repl, chunks, reserved, create, created>>
  BY DEF DestroyBegin, life, Found
<1>2. PICK o \in Obj : o = task[k].obj /\ ~vol[o].started
  <2>1. task[k].obj \in Obj
    BY <1>1
  <2>2. ~vol[task[k].obj].started
    BY DEF DestroyBegin
  <2> QED BY ONLY <2>1, <2>2
<1>3. /\ SameIds /\ \A p \in Obj : vol'[p].rd = vol[p].rd
      /\ \A p \in Obj \ {o} : vol'[p] = vol[p]
      /\ vol'[o].started
  BY <1>2, SetStarted DEF DestroyBegin
<1>4. /\ task'[k].stage = "repl" /\ task'[k].obj = o
      /\ \A j \in Task \ {k} : task'[j] = task[j]
  BY <1>2, SetTask DEF DestroyBegin, TaskStage
<1>5. FreshInv' /\ CreateInv'
  BY <1>1, <1>2, <1>3, DestroyOthers
<1>6. MapInv'
  <2>1. ASSUME NEW i \in Id, vol_map[i] # None
        PROVE  /\ vol'[vol_map[i]].id = i
               /\ vol'[vol_map[i]].ord \in reserved
               /\ sb[vol_map[i]] # "none" => chunks[vol'[vol_map[i]].ord] = vol_map[i]
               /\ ~vol'[vol_map[i]].started => sb[vol_map[i]] # "none" /\ vol_map[i] \in index
               /\ \A c \in Creator : Made(c) => vol'[create[c].obj].ord # vol'[vol_map[i]].ord
    <3>1. PICK p \in Obj : p = vol_map[i]
      BY <2>1
    <3>2. vol'[p].id = vol[p].id /\ vol'[p].ord = vol[p].ord /\ (vol[p].started => vol'[p].started)
      BY <1>3 DEF SameIds
    <3>3. \A c \in Creator : Made(c) => vol'[create[c].obj].ord = vol[create[c].obj].ord
      BY <1>3, CreateOwn DEF SameIds
    <3>4. /\ vol[p].id = i
          /\ vol[p].ord \in reserved
          /\ sb[p] # "none" => chunks[vol[p].ord] = p
          /\ ~vol[p].started => sb[p] # "none" /\ p \in index
          /\ \A c \in Creator : Made(c) => vol[create[c].obj].ord # vol[p].ord
      BY <2>1, <3>1 DEF MapInv
    <3> QED BY ONLY <3>1, <3>2, <3>3, <3>4
  <2>2. \A i, j \in Id : i # j /\ vol_map[i] # None /\ vol_map[j] # None
                         => vol'[vol_map[i]].ord # vol'[vol_map[j]].ord
    <3>1. \A i \in Id : vol_map[i] # None => vol'[vol_map[i]].ord = vol[vol_map[i]].ord
      BY <1>3 DEF SameIds
    <3> QED BY <3>1 DEF MapInv
  <2> QED BY <1>1, <2>1, <2>2 DEF MapInv, Made
<1>7. TaskInv'
  <2>1. \A j \in Task \ {k} : InDestroy(j) => task[j].obj # o
    BY <1>2 DEF TaskInv, Found, InDestroy
  <2>2. ASSUME NEW j \in Task, Found(j)'
        PROVE  Found(j) /\ task'[j].obj = task[j].obj /\ (j # k => task'[j] = task[j])
    BY <1>1, <1>2, <1>4, <2>2 DEF Found
  <2>3. ASSUME NEW j \in Task, Found(j)'
        PROVE  /\ vol'[task'[j].obj].id \in Id
               /\ InDestroy(j)' \/ ~vol'[task'[j].obj].started
                  => vol_map'[vol'[task'[j].obj].id] = task'[j].obj
               /\ InDestroy(j)' => vol'[task'[j].obj].started
               /\ task'[j].stage = "erase" => /\ sb'[task'[j].obj] = "none"
                                              /\ chunks'[vol'[task'[j].obj].ord] = None
    <3>1. Found(j) /\ task'[j].obj = task[j].obj /\ (j # k => task'[j] = task[j])
      BY <2>2, <2>3
    <3>2. PICK p \in Obj : p = task[j].obj
      BY <3>1 DEF Found
    <3>3. /\ vol[p].id \in Id
          /\ InDestroy(j) \/ ~vol[p].started => vol_map[vol[p].id] = p
          /\ InDestroy(j) => vol[p].started
          /\ task[j].stage = "erase" => sb[p] = "none" /\ chunks[vol[p].ord] = None
      BY <3>1, <3>2 DEF TaskInv
    <3>4. vol'[p].id = vol[p].id /\ vol'[p].ord = vol[p].ord /\ (vol[p].started => vol'[p].started)
      BY <1>3 DEF SameIds
    <3>5. CASE j = k
      BY <1>1, <1>2, <1>3, <1>4, <3>1, <3>2, <3>3, <3>4, <3>5
    <3>6. CASE j # k
      <4>1. (InDestroy(j)' <=> InDestroy(j)) /\ (task'[j].stage = "erase" <=> task[j].stage = "erase")
        BY <3>1, <3>6 DEF InDestroy
      <4> QED BY <1>1, <3>1, <3>2, <3>3, <3>4, <4>1
    <3> QED BY <3>5, <3>6
  <2>4. \A j, l \in Task : j # l /\ InDestroy(j)' /\ InDestroy(l)' => task'[j].obj # task'[l].obj
    BY <1>4, <2>1 DEF TaskInv, InDestroy
  <2>5. \A j \in Task : Found(j)' =>
            /\ \A p \in Obj : p > created' => p # task'[j].obj
            /\ \A c \in Creator : create'[c].stage # "idle" => create'[c].obj # task'[j].obj
    BY <1>1, <2>2 DEF TaskInv
  <2> QED BY <2>3, <2>4, <2>5 DEF TaskInv
<1>8. SlotInv' /\ StoppedInv'
  BY <1>1 DEF SlotInv, StoppedInv, Running
<1>9. ReplInv' /\ PersistInv'
  BY <1>1, <1>3 DEF ReplInv, PersistInv, SameIds
<1> QED BY <1>5, <1>6, <1>7, <1>8, <1>9

(* The next stage of a destroy(), among the other removals. *)
LEMMA DestroyTask ==
  ASSUME TypeInv, LifecycleInv, NEW k \in Task, InDestroy(k), NEW s \in {"index", "sb", "erase"},
         task' = [task EXCEPT ![k].stage = s], SameIds, UNCHANGED <<vol_map, create, created>>,
         \A p \in Obj : vol'[p].started <=> vol[p].started,
         s = "erase" => /\ sb'[task[k].obj] = "none"
                        /\ chunks'[vol[task[k].obj].ord] = None,
         \A p \in Obj : sb[p] = "none" => sb'[p] = "none",
         \A n \in Ordinal : chunks[n] = None => chunks'[n] = None
  PROVE  TaskInv'
<1> USE Bounds DEF TypeInv, LifecycleInv
<1>1. /\ \A j \in Task : task'[j].obj = task[j].obj
      /\ \A j \in Task \ {k} : task'[j] = task[j]
      /\ task'[k].stage = s
  BY SetTask DEF TaskStage
<1>2. ASSUME NEW j \in Task, Found(j)'
      PROVE  /\ vol'[task'[j].obj].id \in Id
             /\ InDestroy(j)' \/ ~vol'[task'[j].obj].started
                => vol_map'[vol'[task'[j].obj].id] = task'[j].obj
             /\ InDestroy(j)' => vol'[task'[j].obj].started
             /\ task'[j].stage = "erase" => /\ sb'[task'[j].obj] = "none"
                                            /\ chunks'[vol'[task'[j].obj].ord] = None
  <2>1. Found(j) /\ (InDestroy(j)' => InDestroy(j))
    BY <1>1, <1>2 DEF Found, InDestroy
  <2>2. PICK p \in Obj : p = task[j].obj /\ p = task'[j].obj
    BY <1>1, <2>1 DEF Found
  <2>3. /\ vol[p].id \in Id
        /\ InDestroy(j) \/ ~vol[p].started => vol_map[vol[p].id] = p
        /\ InDestroy(j) => vol[p].started
        /\ task[j].stage = "erase" => sb[p] = "none" /\ chunks[vol[p].ord] = None
    BY <2>1, <2>2 DEF TaskInv
  <2>4. vol'[p].id = vol[p].id /\ vol'[p].ord = vol[p].ord /\ (vol'[p].started <=> vol[p].started)
    BY DEF SameIds
  <2>6. task'[j].stage = "erase" => sb'[p] = "none" /\ chunks'[vol[p].ord] = None
    <3>1. CASE j = k
      BY <1>1, <2>2, <3>1
    <3>2. CASE j # k
      <4>1. SUFFICES ASSUME task[j].stage = "erase"
                     PROVE  sb'[p] = "none" /\ chunks'[vol[p].ord] = None
        BY <1>1, <3>2
      <4>2. InDestroy(j)
        BY <4>1 DEF InDestroy
      <4>3. vol[p].ord \in Ordinal
        BY <2>1, <2>2, <4>2, RemoveOwn
      <4> QED BY <2>3, <4>1, <4>3
    <3> QED BY <3>1, <3>2
  <2> QED BY <2>1, <2>2, <2>3, <2>4, <2>6
<1>3. \A j, l \in Task : j # l /\ InDestroy(j)' /\ InDestroy(l)' => task'[j].obj # task'[l].obj
  BY <1>1 DEF TaskInv, InDestroy
<1>4. \A j \in Task : Found(j)' => Found(j)
  BY <1>1 DEF Found, InDestroy
<1>5. \A j \in Task : Found(j)' =>
          /\ \A p \in Obj : p > created' => p # task'[j].obj
          /\ \A c \in Creator : create'[c].stage # "idle" => create'[c].obj # task'[j].obj
  BY <1>1, <1>4 DEF TaskInv
<1> QED BY <1>2, <1>3, <1>5 DEF TaskInv

(* destroy() removes the repl dev, if this volume holds it. *)
LEMMA DestroyReplInv ==
  ASSUME TypeInv, LifecycleInv, NEW k \in Task, DestroyRepl(k)
  PROVE  LifecycleInv'
<1> USE Bounds DEF TypeInv, LifecycleInv
<1>1. /\ task[k].stage = "repl" /\ Found(k) /\ InDestroy(k) /\ Running /\ phase' = phase
      /\ task' = [task EXCEPT ![k].stage = "index"]
      /\ UNCHANGED <<vol_map, sb, index, chunks, reserved, create, created>>
  BY DEF DestroyRepl, life, Found, InDestroy
<1>2. PICK o \in Obj : o = task[k].obj
  BY <1>1, RemoveOwn
<1>3. /\ SameIds /\ \A p \in Obj : vol'[p].started = vol[p].started
      /\ \A p \in Obj \ {o} : vol'[p] = vol[p]
      /\ vol'[o].rd = FALSE
  BY <1>2, SetRd DEF DestroyRepl
<1>4. FreshInv' /\ CreateInv'
  BY <1>1, <1>2, <1>3, DestroyOthers
<1>5. MapInv'
  <2>1. \A d \in Creator : Made(d)' => Made(d) /\ vol'[create'[d].obj].ord = vol[create[d].obj].ord
    BY <1>1, <1>3, CreateOwn DEF Made, SameIds
  <2>2. \A i \in Id : vol_map[i] # None => /\ vol'[vol_map[i]].id = vol[vol_map[i]].id
                                           /\ vol'[vol_map[i]].ord = vol[vol_map[i]].ord
                                           /\ vol'[vol_map[i]].started <=> vol[vol_map[i]].started
    BY <1>3 DEF SameIds
  <2> QED BY <1>1, <2>1, <2>2, MapFrame
<1>6. TaskInv'
  BY <1>1, <1>3, DestroyTask
<1>7. ReplInv'
  <2>1. \A p \in Obj : vol'[p].rd => p # o /\ vol[p].rd
    BY <1>3
  <2>2. \A p \in Obj : vol'[p].rd => vol[p].id \in repl'
    <3>1. CASE vol[o].rd
      <4>1. repl' = repl \ {vol[o].id}
        BY <1>2, <3>1 DEF DestroyRepl
      <4> QED BY <2>1, <3>1, <4>1 DEF ReplInv
    <3>2. CASE ~vol[o].rd
      <4>1. repl' = repl
        BY <1>2, <3>2 DEF DestroyRepl
      <4> QED BY <2>1, <4>1 DEF ReplInv
    <3> QED BY <3>1, <3>2
  <2> QED BY <1>3, <2>1, <2>2 DEF ReplInv, SameIds
<1>8. SlotInv' /\ PersistInv' /\ StoppedInv'
  BY <1>1, <1>3 DEF SlotInv, PersistInv, StoppedInv, Running, SameIds
<1> QED BY <1>4, <1>5, <1>6, <1>7, <1>8

(* destroy() removes the index table. *)
LEMMA DestroyIndexInv ==
  ASSUME TypeInv, LifecycleInv, NEW k \in Task, DestroyIndex(k)
  PROVE  LifecycleInv'
<1> USE Bounds DEF TypeInv, LifecycleInv
<1>1. /\ task[k].stage = "index" /\ Found(k) /\ InDestroy(k) /\ Running /\ phase' = phase
      /\ task' = [task EXCEPT ![k].stage = "sb"] /\ index' = index \ {task[k].obj}
      /\ UNCHANGED <<vol_map, vol, sb, repl, chunks, reserved, create, created>>
      /\ SameIds
  BY DEF DestroyIndex, life, Found, InDestroy, SameIds
<1>2. PICK o \in Obj : o = task[k].obj /\ vol[o].started
  BY <1>1, RemoveOwn DEF TaskInv
<1>3. FreshInv' /\ CreateInv'
  BY <1>1, <1>2, DestroyOthers
<1>4. MapInv'
  BY <1>1, <1>2 DEF MapInv, Made
<1>5. TaskInv'
  BY <1>1, DestroyTask
<1>6. SlotInv' /\ ReplInv' /\ PersistInv' /\ StoppedInv'
  BY <1>1 DEF SlotInv, ReplInv, PersistInv, StoppedInv, Running
<1> QED BY <1>3, <1>4, <1>5, <1>6

(* destroy() removes the superblock and empties the slot of the volume. *)
LEMMA DestroySuperblockInv ==
  ASSUME TypeInv, LifecycleInv, NEW k \in Task, DestroySuperblock(k)
  PROVE  LifecycleInv'
<1> USE Bounds DEF TypeInv, LifecycleInv
<1>1. /\ task[k].stage = "sb" /\ Found(k) /\ InDestroy(k) /\ Running /\ phase' = phase
      /\ task' = [task EXCEPT ![k].stage = "erase"]
      /\ UNCHANGED <<vol_map, vol, index, repl, reserved, create, created>>
      /\ SameIds
  BY DEF DestroySuperblock, life, Found, InDestroy, SameIds
<1>2. PICK o \in Obj, n \in Ordinal : /\ o = task[k].obj /\ n = vol[o].ord
                                      /\ vol[o].started
  <2>1. task[k].obj \in Obj /\ vol[task[k].obj].ord \in Ordinal
    BY <1>1, RemoveOwn
  <2>2. vol[task[k].obj].started
    BY <1>1 DEF TaskInv
  <2> QED BY ONLY <2>1, <2>2
<1>3. /\ sb'[o] = "none" /\ \A p \in Obj \ {o} : sb'[p] = sb[p]
      /\ chunks'[n] = None /\ \A m \in Ordinal \ {n} : chunks'[m] = chunks[m]
  BY <1>2 DEF DestroySuperblock
<1>4. FreshInv' /\ CreateInv'
  BY <1>1, <1>2, <1>3, DestroyOthers
<1>5. MapInv'
  <2>1. ASSUME NEW i \in Id, vol_map[i] # None, sb'[vol_map[i]] # "none"
        PROVE  chunks'[vol[vol_map[i]].ord] = vol_map[i]
    <3>1. vol_map[i] \in Obj \ {o}
      BY <1>3, <2>1
    <3>2. vol[vol_map[i]].ord # n /\ vol[vol_map[i]].ord \in Ordinal
      BY <1>1, <1>2, <2>1, <3>1, RemoveOwn DEF MapInv
    <3> QED BY <1>3, <2>1, <3>1, <3>2, ZenonT(40) DEF MapInv
  <2>2. ASSUME NEW i \in Id, vol_map[i] # None, ~vol[vol_map[i]].started
        PROVE  sb'[vol_map[i]] # "none"
    <3>1. PICK p \in Obj \ {o} : p = vol_map[i]
      BY <1>2, <2>2
    <3>2. sb[p] # "none"
      BY <2>2, <3>1 DEF MapInv
    <3> QED BY <1>3, <3>1, <3>2
  <2> QED BY <1>1, <2>1, <2>2 DEF MapInv, Made
<1>6. TaskInv'
  BY <1>1, <1>2, <1>3, DestroyTask
<1>7. SlotInv'
  <2>1. \A m \in Ordinal \ reserved' : chunks'[m] = None
    BY <1>1, <1>3 DEF SlotInv
  <2> QED BY <2>1 DEF SlotInv
<1>8. ReplInv' /\ PersistInv' /\ StoppedInv'
  BY <1>1, <1>3 DEF ReplInv, PersistInv, StoppedInv, Running
<1> QED BY <1>4, <1>5, <1>6, <1>7, <1>8

(* The volume leaves the map and its ordinal is free: no other removal has    *)
(* found it, and its slot is empty.                                          *)
LEMMA RemoveEraseInv ==
  ASSUME TypeInv, LifecycleInv, NEW k \in Task, RemoveErase(k)
  PROVE  LifecycleInv'
<1> USE Bounds DEF TypeInv, LifecycleInv
<1>1. /\ task[k].stage = "erase" /\ Found(k) /\ InDestroy(k) /\ Running /\ phase' = phase
      /\ task' = [task EXCEPT ![k] = NoCall]
      /\ UNCHANGED <<vol, sb, index, repl, chunks, create, created>>
      /\ SameIds
  BY DEF RemoveErase, life, Found, InDestroy, SameIds, TaskInv
<1>2. PICK o \in Obj, n \in Ordinal, i \in Id :
          o = task[k].obj /\ n = vol[o].ord /\ i = vol[o].id /\ vol_map[i] = o /\ n \in reserved
  <2>1. task[k].obj \in Obj /\ vol[task[k].obj].ord \in Ordinal /\ vol[task[k].obj].id \in Id
        /\ vol_map[vol[task[k].obj].id] = task[k].obj /\ vol[task[k].obj].ord \in reserved
    BY <1>1, RemoveOwn
  <2> QED BY ONLY <2>1
<1>3. /\ vol_map'[i] = None /\ \A j \in Id \ {i} : vol_map'[j] = vol_map[j]
      /\ reserved' = reserved \ {n} /\ chunks[n] = None
  <2>1. vol_map' = [vol_map EXCEPT ![i] = None] /\ reserved' = reserved \ {n}
    BY <1>2 DEF RemoveErase
  <2>2. chunks[n] = None
    BY <1>1, <1>2 DEF TaskInv
  <2> QED BY <1>2, <2>1, <2>2
<1>4. FreshInv' /\ CreateInv'
  <2>1. \A j \in Id : vol_map'[j] # vol_map[j] => vol_map'[j] = None
    BY <1>3
  <2> QED BY <1>1, <1>2, <1>3, <2>1, DestroyOthers
<1>5. \A j \in Id \ {i} : vol_map[j] # None => vol[vol_map[j]].ord # n
  BY <1>2 DEF MapInv
<1>6. MapInv'
  <2>1. \A j \in Id : vol_map'[j] # None => j # i /\ vol_map'[j] = vol_map[j]
    BY <1>3
  <2>2. ASSUME NEW j \in Id, vol_map'[j] # None
        PROVE  /\ vol'[vol_map'[j]].id = j
               /\ vol'[vol_map'[j]].ord \in reserved'
               /\ sb'[vol_map'[j]] # "none" => chunks'[vol'[vol_map'[j]].ord] = vol_map'[j]
               /\ ~vol'[vol_map'[j]].started => sb'[vol_map'[j]] # "none" /\ vol_map'[j] \in index'
               /\ \A d \in Creator : Made(d)' => vol'[create'[d].obj].ord # vol'[vol_map'[j]].ord
    <3>1. vol_map[j] # None /\ vol_map'[j] = vol_map[j] /\ vol[vol_map[j]].ord # n
      BY <1>5, <2>1, <2>2
    <3> QED BY <1>1, <1>3, <3>1 DEF MapInv, Made
  <2>3. \A j, l \in Id : j # l /\ vol_map'[j] # None /\ vol_map'[l] # None
                         => vol'[vol_map'[j]].ord # vol'[vol_map'[l]].ord
    BY <1>1, <2>1 DEF MapInv
  <2> QED BY <2>2, <2>3 DEF MapInv
<1>7. TaskInv'
  <2>1. task'[k].stage = "idle" /\ \A j \in Task \ {k} : task'[j] = task[j]
    BY <1>1, NoCallType
  <2>2. ASSUME NEW j \in Task, Found(j)'
        PROVE  j # k /\ Found(j) /\ task'[j] = task[j]
    BY <2>1, <2>2 DEF Found
  <2>3. ASSUME NEW j \in Task, Found(j)'
        PROVE  /\ vol'[task'[j].obj].id \in Id
               /\ InDestroy(j)' \/ ~vol'[task'[j].obj].started
                  => vol_map'[vol'[task'[j].obj].id] = task'[j].obj
               /\ InDestroy(j)' => vol'[task'[j].obj].started
               /\ task'[j].stage = "erase" => /\ sb'[task'[j].obj] = "none"
                                              /\ chunks'[vol'[task'[j].obj].ord] = None
    <3>1. j # k /\ Found(j) /\ task'[j] = task[j] /\ (InDestroy(j)' <=> InDestroy(j))
      BY <2>2, <2>3 DEF InDestroy
    <3>2. PICK p \in Obj : p = task[j].obj
      BY <3>1 DEF Found
    <3>3. /\ vol[p].id \in Id
          /\ InDestroy(j) \/ ~vol[p].started => vol_map[vol[p].id] = p
          /\ InDestroy(j) => vol[p].started
          /\ task[j].stage = "erase" => sb[p] = "none" /\ chunks[vol[p].ord] = None
      BY <3>1, <3>2 DEF TaskInv
    <3>4. vol[o].started
      BY <1>1, <1>2 DEF TaskInv
    <3>5. InDestroy(j) \/ ~vol[p].started => p # o
      BY <1>1, <1>2, <3>1, <3>2, <3>4 DEF TaskInv
    <3>6. InDestroy(j) \/ ~vol[p].started => vol_map'[vol[p].id] = p
      BY <1>2, <1>3, <3>3, <3>5
    <3> QED BY <1>1, <3>1, <3>2, <3>3, <3>6
  <2>4. \A j, l \in Task : j # l /\ InDestroy(j)' /\ InDestroy(l)' => task'[j].obj # task'[l].obj
    BY <2>1 DEF TaskInv, InDestroy
  <2>5. \A j \in Task : Found(j)' =>
            /\ \A p \in Obj : p > created' => p # task'[j].obj
            /\ \A c \in Creator : create'[c].stage # "idle" => create'[c].obj # task'[j].obj
    BY <1>1, <2>2 DEF TaskInv
  <2> QED BY <2>3, <2>4, <2>5 DEF TaskInv
<1>8. SlotInv'
  BY <1>1, <1>3 DEF SlotInv
<1>9. ReplInv' /\ PersistInv' /\ StoppedInv'
  BY <1>1 DEF ReplInv, PersistInv, StoppedInv, Running
<1> QED BY <1>4, <1>6, <1>7, <1>8, <1>9

(* Every step of a removal keeps the invariant, unless it begins a second     *)
(* destroy() of a volume.                                                    *)
LEMMA RemoveKeeps ==
  ASSUME TypeInv, LifecycleInv, NEW k \in Task, ~again',
         RemoveStep(k) \/ \E i \in Id : RemoveVolume(k, i) \/ Reap(k, i)
  PROVE  LifecycleInv'
<1>1. ASSUME NEW i \in Id, RemoveVolume(k, i) \/ Reap(k, i)
      PROVE  LifecycleInv'
  <2>1. PICK r : r = [stage |-> "posted", obj |-> None, id |-> i]
    OBVIOUS
  <2>2. task' = [task EXCEPT ![k] = r] /\ r.stage = "posted"
    BY <1>1, <2>1 DEF RemoveVolume, Reap, Post
  <2>3. UNCHANGED <<objects, create, life>> /\ Running
    BY <1>1 DEF RemoveVolume, Reap
  <2> QED BY <2>2, <2>3, RemoveIdleInv
<1>2. CASE RemoveNotFound(k)
  BY <1>2, RemoveIdleInv, NoCallType DEF RemoveNotFound
<1>3. CASE RemoveCheck(k)
  <2>1. /\ task[k].stage = "marked" /\ Running /\ UNCHANGED <<objects, create, life>>
    BY <1>3 DEF RemoveCheck
  <2>2. CASE CanRemove(task[k].obj)
    <3>1. task' = [task EXCEPT ![k].stage = "checked"]
      BY <1>3, <2>2 DEF RemoveCheck
    <3> QED BY <2>1, <3>1, RemoveCheckedInv
  <2>3. CASE ~CanRemove(task[k].obj)
    <3>1. task' = [task EXCEPT ![k] = NoCall]
      BY <1>3, <2>3 DEF RemoveCheck
    <3> QED BY <2>1, <3>1, RemoveIdleInv, NoCallType
  <2> QED BY <2>2, <2>3
<1> QED BY <1>1, <1>2, <1>3, RemoveFindInv, RemoveMarkInv, DestroyBeginInv, DestroyReplInv, DestroyIndexInv,
           DestroySuperblockInv, RemoveEraseInv DEF RemoveStep

(* The end of the process keeps the invariant. *)
LEMMA GoneKeeps ==
  ASSUME TypeInv, LifecycleInv, ProcessGone, phase' \in {"down", "crashed"}
  PROVE  LifecycleInv'
<1> USE Bounds DEF LifecycleInv
<1>1. /\ \A i \in Id : vol_map'[i] = None
      /\ \A n \in Ordinal : chunks'[n] = None
      /\ \A c \in Creator : create'[c].stage = "idle"
      /\ \A k \in Task : task'[k].stage = "idle"
      /\ UNCHANGED <<sb, index, repl, created>>
  BY NoCallType DEF ProcessGone
<1>2. SameIds /\ \A o \in Obj : ~vol'[o].started /\ ~vol'[o].rd
  BY SetGone DEF TypeInv
<1>3. FreshInv'
  BY <1>1, <1>2 DEF FreshInv, Unused
<1>4. CreateInv' /\ MapInv'
  BY <1>1 DEF CreateInv, MapInv, Made
<1>5. SlotInv' /\ TaskInv'
  BY <1>1 DEF SlotInv, TaskInv, Found, InDestroy
<1>6. ReplInv' /\ PersistInv'
  BY <1>1, <1>2 DEF ReplInv, PersistInv, SameIds
<1>7. StoppedInv'
  BY <1>1, <1>2 DEF StoppedInv
<1> QED BY <1>3, <1>4, <1>5, <1>6, <1>7

(* A boot that recovers the volumes establishes the invariant again: the      *)
(* assertions of the recovery make ids and ordinals unique.                  *)
LEMMA BootKeeps ==
  ASSUME TypeInv, LifecycleInv, Boot
  PROVE  LifecycleInv'
<1> USE Bounds DEF LifecycleInv
<1>1. /\ Recoverable /\ ~Running /\ phase' = "up" /\ reserved' = RecoveredOrdinals
      /\ UNCHANGED <<sb, index, repl, create, created>>
  BY DEF Boot, Running
<1>2. /\ \A c \in Creator : create[c].stage = "idle"
      /\ \A o \in Obj : ~vol[o].rd /\ ~vol[o].started
  BY <1>1 DEF StoppedInv
<1>3. /\ SameIds
      /\ \A o \in Obj : vol'[o].started = vol[o].started
      /\ \A o \in Obj : sb[o] = "none" => vol'[o].rd = vol[o].rd
      /\ \A o \in Obj : sb[o] # "none" => vol'[o].rd = (vol[o].id \in repl)
  BY SetBooted DEF TypeInv
<1>4. \A k \in Task : task'[k].stage \in {"idle", "posted"}
  <2>1. PICK by \in [Resumed -> Task] :
            task' = [k \in Task |-> IF \E i \in Resumed : by[i] = k
                                    THEN [stage |-> "posted", obj |-> None,
                                          id |-> CHOOSE i \in Resumed : by[i] = k]
                                    ELSE NoCall]
    BY DEF Boot
  <2>2. ASSUME NEW k \in Task
        PROVE  task'[k].stage \in {"idle", "posted"}
    <3>1. CASE \E i \in Resumed : by[i] = k
      BY <2>1, <3>1
    <3>2. CASE ~ \E i \in Resumed : by[i] = k
      BY <2>1, <3>2, NoCallType
    <3> QED BY <3>1, <3>2
  <2> QED BY <2>2
<1>5. ASSUME NEW i \in Id, vol_map'[i] # None
      PROVE  vol_map'[i] \in Recovered /\ vol[vol_map'[i]].id = i
  <2>1. vol_map'[i] = IF \E o \in Recovered : vol[o].id = i
                      THEN CHOOSE o \in Recovered : vol[o].id = i ELSE None
    BY DEF Boot
  <2> QED BY <1>5, <2>1
<1>6. \A o \in Recovered : o \in Obj /\ sb[o] # "none" /\ o \in index /\ vol[o].ord \in Ordinal
  BY <1>1 DEF Recovered, Recoverable, PersistInv
<1>7. FreshInv'
  <2>1. \A o \in Obj : sb[o] = "none" => \A i \in Id : vol_map'[i] # o
    BY <1>5, <1>6
  <2>2. ASSUME NEW o \in Obj, o > created
        PROVE  Unused(o)'
    <3>1. Unused(o)
      BY <2>2 DEF FreshInv
    <3> QED BY <1>1, <1>3, <2>1, <3>1 DEF Unused
  <2> QED BY <1>1, <2>2 DEF FreshInv
<1>8. CreateInv'
  BY <1>1, <1>2 DEF CreateInv, Made
<1>9. ASSUME NEW o \in Recovered
      PROVE  chunks'[vol[o].ord] = o
  <2>1. chunks'[vol[o].ord] = RecoveredChunks(vol[o].ord)
    BY <1>6 DEF Boot
  <2>2. PICK p \in Recovered : vol[p].ord = vol[o].ord /\ RecoveredChunks(vol[o].ord) = p
    BY DEF RecoveredChunks
  <2>3. p = o
    BY <1>1, <1>6, <2>2 DEF Recoverable
  <2> QED BY <2>1, <2>2, <2>3
<1>10. MapInv'
  <2>1. ASSUME NEW i \in Id, vol_map'[i] # None
        PROVE  /\ vol'[vol_map'[i]].id = i
               /\ vol'[vol_map'[i]].ord \in reserved'
               /\ sb'[vol_map'[i]] # "none" => chunks'[vol'[vol_map'[i]].ord] = vol_map'[i]
               /\ ~vol'[vol_map'[i]].started => sb'[vol_map'[i]] # "none" /\ vol_map'[i] \in index'
               /\ \A c \in Creator : Made(c)' => vol'[create'[c].obj].ord # vol'[vol_map'[i]].ord
    <3>1. PICK o \in Recovered : o = vol_map'[i] /\ vol[o].id = i
      BY <1>5, <2>1
    <3>2. vol'[o].id = vol[o].id /\ vol'[o].ord = vol[o].ord
      BY <1>3, <1>6 DEF SameIds
    <3>3. vol[o].ord \in reserved'
      BY <1>1 DEF RecoveredOrdinals
    <3>4. sb'[o] # "none" /\ o \in index'
      BY <1>1, <1>6
    <3>5. \A c \in Creator : ~Made(c)'
      BY <1>1, <1>2 DEF Made
    <3> QED BY <1>9, <3>1, <3>2, <3>3, <3>4, <3>5
  <2>2. ASSUME NEW i \in Id, NEW j \in Id, i # j, vol_map'[i] # None, vol_map'[j] # None
        PROVE  vol'[vol_map'[i]].ord # vol'[vol_map'[j]].ord
    <3>1. PICK o \in Recovered, p \in Recovered :
              o = vol_map'[i] /\ p = vol_map'[j] /\ vol[o].id = i /\ vol[p].id = j
      BY <1>5, <2>2
    <3>2. vol[o].ord # vol[p].ord
      BY <1>1, <1>6, <2>2, <3>1 DEF Recoverable
    <3>3. vol'[o].ord = vol[o].ord /\ vol'[p].ord = vol[p].ord
      BY <1>3, <1>6 DEF SameIds
    <3> QED BY <3>1, <3>2, <3>3
  <2> QED BY <2>1, <2>2 DEF MapInv
<1>11. SlotInv'
  <2>1. ASSUME NEW n \in Ordinal, n \notin RecoveredOrdinals
        PROVE  chunks'[n] = None
    <3>1. ~ \E o \in Recovered : vol[o].ord = n
      BY <2>1 DEF RecoveredOrdinals
    <3>2. chunks'[n] = RecoveredChunks(n)
      BY DEF Boot
    <3> QED BY <3>1, <3>2 DEF RecoveredChunks
  <2> QED BY <1>1, <2>1 DEF SlotInv
<1>12. TaskInv'
  BY <1>4 DEF TaskInv, Found, InDestroy
<1>13. ReplInv'
  <2>1. ASSUME NEW o \in Obj, vol'[o].rd
        PROVE  o \in Recovered /\ vol[o].id \in repl
    <3>1. sb[o] # "none"
      BY <1>2, <1>3, <2>1
    <3>2. vol'[o].rd = (vol[o].id \in repl)
      BY <1>3, <3>1
    <3> QED BY <2>1, <3>1, <3>2 DEF Recovered
  <2>2. Recoverable /\ repl' = repl
    BY DEF Boot
  <2>3. \A o \in Obj : vol'[o].rd => vol'[o].id \in repl'
    BY <1>3, <2>1, <2>2 DEF SameIds
  <2>4. \A o, p \in Obj : o # p /\ vol'[o].rd /\ vol'[p].rd => vol'[o].id # vol'[p].id
    BY <1>3, <2>1, <2>2 DEF Recoverable, SameIds
  <2> QED BY <2>3, <2>4 DEF ReplInv
<1>14. PersistInv' /\ StoppedInv'
  BY <1>1, <1>3 DEF PersistInv, StoppedInv, Running, SameIds
<1> QED BY <1>7, <1>8, <1>10, <1>11, <1>12, <1>13, <1>14

-----------------------------------------------------------------------------
(* The ids and ordinals of what exists, when no object is given new ones. *)
LEMMA PersistFrame ==
  ASSUME TypeInv, PersistInv, MadeTyped, SameIds,
         \A o \in Obj : sb'[o] # "none" => sb[o] # "none" \/ \E c \in Creator : Made(c) /\ create[c].obj = o,
         \A c \in Creator : Made(c)' => Made(c) /\ create'[c].obj = create[c].obj
  PROVE  PersistInv' /\ MadeTyped'
<1>1. \A c \in Creator : Made(c) => create[c].obj \in Obj
  BY Bounds DEF TypeInv, Made, Obj
<1>2. PersistInv'
  BY DEF PersistInv, MadeTyped, SameIds
<1>3. MadeTyped'
  BY <1>1 DEF MadeTyped, SameIds
<1> QED BY <1>2, <1>3

(* Every volume that has a superblock or is being made has an id and an      *)
(* ordinal, also after destroy() ran twice on some volume.                   *)
LEMMA PersistStep ==
  ASSUME TypeInv, PersistInv, MadeTyped, [Next]_vars
  PROVE  PersistInv' /\ MadeTyped'
<1>1. ASSUME UNCHANGED create, SameIds, \A o \in Obj : sb'[o] # "none" => sb[o] # "none"
      PROVE  PersistInv' /\ MadeTyped'
  BY <1>1, PersistFrame DEF Made
<1>2. CASE UNCHANGED vars
  BY <1>1, <1>2 DEF vars, objects, calls, SameIds
<1>3. ASSUME NEW c \in Creator, CreateStep(c) \/ \E i \in Id : CreateBegin(c, i)
      PROVE  PersistInv' /\ MadeTyped'
  <2>1. ASSUME NEW i \in Id, CreateBegin(c, i)
        PROVE  PersistInv' /\ MadeTyped'
    <3>1. UNCHANGED <<vol, sb>> /\ ~Made(c)' /\ \A d \in Creator \ {c} : create'[d] = create[d]
      BY <2>1 DEF CreateBegin, objects, Made, TypeInv
    <3> QED BY <3>1, PersistFrame DEF SameIds, Made
  <2>2. CASE CreateNoOrdinal(c) \/ CreateFails(c) \/ CreateEmplace(c) \/ \E n \in Ordinal : CreateExists(c, n)
    <3>1. UNCHANGED <<vol, sb>> /\ create' = [create EXCEPT ![c] = NoCall]
      BY <2>2 DEF CreateNoOrdinal, CreateFails, CreateEmplace, CreateExists, objects
    <3>2. ~Made(c)' /\ \A d \in Creator \ {c} : create'[d] = create[d]
      BY <3>1, NoCallType DEF Made, TypeInv
    <3> QED BY <3>1, <3>2, PersistFrame DEF SameIds, Made
  <2>3. ASSUME NEW n \in Ordinal, CreateReserve(c, n)
        PROVE  PersistInv' /\ MadeTyped'
    <3>1. PICK o \in Obj, i \in Id : o = create[c].obj /\ i = create[c].id
      BY <2>3, Bounds DEF CreateReserve, Obj, TypeInv
    <3>2. vol' = [vol EXCEPT ![o] = [NoVolume EXCEPT !.id = i, !.ord = n]]
      BY <2>3, <3>1 DEF CreateReserve
    <3>3. /\ \A p \in Obj \ {o} : vol'[p] = vol[p]
          /\ vol'[o].id = i /\ vol'[o].ord = n
      BY <3>2, SetNew DEF TypeInv
    <3>4. /\ \A d \in Creator : create'[d].obj = create[d].obj
          /\ \A d \in Creator \ {c} : create'[d] = create[d]
          /\ sb' = sb
      BY <2>3, SetCreate DEF CreateReserve, CreateStage, TypeInv
    <3>5. PersistInv'
      BY <3>3, <3>4 DEF PersistInv
    <3>6. \A d \in Creator : Made(d)' => create[d].obj = o \/ (Made(d) /\ create[d].obj \in Obj \ {o})
      BY <3>1, <3>4, Bounds DEF Made, TypeInv, Obj
    <3>7. MadeTyped'
      BY <3>3, <3>4, <3>6 DEF MadeTyped
    <3> QED BY <3>5, <3>7
  <2>4. CASE CreateChunks(c) \/ CreateRepl(c) \/ CreateIndex(c) \/ CreateOnline(c)
    <3>1. Made(c) /\ create[c].obj \in Obj
      BY <2>4, Bounds DEF CreateChunks, CreateRepl, CreateIndex, CreateOnline, Made, TypeInv, Obj
    <3>2. PICK s \in {"repl", "index", "online", "emplace"} : create' = [create EXCEPT ![c].stage = s]
      BY <2>4 DEF CreateChunks, CreateRepl, CreateIndex, CreateOnline
    <3>3. /\ \A d \in Creator : create'[d].obj = create[d].obj
          /\ \A d \in Creator \ {c} : create'[d] = create[d]
      BY <3>2, SetCreate DEF CreateStage, TypeInv
    <3>4. \A o \in Obj : o # create[c].obj => sb'[o] = sb[o]
      <4>1. CASE CreateOnline(c)
        BY <3>1, <4>1, StateStep DEF CreateOnline, State
      <4>2. CASE ~CreateOnline(c)
        BY <2>4, <4>2 DEF CreateChunks, CreateRepl, CreateIndex
      <4> QED BY <4>1, <4>2
    <3>5. SameIds
      <4>1. CASE CreateOnline(c)
        BY <3>1, <4>1, StateStep DEF CreateOnline, State, SameVolumes
      <4>2. CASE CreateRepl(c)
        BY <3>1, <4>2, SetRd DEF CreateRepl, TypeInv
      <4>3. CASE CreateChunks(c) \/ CreateIndex(c)
        BY <4>3 DEF CreateChunks, CreateIndex, SameIds
      <4> QED BY <2>4, <4>1, <4>2, <4>3
    <3>6. \A d \in Creator : Made(d)' => Made(d)
      BY <3>1, <3>3 DEF Made
    <3>7. \A o \in Obj : sb'[o] # "none" => sb[o] # "none" \/ \E d \in Creator : Made(d) /\ create[d].obj = o
      BY <3>1, <3>4
    <3> QED BY <3>3, <3>5, <3>6, <3>7, PersistFrame
  <2> QED BY <1>3, <2>1, <2>2, <2>3, <2>4 DEF CreateStep
<1>4. ASSUME NEW k \in Task, RemoveStep(k) \/ \E i \in Id : RemoveVolume(k, i) \/ Reap(k, i)
      PROVE  PersistInv' /\ MadeTyped'
  <2>1. UNCHANGED create
    BY <1>4 DEF RemoveStep, RemoveVolume, Reap, RemoveNotFound, RemoveFind, RemoveMark, RemoveCheck,
       DestroyBegin, DestroyRepl, DestroyIndex, DestroySuperblock, RemoveErase
  <2>2. CASE RemoveMark(k)
    <3>1. PICK o \in Obj : o = task[k].obj /\ sb[o] # "none"
      BY <2>2 DEF RemoveMark, TypeInv
    <3>2. SameVolumes /\ \A p \in Obj \ {o} : sb'[p] = sb[p]
      BY <2>2, <3>1, StateStep DEF RemoveMark, State
    <3> QED BY <1>1, <2>1, <3>1, <3>2 DEF SameVolumes
  <2>3. CASE DestroyBegin(k)
    BY <1>1, <2>1, <2>3, SetStarted DEF DestroyBegin, TypeInv
  <2>4. CASE DestroyRepl(k)
    BY <1>1, <2>1, <2>4, SetRd DEF DestroyRepl, TypeInv
  <2>5. CASE DestroySuperblock(k)
    <3>1. \A p \in Obj : sb'[p] # "none" => sb[p] # "none"
      BY <2>5 DEF DestroySuperblock, TypeInv
    <3> QED BY <1>1, <2>1, <2>5, <3>1 DEF DestroySuperblock, SameIds
  <2>6. CASE ~RemoveMark(k) /\ ~DestroyBegin(k) /\ ~DestroyRepl(k) /\ ~DestroySuperblock(k)
    <3>1. UNCHANGED <<vol, sb>>
      BY <1>4, <2>6 DEF RemoveStep, RemoveVolume, Reap, RemoveNotFound, RemoveFind, RemoveCheck,
         DestroyIndex, RemoveErase, objects
    <3> QED BY <1>1, <2>1, <3>1 DEF SameIds
  <2> QED BY <2>2, <2>3, <2>4, <2>5, <2>6
<1>5. ASSUME NEW i \in Io, IoBegin(i) \/ IoEnd(i) \/ \E o \in 1 .. created : IoPrecheck(i, o)
      PROVE  PersistInv' /\ MadeTyped'
  <2>1. SameVolumes
    BY <1>5, IoType
  <2>2. UNCHANGED <<sb, create>>
    BY <1>5 DEF IoBegin, IoEnd, IoPrecheck, objects
  <2> QED BY <1>1, <2>1, <2>2 DEF SameVolumes
<1>6. ASSUME NEW i \in Id, NEW s \in {"ONLINE", "OFFLINE"}, FaultVolume(i, s)
      PROVE  PersistInv' /\ MadeTyped'
  <2>1. SameVolumes /\ \A o \in Obj : sb'[o] # "none" <=> sb[o] # "none"
    BY <1>6, FaultType
  <2> QED BY <1>1, <1>6, <2>1 DEF FaultVolume, calls, SameVolumes
<1>7. CASE FaultGlobal \/ ShutdownStart \/ DoShutdown \/ BootAborts
  <2>1. UNCHANGED <<vol, sb, create>>
    BY <1>7 DEF FaultGlobal, ShutdownStart, DoShutdown, BootAborts, objects, calls
  <2> QED BY <1>1, <2>1 DEF SameIds
<1>8. CASE ShutdownFinish \/ Crash \/ TouchDestroyedSuperblock
  <2>1. ProcessGone
    BY <1>8 DEF ShutdownFinish, Crash, TouchDestroyedSuperblock
  <2>2. \A c \in Creator : ~Made(c)'
    BY <2>1, NoCallType DEF ProcessGone, Made
  <2>3. SameIds /\ sb' = sb
    BY <2>1, SetGone DEF TypeInv, ProcessGone
  <2> QED BY <2>2, <2>3, PersistFrame
<1>9. CASE Boot
  <2>1. SameIds
    BY <1>9, SetBooted DEF TypeInv
  <2> QED BY <1>1, <1>9, <2>1 DEF Boot
<1> QED BY <1>2, <1>3, <1>4, <1>5, <1>6, <1>7, <1>8, <1>9 DEF Next

Inv == /\ TypeInv /\ PersistInv /\ MadeTyped
       /\ ~again => LifecycleInv

(* The first state of the process. *)
LEMMA InvInit ==
  Init => Inv
<1> SUFFICES ASSUME Init PROVE Inv
  OBVIOUS
<1> USE Bounds, NoCallType DEF Init
<1>1. PICK f \in BOOLEAN : f = FALSE
  OBVIOUS
<1>2. PICK r : r = [id |-> None, ord |-> None, state |-> "INIT", outstanding |-> 0,
                    started |-> f, rd |-> f]
  OBVIOUS
<1>3. NoVolume = r
  BY <1>1, <1>2 DEF NoVolume
<1>4. r \in VolumeRecord /\ r.started = f /\ r.rd = f
  BY <1>2 DEF VolumeRecord, State
<1>5. vol \in [Obj -> VolumeRecord] /\ \A o \in Obj : ~vol[o].started /\ ~vol[o].rd
  BY <1>1, <1>3, <1>4
<1>6. TypeInv
  BY <1>5 DEF TypeInv
<1>7. FreshInv
  BY <1>5 DEF FreshInv, Unused
<1>8. CreateInv /\ MapInv
  BY DEF CreateInv, MapInv, Made
<1>9. SlotInv /\ TaskInv
  BY DEF SlotInv, TaskInv, Found, InDestroy
<1>10. ReplInv /\ PersistInv /\ StoppedInv
  BY <1>5 DEF ReplInv, PersistInv, StoppedInv, Running
<1>11. MadeTyped
  BY DEF MadeTyped, Made
<1> QED BY <1>6, <1>7, <1>8, <1>9, <1>10, <1>11 DEF Inv, LifecycleInv

(* No step forgets that destroy() ran twice. *)
LEMMA AgainStays ==
  ASSUME [Next]_vars, ~again'
  PROVE  ~again
<1>1. ASSUME again' = (again \/ again') PROVE ~again
  BY <1>1
<1>2. CASE UNCHANGED vars
  BY <1>2 DEF vars, history
<1>3. ASSUME NEW c \in Creator, CreateStep(c) \/ \E i \in Id : CreateBegin(c, i)
      PROVE  ~again
  BY <1>3 DEF CreateStep, CreateBegin, CreateNoOrdinal, CreateExists, CreateReserve, CreateChunks,
     CreateRepl, CreateIndex, CreateOnline, CreateEmplace, CreateFails, history
<1>4. ASSUME NEW k \in Task, RemoveStep(k) \/ \E i \in Id : RemoveVolume(k, i) \/ Reap(k, i)
      PROVE  ~again
  BY <1>4 DEF RemoveStep, RemoveVolume, Reap, RemoveNotFound, RemoveFind, RemoveMark, RemoveCheck,
     DestroyBegin, DestroyRepl, DestroyIndex, DestroySuperblock, RemoveErase, history
<1>5. ASSUME NEW i \in Io, IoBegin(i) \/ IoEnd(i) \/ \E o \in 1 .. created : IoPrecheck(i, o)
      PROVE  ~again
  BY <1>5 DEF IoBegin, IoEnd, IoPrecheck, history
<1>6. ASSUME NEW i \in Id, NEW s \in {"ONLINE", "OFFLINE"}, FaultVolume(i, s)
      PROVE  ~again
  BY <1>6 DEF FaultVolume
<1>7. CASE FaultGlobal \/ ShutdownStart \/ DoShutdown \/ BootAborts \/ Boot
  BY <1>7 DEF FaultGlobal, ShutdownStart, DoShutdown, BootAborts, Boot, history
<1>8. CASE ShutdownFinish \/ Crash \/ TouchDestroyedSuperblock
  BY <1>8 DEF ShutdownFinish, Crash, TouchDestroyedSuperblock, ProcessGone
<1> QED BY <1>2, <1>3, <1>4, <1>5, <1>6, <1>7, <1>8 DEF Next

(* Every step keeps the types; the second destroy() of a volume is the only  *)
(* one that does not keep the rest.                                          *)
LEMMA InvStep ==
  ASSUME Inv, [Next]_vars
  PROVE  Inv'
<1> USE DEF Inv
<1> DEFINE Kept == TypeInv' /\ (~again' => LifecycleInv')
<1>0. ~again' => LifecycleInv
  BY AgainStays
<1>9. PersistInv' /\ MadeTyped'
  BY PersistStep
<1> SUFFICES Kept
  BY <1>9
<1>1. CASE UNCHANGED vars
  <2>1. UNCHANGED <<vol_map, vol, sb, index, repl, reserved, chunks, create, task, io, phase, created>>
    BY <1>1 DEF vars, objects, calls, life
  <2>2. SameVolumes
    BY <2>1 DEF SameVolumes, SameIds
  <2>3. TypeInv'
    BY <2>1 DEF TypeInv
  <2> QED BY <1>0, <2>1, <2>2, <2>3, Quiet, PersistStep DEF Running
<1>2. ASSUME NEW c \in Creator, CreateStep(c) \/ \E i \in Id : CreateBegin(c, i)
      PROVE  Kept
  BY <1>0, <1>2, CreateType, CreateKeeps
<1>3. ASSUME NEW k \in Task, RemoveStep(k) \/ \E i \in Id : RemoveVolume(k, i) \/ Reap(k, i)
      PROVE  Kept
  BY <1>0, <1>3, RemoveType, RemoveKeeps
<1>4. ASSUME NEW i \in Io, IoBegin(i) \/ IoEnd(i) \/ \E o \in 1 .. created : IoPrecheck(i, o)
      PROVE  Kept
  <2>1. TypeInv' /\ SameVolumes
    BY <1>4, IoType
  <2>2. UNCHANGED <<vol_map, sb, index, repl, reserved, chunks, create, task, created, phase>>
    BY <1>4 DEF IoBegin, IoEnd, IoPrecheck, objects, life
  <2> QED BY <1>0, <2>1, <2>2, Quiet DEF Running
<1>5. ASSUME NEW i \in Id, NEW s \in {"ONLINE", "OFFLINE"}, FaultVolume(i, s)
      PROVE  Kept
  <2>1. /\ TypeInv' /\ SameVolumes
        /\ \A o \in Obj : sb'[o] # "none" <=> sb[o] # "none"
    BY <1>5, FaultType
  <2>2. UNCHANGED <<vol_map, index, repl, reserved, chunks, create, task, created, phase>>
    BY <1>5 DEF FaultVolume, calls, life
  <2> QED BY <1>0, <2>1, <2>2, Quiet DEF Running
<1>6. CASE FaultGlobal \/ ShutdownStart \/ DoShutdown \/ BootAborts
  <2>1. UNCHANGED <<vol_map, vol, sb, index, repl, reserved, chunks, create, task, io, created>>
    BY <1>6 DEF FaultGlobal, ShutdownStart, DoShutdown, BootAborts, objects, calls
  <2>2. SameVolumes
    BY <2>1 DEF SameVolumes, SameIds
  <2>3. /\ Running' <=> Running
        /\ phase' \in {"up", "draining", "released", "down", "crashed", "aborted"}
    BY <1>6 DEF FaultGlobal, ShutdownStart, DoShutdown, BootAborts, Running, TypeInv
  <2>4. TypeInv'
    BY <2>1, <2>3 DEF TypeInv
  <2> QED BY <1>0, <2>1, <2>2, <2>3, <2>4, Quiet
<1>7. CASE ShutdownFinish \/ Crash \/ TouchDestroyedSuperblock
  <2>1. ProcessGone /\ phase' \in {"down", "crashed"}
    BY <1>7 DEF ShutdownFinish, Crash, TouchDestroyedSuperblock
  <2> QED BY <1>0, <2>1, GoneType, GoneKeeps
<1>8. CASE Boot
  BY <1>0, <1>8, BootType, BootKeeps
<1> QED
  BY <1>1, <1>2, <1>3, <1>4, <1>5, <1>6, <1>7, <1>8 DEF Next

(* The control plane keeps its invariant, whatever creates, removals on any   *)
(* number of workers, IOs, faults, shutdowns, crashes and boots do, until a  *)
(* second destroy() begins on some volume.                                   *)
THEOREM LifecycleCorrect == Spec => []Inv
<1>1. Inv /\ [Next]_vars => Inv'
  BY InvStep
<1> QED BY <1>1, InvInit, PTL DEF Spec

(* The ordinals of the volumes that are registered, being made or being      *)
(* destroyed are reserved and different, until destroy() has run twice on a  *)
(* volume: the chunk slot that volume::init fills and volume::destroy        *)
(* empties is nobody else's.                                                 *)
THEOREM OrdinalsCorrect == Spec => []OrdinalsExclusive
<1>1. ASSUME Inv PROVE OrdinalsExclusive
  <2> SUFFICES ASSUME ~again PROVE OrdinalsExclusive
    BY DEF OrdinalsExclusive
  <2> USE <1>1 DEF Inv
  <2>1. \A o \in Obj : Destroying(o) => Mapped(o)
    BY RemoveOwn DEF Destroying, Mapped, Found, InDestroy
  <2>2. ASSUME NEW o \in Obj, Mapped(o)
        PROVE  vol[o].ord \in reserved
    BY <2>2, Bounds DEF Mapped, LifecycleInv, MapInv
  <2>3. ASSUME NEW o \in Obj, Creating(o)
        PROVE  vol[o].ord \in reserved
    BY <2>3 DEF Creating, Made, LifecycleInv, CreateInv
  <2>4. ASSUME NEW o \in Obj, NEW p \in Obj, o # p, Mapped(o), Mapped(p)
        PROVE  vol[p].ord # vol[o].ord
    BY <2>4, Bounds DEF Mapped, LifecycleInv, MapInv
  <2>5. ASSUME NEW o \in Obj, NEW p \in Obj, o # p, Mapped(o), Creating(p)
        PROVE  vol[p].ord # vol[o].ord
    BY <2>5, Bounds DEF Mapped, Creating, Made, LifecycleInv, MapInv
  <2>6. ASSUME NEW o \in Obj, NEW p \in Obj, o # p, Creating(o), Creating(p)
        PROVE  vol[p].ord # vol[o].ord
    BY <2>6 DEF Creating, Made, LifecycleInv, CreateInv
  <2>7. ASSUME NEW o \in Obj, Mapped(o) \/ Creating(o) \/ Destroying(o)
        PROVE  /\ vol[o].ord \in reserved
               /\ \A p \in Obj \ {o} : Mapped(p) \/ Creating(p) \/ Destroying(p)
                                       => vol[p].ord # vol[o].ord
    <3>1. Mapped(o) \/ Creating(o)
      BY <2>1, <2>7
    <3>2. ASSUME NEW p \in Obj \ {o}, Mapped(p) \/ Creating(p) \/ Destroying(p)
          PROVE  vol[p].ord # vol[o].ord
      <4>1. Mapped(p) \/ Creating(p)
        BY <2>1, <3>2
      <4> QED BY <2>4, <2>5, <2>6, <3>1, <3>2, <4>1
    <3> QED BY <2>2, <2>3, <3>1, <3>2
  <2> QED BY <2>7 DEF OrdinalsExclusive
<1> QED BY <1>1, LifecycleCorrect, PTL

(* A registered volume owns the chunk slot of its ordinal until its          *)
(* superblock is destroyed, or destroy() has run twice on some volume.       *)
THEOREM ChunksCorrect == Spec => []ChunksOwned
<1>1. Inv => ChunksOwned
  BY Bounds DEF Inv, LifecycleInv, MapInv, ChunksOwned, Mapped
<1> QED BY <1>1, LifecycleCorrect, PTL

-----------------------------------------------------------------------------
(* Existing volumes can be looked up *)

(* A step that unregisters nothing that has a superblock. *)
LEMMA KnownFrame ==
  ASSUME TypeInv, KnownInv, Running' => Running, orphans \subseteq orphans',
         \A i \in Id : vol_map'[i] # vol_map[i] => vol_map[i] = None \/ sb'[vol_map[i]] = "none",
         \A o \in Obj : sb'[o] # "none" => sb[o] # "none" \/ \E c \in Creator : Made(c) /\ create[c].obj = o,
         \A c \in Creator : Made(c) => \/ Made(c)' /\ create'[c].obj = create[c].obj
                                       \/ sb'[create[c].obj] = "none"
                                       \/ create[c].obj \in orphans'
                                       \/ \E i \in Id : vol_map'[i] = create[c].obj
  PROVE  KnownInv'
<1>1. ASSUME Running', NEW o \in Obj \ orphans', sb'[o] # "none"
      PROVE  \/ \E i \in Id : vol_map'[i] = o
             \/ \E c \in Creator : Made(c)' /\ create'[c].obj = o
  <2>1. \/ \E i \in Id : vol_map[i] = o
        \/ \E c \in Creator : Made(c) /\ create[c].obj = o
    BY <1>1 DEF KnownInv
  <2>2. ASSUME NEW i \in Id, vol_map[i] = o
        PROVE  vol_map'[i] = o
    BY <1>1, <2>2, Bounds
  <2>3. ASSUME NEW c \in Creator, Made(c), create[c].obj = o
        PROVE  (Made(c)' /\ create'[c].obj = o) \/ \E i \in Id : vol_map'[i] = o
    BY <1>1, <2>3
  <2> QED BY <2>1, <2>2, <2>3
<1> QED BY <1>1 DEF KnownInv

(* Every step keeps the superblocks known, but for those of the orphans. *)
LEMMA KnownStep ==
  ASSUME Inv, ~again, KnownInv, [Next]_vars
  PROVE  KnownInv'
<1> USE DEF Inv
<1>1. ASSUME UNCHANGED <<vol_map, create, orphans>>, Running' => Running,
             \A o \in Obj : sb'[o] # "none" => sb[o] # "none"
      PROVE  KnownInv'
  BY <1>1, KnownFrame DEF Made
<1>2. CASE UNCHANGED vars
  BY <1>2, <1>1 DEF vars, objects, calls, life, history, Running
<1>3. ASSUME NEW c \in Creator, CreateStep(c) \/ \E i \in Id : CreateBegin(c, i)
      PROVE  KnownInv'
  <2>0. Running
    BY <1>3 DEF CreateStep, CreateBegin, CreateNoOrdinal, CreateExists, CreateReserve, CreateChunks,
       CreateRepl, CreateIndex, CreateOnline, CreateEmplace, CreateFails
  <2>1. ASSUME UNCHANGED <<vol_map, sb, orphans>>, \A d \in Creator \ {c} : create'[d] = create[d],
               Made(c) => sb[create[c].obj] = "none"
        PROVE  KnownInv'
    BY <2>0, <2>1, KnownFrame DEF Made
  <2>2. ASSUME NEW i \in Id, CreateBegin(c, i)
        PROVE  KnownInv'
    BY <2>1, <2>2 DEF CreateBegin, Made, objects, TypeInv, history
  <2>3. ASSUME NEW n \in Ordinal, CreateExists(c, n)
        PROVE  KnownInv'
    BY <2>1, <2>3 DEF CreateExists, Made, TypeInv, history
  <2>4. CASE CreateNoOrdinal(c) \/ CreateFails(c)
    <3>1. Made(c) => sb[create[c].obj] = "none"
      BY <2>4 DEF CreateNoOrdinal, CreateFails, Made, LifecycleInv, CreateInv
    <3> QED BY <2>1, <2>4, <3>1 DEF CreateNoOrdinal, CreateFails, objects, TypeInv, history
  <2>5. ASSUME NEW n \in Ordinal, CreateReserve(c, n)
        PROVE  KnownInv'
    <3>1. \A d \in Creator \ {c} : create'[d] = create[d]
      BY <2>5, SetCreate DEF CreateReserve, CreateStage, TypeInv
    <3> QED BY <2>1, <2>5, <3>1 DEF CreateReserve, Made, history
  <2>6. CASE CreateChunks(c) \/ CreateRepl(c) \/ CreateIndex(c) \/ CreateOnline(c)
    <3>1. /\ Made(c) /\ UNCHANGED <<vol_map, orphans>>
      BY <2>6 DEF CreateChunks, CreateRepl, CreateIndex, CreateOnline, Made, history
    <3>2. PICK s \in {"repl", "index", "online", "emplace"} : create' = [create EXCEPT ![c].stage = s]
      BY <2>6 DEF CreateChunks, CreateRepl, CreateIndex, CreateOnline
    <3>3. /\ \A d \in Creator \ {c} : create'[d] = create[d]
          /\ Made(c)' /\ create'[c].obj = create[c].obj
      BY <3>2, SetCreate DEF CreateStage, TypeInv, Made
    <3>4. \A o \in Obj : o # create[c].obj => sb'[o] = sb[o]
      <4>1. CASE CreateOnline(c)
        BY <3>1, <4>1, CreateOwn, StateStep DEF CreateOnline, State
      <4>2. CASE ~CreateOnline(c)
        BY <2>6, <4>2 DEF CreateChunks, CreateRepl, CreateIndex
      <4> QED BY <4>1, <4>2
    <3> QED BY <2>0, <3>1, <3>3, <3>4, KnownFrame DEF Made
  <2>7. CASE CreateEmplace(c)
    <3>1. Made(c) /\ sb' = sb
      BY <2>7 DEF CreateEmplace, Made
    <3>2. PICK i \in Id, o \in Obj : i = create[c].id /\ o = create[c].obj
      BY <3>1, CreateOwn
    <3>3. \A d \in Creator \ {c} : create'[d] = create[d]
      BY <2>7 DEF CreateEmplace, TypeInv
    <3>4. CASE vol_map[i] = None
      <4>1. vol_map'[i] = o /\ \A j \in Id \ {i} : vol_map'[j] = vol_map[j]
        BY <2>7, <3>2, <3>4 DEF CreateEmplace, TypeInv
      <4>2. orphans' = orphans
        BY <2>7, <3>2, <3>4 DEF CreateEmplace
      <4> QED BY <2>0, <3>1, <3>2, <3>3, <3>4, <4>1, <4>2, KnownFrame DEF Made
    <3>5. CASE vol_map[i] # None
      <4>1. vol_map' = vol_map /\ orphans' = orphans \cup {o}
        BY <2>7, <3>2, <3>5 DEF CreateEmplace
      <4> QED BY <2>0, <3>1, <3>2, <3>3, <4>1, KnownFrame DEF Made
    <3> QED BY <3>4, <3>5
  <2> QED BY <1>3, <2>2, <2>3, <2>4, <2>5, <2>6, <2>7 DEF CreateStep
<1>4. ASSUME NEW k \in Task, RemoveStep(k) \/ \E i \in Id : RemoveVolume(k, i) \/ Reap(k, i)
      PROVE  KnownInv'
  <2>1. UNCHANGED <<create, orphans>> /\ Running
    BY <1>4 DEF RemoveStep, RemoveVolume, Reap, RemoveNotFound, RemoveFind, RemoveMark, RemoveCheck,
       DestroyBegin, DestroyRepl, DestroyIndex, DestroySuperblock, RemoveErase, history
  <2>2. CASE RemoveMark(k)
    <3>1. PICK o \in Obj : o = task[k].obj /\ sb[o] # "none"
      BY <2>2 DEF RemoveMark, TypeInv
    <3>2. \A p \in Obj \ {o} : sb'[p] = sb[p]
      BY <2>2, <3>1, StateStep DEF RemoveMark, State
    <3> QED BY <1>1, <2>1, <2>2, <3>1, <3>2 DEF RemoveMark
  <2>3. CASE DestroySuperblock(k)
    <3>1. \A p \in Obj : sb'[p] # "none" => sb[p] # "none"
      BY <2>3 DEF DestroySuperblock, TypeInv
    <3> QED BY <1>1, <2>1, <2>3, <3>1 DEF DestroySuperblock
  <2>4. CASE RemoveErase(k)
    <3>1. Found(k) /\ InDestroy(k) /\ task[k].stage = "erase"
      BY <2>4 DEF RemoveErase, Found, InDestroy
    <3>2. PICK o \in Obj, i \in Id : o = task[k].obj /\ i = vol[o].id /\ vol_map[i] = o
      <4>1. /\ task[k].obj \in Obj /\ vol[task[k].obj].id \in Id
            /\ vol_map[vol[task[k].obj].id] = task[k].obj
        BY <3>1, RemoveOwn
      <4> QED BY ONLY <4>1
    <3>3. sb[o] = "none" /\ sb' = sb
      BY <2>4, <3>1, <3>2 DEF LifecycleInv, TaskInv, RemoveErase
    <3>4. vol_map'[i] = None /\ \A j \in Id \ {i} : vol_map'[j] = vol_map[j]
      BY <2>4, <3>2 DEF RemoveErase, TypeInv
    <3>5. \A j \in Id : vol_map'[j] # vol_map[j] => vol_map[j] = None \/ sb'[vol_map[j]] = "none"
      BY <3>2, <3>3, <3>4
    <3> QED BY <2>1, <3>3, <3>5, KnownFrame DEF Made
  <2>5. CASE ~RemoveMark(k) /\ ~DestroySuperblock(k) /\ ~RemoveErase(k)
    <3>1. UNCHANGED <<vol_map, sb>>
      BY <1>4, <2>5 DEF RemoveStep, RemoveVolume, Reap, RemoveNotFound, RemoveFind, RemoveCheck,
         DestroyBegin, DestroyRepl, DestroyIndex, objects
    <3> QED BY <1>1, <2>1, <3>1
  <2> QED BY <2>2, <2>3, <2>4, <2>5
<1>5. ASSUME NEW i \in Io, IoBegin(i) \/ IoEnd(i) \/ \E o \in 1 .. created : IoPrecheck(i, o)
      PROVE  KnownInv'
  BY <1>1, <1>5 DEF IoBegin, IoEnd, IoPrecheck, objects, history
<1>6. ASSUME NEW i \in Id, NEW s \in {"ONLINE", "OFFLINE"}, FaultVolume(i, s)
      PROVE  KnownInv'
  <2>1. \A o \in Obj : sb'[o] # "none" <=> sb[o] # "none"
    BY <1>6, FaultType
  <2> QED BY <1>1, <1>6, <2>1 DEF FaultVolume, calls
<1>7. CASE FaultGlobal \/ ShutdownStart \/ DoShutdown \/ BootAborts
  <2>1. UNCHANGED <<vol_map, sb, create, orphans>> /\ (Running' => Running)
    BY <1>7 DEF FaultGlobal, ShutdownStart, DoShutdown, BootAborts, objects, calls, history, Running
  <2> QED BY <1>1, <2>1
<1>8. CASE ShutdownFinish \/ Crash \/ TouchDestroyedSuperblock
  BY <1>8 DEF ShutdownFinish, Crash, TouchDestroyedSuperblock, Running, KnownInv
<1>9. CASE Boot
  <2>2. ASSUME NEW o \in Obj, sb'[o] # "none"
        PROVE  \E i \in Id : vol_map'[i] = o
    <3>1. o \in Recovered /\ vol[o].id \in Id
      BY <1>9, <2>2 DEF Boot, Recovered, PersistInv
    <3>2. PICK p \in Recovered : vol_map'[vol[o].id] = p /\ vol[p].id = vol[o].id
      BY <1>9, <3>1 DEF Boot
    <3>3. p = o
      BY <1>9, <3>1, <3>2 DEF Boot, Recoverable
    <3> QED BY <3>1, <3>2, <3>3
  <2> QED BY <2>2 DEF KnownInv
<1> QED BY <1>2, <1>3, <1>4, <1>5, <1>6, <1>7, <1>8, <1>9 DEF Next

(* "get_volume returns a ready-to-use handle for an existing volume": what    *)
(* has a superblock that says it exists is registered, or its creation has   *)
(* not returned yet, with any number of creates in progress, unless its id   *)
(* was taken when it came to be registered or destroy() ran twice.           *)
THEOREM RetrievableCorrect == Spec => []ExistingIsRetrievable
<1> DEFINE Known == ~again => KnownInv
<1>1. Init => Known
  BY NoCallType DEF Init, KnownInv, Made
<1>2. Inv /\ Known /\ [Next]_vars => Known'
  BY KnownStep, AgainStays
<1>3. Known => ExistingIsRetrievable
  BY DEF KnownInv, ExistingIsRetrievable, Mapped, Creating, Made
<1> QED BY <1>1, <1>2, <1>3, LifecycleCorrect, PTL DEF Spec

-----------------------------------------------------------------------------
(* Registered volumes are usable, and shutdown waits for destroy() *)

SameStates == \A o \in Obj : vol'[o].state = vol[o].state

(* The superblock says the volume exists: its repl dev does, and the object  *)
(* of a running process holds it.                                            *)
Ready(o) == sb[o] \notin {"none", "DESTROYING"} /\ o \notin revived
            => vol[o].id \in repl /\ (Running => vol[o].rd)

(* The state in memory is the one in the superblock. *)
Mirrored(o) == Running /\ sb[o] # "none" => vol[o].state = sb[o]

(* A create_volume past the repl dev holds it. *)
Opened(c) == create[c].stage \in {"index", "online", "emplace"} => vol[create[c].obj].rd

(* A removal past the mark: its volume is DESTROYING until it is gone, unless *)
(* fault containment overwrote that.                                         *)
Doomed(k) == task[k].stage \notin {"idle", "posted", "found"} =>
                 \/ task[k].obj \in revived
                 \/ /\ vol[task[k].obj].state = "DESTROYING"
                    /\ sb[task[k].obj] \in {"none", "DESTROYING"}

ReadyInv == /\ \A o \in Obj : Ready(o) /\ Mirrored(o)
            /\ \A c \in Creator : Opened(c)
            /\ \A k \in Task : Doomed(k)

(* A change of another field leaves the state. *)
LEMMA StatesKept ==
  ASSUME vol \in [Obj -> VolumeRecord], NEW o \in Obj,
         \/ \E n \in Int : vol' = [vol EXCEPT ![o].outstanding = n]
         \/ vol' = [vol EXCEPT ![o].started = TRUE]
         \/ \E b \in BOOLEAN : vol' = [vol EXCEPT ![o].rd = b]
  PROVE  SameStates
<1>1. PICK q \in VolumeRecord : q = vol[o]
  OBVIOUS
<1>2. ASSUME NEW r, r.state = q.state, vol' = [vol EXCEPT ![o] = r]
      PROVE  SameStates
  BY <1>1, <1>2 DEF SameStates
<1>3. ASSUME NEW n \in Int, vol' = [vol EXCEPT ![o].outstanding = n]
      PROVE  SameStates
  <2>1. PICK r : r = [q EXCEPT !.outstanding = n]
    OBVIOUS
  <2>2. r.state = q.state
    BY <2>1 DEF VolumeRecord
  <2> QED BY <1>1, <1>2, <1>3, <2>1, <2>2
<1>4. ASSUME vol' = [vol EXCEPT ![o].started = TRUE]
      PROVE  SameStates
  <2>1. PICK b \in BOOLEAN : b = TRUE
    OBVIOUS
  <2>2. PICK r : r = [q EXCEPT !.started = b]
    OBVIOUS
  <2>3. r.state = q.state
    BY <2>2 DEF VolumeRecord
  <2> QED BY <1>1, <1>2, <1>4, <2>1, <2>2, <2>3
<1>5. ASSUME NEW b \in BOOLEAN, vol' = [vol EXCEPT ![o].rd = b]
      PROVE  SameStates
  <2>1. PICK r : r = [q EXCEPT !.rd = b]
    OBVIOUS
  <2>2. r.state = q.state
    BY <2>1 DEF VolumeRecord
  <2> QED BY <1>1, <1>2, <1>5, <2>1, <2>2
<1> QED BY <1>3, <1>4, <1>5

(* state_change leaves the volume in the state asked for, and the others. *)
LEMMA StateSet ==
  ASSUME TypeInv, NEW o \in Obj, NEW s \in State, StateChange(o, s),
         sb[o] = s => vol[o].state = s
  PROVE  vol'[o].state = s /\ \A p \in Obj \ {o} : vol'[p] = vol[p]
<1>1. CASE sb[o] = s
  BY <1>1 DEF StateChange
<1>2. CASE sb[o] # s
  <2>1. vol' = [vol EXCEPT ![o].state = s]
    BY <1>2 DEF StateChange
  <2>2. PICK q \in VolumeRecord : q = vol[o]
    BY DEF TypeInv
  <2>3. PICK r : r = [q EXCEPT !.state = s]
    OBVIOUS
  <2>4. vol' = [vol EXCEPT ![o] = r]
    BY <2>1, <2>2, <2>3
  <2>5. r.state = s
    BY <2>3 DEF VolumeRecord
  <2> QED BY <2>4, <2>5 DEF TypeInv
<1> QED BY <1>1, <1>2

(* A booted volume is in the state of its superblock. *)
LEMMA BootedState ==
  ASSUME TypeInv, Boot, NEW o \in Obj, sb[o] # "none"
  PROVE  vol'[o].state = sb[o]
<1>1. PICK r \in VolumeRecord : r = vol[o]
  BY DEF TypeInv
<1>2. PICK s \in State : s = sb[o]
  BY DEF TypeInv
<1>3. PICK b \in BOOLEAN : b = (vol[o].id \in repl)
  <2>1. CASE vol[o].id \in repl
    <3>1. TRUE = (vol[o].id \in repl)
      BY <2>1
    <3> QED BY <3>1, Zenon
  <2>2. CASE vol[o].id \notin repl
    <3>1. FALSE = (vol[o].id \in repl)
      BY <2>2
    <3> QED BY <3>1, Zenon
  <2> QED BY <2>1, <2>2
<1>4. PICK r1 : r1 = [r EXCEPT !.state = s]
  OBVIOUS
<1>5. r1 \in VolumeRecord /\ r1.state = s
  BY <1>4 DEF VolumeRecord
<1>6. PICK r2 : r2 = [r1 EXCEPT !.rd = b]
  OBVIOUS
<1>7. r2.state = s
  BY <1>5, <1>6 DEF VolumeRecord
<1>8. vol'[o] = [vol[o] EXCEPT !.state = sb[o], !.rd = (vol[o].id \in repl)]
  BY DEF Boot, Recovered
<1>9. vol'[o] = r2
  BY <1>1, <1>2, <1>3, <1>4, <1>6, <1>8
<1> QED BY <1>2, <1>7, <1>9

(* A step that changes nothing of a volume but the outstanding requests, and *)
(* no call past the stages that matter.                                      *)
LEMMA ReadyFrame ==
  ASSUME TypeInv, ReadyInv, Running' => Running,
         UNCHANGED <<sb, revived>>, repl \subseteq repl', SameIds, SameStates,
         \A o \in Obj : vol[o].rd => vol'[o].rd,
         \A c \in Creator : create'[c].stage \in {"index", "online", "emplace"} =>
             /\ create[c].stage \in {"index", "online", "emplace"}
             /\ create'[c].obj = create[c].obj /\ create[c].obj \in Obj,
         \A k \in Task : task'[k].stage \notin {"idle", "posted", "found"} =>
             /\ task[k].stage \notin {"idle", "posted", "found"}
             /\ task'[k].obj = task[k].obj /\ task[k].obj \in Obj
  PROVE  ReadyInv'
<1>1. ASSUME NEW o \in Obj PROVE Ready(o)' /\ Mirrored(o)'
  <2>1. Ready(o) /\ Mirrored(o)
    BY DEF ReadyInv
  <2>2. Ready(o)'
    BY <2>1 DEF Ready, SameIds
  <2>3. Mirrored(o)'
    BY <2>1 DEF Mirrored, SameStates
  <2> QED BY <2>2, <2>3
<1>2. ASSUME NEW c \in Creator PROVE Opened(c)'
  BY DEF ReadyInv, Opened
<1>3. ASSUME NEW k \in Task PROVE Doomed(k)'
  <2>1. Doomed(k)
    BY DEF ReadyInv
  <2> QED BY <2>1 DEF Doomed, SameStates
<1> QED BY <1>1, <1>2, <1>3 DEF ReadyInv

(* create_volume opens the repl dev before the volume is ONLINE. *)
LEMMA ReadyCreate ==
  ASSUME TypeInv, LifecycleInv, ReadyInv, NEW c \in Creator,
         CreateStep(c) \/ \E i \in Id : CreateBegin(c, i)
  PROVE  ReadyInv'
<1> USE Bounds
<1>0. /\ Running /\ Running' /\ UNCHANGED <<task, revived>>
      /\ \A k \in Task : task[k].stage \notin {"idle", "posted", "found"} => task[k].obj \in Obj
      /\ \A d \in Creator : create[d].stage # "idle" => create[d].obj \in Obj
  <2>1. Running /\ UNCHANGED <<task, revived, phase>>
    BY DEF CreateStep, CreateBegin, CreateNoOrdinal, CreateExists, CreateReserve, CreateChunks,
       CreateRepl, CreateIndex, CreateOnline, CreateEmplace, CreateFails, history, life
  <2>2. \A d \in Creator : create[d].stage # "idle" => create[d].obj \in Obj
    BY DEF TypeInv, Obj
  <2> QED BY <2>1, <2>2 DEF Running, TypeInv
<1>1. ASSUME UNCHANGED <<vol, sb, repl>>, \A d \in Creator \ {c} : create'[d] = create[d],
             create'[c].stage \notin {"index", "online", "emplace"}
                 \/ /\ create[c].stage \in {"index", "online", "emplace"}
                    /\ create'[c].obj = create[c].obj
      PROVE  ReadyInv'
  <2>1. \A d \in Creator : create'[d].stage \in {"index", "online", "emplace"} =>
            /\ create[d].stage \in {"index", "online", "emplace"}
            /\ create'[d].obj = create[d].obj /\ create[d].obj \in Obj
    BY <1>0, <1>1
  <2> QED BY <1>0, <1>1, <2>1, ReadyFrame DEF SameIds, SameStates
<1>2. ASSUME NEW i \in Id, CreateBegin(c, i)
      PROVE  ReadyInv'
  <2>1. UNCHANGED <<vol, sb, repl>> /\ create' = [create EXCEPT ![c] = [stage |-> "begun", obj |-> created', id |-> i]]
    BY <1>2 DEF CreateBegin, objects
  <2>2. create'[c].stage = "begun" /\ \A d \in Creator \ {c} : create'[d] = create[d]
    BY <2>1 DEF TypeInv
  <2> QED BY <1>1, <2>1, <2>2
<1>3. CASE CreateNoOrdinal(c) \/ CreateFails(c) \/ CreateEmplace(c) \/ \E n \in Ordinal : CreateExists(c, n)
  <2>1. UNCHANGED <<vol, sb, repl>> /\ create' = [create EXCEPT ![c] = NoCall]
    BY <1>3 DEF CreateNoOrdinal, CreateFails, CreateEmplace, CreateExists, objects
  <2>2. create'[c].stage = "idle" /\ \A d \in Creator \ {c} : create'[d] = create[d]
    BY <2>1, NoCallType DEF TypeInv
  <2> QED BY <1>1, <2>1, <2>2
<1>4. ASSUME NEW s \in {"repl", "online"}, create' = [create EXCEPT ![c].stage = s],
             UNCHANGED <<vol, sb, repl>>,
             s = "online" => create[c].stage = "index"
      PROVE  ReadyInv'
  <2>1. /\ \A d \in Creator \ {c} : create'[d] = create[d]
        /\ create'[c].obj = create[c].obj /\ create'[c].stage = s
    BY <1>4, SetCreate DEF TypeInv, CreateStage
  <2> QED BY <1>1, <1>4, <2>1
<1>5. CASE CreateChunks(c)
  BY <1>4, <1>5 DEF CreateChunks
<1>6. CASE CreateIndex(c)
  BY <1>4, <1>6 DEF CreateIndex
<1>7. ASSUME NEW n \in Ordinal, CreateReserve(c, n)
      PROVE  ReadyInv'
  <2>1. create[c].stage = "begun" /\ create' = [create EXCEPT ![c].stage = "chunks"] /\ UNCHANGED <<sb, repl>>
    BY <1>7 DEF CreateReserve
  <2>2. PICK o \in Obj : o = create[c].obj /\ sb[o] = "none"
    BY <1>0, <2>1 DEF LifecycleInv, CreateInv, Unused
  <2>3. /\ \A d \in Creator \ {c} : create'[d] = create[d]
        /\ create'[c].stage = "chunks"
    BY <2>1, SetCreate DEF TypeInv, CreateStage
  <2>4. \A p \in Obj \ {o} : vol'[p] = vol[p]
    <3>1. vol' = [vol EXCEPT ![o] = [NoVolume EXCEPT !.id = create[c].id, !.ord = n]]
      BY <1>7, <2>2 DEF CreateReserve
    <3> QED BY <3>1 DEF TypeInv
  <2>5. \A d \in Creator \ {c} : create[d].stage # "idle" => create[d].obj \in Obj \ {o}
    BY <1>0, <2>1, <2>2 DEF LifecycleInv, CreateInv
  <2>6. \A k \in Task : task[k].stage \notin {"idle", "posted", "found"} => task[k].obj \in Obj \ {o}
    BY <1>0, <2>1, <2>2 DEF LifecycleInv, TaskInv, Found
  <2>7. ASSUME NEW p \in Obj PROVE Ready(p)' /\ Mirrored(p)'
    BY <1>0, <2>1, <2>2, <2>4 DEF ReadyInv, Ready, Mirrored
  <2>8. ASSUME NEW d \in Creator PROVE Opened(d)'
    BY <2>3, <2>4, <2>5 DEF ReadyInv, Opened
  <2>9. ASSUME NEW k \in Task PROVE Doomed(k)'
    BY <1>0, <2>1, <2>4, <2>6 DEF ReadyInv, Doomed
  <2> QED BY <2>7, <2>8, <2>9 DEF ReadyInv
<1>8. CASE CreateRepl(c)
  <2>1. Made(c) /\ create' = [create EXCEPT ![c].stage = "index"] /\ sb' = sb /\ repl \subseteq repl'
    BY <1>8 DEF CreateRepl, Made
  <2>2. PICK o \in Obj : o = create[c].obj
    BY <2>1, CreateOwn
  <2>3. /\ \A d \in Creator \ {c} : create'[d] = create[d]
        /\ create'[c].obj = o
    BY <2>1, <2>2, SetCreate DEF TypeInv, CreateStage
  <2>4. PICK b \in BOOLEAN : b = TRUE
    OBVIOUS
  <2>5. vol' = [vol EXCEPT ![o].rd = b]
    BY <1>8, <2>2, <2>4 DEF CreateRepl
  <2>6. /\ SameIds /\ vol'[o].rd = b
        /\ \A p \in Obj \ {o} : vol'[p] = vol[p]
    BY <2>5, SetRd DEF TypeInv
  <2>7. SameStates
    BY <2>5, StatesKept DEF TypeInv
  <2>8. \A p \in Obj : vol[p].rd => vol'[p].rd
    BY <2>4, <2>6
  <2>9. ASSUME NEW p \in Obj PROVE Ready(p)' /\ Mirrored(p)'
    <3>1. Ready(p) /\ Mirrored(p)
      BY DEF ReadyInv
    <3>2. Ready(p)'
      BY <1>0, <2>1, <2>6, <2>8, <3>1 DEF Ready, SameIds
    <3>3. Mirrored(p)'
      BY <1>0, <2>1, <2>7, <3>1 DEF Mirrored, SameStates
    <3> QED BY <3>2, <3>3
  <2>10. ASSUME NEW d \in Creator PROVE Opened(d)'
    <3>1. CASE d = c
      BY <2>3, <2>4, <2>6, <3>1 DEF Opened
    <3>2. CASE d # c
      BY <1>0, <2>3, <2>8, <3>2 DEF ReadyInv, Opened
    <3> QED BY <3>1, <3>2
  <2>11. ASSUME NEW k \in Task PROVE Doomed(k)'
    <3>1. Doomed(k)
      BY DEF ReadyInv
    <3> QED BY <1>0, <2>1, <2>7, <3>1 DEF Doomed, SameStates
  <2> QED BY <2>9, <2>10, <2>11 DEF ReadyInv
<1>9. CASE CreateOnline(c)
  <2>1. Made(c) /\ create[c].stage = "online" /\ create' = [create EXCEPT ![c].stage = "emplace"] /\ repl' = repl
    BY <1>9 DEF CreateOnline, Made
  <2>2. PICK o \in Obj : o = create[c].obj /\ sb[o] = "none" /\ StateChange(o, "ONLINE")
    BY <1>9, <2>1, CreateOwn DEF CreateOnline, LifecycleInv, CreateInv
  <2>3. /\ \A d \in Creator \ {c} : create'[d] = create[d]
        /\ create'[c].obj = o
    BY <2>1, <2>2, SetCreate DEF TypeInv, CreateStage
  <2>4. /\ SameVolumes /\ sb'[o] = "ONLINE"
        /\ \A p \in Obj \ {o} : sb'[p] = sb[p]
    BY <2>2, StateStep DEF State
  <2>5. vol'[o].state = "ONLINE" /\ \A p \in Obj \ {o} : vol'[p] = vol[p]
    BY <2>2, StateSet DEF State
  <2>6. vol[o].rd
    BY <2>1, <2>2 DEF ReadyInv, Opened
  <2>7. vol[o].id \in repl
    BY <2>6 DEF LifecycleInv, ReplInv
  <2>8. ASSUME NEW p \in Obj PROVE Ready(p)' /\ Mirrored(p)'
    <3>1. CASE p = o
      BY <2>1, <2>4, <2>5, <2>6, <2>7, <3>1 DEF Ready, Mirrored, SameVolumes, SameIds
    <3>2. CASE p # o
      BY <1>0, <2>1, <2>4, <2>5, <3>2 DEF ReadyInv, Ready, Mirrored
    <3> QED BY <3>1, <3>2
  <2>9. ASSUME NEW d \in Creator PROVE Opened(d)'
    <3>1. CASE d = c
      BY <2>3, <2>4, <2>6, <3>1 DEF Opened, SameVolumes
    <3>2. CASE d # c
      BY <1>0, <2>3, <2>4, <3>2 DEF ReadyInv, Opened, SameVolumes
    <3> QED BY <3>1, <3>2
  <2>10. \A k \in Task : task[k].stage \notin {"idle", "posted", "found"} => task[k].obj \in Obj \ {o}
    BY <2>1, <2>2, CreateOwn DEF Found
  <2>11. ASSUME NEW k \in Task PROVE Doomed(k)'
    BY <1>0, <2>4, <2>5, <2>10 DEF ReadyInv, Doomed
  <2> QED BY <2>8, <2>9, <2>11 DEF ReadyInv
<1> QED BY <1>2, <1>3, <1>5, <1>6, <1>7, <1>8, <1>9 DEF CreateStep

(* A removal marks the volume before it takes the repl dev, and takes only   *)
(* its own.                                                                  *)
LEMMA ReadyRemove ==
  ASSUME TypeInv, LifecycleInv, ReadyInv, NEW k \in Task,
         RemoveStep(k) \/ \E i \in Id : RemoveVolume(k, i) \/ Reap(k, i)
  PROVE  ReadyInv'
<1> USE Bounds
<1>0. /\ Running /\ Running' /\ UNCHANGED <<create, revived>>
      /\ \A j \in Task : task[j].stage \notin {"idle", "posted"} => task[j].obj \in Obj
      /\ \A d \in Creator : create[d].stage # "idle" => create[d].obj \in Obj
  <2>1. Running /\ UNCHANGED <<create, revived, phase>>
    BY DEF RemoveStep, RemoveVolume, Reap, RemoveNotFound, RemoveFind, RemoveMark, RemoveCheck,
       DestroyBegin, DestroyRepl, DestroyIndex, DestroySuperblock, RemoveErase, history, life
  <2>2. \A d \in Creator : create[d].stage # "idle" => create[d].obj \in Obj
    BY DEF TypeInv, Obj
  <2> QED BY <2>1, <2>2 DEF Running, TypeInv
<1>1. ASSUME UNCHANGED <<sb, repl>>, SameIds, SameStates, \A o \in Obj : vol[o].rd => vol'[o].rd,
             \A j \in Task \ {k} : task'[j] = task[j],
             task'[k].stage \notin {"idle", "posted", "found"} =>
                 /\ task[k].stage \notin {"idle", "posted", "found"}
                 /\ task'[k].obj = task[k].obj
      PROVE  ReadyInv'
  <2>1. \A j \in Task : task'[j].stage \notin {"idle", "posted", "found"} =>
            /\ task[j].stage \notin {"idle", "posted", "found"}
            /\ task'[j].obj = task[j].obj /\ task[j].obj \in Obj
    BY <1>0, <1>1
  <2> QED BY <1>0, <1>1, <2>1, ReadyFrame
<1>2. ASSUME NEW i \in Id, RemoveVolume(k, i) \/ Reap(k, i)
      PROVE  ReadyInv'
  <2>1. UNCHANGED <<vol, sb, repl>> /\ task' = [task EXCEPT ![k] = [stage |-> "posted", obj |-> None, id |-> i]]
    BY <1>2 DEF RemoveVolume, Reap, Post, objects
  <2>2. task'[k].stage = "posted" /\ \A j \in Task \ {k} : task'[j] = task[j]
    BY <2>1 DEF TypeInv
  <2> QED BY <1>1, <2>1, <2>2 DEF SameIds, SameStates
<1>3. CASE RemoveNotFound(k) \/ RemoveErase(k) \/ (RemoveCheck(k) /\ ~CanRemove(task[k].obj))
  <2>1. UNCHANGED <<vol, sb, repl>> /\ task' = [task EXCEPT ![k] = NoCall]
    BY <1>3 DEF RemoveNotFound, RemoveErase, RemoveCheck, objects
  <2>2. task'[k].stage = "idle" /\ \A j \in Task \ {k} : task'[j] = task[j]
    BY <2>1, NoCallType DEF TypeInv
  <2> QED BY <1>1, <2>1, <2>2 DEF SameIds, SameStates
<1>4. CASE RemoveFind(k)
  <2>1. UNCHANGED <<vol, sb, repl>>
    BY <1>4 DEF RemoveFind, objects
  <2>2. PICK o \in Obj : task' = [task EXCEPT ![k].stage = "found", ![k].obj = o]
    BY <1>4 DEF RemoveFind, TypeInv
  <2>3. task'[k].stage = "found" /\ \A j \in Task \ {k} : task'[j] = task[j]
    BY <2>2, SetFound DEF TypeInv
  <2> QED BY <1>1, <2>1, <2>3 DEF SameIds, SameStates
<1>5. ASSUME NEW s \in TaskStage, task' = [task EXCEPT ![k].stage = s]
      PROVE  /\ \A j \in Task \ {k} : task'[j] = task[j]
             /\ task'[k].obj = task[k].obj /\ task'[k].stage = s
  BY <1>5, SetTask DEF TypeInv
<1>6. CASE RemoveCheck(k) /\ CanRemove(task[k].obj)
  <2>1. UNCHANGED <<vol, sb, repl>> /\ task[k].stage = "marked" /\ task' = [task EXCEPT ![k].stage = "checked"]
    BY <1>6 DEF RemoveCheck, objects
  <2> QED BY <1>1, <1>5, <2>1 DEF SameIds, SameStates, TaskStage
<1>7. CASE DestroyIndex(k)
  <2>1. UNCHANGED <<vol, sb, repl>> /\ task[k].stage = "index" /\ task' = [task EXCEPT ![k].stage = "sb"]
    BY <1>7 DEF DestroyIndex
  <2> QED BY <1>1, <1>5, <2>1 DEF SameIds, SameStates, TaskStage
<1>8. CASE DestroyBegin(k)
  <2>1. UNCHANGED <<sb, repl>> /\ task[k].stage = "checked" /\ task' = [task EXCEPT ![k].stage = "repl"]
    BY <1>8 DEF DestroyBegin
  <2>2. PICK o \in Obj : o = task[k].obj /\ vol' = [vol EXCEPT ![o].started = TRUE]
    BY <1>0, <1>8, <2>1 DEF DestroyBegin
  <2>3. SameIds /\ \A p \in Obj : vol'[p].rd = vol[p].rd
    BY <2>2, SetStarted DEF TypeInv
  <2>4. SameStates
    BY <2>2, StatesKept DEF TypeInv
  <2> QED BY <1>1, <1>5, <2>1, <2>3, <2>4 DEF TaskStage
<1>9. CASE RemoveMark(k)
  <2>1. /\ task[k].stage = "found" /\ task' = [task EXCEPT ![k].stage = "marked"]
        /\ repl' = repl
    BY <1>9 DEF RemoveMark
  <2>2. PICK o \in Obj : o = task[k].obj /\ StateChange(o, "DESTROYING")
    BY <1>0, <1>9, <2>1 DEF RemoveMark
  <2>3. /\ SameVolumes /\ sb'[o] = "DESTROYING"
        /\ \A p \in Obj \ {o} : sb'[p] = sb[p]
    BY <2>2, StateStep DEF State
  <2>4. vol'[o].state = "DESTROYING" /\ \A p \in Obj \ {o} : vol'[p] = vol[p]
    BY <1>0, <2>2, StateSet DEF State, ReadyInv, Mirrored
  <2>5. /\ \A j \in Task \ {k} : task'[j] = task[j]
        /\ task'[k].obj = o
    BY <1>5, <2>1, <2>2 DEF TaskStage
  <2>6. ASSUME NEW p \in Obj PROVE Ready(p)' /\ Mirrored(p)'
    <3>1. CASE p = o
      BY <2>3, <2>4, <3>1 DEF Ready, Mirrored
    <3>2. CASE p # o
      BY <1>0, <2>1, <2>3, <2>4, <3>2 DEF ReadyInv, Ready, Mirrored
    <3> QED BY <3>1, <3>2
  <2>7. ASSUME NEW d \in Creator PROVE Opened(d)'
    BY <1>0, <2>3 DEF ReadyInv, Opened, SameVolumes
  <2>8. ASSUME NEW j \in Task PROVE Doomed(j)'
    <3>1. CASE task'[j].obj = o
      BY <2>3, <2>4, <3>1 DEF Doomed
    <3>2. CASE task'[j].obj # o
      <4>1. Doomed(j) /\ task'[j] = task[j]
        BY <2>5, <3>2 DEF ReadyInv
      <4>2. task[j].stage \notin {"idle", "posted", "found"} => task[j].obj \in Obj \ {o}
        BY <1>0, <3>2, <4>1
      <4> QED BY <1>0, <2>3, <2>4, <4>1, <4>2 DEF Doomed
    <3> QED BY <3>1, <3>2
  <2> QED BY <2>6, <2>7, <2>8 DEF ReadyInv
<1>10. CASE DestroyRepl(k)
  <2>1. /\ task[k].stage = "repl" /\ task' = [task EXCEPT ![k].stage = "index"]
        /\ sb' = sb
    BY <1>10 DEF DestroyRepl
  <2>2. PICK o \in Obj : o = task[k].obj
    BY <1>0, <2>1
  <2>3. PICK b \in BOOLEAN : b = FALSE
    OBVIOUS
  <2>4. vol' = [vol EXCEPT ![o].rd = b] /\ repl' = IF vol[o].rd THEN repl \ {vol[o].id} ELSE repl
    BY <1>10, <2>2, <2>3 DEF DestroyRepl
  <2>5. SameIds /\ \A p \in Obj \ {o} : vol'[p] = vol[p]
    BY <2>4, SetRd DEF TypeInv
  <2>6. SameStates
    BY <2>4, StatesKept DEF TypeInv
  <2>7. o \in revived \/ sb[o] \in {"none", "DESTROYING"}
    BY <2>1, <2>2 DEF ReadyInv, Doomed
  <2>8. ASSUME NEW p \in Obj PROVE Ready(p)'
    <3>1. CASE p = o
      BY <1>0, <2>1, <2>7, <3>1 DEF Ready
    <3>2. CASE p # o
      <4>1. SUFFICES ASSUME sb[p] \notin {"none", "DESTROYING"}, p \notin revived
                     PROVE  vol'[p].id \in repl' /\ vol'[p].rd
        BY <1>0, <2>1 DEF Ready
      <4>2. vol[p].rd /\ vol[p].id \in repl
        BY <1>0, <4>1 DEF ReadyInv, Ready
      <4>3. vol[o].rd => vol[p].id # vol[o].id
        BY <3>2, <4>2 DEF LifecycleInv, ReplInv
      <4> QED BY <2>4, <2>5, <3>2, <4>2, <4>3
    <3> QED BY <3>1, <3>2
  <2>9. ASSUME NEW p \in Obj PROVE Mirrored(p)'
    BY <1>0, <2>1, <2>6 DEF ReadyInv, Mirrored, SameStates
  <2>10. \A d \in Creator : create[d].stage # "idle" => create[d].obj \in Obj \ {o}
    BY <1>0, <2>1, <2>2 DEF LifecycleInv, TaskInv, Found
  <2>11. ASSUME NEW d \in Creator PROVE Opened(d)'
    BY <1>0, <2>5, <2>10 DEF ReadyInv, Opened
  <2>12. ASSUME NEW j \in Task PROVE Doomed(j)'
    <3>1. /\ task[j].stage \notin {"idle", "posted", "found"} <=> task'[j].stage \notin {"idle", "posted", "found"}
          /\ task'[j].obj = task[j].obj
      BY <1>5, <2>1 DEF TaskStage
    <3> QED BY <1>0, <2>1, <2>6, <3>1 DEF ReadyInv, Doomed, SameStates
  <2> QED BY <2>8, <2>9, <2>11, <2>12 DEF ReadyInv
<1>11. CASE DestroySuperblock(k)
  <2>1. /\ task[k].stage = "sb" /\ task' = [task EXCEPT ![k].stage = "erase"]
        /\ UNCHANGED <<vol, repl>> /\ sb' = [sb EXCEPT ![task[k].obj] = "none"]
    BY <1>11 DEF DestroySuperblock
  <2>2. \A p \in Obj : sb'[p] = sb[p] \/ sb'[p] = "none"
    BY <2>1 DEF TypeInv
  <2>3. ASSUME NEW p \in Obj PROVE Ready(p)' /\ Mirrored(p)'
    BY <1>0, <2>1, <2>2 DEF ReadyInv, Ready, Mirrored
  <2>4. ASSUME NEW d \in Creator PROVE Opened(d)'
    BY <1>0, <2>1 DEF ReadyInv, Opened
  <2>5. ASSUME NEW j \in Task PROVE Doomed(j)'
    <3>1. /\ task[j].stage \notin {"idle", "posted", "found"} <=> task'[j].stage \notin {"idle", "posted", "found"}
          /\ task'[j].obj = task[j].obj
      BY <1>5, <2>1 DEF TaskStage
    <3> QED BY <1>0, <2>1, <2>2, <3>1 DEF ReadyInv, Doomed
  <2> QED BY <2>3, <2>4, <2>5 DEF ReadyInv
<1> QED BY <1>2, <1>3, <1>4, <1>6, <1>7, <1>8, <1>9, <1>10, <1>11 DEF RemoveStep

(* Fault containment: what it takes out of DESTROYING is remembered. *)
LEMMA ReadyFault ==
  ASSUME TypeInv, ReadyInv, NEW i \in Id, NEW s \in {"ONLINE", "OFFLINE"}, FaultVolume(i, s)
  PROVE  ReadyInv'
<1>1. PICK o \in Obj : o = vol_map[i] /\ sb[o] # "none" /\ sb[o] # s /\ StateChange(o, s)
  BY DEF FaultVolume, TypeInv
<1>2. /\ Running /\ Running' /\ UNCHANGED <<create, task, repl>>
      /\ revived' = IF sb[o] = "DESTROYING" THEN revived \cup {o} ELSE revived
  BY <1>1 DEF FaultVolume, Running, calls, life
<1>3. s \in State /\ s \notin {"none", "DESTROYING"}
  BY DEF State
<1>4. /\ SameVolumes /\ sb'[o] = s
      /\ \A p \in Obj \ {o} : sb'[p] = sb[p]
  BY <1>1, <1>3, StateStep
<1>5. vol'[o].state = s /\ \A p \in Obj \ {o} : vol'[p] = vol[p]
  BY <1>1, <1>3, StateSet
<1>6. ASSUME NEW p \in Obj PROVE Ready(p)' /\ Mirrored(p)'
  <2>1. Ready(p) /\ Mirrored(p)
    BY DEF ReadyInv
  <2>2. Mirrored(p)'
    BY <1>2, <1>4, <1>5, <2>1 DEF Mirrored
  <2>3. Ready(p)'
    BY <1>1, <1>2, <1>3, <1>4, <2>1 DEF Ready, SameVolumes, SameIds
  <2> QED BY <2>2, <2>3
<1>7. ASSUME NEW d \in Creator PROVE Opened(d)'
  <2>1. create[d].stage # "idle" => create[d].obj \in Obj
    BY Bounds DEF TypeInv, Obj
  <2> QED BY <1>2, <1>4, <2>1 DEF ReadyInv, Opened, SameVolumes
<1>8. ASSUME NEW k \in Task PROVE Doomed(k)'
  <2>1. Doomed(k) /\ (task[k].stage \notin {"idle", "posted", "found"} => task[k].obj \in Obj)
    BY DEF ReadyInv, TypeInv
  <2>2. CASE task[k].obj = o
    BY <1>1, <1>2, <2>1, <2>2 DEF Doomed
  <2>3. CASE task[k].obj # o
    BY <1>2, <1>4, <1>5, <2>1, <2>3 DEF Doomed
  <2> QED BY <2>2, <2>3
<1> QED BY <1>6, <1>7, <1>8 DEF ReadyInv

(* The end of the process and the boot. *)
LEMMA ReadyStop ==
  ASSUME TypeInv, LifecycleInv, ReadyInv,
         (ProcessGone /\ ~Running') \/ Boot
  PROVE  ReadyInv'
<1>1. CASE ProcessGone /\ ~Running'
  <2>1. UNCHANGED <<sb, repl, revived>> /\ SameIds
    BY <1>1, SetGone DEF ProcessGone, TypeInv
  <2>2. /\ \A c \in Creator : create'[c].stage = "idle"
        /\ \A k \in Task : task'[k].stage = "idle"
    BY <1>1, NoCallType DEF ProcessGone
  <2>3. ASSUME NEW o \in Obj PROVE Ready(o)' /\ Mirrored(o)'
    BY <1>1, <2>1 DEF ReadyInv, Ready, Mirrored, SameIds
  <2> QED BY <2>2, <2>3 DEF ReadyInv, Opened, Doomed
<1>2. CASE Boot
  <2>1. /\ UNCHANGED <<sb, repl, revived, create>>
        /\ \A c \in Creator : create[c].stage = "idle"
    BY <1>2 DEF Boot, history, LifecycleInv, StoppedInv, Running
  <2>2. /\ SameIds
        /\ \A o \in Obj : sb[o] # "none" => vol'[o].rd = (vol[o].id \in repl)
    BY <1>2, SetBooted DEF TypeInv
  <2>3. \A k \in Task : task'[k].stage \in {"idle", "posted"}
    <3>1. PICK by \in [Resumed -> Task] :
              task' = [k \in Task |-> IF \E i \in Resumed : by[i] = k
                                      THEN [stage |-> "posted", obj |-> None,
                                            id |-> CHOOSE i \in Resumed : by[i] = k]
                                      ELSE NoCall]
      BY <1>2 DEF Boot
    <3>2. ASSUME NEW k \in Task
          PROVE  task'[k].stage \in {"idle", "posted"}
      <4>1. CASE \E i \in Resumed : by[i] = k
        BY <3>1, <4>1
      <4>2. CASE ~ \E i \in Resumed : by[i] = k
        BY <3>1, <4>2, NoCallType
      <4> QED BY <4>1, <4>2
    <3> QED BY <3>2
  <2>4. ASSUME NEW o \in Obj PROVE Ready(o)' /\ Mirrored(o)'
    <3>1. Ready(o)'
      <4>1. SUFFICES ASSUME sb[o] \notin {"none", "DESTROYING"}, o \notin revived
                     PROVE  vol'[o].id \in repl' /\ vol'[o].rd
        BY <2>1 DEF Ready
      <4>2. vol[o].id \in repl
        BY <4>1 DEF ReadyInv, Ready
      <4> QED BY <2>1, <2>2, <4>1, <4>2 DEF SameIds
    <3>2. Mirrored(o)'
      BY <1>2, <2>1, BootedState DEF Mirrored
    <3> QED BY <3>1, <3>2
  <2> QED BY <2>1, <2>3, <2>4 DEF ReadyInv, Opened, Doomed
<1> QED BY <1>1, <1>2

(* Every step keeps the repl devs and the states, until destroy() runs twice. *)
LEMMA ReadyStep ==
  ASSUME Inv, ~again, ReadyInv, [Next]_vars
  PROVE  ReadyInv'
<1> USE DEF Inv
<1>1. ASSUME UNCHANGED <<sb, repl, revived, create, task>>, Running' => Running,
             SameVolumes, SameStates
      PROVE  ReadyInv'
  <2>1. /\ \A c \in Creator : create[c].stage \in {"index", "online", "emplace"} => create[c].obj \in Obj
        /\ \A k \in Task : task[k].stage \notin {"idle", "posted", "found"} => task[k].obj \in Obj
    BY Bounds DEF TypeInv, Obj
  <2> QED BY <1>1, <2>1, ReadyFrame DEF SameVolumes
<1>2. CASE UNCHANGED vars
  BY <1>1, <1>2 DEF vars, objects, calls, life, history, Running, SameVolumes, SameIds, SameStates
<1>3. ASSUME NEW c \in Creator, CreateStep(c) \/ \E i \in Id : CreateBegin(c, i)
      PROVE  ReadyInv'
  BY <1>3, ReadyCreate
<1>4. ASSUME NEW k \in Task, RemoveStep(k) \/ \E i \in Id : RemoveVolume(k, i) \/ Reap(k, i)
      PROVE  ReadyInv'
  BY <1>4, ReadyRemove
<1>5. ASSUME NEW i \in Io, IoBegin(i) \/ IoEnd(i) \/ \E o \in 1 .. created : IoPrecheck(i, o)
      PROVE  ReadyInv'
  <2>1. SameVolumes
    BY <1>5, IoType
  <2>2. UNCHANGED <<sb, repl, revived, create, task>> /\ (Running' => Running)
    BY <1>5 DEF IoBegin, IoEnd, IoPrecheck, objects, history
  <2>3. SameStates
    <3>1. CASE \E o \in 1 .. created : IoPrecheck(i, o)
      BY <3>1 DEF IoPrecheck, objects, SameStates
    <3>2. CASE IoBegin(i) \/ IoEnd(i)
      <4>1. PICK o \in Obj : o = io[i].obj
        BY <3>2 DEF IoBegin, IoEnd, TypeInv
      <4>2. vol[o].outstanding \in Int
        <5>1. vol[o] \in VolumeRecord
          BY DEF TypeInv
        <5> QED BY <5>1 DEF VolumeRecord
      <4>3. PICK n \in Int : vol' = [vol EXCEPT ![o].outstanding = n]
        <5>1. CASE IoBegin(i)
          <6>1. vol[o].outstanding + 1 \in Int
            BY <4>2
          <6> QED BY <4>1, <5>1, <6>1 DEF IoBegin
        <5>2. CASE IoEnd(i)
          <6>1. vol[o].outstanding - 1 \in Int
            BY <4>2
          <6> QED BY <4>1, <5>2, <6>1 DEF IoEnd
        <5> QED BY <3>2, <5>1, <5>2
      <4> QED BY <4>3, StatesKept DEF TypeInv
    <3> QED BY <1>5, <3>1, <3>2
  <2> QED BY <1>1, <2>1, <2>2, <2>3
<1>6. ASSUME NEW i \in Id, NEW s \in {"ONLINE", "OFFLINE"}, FaultVolume(i, s)
      PROVE  ReadyInv'
  BY <1>6, ReadyFault
<1>7. CASE FaultGlobal \/ ShutdownStart \/ DoShutdown \/ BootAborts
  <2>1. UNCHANGED <<vol, sb, repl, revived, create, task>> /\ (Running' => Running)
    BY <1>7 DEF FaultGlobal, ShutdownStart, DoShutdown, BootAborts, objects, calls, history, Running
  <2> QED BY <1>1, <2>1 DEF SameVolumes, SameIds, SameStates
<1>8. CASE ShutdownFinish \/ Crash \/ TouchDestroyedSuperblock
  <2>1. ProcessGone /\ ~Running'
    BY <1>8 DEF ShutdownFinish, Crash, TouchDestroyedSuperblock, Running
  <2> QED BY <2>1, ReadyStop
<1>9. CASE Boot
  BY <1>9, ReadyStop
<1> QED BY <1>2, <1>3, <1>4, <1>5, <1>6, <1>7, <1>8, <1>9 DEF Next

ReadyUntilAgain == ~again => ReadyInv

(* The repl devs and the states are in order until destroy() runs twice. *)
LEMMA ReadyCorrect == Spec => []ReadyUntilAgain
<1>1. Init => ReadyUntilAgain
  BY NoCallType DEF Init, ReadyUntilAgain, ReadyInv, Ready, Mirrored, Opened, Doomed
<1>2. Inv /\ ReadyUntilAgain /\ [Next]_vars => ReadyUntilAgain'
  BY ReadyStep, AgainStays DEF ReadyUntilAgain
<1> QED BY <1>1, <1>2, LifecycleCorrect, PTL DEF Spec

(* A registered volume on which destroy() has not begun has its superblock   *)
(* and its index table, and outside DESTROYING it holds its repl dev, which  *)
(* exists, through crashes in the middle of a removal and any number of      *)
(* workers; unless fault containment overwrote its DESTROYING, or destroy()  *)
(* ran twice on some volume.                                                 *)
THEOREM UsableCorrect == Spec => []RegisteredIsUsable
<1>1. Inv /\ ReadyUntilAgain => RegisteredIsUsable
  <2>1. SUFFICES ASSUME Inv, ReadyInv, ~again, NEW o \in Obj, Mapped(o), ~vol[o].started
                 PROVE  /\ sb[o] # "none" /\ o \in index
                        /\ vol[o].state # "DESTROYING" /\ o \notin revived
                           => vol[o].rd /\ vol[o].id \in repl
    BY DEF RegisteredIsUsable, ReadyUntilAgain
  <2>2. PICK i \in Id : vol_map[i] = o /\ o # None
    BY <2>1, Bounds DEF Mapped
  <2>3. sb[o] # "none" /\ o \in index
    BY <2>1, <2>2 DEF Inv, LifecycleInv, MapInv
  <2>4. Running
    BY <2>1, <2>2 DEF Inv, LifecycleInv, StoppedInv
  <2>5. vol[o].state = sb[o] /\ Ready(o)
    BY <2>1, <2>3, <2>4 DEF ReadyInv, Mirrored
  <2> QED BY <2>3, <2>4, <2>5 DEF Ready
<1> QED BY <1>1, LifecycleCorrect, ReadyCorrect, PTL

-----------------------------------------------------------------------------
(* References *)

InCreate == {c \in Creator : create[c].stage # "idle"}

RefsInv == /\ create \in [Creator -> CallRecord(CreateStage)]
           /\ created \in 0 .. MaxObj
           /\ refs \in Int /\ lost \in Nat
           /\ RefsCountCreates

(* The create_volume calls in progress are finitely many; a call that starts  *)
(* or returns changes their number by one.                                   *)
LEMMA InCreateCount ==
  ASSUME RefsInv
  PROVE  /\ IsFiniteSet(InCreate) /\ Cardinality(InCreate) \in Nat
         /\ \A c \in Creator : /\ c \notin InCreate => Cardinality(InCreate \cup {c}) = Cardinality(InCreate) + 1
                               /\ c \in InCreate => Cardinality(InCreate \ {c}) = Cardinality(InCreate) - 1
<1>1. IsFiniteSet(InCreate)
  BY BoundAssumption, FS_Subset DEF InCreate
<1>2. Cardinality(InCreate) \in Nat
  BY <1>1, FS_CardinalityType
<1>3. ASSUME NEW c \in Creator, c \notin InCreate
      PROVE  Cardinality(InCreate \cup {c}) = Cardinality(InCreate) + 1
  BY <1>1, <1>3, FS_AddElement
<1>4. ASSUME NEW c \in Creator, c \in InCreate
      PROVE  Cardinality(InCreate \ {c}) = Cardinality(InCreate) - 1
  BY <1>1, <1>4, FS_RemoveElement
<1> QED BY <1>1, <1>2, <1>3, <1>4

(* Every step keeps the count of references. *)
LEMMA RefsStep ==
  ASSUME RefsInv, [Next]_vars
  PROVE  RefsInv'
<1> USE BoundAssumption
<1>0. /\ create \in [Creator -> CallRecord(CreateStage)] /\ created \in 0 .. MaxObj
      /\ refs \in Int /\ lost \in Nat /\ Cardinality(InCreate) \in Nat
      /\ refs = Cardinality(InCreate) + lost
  BY InCreateCount DEF RefsInv, RefsCountCreates, InCreate
<1>1. ASSUME UNCHANGED <<create, created, refs, lost>>
      PROVE  RefsInv'
  BY <1>1 DEF RefsInv, RefsCountCreates
<1>2. CASE UNCHANGED vars
  BY <1>1, <1>2 DEF vars, calls, life, history
<1>3. ASSUME NEW c \in Creator, CreateStep(c) \/ \E i \in Id : CreateBegin(c, i)
      PROVE  RefsInv'
  <2>1. ASSUME NEW i \in Id, CreateBegin(c, i)
        PROVE  RefsInv'
    <3>1. created' = created + 1 /\ created' \in 1 .. MaxObj /\ refs' = refs + 1 /\ lost' = lost
      BY <1>0, <2>1 DEF CreateBegin, history
    <3>2. PICK r \in CallRecord(CreateStage) : r = [stage |-> "begun", obj |-> created', id |-> i]
      BY <3>1 DEF CallRecord, CreateStage, Obj
    <3>3. create' = [create EXCEPT ![c] = r] /\ r.stage = "begun" /\ create[c].stage = "idle"
      BY <2>1, <3>2 DEF CreateBegin
    <3>4. create' \in [Creator -> CallRecord(CreateStage)] /\ InCreate' = InCreate \cup {c} /\ c \notin InCreate
      BY <1>0, <3>3 DEF InCreate
    <3>5. Cardinality(InCreate') = Cardinality(InCreate) + 1
      BY <3>4, InCreateCount
    <3>6. refs' = Cardinality(InCreate') + lost'
      BY <1>0, <3>1, <3>5
    <3>7. RefsCountCreates'
      BY <3>6 DEF RefsCountCreates, InCreate
    <3>8. created' \in 0 .. MaxObj /\ refs' \in Int /\ lost' \in Nat
      BY <1>0, <3>1
    <3> QED BY <3>4, <3>7, <3>8 DEF RefsInv
  <2>2. ASSUME create' = [create EXCEPT ![c] = NoCall], create[c].stage # "idle",
               (refs' = refs - 1 /\ lost' = lost) \/ (refs' = refs /\ lost' = lost + 1),
               created' = created
        PROVE  RefsInv'
    <3>1. create' \in [Creator -> CallRecord(CreateStage)] /\ InCreate' = InCreate \ {c} /\ c \in InCreate
      BY <1>0, <2>2, NoCallType DEF InCreate
    <3>2. Cardinality(InCreate') = Cardinality(InCreate) - 1
      BY <3>1, InCreateCount
    <3>3. refs' = Cardinality(InCreate') + lost' /\ refs' \in Int /\ lost' \in Nat
      BY <1>0, <2>2, <3>2
    <3>4. RefsCountCreates'
      BY <3>3 DEF RefsCountCreates, InCreate
    <3> QED BY <1>0, <2>2, <3>1, <3>3, <3>4 DEF RefsInv
  <2>3. ASSUME NEW s \in CreateStage \ {"idle"}, create' = [create EXCEPT ![c].stage = s],
               create[c].stage # "idle", UNCHANGED <<refs, lost, created>>
        PROVE  RefsInv'
    <3>1. /\ create' \in [Creator -> CallRecord(CreateStage)]
          /\ \A d \in Creator \ {c} : create'[d] = create[d]
          /\ create'[c].stage = s
      BY <1>0, <2>3, SetCreate
    <3>2. InCreate' = InCreate
      BY <2>3, <3>1 DEF InCreate
    <3>3. RefsCountCreates'
      BY <1>0, <2>3, <3>2 DEF RefsCountCreates, InCreate
    <3> QED BY <1>0, <2>3, <3>1, <3>3 DEF RefsInv
  <2>4. CASE CreateNoOrdinal(c) \/ CreateEmplace(c) \/ CreateFails(c) \/ \E n \in Ordinal : CreateExists(c, n)
    <3>1. /\ create' = [create EXCEPT ![c] = NoCall] /\ create[c].stage # "idle"
          /\ created' = created
      BY <2>4 DEF CreateNoOrdinal, CreateEmplace, CreateFails, CreateExists, life
    <3>2. (refs' = refs - 1 /\ lost' = lost) \/ (refs' = refs /\ lost' = lost + 1)
      BY <2>4 DEF CreateNoOrdinal, CreateEmplace, CreateFails, CreateExists, history
    <3> QED BY <2>2, <3>1, <3>2
  <2>5. CASE \E n \in Ordinal : CreateReserve(c, n)
    BY <2>3, <2>5 DEF CreateReserve, life, CreateStage, history
  <2>6. CASE CreateChunks(c)
    BY <2>3, <2>6 DEF CreateChunks, life, CreateStage, history
  <2>7. CASE CreateRepl(c)
    BY <2>3, <2>7 DEF CreateRepl, life, CreateStage, history
  <2>8. CASE CreateIndex(c)
    BY <2>3, <2>8 DEF CreateIndex, life, CreateStage, history
  <2>9. CASE CreateOnline(c)
    BY <2>3, <2>9 DEF CreateOnline, life, CreateStage, history
  <2> QED BY <1>3, <2>1, <2>4, <2>5, <2>6, <2>7, <2>8, <2>9 DEF CreateStep
<1>4. ASSUME NEW k \in Task, RemoveStep(k) \/ \E i \in Id : RemoveVolume(k, i) \/ Reap(k, i)
      PROVE  RefsInv'
  BY <1>1, <1>4 DEF RemoveStep, RemoveVolume, Reap, RemoveNotFound, RemoveFind, RemoveMark,
     RemoveCheck, DestroyBegin, DestroyRepl, DestroyIndex, DestroySuperblock, RemoveErase, life, history
<1>5. ASSUME NEW i \in Io, IoBegin(i) \/ IoEnd(i) \/ \E o \in 1 .. created : IoPrecheck(i, o)
      PROVE  RefsInv'
  BY <1>1, <1>5 DEF IoBegin, IoEnd, IoPrecheck, life, history
<1>6. ASSUME NEW i \in Id, NEW s \in {"ONLINE", "OFFLINE"}, FaultVolume(i, s)
      PROVE  RefsInv'
  BY <1>1, <1>6 DEF FaultVolume, calls, life
<1>7. CASE FaultGlobal \/ ShutdownStart \/ DoShutdown \/ BootAborts \/ Boot
  BY <1>1, <1>7 DEF FaultGlobal, ShutdownStart, DoShutdown, BootAborts, Boot, calls, history
<1>8. CASE ShutdownFinish \/ Crash \/ TouchDestroyedSuperblock
  <2>1. ProcessGone
    BY <1>8 DEF ShutdownFinish, Crash, TouchDestroyedSuperblock
  <2>2. InCreate' = {} /\ create' \in [Creator -> CallRecord(CreateStage)]
    BY <2>1, NoCallType DEF ProcessGone, InCreate
  <2>3. refs' = 0 /\ lost' = 0 /\ created' = created
    BY <2>1 DEF ProcessGone
  <2>4. Cardinality(InCreate') = 0
    BY <2>2, FS_EmptySet
  <2>5. RefsCountCreates'
    BY <2>3, <2>4 DEF RefsCountCreates, InCreate
  <2>6. refs' \in Int /\ lost' \in Nat /\ created' \in 0 .. MaxObj
    BY <1>0, <2>3
  <2> QED BY <2>2, <2>5, <2>6 DEF RefsInv
<1> QED BY <1>2, <1>3, <1>4, <1>5, <1>6, <1>7, <1>8 DEF Next

(* The count is kept from the start. *)
LEMMA RefsKept == Spec => []RefsInv
<1>1. Init => RefsInv
  <2> SUFFICES ASSUME Init PROVE RefsInv
    OBVIOUS
  <2>1. {c \in Creator : create[c].stage # "idle"} = {}
    BY NoCallType DEF Init
  <2>2. RefsCountCreates
    BY <2>1, FS_EmptySet DEF Init, RefsCountCreates
  <2> QED BY <2>2, BoundAssumption, NoCallType DEF Init, RefsInv
<1>2. RefsInv /\ [Next]_vars => RefsInv'
  BY RefsStep
<1> QED BY <1>1, <1>2, PTL DEF Spec

(* outstanding_reqs_ of HomeBlocksImpl is the number of create_volume calls   *)
(* in progress plus those refused for want of an ordinal, with any number of *)
(* client threads and worker reactors.                                       *)
THEOREM RefsCorrect == Spec => []RefsCountCreates
<1>1. RefsInv => RefsCountCreates
  BY DEF RefsInv
<1> QED BY <1>1, RefsKept, PTL

(* The instance is released only when no create_volume is in progress and no  *)
(* destroy() either, except on a volume that was revived or destroyed twice: *)
(* the count of references covers the creates, the DESTROYING state of a     *)
(* registered volume the removals.                                           *)
THEOREM ShutdownWaitsCorrect == Spec => ShutdownWaits
<1> DEFINE Quiesced == phase = "draining" /\ phase' = "released" =>
               /\ \A c \in Creator : create[c].stage = "idle"
               /\ \A k \in Task : InDestroy(k) => again \/ task[k].obj \in revived
<1>1. Inv /\ ReadyUntilAgain /\ RefsInv /\ [Next]_vars => [Quiesced]_vars
  <2>1. SUFFICES ASSUME Inv, ReadyUntilAgain, RefsInv, [Next]_vars,
                        phase = "draining", phase' = "released"
                 PROVE  /\ \A c \in Creator : create[c].stage = "idle"
                        /\ \A k \in Task : InDestroy(k) => again \/ task[k].obj \in revived
    OBVIOUS
  <2>2. DoShutdown
    <3>1. phase' # phase
      BY <2>1
    <3>2. ~ UNCHANGED vars
      BY <3>1 DEF vars, life
    <3>3. ASSUME NEW c \in Creator, CreateStep(c) \/ \E i \in Id : CreateBegin(c, i)
          PROVE  FALSE
      BY <3>1, <3>3 DEF CreateStep, CreateBegin, CreateNoOrdinal, CreateExists, CreateReserve,
         CreateChunks, CreateRepl, CreateIndex, CreateOnline, CreateEmplace, CreateFails, life
    <3>4. ASSUME NEW k \in Task, RemoveStep(k) \/ \E i \in Id : RemoveVolume(k, i) \/ Reap(k, i)
          PROVE  FALSE
      BY <3>1, <3>4 DEF RemoveStep, RemoveVolume, Reap, RemoveNotFound, RemoveFind, RemoveMark,
         RemoveCheck, DestroyBegin, DestroyRepl, DestroyIndex, DestroySuperblock, RemoveErase, life
    <3>5. ASSUME NEW i \in Io, IoBegin(i) \/ IoEnd(i) \/ \E o \in 1 .. created : IoPrecheck(i, o)
          PROVE  FALSE
      BY <3>1, <3>5 DEF IoBegin, IoEnd, IoPrecheck, life
    <3>6. ASSUME NEW i \in Id, NEW s \in {"ONLINE", "OFFLINE"}, FaultVolume(i, s)
          PROVE  FALSE
      BY <3>1, <3>6 DEF FaultVolume, life
    <3>7. ~FaultGlobal /\ ~ShutdownStart /\ ~ShutdownFinish /\ ~Crash /\ ~TouchDestroyedSuperblock
          /\ ~Boot /\ ~BootAborts
      BY <2>1 DEF FaultGlobal, ShutdownStart, ShutdownFinish, Crash, TouchDestroyedSuperblock, Boot,
         BootAborts
    <3> QED BY <2>1, <3>2, <3>3, <3>4, <3>5, <3>6, <3>7 DEF Next
  <2>3. InCreate = {}
    <3>1. refs = 0 /\ lost \in Nat /\ refs = Cardinality(InCreate) + lost
      BY <2>1, <2>2 DEF DoShutdown, RefsInv, RefsCountCreates, InCreate
    <3>2. IsFiniteSet(InCreate) /\ Cardinality(InCreate) \in Nat
      BY <2>1, InCreateCount
    <3>3. Cardinality(InCreate) = 0
      BY ONLY <3>1, <3>2
    <3> QED BY <3>2, <3>3, FS_EmptySet
  <2>4. ASSUME NEW k \in Task, InDestroy(k), ~again
        PROVE  task[k].obj \in revived
    <3>1. Found(k) /\ task[k].stage \notin {"idle", "posted", "found"}
      BY <2>4 DEF Found, InDestroy
    <3>2. /\ task[k].obj \in Obj /\ vol[task[k].obj].id \in Id
          /\ vol_map[vol[task[k].obj].id] = task[k].obj
      BY <2>1, <2>4, <3>1, RemoveOwn DEF Inv
    <3>3. vol[task[k].obj].state # "DESTROYING"
      BY <2>2, <3>2, Bounds DEF DoShutdown, NoOutstandingVols
    <3> QED BY <2>1, <2>4, <3>1, <3>3 DEF ReadyUntilAgain, ReadyInv, Doomed
  <2> QED BY <2>3, <2>4 DEF InCreate
<1> QED BY <1>1, LifecycleCorrect, ReadyCorrect, RefsKept, PTL DEF Spec, ShutdownWaits
=============================================================================
