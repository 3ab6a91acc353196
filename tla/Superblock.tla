------------------------------- MODULE Superblock -------------------------------
(***************************************************************************)
(* The HomeBlocks superblock over the lives of the process                 *)
(* (homeblks_impl.cpp): cold boot, boot, shutdown with its recurring       *)
(* timer, global fault containment, and crashes between any two steps.     *)
(*                                                                         *)
(* sb_ is a buffer in memory that reaches the disk only in sb_.write().    *)
(* set_flag is `flag |= bit' on a plain integer: fault containment does it *)
(* under sb_lock_ and shutdown without, so their loads and stores          *)
(* interleave.  The outstanding requests are a count; VolumeLifecycle has  *)
(* their detail.                                                           *)
(***************************************************************************)
EXTENDS Integers

CONSTANTS
    MaxBoot,     \* bound on starts of the process
    MaxBusy      \* bound on requests in progress together

ASSUME BoundAssumption == MaxBoot \in Nat \ {0} /\ MaxBusy \in Nat \ {0}

VARIABLES
    formatted,   \* the devices carry a HomeStore: start() will not ask to format
    disk,        \* the superblock on the meta device
    log,         \* the log holds entries that no checkpoint covers
    phase,       \* life of the process
    sb,          \* sb_, the superblock in memory
    graceful,    \* gracefully_shutdown_
    restricted,  \* is_restricted_
    busy,        \* outstanding requests
    shut,        \* shutdown(): where it is, and the flag word it has loaded
    fc,          \* fault_containment(nullptr): the same
    exit,        \* how the last process ended
    starts       \* bound used up

vars == <<formatted, disk, log, phase, sb, graceful, restricted, busy, shut, fc, exit, starts>>
memory == <<sb, graceful, restricted, busy, shut, fc>>

Flag == {"GRACEFUL_SHUTDOWN", "RESTRICTED"}
NoSb == [found |-> FALSE, flag |-> {}, boot_cnt |-> 0]
Idle == [at |-> "idle", flag |-> {}]

Init ==
    /\ formatted = FALSE /\ disk = NoSb /\ log = FALSE
    /\ phase = "off"
    /\ sb = NoSb /\ graceful = FALSE /\ restricted = FALSE /\ busy = 0
    /\ shut = Idle /\ fc = Idle
    /\ exit = "none" /\ starts = 0

(* The process is gone, and everything in memory with it. *)
Gone(how) ==
    /\ phase' = "off" /\ exit' = how
    /\ sb' = NoSb /\ graceful' = FALSE /\ restricted' = FALSE /\ busy' = 0
    /\ shut' = Idle /\ fc' = Idle

-----------------------------------------------------------------------------
(* init_homestore *)

(* start() asks to format: format_and_start, then superblk_init, and a crash *)
(* may fall between the two.                                                 *)
ColdBoot ==
    /\ phase = "off" /\ ~formatted
    /\ starts < MaxBoot /\ starts' = starts + 1
    /\ formatted' = TRUE
    /\ phase' = "formatting"
    /\ UNCHANGED <<disk, log, memory, exit>>

SuperblkInit ==
    /\ phase = "formatting"
    /\ sb' = [found |-> TRUE, flag |-> {}, boot_cnt |-> 0]
    /\ disk' = sb'
    /\ phase' = "up"
    /\ UNCHANGED <<formatted, log, graceful, restricted, busy, shut, fc, exit, starts>>

Graceful(d) == "GRACEFUL_SHUTDOWN" \in d.flag

Restricted(d) == ~Graceful(d) /\ "RESTRICTED" \in d.flag

(* Mutant: the flag is not cleared. *)
LoadedUncleared(d) == [d EXCEPT !.boot_cnt = @ + 1]
Loaded(d) == [d EXCEPT !.flag = @ \ {"GRACEFUL_SHUTDOWN"}, !.boot_cnt = @ + 1]

(* on_hb_meta_blk_found: the flag is cleared and the boot counted in memory; *)
(* nothing is written, and init_cp, which is to have the first checkpoint    *)
(* flush it, is empty.                                                       *)
OnHbMetaBlkFound ==
    /\ phase = "off" /\ formatted /\ disk.found
    /\ starts < MaxBoot /\ starts' = starts + 1
    /\ sb' = Loaded(disk)
    /\ graceful' = Graceful(disk)
    /\ restricted' = Restricted(disk)
    /\ phase' = "recovering"
    /\ UNCHANGED <<formatted, disk, log, busy, shut, fc, exit>>

(* Formatted, and no superblock: "UUID should be recovered from HB           *)
(* superblock!"  The assertion is a debug one; a release build goes on with  *)
(* an empty sb_, and is not followed.                                        *)
BootAborts ==
    /\ phase = "off" /\ formatted /\ ~disk.found
    /\ phase' = "aborted"
    /\ UNCHANGED <<formatted, disk, log, memory, exit, starts>>

(* The log is replayed through on_write if it holds anything. *)
Recovered ==
    /\ phase = "recovering"
    /\ phase' = "up"
    /\ UNCHANGED <<formatted, disk, log, memory, exit, starts>>

-----------------------------------------------------------------------------
(* Requests and HomeStore's checkpoint. *)

ShuttingDown == shut.at # "idle"

(* io_precheck refuses; create_volume looks at the restricted mode only. *)
IoBegin ==
    /\ phase = "up" /\ ~restricted /\ ~ShuttingDown
    /\ busy < MaxBusy /\ busy' = busy + 1
    /\ log' = TRUE
    /\ UNCHANGED <<formatted, disk, phase, sb, graceful, restricted, shut, fc, exit, starts>>

CreateBegin ==
    /\ phase = "up" /\ ~restricted
    /\ busy < MaxBusy /\ busy' = busy + 1
    /\ UNCHANGED <<formatted, disk, log, phase, sb, graceful, restricted, shut, fc, exit, starts>>

RequestEnd ==
    /\ phase = "up" /\ busy > 0
    /\ busy' = busy - 1
    /\ UNCHANGED <<formatted, disk, log, phase, sb, graceful, restricted, shut, fc, exit, starts>>

Checkpoint ==
    /\ phase = "up" /\ log
    /\ log' = FALSE
    /\ UNCHANGED <<formatted, disk, phase, memory, exit, starts>>

-----------------------------------------------------------------------------
(* shutdown() *)

ShutdownStart ==
    /\ phase = "up" /\ shut.at = "idle"
    /\ shut' = [shut EXCEPT !.at = "waiting"]
    /\ UNCHANGED <<formatted, disk, log, phase, sb, graceful, restricted, busy, fc, exit, starts>>

CanShutdown == ShuttingDown /\ busy = 0

(* do_shutdown on the recurring timer completes the promise. *)
DoShutdown ==
    /\ shut.at = "waiting" /\ CanShutdown
    /\ shut' = [shut EXCEPT !.at = "released"]
    /\ UNCHANGED <<formatted, disk, log, phase, sb, graceful, restricted, busy, fc, exit, starts>>

(* The timer fires again before it is cancelled: the second set_value throws *)
(* in the timer callback.                                                    *)
DoShutdownAgain ==
    /\ shut.at = "released" /\ CanShutdown
    /\ Gone("crash")
    /\ UNCHANGED <<formatted, disk, log, starts>>

CancelTimer ==
    /\ shut.at = "released"
    /\ shut' = [at |-> "loaded", flag |-> sb.flag]
    /\ UNCHANGED <<formatted, disk, log, phase, sb, graceful, restricted, busy, fc, exit, starts>>

SetGraceful ==
    /\ shut.at = "loaded"
    /\ sb' = [sb EXCEPT !.flag = shut.flag \cup {"GRACEFUL_SHUTDOWN"}]
    /\ shut' = [at |-> "flagged", flag |-> {}]
    /\ UNCHANGED <<formatted, disk, log, phase, graceful, restricted, busy, fc, exit, starts>>

(* Mutant: the superblock is not written. *)
ShutdownWriteSkipped ==
    /\ shut.at = "flagged"
    /\ shut' = [shut EXCEPT !.at = "written"]
    /\ UNCHANGED <<formatted, disk, log, phase, sb, graceful, restricted, busy, fc, exit, starts>>

ShutdownWrite ==
    /\ shut.at = "flagged"
    /\ disk' = sb
    /\ shut' = [shut EXCEPT !.at = "written"]
    /\ UNCHANGED <<formatted, log, phase, sb, graceful, restricted, busy, fc, exit, starts>>

(* hs()->shutdown() takes a last checkpoint; the instance is reset. *)
HomestoreShutdown ==
    /\ shut.at = "written"
    /\ log' = FALSE
    /\ Gone("clean")
    /\ UNCHANGED <<formatted, disk, starts>>

-----------------------------------------------------------------------------
(* fault_containment(nullptr), called by HomeStore at any time once the       *)
(* superblock is loaded.                                                     *)

FcLoad ==
    /\ phase \in {"recovering", "up"} /\ fc.at = "idle"
    /\ fc' = [at |-> "loaded", flag |-> sb.flag]
    /\ UNCHANGED <<formatted, disk, log, phase, sb, graceful, restricted, busy, shut, exit, starts>>

FcSetFlag ==
    /\ fc.at = "loaded"
    /\ sb' = [sb EXCEPT !.flag = fc.flag \cup {"RESTRICTED"}]
    /\ fc' = [at |-> "flagged", flag |-> {}]
    /\ UNCHANGED <<formatted, disk, log, phase, graceful, restricted, busy, shut, exit, starts>>

FcRestrict ==
    /\ fc.at = "flagged"
    /\ restricted' = TRUE
    /\ fc' = [fc EXCEPT !.at = "restricted"]
    /\ UNCHANGED <<formatted, disk, log, phase, sb, graceful, busy, shut, exit, starts>>

FcWrite ==
    /\ fc.at = "restricted"
    /\ disk' = sb
    /\ fc' = Idle
    /\ UNCHANGED <<formatted, log, phase, sb, graceful, restricted, busy, shut, exit, starts>>

Crash ==
    /\ phase \in {"formatting", "recovering", "up"}
    /\ Gone("crash")
    /\ UNCHANGED <<formatted, disk, log, starts>>

-----------------------------------------------------------------------------
Next ==
    \/ ColdBoot \/ SuperblkInit \/ OnHbMetaBlkFound \/ BootAborts \/ Recovered
    \/ IoBegin \/ CreateBegin \/ RequestEnd \/ Checkpoint
    \/ ShutdownStart \/ DoShutdown \/ DoShutdownAgain \/ CancelTimer
    \/ SetGraceful \/ ShutdownWrite \/ HomestoreShutdown
    \/ FcLoad \/ FcSetFlag \/ FcRestrict \/ FcWrite
    \/ Crash

Spec == Init /\ [][Next]_vars

-----------------------------------------------------------------------------
(* Properties *)

(* A system that fault containment has put into restricted mode comes back   *)
(* restricted after a crash, whenever it crashes, however often and whatever *)
(* the earlier lives of the process left on disk, until a graceful shutdown  *)
(* has set its own flag.                                                     *)
RestrictedSurvives ==
    restricted /\ fc.at = "idle" /\ shut.at \notin {"flagged", "written"} => Restricted(disk)

(* A shutdown that ran to its end is not taken for a crash: the next boot    *)
(* finds its flag, or one that fault containment put there at the same time. *)
CleanExitRecorded ==
    exit = "clean" /\ phase = "off" => Graceful(disk) \/ Restricted(disk)

(* "We are not expecting log reply for a graceful restart; if we are in      *)
(* recovery path, we must be recovering from a crash" (on_write).            *)
NoReplayAfterGraceful == phase = "recovering" /\ log => ~graceful
=============================================================================
