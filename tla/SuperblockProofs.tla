----------------------------- MODULE SuperblockProofs -----------------------------
(***************************************************************************)
(* What a boot may conclude from the flags of the superblock, for any      *)
(* number of starts, crashes, requests and fault containments.             *)
(***************************************************************************)
EXTENDS Superblock, TLAPS

Word == [found : BOOLEAN, flag : SUBSET Flag, boot_cnt : Nat]
FcStage == {"idle", "loaded", "flagged", "restricted"}
ShutStage == {"idle", "waiting", "released", "loaded", "flagged", "written"}

Types ==
    /\ disk \in Word /\ sb \in Word
    /\ restricted \in BOOLEAN
    /\ phase \in {"off", "formatting", "recovering", "up", "aborted"}
    /\ shut \in [at : ShutStage, flag : SUBSET Flag]
    /\ fc \in [at : FcStage, flag : SUBSET Flag]

(* shutdown() has not yet stored its flag: until then nothing, not even a    *)
(* flag word that fault containment loaded earlier, can carry it.            *)
Unmarked == shut.at \notin {"flagged", "written"}

NoFlagYet == Unmarked => "GRACEFUL_SHUTDOWN" \notin sb.flag \cup fc.flag

(* A process that is not running is in neither call. *)
QuietWhenOff == phase \notin {"recovering", "up"} => shut.at = "idle" /\ fc.at = "idle" /\ ~restricted

(* Once fault containment has stored its flag, only shutdown's store can     *)
(* undo it.                                                                  *)
FlagStored ==
    Unmarked /\ (restricted \/ fc.at \in {"flagged", "restricted"}) => "RESTRICTED" \in sb.flag

(* Whichever of the two stores came last, one of the flags is there, in      *)
(* memory and then on disk.                                                  *)
SomeFlag ==
    /\ shut.at \in {"flagged", "written"} => sb.flag # {}
    /\ shut.at = "written" => disk.flag # {}
    /\ exit = "clean" /\ phase = "off" => disk.flag # {}

SbInv == Types /\ NoFlagYet /\ QuietWhenOff /\ FlagStored /\ SomeFlag /\ RestrictedSurvives

-----------------------------------------------------------------------------
(* The words of a process that has not started are well formed. *)
LEMMA EmptyWords ==
    NoSb \in Word /\ Idle \in [at : ShutStage, flag : SUBSET Flag]
                  /\ Idle \in [at : FcStage, flag : SUBSET Flag]
<1>1. FALSE \in BOOLEAN /\ {} \in SUBSET Flag /\ 0 \in Nat
  OBVIOUS
<1>2. "idle" \in ShutStage /\ "idle" \in FcStage
  BY DEF ShutStage, FcStage
<1> QED
  BY <1>1, <1>2, Zenon DEF NoSb, Idle, Word

(* Before the first start no flag is set anywhere. *)
LEMMA FlagInit == Init => SbInv
<1> SUFFICES ASSUME Init PROVE SbInv
  OBVIOUS
<1>1. Types
  BY EmptyWords, Zenon DEF Init, Types
<1>2. NoFlagYet /\ QuietWhenOff /\ FlagStored /\ SomeFlag
  BY SMT DEF Init, Unmarked, NoFlagYet, QuietWhenOff, FlagStored, SomeFlag, NoSb, Idle
<1>3. RestrictedSurvives
  BY Zenon DEF Init, RestrictedSurvives
<1> QED
  BY <1>1, <1>2, <1>3 DEF SbInv

(* The end of a process, however it comes: its memory is empty again.        *)
LEMMA FlagGone ==
    ASSUME SbInv, NEW how, Gone(how), UNCHANGED disk, how = "clean" => disk.flag # {}
    PROVE  SbInv'
<1>1. Types'
  BY EmptyWords, Zenon DEF SbInv, Types, Gone
<1>2. (NoFlagYet /\ QuietWhenOff /\ FlagStored /\ SomeFlag)'
  BY SMT DEF Gone, NoSb, Idle, Unmarked, NoFlagYet, QuietWhenOff, FlagStored, SomeFlag
<1>3. RestrictedSurvives'
  BY Zenon DEF Gone, RestrictedSurvives
<1> QED
  BY <1>1, <1>2, <1>3 DEF SbInv

(* A boot: what it keeps in memory of the word on disk. *)
LEMMA FlagBoot ==
    ASSUME SbInv, OnHbMetaBlkFound
    PROVE  SbInv'
<1>1. sb' = Loaded(disk) /\ phase' = "recovering" /\ UNCHANGED <<disk, shut, fc, exit>>
  BY DEF OnHbMetaBlkFound
<1>2. shut.at = "idle" /\ fc.at = "idle"
  BY SMT DEF OnHbMetaBlkFound, SbInv, QuietWhenOff
<1>3. restricted' \in BOOLEAN /\ (restricted' => Restricted(disk))
  BY Zenon DEF OnHbMetaBlkFound, Restricted
<1>4. sb' \in Word /\ sb'.flag = disk.flag \ {"GRACEFUL_SHUTDOWN"}
  <2> DEFINE cleared == [disk EXCEPT !.flag = disk.flag \ {"GRACEFUL_SHUTDOWN"}]
  <2>1. disk \in Word
    BY DEF SbInv, Types
  <2>2. cleared \in Word /\ cleared.flag = disk.flag \ {"GRACEFUL_SHUTDOWN"}
    BY <2>1, SMT DEF Word, Flag
  <2>3. cleared.boot_cnt = disk.boot_cnt
    BY <2>1, SMT DEF Word
  <2>4. sb' = [cleared EXCEPT !.boot_cnt = cleared.boot_cnt + 1]
    BY <1>1, <2>3, Zenon DEF Loaded
  <2> HIDE DEF cleared
  <2> QED
    BY <2>2, <2>4, SMT DEF Word
<1>5. Restricted(disk) => "RESTRICTED" \in sb'.flag
  BY <1>4 DEF Restricted
<1>6. Types'
  BY <1>1, <1>3, <1>4, Zenon DEF SbInv, Types
<1>7. (NoFlagYet /\ QuietWhenOff /\ SomeFlag)'
  <2>1. "GRACEFUL_SHUTDOWN" \notin fc.flag
    BY <1>2 DEF SbInv, NoFlagYet, Unmarked
  <2> QED
    BY <1>1, <1>2, <1>4, <2>1, SMT DEF NoFlagYet, QuietWhenOff, SomeFlag
<1>8. FlagStored' /\ RestrictedSurvives'
  <2>1. Restricted(disk') = Restricted(disk)
    BY <1>1
  <2> QED
    BY <1>1, <1>2, <1>3, <1>5, <2>1, Zenon DEF FlagStored, RestrictedSurvives
<1> QED
  BY <1>6, <1>7, <1>8 DEF SbInv

(* What an action does to the two flags decides everything: boot and the end *)
(* of a process by the lemmas above, the others one by one.                  *)
LEMMA FlagStep == SbInv /\ [Next]_vars => SbInv'
<1>1. ASSUME SbInv, OnHbMetaBlkFound PROVE SbInv'
  BY <1>1, FlagBoot
<1>2. ASSUME SbInv, DoShutdownAgain \/ HomestoreShutdown \/ Crash PROVE SbInv'
  <2>1. CASE DoShutdownAgain
    <3>1. Gone("crash") /\ UNCHANGED disk
      BY <2>1 DEF DoShutdownAgain
    <3> QED
      BY <1>2, <3>1, FlagGone, "crash" # "clean"
  <2>2. CASE HomestoreShutdown
    <3>1. Gone("clean") /\ UNCHANGED disk /\ shut.at = "written"
      BY <2>2 DEF HomestoreShutdown
    <3>2. disk.flag # {}
      BY <1>2, <3>1 DEF SbInv, SomeFlag
    <3> QED
      BY <1>2, <3>1, <3>2, FlagGone
  <2>3. CASE Crash
    <3>1. Gone("crash") /\ UNCHANGED disk
      BY <2>3 DEF Crash
    <3> QED
      BY <1>2, <3>1, FlagGone, "crash" # "clean"
  <2> QED
    BY <1>2, <2>1, <2>2, <2>3
<1> USE DEF SbInv, Types, Word, Flag, FcStage, ShutStage, Unmarked, NoFlagYet,
            QuietWhenOff, FlagStored, SomeFlag, RestrictedSurvives
<1> SUFFICES ASSUME SbInv, [Next]_vars PROVE SbInv'
  OBVIOUS
<1>3. CASE ColdBoot
  BY <1>3, SMT DEF ColdBoot, memory, Graceful, Restricted
<1>4. CASE SuperblkInit
  BY <1>4, SMT DEF SuperblkInit, Graceful, Restricted
<1>5. CASE BootAborts \/ Recovered \/ Checkpoint
  BY <1>5, SMT DEF BootAborts, Recovered, Checkpoint, memory, Graceful, Restricted
<1>6. CASE IoBegin \/ CreateBegin \/ RequestEnd
  BY <1>6, SMT DEF IoBegin, CreateBegin, RequestEnd, Graceful, Restricted
<1>7. CASE ShutdownStart \/ DoShutdown \/ CancelTimer
  BY <1>7, SMT DEF ShutdownStart, DoShutdown, CancelTimer, Graceful, Restricted
<1>8. CASE SetGraceful
  BY <1>8, SMT DEF SetGraceful, Graceful, Restricted
<1>9. CASE ShutdownWrite
  BY <1>9, SMT DEF ShutdownWrite, Graceful, Restricted
<1>10. CASE FcLoad
  BY <1>10, SMT DEF FcLoad, Graceful, Restricted
<1>11. CASE FcSetFlag
  BY <1>11, SMT DEF FcSetFlag, Graceful, Restricted
<1>12. CASE FcRestrict
  BY <1>12, SMT DEF FcRestrict, Graceful, Restricted
<1>13. CASE FcWrite
  BY <1>13, SMT DEF FcWrite, Idle, Graceful, Restricted
<1>14. CASE UNCHANGED vars
  BY <1>14, SMT DEF vars, Graceful, Restricted
<1> QED
  BY <1>1, <1>2, <1>3, <1>4, <1>5, <1>6, <1>7, <1>8, <1>9, <1>10, <1>11, <1>12, <1>13, <1>14
     DEF Next

(* The invariant holds in every life of the process. *)
LEMMA FlagsCorrect == Spec => []SbInv
  BY FlagInit, FlagStep, PTL DEF Spec

(* Restricted mode outlives any number of crashes, until a graceful shutdown *)
(* has stored its own flag.                                                  *)
THEOREM RestrictedCorrect == Spec => []RestrictedSurvives
<1>1. SbInv => RestrictedSurvives
  BY DEF SbInv
<1> QED
  BY <1>1, FlagsCorrect, PTL

(* A shutdown that ran to its end is never taken for a crash, although it    *)
(* sets its flag without the lock and fault containment may run beside it.   *)
THEOREM CleanExitCorrect == Spec => []CleanExitRecorded
<1>1. SbInv => CleanExitRecorded
  BY SMT DEF SbInv, Types, Word, Flag, SomeFlag, CleanExitRecorded, Graceful, Restricted
<1> QED
  BY <1>1, FlagsCorrect, PTL
=============================================================================
