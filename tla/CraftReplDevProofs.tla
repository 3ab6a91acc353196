-------------------------- MODULE CraftReplDevProofs --------------------------
(***************************************************************************)
(* Proofs about CraftReplDev, for every number of writers and blocks, every *)
(* LSN width, every gap and capacity limit and every bound.                 *)
(***************************************************************************)
EXTENDS CraftReplDev, TLAPS

(* The dLSNs that Guard 1 admits are int64 values. *)
LEMMA SlotRange == /\ Slot \subseteq Lsn
                   /\ \A l \in Slot : l \in Int /\ 0 <= l
                   /\ \A l \in Lsn : l \in Int /\ 0 <= l
                   /\ -1 \notin Lsn
  BY WidthAssumption, SMT DEF Slot, Lsn

(* The pre-flight only lets through a dLSN in range, not verdicted Empty,    *)
(* that is above the watermark or missing, and at the current term.          *)
LEMMA AdmittedVerdict ==
  ASSUME NEW t, NEW d \in Lsn, Verdict(t, d) = "append"
  PROVE  d \in Slot /\ t = term /\ d \notin empty_lsns /\ ~Written(d)
  BY WidthAssumption, SMT DEF Verdict, Slot, Lsn, BeyondLsnRange

(* Every variable keeps its type: in particular the watermark and every      *)
(* missing slot stay within the range Guard 1 allows, so the gap arithmetic  *)
(* of write() never leaves int64.                                            *)
THEOREM TypeCorrect == Spec => []TypeOK
<1> USE SlotRange DEF TypeOK, Lsn
<1>1. Init => TypeOK
  BY WidthAssumption, LimitAssumption DEF Init, Term, Stage, Request, NoRequest, Reply, Error
<1>2. TypeOK /\ [Next]_vars => TypeOK'
  <2> SUFFICES ASSUME TypeOK, [Next]_vars PROVE TypeOK'
    OBVIOUS
  <2>1. CASE UNCHANGED vars
    BY <2>1 DEF vars, Present
  <2>2. ASSUME NEW w \in Writer, MayWrite, Write(w)
        PROVE  TypeOK'
    <3>1. ASSUME NEW r \in Reply, Finish(w, r)
          PROVE  /\ pc' \in [Writer -> Stage]
                 /\ req' \in [Writer -> Request]
                 /\ reply' \in [Writer -> Reply]
      BY <3>1, LimitAssumption DEF Finish, Stage, Request, NoRequest, Term
    <3>2. \A c \in ErrorCode : Error(c) \in Reply
      BY DEF Error, Reply
    <3>3. \A d \in Lsn : Ok(d) \in Reply
      BY DEF Ok, Reply
    <3>4. ASSUME NEW d \in Lsn \cup {-1}, NEW z \in BOOLEAN, NEW h \in BOOLEAN,
                 WriteMalformed(w, d, z, h)
          PROVE  TypeOK'
      BY <3>1, <3>2, <3>4 DEF WriteMalformed, ErrorCode, partition
    <3>5. ASSUME NEW t \in Term, NEW d \in Lsn, WriteRejected(w, t, d)
          PROVE  TypeOK'
      BY <3>1, <3>2, <3>5 DEF WriteRejected, partition
    <3>6. ASSUME NEW t \in Term, NEW d \in Lsn, WriteIdempotent(w, t, d)
          PROVE  TypeOK'
      BY <3>1, <3>3, <3>6 DEF WriteIdempotent, partition
    <3>7. ASSUME NEW t \in Term, NEW d \in Lsn, NEW z \in BOOLEAN,
                 WriteAdmitted(w, t, d, z)
          PROVE  TypeOK'
      <4>1. d \in Slot
        BY <3>7, AdmittedVerdict DEF WriteAdmitted
      <4>2. last_append_lsn' \in Slot \cup {-1}
        BY <3>7, <4>1 DEF WriteAdmitted, Max2
      <4>3. missing_lsns' \subseteq Slot
        BY <3>7, <4>1, WidthAssumption DEF WriteAdmitted, NewMissing, Slot
      <4>4. /\ pc' \in [Writer -> Stage]
            /\ req' \in [Writer -> Request]
        BY <3>7 DEF WriteAdmitted, Stage, Request
      <4>5. reply' \in [Writer -> Reply]
        BY <3>7 DEF WriteAdmitted, Error, Reply
      <4> QED BY <3>7, <4>2, <4>3, <4>4, <4>5 DEF WriteAdmitted
    <3> QED BY <2>2, <3>4, <3>5, <3>6, <3>7 DEF Write
  <2>3. ASSUME NEW w \in Writer, WriteResumes(w)
        PROVE  TypeOK'
    <3>1. ASSUME NEW r \in Reply, Finish(w, r)
          PROVE  /\ pc' \in [Writer -> Stage]
                 /\ req' \in [Writer -> Request]
                 /\ reply' \in [Writer -> Reply]
      BY <3>1, LimitAssumption DEF Finish, Stage, Request, NoRequest, Term
    <3>2. \A c \in ErrorCode : Error(c) \in Reply
      BY DEF Error, Reply
    <3>3. ASSUME NEW b \in Block, AllocData(w, b) PROVE TypeOK'
      BY <3>3 DEF AllocData, partition, Stage, Request
    <3>4. CASE AllocFails(w)
      BY <3>1, <3>2, <3>4 DEF AllocFails, partition, ErrorCode
    <3>5. CASE SlotDurable(w)
      BY <3>5 DEF SlotDurable, partition, Stage, Request, Entry
    <3>6. CASE SlotRejected(w)
      BY <3>1, <3>2, <3>6 DEF SlotRejected, partition, Stage, ErrorCode
    <3>7. CASE CompletionLost(w)
      BY <3>7 DEF CompletionLost, partition, Stage
    <3>8. CASE FreeData(w)
      BY <3>1, <3>2, <3>8 DEF FreeData, partition, ErrorCode
    <3>9. CASE PostFlightStale(w)
      BY <3>1, <3>2, <3>9 DEF PostFlightStale, partition, ErrorCode
    <3>10. CASE PostFlightAck(w)
      <4>1. Ok(req[w].dlsn) \in Reply
        BY DEF Ok, Reply, Request
      <4> QED BY <3>1, <3>10, <4>1 DEF PostFlightAck
    <3> QED BY <2>3, <3>3, <3>4, <3>5, <3>6, <3>7, <3>8, <3>9, <3>10 DEF WriteResumes
  <2>4. ASSUME NEW l \in Slot \cup {-1}, TruncateJournal(l)
        PROVE  TypeOK'
    BY <2>4 DEF TruncateJournal, partition, calls
  <2>5. CASE TruncateState
    BY <2>5 DEF TruncateState, Min2, calls
  <2>6. ASSUME NEW n \in 1 .. MaxFetch, NEW lsns \in [1 .. n -> Slot], FetchBegin(lsns)
        PROVE  TypeOK'
    <3>1. lsns \in Seq(Slot)
      BY LimitAssumption
    <3> QED BY <2>6, <3>1 DEF FetchBegin, partition, calls
  <2>7. CASE FetchSkips \/ FetchPresent \/ FetchRead \/ FetchEnd
    <3>1. CASE FetchSkips
      BY <3>1 DEF FetchSkips, partition, calls
    <3>2. CASE FetchPresent
      BY <3>2 DEF FetchPresent, partition, calls
    <3>3. CASE FetchRead
      BY <3>3 DEF FetchRead, partition, calls
    <3>4. CASE FetchEnd
      BY <3>4 DEF FetchEnd, partition, calls
    <3> QED BY <2>7, <3>1, <3>2, <3>3, <3>4
  <2>8. ASSUME NEW t \in Term, SeedTerm(t) PROVE TypeOK'
    BY <2>8 DEF SeedTerm, calls
  <2>9. ASSUME NEW c \in Slot, SeedCommitLsn(c) PROVE TypeOK'
    BY <2>9 DEF SeedCommitLsn, calls
  <2>10. ASSUME NEW E \in SUBSET Slot, SeedEmpty(E) PROVE TypeOK'
    BY <2>10 DEF SeedEmpty, calls
  <2> QED BY <2>1, <2>2, <2>3, <2>4, <2>5, <2>6, <2>7, <2>8, <2>9, <2>10 DEF Next
<1> QED BY <1>1, <1>2, PTL DEF Spec

-----------------------------------------------------------------------------
(* The watermark covers every write in flight. *)
InFlightCovered ==
    \A w \in Writer : InFlight(w) => /\ req[w].dlsn \in Slot
                                     /\ req[w].dlsn <= last_append_lsn
(* A write that resumes from write_slot finds its entry in the journal. *)
ResumedIsDurable ==
    \A w \in Writer : pc[w] = "durable" => journal[req[w].dlsn] # NoEntry
(* No write is in flight while truncate() is between its two steps, so the   *)
(* entries it dropped stay dropped.                                          *)
TruncatesQuiesced ==
    trunc.busy => /\ Quiesced
                  /\ \A l \in Lsn : l > trunc.lsn => journal[l] = NoEntry

(* PresentIsDurable alone is not inductive: the ack of a write relies on its *)
(* entry still being there, and the rollback of truncate() on nobody else    *)
(* being between two steps.                                                  *)
DurableInv == /\ InFlightCovered
              /\ ResumedIsDurable
              /\ TruncatesQuiesced
              /\ InFlightAtTerm
              /\ NoGhostTail
              /\ PresentIsDurable

(* DurableInv is inductive when the caller serialises login against writes:  *)
(* every step of write(), truncate(), fetch_data() and of the mutators keeps *)
(* it.                                                                       *)
LEMMA DurableStep ==
  ASSUME Serialised, TypeOK, TypeOK', DurableInv, [Next]_vars
  PROVE  DurableInv'
<1> USE SlotRange DEF TypeOK, DurableInv, InFlightCovered, ResumedIsDurable,
        TruncatesQuiesced, Quiesced, InFlightAtTerm, NoGhostTail, PresentIsDurable,
        Present, Written, InFlight
<1>1. CASE UNCHANGED vars
  BY <1>1 DEF vars
<1>2. ASSUME NEW w \in Writer, MayWrite, Write(w)
      PROVE  DurableInv'
  <2>1. ~trunc.busy
    BY <1>2 DEF MayWrite
  <2>2. ASSUME NEW d \in Lsn \cup {-1}, NEW z \in BOOLEAN, NEW h \in BOOLEAN,
               WriteMalformed(w, d, z, h)
        PROVE  DurableInv'
    BY <2>2 DEF WriteMalformed, Finish, partition
  <2>3. ASSUME NEW t \in Term, NEW d \in Lsn,
               WriteRejected(w, t, d) \/ WriteIdempotent(w, t, d)
        PROVE  DurableInv'
    <3>1. CASE WriteRejected(w, t, d)
      BY <3>1 DEF WriteRejected, Finish, partition
    <3>2. CASE WriteIdempotent(w, t, d)
      BY <3>2 DEF WriteIdempotent, Finish, partition
    <3> QED BY <2>3, <3>1, <3>2
  <2>4. ASSUME NEW t \in Term, NEW d \in Lsn, NEW z \in BOOLEAN,
               WriteAdmitted(w, t, d, z)
        PROVE  DurableInv'
    <3>1. d \in Slot /\ t = term /\ d \notin empty_lsns /\ ~Written(d)
      BY <2>4, AdmittedVerdict DEF WriteAdmitted
    <3>2. /\ last_append_lsn' >= last_append_lsn /\ last_append_lsn' >= d
          /\ last_append_lsn' = d \/ last_append_lsn' = last_append_lsn
      BY <2>4 DEF WriteAdmitted, Max2
    <3>3. InFlightCovered' /\ ResumedIsDurable' /\ TruncatesQuiesced' /\ InFlightAtTerm'
      BY <2>1, <2>4, <3>1, <3>2 DEF WriteAdmitted
    <3>4. NoGhostTail'
      BY <2>4, <3>2 DEF WriteAdmitted
    <3>5. PresentIsDurable'
      <4> SUFFICES ASSUME NEW l \in Slot, Present(l)'
                   PROVE  journal'[l] # NoEntry
        BY <2>1, <2>4 DEF WriteAdmitted
      <4>1. l # d
        BY <2>4 DEF WriteAdmitted, NewMissing
      <4>2. l <= last_append_lsn
        BY <2>4, <3>2, <4>1 DEF WriteAdmitted, NewMissing
      <4> QED BY <2>1, <2>4, <4>2 DEF WriteAdmitted
    <3> QED BY <3>3, <3>4, <3>5
  <2> QED BY <1>2, <2>2, <2>3, <2>4, SMTT(30) DEF Write
<1>3. ASSUME NEW w \in Writer, WriteResumes(w)
      PROVE  DurableInv'
  <2>1. ASSUME NEW b \in Block, AllocData(w, b) PROVE DurableInv'
    BY <2>1 DEF AllocData, partition
  <2>2. CASE AllocFails(w)
    BY <2>2 DEF AllocFails, Finish, partition
  <2>3. CASE SlotDurable(w)
    <3>1. /\ ~trunc.busy
          /\ req[w].dlsn \in Slot /\ req[w].dlsn <= last_append_lsn
      BY <2>3 DEF SlotDurable
    <3>2. \A l \in Lsn : /\ l # req[w].dlsn => journal'[l] = journal[l]
                         /\ l = req[w].dlsn => journal'[l] # NoEntry
      BY <2>3, <3>1, NoEntryAssumption DEF SlotDurable, Entry, Request
    <3> QED BY <2>3, <3>1, <3>2 DEF SlotDurable, partition
  <2>4. CASE SlotRejected(w) \/ CompletionLost(w) \/ FreeData(w) \/ PostFlightStale(w)
    <3>1. CASE SlotRejected(w)
      <4>1. CASE req[w].all_zeros
        BY <3>1, <4>1, ZenonT(40) DEF SlotRejected, Finish, partition
      <4>2. CASE ~req[w].all_zeros
        BY <3>1, <4>2 DEF SlotRejected, partition
      <4> QED BY <4>1, <4>2
    <3>2. CASE CompletionLost(w)
      BY <3>2 DEF CompletionLost, partition
    <3>3. CASE FreeData(w)
      BY <3>3 DEF FreeData, Finish, partition
    <3>4. CASE PostFlightStale(w)
      BY <3>4 DEF PostFlightStale, Finish, partition
    <3> QED BY <2>4, <3>1, <3>2, <3>3, <3>4
  <2>5. CASE PostFlightAck(w)
    BY <2>5 DEF PostFlightAck, Finish
  <2> QED BY <1>3, <2>1, <2>2, <2>3, <2>4, <2>5 DEF WriteResumes
<1>4. ASSUME NEW l \in Slot \cup {-1}, MayTruncate, TruncateJournal(l)
      PROVE  DurableInv'
  BY <1>4 DEF MayTruncate, TruncateJournal, partition, calls
<1>5. CASE TruncateState
  <2>1. Quiesced
    BY <1>5 DEF TruncateState
  <2>2. \A l \in Lsn : l > trunc.lsn => journal[l] = NoEntry
    BY <1>5 DEF TruncateState
  <2> QED BY <1>5, <2>1, <2>2 DEF TruncateState, Min2, calls
<1>6. ASSUME NEW lsns, FetchBegin(lsns)
      PROVE  DurableInv'
  BY <1>6 DEF FetchBegin, partition, calls
<1>7. CASE FetchSkips \/ FetchPresent \/ FetchRead \/ FetchEnd
  BY <1>7 DEF FetchSkips, FetchPresent, FetchRead, FetchEnd, partition, calls
<1>8. ASSUME NEW t \in Term, MayChangeTerm, SeedTerm(t)
      PROVE  DurableInv'
  BY <1>8 DEF MayChangeTerm, SeedTerm, calls
<1>9. ASSUME NEW c \in Slot, SeedCommitLsn(c)
      PROVE  DurableInv'
  BY <1>9 DEF SeedCommitLsn, calls
<1>10. ASSUME NEW E \in SUBSET Slot, MayVerdict(E), SeedEmpty(E)
       PROVE  DurableInv'
  BY <1>10 DEF MayVerdict, SeedEmpty, calls
<1> QED BY <1>1, <1>2, <1>3, <1>4, <1>5, <1>6, <1>7, <1>8, <1>9, <1>10 DEF Next

(* The strengthened invariant holds throughout: what the replica reports as  *)
(* held is durable, the journal ends at the watermark, and what is in flight *)
(* is at the current term.                                                   *)
THEOREM DurableCorrect == ASSUME Serialised PROVE Spec => []DurableInv
<1>1. Init => DurableInv
  BY SlotRange DEF Init, DurableInv, InFlightCovered, ResumedIsDurable, TruncatesQuiesced,
     InFlightAtTerm, NoGhostTail, PresentIsDurable, Present, Written, InFlight, Lsn, Slot
<1>2. TypeOK /\ TypeOK' /\ DurableInv /\ [Next]_vars => DurableInv'
  BY DurableStep
<1> QED BY <1>1, <1>2, TypeCorrect, PTL DEF Spec

(* Under the login serialisation, a slot the replica reports as held is in   *)
(* the journal, for every interleaving of writes, failures and retries.      *)
THEOREM PresentDurable == ASSUME Serialised PROVE Spec => []PresentIsDurable
<1>1. DurableInv => PresentIsDurable
  BY DEF DurableInv
<1> QED BY <1>1, DurableCorrect, PTL

(* Under the login serialisation, no journal entry lies above the watermark. *)
THEOREM NoGhostTailCorrect == ASSUME Serialised PROVE Spec => []NoGhostTail
<1>1. DurableInv => NoGhostTail
  BY DEF DurableInv
<1> QED BY <1>1, DurableCorrect, PTL

(* Under the login serialisation, the post-flight stale branch is dead code. *)
THEOREM StaleBranchDead == ASSUME Serialised PROVE Spec => []InFlightAtTerm
<1>1. DurableInv => InFlightAtTerm
  BY DEF DurableInv
<1> QED BY <1>1, DurableCorrect, PTL

-----------------------------------------------------------------------------
(* missing_lsns is exact with respect to the watermark and the verdicts,     *)
(* whatever the caller does: no serialisation is assumed.                    *)
THEOREM MissingCorrect == Spec => []MissingSound
<1> USE SlotRange DEF TypeOK, MissingSound
<1>1. Init => MissingSound
  BY DEF Init
<1>2. TypeOK /\ MissingSound /\ [Next]_vars => MissingSound'
  <2> SUFFICES ASSUME TypeOK, MissingSound, [Next]_vars PROVE MissingSound'
    OBVIOUS
  <2>1. CASE UNCHANGED vars
    BY <2>1 DEF vars
  <2>2. ASSUME NEW w \in Writer, Write(w)
        PROVE  MissingSound'
    <3>1. ASSUME NEW t \in Term, NEW d \in Lsn, NEW z \in BOOLEAN,
                 WriteAdmitted(w, t, d, z)
          PROVE  MissingSound'
      <4>1. d \in Slot /\ d \notin empty_lsns
        BY <3>1, AdmittedVerdict DEF WriteAdmitted
      <4>2. /\ last_append_lsn' \in Int
            /\ last_append_lsn' >= last_append_lsn /\ last_append_lsn' >= d
        BY <3>1, <4>1 DEF WriteAdmitted, Max2
      <4>3. \A l \in NewMissing(d) : l \in Int /\ l <= d /\ l \notin empty_lsns
        BY <4>1 DEF NewMissing
      <4>4. empty_lsns' = empty_lsns /\ missing_lsns' = missing_lsns \cup NewMissing(d)
        BY <3>1 DEF WriteAdmitted
      <4>5. ASSUME NEW l \in missing_lsns'
            PROVE  l <= last_append_lsn' /\ l \notin empty_lsns'
        <5>1. CASE l \in missing_lsns
          <6>1. l \in Int /\ l <= last_append_lsn /\ l \notin empty_lsns
            BY <5>1
          <6> QED BY <4>2, <4>4, <6>1
        <5>2. CASE l \in NewMissing(d)
          BY <4>1, <4>2, <4>3, <4>4, <5>2
        <5> QED BY <4>4, <5>1, <5>2
      <4> QED BY <4>5
    <3> QED BY <2>2, <3>1 DEF Write, WriteMalformed, WriteRejected, WriteIdempotent, partition
  <2>3. ASSUME NEW w \in Writer, WriteResumes(w)
        PROVE  MissingSound'
    BY <2>3 DEF WriteResumes, AllocData, AllocFails, SlotDurable, SlotRejected,
       CompletionLost, FreeData, PostFlightStale, PostFlightAck, partition
  <2>4. ASSUME NEW l \in Slot \cup {-1}, TruncateJournal(l)
        PROVE  MissingSound'
    BY <2>4 DEF TruncateJournal, partition
  <2>5. CASE TruncateState
    BY <2>5 DEF TruncateState, Min2
  <2>6. ASSUME NEW lsns, FetchBegin(lsns)
        PROVE  MissingSound'
    BY <2>6 DEF FetchBegin, partition
  <2>7. CASE FetchSkips \/ FetchPresent \/ FetchRead \/ FetchEnd
    BY <2>7 DEF FetchSkips, FetchPresent, FetchRead, FetchEnd, partition
  <2>8. ASSUME NEW t \in Term, SeedTerm(t) PROVE MissingSound'
    BY <2>8 DEF SeedTerm
  <2>9. ASSUME NEW c \in Slot, SeedCommitLsn(c) PROVE MissingSound'
    BY <2>9 DEF SeedCommitLsn
  <2>10. ASSUME NEW E \in SUBSET Slot, SeedEmpty(E) PROVE MissingSound'
    BY <2>10 DEF SeedEmpty
  <2> QED BY <2>1, <2>2, <2>3, <2>4, <2>5, <2>6, <2>7, <2>8, <2>9, <2>10 DEF Next
<1> QED BY <1>1, <1>2, TypeCorrect, PTL DEF Spec

-----------------------------------------------------------------------------
(* A write that holds a block nobody else may refer to. *)
Owner(w) == pc[w] \in {"append", "free"} /\ req[w].blk # NoBlock

(* Blocks in flight are allocated, exclusive, and not yet in the journal. *)
BlocksOwned ==
    /\ \A w \in Writer : Owner(w) => req[w].blk \in allocated
    /\ \A w \in Writer, l \in Lsn :
           Owner(w) /\ journal[l] # NoEntry => journal[l].blk # req[w].blk
    /\ \A v, w \in Writer : v # w /\ Owner(v) /\ Owner(w) => req[v].blk # req[w].blk

BlocksInv == JournalBlocksHeld /\ BlocksOwned

(* Guard 3 never locks the replica out: whatever was appended, lost, cut or  *)
(* verdicted, a missing slot and the next slot in order are always admitted. *)
THEOREM GapFillCorrect == Spec => []GapFillAdmitted
<1>1. TypeOK /\ MissingSound => GapFillAdmitted
  <2> SUFFICES ASSUME TypeOK, MissingSound,
                      NEW l \in missing_lsns \cup {last_append_lsn + 1},
                      l \in Slot \ empty_lsns
               PROVE  Verdict(term, l) = "append"
    BY DEF GapFillAdmitted
  <2>1. last_append_lsn \in Int /\ l \in Int /\ l <= last_append_lsn + 1
    BY SlotRange, SMT DEF TypeOK, MissingSound
  <2>2. ~Written(l)
    BY <2>1, SMT DEF Written
  <2>3. ~BeyondLsnRange(l) /\ ~GapTooWide(l) /\ ~MissingAtCapacity(l)
    BY <2>1, WidthAssumption, SMT
       DEF BeyondLsnRange, GapTooWide, MissingAtCapacity, Slot
  <2> QED
    BY <2>2, <2>3 DEF Verdict
<1> QED
  BY <1>1, TypeCorrect, MissingCorrect, PTL


(* The block ownership invariant is inductive: allocation, append, failure   *)
(* and free_data each keep every journal entry on blocks of its own.         *)
LEMMA BlocksStep ==
  ASSUME TypeOK, TypeOK', BlocksInv, [Next]_vars
  PROVE  BlocksInv'
<1> USE DEF BlocksInv, JournalBlocksHeld, BlocksOwned, Owner
<1>1. CASE UNCHANGED vars
  BY <1>1 DEF vars
<1>2. ASSUME NEW w \in Writer, Write(w)
      PROVE  BlocksInv'
  <2>1. /\ UNCHANGED <<journal, allocated>>
        /\ \A v \in Writer : Owner(v)' => Owner(v) /\ req'[v] = req[v]
    BY <1>2 DEF Write, WriteMalformed, WriteRejected, WriteIdempotent, WriteAdmitted,
       Finish, NoRequest, TypeOK
  <2> QED BY <2>1
<1>3. ASSUME NEW w \in Writer, WriteResumes(w)
      PROVE  BlocksInv'
  <2>1. ASSUME NEW b \in Block, AllocData(w, b) PROVE BlocksInv'
    <3>1. /\ journal' = journal /\ allocated' = allocated \cup {b} /\ b \notin allocated
          /\ req'[w].blk = b
          /\ \A v \in Writer : v # w => Owner(v)' = Owner(v) /\ req'[v] = req[v]
      BY <2>1 DEF AllocData, TypeOK
    <3>2. JournalBlocksHeld'
      BY <3>1
    <3>3. BlocksOwned'
      <4>1. \A l \in Lsn : journal[l] # NoEntry => journal[l].blk # b
        BY <3>1, NoBlockAssumption
      <4>2. \A v \in Writer : v # w /\ Owner(v) => req[v].blk # b
        BY <3>1
      <4> QED BY <3>1, <4>1, <4>2
    <3> QED BY <3>2, <3>3
  <2>2. CASE AllocFails(w) \/ CompletionLost(w) \/ PostFlightStale(w)
             \/ PostFlightAck(w) \/ SlotRejected(w)
    <3>1. UNCHANGED <<journal, allocated>>
      BY <2>2 DEF AllocFails, CompletionLost, PostFlightStale, PostFlightAck, SlotRejected
    <3>2. \A v \in Writer : Owner(v)' => Owner(v) /\ req'[v] = req[v]
      BY <2>2 DEF AllocFails, CompletionLost, PostFlightStale, PostFlightAck, SlotRejected,
         Finish, NoRequest, TypeOK
    <3> QED BY <3>1, <3>2
  <2>3. CASE SlotDurable(w)
    <3>1. /\ UNCHANGED <<allocated, req>> /\ ~Owner(w)'
          /\ \A v \in Writer : v # w => Owner(v)' = Owner(v)
      BY <2>3 DEF SlotDurable, TypeOK
    <3>2. \A l \in Lsn : \/ journal'[l] = journal[l]
                         \/ l = req[w].dlsn /\ journal'[l].blk = req[w].blk
      BY <2>3 DEF SlotDurable, TypeOK
    <3>3. req[w].blk # NoBlock => Owner(w)
      BY <2>3 DEF SlotDurable
    <3>4. JournalBlocksHeld'
      BY <3>1, <3>2, <3>3
    <3>5. BlocksOwned'
      BY <3>1, <3>2, <3>3
    <3> QED BY <3>4, <3>5
  <2>4. CASE FreeData(w)
    <3>1. /\ journal' = journal /\ ~Owner(w)'
          /\ \A b \in allocated : b # req[w].blk => b \in allocated'
          /\ \A v \in Writer : v # w => Owner(v)' = Owner(v) /\ req'[v] = req[v]
      BY <2>4 DEF FreeData, Finish, TypeOK
    <3>2. req[w].blk # NoBlock => Owner(w)
      BY <2>4 DEF FreeData
    <3> QED BY <3>1, <3>2
  <2> QED BY <1>3, <2>1, <2>2, <2>3, <2>4 DEF WriteResumes
<1>4. ASSUME NEW l \in Slot \cup {-1}, TruncateJournal(l)
      PROVE  BlocksInv'
  <2>1. /\ UNCHANGED <<allocated, pc, req>>
        /\ \A k \in Lsn : journal'[k] # NoEntry => journal'[k] = journal[k]
    BY <1>4 DEF TruncateJournal, calls, TypeOK
  <2> QED BY <2>1
<1>5. CASE TruncateState
  BY <1>5 DEF TruncateState, calls
<1>6. ASSUME NEW lsns, FetchBegin(lsns)
      PROVE  BlocksInv'
  BY <1>6 DEF FetchBegin, calls
<1>7. CASE FetchSkips \/ FetchPresent \/ FetchRead \/ FetchEnd
  BY <1>7 DEF FetchSkips, FetchPresent, FetchRead, FetchEnd, calls
<1>8. ASSUME NEW t \in Term, SeedTerm(t) PROVE BlocksInv'
  BY <1>8 DEF SeedTerm, calls
<1>9. ASSUME NEW c \in Slot, SeedCommitLsn(c) PROVE BlocksInv'
  BY <1>9 DEF SeedCommitLsn, calls
<1>10. ASSUME NEW E \in SUBSET Slot, SeedEmpty(E) PROVE BlocksInv'
  BY <1>10 DEF SeedEmpty, calls
<1> QED BY <1>1, <1>2, <1>3, <1>4, <1>5, <1>6, <1>7, <1>8, <1>9, <1>10 DEF Next

(* No journal entry ever refers to a freed or shared block, whatever the     *)
(* caller does: free_data after a refused append, and the deliberate lack of *)
(* it after a stale one, are both right.  No serialisation is assumed.       *)
THEOREM BlocksCorrect == Spec => []JournalBlocksHeld
<1>1. Init => BlocksInv
  BY DEF Init, BlocksInv, JournalBlocksHeld, BlocksOwned, Owner
<1>2. TypeOK /\ TypeOK' /\ BlocksInv /\ [Next]_vars => BlocksInv'
  BY BlocksStep
<1>3. BlocksInv => JournalBlocksHeld
  BY DEF BlocksInv
<1> QED BY <1>1, <1>2, <1>3, TypeCorrect, PTL DEF Spec
=============================================================================
