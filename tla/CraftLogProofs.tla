---------------------------- MODULE CraftLogProofs ----------------------------
(***************************************************************************)
(* What the CRAFT replica promises its callers, proved for every value of   *)
(* the constants: acks cover their write, fetch_data serves only what it    *)
(* holds, the committed prefix is never lost, and the replica implements    *)
(* the abstract SlotLog.  The proofs rest on the invariants of              *)
(* CraftReplDevProofs.                                                      *)
(***************************************************************************)
EXTENDS CraftReplDevProofs

(* The commit watermark never passes the append watermark. *)
CommitAppended == commit_lsn <= last_append_lsn
(* No slot of the committed prefix is recorded as missing. *)
CommittedNotMissing == \A l \in missing_lsns : l > commit_lsn
(* A truncate() in progress cuts at or above the commit watermark. *)
TruncAboveCommit == trunc.busy => trunc.lsn >= commit_lsn

(* CommittedPrefixHeld is not inductive: that the prefix stays in the        *)
(* journal rests on no write re-opening a committed slot and on the target   *)
(* of a truncate() that already dropped its entries.                         *)
CommitInv == CommitAppended /\ CommittedNotMissing /\ TruncAboveCommit

(* A write that is admitted names a slot above the watermark or one that is  *)
(* missing, and whatever it newly records as missing is above the watermark. *)
LEMMA NewMissingAbove ==
  ASSUME TypeOK, NEW d \in Slot, ~Written(d), NEW l \in NewMissing(d)
  PROVE  l \in Int /\ (l \in missing_lsns \/ l > last_append_lsn)
  BY SlotRange DEF TypeOK, NewMissing, Written

(* CommitInv is inductive, whatever the caller serialises: the guard of      *)
(* truncate() and the pre-flight of write() are enough.                      *)
LEMMA CommitStep ==
  ASSUME TypeOK, TypeOK', CommitInv, [Next]_vars
  PROVE  CommitInv'
<1> USE SlotRange DEF TypeOK, CommitInv, CommitAppended, CommittedNotMissing, TruncAboveCommit
<1>1. CASE UNCHANGED vars
  BY <1>1 DEF vars
<1>2. ASSUME NEW w \in Writer, Write(w)
      PROVE  CommitInv'
  <2>1. ASSUME NEW t \in Term, NEW d \in Lsn, NEW z \in BOOLEAN, WriteAdmitted(w, t, d, z)
        PROVE  CommitInv'
    <3>1. d \in Slot /\ ~Written(d)
      BY <2>1, AdmittedVerdict DEF WriteAdmitted
    <3>2. last_append_lsn' >= last_append_lsn
      BY <2>1, <3>1 DEF WriteAdmitted, Max2
    <3>3. \A l \in missing_lsns' : l > commit_lsn
      BY <2>1, <3>1, NewMissingAbove DEF WriteAdmitted
    <3> QED BY <2>1, <3>2, <3>3 DEF WriteAdmitted
  <2> QED BY <1>2, <2>1 DEF Write, WriteMalformed, WriteRejected, WriteIdempotent, partition
<1>3. ASSUME NEW w \in Writer, WriteResumes(w)
      PROVE  CommitInv'
  BY <1>3 DEF WriteResumes, AllocData, AllocFails, SlotDurable, SlotRejected,
     CompletionLost, FreeData, PostFlightStale, PostFlightAck, partition
<1>4. ASSUME NEW l \in Slot \cup {-1}, TruncateJournal(l)
      PROVE  CommitInv'
  BY <1>4 DEF TruncateJournal, partition
<1>5. CASE TruncateState
  BY <1>5 DEF TruncateState, Min2
<1>6. ASSUME NEW lsns, FetchBegin(lsns)
      PROVE  CommitInv'
  BY <1>6 DEF FetchBegin, partition
<1>7. CASE FetchSkips \/ FetchPresent \/ FetchRead \/ FetchEnd
  BY <1>7 DEF FetchSkips, FetchPresent, FetchRead, FetchEnd, partition
<1>8. ASSUME NEW t \in Term, SeedTerm(t) PROVE CommitInv'
  BY <1>8 DEF SeedTerm
<1>9. ASSUME NEW c \in Slot, MayCommit(c), SeedCommitLsn(c) PROVE CommitInv'
  <2>1. \A l \in missing_lsns : l > c
    BY <1>9 DEF MayCommit
  <2> QED BY <1>9, <2>1 DEF SeedCommitLsn, MayCommit
<1>10. ASSUME NEW E \in SUBSET Slot, SeedEmpty(E) PROVE CommitInv'
  BY <1>10 DEF SeedEmpty
<1> QED BY <1>1, <1>2, <1>3, <1>4, <1>5, <1>6, <1>7, <1>8, <1>9, <1>10 DEF Next

(* The commit watermark stays below the append watermark and every cut, and  *)
(* nothing committed is ever recorded as missing again.  No serialisation is *)
(* assumed.                                                                  *)
THEOREM CommitCorrect == Spec => []CommitInv
<1>1. Init => CommitInv
  BY DEF Init, CommitInv, CommitAppended, CommittedNotMissing, TruncAboveCommit
<1>2. TypeOK /\ TypeOK' /\ CommitInv /\ [Next]_vars => CommitInv'
  BY CommitStep
<1> QED BY <1>1, <1>2, TypeCorrect, PTL DEF Spec

(* Under the login serialisation everything at or below commit_lsn is in the *)
(* journal or verdicted Empty, truncate() included: also between its journal *)
(* rollback and its clamp of the watermark.                                  *)
THEOREM CommittedPrefixCorrect == ASSUME Serialised PROVE Spec => []CommittedPrefixHeld
<1>1. TypeOK /\ DurableInv /\ CommitInv => CommittedPrefixHeld
  <2> SUFFICES ASSUME TypeOK, DurableInv, CommitInv, NEW l \in 0 .. commit_lsn
               PROVE  /\ l <= last_append_lsn
                      /\ journal[l] # NoEntry \/ l \in empty_lsns
    BY DEF CommittedPrefixHeld
  <2>1. commit_lsn \in Int /\ last_append_lsn \in Int
    BY SlotRange DEF TypeOK
  <2>2. l \in Slot /\ l <= last_append_lsn
    BY <2>1, WidthAssumption DEF TypeOK, CommitInv, CommitAppended, Slot
  <2>3. l \notin missing_lsns
    BY <2>1 DEF CommitInv, CommittedNotMissing
  <2>4. trunc.busy => l <= trunc.lsn
    <3>1. trunc.lsn \in Int
      BY SlotRange DEF TypeOK
    <3> QED BY <2>1, <3>1 DEF CommitInv, TruncAboveCommit
  <2> QED BY <2>2, <2>3, <2>4 DEF DurableInv, PresentIsDurable, Present, Written
<1> QED BY <1>1, TypeCorrect, DurableCorrect, CommitCorrect, PTL

-----------------------------------------------------------------------------
(* Every ack handed out so far covers the write it is for. *)
AcksCover ==
    \A w \in Writer : reply[w].status = "ok" => /\ reply[w].dlsn <= reply[w].last
                                                /\ reply[w].commit <= reply[w].last

(* Each reply is either the one already given, an error, or the watermarks   *)
(* of the critical section that acked a slot at or below last_append_lsn.    *)
LEMMA ReplyStep ==
  ASSUME Serialised, TypeOK, DurableInv, [Next]_vars, NEW v \in Writer
  PROVE  \/ reply'[v] = reply[v]
         \/ reply'[v].status # "ok"
         \/ \E d \in Lsn : d <= last_append_lsn /\ reply'[v] = Ok(d)
<1> USE SlotRange DEF TypeOK
<1>1. ASSUME NEW w \in Writer, Write(w)
      PROVE  \/ reply'[v] = reply[v]
             \/ reply'[v].status # "ok"
             \/ \E d \in Lsn : d <= last_append_lsn /\ reply'[v] = Ok(d)
  <2>1. ASSUME NEW d, NEW z, NEW h, WriteMalformed(w, d, z, h)
        PROVE  reply'[v] = reply[v] \/ reply'[v].status # "ok"
    BY <2>1 DEF WriteMalformed, Finish, Error
  <2>2. ASSUME NEW t, NEW d, WriteRejected(w, t, d)
        PROVE  reply'[v] = reply[v] \/ reply'[v].status # "ok"
    BY <2>2 DEF WriteRejected, Finish, Error, ErrorCode
  <2>3. ASSUME NEW t, NEW d \in Lsn, WriteIdempotent(w, t, d)
        PROVE  reply'[v] = reply[v] \/ (d <= last_append_lsn /\ reply'[v] = Ok(d))
    <3>1. Written(d)
      BY <2>3 DEF WriteIdempotent, Verdict
    <3> QED BY <2>3, <3>1 DEF WriteIdempotent, Finish, Written
  <2>4. ASSUME NEW t, NEW d, NEW z, WriteAdmitted(w, t, d, z)
        PROVE  reply'[v] = reply[v] \/ reply'[v].status # "ok"
    BY <2>4 DEF WriteAdmitted, Error
  <2> QED BY <1>1, <2>1, <2>2, <2>3, <2>4 DEF Write
<1>2. ASSUME NEW w \in Writer, WriteResumes(w)
      PROVE  \/ reply'[v] = reply[v]
             \/ reply'[v].status # "ok"
             \/ \E d \in Lsn : d <= last_append_lsn /\ reply'[v] = Ok(d)
  <2>1. CASE PostFlightAck(w)
    <3>1. req[w].dlsn \in Slot /\ req[w].dlsn <= last_append_lsn
      BY <2>1 DEF PostFlightAck, DurableInv, InFlightCovered, InFlight
    <3>2. reply'[v] = reply[v] \/ reply'[v] = Ok(req[w].dlsn)
      BY <2>1 DEF PostFlightAck, Finish
    <3> QED BY <3>1, <3>2
  <2>2. CASE ~PostFlightAck(w)
    <3>1. reply'[v] = reply[v] \/ reply'[v].status # "ok"
      BY <1>2, <2>2 DEF WriteResumes, AllocData, AllocFails, SlotDurable, SlotRejected,
         CompletionLost, FreeData, PostFlightStale, Finish, Error
    <3> QED BY <3>1
  <2> QED BY <2>1, <2>2
<1>3. CASE \/ UNCHANGED vars
           \/ \E l : TruncateJournal(l)
           \/ TruncateState
           \/ \E lsns : FetchBegin(lsns)
           \/ FetchSkips \/ FetchPresent \/ FetchRead \/ FetchEnd
           \/ \E t : SeedTerm(t)
           \/ \E c : SeedCommitLsn(c)
           \/ \E E : SeedEmpty(E)
  BY <1>3 DEF vars, calls, TruncateJournal, TruncateState, FetchBegin, FetchSkips,
     FetchPresent, FetchRead, FetchEnd, SeedTerm, SeedCommitLsn, SeedEmpty
<1> QED BY <1>1, <1>2, <1>3 DEF Next

(* Under the login serialisation every ack names a slot at or below the      *)
(* last_append_lsn it carries, and a commit_lsn at or below it too.          *)
THEOREM AckCorrect == ASSUME Serialised PROVE Spec => AckCoversWrite
<1>1. Init => AcksCover
  BY DEF Init, AcksCover, Error
<1>2. TypeOK /\ DurableInv /\ CommitInv /\ AcksCover /\ [Next]_vars => AcksCover'
  <2> SUFFICES ASSUME TypeOK, DurableInv, CommitInv, AcksCover, [Next]_vars,
                      NEW w \in Writer, reply'[w].status = "ok"
               PROVE  /\ reply'[w].dlsn <= reply'[w].last
                      /\ reply'[w].commit <= reply'[w].last
    BY DEF AcksCover
  <2>1. CASE reply'[w] = reply[w]
    BY <2>1 DEF AcksCover
  <2>2. ASSUME NEW d \in Lsn, d <= last_append_lsn, reply'[w] = Ok(d)
        PROVE  /\ reply'[w].dlsn <= reply'[w].last
               /\ reply'[w].commit <= reply'[w].last
    BY <2>2 DEF Ok, CommitInv, CommitAppended
  <2> QED BY <2>1, <2>2, ReplyStep
<1>3. AcksCover' => \A w \in Writer : reply'[w].status = "ok"
                                      => /\ reply'[w].dlsn <= reply'[w].last
                                         /\ reply'[w].commit <= reply'[w].last
  BY DEF AcksCover
<1> QED BY <1>1, <1>2, <1>3, TypeCorrect, DurableCorrect, CommitCorrect, PTL
        DEF Spec, AckCoversWrite

-----------------------------------------------------------------------------
(* Whatever fetch_data has classified or read is still in the journal; no    *)
(* truncate() runs beside it.                                                *)
FetchInv ==
    /\ fetch.stage # "idle" => ~trunc.busy
    /\ fetch.stage = "idle" => fetch.held = <<>>
    /\ FetchServesHeld

(* Every step but the rollback of truncate() keeps the entries of the journal.*)
LEMMA JournalGrows ==
  ASSUME TypeOK, [Next]_vars, ~ \E l \in Slot \cup {-1} : MayTruncate /\ TruncateJournal(l),
         NEW k \in Lsn, journal[k] # NoEntry
  PROVE  journal'[k] # NoEntry
<1>1. ASSUME NEW w \in Writer, WriteResumes(w)
      PROVE  journal'[k] # NoEntry
  <2>1. CASE SlotDurable(w)
    BY <2>1, NoEntryAssumption DEF SlotDurable, TypeOK, Request, Entry
  <2> QED BY <1>1, <2>1 DEF WriteResumes, AllocData, AllocFails, SlotRejected,
          CompletionLost, FreeData, PostFlightStale, PostFlightAck
<1>2. CASE \E w \in Writer : Write(w)
  BY <1>2 DEF Write, WriteMalformed, WriteRejected, WriteIdempotent, WriteAdmitted
<1> QED BY <1>1, <1>2 DEF Next, vars, TruncateState, FetchBegin, FetchSkips, FetchPresent,
        FetchRead, FetchEnd, SeedTerm, SeedCommitLsn, SeedEmpty

(* FetchInv is inductive when truncate() is not run beside a fetch_data.     *)
LEMMA FetchStep ==
  ASSUME Serialised, TypeOK, TypeOK', DurableInv, FetchInv, [Next]_vars
  PROVE  FetchInv'
<1> USE SlotRange
<1>1. ASSUME NEW l \in Slot \cup {-1}, MayTruncate, TruncateJournal(l)
      PROVE  FetchInv'
  BY <1>1 DEF MayTruncate, TruncateJournal, FetchInv, FetchServesHeld
<1>2. CASE ~ \E l \in Slot \cup {-1} : MayTruncate /\ TruncateJournal(l)
  <2>1. \A k \in Lsn : journal[k] # NoEntry => journal'[k] # NoEntry
    BY <1>2, JournalGrows
  <2>2. /\ \A i \in DOMAIN fetch.held : fetch.held[i] \in Lsn
        /\ fetch.todo # <<>> => Head(fetch.todo) \in Slot
    BY DEF TypeOK
  <2>3. CASE fetch' = fetch /\ (trunc'.busy => trunc.busy)
    BY <2>1, <2>2, <2>3 DEF FetchInv, FetchServesHeld, TypeOK
  <2>4. ASSUME NEW n \in 1 .. MaxFetch, NEW lsns \in [1 .. n -> Slot], ~trunc.busy,
               FetchBegin(lsns)
        PROVE  FetchInv'
    BY <2>4 DEF FetchBegin, FetchInv, FetchServesHeld
  <2>5. CASE FetchSkips
    BY <2>5 DEF FetchSkips, FetchInv, FetchServesHeld
  <2>6. CASE FetchPresent
    <3>1. journal[Head(fetch.todo)] # NoEntry
      BY <2>2, <2>6 DEF FetchPresent, FetchInv, DurableInv, PresentIsDurable
    <3> QED BY <2>6, <3>1 DEF FetchPresent, FetchInv, FetchServesHeld
  <2>7. CASE FetchRead
    <3>1. journal[Head(fetch.todo)] # NoEntry /\ Head(fetch.todo) \in Slot
      BY <2>2, <2>7 DEF FetchRead, FetchInv, FetchServesHeld, TypeOK
    <3>2. /\ fetch'.stage = "classify" /\ journal' = journal /\ trunc' = trunc
          /\ fetch'.held = Append(fetch.held, Head(fetch.todo))
      BY <2>7 DEF FetchRead
    <3>3. fetch.held \in Seq(Slot)
      BY DEF TypeOK
    <3>4. ASSUME NEW i \in DOMAIN fetch'.held
          PROVE  journal'[fetch'.held[i]] # NoEntry
      <4>1. i \in 1 .. Len(fetch.held) + 1
        BY <3>1, <3>2, <3>3
      <4>2. CASE i \in 1 .. Len(fetch.held)
        BY <3>1, <3>2, <3>3, <4>2 DEF FetchInv, FetchServesHeld
      <4>3. CASE i = Len(fetch.held) + 1
        BY <3>1, <3>2, <3>3, <4>3
      <4> QED BY <3>3, <4>1, <4>2, <4>3
    <3> QED BY <2>7, <3>2, <3>4 DEF FetchRead, FetchInv, FetchServesHeld
  <2>8. CASE FetchEnd
    BY <2>8 DEF FetchEnd, FetchInv, FetchServesHeld
  <2>9. CASE \E w \in Writer : Write(w) \/ WriteResumes(w)
    BY <2>3, <2>9 DEF Write, WriteMalformed, WriteRejected, WriteIdempotent, WriteAdmitted,
       WriteResumes, AllocData, AllocFails, SlotDurable, SlotRejected, CompletionLost,
       FreeData, PostFlightStale, PostFlightAck
  <2>10. CASE UNCHANGED vars \/ TruncateState \/ (\E t \in Term : SeedTerm(t))
              \/ (\E c \in Slot : SeedCommitLsn(c)) \/ (\E E \in SUBSET Slot : SeedEmpty(E))
    BY <2>3, <2>10 DEF vars, TruncateState, SeedTerm, SeedCommitLsn, SeedEmpty
  <2> QED BY <1>2, <2>4, <2>5, <2>6, <2>7, <2>8, <2>9, <2>10 DEF Next
<1> QED BY <1>1, <1>2

(* Under the login serialisation fetch_data reads only slots the journal     *)
(* holds and returns a batch that is still there, although it drops the lock *)
(* between the classification of a slot and its read.                        *)
THEOREM FetchCorrect == ASSUME Serialised PROVE Spec => []FetchServesHeld
<1>1. Init => FetchInv
  BY DEF Init, FetchInv, FetchServesHeld
<1>2. TypeOK /\ TypeOK' /\ DurableInv /\ FetchInv /\ [Next]_vars => FetchInv'
  BY FetchStep
<1>3. FetchInv => FetchServesHeld
  BY DEF FetchInv
<1> QED BY <1>1, <1>2, <1>3, TypeCorrect, DurableCorrect, PTL DEF Spec

-----------------------------------------------------------------------------
(* What the refinement mapping makes of a slot: void, held or absent. *)
SlotState(l) == IF l \in empty_lsns THEN "void"
                ELSE IF Written(l) THEN "held" ELSE "absent"

(* What every step of the replica needs to be a step of SlotLog. *)
LogInv == TypeOK /\ DurableInv /\ CommitInv /\ MissingSound

(* A step that changes no slot, no watermark of the log and no cut stutters. *)
LEMMA LogStutter ==
  ASSUME \A l \in Slot : SlotState(l)' = SlotState(l), commit_lsn' = commit_lsn, trunc' = trunc
  PROVE  UNCHANGED Log!vars
  BY DEF Log!vars, SlotState, Written

(* Admitting a write marks the slots it jumps over as missing in the same    *)
(* critical section that raises the watermark over them: none of them, and   *)
(* no slot below, changes for the client.                                    *)
LEMMA AdmittedStutters ==
  ASSUME LogInv, NEW w \in Writer, NEW t \in Term, NEW d \in Lsn, NEW z \in BOOLEAN,
         WriteAdmitted(w, t, d, z)
  PROVE  UNCHANGED Log!vars
<1> USE SlotRange
<1>1. d \in Slot /\ d \notin empty_lsns /\ ~Written(d)
  BY AdmittedVerdict DEF WriteAdmitted
<1>2. last_append_lsn \in Int
  BY DEF LogInv, TypeOK
<1>3. ASSUME NEW l \in Slot, l \notin empty_lsns
      PROVE  Written(l)' <=> Written(l)
  <2>1. CASE l = d
    BY <1>1, <2>1 DEF WriteAdmitted, NewMissing, Written
  <2>2. CASE l # d /\ l <= last_append_lsn
    BY <1>1, <1>2, <2>2 DEF WriteAdmitted, NewMissing, Written, Max2
  <2>3. CASE l > last_append_lsn /\ l < d
    BY <1>1, <1>2, <1>3, <2>3 DEF WriteAdmitted, NewMissing, Written
  <2>4. CASE l > last_append_lsn /\ l > d
    BY <1>1, <1>2, <2>4 DEF WriteAdmitted, Written, Max2
  <2> QED BY <1>1, <1>2, <2>1, <2>2, <2>3, <2>4
<1>4. empty_lsns' = empty_lsns /\ commit_lsn' = commit_lsn /\ trunc' = trunc
  BY DEF WriteAdmitted
<1>5. \A l \in Slot : SlotState(l)' = SlotState(l)
  BY <1>3, <1>4 DEF SlotState
<1> QED BY <1>4, <1>5, LogStutter

(* Every step of the replica is a step of SlotLog or changes nothing there.  *)
LEMMA LogStep ==
  ASSUME Serialised, LogInv, [Next]_vars
  PROVE  [Log!Next]_(Log!vars)
<1> USE SlotRange
<1>1. CASE UNCHANGED vars
  BY <1>1, LogStutter DEF vars, SlotState, Written
<1>2. ASSUME NEW w \in Writer, Write(w)
      PROVE  UNCHANGED Log!vars
  <2>1. ASSUME NEW t \in Term, NEW d \in Lsn, NEW z \in BOOLEAN, WriteAdmitted(w, t, d, z)
        PROVE  UNCHANGED Log!vars
    BY <2>1, AdmittedStutters
  <2>2. CASE UNCHANGED <<partition, trunc>>
    BY <2>2, LogStutter DEF partition, SlotState, Written
  <2> QED BY <1>2, <2>1, <2>2 DEF Write, WriteMalformed, WriteRejected, WriteIdempotent
<1>3. ASSUME NEW w \in Writer, WriteResumes(w)
      PROVE  [Log!Next]_(Log!vars)
  <2>1. CASE UNCHANGED <<partition, trunc>>
    BY <2>1, LogStutter DEF partition, SlotState, Written
  <2>2. CASE PostFlightAck(w)
    <3>1. PICK d \in Slot : d = req[w].dlsn /\ ~trunc.busy /\ d <= last_append_lsn
      BY <2>2 DEF PostFlightAck, LogInv, DurableInv, TruncatesQuiesced, Quiesced,
         InFlightCovered, InFlight
    <3>2. /\ missing_lsns' = missing_lsns \ {d}
          /\ UNCHANGED <<commit_lsn, last_append_lsn, empty_lsns, trunc>>
      BY <2>2, <3>1 DEF PostFlightAck
    <3>3. CASE d \notin missing_lsns
      BY <3>2, <3>3, LogStutter DEF SlotState, Written
    <3>4. CASE d \in missing_lsns
      <4>1. d \notin empty_lsns
        BY <3>4 DEF LogInv, MissingSound
      <4>2. /\ SlotState(d) = "absent" /\ SlotState(d)' = "held"
            /\ \A l \in Slot : l # d => SlotState(l)' = SlotState(l)
        BY <3>1, <3>2, <3>4, <4>1 DEF SlotState, Written
      <4>3. Log!Append(d)
        BY <3>1, <3>2, <4>2 DEF Log!Append, SlotState, Written
      <4> QED BY <3>1, <4>3 DEF Log!Next
    <3> QED BY <3>3, <3>4
  <2> QED BY <1>3, <2>1, <2>2 DEF WriteResumes, AllocData, AllocFails, SlotDurable,
          SlotRejected, CompletionLost, FreeData, PostFlightStale
<1>4. ASSUME NEW n \in Slot \cup {-1}, TruncateJournal(n)
      PROVE  Log!BeginCut(n)
  BY <1>4 DEF TruncateJournal, partition, Log!BeginCut, Written
<1>5. CASE TruncateState
  <2>1. /\ trunc.lsn \in Int /\ last_append_lsn \in Int
        /\ UNCHANGED <<commit_lsn, empty_lsns>>
        /\ last_append_lsn' = Min2(last_append_lsn, trunc.lsn)
        /\ missing_lsns' = {l \in missing_lsns : l <= trunc.lsn}
    BY <1>5 DEF TruncateState, LogInv, TypeOK
  <2>2. ASSUME NEW l \in Slot
        PROVE  SlotState(l)' = IF l > trunc.lsn /\ SlotState(l) = "held"
                               THEN "absent" ELSE SlotState(l)
    BY <2>1 DEF SlotState, Written, Min2
  <2>3. trunc.busy /\ trunc' = Log!NoCut
    BY <1>5 DEF TruncateState, Log!NoCut
  <2>4. Log!EndCut
    BY <2>1, <2>2, <2>3 DEF Log!EndCut, SlotState
  <2> QED BY <2>4 DEF Log!Next
<1>6. CASE \/ \E lsns : FetchBegin(lsns)
           \/ FetchSkips \/ FetchPresent \/ FetchRead \/ FetchEnd
           \/ \E t \in Term : SeedTerm(t)
  <2>1. UNCHANGED <<commit_lsn, last_append_lsn, missing_lsns, empty_lsns, trunc>>
    BY <1>6 DEF FetchBegin, FetchSkips, FetchPresent, FetchRead, FetchEnd, SeedTerm, partition
  <2> QED BY <2>1, LogStutter DEF SlotState, Written
<1>7. ASSUME NEW c \in Slot, MayCommit(c), SeedCommitLsn(c)
      PROVE  Log!Next
  <2>1. \A l \in Slot : l <= c => SlotState(l) # "absent"
    BY <1>7 DEF MayCommit, SlotState, Written, LogInv, TypeOK
  <2>2. Log!Commit(c)
    BY <1>7, <2>1 DEF MayCommit, SeedCommitLsn, Log!Commit, SlotState, Written
  <2> QED BY <2>2 DEF Log!Next
<1>8. ASSUME NEW E \in SUBSET Slot, MayVerdict(E), SeedEmpty(E)
      PROVE  Log!Next
  <2>1. ASSUME NEW l \in Slot
        PROVE  SlotState(l)' = IF l \in E THEN "void" ELSE SlotState(l)
    BY <1>8 DEF MayVerdict, SeedEmpty, SlotState, Written
  <2>2. Log!Void(E)
    BY <1>8, <2>1 DEF SeedEmpty, Log!Void, SlotState
  <2> QED BY <2>2 DEF Log!Next
<1> QED BY <1>1, <1>2, <1>3, <1>4, <1>5, <1>6, <1>7, <1>8 DEF Next, Log!Next

(* Under the login serialisation the replica implements the abstract log:    *)
(* its initial state is the empty log, and every step of its coroutines,     *)
(* truncate(), fetch_data() and the mutators is one append, cut, commit or   *)
(* verdict of SlotLog, or is invisible there.                                *)
THEOREM LogRefined == ASSUME Serialised PROVE Spec => ImplementsSlotLog
<1>1. Init => Log!Init
  BY SlotRange DEF Init, Log!Init, Log!NoCut, Written
<1>2. LogInv /\ [Next]_vars => [Log!Next]_(Log!vars)
  BY LogStep
<1>3. TypeOK /\ DurableInv /\ CommitInv /\ MissingSound => LogInv
  BY DEF LogInv
<1> QED BY <1>1, <1>2, <1>3, TypeCorrect, DurableCorrect, CommitCorrect, MissingCorrect, PTL
        DEF Spec, Log!Spec, ImplementsSlotLog
=============================================================================
