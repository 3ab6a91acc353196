------------------------------ MODULE CraftReplDev ------------------------------
(***************************************************************************)
(* The CRAFT replica of one volume (src/lib/craft/craft_repl_dev.cpp).     *)
(*                                                                         *)
(* A client appends data at dLSNs it chooses itself, out of order and with *)
(* retries.  The replica keeps the watermarks commit_lsn and               *)
(* last_append_lsn, the set missing_lsns of slots at or below the          *)
(* watermark it does not hold, and the set empty_lsns of slots verdicted   *)
(* Empty.  write() is a coroutine: it takes missing_mu_ for its pre-flight *)
(* checks, drops it, awaits the data allocation and the journal append,    *)
(* and takes it again to report.  Each stretch between two suspension      *)
(* points is one action here, so any number of writes, a truncate and a    *)
(* fetch_data interleave at exactly those points.                          *)
(*                                                                         *)
(* A payload is represented by the block it was written to.                *)
(***************************************************************************)
EXTENDS Integers, Sequences, FiniteSets

CONSTANTS
    Writer,      \* write() coroutines that may be in flight together
    Block,       \* data blocks of the volume's chunks
    NoBlock,     \* the empty multi_blk_id of an all_zeros write
    NoEntry,     \* a journal position that holds no entry
    Int64Max,    \* INT64_MAX
    MaxOooGap,   \* k_max_ooo_gap
    MaxMissing,  \* k_max_missing_lsns
    MaxTerm,     \* bound on session terms
    MaxFetch,    \* bound on the length of a fetch_data request
    Serialised   \* TRUE: the login sequence serialises truncate, term changes,
                 \* writes and fetch_data, as the comments of truncate() demand

ASSUME WidthAssumption == /\ Int64Max \in Nat
                          /\ MaxOooGap \in Nat \ {0}
                          /\ MaxOooGap < Int64Max
ASSUME LimitAssumption == MaxMissing \in Nat /\ MaxTerm \in Nat /\ MaxFetch \in Nat
ASSUME NoBlockAssumption == NoBlock \notin Block
ASSUME SerialisedAssumption == Serialised \in BOOLEAN

VARIABLES
    commit_lsn, last_append_lsn, term,  \* CraftPartitionState
    missing_lsns, empty_lsns,           \* guarded by missing_mu_
    journal,     \* the log store: dLSN -> entry
    allocated,   \* blocks the data service holds allocated
    pc, req,     \* per write(): where it is suspended, and its arguments
    reply,       \* per write(): what its last call returned
    trunc,       \* the truncate() in progress
    fetch        \* the fetch_data() in progress

vars == <<commit_lsn, last_append_lsn, term, missing_lsns, empty_lsns, journal,
          allocated, pc, req, reply, trunc, fetch>>
partition == <<commit_lsn, last_append_lsn, term, missing_lsns, empty_lsns>>
calls == <<pc, req, reply>>

Lsn == 0 .. Int64Max
Term == 0 .. MaxTerm

(* CraftJournalEntry: the term it was written under and its block reference. *)
Entry == [term : Term, blk : Block \cup {NoBlock}]

ASSUME NoEntryAssumption == NoEntry \notin Entry

(* The arguments of write(), and the block alloc_write_data returned to it. *)
Request == [dlsn : Lsn \cup {-1}, term : Term, all_zeros : BOOLEAN,
            blk : Block \cup {NoBlock}]
NoRequest == [dlsn |-> -1, term |-> 0, all_zeros |-> FALSE, blk |-> NoBlock]

(* Suspension points of write(): in alloc_write_data, in write_slot, in      *)
(* free_data after a failed append, resumed after the append became durable, *)
(* and suspended for ever because write_async lost the completion.           *)
Stage == {"idle", "alloc", "append", "free", "durable", "lost"}
InFlight(w) == pc[w] \in {"alloc", "append", "free", "durable"}

ErrorCode == {"invalid_argument", "STALE_TERM", "EMPTY_SLOT", "value_too_large",
              "INTERNAL_ERROR", "operation_not_supported"}
Reply == [status : ErrorCode \cup {"none", "ok"}, dlsn : Lsn \cup {-1},
          commit : Lsn \cup {-1}, last : Lsn \cup {-1}]
Error(code) == [status |-> code, dlsn |-> -1, commit |-> -1, last |-> -1]
(* craft::lsn_pair, snapshotted under missing_mu_ with the append (get_lsns  *)
(* and get_rs_commit_lsn return the same pair).                              *)
Ok(d) == [status |-> "ok", dlsn |-> d,
          commit |-> commit_lsn, last |-> last_append_lsn]

(* Mutant: held without looking at missing_lsns. *)
PresentUnchecked(l) == 0 <= l /\ l <= last_append_lsn /\ l \notin empty_lsns
(* The slot is locally held: the test of the idempotent path of write() and, *)
(* with Empty checked first, of fetch_data.                                  *)
Written(l) == 0 <= l /\ l <= last_append_lsn /\ l \notin missing_lsns
Present(l) == Written(l) /\ l \notin empty_lsns

Max2(a, b) == IF a > b THEN a ELSE b
Min2(a, b) == IF a < b THEN a ELSE b

-----------------------------------------------------------------------------
(* The state of a new CraftReplDev over a new log store. *)
Init ==
    /\ commit_lsn = -1 /\ last_append_lsn = -1 /\ term = 0
    /\ missing_lsns = {} /\ empty_lsns = {}
    /\ journal = [l \in Lsn |-> NoEntry]
    /\ allocated = {}
    /\ pc = [w \in Writer |-> "idle"]
    /\ req = [w \in Writer |-> NoRequest]
    /\ reply = [w \in Writer |-> Error("none")]
    /\ trunc = [busy |-> FALSE, lsn |-> -1]
    /\ fetch = [stage |-> "idle", todo |-> <<>>, held |-> <<>>]

-----------------------------------------------------------------------------
(* write() *)

(* Mutant: Guard 1 without the margin. *)
BeyondInt64Max(d) == d > Int64Max
(* Guard 1: the dLSN is too close to INT64_MAX for the gap arithmetic. *)
BeyondLsnRange(d) == d > Int64Max - MaxOooGap
(* Guard 2: one write may open a gap of at most k_max_ooo_gap. *)
GapTooWide(d) == d - last_append_lsn > MaxOooGap
(* Mutant: Guard 3 without its exemptions. *)
MissingFull(d) == Cardinality(missing_lsns) >= MaxMissing
(* Guard 3: no new gap once missing_lsns is full; a write that fills a gap,  *)
(* or the next one in order, is exempt.                                      *)
MissingAtCapacity(d) == /\ d > last_append_lsn + 1
                        /\ Cardinality(missing_lsns) >= MaxMissing

(* Mutant: no term fence before the append. *)
VerdictUnfenced(t, d) ==
    IF d \in empty_lsns THEN "EMPTY_SLOT"
    ELSE IF Written(d) THEN "ok"
    ELSE IF BeyondLsnRange(d) THEN "invalid_argument"
    ELSE IF GapTooWide(d) \/ MissingAtCapacity(d) THEN "value_too_large"
    ELSE "append"
(* The checks of the pre-flight critical section, in the order of the code. *)
Verdict(t, d) ==
    IF t # term THEN "STALE_TERM"
    ELSE IF d \in empty_lsns THEN "EMPTY_SLOT"
    ELSE IF Written(d) THEN "ok"
    ELSE IF BeyondLsnRange(d) THEN "invalid_argument"
    ELSE IF GapTooWide(d) \/ MissingAtCapacity(d) THEN "value_too_large"
    ELSE "append"

(* Mutants: the slot itself is not recorded; the gap loop starts at the      *)
(* commit watermark.                                                         *)
NewMissingGapsOnly(d) == (last_append_lsn + 1 .. d - 1) \ empty_lsns
NewMissingFromCommit(d) == ((commit_lsn + 1 .. d - 1) \ empty_lsns) \cup {d}
(* The dLSNs the pre-flight records as missing: every slot the write jumps   *)
(* over that is not verdicted Empty, and the slot itself.                    *)
NewMissing(d) == ((last_append_lsn + 1 .. d - 1) \ empty_lsns) \cup {d}

Finish(w, r) ==
    /\ pc' = [pc EXCEPT ![w] = "idle"]
    /\ req' = [req EXCEPT ![w] = NoRequest]
    /\ reply' = [reply EXCEPT ![w] = r]

(* A malformed call: a negative dLSN, or all_zeros that disagrees with the   *)
(* presence of a payload.                                                    *)
WriteMalformed(w, d, all_zeros, has_data) ==
    /\ pc[w] = "idle"
    /\ d < 0 \/ all_zeros = has_data
    /\ Finish(w, Error("invalid_argument"))
    /\ UNCHANGED <<partition, journal, allocated, trunc, fetch>>

WriteRejected(w, t, d) ==
    /\ pc[w] = "idle"
    /\ Verdict(t, d) \in ErrorCode
    /\ Finish(w, Error(Verdict(t, d)))
    /\ UNCHANGED <<partition, journal, allocated, trunc, fetch>>

(* A retry of a slot that is already written is acked without an append. *)
WriteIdempotent(w, t, d) ==
    /\ pc[w] = "idle"
    /\ Verdict(t, d) = "ok"
    /\ Finish(w, Ok(d))
    /\ UNCHANGED <<partition, journal, allocated, trunc, fetch>>

(* Mutant: the watermark is left to the completion, which forgets it. *)
WriteAdmittedUnmarked(w, t, d, all_zeros) ==
    /\ pc[w] = "idle"
    /\ Verdict(t, d) = "append"
    /\ missing_lsns' = missing_lsns \cup NewMissing(d)
    /\ pc' = [pc EXCEPT ![w] = IF all_zeros THEN "append" ELSE "alloc"]
    /\ req' = [req EXCEPT ![w] = [dlsn |-> d, term |-> t, all_zeros |-> all_zeros,
                                  blk |-> NoBlock]]
    /\ reply' = [reply EXCEPT ![w] = Error("none")]
    /\ UNCHANGED <<commit_lsn, last_append_lsn, term, empty_lsns, journal,
                   allocated, trunc, fetch>>

(* The watermark is advanced, and the slot recorded as missing, before the   *)
(* append is attempted.                                                      *)
WriteAdmitted(w, t, d, all_zeros) ==
    /\ pc[w] = "idle"
    /\ Verdict(t, d) = "append"
    /\ missing_lsns' = missing_lsns \cup NewMissing(d)
    /\ last_append_lsn' = Max2(last_append_lsn, d)
    /\ pc' = [pc EXCEPT ![w] = IF all_zeros THEN "append" ELSE "alloc"]
    /\ req' = [req EXCEPT ![w] = [dlsn |-> d, term |-> t, all_zeros |-> all_zeros,
                                  blk |-> NoBlock]]
    /\ reply' = [reply EXCEPT ![w] = Error("none")]
    /\ UNCHANGED <<commit_lsn, term, empty_lsns, journal, allocated, trunc, fetch>>

(* alloc_write_data returned a block that now holds the payload. *)
AllocData(w, b) ==
    /\ pc[w] = "alloc"
    /\ b \notin allocated
    /\ allocated' = allocated \cup {b}
    /\ pc' = [pc EXCEPT ![w] = "append"]
    /\ req' = [req EXCEPT ![w] = [dlsn |-> req[w].dlsn, term |-> req[w].term,
                                  all_zeros |-> FALSE, blk |-> b]]
    /\ UNCHANGED <<partition, journal, reply, trunc, fetch>>

(* alloc_write_data failed; the slot stays in missing_lsns. *)
AllocFails(w) ==
    /\ pc[w] = "alloc"
    /\ Finish(w, Error("INTERNAL_ERROR"))
    /\ UNCHANGED <<partition, journal, allocated, trunc, fetch>>

(* write_async made the entry durable; its completion is posted to a reactor *)
(* and resumes the coroutine later.  The log store is external; an entry     *)
(* already at the dLSN is replaced, as in the journal the tests use.         *)
SlotDurable(w) ==
    /\ pc[w] = "append"
    /\ journal' = [journal EXCEPT ![req[w].dlsn] =
                                  [term |-> req[w].term, blk |-> req[w].blk]]
    /\ pc' = [pc EXCEPT ![w] = "durable"]
    /\ UNCHANGED <<partition, allocated, req, reply, trunc, fetch>>

(* write_async refused the entry because the log store is stopping: write()  *)
(* frees the block it allocated, if any, and returns the error.              *)
SlotRejected(w) ==
    /\ pc[w] = "append"
    /\ \/ /\ req[w].all_zeros
          /\ Finish(w, Error("operation_not_supported"))
       \/ /\ ~req[w].all_zeros
          /\ pc' = [pc EXCEPT ![w] = "free"]
          /\ UNCHANGED <<req, reply>>
    /\ UNCHANGED <<partition, journal, allocated, trunc, fetch>>

(* A journal I/O error: the flush path never runs the completion callback,   *)
(* so the coroutine is never resumed (the KNOWN RISK of write_slot).         *)
CompletionLost(w) ==
    /\ pc[w] = "append"
    /\ pc' = [pc EXCEPT ![w] = "lost"]
    /\ UNCHANGED <<partition, journal, allocated, req, reply, trunc, fetch>>

(* Mutant: the error is not returned once the block is freed. *)
FreeDataStuck(w) ==
    /\ pc[w] = "free"
    /\ allocated' \in {allocated, allocated \ {req[w].blk}}
    /\ UNCHANGED <<partition, journal, pc, req, reply, trunc, fetch>>

(* free_data after a refused append; a failure to free is only logged. *)
FreeData(w) ==
    /\ pc[w] = "free"
    /\ allocated' \in {allocated, allocated \ {req[w].blk}}
    /\ Finish(w, Error("operation_not_supported"))
    /\ UNCHANGED <<partition, journal, trunc, fetch>>

(* Mutant: a write discarded post-flight frees its block. *)
PostFlightStaleFrees(w) ==
    /\ pc[w] = "durable"
    /\ req[w].term # term
    /\ allocated' = allocated \ {req[w].blk}
    /\ Finish(w, Error("STALE_TERM"))
    /\ UNCHANGED <<partition, journal, trunc, fetch>>
(* The post-flight critical section.  If the term changed during the append  *)
(* the write is discarded and its block is deliberately not freed, because   *)
(* the journal entry may survive and refer to it.                            *)
PostFlightStale(w) ==
    /\ pc[w] = "durable"
    /\ req[w].term # term
    /\ Finish(w, Error("STALE_TERM"))
    /\ UNCHANGED <<partition, journal, allocated, trunc, fetch>>

PostFlightAck(w) ==
    /\ pc[w] = "durable"
    /\ req[w].term = term
    /\ missing_lsns' = missing_lsns \ {req[w].dlsn}
    /\ Finish(w, Ok(req[w].dlsn))
    /\ UNCHANGED <<commit_lsn, last_append_lsn, term, empty_lsns, journal,
                   allocated, trunc, fetch>>

Write(w) ==
    \/ \E d \in Lsn \cup {-1}, z, h \in BOOLEAN : WriteMalformed(w, d, z, h)
    \/ \E t \in Term, d \in Lsn :
           \/ WriteRejected(w, t, d)
           \/ WriteIdempotent(w, t, d)
           \/ \E z \in BOOLEAN : WriteAdmitted(w, t, d, z)

WriteResumes(w) ==
    \/ \E b \in Block : AllocData(w, b)
    \/ AllocFails(w)
    \/ SlotDurable(w) \/ SlotRejected(w) \/ CompletionLost(w)
    \/ FreeData(w)
    \/ PostFlightStale(w) \/ PostFlightAck(w)

-----------------------------------------------------------------------------
(* truncate() *)

(* Mutants: the rollback keeps one entry too many; no check against          *)
(* commit_lsn.                                                               *)
TruncateJournalShort(l) ==
    /\ ~trunc.busy
    /\ l >= commit_lsn
    /\ journal' = [k \in Lsn |-> IF k > l + 1 THEN NoEntry ELSE journal[k]]
    /\ trunc' = [busy |-> TRUE, lsn |-> l]
    /\ UNCHANGED <<partition, allocated, calls, fetch>>
TruncateJournalUnguarded(l) ==
    /\ ~trunc.busy
    /\ journal' = [k \in Lsn |-> IF k > l THEN NoEntry ELSE journal[k]]
    /\ trunc' = [busy |-> TRUE, lsn |-> l]
    /\ UNCHANGED <<partition, allocated, calls, fetch>>

(* The journal rollback succeeded; the coroutine has not yet retaken the     *)
(* lock.  A failed rollback returns at once and changes nothing.             *)
TruncateJournal(l) ==
    /\ ~trunc.busy
    /\ l >= commit_lsn
    /\ journal' = [k \in Lsn |-> IF k > l THEN NoEntry ELSE journal[k]]
    /\ trunc' = [busy |-> TRUE, lsn |-> l]
    /\ UNCHANGED <<partition, allocated, calls, fetch>>

TruncateState ==
    /\ trunc.busy
    /\ last_append_lsn' = Min2(last_append_lsn, trunc.lsn)
    /\ missing_lsns' = {l \in missing_lsns : l <= trunc.lsn}
    /\ trunc' = [busy |-> FALSE, lsn |-> -1]
    /\ UNCHANGED <<commit_lsn, term, empty_lsns, journal, allocated, calls, fetch>>

-----------------------------------------------------------------------------
(* fetch_data(): classifies the head of the request under missing_mu_, drops *)
(* the lock and, for a slot it holds, awaits read_slot.                      *)

FetchBegin(lsns) ==
    /\ fetch.stage = "idle"
    /\ fetch' = [stage |-> "classify", todo |-> lsns, held |-> <<>>]
    /\ UNCHANGED <<partition, journal, allocated, calls, trunc>>

(* An Empty slot is reported without a read, an absent one is omitted. *)
FetchSkips ==
    /\ fetch.stage = "classify" /\ fetch.todo # <<>>
    /\ ~Present(Head(fetch.todo))
    /\ fetch' = [stage |-> "classify", todo |-> Tail(fetch.todo), held |-> fetch.held]
    /\ UNCHANGED <<partition, journal, allocated, calls, trunc>>

FetchPresent ==
    /\ fetch.stage = "classify" /\ fetch.todo # <<>>
    /\ Present(Head(fetch.todo))
    /\ fetch' = [stage |-> "read", todo |-> fetch.todo, held |-> fetch.held]
    /\ UNCHANGED <<partition, journal, allocated, calls, trunc>>

FetchRead ==
    /\ fetch.stage = "read"
    /\ fetch' = [stage |-> "classify", todo |-> Tail(fetch.todo),
                 held |-> Append(fetch.held, Head(fetch.todo))]
    /\ UNCHANGED <<partition, journal, allocated, calls, trunc>>

(* A read_slot error aborts the whole batch; otherwise the batch is returned.*)
FetchEnd ==
    /\ \/ fetch.stage = "read"
       \/ fetch.stage = "classify" /\ fetch.todo = <<>>
    /\ fetch' = [stage |-> "idle", todo |-> <<>>, held |-> <<>>]
    /\ UNCHANGED <<partition, journal, allocated, calls, trunc>>

-----------------------------------------------------------------------------
(* The mutators of term, commit_lsn and empty_lsns.  At this commit they are *)
(* the _PRERELEASE hooks; apply_internal_login and apply_sync_rs_commit_lsn  *)
(* are to do the same under the same mutex.                                  *)

SeedTerm(t) ==
    /\ term' = t
    /\ UNCHANGED <<commit_lsn, last_append_lsn, missing_lsns, empty_lsns, journal,
                   allocated, calls, trunc, fetch>>

SeedCommitLsn(c) ==
    /\ commit_lsn' = c
    /\ UNCHANGED <<last_append_lsn, term, missing_lsns, empty_lsns, journal,
                   allocated, calls, trunc, fetch>>

(* Mutant: a verdict does not resolve the gap it is about. *)
SeedEmptyKeepsGap(E) ==
    /\ empty_lsns' = E
    /\ UNCHANGED <<commit_lsn, last_append_lsn, term, missing_lsns, journal,
                   allocated, calls, trunc, fetch>>
SeedEmpty(E) ==
    /\ empty_lsns' = E
    /\ missing_lsns' = missing_lsns \ E
    /\ UNCHANGED <<commit_lsn, last_append_lsn, term, journal, allocated, calls,
                   trunc, fetch>>

-----------------------------------------------------------------------------
(* The caller's contract.  No write is in flight (a lost one never resumes)  *)
(* while the login sequence truncates or changes the term.                   *)
Quiesced == \A w \in Writer : ~InFlight(w)

MayWrite == Serialised => ~trunc.busy
MayTruncate == Serialised => Quiesced /\ fetch.stage = "idle"
MayChangeTerm == Serialised => Quiesced /\ ~trunc.busy

(* commit_lsn is a contiguous prefix that is held or verdicted Empty, and it *)
(* never moves back; a verdict is permanent.                                 *)
MayCommit(c) == /\ c > commit_lsn /\ c <= last_append_lsn
                /\ (0 .. c) \cap missing_lsns = {}
                /\ ~trunc.busy
MayVerdict(E) == empty_lsns \subseteq E

Slot == 0 .. Int64Max - MaxOooGap

Next ==
    \/ \E w \in Writer : MayWrite /\ Write(w)
    \/ \E w \in Writer : WriteResumes(w)
    \/ \E l \in Slot \cup {-1} : MayTruncate /\ TruncateJournal(l)
    \/ TruncateState
    \/ \E n \in 1 .. MaxFetch : \E lsns \in [1 .. n -> Slot] :
           (Serialised => ~trunc.busy) /\ FetchBegin(lsns)
    \/ FetchSkips \/ FetchPresent \/ FetchRead \/ FetchEnd
    \/ \E t \in Term : t > term /\ MayChangeTerm /\ SeedTerm(t)
    \/ \E c \in Slot : MayCommit(c) /\ SeedCommitLsn(c)
    \/ \E E \in SUBSET Slot : MayVerdict(E) /\ SeedEmpty(E)

Spec == Init /\ [][Next]_vars

(* Fairness: a coroutine that the log store or the data service resumes runs *)
(* on an iomgr reactor; the mutex sections never block for ever.             *)
Fairness == /\ \A w \in Writer : WF_vars(WriteResumes(w))
            /\ WF_vars(TruncateState)

(* The client retries every append it was not acked for, and a log store     *)
(* that is not stopping does not refuse the same append for ever.            *)
RetriedAppend(l) == \E w \in Writer : MayWrite /\ WriteAdmitted(w, term, l, TRUE)
AppendSucceeds(l) == \E w \in Writer : req[w].dlsn = l /\ SlotDurable(w)
ClientRetries == \A l \in Slot : SF_vars(RetriedAppend(l)) /\ SF_vars(AppendSucceeds(l))

RetrySpec == Spec /\ Fairness /\ ClientRetries

-----------------------------------------------------------------------------
(* Properties *)

(* Every variable has its type. *)
TypeOK ==
    /\ commit_lsn \in Lsn \cup {-1}
    /\ last_append_lsn \in Slot \cup {-1}
    /\ term \in Term
    /\ missing_lsns \subseteq Slot
    /\ empty_lsns \subseteq Slot
    /\ journal \in [Lsn -> Entry \cup {NoEntry}]
    /\ allocated \subseteq Block
    /\ pc \in [Writer -> Stage]
    /\ req \in [Writer -> Request]
    /\ reply \in [Writer -> Reply]
    /\ trunc \in [busy : BOOLEAN, lsn : Slot \cup {-1}]
    /\ fetch \in [stage : {"idle", "classify", "read"}, todo : Seq(Slot), held : Seq(Slot)]
    /\ fetch.stage = "read" => fetch.todo # <<>>

(* A slot the replica considers held -- it acks a retry of it without an     *)
(* append and serves it to peers -- is in the journal, although last_append  *)
(* is advanced and gaps are recorded before any append is attempted, and     *)
(* appends fail, are lost and are retried.  While truncate() is between its  *)
(* rollback and its clamp only the slots it keeps count.                     *)
PresentIsDurable ==
    \A l \in Slot : Present(l) /\ (trunc.busy => l <= trunc.lsn)
                    => journal[l] # NoEntry

(* No journal entry lies above the watermark: none survives truncate() to    *)
(* reappear under a later session.                                           *)
NoGhostTail == \A l \in Lsn : l > last_append_lsn => journal[l] = NoEntry

(* missing_lsns only names slots at or below last_append_lsn that have no    *)
(* Empty verdict: an entry elsewhere would stall commit advancement for ever.*)
MissingSound ==
    \A l \in missing_lsns : l <= last_append_lsn /\ l \notin empty_lsns

(* A block the journal refers to stays allocated and belongs to one entry;   *)
(* no write in flight that may still free its block shares it with the       *)
(* journal.  This is what the missing free_data in the post-flight stale     *)
(* branch protects.                                                          *)
JournalBlocksHeld ==
    /\ \A l \in Lsn : journal[l] # NoEntry /\ journal[l].blk # NoBlock
                      => journal[l].blk \in allocated
    /\ \A k, l \in Lsn : k # l /\ journal[k] # NoEntry /\ journal[l] # NoEntry
                         /\ journal[k].blk = journal[l].blk
                         => journal[k].blk = NoBlock

(* An acknowledged write is at or below the last_append_lsn its ack carries, *)
(* and that watermark is at or above the commit_lsn it carries: the client's *)
(* model of the member never runs behind what the member acked.              *)
AckCoversWrite ==
    [][\A w \in Writer : reply'[w].status = "ok"
                         => /\ reply'[w].dlsn <= reply'[w].last
                            /\ reply'[w].commit <= reply'[w].last]_vars

(* Under the login serialisation the post-flight stale branch is dead code:  *)
(* every write in flight carries the current term.                           *)
InFlightAtTerm == \A w \in Writer : InFlight(w) => req[w].term = term

(* Everything at or below commit_lsn is held in the journal or verdicted     *)
(* Empty: truncate() never reaches into the committed prefix.                *)
CommittedPrefixHeld ==
    \A l \in 0 .. commit_lsn : /\ l <= last_append_lsn
                               /\ journal[l] # NoEntry \/ l \in empty_lsns

(* A missing slot can always be filled and the next slot in order can always *)
(* be appended, even when missing_lsns is full: otherwise it could never     *)
(* drain (the exemptions of Guard 3).                                        *)
GapFillAdmitted ==
    \A l \in missing_lsns \cup {last_append_lsn + 1} :
        l \in Slot \ empty_lsns => Verdict(term, l) = "append"

(* fetch_data never asks the journal for a slot it does not hold, although   *)
(* it drops the lock between classifying a slot and reading it, and every    *)
(* slot of the batch it is about to return is still in the journal.          *)
FetchServesHeld ==
    /\ fetch.stage = "read" => journal[Head(fetch.todo)] # NoEntry
    /\ \A i \in DOMAIN fetch.held : journal[fetch.held[i]] # NoEntry

(* Under the login serialisation the replica implements SlotLog: a slot that *)
(* write() acks and fetch_data serves is held, whatever the order in which   *)
(* appends are admitted, become durable, fail and are retried; no write,     *)
(* however far ahead, makes a held slot absent again; truncate() cuts only   *)
(* above the committed prefix, and an Empty verdict is for ever.             *)
Log == INSTANCE SlotLog WITH
    slot <- [l \in Slot |-> IF l \in empty_lsns THEN "void"
                            ELSE IF Written(l) THEN "held" ELSE "absent"],
    commit <- commit_lsn,
    cut <- trunc

ImplementsSlotLog == Log!Spec

(* Every write() returns unless its journal completion is lost. *)
WriteReturns == \A w \in Writer : InFlight(w) ~> ~InFlight(w)

(* With a client that retries, every gap is eventually closed, unless every  *)
(* coroutine has been lost to the journal I/O error of write_slot.           *)
MissingDrains ==
    \A l \in Slot : l \in missing_lsns
                    ~> (l \notin missing_lsns \/ \A w \in Writer : pc[w] = "lost")
=============================================================================
