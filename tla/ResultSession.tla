--------------------------- MODULE ResultSession ----------------------------
(***************************************************************************)
(* ohl-import's ResultSession (result_session.rs): the parent's validation *)
(* of what the untrusted worker reports.  It owns the parent's validator   *)
(* and decides which enumeration becomes the catalog and which bytes reach *)
(* the sink.  Every operation is a function of the session record; the     *)
(* call failed when the result has a failure.                              *)
(*                                                                         *)
(* An entry is [token, size, path].  Path bytes are not counted, only path *)
(* conflicts are told apart.                                               *)
(***************************************************************************)
EXTENDS OwpTransport, FiniteSets

CONSTANTS
    ParentBudgets,     \* the ProtocolBudgets of the parent's validator
    MaximumEntries,    \* ImportLimits::maximum_entries
    MaximumEntryBytes, \* ImportLimits::maximum_entry_bytes
    MaximumTotalBytes, \* ImportLimits::maximum_total_bytes
    MaxCounter,        \* u64::MAX of the enumeration and request counters
    Entries            \* the entries a batch on the wire may decode to

ASSUME ParentBudgetsAssumption == ParentBudgets \in Budgets
ASSUME ResultLimitsAssumption ==
    /\ MaximumEntries \in Nat \ {0} /\ MaximumEntryBytes \in Nat \ {0}
    /\ MaximumTotalBytes \in Nat /\ MaximumTotalBytes >= MaximumEntryBytes
    /\ MaxCounter \in Nat \ {0}
ASSUME EntriesAssumption == \A e \in Entries : e.token \in Nat /\ e.size \in Nat

\* What the decoders make of a worker's frame; a byte is a number.
IsWire(f) ==
    /\ f.h \in FrameHeaders
    /\ f.h.type = "EntryBatch" => f.body \in Seq(Entries)
    /\ f.h.type = "DataChunk" => f.body \in Seq(Nat)
    /\ f.h.type = "ReadRequest" => f.body[1] \in Nat /\ f.body[2] \in Nat

NoFailure == "none"

ResultFailures ==
    {"InvalidState", "Protocol", "Layout", "ResultValidation", "UnknownSourceToken",
     "DownstreamFailure", "IncompleteStream", "GenerationExhausted",
     "SourceInvalidated", "SourceReadFailure", "WorkerFailure"}

NewResultSession(protocol) ==
    [protocol |-> protocol, failure |-> NoFailure, enumeration_counter |-> 0,
     candidate |-> None, catalog |-> None, stream |-> None]

RetireAll(r) == [r EXCEPT !.catalog = None, !.candidate = None, !.stream = None]

\* retire: the first failure is the one that is kept.
Retire(r, e) ==
    IF r.failure # NoFailure THEN r ELSE [RetireAll(r) EXCEPT !.failure = e]

AndThen(r, next) == IF r.failure # NoFailure THEN r ELSE next

ResultObserve(r, d, f) ==
    LET seen == [r EXCEPT !.protocol = Observe(r.protocol, d, f.h, ParentBudgets)] IN
    IF seen.protocol.error = NoError THEN seen ELSE Retire(seen, "Protocol")

-----------------------------------------------------------------------------
\* EntryBatchAccumulator: the declared bytes of a run of entries.
TotalBytes(entries) ==
    LET sum[i \in 0..Len(entries)] ==
            IF i = 0 THEN 0 ELSE sum[i - 1] + entries[i].size
    IN  sum[Len(entries)]

(* Mutant: each batch is ordered on its own, but not after the one before. *)
BatchIsCanonicalAlone(entries, budget) ==
    /\ Len(entries) \in 1..budget.remaining_entries
    /\ \A i \in 1..Len(entries) : entries[i].size <= budget.maximum_entry_bytes
    /\ TotalBytes(entries) <= budget.remaining_total_bytes
    /\ \A i \in 1..Len(entries) - 1 : entries[i].token < entries[i + 1].token

(* decode_entry_batch_payload: a non-empty batch within the remaining       *)
(* quotas whose tokens grow strictly, across batches too.                   *)
BatchIsCanonical(entries, budget) ==
    /\ budget.remaining_entries # 0
    /\ Len(entries) \in 1..budget.remaining_entries
    /\ \A i \in 1..Len(entries) : entries[i].size <= budget.maximum_entry_bytes
    /\ TotalBytes(entries) <= budget.remaining_total_bytes
    /\ \A i \in 1..Len(entries) - 1 : entries[i].token < entries[i + 1].token
    /\ budget.previous_source_token # None =>
           entries[1].token > The(budget.previous_source_token)

\* What is left of a budget once a batch is accepted.
Spend(budget, entries) ==
    [budget EXCEPT
        !.remaining_entries = @ - Len(entries),
        !.remaining_total_bytes = @ - TotalBytes(entries),
        !.previous_source_token = Some(entries[Len(entries)].token)]

\* plan_catalog: whether the enumeration lays out without a path conflict.
PlanSucceeds(entries) ==
    /\ Len(entries) <= MaximumEntries
    /\ TotalBytes(entries) <= MaximumTotalBytes
    /\ \A i, j \in 1..Len(entries) : i # j => entries[i].path # entries[j].path

-----------------------------------------------------------------------------
BeginEnumeration(r, f) ==
    AndThen(r,
      IF r.enumeration_counter = MaxCounter THEN Retire(r, "GenerationExhausted")
      ELSE LET o == ResultObserve(r, "ParentToWorker", f) IN
           AndThen(o,
             [RetireAll(o) EXCEPT
                 !.enumeration_counter = @ + 1,
                 !.candidate = Some(
                     [generation |-> o.enumeration_counter + 1,
                      promotable |-> TRUE,
                      budget |-> [remaining_entries |-> MaximumEntries,
                                  maximum_entry_bytes |-> MaximumEntryBytes,
                                  remaining_total_bytes |-> MaximumTotalBytes,
                                  previous_source_token |-> None],
                      entries |-> <<>>])]))

AcceptEntryBatch(r, f) ==
    AndThen(r,
      IF r.candidate = None THEN Retire(r, "InvalidState")
      ELSE IF ~BatchIsCanonical(f.body, The(r.candidate).budget) THEN Retire(r, "Protocol")
      ELSE LET o == ResultObserve(r, "WorkerToParent", f)
               c == The(r.candidate) IN
           AndThen(o,
             [o EXCEPT !.candidate = Some(
                 [c EXCEPT !.entries = IF c.promotable THEN @ \o f.body ELSE @,
                           !.budget = Spend(@, f.body)])]))

(* complete_enumeration: only a promotable candidate is planned, and it     *)
(* becomes the catalog only after the completion was accepted.              *)
CompleteEnumeration(r, f) ==
    AndThen(r,
      IF r.candidate = None THEN Retire(r, "InvalidState")
      ELSE LET c == The(r.candidate) IN
           IF c.promotable /\ ~PlanSucceeds(c.entries) THEN Retire(r, "Layout")
           ELSE IF c.promotable /\ TotalBytes(c.entries) #
                       MaximumTotalBytes - c.budget.remaining_total_bytes
           THEN Retire(r, "ResultValidation")
           ELSE LET o == ResultObserve(r, "WorkerToParent", f) IN
                AndThen(o,
                  [o EXCEPT
                     !.catalog = IF c.promotable
                                 THEN Some([generation |-> c.generation,
                                            entries |-> c.entries])
                                 ELSE @,
                     !.candidate = None]))

\* Catalog::find under the exact generation the caller was given.
FindEntry(r, generation, token) ==
    IF r.catalog = None \/ (r.catalog # None /\ The(r.catalog).generation # generation)
    THEN {}
    ELSE {e \in {The(r.catalog).entries[i] : i \in 1..Len(The(r.catalog).entries)} :
              e.token = token}

BeginStreamEntry(r, f, generation) ==
    AndThen(r,
      LET found == FindEntry(r, generation, f.body[1]) IN
      IF found = {} THEN Retire(r, "UnknownSourceToken")
      ELSE LET o == ResultObserve(r, "ParentToWorker", f) IN
           AndThen(o, [o EXCEPT !.stream = Some((CHOOSE e \in found : TRUE).size)]))

(* Mutant: the chunk is delivered and never charged to the remainder. *)
AcceptDataChunkUncharged(r, f, sinkOk) ==
    AndThen(r,
      IF r.stream = None THEN Retire(r, "InvalidState")
      ELSE IF ~(Len(f.body) \in 1..The(r.stream)) THEN Retire(r, "Protocol")
      ELSE ResultObserve(r, "WorkerToParent", f))

\* accept_data_chunk: the sink is written between the observation and the charge.
AcceptDataChunk(r, f, sinkOk) ==
    AndThen(r,
      IF r.stream = None THEN Retire(r, "InvalidState")
      ELSE IF ~(Len(f.body) \in 1..The(r.stream)) THEN Retire(r, "Protocol")
      ELSE LET o == ResultObserve(r, "WorkerToParent", f) IN
           AndThen(o,
             IF ~sinkOk THEN Retire(o, "DownstreamFailure")
             ELSE [o EXCEPT !.stream = Some(The(r.stream) - Len(f.body))]))

(* Mutant: a stream may complete short of the declared size. *)
CompleteStreamShort(r, f) ==
    AndThen(r,
      IF r.stream = None THEN Retire(r, "InvalidState")
      ELSE LET o == ResultObserve(r, "WorkerToParent", f) IN
           AndThen(o, [o EXCEPT !.stream = None]))

CompleteStream(r, f) ==
    AndThen(r,
      IF r.stream = None THEN Retire(r, "InvalidState")
      ELSE IF The(r.stream) # 0 THEN Retire(r, "IncompleteStream")
      ELSE LET o == ResultObserve(r, "WorkerToParent", f) IN
           AndThen(o, [o EXCEPT !.stream = None]))

\* decode_read_request_payload then observe; the caller decides what it means.
AcceptReadRequest(r, f, expected) ==
    AndThen(r,
      IF expected = 0 \/ f.body[1] # expected THEN Retire(r, "Protocol")
      ELSE ResultObserve(r, "WorkerToParent", f))

AcceptReadReply(r, f, expected) ==
    AndThen(r,
      IF expected = 0 \/ f.body[1] # expected THEN Retire(r, "Protocol")
      ELSE LET o == ResultObserve(r, "ParentToWorker", f) IN
           AndThen(o,
             CASE f.body[2] = "SourceChanged" -> Retire(o, "SourceInvalidated")
               [] f.body[2] = "SourceReadFailed" -> Retire(o, "SourceReadFailure")
               [] OTHER -> o))

(* Mutant: a cancelled enumeration can still be promoted. *)
AcceptCancelKeepingCandidate(r, f) ==
    AndThen(r,
      LET o == ResultObserve(r, "ParentToWorker", f) IN
      AndThen(o, [o EXCEPT !.catalog = None]))

(* accept_cancel: the catalog goes at once; the candidate's quotas and the   *)
(* stream remainder stay, to validate result frames already crossing.        *)
AcceptCancel(r, f) ==
    AndThen(r,
      LET o == ResultObserve(r, "ParentToWorker", f) IN
      AndThen(o,
        [o EXCEPT !.catalog = None,
                  !.candidate = IF @ = None THEN None
                                ELSE Some([The(@) EXCEPT !.promotable = FALSE,
                                                         !.entries = <<>>])]))

AcceptCancelAck(r, f) ==
    AndThen(r, LET o == ResultObserve(r, "WorkerToParent", f) IN AndThen(o, RetireAll(o)))

AcceptShutdown(r, f) ==
    AndThen(r, LET o == ResultObserve(r, "ParentToWorker", f) IN AndThen(o, RetireAll(o)))
=============================================================================
