--------------------------- MODULE WorkerService ----------------------------
(***************************************************************************)
(* The isolated worker's half of one lifetime (ohl-parser-worker-service,  *)
(* service.rs): the handshake, the receive loop, the dispatch loop that    *)
(* probes for a cancel before every step, and the fail-closed teardown.    *)
(* The dispatcher is a capability the service borrows: any bounded action  *)
(* or failure it may return is an input here.                              *)
(*                                                                         *)
(* A frame the service is writing sits in "outbox" until the pipe has room *)
(* for it; the state change it commits happens after the write.            *)
(***************************************************************************)
EXTENDS ResultSession

CONSTANTS
    WorkerBudgets,          \* ServiceLimits::protocol_budgets
    MaximumDispatchSteps,   \* ServiceLimits::maximum_dispatch_steps
    WorkerEntries,          \* MAXIMUM_ENUMERATED_ENTRIES
    WorkerEntryBytes,       \* MAXIMUM_ENUMERATED_ENTRY_BYTES
    WorkerTotalBytes,       \* MAXIMUM_ENUMERATED_TOTAL_BYTES
    Batches,                \* entry batches a dispatcher may produce
    StreamSizes,            \* sizes Dispatcher::begin may announce
    ChunkSizes,             \* lengths of the data chunks it may produce
    WorkerMaxSequence       \* u32::MAX of the worker's read sequence

ASSUME WorkerLimitsAssumption ==
    /\ WorkerBudgets \in Budgets
    /\ MaximumDispatchSteps \in Nat \ {0}
    /\ WorkerEntries \in Nat \ {0} /\ WorkerEntryBytes \in Nat /\ WorkerTotalBytes \in Nat
    /\ StreamSizes \subseteq Nat /\ ChunkSizes \subseteq Nat \ {0}
    /\ WorkerMaxSequence \in Nat \ {0}
ASSUME BatchesAssumption == Batches \subseteq Seq(Entries)

VARIABLES
    wv,               \* the worker's validator
    service,          \* the fields of struct Service
    pc,               \* where the service's thread is
    outbox,           \* the frame being written, if any
    failure,          \* the ServiceError the lifetime ended with, or "none"
    dispatcher,       \* history: requests begun on the dispatcher and released
    emitted,          \* history: entries written for each enumeration
    outcomeAtWorker   \* history: how the worker ended each request

workerVars == <<wv, service, pc, outbox, failure, dispatcher, emitted, outcomeAtWorker>>

NewEnumerationBudget ==
    [remaining_entries |-> WorkerEntries,
     maximum_entry_bytes |-> WorkerEntryBytes,
     remaining_total_bytes |-> WorkerTotalBytes,
     previous_source_token |-> None]

NewService ==
    [enumeration |-> NewEnumerationBudget,
     active_operation |-> "Enumerate",
     active_request_id |-> 0,
     stream_size |-> 0,
     remaining_stream_bytes |-> 0,
     dispatch_steps |-> 0,
     next_read_sequence |-> 1,
     pending_read_sequence |-> 0,
     pending_read_length |-> 0,
     dispatch_active |-> FALSE,
     pending_read |-> FALSE,
     late_read_reply |-> FALSE]

WorkerInit ==
    /\ wv = NewValidator
    /\ service = NewService
    /\ pc = "Handshake"
    /\ outbox = None
    /\ failure = "none"
    /\ dispatcher = [begun |-> 0, released |-> 0]
    /\ emitted = [i \in 1..MaxCounter |-> <<>>]
    /\ outcomeAtWorker = [i \in 1..MaxCounter |-> "open"]

Running == pc \in {"Handshake", "Loop", "AwaitReply"}

ObserveAtWorker(v, d, f) == Observe(v, d, f.h, WorkerBudgets)

-----------------------------------------------------------------------------
(* Mutant: a failed lifetime leaves the transport open. *)
FailOpen(s, d, e) ==
    /\ pc' = "Failed"
    /\ failure' = e
    /\ service' = [s EXCEPT !.dispatch_active = FALSE]
    /\ dispatcher' = IF s.dispatch_active THEN [d EXCEPT !.released = @ + 1] ELSE d
    /\ outbox' = None
    /\ UNCHANGED workerIo

(* run_parser_worker_service on a failure: a request still active on the    *)
(* dispatcher is cancelled once, and the transport is aborted.              *)
FailClosed(s, d, e) ==
    /\ pc' = "Failed"
    /\ failure' = e
    /\ service' = [s EXCEPT !.dispatch_active = FALSE]
    /\ dispatcher' = IF s.dispatch_active THEN [d EXCEPT !.released = @ + 1] ELSE d
    /\ workerIo' = "aborted"
    /\ outbox' = None

(* send_frame: the validator observes the frame before a byte is written. *)
StartWrite(v, s, d, f) ==
    LET o == ObserveAtWorker(v, "WorkerToParent", f) IN
    /\ wv' = o
    /\ IF o.error # NoError
       THEN FailClosed(s, d, "ProtocolFailure")
       ELSE /\ outbox' = Some(f)
            /\ service' = s
            /\ dispatcher' = d
            /\ UNCHANGED <<pc, failure, workerIo>>

(* handshake: a canonical hello is answered with exactly one ready. *)
ReceiveHello ==
    LET f == Head(toWorker)
        o == ObserveAtWorker(wv, "ParentToWorker", f) IN
    /\ pc = "Handshake" /\ outbox = None /\ toWorker # <<>>
    /\ toWorker' = Tail(toWorker)
    /\ IF f.h.type # "Hello" \/ o.error # NoError
       THEN wv' = o /\ FailClosed(service, dispatcher, "ProtocolFailure")
       ELSE StartWrite(o, service, dispatcher, Frame("Ready", 0, <<>>))
    /\ UNCHANGED <<toParent, parentIo, emitted, outcomeAtWorker>>

-----------------------------------------------------------------------------
InDispatch == wv.state \in {"Enumerating", "Streaming"}

ReceiveLoop == pc = "Loop" /\ outbox = None /\ ~InDispatch /\ toWorker # <<>>

(* begin_operation.  begin is what the dispatcher answers: "refused", or the *)
(* size it announces.  A size that is not canonical is released here, while  *)
(* dispatch_active is still false.                                           *)
BeginOperation(begin) ==
    LET f == Head(toWorker)
        operation == IF f.h.type = "Enumerate" THEN "Enumerate" ELSE "Stream"
        o == ObserveAtWorker(wv, "ParentToWorker", f)
        owned == [dispatcher EXCEPT !.begun = @ + 1]
        canonical == IF operation = "Enumerate" THEN begin = Some(0)
                     ELSE The(begin) <= WorkerEntryBytes IN
    /\ ReceiveLoop
    /\ f.h.type \in {"Enumerate", "StreamEntry"}
    /\ toWorker' = Tail(toWorker)
    /\ wv' = o
    /\ IF o.error # NoError
       THEN FailClosed(service, dispatcher, "ProtocolFailure")
       ELSE IF begin = None
       THEN FailClosed(service, dispatcher, "DispatchFailure")
       ELSE IF ~canonical
       THEN FailClosed(service, [owned EXCEPT !.released = @ + 1], "DispatchFailure")
       ELSE /\ service' = [service EXCEPT
                              !.dispatch_active = TRUE,
                              !.active_operation = operation,
                              !.active_request_id = f.h.req,
                              !.stream_size = The(begin),
                              !.remaining_stream_bytes = The(begin),
                              !.enumeration = NewEnumerationBudget,
                              !.next_read_sequence = 1,
                              !.pending_read = FALSE,
                              !.late_read_reply = FALSE]
            /\ dispatcher' = owned
            /\ UNCHANGED <<pc, failure, outbox, workerIo>>
    /\ UNCHANGED <<toParent, parentIo, emitted, outcomeAtWorker>>

(* Mutant: the request stays active until its acknowledgement is written. *)
HandleCancelKeepingActive(f) ==
    LET o == ObserveAtWorker(wv, "ParentToWorker", f) IN
    IF o.error # NoError \/ wv.state = "Idle"
    THEN wv' = o /\ UNCHANGED <<service, dispatcher, outbox, pc, failure, workerIo>>
    ELSE StartWrite(o, service, [dispatcher EXCEPT !.released = @ + 1],
                    Frame("CancelAck", f.h.req, <<>>))

(* Mutant: the read that was outstanding at the cancel is forgotten. *)
HandleCancelForgettingRead(f) ==
    LET o == ObserveAtWorker(wv, "ParentToWorker", f) IN
    IF o.error # NoError \/ wv.state = "Idle"
    THEN wv' = o /\ UNCHANGED <<service, dispatcher, outbox, pc, failure, workerIo>>
    ELSE StartWrite(o, [service EXCEPT !.dispatch_active = FALSE],
                    [dispatcher EXCEPT !.released = @ + 1],
                    Frame("CancelAck", f.h.req, <<>>))

(* Mutant: the active request is stopped without an acknowledgement. *)
HandleCancelSilently(f) ==
    /\ wv' = ObserveAtWorker(wv, "ParentToWorker", f)
    /\ service' = [service EXCEPT !.dispatch_active = FALSE]
    /\ dispatcher' = IF service.dispatch_active THEN [dispatcher EXCEPT !.released = @ + 1]
                     ELSE dispatcher
    /\ pc' = "Loop"
    /\ UNCHANGED <<outbox, failure, workerIo>>

(* handle_cancel: a cancel that lost the race with complete is consumed and  *)
(* never acknowledged; any other cancels the dispatcher and is acknowledged. *)
HandleCancel(f) ==
    LET o == ObserveAtWorker(wv, "ParentToWorker", f)
        stopped == [service EXCEPT !.dispatch_active = FALSE,
                                   !.late_read_reply = service.pending_read]
        released == [dispatcher EXCEPT !.released = @ + 1] IN
    IF o.error # NoError
    THEN wv' = o /\ FailClosed(service, dispatcher, "ProtocolFailure")
    ELSE IF wv.state = "Idle"
    THEN wv' = o /\ UNCHANGED <<service, dispatcher, outbox, pc, failure, workerIo>>
    ELSE IF ~service.dispatch_active
    THEN wv' = o /\ FailClosed(service, dispatcher, "InternalFailure")
    ELSE StartWrite(o, stopped, released, Frame("CancelAck", f.h.req, <<>>))

\* The top-level loop reads a cancel: stale, or in a state that forbids it.
ReceiveCancel ==
    /\ ReceiveLoop
    /\ Head(toWorker).h.type = "Cancel"
    /\ toWorker' = Tail(toWorker)
    /\ HandleCancel(Head(toWorker))
    /\ UNCHANGED <<toParent, parentIo, emitted, outcomeAtWorker>>

(* accept_read_reply: decode against the pending read, observe, clear it.    *)
(* The sequence wraps to zero, which the next read request rejects.          *)
AcceptReply(f, discard, dispatchOk) ==
    LET o == ObserveAtWorker(wv, "ParentToWorker", f)
        canonical == /\ f.body[1] = service.pending_read_sequence
                     /\ f.body[3] = IF f.body[2] = "Ok" THEN service.pending_read_length ELSE 0
        answered == [service EXCEPT
                        !.pending_read = FALSE,
                        !.late_read_reply = FALSE,
                        !.next_read_sequence =
                            (service.pending_read_sequence + 1) % (WorkerMaxSequence + 1),
                        !.pending_read_sequence = 0,
                        !.pending_read_length = 0] IN
    IF ~service.pending_read \/ ~canonical
    THEN UNCHANGED wv /\ FailClosed(service, dispatcher, "ProtocolFailure")
    ELSE /\ wv' = o
         /\ IF o.error # NoError
            THEN FailClosed(service, dispatcher, "ProtocolFailure")
            ELSE IF ~discard /\ f.body[2] # "Ok"
            THEN FailClosed(answered, dispatcher, "SourceFailure")
            ELSE IF ~discard /\ ~dispatchOk
            THEN FailClosed(answered, dispatcher, "DispatchFailure")
            ELSE /\ service' = answered
                 /\ pc' = "Loop"
                 /\ UNCHANGED <<dispatcher, outbox, failure, workerIo>>

\* handle_late_read_reply: drained, never given to the dispatcher.
ReceiveLateReply ==
    LET f == Head(toWorker) IN
    /\ ReceiveLoop
    /\ f.h.type = "ReadReply"
    /\ toWorker' = Tail(toWorker)
    /\ IF wv.state # "Cancelled" \/ ~service.late_read_reply
       THEN UNCHANGED wv /\ FailClosed(service, dispatcher, "ProtocolFailure")
       ELSE AcceptReply(f, TRUE, TRUE)
    /\ UNCHANGED <<toParent, parentIo, emitted, outcomeAtWorker>>

HandleShutdown ==
    LET f == Head(toWorker)
        o == ObserveAtWorker(wv, "ParentToWorker", f) IN
    /\ ReceiveLoop
    /\ f.h.type = "Shutdown"
    /\ toWorker' = Tail(toWorker)
    /\ wv' = o
    /\ IF o.error # NoError
       THEN FailClosed(service, dispatcher, "ProtocolFailure")
       ELSE /\ service' = [service EXCEPT !.pending_read = FALSE, !.late_read_reply = FALSE]
            /\ pc' = "Done"
            /\ workerIo' = "closed"
            /\ UNCHANGED <<dispatcher, outbox, failure>>
    /\ UNCHANGED <<toParent, parentIo, emitted, outcomeAtWorker>>

\* Any other parent frame at the top of the loop.
ReceiveUnexpectedAtWorker ==
    /\ ReceiveLoop
    /\ Head(toWorker).h.type \notin {"Enumerate", "StreamEntry", "Cancel", "ReadReply", "Shutdown"}
    /\ toWorker' = Tail(toWorker)
    /\ FailClosed(service, dispatcher, "ProtocolFailure")
    /\ UNCHANGED <<wv, toParent, parentIo, emitted, outcomeAtWorker>>

-----------------------------------------------------------------------------
\* The head of run_active_operation: the probe sees every frame in the pipe.
ActiveLoop == pc = "Loop" /\ outbox = None /\ InDispatch

ProbeCancel ==
    /\ ActiveLoop
    /\ toWorker # <<>>
    /\ toWorker' = Tail(toWorker)
    /\ IF Head(toWorker).h.type # "Cancel"
       THEN UNCHANGED wv /\ FailClosed(service, dispatcher, "ProtocolFailure")
       ELSE HandleCancel(Head(toWorker))
    /\ UNCHANGED <<toParent, parentIo, emitted, outcomeAtWorker>>

MayDispatch == ActiveLoop /\ toWorker = <<>>

DispatchBudgetExceeded ==
    /\ MayDispatch
    /\ service.dispatch_steps >= MaximumDispatchSteps
    /\ FailClosed(service, dispatcher, "DispatchBudgetExceeded")
    /\ UNCHANGED <<wv, toWorker, toParent, parentIo, emitted, outcomeAtWorker>>

Stepped == [service EXCEPT !.dispatch_steps = @ + 1]

\* One dispatch step whose action is put on the wire, if it is canonical.
DispatchStep(canonical, f, s) ==
    /\ MayDispatch
    /\ service.dispatch_steps < MaximumDispatchSteps
    /\ IF canonical THEN StartWrite(wv, s, dispatcher, f)
       ELSE UNCHANGED wv /\ FailClosed(Stepped, dispatcher, "DispatchFailure")
    /\ UNCHANGED <<toWorker, toParent, parentIo, emitted, outcomeAtWorker>>

\* The encoders refuse a payload above the frame ceiling.
FitsFrame(payload) == payload <= MaxFramePayload

(* The outstanding read is recorded before the write.  No read is so long    *)
(* that its reply would not fit a frame (MAXIMUM_READ_BYTES).                *)
StepNeedRead(length) ==
    DispatchStep(
        /\ ~service.pending_read /\ service.next_read_sequence # 0
        /\ FitsFrame(1 + length),
        Frame("ReadRequest", service.active_request_id, <<service.next_read_sequence, length>>),
        [Stepped EXCEPT !.pending_read = TRUE,
                        !.pending_read_sequence = service.next_read_sequence,
                        !.pending_read_length = length])

StepEntryBatch(entries) ==
    DispatchStep(
        /\ service.active_operation = "Enumerate"
        /\ BatchIsCanonical(entries, service.enumeration)
        /\ FitsFrame(Len(entries)),
        Frame("EntryBatch", service.active_request_id, entries),
        Stepped)

\* The bytes of a stream are named by their position in it.
StepDataChunk(n) ==
    DispatchStep(
        /\ service.active_operation = "Stream"
        /\ n <= service.remaining_stream_bytes
        /\ FitsFrame(n),
        Frame("DataChunk", service.active_request_id,
              [i \in 1..n |-> service.stream_size - service.remaining_stream_bytes + i]),
        Stepped)

StepComplete ==
    DispatchStep(
        service.active_operation = "Stream" => service.remaining_stream_bytes = 0,
        Frame("Complete", service.active_request_id, <<>>),
        Stepped)

StepFails == DispatchStep(FALSE, Frame("Complete", 0, <<>>), Stepped)

-----------------------------------------------------------------------------
(* The write of the frame in the outbox finishes and its change commits. *)
FinishWrite ==
    LET f == The(outbox) IN
    /\ outbox # None /\ Running
    /\ WorkerMaySend
    /\ toParent' = Append(toParent, f)
    /\ outbox' = None
    /\ CASE f.h.type = "Ready" ->
              pc' = "Loop" /\ UNCHANGED <<service, dispatcher, emitted, outcomeAtWorker>>
         [] f.h.type = "ReadRequest" ->
              pc' = "AwaitReply" /\ UNCHANGED <<service, dispatcher, emitted, outcomeAtWorker>>
         [] f.h.type = "EntryBatch" ->
              /\ service' = [service EXCEPT !.enumeration = Spend(@, f.body)]
              /\ emitted' = [emitted EXCEPT ![f.h.req] = @ \o f.body]
              /\ UNCHANGED <<pc, dispatcher, outcomeAtWorker>>
         [] f.h.type = "DataChunk" ->
              /\ service' = [service EXCEPT !.remaining_stream_bytes = @ - Len(f.body)]
              /\ UNCHANGED <<pc, dispatcher, emitted, outcomeAtWorker>>
         [] f.h.type = "Complete" ->
              /\ service' = [service EXCEPT !.dispatch_active = FALSE, !.active_request_id = 0]
              /\ dispatcher' = [dispatcher EXCEPT !.released = @ + 1]
              /\ outcomeAtWorker' = [outcomeAtWorker EXCEPT ![f.h.req] = "complete"]
              /\ UNCHANGED <<pc, emitted>>
         [] f.h.type = "CancelAck" ->
              /\ service' = [service EXCEPT !.active_request_id = 0]
              /\ pc' = "Loop"
              /\ outcomeAtWorker' = [outcomeAtWorker EXCEPT ![f.h.req] = "cancelled"]
              /\ UNCHANGED <<dispatcher, emitted>>
    /\ UNCHANGED <<wv, failure, toWorker, parentIo, workerIo>>

(* await_read_reply_or_cancel: blocks for exactly one of the two. *)
AwaitReplyOrCancel(dispatchOk) ==
    LET f == Head(toWorker) IN
    /\ pc = "AwaitReply" /\ outbox = None /\ toWorker # <<>>
    /\ toWorker' = Tail(toWorker)
    /\ CASE f.h.type = "Cancel" -> HandleCancel(f)
         [] f.h.type = "ReadReply" -> AcceptReply(f, FALSE, dispatchOk)
         [] OTHER -> UNCHANGED wv /\ FailClosed(service, dispatcher, "ProtocolFailure")
    /\ UNCHANGED <<toParent, parentIo, emitted, outcomeAtWorker>>

(* A read, a write or a probe fails, or reports that the peer is gone. *)
WorkerIoFails ==
    /\ Running
    /\ FailClosed(service, dispatcher, "TransportFailure")
    /\ UNCHANGED <<wv, toWorker, toParent, parentIo, emitted, outcomeAtWorker>>

(* A request begun on the dispatcher is ended or cancelled exactly once, on  *)
(* every path out of the service, and only the open request is still held.   *)
DispatcherReleasedOnce ==
    /\ dispatcher.released \in {dispatcher.begun - 1, dispatcher.begun}
    /\ pc \in {"Done", "Failed"} => dispatcher.released = dispatcher.begun
    /\ service.dispatch_active <=> dispatcher.released # dispatcher.begun

WorkerReceive ==
    \/ ReceiveHello
    \/ \E size \in StreamSizes : BeginOperation(Some(size))
    \/ BeginOperation(None)
    \/ ReceiveCancel
    \/ ReceiveLateReply
    \/ HandleShutdown
    \/ ReceiveUnexpectedAtWorker
    \/ ProbeCancel
    \/ \E ok \in BOOLEAN : AwaitReplyOrCancel(ok)

WorkerDispatch ==
    \/ DispatchBudgetExceeded
    \/ StepNeedRead(1)
    \/ \E entries \in Batches : StepEntryBatch(entries)
    \/ \E n \in ChunkSizes : StepDataChunk(n)
    \/ StepComplete
    \/ StepFails

WorkerNext == WorkerReceive \/ WorkerDispatch \/ FinishWrite \/ WorkerIoFails
=============================================================================
