--------------------------- MODULE ParserSession ----------------------------
(***************************************************************************)
(* The trusted parent's half of one worker lifetime: the handshake         *)
(* (handshake.rs) and the typestate session (parent_session.rs) over the   *)
(* result session and the read broker.  Each action is one whole call;     *)
(* the typestate phase decides which calls exist.                          *)
(***************************************************************************)
EXTENDS SourceReadBroker

CONSTANT Tokens      \* source tokens a caller may ask to stream

VARIABLES
    phase,                  \* the typestate phase, or "Terminal" once retired
    results,                \* the ResultSession
    reads,                  \* the SourceReadBroker
    next_request_id,
    request_ids_exhausted,
    active_request_id,
    streaming,              \* active_was_stream: what the open request is
    sink,                   \* bytes handed to the stream's destination
    outcomeAtParent,        \* history: how the parent saw each request end
    asked                   \* history: what the parent asked for

parentVars == <<phase, results, reads, next_request_id, request_ids_exhausted,
                active_request_id, streaming, sink, outcomeAtParent, asked>>

RequestIds == 1..MaxCounter

Outcomes == {"open", "complete", "cancelled"}

ParentInit ==
    /\ phase = "Connecting"
    /\ results = NewResultSession(NewValidator)
    /\ reads = NewBroker
    /\ next_request_id = 1
    /\ request_ids_exhausted = FALSE
    /\ active_request_id = 0
    /\ streaming = FALSE
    /\ sink = <<>>
    /\ outcomeAtParent = [i \in RequestIds |-> "open"]
    /\ asked = [enumerate |-> <<>>, cancel |-> {}, size |-> 0]

OpenPhases == {"Idle", "Enumerating", "Streaming", "Cancelling", "Cancelled"}

-----------------------------------------------------------------------------
(* Mutant: a retired session that leaves its channel open. *)
RetireSessionKeepingChannel(r) ==
    /\ phase' = "Terminal"
    /\ results' = Retire(r, "WorkerFailure")
    /\ UNCHANGED parentIo

(* SessionCore::retire: the results are retired and the channel aborted. *)
RetireSession(r) ==
    /\ phase' = "Terminal"
    /\ results' = Retire(r, "WorkerFailure")
    /\ parentIo' = "aborted"

(* perform_parent_handshake, first half: send hello, then observe it. *)
SendHello ==
    LET f == Frame("Hello", 0, <<>>)
        o == ResultObserve(results, "ParentToWorker", f) IN
    /\ phase = "Connecting"
    /\ ParentMaySend
    /\ toWorker' = Append(toWorker, f)
    /\ IF o.failure # NoFailure
       THEN RetireSession(o)
       ELSE phase' = "AwaitingReady" /\ results' = o /\ UNCHANGED parentIo
    /\ UNCHANGED <<reads, next_request_id, request_ids_exhausted, active_request_id,
                   streaming, sink, outcomeAtParent, asked, toParent, workerIo>>

(* Second half: the ready frame makes the session idle. *)
ReceiveReady ==
    LET f == Head(toParent)
        o == ResultObserve(results, "WorkerToParent", f) IN
    /\ phase = "AwaitingReady"
    /\ toParent # <<>>
    /\ toParent' = Tail(toParent)
    /\ IF f.h.type # "Ready" \/ o.failure # NoFailure
       THEN RetireSession(o)
       ELSE phase' = "Idle" /\ results' = o /\ UNCHANGED parentIo
    /\ UNCHANGED <<reads, next_request_id, request_ids_exhausted, active_request_id,
                   streaming, sink, outcomeAtParent, asked, toWorker, workerIo>>

-----------------------------------------------------------------------------
\* allocate_request_id: the last id of the space can be used, once.
AllocateRequestId ==
    /\ next_request_id' = IF next_request_id = MaxCounter THEN MaxCounter
                           ELSE next_request_id + 1
    /\ request_ids_exhausted' = (next_request_id = MaxCounter)

(* send_transaction then advance: observe in the result session first, and  *)
(* only then send; any failure retires the session.                         *)
SendTransaction(f, o, next) ==
    IF o.failure # NoFailure
    THEN RetireSession(o) /\ UNCHANGED toWorker
    ELSE /\ ParentMaySend
         /\ toWorker' = Append(toWorker, f)
         /\ phase' = next
         /\ results' = o
         /\ UNCHANGED parentIo

RequestIdsExhausted ==
    /\ phase = "Idle"
    /\ request_ids_exhausted
    /\ RetireSession(results)
    /\ UNCHANGED <<reads, next_request_id, request_ids_exhausted, active_request_id,
                   streaming, sink, outcomeAtParent, asked, toWorker, toParent, workerIo>>

BeginEnumerationCall ==
    LET f == Frame("Enumerate", next_request_id, <<>>)
        o == BeginEnumeration(results, f) IN
    /\ phase = "Idle"
    /\ ~request_ids_exhausted
    /\ AllocateRequestId
    /\ SendTransaction(f, o, "Enumerating")
    /\ active_request_id' = IF o.failure = NoFailure THEN next_request_id ELSE active_request_id
    /\ streaming' = FALSE
    /\ asked' = [asked EXCEPT !.enumerate = IF o.failure = NoFailure
                                            THEN Append(@, next_request_id) ELSE @]
    /\ UNCHANGED <<reads, sink, outcomeAtParent, toParent, workerIo>>

BeginStreamCall(generation, token) ==
    LET f == Frame("StreamEntry", next_request_id, <<token>>)
        o == BeginStreamEntry(results, f, generation) IN
    /\ phase = "Idle"
    /\ ~request_ids_exhausted
    /\ AllocateRequestId
    /\ SendTransaction(f, o, "Streaming")
    /\ active_request_id' = IF o.failure = NoFailure THEN next_request_id ELSE active_request_id
    /\ streaming' = TRUE
    /\ sink' = <<>>
    /\ asked' = [asked EXCEPT !.size = IF o.failure = NoFailure THEN The(o.stream) ELSE 0]
    /\ UNCHANGED <<reads, outcomeAtParent, toParent, workerIo>>

(* request_cancel exists only while a request is open. *)
RequestCancel ==
    LET f == Frame("Cancel", active_request_id, <<>>)
        o == AcceptCancel(results, f) IN
    /\ phase \in {"Enumerating", "Streaming"}
    /\ SendTransaction(f, o, "Cancelling")
    /\ asked' = [asked EXCEPT !.cancel = @ \cup {active_request_id}]
    /\ UNCHANGED <<reads, next_request_id, request_ids_exhausted, active_request_id,
                   streaming, sink, outcomeAtParent, toParent, workerIo>>

(* shutdown exists in the idle and in the cancelled phase. *)
ShutdownCall ==
    LET f == Frame("Shutdown", 0, <<>>)
        o == AcceptShutdown(results, f) IN
    /\ phase \in {"Idle", "Cancelled"}
    /\ SendTransaction(f, o, "Closed")
    /\ active_request_id' = 0
    /\ UNCHANGED <<reads, next_request_id, request_ids_exhausted,
                   streaming, sink, outcomeAtParent, asked, toParent, workerIo>>

-----------------------------------------------------------------------------
ReceivePhases == {"Enumerating", "Streaming", "Cancelling"}

\* Consumes the frame at the head of the pipe; o is the session afterwards.
Consume(o, next) ==
    /\ toParent' = Tail(toParent)
    /\ IF o.failure # NoFailure
       THEN RetireSession(o)
       ELSE phase' = next /\ results' = o /\ UNCHANGED parentIo

(* receive_one on a result frame.  The sink is written only for a chunk the *)
(* result session accepted, and the sink may refuse it.                     *)
ReceiveResult(sinkOk) ==
    LET f == Head(toParent)
        o == IF f.h.type = "EntryBatch" THEN AcceptEntryBatch(results, f)
             ELSE IF phase = "Enumerating" \/ (phase = "Cancelling" /\ ~streaming)
             THEN Retire(results, "WorkerFailure")
             ELSE AcceptDataChunk(results, f, sinkOk) IN
    /\ phase \in ReceivePhases
    /\ toParent # <<>>
    /\ f.h.type \in {"EntryBatch", "DataChunk"}
    /\ Consume(o, phase)
    /\ sink' = IF o.failure = NoFailure /\ f.h.type = "DataChunk" THEN sink \o f.body ELSE sink
    /\ UNCHANGED <<reads, next_request_id, request_ids_exhausted, active_request_id,
                   streaming, outcomeAtParent, asked, toWorker, workerIo>>

(* Mutant: any terminal frame that follows a cancel is taken for its ack. *)
TerminalPhaseByRequest(type) == IF phase = "Cancelling" THEN "Cancelled" ELSE "Idle"

\* The phase a terminal frame leads to.
TerminalPhase(type) == IF type = "Complete" THEN "Idle" ELSE "Cancelled"

(* receive_one on a terminal frame: complete in any receiving phase,         *)
(* cancel_ack only while cancelling.                                         *)
ReceiveTerminal ==
    LET f == Head(toParent)
        o == CASE f.h.type = "CancelAck" -> AcceptCancelAck(results, f)
               [] f.h.type = "Complete" /\ streaming -> CompleteStream(results, f)
               [] OTHER -> CompleteEnumeration(results, f)
        legal == f.h.type = "Complete" \/ phase = "Cancelling"
        done == IF legal THEN o ELSE Retire(o, "WorkerFailure") IN
    /\ phase \in ReceivePhases
    /\ toParent # <<>>
    /\ f.h.type \in {"Complete", "CancelAck"}
    /\ Consume(done, TerminalPhase(f.h.type))
    /\ active_request_id' = IF done.failure = NoFailure THEN 0 ELSE active_request_id
    /\ outcomeAtParent' =
         IF done.failure # NoFailure THEN outcomeAtParent
         ELSE [outcomeAtParent EXCEPT ![active_request_id] =
                  IF TerminalPhase(f.h.type) = "Idle" THEN "complete" ELSE "cancelled"]
    /\ UNCHANGED <<reads, next_request_id, request_ids_exhausted, streaming, sink, asked,
                   toWorker, workerIo>>

\* Whether prepare left a reply to be sent.
Replying(b) == b.failure = NoFailure /\ b.pending # None

\* commit_reply_sent once the transport took the whole reply, else abandon_reply.
SettleReply(p, delivered) ==
    IF Replying(p.b) THEN IF delivered THEN CommitReplySent(p.b, p.r)
                          ELSE AbandonReply(p.b, p.r)
    ELSE p

\* The step around receive_one: an error retires the session, and so does a read
\* that was ignored although no cancel was sent.
AfterRead(p, q) ==
    IF q.b.failure = NoFailure /\ (Replying(p.b) \/ phase = "Cancelling") THEN q.r
    ELSE Retire(q.r, "WorkerFailure")

\* p is what prepare made of the request, q what became of the reply.
AnswerRead(p, q, delivered) ==
    /\ Replying(p.b) /\ delivered => ParentMaySend
    /\ toWorker' = IF Replying(p.b) /\ delivered THEN Append(toWorker, PreparedReply(p.b))
                   ELSE toWorker
    /\ Consume(AfterRead(p, q), phase)
    /\ reads' = q.b

(* receive_one on a read request: prepare, send the reply, then commit; or   *)
(* abandon when the transport did not take the whole reply.  While           *)
(* cancelling, the request is consumed and ignored.                          *)
ReceiveReadRequest(status, delivered) ==
    LET p == Prepare(reads, results, Head(toParent), status) IN
    /\ phase \in ReceivePhases
    /\ toParent # <<>>
    /\ Head(toParent).h.type = "ReadRequest"
    /\ AnswerRead(p, SettleReply(p, delivered), delivered)
    /\ UNCHANGED <<next_request_id, request_ids_exhausted, active_request_id, streaming,
                   sink, outcomeAtParent, asked, workerIo>>

(* Every other worker frame is a protocol failure. *)
ReceiveUnexpected ==
    /\ phase \in ReceivePhases
    /\ toParent # <<>>
    /\ Head(toParent).h.type \notin
          {"EntryBatch", "DataChunk", "Complete", "CancelAck", "ReadRequest"}
    /\ Consume(Retire(results, "WorkerFailure"), phase)
    /\ UNCHANGED <<reads, next_request_id, request_ids_exhausted, active_request_id, streaming,
                   sink, outcomeAtParent, asked, toWorker, workerIo>>

(* A channel failure (deadline, cancelled I/O, closed peer), an out-of-band  *)
(* worker failure or the drop of a live session: all retire it.              *)
ParentGivesUp ==
    /\ phase \in OpenPhases \cup {"Connecting", "AwaitingReady"}
    /\ RetireSession(results)
    /\ UNCHANGED <<reads, next_request_id, request_ids_exhausted, active_request_id, streaming,
                   sink, outcomeAtParent, asked, toWorker, toParent, workerIo>>

(* invalidate_source: the pinned medium changed under the session. *)
InvalidateSource ==
    /\ phase \in OpenPhases
    /\ phase' = "Terminal"
    /\ results' = Retire(results, "SourceInvalidated")
    /\ parentIo' = "aborted"
    /\ UNCHANGED <<reads, next_request_id, request_ids_exhausted, active_request_id, streaming,
                   sink, outcomeAtParent, asked, toWorker, toParent, workerIo>>

ParentReceive ==
    \/ ReceiveReady
    \/ \E ok \in BOOLEAN : ReceiveResult(ok)
    \/ ReceiveTerminal
    \/ \E status \in ServiceOutcomes, delivered \in BOOLEAN : ReceiveReadRequest(status, delivered)
    \/ ReceiveUnexpected

ParentNext ==
    \/ SendHello
    \/ RequestIdsExhausted
    \/ BeginEnumerationCall
    \/ \E generation \in RequestIds, token \in Tokens : BeginStreamCall(generation, token)
    \/ RequestCancel
    \/ ShutdownCall
    \/ ParentReceive
    \/ ParentGivesUp
    \/ InvalidateSource
=============================================================================
