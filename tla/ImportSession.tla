--------------------------- MODULE ImportSession ----------------------------
(***************************************************************************)
(* One worker lifetime: the trusted parent (ParserSession) and the         *)
(* isolated worker (WorkerService) over the duplex transport, with any     *)
(* dispatcher behaviour, any source outcome, a sink that may refuse and    *)
(* either end going away at any moment.                                    *)
(***************************************************************************)
EXTENDS ParserSession, WorkerService

vars == <<parentVars, workerVars, transportVars>>

Init == TransportInit /\ ParentInit /\ WorkerInit

Next ==
    \/ ParentNext /\ UNCHANGED workerVars
    \/ WorkerNext /\ UNCHANGED parentVars

(* A blocked exact read or write ends once the other end is gone: the peer   *)
(* aborted, or it closed and its last frame was read.                        *)
WorkerSeesPeerGone == parentIo = "aborted" /\ WorkerIoFails
ParentSeesPeerGone == workerIo # "open" /\ toParent = <<>> /\ ParentGivesUp

(* Both loops keep running: the parent receives while a request is open, the *)
(* worker receives, dispatches and finishes its writes.  Nothing obliges a   *)
(* caller to begin, cancel or shut down.                                     *)
Fairness ==
    /\ WF_vars(ParentReceive /\ UNCHANGED workerVars)
    /\ WF_vars(ParentSeesPeerGone /\ UNCHANGED workerVars)
    /\ WF_vars((WorkerReceive \/ WorkerDispatch) /\ UNCHANGED parentVars)
    /\ WF_vars(FinishWrite /\ UNCHANGED parentVars)
    /\ WF_vars(WorkerSeesPeerGone /\ UNCHANGED parentVars)

Spec == Init /\ [][Next]_vars /\ Fairness

-----------------------------------------------------------------------------
ServiceErrors == {"none", "ProtocolFailure", "DispatchFailure", "SourceFailure",
                  "TransportFailure", "InternalFailure", "DispatchBudgetExceeded"}

Live == results.failure = NoFailure /\ failure = "none"

\* Every variable keeps the range of the field it models.
TypeOK ==
    /\ results.protocol \in Validators /\ wv \in Validators
    /\ results.failure \in ResultFailures \cup {NoFailure}
    /\ reads.failure \in BrokerFailures \cup {NoFailure}
    /\ reads.requests_charged \in 0..MaximumReads
    /\ reads.reply_payload_bytes_charged \in 0..MaximumReplyBytes
    /\ failure \in ServiceErrors
    /\ phase \in OpenPhases \cup {"Connecting", "AwaitingReady", "Closed", "Terminal"}
    /\ pc \in {"Handshake", "Loop", "AwaitReply", "Done", "Failed"}
    /\ next_request_id \in RequestIds
    /\ Len(toWorker) <= PipeCapacity /\ Len(toParent) <= PipeCapacity
    /\ outcomeAtParent \in [RequestIds -> Outcomes]
    /\ outcomeAtWorker \in [RequestIds -> Outcomes]

(* No interleaving of two conforming peers breaks the ordering rules: every  *)
(* cancel, completion, read and reply that can cross is accepted by both     *)
(* validators, which can only run out of budget.  The service never meets    *)
(* the state its InternalFailure stands for, and the parent's result session *)
(* never finds a result without the request it belongs to.                   *)
BudgetErrors == {NoError, "MessageBudgetExceeded", "ByteBudgetExceeded"}

NoOrderingFailure ==
    /\ results.protocol.error \in BudgetErrors
    /\ wv.error \in BudgetErrors
    /\ failure # "InternalFailure"
    /\ failure = "ProtocolFailure" => wv.error # NoError
    /\ results.failure \notin {"InvalidState", "ResultValidation"}

(* The parent never reports an end of a request that the worker did not give *)
(* it: a completion that beat a cancel is a completion at both ends, and an  *)
(* acknowledged cancel is one at both ends.                                  *)
OutcomeAgreement ==
    \A i \in RequestIds :
        outcomeAtParent[i] # "open" => outcomeAtParent[i] = outcomeAtWorker[i]

(* The catalog is exactly what one enumeration reported, complete, in order  *)
(* and never cancelled.                                                      *)
CatalogIsWholeEnumeration ==
    results.catalog # None =>
        LET c == The(results.catalog)
            request == asked.enumerate[c.generation] IN
        /\ c.generation = results.enumeration_counter
        /\ c.entries = emitted[request]
        /\ outcomeAtWorker[request] = "complete"
        /\ request \notin asked.cancel

(* The sink is given the bytes of the entry in order, without a gap or a     *)
(* repeat, and a stream that completed delivered exactly the declared size.  *)
StreamIsExact ==
    /\ sink = [i \in 1..Len(sink) |-> i]
    /\ Len(sink) <= asked.size
    /\ streaming /\ phase = "Idle" => Len(sink) = asked.size

-----------------------------------------------------------------------------
(* A request ends: the dispatch budget bounds a dispatcher that never does.  *)
RequestsEnd ==
    phase \in {"Enumerating", "Streaming"} ~> phase \notin {"Enumerating", "Streaming"}

(* A cancel is resolved by an acknowledgement, by the completion that beat   *)
(* it, or by the end of the session.                                         *)
CancelsResolve == phase = "Cancelling" ~> phase # "Cancelling"

(* After a shutdown, or once the parent retired, the worker's lifetime ends. *)
WorkerEnds == phase \in {"Closed", "Terminal"} ~> pc \in {"Done", "Failed"}
=============================================================================
