-------------------------- MODULE UntrustedWorker ---------------------------
(***************************************************************************)
(* The parent session against a worker that is not trusted: it may write   *)
(* any well-formed frame at any time, never read, or vanish.  What the     *)
(* parent then promotes, serves and hands to the sink must still be sound. *)
(***************************************************************************)
EXTENDS ParserSession

CONSTANT WorkerFrames       \* the frames the worker may write

ASSUME WorkerFramesAssumption == \A f \in WorkerFrames : IsWire(f)

untrustedVars == <<parentVars, transportVars>>

UntrustedInit == TransportInit /\ ParentInit

\* The process at the other end of the pipes, whatever it runs.
WorkerWrites(f) ==
    /\ WorkerMaySend
    /\ toParent' = Append(toParent, f)
    /\ UNCHANGED <<parentVars, toWorker, parentIo, workerIo>>

WorkerReads ==
    /\ toWorker # <<>>
    /\ toWorker' = Tail(toWorker)
    /\ UNCHANGED <<parentVars, toParent, parentIo, workerIo>>

WorkerVanishes ==
    /\ workerIo = "open"
    /\ workerIo' = "closed"
    /\ UNCHANGED <<parentVars, toWorker, toParent, parentIo>>

UntrustedNext ==
    \/ ParentNext
    \/ \E f \in WorkerFrames : WorkerWrites(f)
    \/ WorkerReads
    \/ WorkerVanishes

UntrustedSpec == UntrustedInit /\ [][UntrustedNext]_untrustedVars

-----------------------------------------------------------------------------
CatalogEntries ==
    IF results.catalog = None THEN <<>> ELSE The(results.catalog).entries

(* Whatever the worker sends, the catalog's tokens are strictly increasing   *)
(* across all batches, no two entries share a path and the entries together  *)
(* stay within the parent's own limits; and it is gone once the session is   *)
(* cancelled, closed or retired.                                             *)
CatalogIsSound ==
    /\ \A i, j \in 1..Len(CatalogEntries) :
           i < j => /\ CatalogEntries[i].token < CatalogEntries[j].token
                    /\ CatalogEntries[i].path # CatalogEntries[j].path
    /\ Len(CatalogEntries) <= MaximumEntries
    /\ TotalBytes(CatalogEntries) <= MaximumTotalBytes
    /\ results.catalog # None => phase \in {"Idle", "Streaming"}

(* The typestate phase the caller holds is the state of the validator: a     *)
(* phase that survives a call never disagrees with what the validator saw.   *)
PhaseAgrees ==
    /\ phase \in OpenPhases \cup {"Closed"} =>
           /\ results.failure = NoFailure
           /\ results.protocol.state = phase
           /\ reads.failure = NoFailure
           /\ reads.pending = None
    /\ phase \in {"Enumerating", "Streaming", "Cancelling"} =>
           active_request_id = results.protocol.active_request_id
    /\ phase = "Enumerating" => results.candidate # None
    /\ phase = "Streaming" => results.stream # None

(* The destination never receives more than the entry declared, and a stream *)
(* reported complete delivered all of it.                                    *)
SinkIsBounded ==
    /\ Len(sink) <= asked.size
    /\ streaming /\ phase = "Idle" => Len(sink) = asked.size

(* Every read is charged before it is served, and only a read of the open    *)
(* request is: the reads charged never exceed the quota, and the sequence    *)
(* the broker expects next counts the replies of this request.               *)
ReadsAreCharged ==
    /\ reads.requests_charged <= MaximumReads
    /\ reads.reply_payload_bytes_charged <= MaximumReplyBytes
    /\ phase \in OpenPhases /\ reads.committed_request_id # None =>
           /\ The(reads.committed_request_id) <= results.protocol.last_request_id
           /\ reads.next_sequence - 1 <= reads.requests_charged
=============================================================================
