-------------------------- MODULE SourceReadBroker --------------------------
(***************************************************************************)
(* ohl-import's SourceReadBroker (source_read_broker.rs): the only part of *)
(* the parent that touches the pinned source.  It answers one read request *)
(* at a time in two halves, prepare and commit (or abandon), around the    *)
(* transport's send, and charges its quotas before it reads.               *)
(*                                                                         *)
(* Operations return the pair [b, r] of the broker and its result session. *)
(***************************************************************************)
EXTENDS ResultSession

CONSTANTS
    MaximumReads,         \* SourceReadLimits::maximum_requests
    MaximumReplyBytes,    \* SourceReadLimits::maximum_reply_payload_bytes
    MaxSequence           \* u32::MAX of the read sequence

ASSUME BrokerLimitsAssumption ==
    /\ MaximumReads \in Nat \ {0} /\ MaximumReplyBytes \in Nat \ {0}
    /\ MaxSequence \in Nat \ {0}

BrokerFailures ==
    {"SequenceExhausted", "RequestBudgetExceeded", "ByteBudgetExceeded",
     "Protocol", "Internal", "SourceChanged", "SourceReadFailure",
     "TransportAbandoned"}

ReplyStatuses == {"Ok", "SourceChanged", "SourceReadFailed"}

NewBroker ==
    [failure |-> NoFailure, committed_request_id |-> None, next_sequence |-> 1,
     sequence_exhausted |-> FALSE, requests_charged |-> 0,
     reply_payload_bytes_charged |-> 0, pending |-> None]

\* fail: the first failure is kept and the session is retired with the broker.
BrokerFail(b, r, e) ==
    IF b.failure # NoFailure THEN [b |-> b, r |-> r]
    ELSE [b |-> [b EXCEPT !.failure = e, !.pending = None],
          r |-> Retire(r, "WorkerFailure")]

\* map_session_error
SessionErrorOf(r) == IF r.failure = "Protocol" THEN "Protocol" ELSE "Internal"

ExpectedSequence(b, f) ==
    IF b.committed_request_id = Some(f.h.req) THEN b.next_sequence ELSE 1

(* service: verify, read, verify.  A change of the source seen by any of    *)
(* the three wins over the outcome of the read.                             *)
Service(before, read, after) ==
    CASE before # "Ok" -> before
      [] before = "Ok" /\ after # "Ok" -> after
      [] OTHER -> read

ServiceOutcomes ==
    {Service(before, read, after) :
        before \in ReplyStatuses, read \in ReplyStatuses, after \in ReplyStatuses}

ReadQuotaSpent(b) == b.requests_charged >= MaximumReads

(* Mutant: a reply is compared with the whole quota, not with what is left. *)
ReplyFitsAlone(b, size) == size <= MaximumReplyBytes

ReplyFits(b, size) == size <= MaximumReplyBytes - b.reply_payload_bytes_charged

\* A read request is ignored once the parent sent its cancel.
IgnoresReads(r) == r.protocol.state = "Cancelling"

(* prepare: validates the request, charges it, serves it from the source    *)
(* and leaves the reply pending.  While a cancel is pending the request is  *)
(* consumed and nothing is charged, read or owed.                           *)
Prepare(b, r, f, status) ==
    LET expected == ExpectedSequence(b, f)
        cancelling == IgnoresReads(r)
        length == f.body[2]
        replySize == 1 + length
        accepted == AcceptReadRequest(r, f, expected)
    IN
    IF b.failure # NoFailure THEN [b |-> b, r |-> r]
    ELSE IF b.committed_request_id = Some(f.h.req) /\ b.sequence_exhausted
    THEN BrokerFail(b, r, "SequenceExhausted")
    ELSE IF f.body[1] # expected
    THEN BrokerFail(b, accepted, SessionErrorOf(accepted))
    ELSE IF ~cancelling /\ ReadQuotaSpent(b)
    THEN BrokerFail(b, r, "RequestBudgetExceeded")
    ELSE IF ~cancelling /\ ~ReplyFits(b, replySize)
    THEN BrokerFail(b, r, "ByteBudgetExceeded")
    ELSE IF accepted.failure # NoFailure
    THEN BrokerFail(b, accepted, SessionErrorOf(accepted))
    ELSE IF cancelling THEN [b |-> b, r |-> accepted]
    ELSE [b |-> [b EXCEPT
                    !.requests_charged = @ + 1,
                    !.reply_payload_bytes_charged = @ + replySize,
                    !.pending = Some([request_id |-> f.h.req,
                                      sequence |-> expected,
                                      status |-> status,
                                      length |-> IF status = "Ok" THEN length ELSE 0])],
          r |-> accepted]

\* The frame of the pending reply, sent verbatim by the transport.
PreparedReply(b) ==
    LET p == The(b.pending) IN
    Frame("ReadReply", p.request_id, <<p.sequence, p.status, p.length>>)

\* commit_reply_sent: the transport took the whole reply.
CommitReplySent(b, r) ==
    LET p == The(b.pending)
        accepted == AcceptReadReply(r, PreparedReply(b), p.sequence)
        taken == [b EXCEPT !.pending = None]
    IN
    IF p.status = "Ok" THEN
        IF accepted.failure # NoFailure
        THEN BrokerFail(taken, accepted, SessionErrorOf(accepted))
        ELSE [b |-> [taken EXCEPT
                        !.committed_request_id = Some(p.request_id),
                        !.sequence_exhausted = (p.sequence = MaxSequence),
                        !.next_sequence = IF p.sequence = MaxSequence THEN @
                                          ELSE p.sequence + 1],
              r |-> accepted]
    ELSE BrokerFail(taken, accepted,
            CASE p.status = "SourceChanged" /\ accepted.failure = "SourceInvalidated" ->
                   "SourceChanged"
              [] p.status = "SourceReadFailed" /\ accepted.failure = "SourceReadFailure" ->
                   "SourceReadFailure"
              [] OTHER -> SessionErrorOf(accepted))

\* abandon_reply: a reply that may be half delivered ends the session.
AbandonReply(b, r) == BrokerFail([b EXCEPT !.pending = None], r, "TransportAbandoned")
=============================================================================
