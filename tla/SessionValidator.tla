-------------------------- MODULE SessionValidator --------------------------
(***************************************************************************)
(* The OWP/1 session-ordering validator of ohl-parser-protocol             *)
(* (session.rs), as a pure function of the validator and of one observed   *)
(* frame header.  Both peers of a session run one validator and feed it    *)
(* every header they send or receive, so each sees its own interleaving of *)
(* the duplex traffic.                                                     *)
(*                                                                         *)
(* A validator is a record whose fields are those of the Rust struct; a    *)
(* header is the record [type, sid, req, len, envelope], where "envelope"  *)
(* stands for the version and the flag fields of the fixed header.         *)
(***************************************************************************)
EXTENDS Integers

CONSTANTS
    SessionIdent,      \* the non-zero session id every frame must carry
    MaxFramePayload    \* MAXIMUM_FRAME_PAYLOAD_BYTES

ASSUME SessionIdentAssumption == SessionIdent \in Nat \ {0}
ASSUME MaxFramePayloadAssumption == MaxFramePayload \in Nat \ {0}

Directions == {"ParentToWorker", "WorkerToParent"}

SessionStates == {"AwaitingHello", "AwaitingReady", "Idle", "Enumerating",
                  "Streaming", "Cancelling", "Cancelled", "Closed", "Failed"}

ZeroRequestTypes == {"Hello", "Ready", "Shutdown"}

MessageTypes == ZeroRequestTypes \cup
    {"Enumerate", "StreamEntry", "ReadRequest", "ReadReply", "EntryBatch",
     "DataChunk", "Complete", "Cancel", "CancelAck"}

Envelopes == {"ok", "UnsupportedVersion", "ReservedFlags"}

ProtocolErrors ==
    {"UnsupportedVersion", "ReservedFlags", "PayloadTooLarge",
     "InvalidSessionId", "InvalidRequestId", "WrongSessionId",
     "MessageBudgetExceeded", "ByteBudgetExceeded", "UnexpectedMessage",
     "RequestAlreadyActive", "WrongRequestId", "ReadAlreadyActive",
     "NoReadInFlight", "RequestIdNotMonotonic", "TerminalState"}

\* Option<ProtocolError>::None.
NoError == "none"

\* ProtocolBudgets: both ceilings are positive.
Budgets == [messages : Nat \ {0}, bytes : Nat \ {0}]

FrameHeaders ==
    [type : MessageTypes, sid : Nat, req : Nat, len : Nat, envelope : Envelopes]

Validators ==
    [state : SessionStates,
     error : ProtocolErrors \cup {NoError},
     active_request_id : Nat,
     last_request_id : Nat,
     completed_request_id : Nat,
     late_read_reply_request_id : Nat,
     message_count : Nat,
     payload_bytes : Nat,
     active_result_type : {"Complete", "EntryBatch", "DataChunk"},
     read_in_flight : BOOLEAN,
     accept_late_cancel : BOOLEAN,
     crossed_read_request_seen : BOOLEAN]

NewValidator ==
    [state |-> "AwaitingHello",
     error |-> NoError,
     active_request_id |-> 0,
     last_request_id |-> 0,
     completed_request_id |-> 0,
     late_read_reply_request_id |-> 0,
     message_count |-> 0,
     payload_bytes |-> 0,
     active_result_type |-> "Complete",
     read_in_flight |-> FALSE,
     accept_late_cancel |-> FALSE,
     crossed_read_request_seen |-> FALSE]

Header(type, req, len) ==
    [type |-> type, sid |-> SessionIdent, req |-> req, len |-> len,
     envelope |-> "ok"]

-----------------------------------------------------------------------------
(* FrameHeader::validate: the first rule of the fixed header that h breaks. *)
HeaderError(h) ==
    IF h.envelope # "ok" THEN h.envelope
    ELSE IF h.len > MaxFramePayload THEN "PayloadTooLarge"
    ELSE IF h.sid = 0 THEN "InvalidSessionId"
    ELSE IF (h.type \in ZeroRequestTypes) # (h.req = 0) THEN "InvalidRequestId"
    ELSE NoError

(* SessionValidator::fail: sticky, and it closes the late-reply window. *)
Fail(v, e) ==
    [v EXCEPT !.late_read_reply_request_id = 0,
              !.error = e,
              !.state = "Failed"]

(* Mutant: an off-by-one in the monotonicity test, so an id can be reused. *)
BeginRequestReusingId(v, h, state) ==
    IF h.req < v.last_request_id THEN Fail(v, "RequestIdNotMonotonic")
    ELSE [v EXCEPT !.last_request_id = h.req,
                   !.active_request_id = h.req,
                   !.accept_late_cancel = FALSE,
                   !.state = state]

(* Mutant: a new request that leaves the late-cancel window of the last one open. *)
BeginRequestKeepingWindow(v, h, state) ==
    IF h.req <= v.last_request_id THEN Fail(v, "RequestIdNotMonotonic")
    ELSE [v EXCEPT !.last_request_id = h.req,
                   !.active_request_id = h.req,
                   !.completed_request_id = 0,
                   !.state = state]

\* begin_request: a top-level request needs an id never used before.
BeginRequest(v, h, state) ==
    IF h.req <= v.last_request_id THEN Fail(v, "RequestIdNotMonotonic")
    ELSE [v EXCEPT !.last_request_id = h.req,
                   !.active_request_id = h.req,
                   !.completed_request_id = 0,
                   !.late_read_reply_request_id = 0,
                   !.accept_late_cancel = FALSE,
                   !.read_in_flight = FALSE,
                   !.crossed_read_request_seen = FALSE,
                   !.active_result_type =
                       IF state = "Enumerating" THEN "EntryBatch" ELSE "DataChunk",
                   !.state = state]

(* Mutant: completion never opens the window for the cancel it beat. *)
CompleteRequestWithoutWindow(v, acceptLateCancel) ==
    [v EXCEPT !.completed_request_id = v.active_request_id,
              !.active_request_id = 0,
              !.read_in_flight = FALSE,
              !.crossed_read_request_seen = FALSE,
              !.state = "Idle"]

CompleteRequest(v, acceptLateCancel) ==
    [v EXCEPT !.completed_request_id = v.active_request_id,
              !.active_request_id = 0,
              !.late_read_reply_request_id = 0,
              !.read_in_flight = FALSE,
              !.crossed_read_request_seen = FALSE,
              !.accept_late_cancel = acceptLateCancel,
              !.state = "Idle"]

\* The reply to the outstanding read was observed.
ReadAnswered(v) == [v EXCEPT !.read_in_flight = FALSE]

ReadIssued(v) == [v EXCEPT !.read_in_flight = TRUE]

CancelSeen(v) ==
    [v EXCEPT !.crossed_read_request_seen = FALSE, !.state = "Cancelling"]

\* A read first seen after the cancel: it will never be served.
ReadCrossed(v) == [v EXCEPT !.crossed_read_request_seen = TRUE]

\* A read that preceded the cancel may still be answered, exactly once.
CancelAcked(v) ==
    [v EXCEPT !.late_read_reply_request_id =
                  IF v.read_in_flight THEN v.active_request_id ELSE 0,
              !.active_request_id = 0,
              !.read_in_flight = FALSE,
              !.crossed_read_request_seen = FALSE,
              !.state = "Cancelled"]

-----------------------------------------------------------------------------
ObserveActive(v, d, h, resultType) ==
    IF h.type \in {"Enumerate", "StreamEntry"} THEN Fail(v, "RequestAlreadyActive")
    ELSE IF h.req = 0 THEN Fail(v, "UnexpectedMessage")
    ELSE IF h.req # v.active_request_id THEN Fail(v, "WrongRequestId")
    ELSE CASE h.type = "ReadRequest" /\ d = "WorkerToParent" ->
                IF v.read_in_flight THEN Fail(v, "ReadAlreadyActive")
                ELSE ReadIssued(v)
           [] h.type = "ReadReply" /\ d = "ParentToWorker" ->
                IF ~v.read_in_flight THEN Fail(v, "NoReadInFlight")
                ELSE ReadAnswered(v)
           [] h.type = resultType /\ d = "WorkerToParent" ->
                IF v.read_in_flight THEN Fail(v, "UnexpectedMessage") ELSE v
           [] h.type = "Complete" /\ d = "WorkerToParent" ->
                IF v.read_in_flight THEN Fail(v, "UnexpectedMessage")
                ELSE CompleteRequest(v, TRUE)
           [] h.type = "Cancel" /\ d = "ParentToWorker" ->
                CancelSeen(v)
           [] OTHER -> Fail(v, "UnexpectedMessage")

ObserveIdle(v, d, h) ==
    IF d # "ParentToWorker" THEN Fail(v, "UnexpectedMessage")
    ELSE CASE h.type = "Enumerate" -> BeginRequest(v, h, "Enumerating")
           [] h.type = "StreamEntry" -> BeginRequest(v, h, "Streaming")
           [] h.type = "Shutdown" -> [v EXCEPT !.state = "Closed"]
           [] h.type = "Cancel" /\ v.accept_late_cancel ->
                IF h.req # v.completed_request_id THEN Fail(v, "WrongRequestId")
                ELSE [v EXCEPT !.accept_late_cancel = FALSE]
           [] OTHER -> Fail(v, "UnexpectedMessage")

\* While a cancel is pending, only same-request traffic may cross it.
ObserveCancelling(v, d, h) ==
    LET blocked == v.read_in_flight \/ v.crossed_read_request_seen IN
    IF h.req # v.active_request_id THEN Fail(v, "WrongRequestId")
    ELSE CASE h.type = "CancelAck" /\ d = "WorkerToParent" ->
                CancelAcked(v)
           [] h.type = "Complete" /\ d = "WorkerToParent" ->
                IF blocked THEN Fail(v, "UnexpectedMessage")
                ELSE CompleteRequest(v, FALSE)
           [] h.type = "ReadRequest" /\ d = "WorkerToParent" ->
                IF blocked THEN Fail(v, "ReadAlreadyActive")
                ELSE ReadCrossed(v)
           [] h.type = "ReadReply" /\ d = "ParentToWorker" ->
                IF ~v.read_in_flight THEN Fail(v, "NoReadInFlight")
                ELSE ReadAnswered(v)
           [] h.type = v.active_result_type /\ d = "WorkerToParent" ->
                IF blocked THEN Fail(v, "UnexpectedMessage") ELSE v
           [] OTHER -> Fail(v, "UnexpectedMessage")

ObserveCancelled(v, d, h) ==
    CASE d = "ParentToWorker" /\ h.type = "Shutdown" ->
           [v EXCEPT !.late_read_reply_request_id = 0, !.state = "Closed"]
      [] /\ d = "ParentToWorker" /\ h.type = "ReadReply"
         /\ v.late_read_reply_request_id # 0 ->
           IF h.req # v.late_read_reply_request_id THEN Fail(v, "WrongRequestId")
           ELSE [v EXCEPT !.late_read_reply_request_id = 0]
      [] OTHER -> Fail(v, "TerminalState")

\* The match of observe on the state, once the frame has been charged.
ObserveInState(v, d, h) ==
    CASE v.state = "AwaitingHello" ->
           IF d = "ParentToWorker" /\ h.type = "Hello"
           THEN [v EXCEPT !.state = "AwaitingReady"]
           ELSE Fail(v, "UnexpectedMessage")
      [] v.state = "AwaitingReady" ->
           IF d = "WorkerToParent" /\ h.type = "Ready"
           THEN [v EXCEPT !.state = "Idle"]
           ELSE Fail(v, "UnexpectedMessage")
      [] v.state = "Idle" -> ObserveIdle(v, d, h)
      [] v.state = "Enumerating" -> ObserveActive(v, d, h, "EntryBatch")
      [] v.state = "Streaming" -> ObserveActive(v, d, h, "DataChunk")
      [] v.state = "Cancelling" -> ObserveCancelling(v, d, h)
      [] v.state = "Cancelled" -> ObserveCancelled(v, d, h)
      [] OTHER -> Fail(v, "TerminalState")

(* charge: a frame that exceeds the byte budget has already been counted as *)
(* a message, and neither counter ever passes its ceiling.                   *)
Charge(v, h, b) ==
    IF v.message_count >= b.messages THEN Fail(v, "MessageBudgetExceeded")
    ELSE LET counted == [v EXCEPT !.message_count = @ + 1] IN
         IF h.len > b.bytes - v.payload_bytes
         THEN Fail(counted, "ByteBudgetExceeded")
         ELSE [counted EXCEPT !.payload_bytes = @ + h.len]

(* observe: the sticky failure, the closed session, the header, the        *)
(* session id and the two budgets are checked in this order.                *)
Observe(v, d, h, b) ==
    IF v.error # NoError THEN v
    ELSE IF v.state = "Closed" THEN Fail(v, "TerminalState")
    ELSE IF HeaderError(h) # NoError THEN Fail(v, HeaderError(h))
    ELSE IF h.sid # SessionIdent THEN Fail(v, "WrongSessionId")
    ELSE LET charged == Charge(v, h, b) IN
         IF charged.error # NoError THEN charged
         ELSE ObserveInState(charged, d, h)

-----------------------------------------------------------------------------
(* What a validator w promises, whatever it has observed. *)

RequestStates == {"Enumerating", "Streaming", "Cancelling"}

(* The flags of a live validator agree with its state. *)
Consistent(w) ==
    w.error = NoError =>
        /\ w.state # "Failed"
        /\ (w.active_request_id # 0) <=> (w.state \in RequestStates)
        /\ w.state \in RequestStates => w.active_request_id = w.last_request_id
        /\ w.read_in_flight => w.state \in RequestStates
        /\ w.crossed_read_request_seen =>
               w.state = "Cancelling" /\ ~w.read_in_flight
        /\ w.accept_late_cancel =>
               /\ w.state \in {"Idle", "Closed"}
               /\ w.completed_request_id = w.last_request_id
               /\ w.completed_request_id # 0
        /\ w.state \in RequestStates => w.active_result_type # "Complete"
        /\ w.state = "Enumerating" => w.active_result_type = "EntryBatch"
        /\ w.state = "Streaming" => w.active_result_type = "DataChunk"

LateWindowOf(w) ==
    w.late_read_reply_request_id # 0 =>
        /\ w.state = "Cancelled"
        /\ w.error = NoError
        /\ w.late_read_reply_request_id = w.last_request_id

WithinBudgets(w, b) ==
    /\ w.message_count <= b.messages
    /\ w.payload_bytes <= b.bytes
=============================================================================
