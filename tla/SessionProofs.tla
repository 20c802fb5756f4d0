--------------------------- MODULE SessionProofs ----------------------------
(***************************************************************************)
(* The parts of a session by themselves.  First what all its proofs share: *)
(* induction over the natural numbers, ordered sequences, the promises of  *)
(* a validator, what an accepted frame of each type does to it, and which  *)
(* frames it accepts.  Then one validator, for every budget, every set of  *)
(* headers and every interleaving: the invariants of OwpValidator and its  *)
(* refinement of RequestLifecycle.  Then the parent's half against every   *)
(* worker: for any limits, any set of frames and any order of them, what   *)
(* becomes the catalog is sound, the typestate phase agrees with the       *)
(* validator, the sink takes no more than was declared and every read is   *)
(* charged.                                                                *)
(***************************************************************************)
EXTENDS OwpValidator, UntrustedWorker, SequenceTheorems, WellFoundedInduction, TLAPS

(* The least-number principle and induction, about sets of numbers. *)
Below == {pair \in Nat \X Nat : pair[1] < pair[2]}

LEMMA BelowIsWellFounded == IsWellFoundedOn(Below, Nat)
<1>1. Below = OpToRel(<, Nat)
  BY DEF Below, OpToRel
<1> QED BY <1>1, NatLessThanWellFounded

LEMMA LeastNumber ==
    ASSUME NEW S, S \subseteq Nat, S # {}
    PROVE  \E n \in S : \A m \in S : n <= m
<1>1. PICK n \in S : \A m \in S : ~(<<m, n>> \in Below)
  BY BelowIsWellFounded, WFMin
<1>2. ASSUME NEW m \in S PROVE n <= m
  <2>1. <<m, n>> \notin Below /\ m \in Nat /\ n \in Nat
    BY <1>1
  <2>2. ~(m < n)
    BY <2>1 DEF Below
  <2> QED BY <2>1, <2>2
<1> QED BY <1>2

LEMMA Induction ==
    ASSUME NEW S, 0 \in S, \A n \in Nat : n \in S => n + 1 \in S
    PROVE  Nat \subseteq S
<1> SUFFICES ASSUME Nat \ S # {} PROVE FALSE
  OBVIOUS
<1>1. PICK n \in Nat \ S : \A m \in Nat \ S : n <= m
  BY LeastNumber
<1>2. n # 0 /\ n - 1 \in Nat /\ n - 1 \in S
  BY <1>1
<1> QED BY <1>1, <1>2

(* Numbers that grow from each to the next grow throughout. *)
LEMMA GrowingIsOrdered ==
    ASSUME NEW N \in Nat, NEW f, \A i \in 1..N : f[i] \in Int,
           \A i \in 1..N-1 : f[i] < f[i + 1]
    PROVE  \A i, j \in 1..N : i < j => f[i] < f[j]
<1> DEFINE S == {k \in Nat : \A i \in 1..N : i + k + 1 \in 1..N => f[i] < f[i + k + 1]}
<1>1. 0 \in S
  OBVIOUS
<1>2. ASSUME NEW k \in Nat, k \in S PROVE k + 1 \in S
  <2> SUFFICES ASSUME NEW i \in 1..N, i + (k + 1) + 1 \in 1..N
               PROVE  f[i] < f[i + (k + 1) + 1]
    OBVIOUS
  <2>1. i + k + 1 \in 1..N-1 /\ f[i] < f[i + k + 1]
    BY <1>2
  <2>2. f[i + k + 1] < f[i + k + 1 + 1]
    BY <2>1
  <2> QED BY <2>1, <2>2
<1>3. Nat \subseteq S
  <2> HIDE DEF S
  <2> QED BY <1>1, <1>2, Induction
<1> SUFFICES ASSUME NEW i \in 1..N, NEW j \in 1..N, i < j PROVE f[i] < f[j]
  OBVIOUS
<1>4. j - i - 1 \in Nat /\ j = i + (j - i - 1) + 1
  OBVIOUS
<1>5. j - i - 1 \in S
  BY <1>3, <1>4
<1> QED BY <1>4, <1>5

-----------------------------------------------------------------------------
(* One validator is well typed, consistent and within its budgets: the     *)
(* inductive invariant, as a predicate of a validator value.               *)
Sound(w, b) ==
    /\ w \in Validators
    /\ Consistent(w)
    /\ LateWindowOf(w)
    /\ WithinBudgets(w, b)

(* A failed validator is sound if the validator it failed from was. *)
LEMMA FailIsSound ==
    ASSUME NEW b, NEW w, w \in Validators, WithinBudgets(w, b), NEW e \in ProtocolErrors
    PROVE  Sound(Fail(w, e), b)
BY DEF Fail, Sound, Validators, Consistent, LateWindowOf, WithinBudgets,
       SessionStates, ProtocolErrors, NoError, RequestStates

(* CompleteRequest is sound from any open request. *)
LEMMA CompleteIsSound ==
    ASSUME NEW b, NEW w, Sound(w, b), w.error = NoError, w.state \in RequestStates,
           NEW accept \in BOOLEAN
    PROVE  Sound(CompleteRequest(w, accept), b)
BY DEF CompleteRequest, Sound, Validators, Consistent, LateWindowOf, WithinBudgets,
       SessionStates, ProtocolErrors, NoError, RequestStates

(* BeginRequest is sound from an idle session. *)
LEMMA BeginIsSound ==
    ASSUME NEW b, NEW w, Sound(w, b), w.error = NoError, w.state = "Idle",
           NEW h \in FrameHeaders, NEW s \in {"Enumerating", "Streaming"}
    PROVE  Sound(BeginRequest(w, h, s), b)
<1>1. CASE h.req <= w.last_request_id
  BY <1>1, FailIsSound DEF BeginRequest, Sound, ProtocolErrors
<1>2. CASE ~(h.req <= w.last_request_id)
  <2>1. h.req \in Nat /\ h.req # 0
    BY <1>2 DEF FrameHeaders, Sound, Validators
  <2> QED
    BY <1>2, <2>1 DEF BeginRequest, Sound, Validators, Consistent, LateWindowOf,
       WithinBudgets, SessionStates, NoError, RequestStates
<1> QED BY <1>1, <1>2

(* The validators that each observe_* handler can return. *)
LEMMA ActiveOutcomes ==
    ASSUME NEW w, NEW d, NEW h, NEW r
    PROVE  ObserveActive(w, d, h, r) \in
             {Fail(w, "RequestAlreadyActive"), Fail(w, "UnexpectedMessage"),
              Fail(w, "WrongRequestId"), Fail(w, "ReadAlreadyActive"),
              Fail(w, "NoReadInFlight"), CompleteRequest(w, TRUE), w,
              ReadIssued(w),
              ReadAnswered(w),
              CancelSeen(w)}
BY DEF ObserveActive

LEMMA IdleOutcomes ==
    ASSUME NEW w, NEW d, NEW h
    PROVE  ObserveIdle(w, d, h) \in
             {Fail(w, "UnexpectedMessage"), Fail(w, "WrongRequestId"),
              BeginRequest(w, h, "Enumerating"), BeginRequest(w, h, "Streaming"),
              [w EXCEPT !.state = "Closed"],
              [w EXCEPT !.accept_late_cancel = FALSE]}
BY DEF ObserveIdle

LEMMA CancelledOutcomes ==
    ASSUME NEW w, NEW d, NEW h
    PROVE  ObserveCancelled(w, d, h) \in
             {Fail(w, "TerminalState"), Fail(w, "WrongRequestId"),
              [w EXCEPT !.late_read_reply_request_id = 0, !.state = "Closed"],
              [w EXCEPT !.late_read_reply_request_id = 0]}
BY DEF ObserveCancelled

LEMMA CancellingOutcomes ==
    ASSUME NEW w, NEW d, NEW h
    PROVE  \/ ObserveCancelling(w, d, h) \in
                {Fail(w, "WrongRequestId"), Fail(w, "UnexpectedMessage"),
                 Fail(w, "ReadAlreadyActive"), Fail(w, "NoReadInFlight"),
                 CompleteRequest(w, FALSE), w,
                 ReadAnswered(w),
                 CancelAcked(w)}
           \/ /\ ~w.read_in_flight
              /\ ObserveCancelling(w, d, h) =
                     ReadCrossed(w)
<1>1. CASE w.read_in_flight \/ w.crossed_read_request_seen
  BY <1>1, Zenon DEF ObserveCancelling
<1>2. CASE ~(w.read_in_flight \/ w.crossed_read_request_seen)
  <2>1. ~w.read_in_flight
    BY <1>2
  <2>2. ObserveCancelling(w, d, h) \in
          {Fail(w, "WrongRequestId"), Fail(w, "UnexpectedMessage"),
           Fail(w, "NoReadInFlight"), CompleteRequest(w, FALSE), w,
           ReadAnswered(w), CancelAcked(w), ReadCrossed(w)}
    BY <1>2 DEF ObserveCancelling
  <2> QED BY <2>1, <2>2
<1> QED BY <1>1, <1>2

-----------------------------------------------------------------------------
(* Every failure the handlers can raise leaves a sound validator. *)
LEMMA FailuresAreSound ==
    ASSUME NEW b, NEW w, Sound(w, b)
    PROVE  /\ Sound(Fail(w, "RequestAlreadyActive"), b)
           /\ Sound(Fail(w, "UnexpectedMessage"), b)
           /\ Sound(Fail(w, "WrongRequestId"), b)
           /\ Sound(Fail(w, "ReadAlreadyActive"), b)
           /\ Sound(Fail(w, "NoReadInFlight"), b)
           /\ Sound(Fail(w, "TerminalState"), b)
<1>1. \A e \in ProtocolErrors : Sound(Fail(w, e), b)
  BY FailIsSound DEF Sound
<1> QED BY <1>1 DEF ProtocolErrors

(* A handler keeps a live, sound validator sound, whatever the frame. *)
LEMMA ActiveIsSound ==
    ASSUME NEW b, NEW w, Sound(w, b), w.error = NoError, NEW d, NEW h, NEW r,
           w.state \in {"Enumerating", "Streaming"}
    PROVE  Sound(ObserveActive(w, d, h, r), b)
<1>1. Sound(CompleteRequest(w, TRUE), b)
  BY CompleteIsSound DEF RequestStates
<1>2. /\ Sound(ReadIssued(w), b)
      /\ Sound(ReadAnswered(w), b)
  BY DEF ReadIssued, ReadAnswered, ReadCrossed, CancelSeen, CancelAcked, Sound, Validators,
         Consistent, LateWindowOf, WithinBudgets, RequestStates, NoError
<1>3. Sound(CancelSeen(w), b)
  BY DEF ReadIssued, ReadAnswered, ReadCrossed, CancelSeen, CancelAcked, Sound, Validators,
         Consistent, LateWindowOf, WithinBudgets, RequestStates,
         SessionStates, NoError
<1> QED BY <1>1, <1>2, <1>3, FailuresAreSound, ActiveOutcomes

LEMMA IdleIsSound ==
    ASSUME NEW b, NEW w, Sound(w, b), w.error = NoError, NEW d, NEW h \in FrameHeaders,
           w.state = "Idle"
    PROVE  Sound(ObserveIdle(w, d, h), b)
<1>1. /\ Sound(BeginRequest(w, h, "Enumerating"), b)
      /\ Sound(BeginRequest(w, h, "Streaming"), b)
  BY BeginIsSound
<1>2. /\ Sound([w EXCEPT !.state = "Closed"], b)
      /\ Sound([w EXCEPT !.accept_late_cancel = FALSE], b)
  BY DEF ReadIssued, ReadAnswered, ReadCrossed, CancelSeen, CancelAcked, Sound, Validators,
         Consistent, LateWindowOf, WithinBudgets, RequestStates,
         SessionStates, NoError
<1> QED BY <1>1, <1>2, FailuresAreSound, IdleOutcomes

LEMMA CancellingIsSound ==
    ASSUME NEW b, NEW w, Sound(w, b), w.error = NoError, NEW d, NEW h, w.state = "Cancelling"
    PROVE  Sound(ObserveCancelling(w, d, h), b)
<1>1. Sound(CompleteRequest(w, FALSE), b)
  BY CompleteIsSound DEF RequestStates
<1>2. /\ Sound(ReadAnswered(w), b)
      /\ ~w.read_in_flight => Sound(ReadCrossed(w), b)
  BY DEF ReadIssued, ReadAnswered, ReadCrossed, CancelSeen, CancelAcked, Sound, Validators,
         Consistent, LateWindowOf, WithinBudgets, RequestStates, NoError
<1>3. Sound(CancelAcked(w), b)
  BY DEF ReadIssued, ReadAnswered, ReadCrossed, CancelSeen, CancelAcked, Sound, Validators,
         Consistent, LateWindowOf, WithinBudgets, RequestStates,
         SessionStates, NoError
<1> QED BY <1>1, <1>2, <1>3, FailuresAreSound, CancellingOutcomes

LEMMA CancelledIsSound ==
    ASSUME NEW b, NEW w, Sound(w, b), w.error = NoError, NEW d, NEW h, w.state = "Cancelled"
    PROVE  Sound(ObserveCancelled(w, d, h), b)
<1>1. /\ Sound([w EXCEPT !.late_read_reply_request_id = 0, !.state = "Closed"], b)
      /\ Sound([w EXCEPT !.late_read_reply_request_id = 0], b)
  BY DEF ReadIssued, ReadAnswered, ReadCrossed, CancelSeen, CancelAcked, Sound, Validators,
         Consistent, LateWindowOf, WithinBudgets, RequestStates,
         SessionStates, NoError
<1> QED BY <1>1, FailuresAreSound, CancelledOutcomes

LEMMA InStateIsSound ==
    ASSUME NEW b, NEW w, Sound(w, b), w.error = NoError, NEW d, NEW h \in FrameHeaders
    PROVE  Sound(ObserveInState(w, d, h), b)
<1>1. w.state = "AwaitingHello" => Sound([w EXCEPT !.state = "AwaitingReady"], b)
  BY DEF ReadIssued, ReadAnswered, ReadCrossed, CancelSeen, CancelAcked, Sound, Validators,
         Consistent, LateWindowOf, WithinBudgets, RequestStates,
         SessionStates, NoError
<1>2. w.state = "AwaitingReady" => Sound([w EXCEPT !.state = "Idle"], b)
  BY DEF ReadIssued, ReadAnswered, ReadCrossed, CancelSeen, CancelAcked, Sound, Validators,
         Consistent, LateWindowOf, WithinBudgets, RequestStates,
         SessionStates, NoError
<1>3. Sound(Fail(w, "UnexpectedMessage"), b) /\ Sound(Fail(w, "TerminalState"), b)
  BY FailuresAreSound
<1>4. w.state = "Idle" => Sound(ObserveIdle(w, d, h), b)
  BY IdleIsSound
<1>5. /\ w.state = "Enumerating" => Sound(ObserveActive(w, d, h, "EntryBatch"), b)
      /\ w.state = "Streaming" => Sound(ObserveActive(w, d, h, "DataChunk"), b)
  BY ActiveIsSound
<1>6. w.state = "Cancelling" => Sound(ObserveCancelling(w, d, h), b)
  BY CancellingIsSound
<1>7. w.state = "Cancelled" => Sound(ObserveCancelled(w, d, h), b)
  BY CancelledIsSound
<1> QED BY <1>1, <1>2, <1>3, <1>4, <1>5, <1>6, <1>7 DEF ObserveInState

LEMMA HeaderErrorType ==
    ASSUME NEW h \in FrameHeaders
    PROVE  HeaderError(h) \in ProtocolErrors \cup {NoError}
BY DEF HeaderError, FrameHeaders, Envelopes, ProtocolErrors, NoError

(* Charging a frame touches the two counters only, and fails rather than    *)
(* pass a ceiling.                                                          *)
LEMMA ChargeIsSound ==
    ASSUME NEW b \in Budgets, NEW w, Sound(w, b), w.error = NoError, NEW h \in FrameHeaders
    PROVE  /\ Sound(Charge(w, h, b), b)
           /\ Charge(w, h, b).last_request_id = w.last_request_id
           /\ Charge(w, h, b).error = NoError =>
                 /\ Charge(w, h, b).state = w.state
                 /\ Charge(w, h, b).active_request_id = w.active_request_id
           /\ Charge(w, h, b).error # NoError =>
                 Charge(w, h, b).state = "Failed"
<1> DEFINE counted == [w EXCEPT !.message_count = @ + 1]
           charged == [counted EXCEPT !.payload_bytes = @ + h.len]
<1>0. /\ w.message_count \in Nat /\ w.payload_bytes \in Nat /\ h.len \in Nat
      /\ b.messages \in Nat /\ b.bytes \in Nat
  BY DEF Sound, Validators, FrameHeaders, Budgets
<1>1. CASE w.message_count >= b.messages
  <2>1. Charge(w, h, b) = Fail(w, "MessageBudgetExceeded")
    BY <1>1 DEF Charge
  <2>2. Sound(Fail(w, "MessageBudgetExceeded"), b)
    BY FailIsSound DEF Sound, ProtocolErrors
  <2>3. /\ Fail(w, "MessageBudgetExceeded").last_request_id = w.last_request_id
        /\ Fail(w, "MessageBudgetExceeded").state = "Failed"
        /\ Fail(w, "MessageBudgetExceeded").error # NoError
    BY DEF Fail, Sound, Validators, NoError
  <2> QED BY <2>1, <2>2, <2>3
<1>2. CASE ~(w.message_count >= b.messages)
  <2>1. counted \in Validators /\ WithinBudgets(counted, b)
    BY <1>0, <1>2 DEF Sound, Validators, WithinBudgets
  <2>2. CASE h.len > b.bytes - w.payload_bytes
    <3>1. Charge(w, h, b) = Fail(counted, "ByteBudgetExceeded")
      BY <1>2, <2>2 DEF Charge
    <3>2. Sound(Fail(counted, "ByteBudgetExceeded"), b)
      BY <2>1, FailIsSound DEF ProtocolErrors
    <3>3. /\ Fail(counted, "ByteBudgetExceeded").last_request_id = w.last_request_id
          /\ Fail(counted, "ByteBudgetExceeded").state = "Failed"
          /\ Fail(counted, "ByteBudgetExceeded").error # NoError
      BY DEF Fail, Sound, Validators, NoError
    <3> QED BY <3>1, <3>2, <3>3
  <2>3. CASE ~(h.len > b.bytes - w.payload_bytes)
    <3>1. Charge(w, h, b) = charged
      BY <1>2, <2>3 DEF Charge
    <3>2. charged \in Validators /\ WithinBudgets(charged, b)
      <4>1. /\ w.payload_bytes + h.len \in Nat
            /\ w.payload_bytes + h.len <= b.bytes
        BY <1>0, <2>3
      <4>2. counted.payload_bytes = w.payload_bytes
        BY DEF Sound, Validators
      <4>3. charged = [counted EXCEPT !.payload_bytes = w.payload_bytes + h.len]
        BY <4>2
      <4> QED BY <2>1, <4>1, <4>3 DEF Validators, WithinBudgets
    <3>3. /\ charged.last_request_id = w.last_request_id
          /\ charged.state = w.state
          /\ charged.active_request_id = w.active_request_id
          /\ charged.error = NoError
      BY DEF Sound, Validators
    <3>4. Consistent(charged) /\ LateWindowOf(charged)
      BY DEF Sound, Validators, Consistent, LateWindowOf
    <3> QED BY <3>1, <3>2, <3>3, <3>4 DEF Sound
  <2> QED BY <2>2, <2>3
<1> QED BY <1>1, <1>2

(* One observation keeps a validator sound, whatever is observed. *)
LEMMA ObserveIsSound ==
    ASSUME NEW b \in Budgets, NEW w, Sound(w, b), NEW d, NEW h \in FrameHeaders
    PROVE  Sound(Observe(w, d, h, b), b)
<1>1. CASE w.error # NoError
  BY <1>1 DEF Observe
<1>2. CASE w.error = NoError
  <2>1. Sound(Fail(w, "TerminalState"), b) /\ Sound(Fail(w, "WrongSessionId"), b)
    BY FailIsSound DEF Sound, ProtocolErrors
  <2>2. HeaderError(h) # NoError => Sound(Fail(w, HeaderError(h)), b)
    BY HeaderErrorType, FailIsSound DEF Sound
  <2>3. Sound(Charge(w, h, b), b)
    BY <1>2, ChargeIsSound
  <2>4. Charge(w, h, b).error = NoError =>
            Sound(ObserveInState(Charge(w, h, b), d, h), b)
    BY <2>3, InStateIsSound
  <2> QED BY <1>2, <2>1, <2>2, <2>3, <2>4 DEF Observe
<1> QED BY <1>1, <1>2

-----------------------------------------------------------------------------
(* What a frame of each type does to a validator that accepts it.  `w' is    *)
(* the validator, charged for the frame, and `o' what it becomes.            *)
ActiveStates == {"Enumerating", "Streaming"}

Opens(w, d, h, o) ==
    /\ h.type = "Hello" =>
           d = "ParentToWorker" /\ w.state = "AwaitingHello"
           /\ o = [w EXCEPT !.state = "AwaitingReady"]
    /\ h.type = "Ready" =>
           d = "WorkerToParent" /\ w.state = "AwaitingReady"
           /\ o = [w EXCEPT !.state = "Idle"]

Begins(w, d, h, o) ==
    /\ h.type \in {"Enumerate", "StreamEntry"} =>
           d = "ParentToWorker" /\ w.state = "Idle" /\ h.req > w.last_request_id
    /\ h.type = "Enumerate" => o = BeginRequest(w, h, "Enumerating")
    /\ h.type = "StreamEntry" => o = BeginRequest(w, h, "Streaming")

Reports(w, d, h, o) ==
    h.type \in {"EntryBatch", "DataChunk"} =>
        /\ d = "WorkerToParent" /\ o = w
        /\ h.req = w.active_request_id /\ ~w.read_in_flight
        /\ w.state \in RequestStates /\ w.active_result_type = h.type
        /\ ~w.crossed_read_request_seen

Ends(w, d, h, o) ==
    /\ h.type = "Complete" =>
           /\ d = "WorkerToParent" /\ w.state \in RequestStates
           /\ h.req = w.active_request_id /\ ~w.read_in_flight
           /\ o = CompleteRequest(w, w.state # "Cancelling")
    /\ h.type = "CancelAck" =>
           /\ d = "WorkerToParent" /\ w.state = "Cancelling"
           /\ h.req = w.active_request_id /\ o = CancelAcked(w)
    /\ h.type = "Shutdown" =>
           /\ d = "ParentToWorker"
           /\ \/ w.state = "Idle" /\ o = [w EXCEPT !.state = "Closed"]
              \/ w.state = "Cancelled"
                 /\ o = [w EXCEPT !.late_read_reply_request_id = 0, !.state = "Closed"]

Cancels(w, d, h, o) ==
    h.type = "Cancel" =>
        /\ d = "ParentToWorker"
        /\ \/ w.state \in ActiveStates /\ h.req = w.active_request_id /\ o = CancelSeen(w)
           \/ w.state = "Idle" /\ o = [w EXCEPT !.accept_late_cancel = FALSE]

Reads(w, d, h, o) ==
    /\ h.type = "ReadRequest" =>
           /\ d = "WorkerToParent" /\ h.req = w.active_request_id
           /\ ~w.read_in_flight
           /\ \/ w.state \in ActiveStates /\ o = ReadIssued(w)
              \/ w.state = "Cancelling" /\ o = ReadCrossed(w)
    /\ h.type = "ReadReply" =>
           /\ d = "ParentToWorker"
           /\ \/ /\ w.state \in RequestStates /\ w.read_in_flight
                 /\ h.req = w.active_request_id /\ o = ReadAnswered(w)
              \/ /\ w.state = "Cancelled" /\ w.late_read_reply_request_id # 0
                 /\ o = [w EXCEPT !.late_read_reply_request_id = 0]

Accepts(w, d, h, o) ==
    /\ Opens(w, d, h, o) /\ Begins(w, d, h, o) /\ Reports(w, d, h, o)
    /\ Ends(w, d, h, o) /\ Cancels(w, d, h, o) /\ Reads(w, d, h, o)

LEMMA FailIsError ==
    ASSUME NEW w, w \in Validators, NEW e \in ProtocolErrors
    PROVE  Fail(w, e).error # NoError
BY DEF Fail, Validators, ProtocolErrors, NoError

LEMMA FailuresAreErrors ==
    ASSUME NEW w, w \in Validators
    PROVE  /\ Fail(w, "RequestAlreadyActive").error # NoError
           /\ Fail(w, "UnexpectedMessage").error # NoError
           /\ Fail(w, "WrongRequestId").error # NoError
           /\ Fail(w, "ReadAlreadyActive").error # NoError
           /\ Fail(w, "NoReadInFlight").error # NoError
           /\ Fail(w, "TerminalState").error # NoError
           /\ Fail(w, "RequestIdNotMonotonic").error # NoError
<1>1. \A e \in ProtocolErrors : Fail(w, e).error # NoError
  BY FailIsError
<1> QED BY <1>1 DEF ProtocolErrors

LEMMA ActiveAccepts ==
    ASSUME NEW w, w \in Validators, Consistent(w), w.error = NoError,
           NEW d \in Directions, NEW h \in FrameHeaders,
           w.state \in ActiveStates, ObserveActive(w, d, h, w.active_result_type).error = NoError
    PROVE  Accepts(w, d, h, ObserveActive(w, d, h, w.active_result_type))
<1> DEFINE o == ObserveActive(w, d, h, w.active_result_type)
<1>0. w.active_result_type \in {"EntryBatch", "DataChunk"} /\ w.state \in RequestStates
      /\ w.state # "Cancelling" /\ ~w.crossed_read_request_seen
  BY DEF Consistent, ActiveStates, RequestStates, Validators
<1>1. h.type \notin {"Enumerate", "StreamEntry"} /\ h.req # 0 /\ h.req = w.active_request_id
  BY FailuresAreErrors DEF ObserveActive
<1>2. CASE h.type = "ReadRequest"
  <2>1. d = "WorkerToParent" /\ ~w.read_in_flight /\ o = ReadIssued(w)
    BY <1>0, <1>1, <1>2, FailuresAreErrors DEF ObserveActive, Directions
  <2> QED BY <1>0, <1>1, <1>2, <2>1
          DEF Accepts, Opens, Begins, Reports, Ends, Cancels, Reads, ActiveStates
<1>3. CASE h.type = "ReadReply"
  <2>1. d = "ParentToWorker" /\ w.read_in_flight /\ o = ReadAnswered(w)
    BY <1>0, <1>1, <1>3, FailuresAreErrors DEF ObserveActive, Directions
  <2> QED BY <1>0, <1>1, <1>3, <2>1
          DEF Accepts, Opens, Begins, Reports, Ends, Cancels, Reads, ActiveStates
<1>4. CASE h.type = w.active_result_type
  <2>1. d = "WorkerToParent" /\ ~w.read_in_flight /\ o = w
    BY <1>0, <1>1, <1>4, FailuresAreErrors DEF ObserveActive, Directions
  <2> QED BY <1>0, <1>1, <1>4, <2>1
          DEF Accepts, Opens, Begins, Reports, Ends, Cancels, Reads, ActiveStates
<1>5. CASE h.type = "Complete"
  <2>1. d = "WorkerToParent" /\ ~w.read_in_flight /\ o = CompleteRequest(w, TRUE)
    BY <1>0, <1>1, <1>5, FailuresAreErrors DEF ObserveActive, Directions
  <2> QED BY <1>0, <1>1, <1>5, <2>1
          DEF Accepts, Opens, Begins, Reports, Ends, Cancels, Reads, ActiveStates
<1>6. CASE h.type = "Cancel"
  <2>1. d = "ParentToWorker" /\ o = CancelSeen(w)
    BY <1>0, <1>1, <1>6, FailuresAreErrors DEF ObserveActive, Directions
  <2> QED BY <1>0, <1>1, <1>6, <2>1
          DEF Accepts, Opens, Begins, Reports, Ends, Cancels, Reads, ActiveStates
<1>7. h.type \in {"ReadRequest", "ReadReply", w.active_result_type, "Complete", "Cancel"}
  BY <1>0, <1>1, FailuresAreErrors DEF ObserveActive
<1> QED BY <1>2, <1>3, <1>4, <1>5, <1>6, <1>7

LEMMA IdleAccepts ==
    ASSUME NEW w, w \in Validators, Consistent(w), w.error = NoError,
           NEW d \in Directions, NEW h \in FrameHeaders,
           w.state = "Idle", ObserveIdle(w, d, h).error = NoError
    PROVE  Accepts(w, d, h, ObserveIdle(w, d, h))
<1> DEFINE o == ObserveIdle(w, d, h)
<1>1. d = "ParentToWorker"
  BY FailuresAreErrors DEF ObserveIdle
<1>2. CASE h.type = "Enumerate"
  <2>1. o = BeginRequest(w, h, "Enumerating")
    BY <1>1, <1>2 DEF ObserveIdle
  <2>2. h.req > w.last_request_id
    BY <2>1, FailuresAreErrors DEF BeginRequest, FrameHeaders, Validators
  <2> QED BY <1>1, <1>2, <2>1, <2>2
          DEF Accepts, Opens, Begins, Reports, Ends, Cancels, Reads
<1>3. CASE h.type = "StreamEntry"
  <2>1. o = BeginRequest(w, h, "Streaming")
    BY <1>1, <1>3 DEF ObserveIdle
  <2>2. h.req > w.last_request_id
    BY <2>1, FailuresAreErrors DEF BeginRequest, FrameHeaders, Validators
  <2> QED BY <1>1, <1>3, <2>1, <2>2
          DEF Accepts, Opens, Begins, Reports, Ends, Cancels, Reads
<1>4. CASE h.type = "Shutdown"
  BY <1>1, <1>4 DEF ObserveIdle, Accepts, Opens, Begins, Reports, Ends, Cancels, Reads
<1>5. CASE h.type = "Cancel"
  <2>1. o = [w EXCEPT !.accept_late_cancel = FALSE]
    BY <1>1, <1>5, FailuresAreErrors DEF ObserveIdle
  <2> QED BY <1>1, <1>5, <2>1 DEF Accepts, Opens, Begins, Reports, Ends, Cancels, Reads
<1>6. h.type \in {"Enumerate", "StreamEntry", "Shutdown", "Cancel"}
  BY <1>1, FailuresAreErrors DEF ObserveIdle
<1> QED BY <1>2, <1>3, <1>4, <1>5, <1>6

LEMMA CancellingAccepts ==
    ASSUME NEW w, w \in Validators, Consistent(w), w.error = NoError,
           NEW d \in Directions, NEW h \in FrameHeaders,
           w.state = "Cancelling", ObserveCancelling(w, d, h).error = NoError
    PROVE  Accepts(w, d, h, ObserveCancelling(w, d, h))
<1> DEFINE o == ObserveCancelling(w, d, h)
<1>0. w.active_result_type \in {"EntryBatch", "DataChunk"} /\ w.state \in RequestStates
  BY DEF Consistent, RequestStates, Validators
<1>1. h.req = w.active_request_id
  BY FailuresAreErrors DEF ObserveCancelling
<1>2. CASE h.type = "CancelAck"
  <2>1. d = "WorkerToParent" /\ o = CancelAcked(w)
    BY <1>0, <1>1, <1>2, FailuresAreErrors DEF ObserveCancelling, Directions
  <2> QED BY <1>0, <1>1, <1>2, <2>1
          DEF Accepts, Opens, Begins, Reports, Ends, Cancels, Reads
<1>3. CASE h.type = "Complete"
  <2>1. d = "WorkerToParent" /\ ~w.read_in_flight /\ o = CompleteRequest(w, FALSE)
    BY <1>0, <1>1, <1>3, FailuresAreErrors DEF ObserveCancelling, Directions
  <2> QED BY <1>0, <1>1, <1>3, <2>1
          DEF Accepts, Opens, Begins, Reports, Ends, Cancels, Reads
<1>4. CASE h.type = "ReadRequest"
  <2>1. d = "WorkerToParent" /\ ~w.read_in_flight /\ o = ReadCrossed(w)
    BY <1>0, <1>1, <1>4, FailuresAreErrors DEF ObserveCancelling, Directions
  <2> QED BY <1>0, <1>1, <1>4, <2>1
          DEF Accepts, Opens, Begins, Reports, Ends, Cancels, Reads
<1>5. CASE h.type = "ReadReply"
  <2>1. d = "ParentToWorker" /\ w.read_in_flight /\ o = ReadAnswered(w)
    BY <1>0, <1>1, <1>5, FailuresAreErrors DEF ObserveCancelling, Directions
  <2> QED BY <1>0, <1>1, <1>5, <2>1
          DEF Accepts, Opens, Begins, Reports, Ends, Cancels, Reads
<1>6. CASE h.type = w.active_result_type
  <2>1. d = "WorkerToParent" /\ ~w.read_in_flight /\ ~w.crossed_read_request_seen /\ o = w
    BY <1>0, <1>1, <1>6, FailuresAreErrors DEF ObserveCancelling, Directions
  <2> QED BY <1>0, <1>1, <1>6, <2>1
          DEF Accepts, Opens, Begins, Reports, Ends, Cancels, Reads
<1>7. h.type \in {"CancelAck", "Complete", "ReadRequest", "ReadReply", w.active_result_type}
  BY <1>0, <1>1, FailuresAreErrors DEF ObserveCancelling
<1> QED BY <1>2, <1>3, <1>4, <1>5, <1>6, <1>7

LEMMA CancelledAccepts ==
    ASSUME NEW w, w \in Validators, NEW d \in Directions, NEW h \in FrameHeaders,
           w.state = "Cancelled", ObserveCancelled(w, d, h).error = NoError
    PROVE  Accepts(w, d, h, ObserveCancelled(w, d, h))
<1>1. CASE d = "ParentToWorker" /\ h.type = "Shutdown"
  BY <1>1 DEF ObserveCancelled, Accepts, Opens, Begins, Reports, Ends, Cancels, Reads
<1>2. CASE d = "ParentToWorker" /\ h.type = "ReadReply" /\ w.late_read_reply_request_id # 0
  <2>1. ObserveCancelled(w, d, h) = [w EXCEPT !.late_read_reply_request_id = 0]
    BY <1>2, FailuresAreErrors DEF ObserveCancelled
  <2> QED BY <1>2, <2>1 DEF Accepts, Opens, Begins, Reports, Ends, Cancels, Reads
<1>3. \/ d = "ParentToWorker" /\ h.type = "Shutdown"
      \/ d = "ParentToWorker" /\ h.type = "ReadReply" /\ w.late_read_reply_request_id # 0
  BY FailuresAreErrors DEF ObserveCancelled
<1> QED BY <1>1, <1>2, <1>3

(* A frame that is accepted is charged, and the state's own rules apply. *)
Charged(w, h) == [w EXCEPT !.message_count = @ + 1, !.payload_bytes = @ + h.len]

LEMMA InStateAccepts ==
    ASSUME NEW w, w \in Validators, Consistent(w), w.error = NoError,
           NEW d \in Directions, NEW h \in FrameHeaders,
           ObserveInState(w, d, h).error = NoError
    PROVE  Accepts(w, d, h, ObserveInState(w, d, h))
<1> DEFINE o == ObserveInState(w, d, h)
<1>1. CASE w.state = "AwaitingHello"
  <2>1. d = "ParentToWorker" /\ h.type = "Hello" /\ o = [w EXCEPT !.state = "AwaitingReady"]
    BY <1>1, FailuresAreErrors DEF ObserveInState
  <2> QED BY <1>1, <2>1 DEF Accepts, Opens, Begins, Reports, Ends, Cancels, Reads
<1>2. CASE w.state = "AwaitingReady"
  <2>1. d = "WorkerToParent" /\ h.type = "Ready" /\ o = [w EXCEPT !.state = "Idle"]
    BY <1>2, FailuresAreErrors DEF ObserveInState
  <2> QED BY <1>2, <2>1 DEF Accepts, Opens, Begins, Reports, Ends, Cancels, Reads
<1>3. CASE w.state = "Idle"
  <2>1. o = ObserveIdle(w, d, h)
    BY <1>3 DEF ObserveInState
  <2> QED BY <1>3, <2>1, IdleAccepts
<1>4. CASE w.state \in ActiveStates
  <2>1. o = ObserveActive(w, d, h, w.active_result_type)
    BY <1>4 DEF ObserveInState, ActiveStates, Consistent
  <2> QED BY <1>4, <2>1, ActiveAccepts
<1>5. CASE w.state = "Cancelling"
  <2>1. o = ObserveCancelling(w, d, h)
    BY <1>5 DEF ObserveInState
  <2> QED BY <1>5, <2>1, CancellingAccepts
<1>6. CASE w.state = "Cancelled"
  <2>1. o = ObserveCancelled(w, d, h)
    BY <1>6 DEF ObserveInState
  <2> QED BY <1>6, <2>1, CancelledAccepts
<1>7. w.state \notin {"Closed", "Failed"}
  BY FailuresAreErrors DEF ObserveInState
<1> QED BY <1>1, <1>2, <1>3, <1>4, <1>5, <1>6, <1>7 DEF Validators, SessionStates, ActiveStates

LEMMA ChargedFields ==
    ASSUME NEW w, w \in Validators, NEW h \in FrameHeaders
    PROVE  /\ Charged(w, h) \in Validators
           /\ \A field \in {"state", "error", "active_request_id", "last_request_id",
                  "completed_request_id", "late_read_reply_request_id",
                  "active_result_type", "read_in_flight", "accept_late_cancel",
                  "crossed_read_request_seen"} : Charged(w, h)[field] = w[field]
<1> DEFINE m == w.message_count + 1
           n == w.payload_bytes + h.len
<1>1. m \in Nat /\ n \in Nat
  BY DEF Validators, FrameHeaders
<1>2. Charged(w, h) = [w EXCEPT !.message_count = m, !.payload_bytes = n]
  BY DEF Charged, Validators
<1> HIDE DEF m, n
<1> QED BY <1>1, <1>2 DEF Validators

LEMMA AcceptedFrame ==
    ASSUME NEW b \in Budgets, NEW w, Sound(w, b), NEW d \in Directions,
           NEW h \in FrameHeaders, Observe(w, d, h, b).error = NoError
    PROVE  /\ w.error = NoError /\ Charged(w, h) \in Validators
           /\ Accepts(Charged(w, h), d, h, Observe(w, d, h, b))
<1> DEFINE c == Charge(w, h, b)
<1>0. w \in Validators
  BY DEF Sound
<1>1. w.error = NoError
  BY DEF Observe
<1>2. w.state # "Closed" /\ HeaderError(h) = NoError /\ h.sid = SessionIdent
  <2>1. Fail(w, "TerminalState").error # NoError /\ Fail(w, "WrongSessionId").error # NoError
    BY <1>0, FailIsError DEF ProtocolErrors
  <2>2. HeaderError(h) # NoError => Fail(w, HeaderError(h)).error # NoError
    BY <1>0, FailIsError, HeaderErrorType
  <2> QED BY <1>1, <2>1, <2>2 DEF Observe
<1>3. c.error = NoError /\ Observe(w, d, h, b) = ObserveInState(c, d, h)
  BY <1>1, <1>2 DEF Observe
<1>4. Sound(c, b)
  BY <1>1, ChargeIsSound
<1>5. c = Charged(w, h)
  <2> DEFINE counted == [w EXCEPT !.message_count = @ + 1]
  <2>1. counted \in Validators
    <3> DEFINE m == w.message_count + 1
    <3>1. m \in Nat
      BY <1>0 DEF Validators
    <3>2. counted = [w EXCEPT !.message_count = m]
      BY <1>0 DEF Validators
    <3> HIDE DEF m
    <3> QED BY <1>0, <3>1, <3>2 DEF Validators
  <2>2. Fail(w, "MessageBudgetExceeded").error # NoError
        /\ Fail(counted, "ByteBudgetExceeded").error # NoError
    BY <1>0, <2>1, FailIsError DEF ProtocolErrors
  <2>3. c = [counted EXCEPT !.payload_bytes = @ + h.len]
    BY <1>3, <2>2 DEF Charge
  <2> QED BY <1>0, <2>3 DEF Charged, Validators
<1> HIDE DEF c
<1>6. Accepts(c, d, h, Observe(w, d, h, b))
  BY <1>3, <1>4, InStateAccepts DEF Sound
<1> QED BY <1>1, <1>4, <1>5, <1>6 DEF Sound

(* The same facts without the details: the state an accepted frame leads to, *)
(* and whether the open request is still the same.                           *)
Keeps(w, o) ==
    /\ o.active_request_id = w.active_request_id
    /\ o.last_request_id = w.last_request_id

Effects(w, d, h, o) ==
    /\ h.type = "Hello" =>
           w.state = "AwaitingHello" /\ o.state = "AwaitingReady" /\ Keeps(w, o)
    /\ h.type = "Ready" =>
           w.state = "AwaitingReady" /\ o.state = "Idle" /\ Keeps(w, o)
    /\ h.type \in {"Enumerate", "StreamEntry"} =>
           /\ d = "ParentToWorker" /\ w.state = "Idle"
           /\ o.state = IF h.type = "Enumerate" THEN "Enumerating" ELSE "Streaming"
           /\ h.req > w.last_request_id
           /\ o.active_request_id = h.req /\ o.last_request_id = h.req
    /\ h.type \in {"EntryBatch", "DataChunk"} =>
           /\ w.state \in RequestStates /\ w.active_result_type = h.type
           /\ h.req = w.active_request_id /\ o.state = w.state /\ Keeps(w, o)
    /\ h.type = "Complete" =>
           /\ w.state \in RequestStates /\ o.state = "Idle"
           /\ h.req = w.active_request_id
           /\ o.last_request_id = w.last_request_id
    /\ h.type = "CancelAck" =>
           /\ w.state = "Cancelling" /\ o.state = "Cancelled"
           /\ h.req = w.active_request_id
           /\ o.last_request_id = w.last_request_id
    /\ h.type = "Shutdown" =>
           /\ w.state \in {"Idle", "Cancelled"} /\ o.state = "Closed"
           /\ o.last_request_id = w.last_request_id
    /\ h.type = "Cancel" =>
           /\ w.state \in ActiveStates \cup {"Idle"} /\ Keeps(w, o)
           /\ w.state # "Idle" => h.req = w.active_request_id
           /\ o.state = IF w.state = "Idle" THEN "Idle" ELSE "Cancelling"
    /\ h.type = "ReadRequest" =>
           /\ w.state \in RequestStates /\ h.req = w.active_request_id
           /\ o.state = w.state /\ Keeps(w, o)
    /\ h.type = "ReadReply" =>
           w.state \in RequestStates \cup {"Cancelled"} /\ o.state = w.state /\ Keeps(w, o)

LEMMA AcceptsHasEffects ==
    ASSUME NEW w, w \in Validators, NEW d \in Directions, NEW h \in FrameHeaders, NEW o,
           Accepts(w, d, h, o)
    PROVE  Effects(w, d, h, o)
<1>1. CASE h.type \in {"Hello", "Ready"}
  BY <1>1 DEF Accepts, Opens, Effects, Keeps, Validators
<1>2. CASE h.type \in {"Enumerate", "StreamEntry"}
  <2>1. ~(h.req <= w.last_request_id)
    BY <1>2 DEF Accepts, Begins, Validators, FrameHeaders
  <2> QED BY <1>2, <2>1 DEF Accepts, Begins, BeginRequest, Effects, Validators
<1>3. CASE h.type \in {"EntryBatch", "DataChunk"}
  BY <1>3 DEF Accepts, Reports, Effects, Keeps
<1>4. CASE h.type \in {"Complete", "CancelAck", "Shutdown"}
  BY <1>4 DEF Accepts, Ends, CompleteRequest, CancelAcked, Effects, Validators
<1>5. CASE h.type = "Cancel"
  BY <1>5 DEF Accepts, Cancels, CancelSeen, Effects, Keeps, ActiveStates, Validators
<1>6. CASE h.type \in {"ReadRequest", "ReadReply"}
  BY <1>6 DEF Accepts, Reads, ReadIssued, ReadCrossed, ReadAnswered, Effects, Keeps,
              ActiveStates, RequestStates, Validators
<1> QED BY <1>1, <1>2, <1>3, <1>4, <1>5, <1>6
        DEF FrameHeaders, MessageTypes, ZeroRequestTypes

LEMMA AcceptedEffects ==
    ASSUME NEW b \in Budgets, NEW w, Sound(w, b), NEW d \in Directions,
           NEW h \in FrameHeaders, Observe(w, d, h, b).error = NoError
    PROVE  Effects(w, d, h, Observe(w, d, h, b))
<1> DEFINE o == Observe(w, d, h, b)
           c == Charged(w, h)
<1>1. c \in Validators /\ Accepts(c, d, h, o)
  BY AcceptedFrame
<1>2. /\ c.state = w.state /\ c.active_request_id = w.active_request_id
      /\ c.last_request_id = w.last_request_id
      /\ c.active_result_type = w.active_result_type
  BY ChargedFields DEF Sound
<1> HIDE DEF c, o
<1>3. Effects(c, d, h, o)
  BY <1>1, AcceptsHasEffects
<1>4. Effects(w, d, h, o)
  BY <1>2, <1>3 DEF Effects, Keeps
<1> QED BY <1>4 DEF o

(* What an accepted frame does to the outstanding read. *)
ReadEffects(w, h, o) ==
    /\ h.type \in {"Enumerate", "StreamEntry"} => ~o.read_in_flight
    /\ h.type = "ReadRequest" =>
           ~w.read_in_flight /\ (w.state \in ActiveStates => o.read_in_flight)
    /\ h.type = "ReadReply" /\ w.state \in ActiveStates =>
           w.read_in_flight /\ ~o.read_in_flight
    /\ h.type = "ReadReply" /\ w.state = "Cancelled" => o.late_read_reply_request_id = 0
    /\ h.type \in {"EntryBatch", "DataChunk"} => ~w.read_in_flight /\ ~o.read_in_flight
    /\ h.type = "Complete" => ~w.read_in_flight
    /\ h.type = "Cancel" => (o.read_in_flight <=> w.read_in_flight)
    /\ h.type = "CancelAck" =>
           o.late_read_reply_request_id = IF w.read_in_flight THEN w.active_request_id ELSE 0

LEMMA AcceptedReads ==
    ASSUME NEW b \in Budgets, NEW w, Sound(w, b), NEW d \in Directions,
           NEW h \in FrameHeaders, Observe(w, d, h, b).error = NoError
    PROVE  ReadEffects(w, h, Observe(w, d, h, b))
<1> DEFINE o == Observe(w, d, h, b)
           c == Charged(w, h)
<1>1. c \in Validators /\ Accepts(c, d, h, o)
  BY AcceptedFrame
<1>2. /\ c.state = w.state /\ c.active_request_id = w.active_request_id
      /\ c.read_in_flight = w.read_in_flight
  BY ChargedFields DEF Sound
<1> HIDE DEF c, o
<1>3. ReadEffects(c, h, o)
  <2>1. CASE h.type \in {"Enumerate", "StreamEntry"}
    <3>1. ~(h.req <= c.last_request_id)
      BY <1>1, <2>1 DEF Accepts, Begins, Validators, FrameHeaders
    <3> QED BY <1>1, <2>1, <3>1 DEF Accepts, Begins, BeginRequest, ReadEffects, Validators
  <2>2. CASE h.type \in {"EntryBatch", "DataChunk"}
    BY <1>1, <2>2 DEF Accepts, Reports, ReadEffects
  <2>3. CASE h.type \in {"Complete", "CancelAck"}
    BY <1>1, <2>3 DEF Accepts, Ends, CancelAcked, ReadEffects, Validators
  <2>4. CASE h.type = "Cancel"
    BY <1>1, <2>4 DEF Accepts, Cancels, CancelSeen, ReadEffects, Validators
  <2>5. CASE h.type \in {"ReadRequest", "ReadReply"}
    BY <1>1, <2>5 DEF Accepts, Reads, ReadIssued, ReadCrossed, ReadAnswered, ReadEffects,
                      ActiveStates, RequestStates, Validators
  <2>6. CASE h.type \in {"Hello", "Ready", "Shutdown"}
    BY <2>6 DEF ReadEffects
  <2> QED BY <2>1, <2>2, <2>3, <2>4, <2>5, <2>6
          DEF FrameHeaders, MessageTypes, ZeroRequestTypes
<1>4. ReadEffects(w, h, o)
  BY <1>2, <1>3 DEF ReadEffects
<1> QED BY <1>4 DEF o

-----------------------------------------------------------------------------
(* A header that breaks no rule of its own, and a frame that the ordering    *)
(* rules of the validator w let pass in direction d.                         *)
Clean(h) == HeaderError(h) = NoError /\ h.sid = SessionIdent

Unblocked(w) == ~w.read_in_flight /\ ~w.crossed_read_request_seen

InOrder(w, d, h) ==
    IF d = "ParentToWorker"
    THEN \/ h.type = "Hello" /\ w.state = "AwaitingHello"
         \/ /\ h.type \in {"Enumerate", "StreamEntry"} /\ w.state = "Idle"
            /\ h.req > w.last_request_id
         \/ h.type = "Shutdown" /\ w.state \in {"Idle", "Cancelled"}
         \/ /\ h.type = "Cancel" /\ w.state = "Idle" /\ w.accept_late_cancel
            /\ h.req = w.completed_request_id
         \/ h.type = "Cancel" /\ w.state \in ActiveStates /\ h.req = w.active_request_id
         \/ /\ h.type = "ReadReply" /\ w.state \in ActiveStates
            /\ h.req = w.active_request_id /\ w.read_in_flight
    ELSE \/ h.type = "Ready" /\ w.state = "AwaitingReady"
         \/ /\ h.type \in {"ReadRequest", "Complete", w.active_result_type}
            /\ w.state \in RequestStates /\ h.req = w.active_request_id /\ Unblocked(w)
         \/ h.type = "CancelAck" /\ w.state = "Cancelling" /\ h.req = w.active_request_id

LEMMA InOrderPasses ==
    ASSUME NEW w, w \in Validators, Consistent(w), w.error = NoError,
           NEW d \in Directions, NEW h \in FrameHeaders, InOrder(w, d, h)
    PROVE  ObserveInState(w, d, h).error = NoError
<1>1. /\ [w EXCEPT !.state = "AwaitingReady"].error = NoError
      /\ [w EXCEPT !.state = "Idle"].error = NoError
      /\ [w EXCEPT !.state = "Closed"].error = NoError
      /\ [w EXCEPT !.accept_late_cancel = FALSE].error = NoError
      /\ [w EXCEPT !.late_read_reply_request_id = 0, !.state = "Closed"].error = NoError
      /\ CompleteRequest(w, TRUE).error = NoError /\ CompleteRequest(w, FALSE).error = NoError
      /\ ReadIssued(w).error = NoError /\ ReadAnswered(w).error = NoError
      /\ ReadCrossed(w).error = NoError /\ CancelSeen(w).error = NoError
      /\ CancelAcked(w).error = NoError
  BY DEF Validators, CompleteRequest, ReadIssued, ReadAnswered, ReadCrossed, CancelSeen,
         CancelAcked
<1>2. /\ w.state \in ActiveStates =>
             ObserveInState(w, d, h) = ObserveActive(w, d, h, w.active_result_type)
      /\ w.state = "Idle" => ObserveInState(w, d, h) = ObserveIdle(w, d, h)
      /\ w.state = "Cancelling" => ObserveInState(w, d, h) = ObserveCancelling(w, d, h)
      /\ w.state = "Cancelled" => ObserveInState(w, d, h) = ObserveCancelled(w, d, h)
  BY DEF ObserveInState, ActiveStates, Consistent
<1>3. /\ w.state \in RequestStates =>
             w.active_result_type \in {"EntryBatch", "DataChunk"} /\ w.active_request_id # 0
      /\ w.state \in RequestStates <=> w.state \in ActiveStates \/ w.state = "Cancelling"
  BY DEF Consistent, RequestStates, ActiveStates, Validators
<1>4. CASE d = "ParentToWorker" /\ w.state \in {"AwaitingHello", "Cancelled"}
  BY <1>1, <1>2, <1>4 DEF InOrder, ObserveInState, ObserveCancelled, ActiveStates
<1>5. CASE d = "ParentToWorker" /\ w.state = "Idle"
  <2>1. h.type \in {"Enumerate", "StreamEntry"} =>
          /\ BeginRequest(w, h, "Enumerating").error = NoError
          /\ BeginRequest(w, h, "Streaming").error = NoError
    <3>1. h.type \in {"Enumerate", "StreamEntry"} => ~(h.req <= w.last_request_id)
      BY <1>5 DEF InOrder, Validators, FrameHeaders
    <3> QED BY <3>1 DEF BeginRequest, Validators
  <2> QED BY <1>1, <1>2, <1>5, <2>1 DEF InOrder, ObserveIdle, ActiveStates
<1>6. CASE d = "ParentToWorker" /\ w.state \in ActiveStates
  BY <1>1, <1>2, <1>3, <1>6 DEF InOrder, ObserveActive, ActiveStates
<1>7. CASE d = "WorkerToParent" /\ w.state = "AwaitingReady"
  BY <1>1, <1>7 DEF InOrder, ObserveInState, RequestStates
<1>8. CASE d = "WorkerToParent" /\ w.state \in ActiveStates
  BY <1>1, <1>2, <1>3, <1>8 DEF InOrder, ObserveActive, ActiveStates, Unblocked
<1>9. CASE d = "WorkerToParent" /\ w.state = "Cancelling"
  BY <1>1, <1>2, <1>3, <1>9 DEF InOrder, ObserveCancelling, ActiveStates, Unblocked
<1>10. \/ d = "ParentToWorker" /\ w.state \in {"AwaitingHello", "Cancelled", "Idle"}
       \/ d = "ParentToWorker" /\ w.state \in ActiveStates
       \/ d = "WorkerToParent" /\ w.state \in {"AwaitingReady", "Cancelling"}
       \/ d = "WorkerToParent" /\ w.state \in ActiveStates
  BY <1>3 DEF InOrder, Directions
<1> QED BY <1>4, <1>5, <1>6, <1>7, <1>8, <1>9, <1>10

(* A frame that a validator accepts is clean. *)
LEMMA AcceptedIsClean ==
    ASSUME NEW b, NEW w, w \in Validators, NEW d, NEW h \in FrameHeaders,
           Observe(w, d, h, b).error = NoError
    PROVE  w.error = NoError /\ Clean(h)
<1>1. w.error = NoError
  BY DEF Observe
<1>2. Fail(w, "TerminalState").error # NoError /\ Fail(w, "WrongSessionId").error # NoError
  BY FailIsError DEF ProtocolErrors
<1>3. HeaderError(h) # NoError => Fail(w, HeaderError(h)).error # NoError
  BY FailIsError, HeaderErrorType
<1> QED BY <1>1, <1>2, <1>3 DEF Observe, Clean

(* The fields an accepted frame leaves to the late-cancel window and to a    *)
(* pending cancel.                                                           *)
Leaves(w, h, o) ==
    /\ h.type \in {"Enumerate", "StreamEntry"} => ~o.crossed_read_request_seen
    /\ h.type = "Complete" =>
           /\ o.completed_request_id = w.active_request_id
           /\ o.accept_late_cancel = (w.state # "Cancelling")
    /\ h.type = "Cancel" =>
           /\ o.active_result_type = w.active_result_type
           /\ w.state \in ActiveStates => ~o.crossed_read_request_seen
           /\ w.state = "Idle" => ~o.accept_late_cancel
    /\ h.type \in {"EntryBatch", "DataChunk"} =>
           /\ o.active_result_type = w.active_result_type
           /\ o.crossed_read_request_seen = w.crossed_read_request_seen
    /\ h.type = "ReadRequest" =>
           /\ o.active_result_type = w.active_result_type
           /\ w.state = "Cancelling" => o.crossed_read_request_seen /\ ~o.read_in_flight
    /\ h.type = "ReadReply" => o.active_result_type = w.active_result_type

LEMMA AcceptedLeaves ==
    ASSUME NEW b \in Budgets, NEW w, Sound(w, b), NEW d \in Directions,
           NEW h \in FrameHeaders, Observe(w, d, h, b).error = NoError
    PROVE  Leaves(w, h, Observe(w, d, h, b))
<1> DEFINE o == Observe(w, d, h, b)
           c == Charged(w, h)
<1>1. c \in Validators /\ Accepts(c, d, h, o)
  BY AcceptedFrame
<1>2. /\ c.state = w.state /\ c.active_request_id = w.active_request_id
      /\ c.read_in_flight = w.read_in_flight
      /\ c.active_result_type = w.active_result_type
      /\ c.crossed_read_request_seen = w.crossed_read_request_seen
  BY ChargedFields DEF Sound
<1> HIDE DEF c, o
<1>3. Leaves(c, h, o)
  <2>1. CASE h.type \in {"Enumerate", "StreamEntry"}
    <3>1. ~(h.req <= c.last_request_id)
      BY <1>1, <2>1 DEF Accepts, Begins, Validators, FrameHeaders
    <3> QED BY <1>1, <2>1, <3>1 DEF Accepts, Begins, BeginRequest, Leaves, Validators
  <2>2. CASE h.type \in {"EntryBatch", "DataChunk"}
    BY <1>1, <2>2 DEF Accepts, Reports, Leaves
  <2>3. CASE h.type \in {"Complete", "CancelAck"}
    BY <1>1, <2>3 DEF Accepts, Ends, CompleteRequest, Leaves, Validators
  <2>4. CASE h.type = "Cancel"
    BY <1>1, <2>4 DEF Accepts, Cancels, CancelSeen, Leaves, Validators, ActiveStates
  <2>5. CASE h.type \in {"ReadRequest", "ReadReply"}
    BY <1>1, <2>5 DEF Accepts, Reads, ReadIssued, ReadCrossed, ReadAnswered, Leaves,
                      ActiveStates, RequestStates, Validators
  <2>6. CASE h.type \in {"Hello", "Ready", "Shutdown"}
    BY <2>6 DEF Leaves
  <2> QED BY <2>1, <2>2, <2>3, <2>4, <2>5, <2>6
          DEF FrameHeaders, MessageTypes, ZeroRequestTypes
<1>4. Leaves(w, h, o)
  BY <1>2, <1>3 DEF Leaves
<1> QED BY <1>4 DEF o
-----------------------------------------------------------------------------
(* PART 1: one validator.                                                    *)

(* For every budget, every set of headers and every order in which the two  *)
(* peers send them, the validator of session.rs stays well typed, its flags *)
(* agree with its state, its late-reply window is open only in a cancelled  *)
(* session, and neither counter passes its ceiling.                         *)
THEOREM ValidatorSafety == OwpSpec => [](OwpTypeOK /\ FlagsAgree)
<1> DEFINE IInv == Sound(owp, Limits)
<1>1. OwpInit => IInv
  BY LimitsAssumption DEF OwpInit, NewValidator, Sound, Validators, Consistent, LateWindowOf,
     WithinBudgets, Budgets, SessionStates, ProtocolErrors, NoError, RequestStates
<1>2. IInv /\ [OwpNext]_owpVars => IInv'
  <2> SUFFICES ASSUME IInv, [OwpNext]_owpVars PROVE IInv'
    OBVIOUS
  <2>1. CASE OwpNext
    <3>1. PICK d \in Directions, h \in Frames : OwpStep(d, h)
      BY <2>1 DEF OwpNext
    <3>2. h \in FrameHeaders
      BY FramesAssumption
    <3>3. Sound(Observe(owp, d, h, Limits), Limits)
      BY <3>2, LimitsAssumption, ObserveIsSound
    <3> QED BY <3>1, <3>3 DEF OwpStep
  <2>2. CASE UNCHANGED owpVars
    BY <2>2 DEF owpVars
  <2> QED BY <2>1, <2>2
<1>3. IInv => OwpTypeOK /\ FlagsAgree
  BY DEF Sound, OwpTypeOK, FlagsAgree
<1> QED BY <1>1, <1>2, <1>3, PTL DEF OwpSpec

-----------------------------------------------------------------------------
(* What one observation does to the state, the active id and the latest id  *)
(* of a live validator: it stutters, fails, or takes one step of the        *)
(* request lifecycle.                                                       *)
IdsUnchanged(w, z) ==
    /\ z.active_request_id = w.active_request_id
    /\ z.last_request_id = w.last_request_id

Ended(w, z) ==
    /\ z.active_request_id = 0
    /\ z.last_request_id = w.last_request_id

Moves(w, z) ==
    \/ z.state = w.state /\ IdsUnchanged(w, z)
    \/ z.state = "Failed" /\ z.last_request_id = w.last_request_id
    \/ w.state = "AwaitingHello" /\ z.state = "AwaitingReady" /\ IdsUnchanged(w, z)
    \/ w.state = "AwaitingReady" /\ z.state = "Idle" /\ IdsUnchanged(w, z)
    \/ /\ w.state = "Idle" /\ z.state \in {"Enumerating", "Streaming"}
       /\ z.last_request_id \in Nat /\ z.last_request_id > w.last_request_id
       /\ z.active_request_id = z.last_request_id
    \/ /\ w.state \in {"Enumerating", "Streaming"}
       /\ z.state = "Cancelling" /\ IdsUnchanged(w, z)
    \/ /\ w.state \in {"Enumerating", "Streaming", "Cancelling"}
       /\ z.state = "Idle" /\ Ended(w, z)
    \/ w.state = "Cancelling" /\ z.state = "Cancelled" /\ Ended(w, z)
    \/ w.state \in {"Idle", "Cancelled"} /\ z.state = "Closed" /\ IdsUnchanged(w, z)

LEMMA FailMoves ==
    ASSUME NEW w, w \in Validators, NEW e
    PROVE  Moves(w, Fail(w, e))
BY DEF Fail, Moves, Validators

LEMMA ActiveMoves ==
    ASSUME NEW w, w \in Validators, NEW d, NEW h, NEW r,
           w.state \in {"Enumerating", "Streaming"}
    PROVE  Moves(w, ObserveActive(w, d, h, r))
<1>1. \A e : Moves(w, Fail(w, e))
  BY FailMoves
<1>2. Moves(w, w) /\ Moves(w, ReadIssued(w)) /\ Moves(w, ReadAnswered(w))
  BY DEF Moves, IdsUnchanged, ReadIssued, ReadAnswered, Validators
<1>3. Moves(w, CompleteRequest(w, TRUE)) /\ Moves(w, CancelSeen(w))
  BY DEF Moves, IdsUnchanged, Ended, CompleteRequest, CancelSeen, Validators
<1> QED BY <1>1, <1>2, <1>3, ActiveOutcomes

LEMMA IdleMoves ==
    ASSUME NEW w, w \in Validators, NEW d, NEW h \in FrameHeaders, w.state = "Idle"
    PROVE  Moves(w, ObserveIdle(w, d, h))
<1>1. \A e : Moves(w, Fail(w, e))
  BY FailMoves
<1>2. ASSUME NEW s \in {"Enumerating", "Streaming"}
      PROVE  Moves(w, BeginRequest(w, h, s))
  <2>1. CASE h.req <= w.last_request_id
    BY <1>1, <2>1 DEF BeginRequest
  <2>2. CASE ~(h.req <= w.last_request_id)
    <3>1. h.req \in Nat /\ w.last_request_id \in Nat /\ h.req > w.last_request_id
      BY <2>2 DEF Validators, FrameHeaders
    <3> QED BY <2>2, <3>1 DEF BeginRequest, Moves, Validators
  <2> QED BY <2>1, <2>2
<1>3. /\ Moves(w, [w EXCEPT !.state = "Closed"])
      /\ Moves(w, [w EXCEPT !.accept_late_cancel = FALSE])
  BY DEF Moves, IdsUnchanged, Validators
<1> QED BY <1>1, <1>2, <1>3, IdleOutcomes

LEMMA CancellingMoves ==
    ASSUME NEW w, w \in Validators, NEW d, NEW h, w.state = "Cancelling"
    PROVE  Moves(w, ObserveCancelling(w, d, h))
<1>1. \A e : Moves(w, Fail(w, e))
  BY FailMoves
<1>2. Moves(w, w) /\ Moves(w, ReadCrossed(w)) /\ Moves(w, ReadAnswered(w))
  BY DEF Moves, IdsUnchanged, ReadCrossed, ReadAnswered, Validators
<1>3. Moves(w, CompleteRequest(w, FALSE)) /\ Moves(w, CancelAcked(w))
  BY DEF Moves, Ended, CompleteRequest, CancelAcked, Validators
<1> QED BY <1>1, <1>2, <1>3, CancellingOutcomes

LEMMA CancelledMoves ==
    ASSUME NEW w, w \in Validators, NEW d, NEW h, w.state = "Cancelled"
    PROVE  Moves(w, ObserveCancelled(w, d, h))
<1>1. \A e : Moves(w, Fail(w, e))
  BY FailMoves
<1>2. /\ Moves(w, [w EXCEPT !.late_read_reply_request_id = 0, !.state = "Closed"])
      /\ Moves(w, [w EXCEPT !.late_read_reply_request_id = 0])
  BY DEF Moves, IdsUnchanged, Validators
<1>3. Moves(w, Fail(w, "TerminalState")) /\ Moves(w, Fail(w, "WrongRequestId"))
  BY <1>1
<1> QED BY <1>2, <1>3, CancelledOutcomes

LEMMA InStateMoves ==
    ASSUME NEW w, w \in Validators, NEW d, NEW h \in FrameHeaders
    PROVE  Moves(w, ObserveInState(w, d, h))
<1>1. /\ w.state = "AwaitingHello" => Moves(w, [w EXCEPT !.state = "AwaitingReady"])
      /\ w.state = "AwaitingReady" => Moves(w, [w EXCEPT !.state = "Idle"])
  BY DEF Moves, IdsUnchanged, Validators
<1>2. Moves(w, Fail(w, "UnexpectedMessage")) /\ Moves(w, Fail(w, "TerminalState"))
  BY FailMoves
<1>3. /\ w.state = "Idle" => Moves(w, ObserveIdle(w, d, h))
      /\ w.state = "Enumerating" => Moves(w, ObserveActive(w, d, h, "EntryBatch"))
      /\ w.state = "Streaming" => Moves(w, ObserveActive(w, d, h, "DataChunk"))
      /\ w.state = "Cancelling" => Moves(w, ObserveCancelling(w, d, h))
      /\ w.state = "Cancelled" => Moves(w, ObserveCancelled(w, d, h))
  BY IdleMoves, ActiveMoves, CancellingMoves, CancelledMoves
<1> QED BY <1>1, <1>2, <1>3 DEF ObserveInState

LEMMA ObserveMoves ==
    ASSUME NEW b \in Budgets, NEW w, Sound(w, b), NEW d, NEW h \in FrameHeaders, w.error = NoError
    PROVE  Moves(w, Observe(w, d, h, b))
<1> DEFINE c == Charge(w, h, b)
<1>1. w \in Validators /\ \A e : Moves(w, Fail(w, e))
  BY FailMoves DEF Sound
<1>2. c.error # NoError => Moves(w, c)
  BY ChargeIsSound DEF Moves
<1>3. c.error = NoError => Moves(w, ObserveInState(c, d, h))
  <2> SUFFICES ASSUME c.error = NoError PROVE Moves(w, ObserveInState(c, d, h))
    OBVIOUS
  <2>1. /\ c \in Validators /\ c.state = w.state
        /\ c.active_request_id = w.active_request_id
        /\ c.last_request_id = w.last_request_id
    BY ChargeIsSound DEF Sound
  <2>2. Moves(c, ObserveInState(c, d, h))
    BY <2>1, InStateMoves
  <2> HIDE DEF c
  <2> QED BY <2>1, <2>2 DEF Moves, IdsUnchanged, Ended
<1> QED BY <1>1, <1>2, <1>3 DEF Observe

(* The validator implements the abstract request lifecycle, for every       *)
(* budget and every sequence of headers: one request at a time, ids that    *)
(* only grow, one terminal outcome per request, and no request after an     *)
(* acknowledged cancellation.                                               *)
THEOREM ValidatorRefinesLifecycle == OwpSpec => ImplementsLifecycle
<1>1. OwpInit => Lifecycle!Init
  BY DEF OwpInit, NewValidator, Lifecycle!Init, PhaseOf
<1>2. Sound(owp, Limits) /\ Sound(owp, Limits)' /\ [OwpNext]_owpVars =>
          [Lifecycle!Next]_(Lifecycle!lifecycleVars)
  <2> SUFFICES ASSUME Sound(owp, Limits), Sound(owp, Limits)', [OwpNext]_owpVars
               PROVE  [Lifecycle!Next]_(Lifecycle!lifecycleVars)
    OBVIOUS
  <2>1. CASE owp' = owp
    BY <2>1 DEF Lifecycle!lifecycleVars
  <2>2. CASE OwpNext /\ owp.error = NoError
    <3>1. PICK d \in Directions, h \in Frames : owp' = Observe(owp, d, h, Limits)
      BY <2>2 DEF OwpNext, OwpStep
    <3>2. Moves(owp, owp')
      BY <2>2, <3>1, ObserveMoves, FramesAssumption, LimitsAssumption
    <3>3. owp.state # "Failed" /\ owp \in Validators /\ owp' \in Validators
      BY <2>2 DEF Sound, Consistent
    <3>4. owp.state \in {"Idle", "Cancelled"} => owp.active_request_id = 0
      BY <2>2 DEF Sound, Consistent, RequestStates
    <3> QED
      BY <3>2, <3>3, <3>4 DEF Moves, IdsUnchanged, Ended, PhaseOf, Validators, SessionStates,
         Lifecycle!lifecycleVars, Lifecycle!Next, Lifecycle!Open, Lifecycle!Start,
         Lifecycle!Stop, Lifecycle!Finish, Lifecycle!Acknowledge, Lifecycle!Close,
         Lifecycle!Abort
  <2>3. CASE OwpNext /\ owp.error # NoError
    BY <2>3 DEF OwpNext, OwpStep, Observe, Lifecycle!lifecycleVars
  <2> QED BY <2>1, <2>2, <2>3 DEF owpVars
<1>3. OwpSpec => []Sound(owp, Limits)
  BY ValidatorSafety, PTL DEF OwpTypeOK, FlagsAgree, Sound
<1> QED BY <1>1, <1>2, <1>3, PTL DEF OwpSpec, ImplementsLifecycle, Lifecycle!Spec
-----------------------------------------------------------------------------
(* PART 2: the parent against every worker.                                  *)

(* Frames the decoders can read. *)
OnWire(q) == \E F : q \in Seq(F) /\ \A f \in F : IsWire(f)

OptionOf(S) == {o \in Seq(S) : Len(o) <= 1}

EntryBudgets ==
    [remaining_entries : Int, maximum_entry_bytes : Nat,
     remaining_total_bytes : Int, previous_source_token : OptionOf(Nat)]
Candidates ==
    [generation : Nat, promotable : BOOLEAN, budget : EntryBudgets,
     entries : Seq(Entries)]
Catalogs == [generation : Nat, entries : Seq(Entries)]
Sessions ==
    [protocol : Validators, failure : ResultFailures \cup {NoFailure},
     enumeration_counter : Nat, candidate : OptionOf(Candidates),
     catalog : OptionOf(Catalogs), stream : OptionOf(Nat)]
Pendings ==
    [request_id : Nat, sequence : Nat \ {0}, status : ReplyStatuses, length : Nat]
Brokers ==
    [failure : BrokerFailures \cup {NoFailure}, committed_request_id : OptionOf(Nat),
     next_sequence : Nat \ {0}, sequence_exhausted : BOOLEAN, requests_charged : Nat,
     reply_payload_bytes_charged : Nat, pending : OptionOf(Pendings)]

(* The entries of a promotable candidate grow, and the budget remembers the  *)
(* last of them.                                                             *)
Growing(entries) ==
    \A i \in 1..Len(entries) - 1 : entries[i].token < entries[i + 1].token
CandidateInv(c) ==
    c.promotable =>
        /\ Growing(c.entries)
        /\ c.entries # <<>> =>
               c.budget.previous_source_token = Some(c.entries[Len(c.entries)].token)

CatalogInv(entries) ==
    /\ Growing(entries)
    /\ Len(entries) <= MaximumEntries
    /\ TotalBytes(entries) <= MaximumTotalBytes
    /\ \A i, j \in 1..Len(entries) : i # j => entries[i].path # entries[j].path

(* A session holds what it may hold, and nothing once it failed. *)
Held(r) ==
    /\ r \in Sessions
    /\ Sound(r.protocol, ParentBudgets)
    /\ r.failure # NoFailure => r.candidate = None /\ r.catalog = None /\ r.stream = None
    /\ r.candidate # None => CandidateInv(The(r.candidate))
    /\ r.catalog # None => CatalogInv(The(r.catalog).entries)
ResultInv(r) == Held(r) /\ (r.failure = NoFailure => r.protocol.error = NoError)

BrokerInv(b) ==
    /\ b \in Brokers
    /\ b.requests_charged <= MaximumReads
    /\ b.reply_payload_bytes_charged <= MaximumReplyBytes
    /\ b.next_sequence - 1 <= b.requests_charged

LivePhases == OpenPhases \cup {"Connecting", "AwaitingReady", "Closed"}
StateOf(p) == IF p = "Connecting" THEN "AwaitingHello" ELSE p

(* The phase, the validator, the broker and the open request go together. *)
PhaseInv ==
    /\ phase \in LivePhases \cup {"Terminal"}
    /\ phase = "Terminal" => results.failure # NoFailure
    /\ phase # "Terminal" =>
           /\ results.failure = NoFailure
           /\ results.protocol.state = StateOf(phase)
           /\ reads.failure = NoFailure /\ reads.pending = None
           /\ reads.committed_request_id # None =>
                  The(reads.committed_request_id) <= results.protocol.last_request_id
    /\ phase \in ReceivePhases => active_request_id = results.protocol.active_request_id
    /\ phase = "Enumerating" => results.candidate # None
    /\ phase = "Streaming" => results.stream # None
    /\ phase \in {"Connecting", "AwaitingReady"} => ~streaming
    /\ results.catalog # None => phase \in {"Idle", "Streaming"}
    /\ phase = "Cancelling" /\ results.candidate # None => ~The(results.candidate).promotable

SinkInv ==
    /\ sink \in Seq(Nat)
    /\ Len(sink) <= asked.size
    /\ results.stream # None => Len(sink) + The(results.stream) = asked.size
    /\ streaming /\ phase = "Idle" => Len(sink) = asked.size

Typed ==
    /\ OnWire(toParent)
    /\ next_request_id \in Nat /\ active_request_id \in Nat /\ streaming \in BOOLEAN
    /\ asked \in [enumerate : Seq(Nat), cancel : SUBSET Nat, size : Nat]

ParentInv ==
    /\ Typed
    /\ ResultInv(results)
    /\ BrokerInv(reads)
    /\ PhaseInv
    /\ SinkInv

-----------------------------------------------------------------------------
LEMMA Wired ==
    /\ OnWire(<< >>)
    /\ \A q : OnWire(q) /\ q # << >> => IsWire(Head(q)) /\ OnWire(Tail(q))
    /\ \A q, f : OnWire(q) /\ IsWire(f) => OnWire(Append(q, f))
<1>1. OnWire(<< >>)
  <2>1. \E F : << >> \in Seq(F) /\ \A f \in F : IsWire(f)
    <3> DEFINE F == {}
    <3>1. << >> \in Seq(F) /\ \A f \in F : IsWire(f)
      OBVIOUS
    <3> HIDE DEF F
    <3> QED BY <3>1
  <2> QED BY <2>1 DEF OnWire
<1>2. ASSUME NEW q, OnWire(q), q # << >> PROVE IsWire(Head(q)) /\ OnWire(Tail(q))
  <2>1. PICK F : q \in Seq(F) /\ \A f \in F : IsWire(f)
    BY <1>2 DEF OnWire
  <2>2. Head(q) \in F /\ Tail(q) \in Seq(F)
    BY <1>2, <2>1, HeadTailProperties
  <2> QED BY <2>1, <2>2 DEF OnWire
<1>3. ASSUME NEW q, NEW f, OnWire(q), IsWire(f) PROVE OnWire(Append(q, f))
  <2>1. PICK F : q \in Seq(F) /\ \A g \in F : IsWire(g)
    BY <1>3 DEF OnWire
  <2> DEFINE G == F \cup {f}
  <2>2. q \in Seq(G) /\ f \in G /\ \A g \in G : IsWire(g)
    BY <1>3, <2>1
  <2> HIDE DEF G
  <2>3. Append(q, f) \in Seq(G)
    BY <2>2, AppendProperties
  <2> QED BY <2>2, <2>3 DEF OnWire
<1> QED BY <1>1, <1>2, <1>3

(* Options, and the bytes a run of entries declares. *)
LEMMA Options ==
    /\ \A x : Some(x) # None /\ The(Some(x)) = x
    /\ \A S, x : x \in S => Some(x) \in OptionOf(S)
    /\ \A S : None \in OptionOf(S)
    /\ \A S : \A o \in OptionOf(S) : o # None => The(o) \in S /\ o = Some(The(o))
<1>1. \A x : Some(x) # None /\ The(Some(x)) = x
  BY DEF Some, None, The
<1>2. \A S, x : x \in S => Some(x) \in OptionOf(S)
  BY DEF Some, OptionOf
<1>3. \A S : None \in OptionOf(S)
  BY DEF None, OptionOf
<1>4. ASSUME NEW S, NEW o \in OptionOf(S), o # None PROVE The(o) \in S /\ o = Some(The(o))
  <2>1. o \in Seq(S) /\ Len(o) \in Nat /\ Len(o) <= 1
    BY DEF OptionOf
  <2>2. o # << >>
    BY <1>4 DEF None
  <2>3. Len(o) # 0
    BY <2>1, <2>2, EmptySeq
  <2>4. Len(o) = 1
    <3>1. \A n \in Nat : n <= 1 /\ n # 0 => n = 1
      OBVIOUS
    <3> QED BY <2>1, <2>3, <3>1
  <2> QED BY <2>1, <2>4 DEF The, Some
<1> QED BY <1>1, <1>2, <1>3, <1>4

(* The sum of a run of sizes exists, step by step. *)
SumOf(x, n, f) == f = [i \in 0..n |-> IF i = 0 THEN 0 ELSE f[i - 1] + x[i].size]

LEMMA SumExists ==
    ASSUME NEW x, NEW N \in Nat PROVE \E f : SumOf(x, N, f)
<1> DEFINE S == {n \in Nat : \E f : SumOf(x, n, f)}
<1>1. 0 \in S
  <2>1. SumOf(x, 0, [i \in 0..0 |-> 0])
    BY DEF SumOf
  <2> QED BY <2>1
<1>2. ASSUME NEW n \in Nat, n \in S PROVE n + 1 \in S
  <2>1. PICK f : SumOf(x, n, f)
    BY <1>2
  <2> DEFINE g == [i \in 0..(n + 1) |-> IF i = n + 1 THEN f[n] + x[n + 1].size ELSE f[i]]
  <2>2. ASSUME NEW i \in 0..(n + 1)
        PROVE  g[i] = IF i = 0 THEN 0 ELSE g[i - 1] + x[i].size
    <3>1. CASE i = 0
      BY <2>1, <3>1 DEF SumOf
    <3>2. CASE i \in 1..n
      <4>1. f[i] = f[i - 1] + x[i].size
        BY <2>1, <3>2 DEF SumOf
      <4>2. g[i] = f[i] /\ g[i - 1] = f[i - 1]
        BY <3>2
      <4> QED BY <3>2, <4>1, <4>2
    <3>3. CASE i = n + 1
      <4>1. g[i] = f[n] + x[n + 1].size /\ g[i - 1] = f[n]
        BY <3>3
      <4> QED BY <3>3, <4>1
    <3> QED BY <3>1, <3>2, <3>3
  <2>3. g = [i \in 0..(n + 1) |-> g[i]]
    OBVIOUS
  <2> HIDE DEF g
  <2>4. SumOf(x, n + 1, g)
    BY <2>2, <2>3 DEF SumOf
  <2> QED BY <2>4
<1>3. Nat \subseteq S
  <2> HIDE DEF S
  <2> QED BY <1>1, <1>2, Induction
<1> QED BY <1>3

LEMMA TotalBytesType ==
    ASSUME NEW x \in Seq(Entries) PROVE TotalBytes(x) \in Nat
<1> DEFINE N == Len(x)
           sum == CHOOSE f : SumOf(x, N, f)
           S == {n \in Nat : n <= N => sum[n] \in Nat}
<1>0. N \in Nat /\ \A i \in 1..N : x[i].size \in Nat
  BY EntriesAssumption
<1>1. SumOf(x, N, sum)
  BY <1>0, SumExists
<1>2. TotalBytes(x) = sum[N]
  BY DEF TotalBytes, SumOf
<1> HIDE DEF sum, N
<1>3. \A i \in 0..N : sum[i] = IF i = 0 THEN 0 ELSE sum[i - 1] + x[i].size
  BY <1>1 DEF SumOf
<1>4. 0 \in S
  BY <1>0, <1>3
<1>5. ASSUME NEW n \in Nat, n \in S PROVE n + 1 \in S
  <2> SUFFICES ASSUME n + 1 <= N PROVE sum[n + 1] \in Nat
    OBVIOUS
  <2>1. sum[n + 1] = sum[n] + x[n + 1].size
    BY <1>0, <1>3
  <2> QED BY <1>0, <1>5, <2>1
<1>6. Nat \subseteq S
  <2> HIDE DEF S
  <2> QED BY <1>4, <1>5, Induction
<1> QED BY <1>0, <1>2, <1>6

-----------------------------------------------------------------------------
(* A retired session keeps nothing, and the first failure stays. *)
LEMMA RetireIsHeld ==
    ASSUME NEW r, Held(r), NEW e \in ResultFailures
    PROVE  /\ ResultInv(Retire(r, e)) /\ Retire(r, e).failure # NoFailure
           /\ Retire(r, e).catalog = None
           /\ Retire(r, e).stream = None \/ Retire(r, e).stream = r.stream
<1>1. e # NoFailure /\ \A S : None \in OptionOf(S)
  BY Options DEF ResultFailures, NoFailure
<1>2. CASE r.failure # NoFailure
  BY <1>2 DEF Retire, ResultInv, Held
<1>3. CASE r.failure = NoFailure
  <2> DEFINE o == [protocol |-> r.protocol, failure |-> e,
                   enumeration_counter |-> r.enumeration_counter,
                   candidate |-> None, catalog |-> None, stream |-> None]
  <2>1. Retire(r, e) = o
    BY <1>3 DEF Retire, RetireAll, Held, Sessions
  <2>2. ResultInv(o)
    BY <1>1 DEF ResultInv, Held, Sessions
  <2> QED BY <1>1, <2>1, <2>2
<1> QED BY <1>2, <1>3

(* The failures the operations raise. *)
LEMMA RetiredWith ==
    ASSUME NEW r, Held(r)
    PROVE  \A e \in {"InvalidState", "Protocol", "Layout", "ResultValidation",
                     "UnknownSourceToken", "DownstreamFailure", "IncompleteStream",
                     "GenerationExhausted", "SourceInvalidated", "SourceReadFailure",
                     "WorkerFailure"} :
               /\ ResultInv(Retire(r, e)) /\ Retire(r, e).failure # NoFailure
               /\ Retire(r, e).catalog = None
               /\ Retire(r, e).stream = None \/ Retire(r, e).stream = r.stream
BY RetireIsHeld DEF ResultFailures

(* What an accepted frame leaves of a session. *)
Observed(r, d, f, o) ==
    /\ r.failure = NoFailure
    /\ o.protocol = Observe(r.protocol, d, f.h, ParentBudgets)
    /\ o = [r EXCEPT !.protocol = Observe(r.protocol, d, f.h, ParentBudgets)]
    /\ o.stream = r.stream /\ o.candidate = r.candidate /\ o.catalog = r.catalog
    /\ o.enumeration_counter = r.enumeration_counter
    /\ ResultInv(o)
    /\ Effects(r.protocol, d, f.h, o.protocol)

LEMMA ObservedOrRetired ==
    ASSUME NEW r, ResultInv(r), r.failure = NoFailure, NEW d \in Directions,
           NEW f, f.h \in FrameHeaders
    PROVE  LET o == ResultObserve(r, d, f) IN
           /\ ResultInv(o)
           /\ o.failure = NoFailure => Observed(r, d, f, o)
           /\ o.failure # NoFailure => o.catalog = None
           /\ o.stream = None \/ o.stream = r.stream
<1> DEFINE p == Observe(r.protocol, d, f.h, ParentBudgets)
           seen == [r EXCEPT !.protocol = p]
<1>0. ParentBudgets \in Budgets
  BY ParentBudgetsAssumption
<1>1. Sound(p, ParentBudgets) /\ p \in Validators
  BY <1>0, ObserveIsSound DEF ResultInv, Held, Sound
<1>2. p.error = NoError => Effects(r.protocol, d, f.h, p)
  BY <1>0, AcceptedEffects DEF ResultInv, Held
<1>3. ResultObserve(r, d, f) = IF p.error = NoError THEN seen ELSE Retire(seen, "Protocol")
  BY DEF ResultObserve, ResultInv, Held, Sessions
<1> HIDE DEF p
<1>4. /\ seen.protocol = p /\ seen.failure = NoFailure
      /\ seen.stream = r.stream /\ seen.catalog = r.catalog /\ seen.candidate = r.candidate
      /\ seen.enumeration_counter = r.enumeration_counter
  BY DEF ResultInv, Held, Sessions
<1>5. seen \in Sessions
  BY <1>1 DEF ResultInv, Held, Sessions
<1> HIDE DEF seen
<1>6. Held(seen)
  BY <1>1, <1>4, <1>5 DEF ResultInv, Held
<1>7. CASE p.error = NoError
  <2>1. ResultInv(seen)
    BY <1>4, <1>6, <1>7 DEF ResultInv
  <2> QED BY <1>2, <1>3, <1>4, <1>7, <2>1 DEF Observed, seen, p
<1>8. CASE p.error # NoError
  <2>1. LET t == Retire(seen, "Protocol") IN
        /\ ResultInv(t) /\ t.failure # NoFailure /\ t.catalog = None
        /\ t.stream = None \/ t.stream = seen.stream
    BY <1>6, RetiredWith
  <2> QED BY <1>3, <1>4, <1>8, <2>1
<1> QED BY <1>7, <1>8

-----------------------------------------------------------------------------
(* One lemma per operation of the result session: it keeps what a session    *)
(* may hold, and says what an operation that succeeds leaves behind.         *)

NewCandidate(generation) ==
    [generation |-> generation, promotable |-> TRUE,
     budget |-> [remaining_entries |-> MaximumEntries,
                 maximum_entry_bytes |-> MaximumEntryBytes,
                 remaining_total_bytes |-> MaximumTotalBytes,
                 previous_source_token |-> None],
     entries |-> <<>>]

LEMMA BeginEnumerationHolds ==
    ASSUME NEW r, ResultInv(r), r.failure = NoFailure, NEW f, f.h \in FrameHeaders
    PROVE  LET o == BeginEnumeration(r, f) IN
           /\ ResultInv(o)
           /\ o.failure = NoFailure =>
                  /\ Effects(r.protocol, "ParentToWorker", f.h, o.protocol)
                  /\ o.candidate # None /\ o.catalog = None /\ o.stream = None
                  /\ o.enumeration_counter = r.enumeration_counter + 1
                  /\ The(o.candidate) = NewCandidate(r.enumeration_counter + 1)
<1> DEFINE o == ResultObserve(r, "ParentToWorker", f)
           n == o.enumeration_counter + 1
           c == NewCandidate(n)
           next == [RetireAll(o) EXCEPT !.enumeration_counter = n, !.candidate = Some(c)]
<1>1. "ParentToWorker" \in Directions
  BY DEF Directions
<1>2. /\ ResultInv(o)
      /\ o.failure = NoFailure => Observed(r, "ParentToWorker", f, o)
  BY <1>1, ObservedOrRetired
<1>3. o \in Sessions /\ n \in Nat
  BY <1>2 DEF ResultInv, Held, Sessions
<1>4. BeginEnumeration(r, f) =
        IF r.enumeration_counter = MaxCounter THEN Retire(r, "GenerationExhausted")
        ELSE IF o.failure # NoFailure THEN o ELSE next
  <2>1. RetireAll(o).enumeration_counter = o.enumeration_counter
    BY <1>3 DEF RetireAll, Sessions
  <2> QED BY <2>1 DEF BeginEnumeration, AndThen, NewCandidate
<1>5. c \in Candidates /\ CandidateInv(c)
  <2>1. c.budget \in EntryBudgets
    BY ResultLimitsAssumption, Options DEF NewCandidate, EntryBudgets
  <2>2. c \in Candidates
    BY <1>3, <2>1 DEF NewCandidate, Candidates
  <2>3. c.entries = << >> /\ Len(c.entries) = 0
    BY DEF NewCandidate
  <2> QED BY <2>2, <2>3 DEF CandidateInv, Growing
<1>6. Some(c) \in OptionOf(Candidates) /\ Some(c) # None /\ The(Some(c)) = c
      /\ None \in OptionOf(Catalogs) /\ None \in OptionOf(Nat)
  BY <1>5, Options
<1> HIDE DEF o, n, c
<1>7. /\ next \in Sessions /\ next.protocol = o.protocol /\ next.failure = o.failure
      /\ next.candidate = Some(c) /\ next.catalog = None /\ next.stream = None
      /\ next.enumeration_counter = n
  BY <1>3, <1>6 DEF RetireAll, Sessions
<1> HIDE DEF next
<1>8. ASSUME o.failure = NoFailure PROVE ResultInv(next)
  BY <1>2, <1>5, <1>6, <1>7, <1>8 DEF ResultInv, Held
<1>9. ResultInv(Retire(r, "GenerationExhausted"))
      /\ Retire(r, "GenerationExhausted").failure # NoFailure
  BY RetiredWith DEF ResultInv
<1>10. o.failure = NoFailure =>
           n = r.enumeration_counter + 1 /\ c = NewCandidate(r.enumeration_counter + 1)
  BY <1>2 DEF Observed, n, c
<1> QED BY <1>2, <1>4, <1>6, <1>7, <1>8, <1>9, <1>10 DEF Observed

LEMMA ConcatGrows ==
    ASSUME NEW s \in Seq(Entries), NEW t \in Seq(Entries),
           Growing(s), Growing(t), t # <<>>,
           s # <<>> => s[Len(s)].token < t[1].token
    PROVE  Growing(s \o t)
<1> SUFFICES ASSUME NEW i \in 1..(Len(s \o t) - 1)
             PROVE  (s \o t)[i].token < (s \o t)[i + 1].token
  BY DEF Growing
<1>1. /\ s \o t \in Seq(Entries) /\ Len(s \o t) = Len(s) + Len(t)
      /\ Len(s) \in Nat /\ Len(t) \in Nat
      /\ \A j \in 1..Len(s) + Len(t) :
             (s \o t)[j] = IF j <= Len(s) THEN s[j] ELSE t[j - Len(s)]
  BY ConcatProperties
<1>2. CASE i + 1 <= Len(s)
  <2>1. (s \o t)[i] = s[i] /\ (s \o t)[i + 1] = s[i + 1] /\ i \in 1..Len(s) - 1
    BY <1>1, <1>2
  <2> QED BY <2>1 DEF Growing
<1>3. CASE i = Len(s)
  <2>1. (s \o t)[i] = s[Len(s)] /\ (s \o t)[i + 1] = t[1]
    BY <1>1, <1>3
  <2>2. s # <<>>
    BY <1>3
  <2> QED BY <2>1, <2>2
<1>4. CASE i > Len(s)
  <2>1. /\ (s \o t)[i] = t[i - Len(s)] /\ (s \o t)[i + 1] = t[i - Len(s) + 1]
        /\ i - Len(s) \in 1..Len(t) - 1
    BY <1>1, <1>4
  <2> QED BY <2>1 DEF Growing
<1> QED BY <1>1, <1>2, <1>3, <1>4

(* A batch that is accepted extends the candidate in order. *)
Extended(c, body) ==
    [c EXCEPT !.entries = IF c.promotable THEN @ \o body ELSE @,
              !.budget = Spend(@, body)]

LEMMA ExtendedCandidate ==
    ASSUME NEW c \in Candidates, CandidateInv(c), NEW body \in Seq(Entries),
           BatchIsCanonical(body, c.budget)
    PROVE  /\ Extended(c, body) \in Candidates /\ CandidateInv(Extended(c, body))
           /\ Extended(c, body).promotable = c.promotable
           /\ Extended(c, body).generation = c.generation
           /\ c.promotable => Extended(c, body).entries = c.entries \o body
<1> DEFINE entries == IF c.promotable THEN c.entries \o body ELSE c.entries
           last == body[Len(body)].token
           budget == Spend(c.budget, body)
           new == [c EXCEPT !.entries = entries, !.budget = budget]
<1>1. c.budget \in EntryBudgets /\ c.entries \in Seq(Entries)
  BY DEF Candidates
<1>2. /\ Len(body) \in Nat \ {0} /\ body # <<>> /\ Growing(body)
      /\ c.budget.previous_source_token # None =>
             body[1].token > The(c.budget.previous_source_token)
  <2>1. Len(body) \in 1..c.budget.remaining_entries /\ c.budget.remaining_entries \in Int
    BY <1>1 DEF BatchIsCanonical, EntryBudgets
  <2> QED BY <2>1 DEF BatchIsCanonical, Growing
<1>3. last \in Nat /\ body[1].token \in Nat
  BY <1>2, EntriesAssumption
<1>4. TotalBytes(body) \in Nat
  BY TotalBytesType
<1>5. Extended(c, body) = new
  BY DEF Extended, Candidates
<1>6. Some(last) \in OptionOf(Nat)
  BY <1>3, Options
<1>7. budget \in EntryBudgets /\ budget.previous_source_token = Some(last)
  <2> DEFINE x == c.budget.remaining_entries - Len(body)
             y == c.budget.remaining_total_bytes - TotalBytes(body)
             z == Some(last)
  <2>1. budget = [c.budget EXCEPT !.remaining_entries = x, !.remaining_total_bytes = y,
                                  !.previous_source_token = z]
    BY <1>1 DEF Spend, EntryBudgets
  <2>2. x \in Int /\ y \in Int
    BY <1>1, <1>2, <1>4 DEF EntryBudgets
  <2> HIDE DEF x, y, z, budget
  <2>3. budget \in EntryBudgets /\ budget.previous_source_token = z
    BY <1>1, <1>6, <2>1, <2>2 DEF EntryBudgets, z
  <2> QED BY <2>3 DEF z
<1>8. entries \in Seq(Entries)
  BY <1>1, ConcatProperties
<1>9. ASSUME c.promotable
      PROVE  /\ Growing(c.entries \o body) /\ c.entries \o body # <<>>
             /\ (c.entries \o body)[Len(c.entries \o body)].token = last
  <2>1. Growing(c.entries) /\ (c.entries # <<>> =>
            c.budget.previous_source_token = Some(c.entries[Len(c.entries)].token))
    BY <1>9 DEF CandidateInv
  <2>2. c.entries # <<>> => c.entries[Len(c.entries)].token < body[1].token
    <3> SUFFICES ASSUME c.entries # <<>>
                 PROVE  c.entries[Len(c.entries)].token < body[1].token
      OBVIOUS
    <3>1. body[1].token > c.entries[Len(c.entries)].token
      BY <1>2, <2>1, Options
    <3>2. c.entries[Len(c.entries)].token \in Nat
      <4>1. Len(c.entries) \in Nat /\ Len(c.entries) # 0
        BY <1>1, EmptySeq
      <4> QED BY <1>1, <4>1, EntriesAssumption
    <3> QED BY <1>3, <3>1, <3>2
  <2>3. Growing(c.entries \o body)
    BY <1>1, <1>2, <2>1, <2>2, ConcatGrows
  <2>4. /\ Len(c.entries \o body) = Len(c.entries) + Len(body)
        /\ Len(c.entries) \in Nat /\ Len(body) \in Nat \ {0}
        /\ \A j \in 1..Len(c.entries) + Len(body) :
             (c.entries \o body)[j] =
                 IF j <= Len(c.entries) THEN c.entries[j] ELSE body[j - Len(c.entries)]
    BY <1>1, <1>2, ConcatProperties
  <2>5. (c.entries \o body)[Len(c.entries) + Len(body)] = body[Len(body)]
    BY <2>4
  <2>6. c.entries \o body # <<>>
    BY <2>4
  <2> QED BY <2>3, <2>4, <2>5, <2>6
<1> HIDE DEF budget, entries
<1>10. /\ new \in Candidates /\ new.promotable = c.promotable
       /\ new.entries = entries /\ new.budget = budget /\ new.generation = c.generation
  BY <1>7, <1>8 DEF Candidates
<1> HIDE DEF new
<1>11. CandidateInv(new)
  BY <1>7, <1>9, <1>10 DEF CandidateInv, entries
<1> QED BY <1>5, <1>10, <1>11 DEF entries

LEMMA AcceptEntryBatchHolds ==
    ASSUME NEW r, ResultInv(r), r.failure = NoFailure, NEW f, f.h \in FrameHeaders,
           f.body \in Seq(Entries)
    PROVE  LET o == AcceptEntryBatch(r, f) IN
           /\ ResultInv(o)
           /\ o.failure = NoFailure =>
                  /\ Effects(r.protocol, "WorkerToParent", f.h, o.protocol)
                  /\ r.candidate # None /\ o.candidate # None
                  /\ The(o.candidate).promotable = The(r.candidate).promotable
                  /\ The(o.candidate).generation = The(r.candidate).generation
                  /\ The(r.candidate).promotable =>
                         The(o.candidate).entries = The(r.candidate).entries \o f.body
                  /\ o.catalog = r.catalog /\ o.stream = r.stream
                  /\ o.enumeration_counter = r.enumeration_counter
<1> DEFINE o == ResultObserve(r, "WorkerToParent", f)
           c == The(r.candidate)
           new == Extended(c, f.body)
           next == [o EXCEPT !.candidate = Some(new)]
           canonical == BatchIsCanonical(f.body, c.budget)
<1>1. "WorkerToParent" \in Directions
  BY DEF Directions
<1>2. /\ ResultInv(o)
      /\ o.failure = NoFailure => Observed(r, "WorkerToParent", f, o)
  BY <1>1, ObservedOrRetired
<1>3. AcceptEntryBatch(r, f) =
        IF r.candidate = None THEN Retire(r, "InvalidState")
        ELSE IF ~canonical THEN Retire(r, "Protocol")
        ELSE IF o.failure # NoFailure THEN o ELSE next
  BY DEF AcceptEntryBatch, AndThen, Extended
<1>4. ResultInv(Retire(r, "InvalidState")) /\ Retire(r, "InvalidState").failure # NoFailure
      /\ ResultInv(Retire(r, "Protocol")) /\ Retire(r, "Protocol").failure # NoFailure
  BY RetiredWith DEF ResultInv
<1>5. ASSUME r.candidate # None, canonical, o.failure = NoFailure
      PROVE  /\ ResultInv(next) /\ next.protocol = o.protocol
             /\ next.candidate # None /\ The(next.candidate).promotable = c.promotable
             /\ The(next.candidate).generation = c.generation
             /\ c.promotable => The(next.candidate).entries = c.entries \o f.body
             /\ next.catalog = r.catalog /\ next.stream = r.stream
             /\ next.enumeration_counter = r.enumeration_counter
  <2>1. c \in Candidates /\ CandidateInv(c)
    BY <1>5, Options DEF ResultInv, Held, Sessions
  <2>2. /\ new \in Candidates /\ CandidateInv(new) /\ new.promotable = c.promotable
        /\ new.generation = c.generation
        /\ c.promotable => new.entries = c.entries \o f.body
    BY <1>5, <2>1, ExtendedCandidate
  <2>3. Some(new) \in OptionOf(Candidates) /\ Some(new) # None /\ The(Some(new)) = new
    BY <2>2, Options
  <2>4. o \in Sessions /\ o.catalog = r.catalog /\ o.stream = r.stream
        /\ o.enumeration_counter = r.enumeration_counter
    BY <1>2, <1>5 DEF Observed, ResultInv, Held, Sessions
  <2> HIDE DEF o, new, c
  <2>5. /\ next \in Sessions /\ next.protocol = o.protocol /\ next.failure = o.failure
        /\ next.candidate = Some(new) /\ next.catalog = o.catalog /\ next.stream = o.stream
        /\ next.enumeration_counter = o.enumeration_counter
    BY <2>3, <2>4 DEF Sessions
  <2> HIDE DEF next
  <2>6. ResultInv(next)
    BY <1>2, <1>5, <2>2, <2>3, <2>5 DEF ResultInv, Held
  <2> QED BY <2>2, <2>3, <2>4, <2>5, <2>6
<1> HIDE DEF o, next, canonical
<1>6. CASE r.candidate # None /\ canonical /\ o.failure = NoFailure
  BY <1>2, <1>3, <1>5, <1>6 DEF Observed
<1> QED BY <1>2, <1>3, <1>4, <1>6

LEMMA CompleteEnumerationHolds ==
    ASSUME NEW r, ResultInv(r), r.failure = NoFailure, NEW f, f.h \in FrameHeaders
    PROVE  LET o == CompleteEnumeration(r, f) IN
           /\ ResultInv(o)
           /\ o.failure = NoFailure =>
                  /\ Effects(r.protocol, "WorkerToParent", f.h, o.protocol)
                  /\ r.candidate # None /\ o.candidate = None /\ o.stream = r.stream
                  /\ ~The(r.candidate).promotable => o.catalog = r.catalog
                  /\ The(r.candidate).promotable =>
                         o.catalog = Some([generation |-> The(r.candidate).generation,
                                           entries |-> The(r.candidate).entries])
                  /\ o.enumeration_counter = r.enumeration_counter
<1> DEFINE o == ResultObserve(r, "WorkerToParent", f)
           c == The(r.candidate)
           catalog == IF c.promotable
                      THEN Some([generation |-> c.generation, entries |-> c.entries])
                      ELSE o.catalog
           next == [o EXCEPT !.catalog = catalog, !.candidate = None]
           plans == c.promotable => PlanSucceeds(c.entries)
           differs == TotalBytes(c.entries) #
                          MaximumTotalBytes - c.budget.remaining_total_bytes
<1>1. "WorkerToParent" \in Directions
  BY DEF Directions
<1>2. /\ ResultInv(o)
      /\ o.failure = NoFailure => Observed(r, "WorkerToParent", f, o)
  BY <1>1, ObservedOrRetired
<1>3. CompleteEnumeration(r, f) =
        IF r.candidate = None THEN Retire(r, "InvalidState")
        ELSE IF ~plans THEN Retire(r, "Layout")
        ELSE IF c.promotable /\ differs THEN Retire(r, "ResultValidation")
        ELSE IF o.failure # NoFailure THEN o ELSE next
  <2>1. o \in Sessions
    BY <1>2 DEF ResultInv, Held
  <2> QED BY <2>1 DEF CompleteEnumeration, AndThen, Sessions
<1>4. ResultInv(Retire(r, "InvalidState")) /\ Retire(r, "InvalidState").failure # NoFailure
      /\ ResultInv(Retire(r, "Layout")) /\ Retire(r, "Layout").failure # NoFailure
      /\ ResultInv(Retire(r, "ResultValidation"))
      /\ Retire(r, "ResultValidation").failure # NoFailure
  BY RetiredWith DEF ResultInv
<1>5. ASSUME r.candidate # None, plans, o.failure = NoFailure
      PROVE  /\ ResultInv(next) /\ next.protocol = o.protocol
             /\ next.candidate = None /\ next.stream = r.stream
             /\ ~c.promotable => next.catalog = r.catalog
             /\ c.promotable =>
                    next.catalog = Some([generation |-> c.generation, entries |-> c.entries])
             /\ next.enumeration_counter = r.enumeration_counter
  <2>1. c \in Candidates /\ CandidateInv(c)
    BY <1>5, Options DEF ResultInv, Held, Sessions
  <2> DEFINE g == [generation |-> c.generation, entries |-> c.entries]
  <2>2. c.promotable => g \in Catalogs /\ CatalogInv(g.entries)
    BY <1>5, <2>1 DEF Candidates, Catalogs, CandidateInv, CatalogInv, PlanSucceeds
  <2>3. o \in Sessions /\ o.catalog = r.catalog /\ o.stream = r.stream
        /\ o.enumeration_counter = r.enumeration_counter
    BY <1>2, <1>5 DEF Observed, ResultInv, Held, Sessions
  <2>4. /\ catalog \in OptionOf(Catalogs) /\ None \in OptionOf(Candidates)
        /\ catalog # None => CatalogInv(The(catalog).entries)
    <3>1. CASE c.promotable
      <4> HIDE DEF g
      <4>1. Some(g) \in OptionOf(Catalogs) /\ The(Some(g)) = g
        BY <2>2, <3>1, Options
      <4> QED BY <2>2, <3>1, <4>1, Options DEF g
    <3>2. CASE ~c.promotable
      BY <1>2, <2>3, <3>2, Options DEF ResultInv, Held, Sessions
    <3> QED BY <3>1, <3>2
  <2>5. /\ ~c.promotable => catalog = r.catalog
        /\ c.promotable => catalog = Some(g)
    BY <2>3
  <2> HIDE DEF o, c, catalog
  <2>6. /\ next \in Sessions /\ next.protocol = o.protocol /\ next.failure = o.failure
        /\ next.candidate = None /\ next.catalog = catalog /\ next.stream = o.stream
        /\ next.enumeration_counter = o.enumeration_counter
    BY <2>3, <2>4 DEF Sessions
  <2> HIDE DEF next
  <2>7. ResultInv(next)
    BY <1>2, <1>5, <2>4, <2>6 DEF ResultInv, Held
  <2> QED BY <2>3, <2>5, <2>6, <2>7
<1> HIDE DEF o, next, plans, differs
<1>6. CASE r.candidate # None /\ plans /\ o.failure = NoFailure
  BY <1>2, <1>3, <1>4, <1>5, <1>6 DEF Observed
<1> QED BY <1>2, <1>3, <1>4, <1>6

LEMMA BeginStreamEntryHolds ==
    ASSUME NEW r, ResultInv(r), r.failure = NoFailure, NEW f, f.h \in FrameHeaders,
           NEW generation
    PROVE  LET o == BeginStreamEntry(r, f, generation) IN
           /\ ResultInv(o)
           /\ o.failure = NoFailure =>
                  /\ Effects(r.protocol, "ParentToWorker", f.h, o.protocol)
                  /\ o.stream # None /\ The(o.stream) \in Nat
                  /\ o.candidate = r.candidate /\ o.catalog = r.catalog
                  /\ o.enumeration_counter = r.enumeration_counter
<1> DEFINE o == ResultObserve(r, "ParentToWorker", f)
           found == FindEntry(r, generation, f.body[1])
           size == (CHOOSE e \in found : TRUE).size
           next == [o EXCEPT !.stream = Some(size)]
<1>1. "ParentToWorker" \in Directions
  BY DEF Directions
<1>2. /\ ResultInv(o)
      /\ o.failure = NoFailure => Observed(r, "ParentToWorker", f, o)
  BY <1>1, ObservedOrRetired
<1>3. BeginStreamEntry(r, f, generation) =
        IF found = {} THEN Retire(r, "UnknownSourceToken")
        ELSE IF o.failure # NoFailure THEN o ELSE next
  BY DEF BeginStreamEntry, AndThen
<1>4. ResultInv(Retire(r, "UnknownSourceToken"))
      /\ Retire(r, "UnknownSourceToken").failure # NoFailure
  BY RetiredWith DEF ResultInv
<1>5. ASSUME found # {}, o.failure = NoFailure
      PROVE  /\ ResultInv(next) /\ next.protocol = o.protocol
             /\ next.stream # None /\ The(next.stream) \in Nat
             /\ next.candidate = r.candidate /\ next.catalog = r.catalog
             /\ next.enumeration_counter = r.enumeration_counter
  <2>1. r.catalog # None
    BY <1>5 DEF FindEntry
  <2>2. The(r.catalog) \in Catalogs
    BY <2>1, Options DEF ResultInv, Held, Sessions
  <2>3. The(r.catalog).entries \in Seq(Entries)
    BY <2>2 DEF Catalogs
  <2>4. found \subseteq Entries
    BY <2>3 DEF FindEntry
  <2>5. (CHOOSE e \in found : TRUE) \in found
    BY <1>5
  <2>6. size \in Nat
    BY <2>4, <2>5, EntriesAssumption
  <2>7. Some(size) \in OptionOf(Nat) /\ Some(size) # None /\ The(Some(size)) = size
    BY <2>6, Options
  <2>8. o \in Sessions /\ o.catalog = r.catalog /\ o.candidate = r.candidate
        /\ o.enumeration_counter = r.enumeration_counter
    BY <1>2, <1>5 DEF Observed, ResultInv, Held, Sessions
  <2> HIDE DEF o, size, found
  <2>9. /\ next \in Sessions /\ next.protocol = o.protocol /\ next.failure = o.failure
        /\ next.candidate = o.candidate /\ next.catalog = o.catalog /\ next.stream = Some(size)
        /\ next.enumeration_counter = o.enumeration_counter
    BY <2>7, <2>8 DEF Sessions
  <2> HIDE DEF next
  <2>10. ResultInv(next)
    BY <1>2, <1>5, <2>9 DEF ResultInv, Held
  <2> QED BY <2>6, <2>7, <2>8, <2>9, <2>10
<1> HIDE DEF o, next, found
<1> QED BY <1>2, <1>3, <1>4, <1>5 DEF Observed

LEMMA AcceptDataChunkHolds ==
    ASSUME NEW r, ResultInv(r), r.failure = NoFailure, NEW f, f.h \in FrameHeaders,
           f.body \in Seq(Nat), NEW sinkOk \in BOOLEAN
    PROVE  LET o == AcceptDataChunk(r, f, sinkOk) IN
           /\ ResultInv(o)
           /\ o.failure = NoFailure =>
                  /\ Effects(r.protocol, "WorkerToParent", f.h, o.protocol)
                  /\ r.stream # None /\ o.stream # None
                  /\ The(r.stream) \in Nat /\ Len(f.body) <= The(r.stream)
                  /\ The(o.stream) = The(r.stream) - Len(f.body)
                  /\ o.candidate = r.candidate /\ o.catalog = r.catalog
                  /\ o.enumeration_counter = r.enumeration_counter
<1> DEFINE o == ResultObserve(r, "WorkerToParent", f)
           fits == Len(f.body) \in 1..The(r.stream)
           left == The(r.stream) - Len(f.body)
           next == [o EXCEPT !.stream = Some(left)]
<1>1. "WorkerToParent" \in Directions
  BY DEF Directions
<1>2. /\ ResultInv(o)
      /\ o.failure = NoFailure => Observed(r, "WorkerToParent", f, o)
  BY <1>1, ObservedOrRetired
<1>3. AcceptDataChunk(r, f, sinkOk) =
        IF r.stream = None THEN Retire(r, "InvalidState")
        ELSE IF ~fits THEN Retire(r, "Protocol")
        ELSE IF o.failure # NoFailure THEN o
        ELSE IF ~sinkOk THEN Retire(o, "DownstreamFailure") ELSE next
  BY DEF AcceptDataChunk, AndThen
<1>4. /\ ResultInv(Retire(r, "InvalidState")) /\ Retire(r, "InvalidState").failure # NoFailure
      /\ ResultInv(Retire(r, "Protocol")) /\ Retire(r, "Protocol").failure # NoFailure
      /\ ResultInv(Retire(o, "DownstreamFailure"))
      /\ Retire(o, "DownstreamFailure").failure # NoFailure
  BY <1>2, RetiredWith DEF ResultInv
<1>5. ASSUME r.stream # None, fits, o.failure = NoFailure
      PROVE  /\ ResultInv(next) /\ next.protocol = o.protocol
             /\ next.stream # None /\ The(r.stream) \in Nat
             /\ Len(f.body) <= The(r.stream) /\ The(next.stream) = left
             /\ next.candidate = r.candidate /\ next.catalog = r.catalog
             /\ next.enumeration_counter = r.enumeration_counter
  <2>1. The(r.stream) \in Nat
    BY <1>5, Options DEF ResultInv, Held, Sessions
  <2>2. left \in Nat /\ Len(f.body) <= The(r.stream)
    BY <1>5, <2>1
  <2>3. Some(left) \in OptionOf(Nat) /\ Some(left) # None /\ The(Some(left)) = left
    BY <2>2, Options
  <2>4. o \in Sessions /\ o.catalog = r.catalog /\ o.candidate = r.candidate
        /\ o.enumeration_counter = r.enumeration_counter
    BY <1>2, <1>5 DEF Observed, ResultInv, Held, Sessions
  <2> HIDE DEF o, left
  <2>5. /\ next \in Sessions /\ next.protocol = o.protocol /\ next.failure = o.failure
        /\ next.candidate = o.candidate /\ next.catalog = o.catalog /\ next.stream = Some(left)
        /\ next.enumeration_counter = o.enumeration_counter
    BY <2>3, <2>4 DEF Sessions
  <2> HIDE DEF next
  <2>6. ResultInv(next)
    BY <1>2, <1>5, <2>5 DEF ResultInv, Held
  <2> QED BY <2>1, <2>2, <2>3, <2>4, <2>5, <2>6
<1> HIDE DEF o, next, fits
<1> QED BY <1>2, <1>3, <1>4, <1>5 DEF Observed

LEMMA CompleteStreamHolds ==
    ASSUME NEW r, ResultInv(r), r.failure = NoFailure, NEW f, f.h \in FrameHeaders
    PROVE  LET o == CompleteStream(r, f) IN
           /\ ResultInv(o)
           /\ o.failure = NoFailure =>
                  /\ Effects(r.protocol, "WorkerToParent", f.h, o.protocol)
                  /\ r.stream # None /\ The(r.stream) = 0 /\ o.stream = None
                  /\ o.candidate = r.candidate /\ o.catalog = r.catalog
                  /\ o.enumeration_counter = r.enumeration_counter
<1> DEFINE o == ResultObserve(r, "WorkerToParent", f)
           next == [o EXCEPT !.stream = None]
<1>1. "WorkerToParent" \in Directions
  BY DEF Directions
<1>2. /\ ResultInv(o)
      /\ o.failure = NoFailure => Observed(r, "WorkerToParent", f, o)
  BY <1>1, ObservedOrRetired
<1>3. CompleteStream(r, f) =
        IF r.stream = None THEN Retire(r, "InvalidState")
        ELSE IF The(r.stream) # 0 THEN Retire(r, "IncompleteStream")
        ELSE IF o.failure # NoFailure THEN o ELSE next
  BY DEF CompleteStream, AndThen
<1>4. /\ ResultInv(Retire(r, "InvalidState")) /\ Retire(r, "InvalidState").failure # NoFailure
      /\ ResultInv(Retire(r, "IncompleteStream"))
      /\ Retire(r, "IncompleteStream").failure # NoFailure
  BY RetiredWith DEF ResultInv
<1>5. ASSUME o.failure = NoFailure
      PROVE  /\ ResultInv(next) /\ next.protocol = o.protocol /\ next.stream = None
             /\ next.candidate = r.candidate /\ next.catalog = r.catalog
             /\ next.enumeration_counter = r.enumeration_counter
  <2>1. o \in Sessions /\ o.catalog = r.catalog /\ o.candidate = r.candidate
        /\ o.enumeration_counter = r.enumeration_counter
    BY <1>2, <1>5 DEF Observed, ResultInv, Held, Sessions
  <2>2. None \in OptionOf(Nat)
    BY Options
  <2> HIDE DEF o
  <2>3. /\ next \in Sessions /\ next.protocol = o.protocol /\ next.failure = o.failure
        /\ next.candidate = o.candidate /\ next.catalog = o.catalog /\ next.stream = None
        /\ next.enumeration_counter = o.enumeration_counter
    BY <2>1, <2>2 DEF Sessions
  <2> HIDE DEF next
  <2>4. ResultInv(next)
    BY <1>2, <1>5, <2>3 DEF ResultInv, Held
  <2> QED BY <2>1, <2>3, <2>4
<1> HIDE DEF o, next
<1> QED BY <1>2, <1>3, <1>4, <1>5 DEF Observed

(* The two halves of a read leave the results alone. *)
LEMMA AcceptReadRequestHolds ==
    ASSUME NEW r, ResultInv(r), r.failure = NoFailure, NEW f, f.h \in FrameHeaders,
           NEW expected
    PROVE  LET o == AcceptReadRequest(r, f, expected) IN
           /\ ResultInv(o)
           /\ o.failure = NoFailure =>
                  /\ Effects(r.protocol, "WorkerToParent", f.h, o.protocol)
                  /\ o.stream = r.stream /\ o.candidate = r.candidate /\ o.catalog = r.catalog
                  /\ o.enumeration_counter = r.enumeration_counter
<1> DEFINE o == ResultObserve(r, "WorkerToParent", f)
<1>1. "WorkerToParent" \in Directions
  BY DEF Directions
<1>2. /\ ResultInv(o)
      /\ o.failure = NoFailure => Observed(r, "WorkerToParent", f, o)
  BY <1>1, ObservedOrRetired
<1>3. AcceptReadRequest(r, f, expected) =
        IF expected = 0 \/ f.body[1] # expected THEN Retire(r, "Protocol") ELSE o
  BY DEF AcceptReadRequest, AndThen
<1>4. ResultInv(Retire(r, "Protocol")) /\ Retire(r, "Protocol").failure # NoFailure
  BY RetiredWith DEF ResultInv
<1>5. o.failure = NoFailure =>
          /\ o.stream = r.stream /\ o.candidate = r.candidate /\ o.catalog = r.catalog
          /\ o.enumeration_counter = r.enumeration_counter
  BY <1>2 DEF Observed, ResultInv, Held, Sessions
<1> HIDE DEF o
<1> QED BY <1>2, <1>3, <1>4, <1>5 DEF Observed

LEMMA AcceptReadReplyHolds ==
    ASSUME NEW r, ResultInv(r), r.failure = NoFailure, NEW f, f.h \in FrameHeaders,
           NEW expected
    PROVE  LET o == AcceptReadReply(r, f, expected) IN
           /\ ResultInv(o)
           /\ o.failure = NoFailure =>
                  /\ Effects(r.protocol, "ParentToWorker", f.h, o.protocol)
                  /\ f.body[2] \notin {"SourceChanged", "SourceReadFailed"}
                  /\ o.stream = r.stream /\ o.candidate = r.candidate /\ o.catalog = r.catalog
                  /\ o.enumeration_counter = r.enumeration_counter
<1> DEFINE o == ResultObserve(r, "ParentToWorker", f)
<1>1. "ParentToWorker" \in Directions
  BY DEF Directions
<1>2. /\ ResultInv(o)
      /\ o.failure = NoFailure => Observed(r, "ParentToWorker", f, o)
  BY <1>1, ObservedOrRetired
<1>3. AcceptReadReply(r, f, expected) =
        IF expected = 0 \/ f.body[1] # expected THEN Retire(r, "Protocol")
        ELSE IF o.failure # NoFailure THEN o
        ELSE IF f.body[2] = "SourceChanged" THEN Retire(o, "SourceInvalidated")
        ELSE IF f.body[2] = "SourceReadFailed" THEN Retire(o, "SourceReadFailure")
        ELSE o
  BY DEF AcceptReadReply, AndThen
<1>4. /\ ResultInv(Retire(r, "Protocol")) /\ Retire(r, "Protocol").failure # NoFailure
      /\ ResultInv(Retire(o, "SourceInvalidated"))
      /\ Retire(o, "SourceInvalidated").failure # NoFailure
      /\ ResultInv(Retire(o, "SourceReadFailure"))
      /\ Retire(o, "SourceReadFailure").failure # NoFailure
  BY <1>2, RetiredWith DEF ResultInv
<1>5. o.failure = NoFailure =>
          /\ o.stream = r.stream /\ o.candidate = r.candidate /\ o.catalog = r.catalog
          /\ o.enumeration_counter = r.enumeration_counter
  BY <1>2 DEF Observed, ResultInv, Held, Sessions
<1> HIDE DEF o
<1> QED BY <1>2, <1>3, <1>4, <1>5 DEF Observed

LEMMA AcceptCancelHolds ==
    ASSUME NEW r, ResultInv(r), r.failure = NoFailure, NEW f, f.h \in FrameHeaders
    PROVE  LET o == AcceptCancel(r, f) IN
           /\ ResultInv(o)
           /\ o.failure = NoFailure =>
                  /\ Effects(r.protocol, "ParentToWorker", f.h, o.protocol)
                  /\ o.catalog = None /\ o.stream = r.stream
                  /\ o.enumeration_counter = r.enumeration_counter
                  /\ o.candidate # None => ~The(o.candidate).promotable
<1> DEFINE o == ResultObserve(r, "ParentToWorker", f)
           spoiled == [The(o.candidate) EXCEPT !.promotable = FALSE, !.entries = <<>>]
           candidate == IF o.candidate = None THEN None ELSE Some(spoiled)
           next == [o EXCEPT !.catalog = None, !.candidate = candidate]
<1>1. "ParentToWorker" \in Directions
  BY DEF Directions
<1>2. /\ ResultInv(o)
      /\ o.failure = NoFailure => Observed(r, "ParentToWorker", f, o)
  BY <1>1, ObservedOrRetired
<1>3. o \in Sessions
  BY <1>2 DEF ResultInv, Held
<1>4. AcceptCancel(r, f) = IF o.failure # NoFailure THEN o ELSE next
  BY <1>3 DEF AcceptCancel, AndThen, Sessions
<1>5. o.candidate # None =>
          spoiled \in Candidates /\ ~spoiled.promotable /\ CandidateInv(spoiled)
  <2> SUFFICES ASSUME o.candidate # None
               PROVE  spoiled \in Candidates /\ ~spoiled.promotable /\ CandidateInv(spoiled)
    OBVIOUS
  <2>1. The(o.candidate) \in Candidates
    BY <1>3, Options DEF Sessions
  <2>2. << >> \in Seq(Entries)
    OBVIOUS
  <2>3. spoiled \in Candidates /\ spoiled.promotable = FALSE
    BY <2>1, <2>2 DEF Candidates
  <2> QED BY <2>3 DEF CandidateInv
<1> HIDE DEF spoiled
<1>6. /\ candidate \in OptionOf(Candidates) /\ None \in OptionOf(Catalogs)
      /\ candidate # None => CandidateInv(The(candidate)) /\ ~The(candidate).promotable
  BY <1>5, Options
<1>7. ASSUME o.failure = NoFailure
      PROVE  /\ ResultInv(next) /\ next.protocol = o.protocol /\ next.catalog = None
             /\ next.stream = r.stream /\ next.candidate = candidate
             /\ next.enumeration_counter = r.enumeration_counter
  <2>1. o.stream = r.stream /\ o.enumeration_counter = r.enumeration_counter
    BY <1>2, <1>7 DEF Observed, ResultInv, Held, Sessions
  <2> HIDE DEF o, candidate
  <2>2. /\ next \in Sessions /\ next.protocol = o.protocol /\ next.failure = o.failure
        /\ next.candidate = candidate /\ next.catalog = None /\ next.stream = o.stream
        /\ next.enumeration_counter = o.enumeration_counter
    BY <1>3, <1>6 DEF Sessions
  <2> HIDE DEF next
  <2>3. ResultInv(next)
    BY <1>2, <1>6, <1>7, <2>2 DEF ResultInv, Held
  <2> QED BY <2>1, <2>2, <2>3
<1> HIDE DEF o, next, candidate
<1> QED BY <1>2, <1>4, <1>6, <1>7 DEF Observed

(* The acknowledgement of a cancel and the shutdown both empty the session. *)
LEMMA RetireAllHolds ==
    ASSUME NEW o, ResultInv(o)
    PROVE  /\ ResultInv(RetireAll(o)) /\ RetireAll(o).protocol = o.protocol
           /\ RetireAll(o).failure = o.failure /\ RetireAll(o).candidate = None
           /\ RetireAll(o).catalog = None /\ RetireAll(o).stream = None
           /\ RetireAll(o).enumeration_counter = o.enumeration_counter
<1> DEFINE t == RetireAll(o)
<1>1. o \in Sessions /\ \A S : None \in OptionOf(S)
  BY Options DEF ResultInv, Held
<1>2. /\ t \in Sessions /\ t.protocol = o.protocol /\ t.failure = o.failure
      /\ t.candidate = None /\ t.catalog = None /\ t.stream = None
      /\ t.enumeration_counter = o.enumeration_counter
  BY <1>1 DEF Sessions, RetireAll
<1> HIDE DEF t
<1>3. ResultInv(t)
  BY <1>2 DEF ResultInv, Held
<1> QED BY <1>2, <1>3 DEF t

LEMMA SessionEndHolds ==
    ASSUME NEW r, ResultInv(r), r.failure = NoFailure, NEW f, f.h \in FrameHeaders
    PROVE  /\ LET o == AcceptCancelAck(r, f) IN
              /\ ResultInv(o)
              /\ o.failure = NoFailure =>
                     /\ Effects(r.protocol, "WorkerToParent", f.h, o.protocol)
                     /\ o.candidate = None /\ o.catalog = None /\ o.stream = None
                     /\ o.enumeration_counter = r.enumeration_counter
           /\ LET o == AcceptShutdown(r, f) IN
              /\ ResultInv(o)
              /\ o.failure = NoFailure =>
                     /\ Effects(r.protocol, "ParentToWorker", f.h, o.protocol)
                     /\ o.candidate = None /\ o.catalog = None /\ o.stream = None
                     /\ o.enumeration_counter = r.enumeration_counter
<1>0. {"ParentToWorker", "WorkerToParent"} \subseteq Directions
  BY DEF Directions
<1>1. ASSUME NEW d \in {"ParentToWorker", "WorkerToParent"}
      PROVE  LET o == ResultObserve(r, d, f)
                 t == IF o.failure # NoFailure THEN o ELSE RetireAll(o) IN
             /\ ResultInv(t)
             /\ t.failure = NoFailure =>
                    /\ Effects(r.protocol, d, f.h, t.protocol)
                    /\ t.candidate = None /\ t.catalog = None /\ t.stream = None
                    /\ t.enumeration_counter = r.enumeration_counter
  <2> DEFINE o == ResultObserve(r, d, f)
  <2>1. ResultInv(o) /\ (o.failure = NoFailure => Observed(r, d, f, o))
    BY <1>0, <1>1, ObservedOrRetired
  <2> HIDE DEF o
  <2>2. LET t == IF o.failure # NoFailure THEN o ELSE RetireAll(o) IN
             /\ ResultInv(t)
             /\ t.failure = NoFailure =>
                    /\ Effects(r.protocol, d, f.h, t.protocol)
                    /\ t.candidate = None /\ t.catalog = None /\ t.stream = None
                    /\ t.enumeration_counter = r.enumeration_counter
    BY <2>1, RetireAllHolds DEF Observed
  <2> QED BY <2>2 DEF o
<1> QED BY <1>1 DEF AcceptCancelAck, AcceptShutdown, AndThen

-----------------------------------------------------------------------------
(* The broker.  A failure of it retires the session too. *)
LEMMA BrokerFailHolds ==
    ASSUME NEW b, BrokerInv(b), b.failure = NoFailure, NEW r, Held(r),
           NEW e \in BrokerFailures
    PROVE  LET q == BrokerFail(b, r, e) IN
           /\ BrokerInv(q.b) /\ q.b.failure # NoFailure
           /\ ResultInv(q.r) /\ q.r.failure # NoFailure
<1> DEFINE failed == [b EXCEPT !.failure = e, !.pending = None]
<1>1. e # NoFailure /\ None \in OptionOf(Pendings)
  BY Options DEF BrokerFailures, NoFailure
<1>2. /\ failed \in Brokers /\ failed.failure = e
      /\ failed.requests_charged = b.requests_charged
      /\ failed.reply_payload_bytes_charged = b.reply_payload_bytes_charged
      /\ failed.next_sequence = b.next_sequence
  BY <1>1 DEF BrokerInv, Brokers
<1>3. BrokerFail(b, r, e) = [b |-> failed, r |-> Retire(r, "WorkerFailure")]
  BY DEF BrokerFail
<1> HIDE DEF failed
<1>4. BrokerInv(failed)
  BY <1>2 DEF BrokerInv
<1>5. ResultInv(Retire(r, "WorkerFailure")) /\ Retire(r, "WorkerFailure").failure # NoFailure
  BY RetiredWith
<1> QED BY <1>1, <1>2, <1>3, <1>4, <1>5

(* The failures the broker raises. *)
LEMMA BrokerFailsWith ==
    ASSUME NEW b, BrokerInv(b), b.failure = NoFailure, NEW r, Held(r)
    PROVE  \A e \in {"SequenceExhausted", "RequestBudgetExceeded", "ByteBudgetExceeded",
                     "Protocol", "Internal", "SourceChanged", "SourceReadFailure",
                     "TransportAbandoned", SessionErrorOf(r)} :
               LET q == BrokerFail(b, r, e) IN
               /\ BrokerInv(q.b) /\ q.b.failure # NoFailure
               /\ ResultInv(q.r) /\ q.r.failure # NoFailure
<1>1. SessionErrorOf(r) \in BrokerFailures
  BY DEF SessionErrorOf, BrokerFailures
<1>2. \A e \in BrokerFailures :
          LET q == BrokerFail(b, r, e) IN
          /\ BrokerInv(q.b) /\ q.b.failure # NoFailure
          /\ ResultInv(q.r) /\ q.r.failure # NoFailure
  BY BrokerFailHolds
<1> QED BY <1>1, <1>2 DEF BrokerFailures

(* A read leaves the results of the session as they were. *)
SameResults(r, o) ==
    /\ o.protocol.state = r.protocol.state /\ Keeps(r.protocol, o.protocol)
    /\ o.stream = r.stream /\ o.candidate = r.candidate /\ o.catalog = r.catalog
    /\ o.enumeration_counter = r.enumeration_counter

(* What is owed once a request was charged: its reply, for the open request. *)
Owes(b, r) ==
    /\ BrokerInv(b) /\ b.failure = NoFailure
    /\ b.pending # None /\ The(b.pending) \in Pendings
    /\ The(b.pending).request_id = r.protocol.last_request_id
    /\ The(b.pending).sequence <= b.requests_charged

(* Charging a read. *)
ChargedRead(b, size, p) ==
    [b EXCEPT !.requests_charged = @ + 1, !.reply_payload_bytes_charged = @ + size,
              !.pending = Some(p)]

LEMMA ChargeRead ==
    ASSUME NEW b, BrokerInv(b), b.failure = NoFailure, NEW r, NEW p \in Pendings,
           ~ReadQuotaSpent(b), NEW size \in Nat, ReplyFits(b, size),
           p.request_id = r.protocol.last_request_id,
           p.sequence \in {1, b.next_sequence}
    PROVE  LET q == ChargedRead(b, size, p) IN
           /\ Owes(q, r) /\ q.committed_request_id = b.committed_request_id
           /\ The(q.pending) = p
<1> DEFINE m == b.requests_charged + 1
           n == b.reply_payload_bytes_charged + size
           q == [b EXCEPT !.requests_charged = m, !.reply_payload_bytes_charged = n,
                          !.pending = Some(p)]
<1>1. b \in Brokers
  BY DEF BrokerInv
<1>2. /\ m \in Nat /\ m <= MaximumReads
      /\ n \in Nat /\ n <= MaximumReplyBytes
  BY <1>1, BrokerLimitsAssumption DEF ReadQuotaSpent, ReplyFits, Brokers
<1>3. p.sequence <= m /\ b.next_sequence - 1 <= m
  BY <1>1 DEF BrokerInv, Brokers, Pendings
<1>4. Some(p) \in OptionOf(Pendings) /\ Some(p) # None /\ The(Some(p)) = p
  BY Options
<1>5. ChargedRead(b, size, p) = q
  BY <1>1 DEF Brokers, ChargedRead
<1> HIDE DEF m, n
<1>6. /\ q \in Brokers /\ q.failure = b.failure /\ q.pending = Some(p)
      /\ q.committed_request_id = b.committed_request_id
      /\ q.requests_charged = m /\ q.reply_payload_bytes_charged = n
      /\ q.next_sequence = b.next_sequence
  BY <1>1, <1>2, <1>4 DEF Brokers
<1> HIDE DEF q
<1>7. BrokerInv(q)
  BY <1>2, <1>3, <1>6 DEF BrokerInv
<1>8. Owes(q, r) /\ q.committed_request_id = b.committed_request_id /\ The(q.pending) = p
  BY <1>3, <1>4, <1>6, <1>7 DEF Owes
<1> QED BY <1>5, <1>8

(* prepare fails both, ignores a request that crosses a cancel, or owes a reply. *)
LEMMA PrepareHolds ==
    ASSUME NEW b, BrokerInv(b), b.failure = NoFailure, b.pending = None,
           NEW r, ResultInv(r), r.failure = NoFailure,
           NEW f, f.h \in FrameHeaders, f.h.type = "ReadRequest",
           f.body[1] \in Nat, f.body[2] \in Nat, NEW status \in ReplyStatuses
    PROVE  LET p == Prepare(b, r, f, status) IN
           \/ /\ BrokerInv(p.b) /\ p.b.failure # NoFailure
              /\ ResultInv(p.r) /\ p.r.failure # NoFailure
           \/ /\ p.b = b /\ ResultInv(p.r) /\ p.r.failure = NoFailure
              /\ SameResults(r, p.r)
           \/ /\ Owes(p.b, p.r) /\ p.b.committed_request_id = b.committed_request_id
              /\ ResultInv(p.r) /\ p.r.failure = NoFailure
              /\ SameResults(r, p.r) /\ r.protocol.state # "Cancelling"
<1> DEFINE expected == ExpectedSequence(b, f)
           cancelling == IgnoresReads(r)
           length == f.body[2]
           size == 1 + length
           accepted == AcceptReadRequest(r, f, expected)
           pending == [request_id |-> f.h.req, sequence |-> expected, status |-> status,
                       length |-> IF status = "Ok" THEN length ELSE 0]
           charged == ChargedRead(b, size, pending)
           spent == b.committed_request_id = Some(f.h.req) /\ b.sequence_exhausted
<1>0. b \in Brokers /\ Held(r)
  BY DEF BrokerInv, ResultInv
<1>1. /\ ResultInv(accepted)
      /\ accepted.failure = NoFailure =>
             /\ Effects(r.protocol, "WorkerToParent", f.h, accepted.protocol)
             /\ accepted.stream = r.stream /\ accepted.candidate = r.candidate
             /\ accepted.catalog = r.catalog
             /\ accepted.enumeration_counter = r.enumeration_counter
  BY AcceptReadRequestHolds
<1>2. accepted.failure = NoFailure =>
          /\ SameResults(r, accepted)
          /\ f.h.req = accepted.protocol.last_request_id
  <2> SUFFICES ASSUME accepted.failure = NoFailure
               PROVE  /\ SameResults(r, accepted)
                      /\ f.h.req = accepted.protocol.last_request_id
    OBVIOUS
  <2>1. /\ r.protocol.state \in RequestStates /\ f.h.req = r.protocol.active_request_id
        /\ accepted.protocol.state = r.protocol.state
        /\ Keeps(r.protocol, accepted.protocol)
    BY <1>1 DEF Effects
  <2>2. r.protocol.active_request_id = r.protocol.last_request_id
    BY <2>1 DEF ResultInv, Held, Sound, Consistent
  <2> QED BY <1>1, <2>1, <2>2 DEF SameResults, Keeps
<1>3. expected \in {1, b.next_sequence} /\ expected \in Nat \ {0}
  BY <1>0 DEF ExpectedSequence, Brokers
<1>4. pending \in Pendings
  BY <1>3 DEF Pendings, FrameHeaders
<1>5. Prepare(b, r, f, status) =
        IF spent THEN BrokerFail(b, r, "SequenceExhausted")
        ELSE IF f.body[1] # expected THEN BrokerFail(b, accepted, SessionErrorOf(accepted))
        ELSE IF ~cancelling /\ ReadQuotaSpent(b)
        THEN BrokerFail(b, r, "RequestBudgetExceeded")
        ELSE IF ~cancelling /\ ~ReplyFits(b, size)
        THEN BrokerFail(b, r, "ByteBudgetExceeded")
        ELSE IF accepted.failure # NoFailure
        THEN BrokerFail(b, accepted, SessionErrorOf(accepted))
        ELSE IF cancelling THEN [b |-> b, r |-> accepted]
        ELSE [b |-> charged, r |-> accepted]
  BY DEF Prepare, ChargedRead
<1>6. \A e \in {"SequenceExhausted", "RequestBudgetExceeded", "ByteBudgetExceeded"} :
          LET q == BrokerFail(b, r, e) IN
          /\ BrokerInv(q.b) /\ q.b.failure # NoFailure
          /\ ResultInv(q.r) /\ q.r.failure # NoFailure
  BY <1>0, BrokerFailsWith
<1>7. LET q == BrokerFail(b, accepted, SessionErrorOf(accepted)) IN
      /\ BrokerInv(q.b) /\ q.b.failure # NoFailure
      /\ ResultInv(q.r) /\ q.r.failure # NoFailure
  BY <1>1, BrokerFailsWith DEF ResultInv
<1>8. ASSUME ~cancelling, ~ReadQuotaSpent(b), ReplyFits(b, size),
             accepted.failure = NoFailure
      PROVE  Owes(charged, accepted) /\ charged.committed_request_id = b.committed_request_id
  <2>1. size \in Nat
    OBVIOUS
  <2>2. pending.request_id = accepted.protocol.last_request_id
        /\ pending.sequence \in {1, b.next_sequence}
    BY <1>2, <1>3, <1>8
  <2> HIDE DEF size, pending, accepted
  <2> QED BY <1>4, <1>8, <2>1, <2>2, ChargeRead
<1>9. cancelling <=> r.protocol.state = "Cancelling"
  BY DEF IgnoresReads
<1> HIDE DEF accepted, charged, spent, cancelling, expected, size
<1> QED BY <1>1, <1>2, <1>5, <1>6, <1>7, <1>8, <1>9

LEMMA OutcomesAreStatuses == ServiceOutcomes \subseteq ReplyStatuses
BY DEF ServiceOutcomes, Service, ReplyStatuses

(* Dropping the pending reply, and recording it as committed. *)
LEMMA TakenHolds ==
    ASSUME NEW b, BrokerInv(b)
    PROVE  LET t == [b EXCEPT !.pending = None] IN
           /\ BrokerInv(t) /\ t.failure = b.failure /\ t.pending = None
           /\ t.requests_charged = b.requests_charged
<1> DEFINE t == [b EXCEPT !.pending = None]
<1>1. None \in OptionOf(Pendings)
  BY Options
<1>2. /\ t \in Brokers /\ t.failure = b.failure /\ t.pending = None
      /\ t.requests_charged = b.requests_charged
      /\ t.reply_payload_bytes_charged = b.reply_payload_bytes_charged
      /\ t.next_sequence = b.next_sequence
  BY <1>1 DEF BrokerInv, Brokers
<1> HIDE DEF t
<1>3. BrokerInv(t)
  BY <1>2 DEF BrokerInv
<1> QED BY <1>2, <1>3 DEF t

LEMMA CommittedHolds ==
    ASSUME NEW t, BrokerInv(t), t.failure = NoFailure, t.pending = None,
           NEW p \in Pendings, p.sequence <= t.requests_charged
    PROVE  LET q == [t EXCEPT !.committed_request_id = Some(p.request_id),
                              !.sequence_exhausted = (p.sequence = MaxSequence),
                              !.next_sequence = IF p.sequence = MaxSequence THEN @
                                                ELSE p.sequence + 1] IN
           /\ BrokerInv(q) /\ q.failure = NoFailure /\ q.pending = None
           /\ q.committed_request_id = Some(p.request_id)
<1> DEFINE e == (p.sequence = MaxSequence)
           n == IF p.sequence = MaxSequence THEN t.next_sequence ELSE p.sequence + 1
           q == [t EXCEPT !.committed_request_id = Some(p.request_id),
                          !.sequence_exhausted = e, !.next_sequence = n]
<1>1. t \in Brokers
  BY DEF BrokerInv
<1>2. n \in Nat \ {0} /\ n - 1 <= t.requests_charged /\ e \in BOOLEAN
  BY <1>1 DEF BrokerInv, Brokers, Pendings
<1>3. Some(p.request_id) \in OptionOf(Nat)
  BY Options DEF Pendings
<1>4. [t EXCEPT !.committed_request_id = Some(p.request_id),
                !.sequence_exhausted = (p.sequence = MaxSequence),
                !.next_sequence = IF p.sequence = MaxSequence THEN @
                                  ELSE p.sequence + 1] = q
  BY <1>1 DEF Brokers
<1> HIDE DEF n, e
<1>5. /\ q \in Brokers /\ q.failure = t.failure /\ q.pending = t.pending
      /\ q.committed_request_id = Some(p.request_id)
      /\ q.requests_charged = t.requests_charged
      /\ q.reply_payload_bytes_charged = t.reply_payload_bytes_charged
      /\ q.next_sequence = n
  BY <1>1, <1>2, <1>3 DEF Brokers
<1> HIDE DEF q
<1>6. /\ BrokerInv(q) /\ q.failure = NoFailure /\ q.pending = None
      /\ q.committed_request_id = Some(p.request_id)
  BY <1>2, <1>5 DEF BrokerInv
<1> QED BY <1>4, <1>6

LEMMA ReplyHeader ==
    ASSUME NEW b, The(b.pending) \in Pendings
    PROVE  LET reply == PreparedReply(b) IN
           /\ reply.h \in FrameHeaders /\ reply.h.type = "ReadReply"
           /\ reply.h.req = The(b.pending).request_id
<1> DEFINE p == The(b.pending)
           reply == PreparedReply(b)
<1>1. reply.h = [type |-> "ReadReply", sid |-> SessionIdent, req |-> p.request_id,
                 len |-> 1 + p.length, envelope |-> "ok"]
  BY DEF PreparedReply, Frame, Header, PayloadLength
<1>2. 1 + p.length \in Nat /\ p.request_id \in Nat /\ SessionIdent \in Nat
  BY SessionIdentAssumption DEF Pendings
<1> QED BY <1>1, <1>2 DEF FrameHeaders, MessageTypes, ZeroRequestTypes, Envelopes

(* commit_reply_sent fails both, or the request is the committed one. *)
LEMMA CommitHolds ==
    ASSUME NEW b, NEW r, Owes(b, r), ResultInv(r), r.failure = NoFailure
    PROVE  LET q == CommitReplySent(b, r) IN
           \/ BrokerInv(q.b) /\ ResultInv(q.r) /\ q.r.failure # NoFailure
           \/ /\ BrokerInv(q.b) /\ q.b.failure = NoFailure /\ q.b.pending = None
              /\ q.b.committed_request_id = Some(r.protocol.last_request_id)
              /\ ResultInv(q.r) /\ q.r.failure = NoFailure /\ SameResults(r, q.r)
<1> DEFINE p == The(b.pending)
           reply == PreparedReply(b)
           accepted == AcceptReadReply(r, reply, p.sequence)
           taken == [b EXCEPT !.pending = None]
           committed == [taken EXCEPT !.committed_request_id = Some(p.request_id),
                              !.sequence_exhausted = (p.sequence = MaxSequence),
                              !.next_sequence = IF p.sequence = MaxSequence THEN @
                                                ELSE p.sequence + 1]
           error == CASE p.status = "SourceChanged" /\ accepted.failure = "SourceInvalidated" ->
                           "SourceChanged"
                      [] p.status = "SourceReadFailed" /\ accepted.failure = "SourceReadFailure" ->
                           "SourceReadFailure"
                      [] OTHER -> SessionErrorOf(accepted)
<1>1. p \in Pendings /\ p.request_id = r.protocol.last_request_id /\ BrokerInv(b)
      /\ b.failure = NoFailure /\ p.sequence <= b.requests_charged
  BY DEF Owes
<1>2. reply.h \in FrameHeaders /\ reply.h.type = "ReadReply"
  BY <1>1, ReplyHeader
<1> HIDE DEF reply
<1>3. /\ ResultInv(accepted)
      /\ accepted.failure = NoFailure =>
             /\ Effects(r.protocol, "ParentToWorker", reply.h, accepted.protocol)
             /\ accepted.stream = r.stream /\ accepted.candidate = r.candidate
             /\ accepted.catalog = r.catalog
             /\ accepted.enumeration_counter = r.enumeration_counter
  BY <1>2, AcceptReadReplyHolds
<1>4. accepted.failure = NoFailure => SameResults(r, accepted)
  BY <1>2, <1>3 DEF Effects, SameResults
<1>5. /\ BrokerInv(taken) /\ taken.failure = NoFailure /\ taken.pending = None
      /\ taken.requests_charged = b.requests_charged
  BY <1>1, TakenHolds
<1>6. CommitReplySent(b, r) =
        IF p.status = "Ok" THEN
            IF accepted.failure # NoFailure
            THEN BrokerFail(taken, accepted, SessionErrorOf(accepted))
            ELSE [b |-> committed, r |-> accepted]
        ELSE BrokerFail(taken, accepted, error)
  BY DEF CommitReplySent, reply
<1> HIDE DEF taken, accepted
<1>7. LET q == BrokerFail(taken, accepted, SessionErrorOf(accepted)) IN
      BrokerInv(q.b) /\ ResultInv(q.r) /\ q.r.failure # NoFailure
  BY <1>3, <1>5, BrokerFailsWith DEF ResultInv
<1>8. error \in {"SourceChanged", "SourceReadFailure", SessionErrorOf(accepted)}
  OBVIOUS
<1> HIDE DEF error
<1>9. LET q == BrokerFail(taken, accepted, error) IN
      BrokerInv(q.b) /\ ResultInv(q.r) /\ q.r.failure # NoFailure
  BY <1>3, <1>5, <1>8, BrokerFailsWith DEF ResultInv
<1>10. /\ BrokerInv(committed) /\ committed.failure = NoFailure /\ committed.pending = None
       /\ committed.committed_request_id = Some(p.request_id)
  <2> HIDE DEF p
  <2> QED BY <1>1, <1>5, CommittedHolds
<1> HIDE DEF committed, p
<1> QED BY <1>1, <1>3, <1>4, <1>6, <1>7, <1>9, <1>10

LEMMA AbandonHolds ==
    ASSUME NEW b, NEW r, Owes(b, r), ResultInv(r), r.failure = NoFailure
    PROVE  LET q == AbandonReply(b, r) IN
           BrokerInv(q.b) /\ ResultInv(q.r) /\ q.r.failure # NoFailure
<1> DEFINE taken == [b EXCEPT !.pending = None]
<1>1. BrokerInv(taken) /\ taken.failure = NoFailure
  BY TakenHolds DEF Owes
<1>2. AbandonReply(b, r) = BrokerFail(taken, r, "TransportAbandoned")
  BY DEF AbandonReply
<1> HIDE DEF taken
<1> QED BY <1>1, <1>2, BrokerFailsWith DEF ResultInv

-----------------------------------------------------------------------------
(* The steps.  A step that retires the session leaves little to show. *)
LEMMA TerminalInv ==
    ASSUME NEW r, Held(r), NEW e \in {"WorkerFailure", "SourceInvalidated"},
           phase' = "Terminal", results' = Retire(r, e),
           Typed', BrokerInv(reads)', sink' \in Seq(Nat), Len(sink') <= asked'.size
    PROVE  ParentInv'
<1>1. ResultInv(results') /\ results'.failure # NoFailure
  BY RetiredWith
<1>2. results'.catalog = None /\ results'.stream = None
  BY <1>1 DEF ResultInv, Held
<1>3. PhaseInv'
  BY <1>1, <1>2 DEF PhaseInv, LivePhases, OpenPhases, ReceivePhases
<1>4. SinkInv'
  BY <1>2 DEF SinkInv
<1> QED BY <1>1, <1>3, <1>4 DEF ParentInv

(* The headers of what the parent itself sends. *)
LEMMA SentHeader ==
    ASSUME NEW type \in {"Hello", "Enumerate", "StreamEntry", "Cancel", "Shutdown"},
           NEW req \in Nat, NEW body
    PROVE  /\ Frame(type, req, body).h \in FrameHeaders
           /\ Frame(type, req, body).h.type = type
           /\ Frame(type, req, body).h.req = req
<1>1. PayloadLength(type, body) \in Nat
  BY DEF PayloadLength
<1> QED BY <1>1, SessionIdentAssumption
        DEF Frame, Header, FrameHeaders, MessageTypes, ZeroRequestTypes, Envelopes

(* A live phase, read off the invariant. *)
LEMMA LiveFacts ==
    ASSUME ParentInv, phase # "Terminal"
    PROVE  /\ ResultInv(results) /\ Held(results) /\ results.failure = NoFailure
           /\ results.protocol.state = StateOf(phase)
           /\ BrokerInv(reads) /\ reads.failure = NoFailure /\ reads.pending = None
           /\ results.protocol.last_request_id \in Nat
           /\ results.protocol.active_request_id \in Nat
           /\ reads.committed_request_id # None =>
                  /\ The(reads.committed_request_id) \in Nat
                  /\ The(reads.committed_request_id) <= results.protocol.last_request_id
BY Options DEF ParentInv, PhaseInv, ResultInv, Held, Sessions, Validators, BrokerInv, Brokers

LEMMA ParentInitInv == UntrustedInit => ParentInv
<1> SUFFICES ASSUME UntrustedInit PROVE ParentInv
  OBVIOUS
<1> USE DEF UntrustedInit, TransportInit, ParentInit
<1>1. Typed
  <2>1. << >> \in Seq(Nat) /\ OnWire(<< >>) /\ {} \in SUBSET Nat
    BY Wired
  <2> QED BY <2>1 DEF Typed
<1>2. ResultInv(results)
  <2>1. NewValidator \in Validators
    BY DEF NewValidator, Validators, SessionStates, NoError
  <2>2. Sound(NewValidator, ParentBudgets) /\ NewValidator.error = NoError
    <3>1. WithinBudgets(NewValidator, ParentBudgets)
      BY ParentBudgetsAssumption DEF NewValidator, WithinBudgets, Budgets
    <3> QED BY <2>1, <3>1 DEF Sound, Consistent, LateWindowOf, NewValidator,
            RequestStates, NoError
  <2>3. results \in Sessions
    BY <2>1, Options DEF NewResultSession, Sessions
  <2> HIDE DEF UntrustedInit, ParentInit
  <2>4. /\ results.protocol = NewValidator /\ results.candidate = None
        /\ results.catalog = None /\ results.failure = NoFailure
    BY DEF UntrustedInit, ParentInit, NewResultSession
  <2> QED BY <2>2, <2>3, <2>4 DEF ResultInv, Held
<1>3. BrokerInv(reads)
  BY BrokerLimitsAssumption, Options DEF NewBroker, BrokerInv, Brokers
<1>4. PhaseInv
  BY DEF PhaseInv, LivePhases, StateOf, NewResultSession, NewValidator, NewBroker,
         ReceivePhases
<1>5. SinkInv
  BY DEF SinkInv, NewResultSession
<1> QED BY <1>1, <1>2, <1>3, <1>4, <1>5 DEF ParentInv

LEMMA SendHelloInv == ASSUME ParentInv, SendHello PROVE ParentInv'
<1> DEFINE f == Frame("Hello", 0, <<>>)
           o == ResultObserve(results, "ParentToWorker", f)
<1>1. phase = "Connecting"
  BY DEF SendHello
<1>2. /\ ResultInv(results) /\ results.failure = NoFailure
      /\ BrokerInv(reads) /\ Typed /\ SinkInv /\ PhaseInv
  BY <1>1, LiveFacts DEF ParentInv
<1>3. f.h \in FrameHeaders /\ f.h.type = "Hello"
  BY SentHeader
<1>4. "ParentToWorker" \in Directions
  BY DEF Directions
<1>5. /\ ResultInv(o)
      /\ o.failure = NoFailure => Observed(results, "ParentToWorker", f, o)
  BY <1>2, <1>3, <1>4, ObservedOrRetired
<1>6. /\ Typed' /\ BrokerInv(reads)' /\ sink' = sink /\ asked' = asked
      /\ IF o.failure # NoFailure
         THEN phase' = "Terminal" /\ results' = Retire(o, "WorkerFailure")
         ELSE phase' = "AwaitingReady" /\ results' = o
      /\ streaming' = streaming /\ reads' = reads
  BY <1>2 DEF SendHello, RetireSession, Typed
<1> HIDE DEF o
<1>7. CASE o.failure # NoFailure
  BY <1>2, <1>5, <1>6, <1>7, TerminalInv DEF ResultInv, SinkInv
<1>8. CASE o.failure = NoFailure
  <2>1. /\ o.protocol.state = "AwaitingReady"
        /\ o.protocol.last_request_id = results.protocol.last_request_id
        /\ o.stream = results.stream /\ o.catalog = results.catalog
    BY <1>3, <1>5, <1>8 DEF Observed, Effects, Keeps
  <2>2. PhaseInv'
    BY <1>1, <1>2, <1>6, <1>8, <2>1 DEF PhaseInv, LivePhases, StateOf, ReceivePhases, OpenPhases
  <2>3. SinkInv'
    BY <1>2, <1>6, <1>8, <2>1 DEF SinkInv
  <2> QED BY <1>5, <1>6, <1>8, <2>2, <2>3 DEF ParentInv
<1> QED BY <1>7, <1>8

LEMMA ReceiveReadyInv == ASSUME ParentInv, ReceiveReady PROVE ParentInv'
<1> DEFINE f == Head(toParent)
           o == ResultObserve(results, "WorkerToParent", f)
<1>1. phase = "AwaitingReady" /\ toParent # <<>>
  BY DEF ReceiveReady
<1>2. /\ ResultInv(results) /\ results.failure = NoFailure
      /\ BrokerInv(reads) /\ Typed /\ SinkInv /\ PhaseInv
  BY <1>1, LiveFacts DEF ParentInv
<1>3. f.h \in FrameHeaders /\ OnWire(Tail(toParent))
  BY <1>1, <1>2, Wired DEF Typed, IsWire
<1>4. "WorkerToParent" \in Directions
  BY DEF Directions
<1>5. /\ ResultInv(o)
      /\ o.failure = NoFailure => Observed(results, "WorkerToParent", f, o)
  BY <1>2, <1>3, <1>4, ObservedOrRetired
<1>6. /\ Typed' /\ BrokerInv(reads)' /\ sink' = sink /\ asked' = asked
      /\ IF f.h.type # "Ready" \/ o.failure # NoFailure
         THEN phase' = "Terminal" /\ results' = Retire(o, "WorkerFailure")
         ELSE phase' = "Idle" /\ results' = o
      /\ streaming' = streaming /\ reads' = reads
  BY <1>2, <1>3 DEF ReceiveReady, RetireSession, Typed
<1> HIDE DEF o, f
<1>7. CASE f.h.type # "Ready" \/ o.failure # NoFailure
  BY <1>2, <1>5, <1>6, <1>7, TerminalInv DEF ResultInv, SinkInv
<1>8. CASE f.h.type = "Ready" /\ o.failure = NoFailure
  <2>1. /\ o.protocol.state = "Idle"
        /\ o.protocol.last_request_id = results.protocol.last_request_id
        /\ o.stream = results.stream /\ o.catalog = results.catalog
    BY <1>3, <1>5, <1>8 DEF Observed, Effects, Keeps
  <2>2. PhaseInv'
    BY <1>1, <1>2, <1>6, <1>8, <2>1 DEF PhaseInv, LivePhases, StateOf, ReceivePhases, OpenPhases
  <2>3. SinkInv'
    BY <1>1, <1>2, <1>6, <1>8, <2>1 DEF SinkInv, PhaseInv
  <2> QED BY <1>5, <1>6, <1>8, <2>2, <2>3 DEF ParentInv
<1> QED BY <1>7, <1>8

(* Giving up, a changed source, exhausted ids and unexpected frames. *)
LEMMA GivingUpInv ==
    ASSUME ParentInv, RequestIdsExhausted \/ ParentGivesUp \/ InvalidateSource
    PROVE  ParentInv'
<1>1. phase # "Terminal"
  BY DEF RequestIdsExhausted, ParentGivesUp, InvalidateSource, OpenPhases
<1>2. Held(results) /\ BrokerInv(reads) /\ Typed /\ SinkInv
  BY <1>1, LiveFacts DEF ParentInv
<1>3. /\ Typed' /\ BrokerInv(reads)' /\ sink' = sink /\ asked' = asked
      /\ phase' = "Terminal"
      /\ \E e \in {"WorkerFailure", "SourceInvalidated"} : results' = Retire(results, e)
  BY <1>2 DEF RequestIdsExhausted, ParentGivesUp, InvalidateSource, RetireSession, Typed
<1> QED BY <1>2, <1>3, TerminalInv DEF SinkInv

LEMMA ReceiveUnexpectedInv == ASSUME ParentInv, ReceiveUnexpected PROVE ParentInv'
<1> DEFINE r == Retire(results, "WorkerFailure")
<1>1. phase # "Terminal" /\ toParent # <<>>
  BY DEF ReceiveUnexpected, ReceivePhases
<1>2. Held(results) /\ BrokerInv(reads) /\ Typed /\ SinkInv
  BY <1>1, LiveFacts DEF ParentInv
<1>3. OnWire(Tail(toParent))
  BY <1>1, <1>2, Wired DEF Typed
<1>4. Held(r) /\ r.failure # NoFailure
  BY <1>2, RetiredWith DEF ResultInv
<1>5. /\ Typed' /\ BrokerInv(reads)' /\ sink' = sink /\ asked' = asked
      /\ phase' = "Terminal" /\ results' = Retire(r, "WorkerFailure")
  BY <1>2, <1>3, <1>4 DEF ReceiveUnexpected, Consume, RetireSession, Typed
<1> HIDE DEF r
<1> QED BY <1>2, <1>4, <1>5, TerminalInv DEF SinkInv

LEMMA BeginEnumerationInv == ASSUME ParentInv, BeginEnumerationCall PROVE ParentInv'
<1> DEFINE f == Frame("Enumerate", next_request_id, <<>>)
           o == BeginEnumeration(results, f)
<1>1. phase = "Idle"
  BY DEF BeginEnumerationCall
<1>2. /\ ResultInv(results) /\ results.failure = NoFailure
      /\ BrokerInv(reads) /\ Typed /\ SinkInv /\ PhaseInv
  BY <1>1, LiveFacts DEF ParentInv
<1>3. f.h \in FrameHeaders /\ f.h.type = "Enumerate" /\ f.h.req = next_request_id
      /\ next_request_id \in Nat
  BY <1>2, SentHeader DEF Typed
<1>4. /\ ResultInv(o)
      /\ o.failure = NoFailure =>
             /\ Effects(results.protocol, "ParentToWorker", f.h, o.protocol)
             /\ o.candidate # None /\ o.catalog = None /\ o.stream = None
  BY <1>2, <1>3, BeginEnumerationHolds
<1>5. /\ BrokerInv(reads)' /\ sink' = sink /\ reads' = reads
      /\ asked' = [asked EXCEPT !.enumerate = IF o.failure = NoFailure
                                              THEN Append(@, next_request_id) ELSE @]
      /\ IF o.failure # NoFailure
         THEN phase' = "Terminal" /\ results' = Retire(o, "WorkerFailure")
         ELSE phase' = "Enumerating" /\ results' = o
      /\ streaming' = FALSE /\ toParent' = toParent
      /\ active_request_id' = IF o.failure = NoFailure THEN next_request_id
                              ELSE active_request_id
      /\ next_request_id' = IF next_request_id = MaxCounter THEN MaxCounter
                            ELSE next_request_id + 1
  BY <1>2 DEF BeginEnumerationCall, SendTransaction, RetireSession, AllocateRequestId
<1> HIDE DEF o, f
<1>6. asked' \in [enumerate : Seq(Nat), cancel : SUBSET Nat, size : Nat]
      /\ asked'.size = asked.size
  <2> DEFINE list == IF o.failure = NoFailure THEN Append(asked.enumerate, next_request_id)
                     ELSE asked.enumerate
  <2>1. list \in Seq(Nat)
    BY <1>2, <1>3, AppendProperties DEF Typed
  <2>2. asked' = [asked EXCEPT !.enumerate = list]
    BY <1>2, <1>5 DEF Typed
  <2> HIDE DEF list
  <2> QED BY <1>2, <2>1, <2>2 DEF Typed
<1>7. Typed'
  <2>1. next_request_id' \in Nat
    BY <1>3, <1>5, ResultLimitsAssumption
  <2>2. active_request_id' \in Nat /\ OnWire(toParent')
    BY <1>2, <1>3, <1>5 DEF Typed
  <2>3. streaming' \in BOOLEAN
    BY <1>5
  <2> QED BY <1>6, <2>1, <2>2, <2>3 DEF Typed
<1>8. CASE o.failure # NoFailure
  BY <1>2, <1>4, <1>5, <1>6, <1>7, <1>8, TerminalInv DEF ResultInv, SinkInv
<1>9. CASE o.failure = NoFailure
  <2>1. /\ o.protocol.state = "Enumerating" /\ o.protocol.active_request_id = next_request_id
        /\ o.protocol.last_request_id = next_request_id
        /\ next_request_id > results.protocol.last_request_id
    BY <1>3, <1>4, <1>9 DEF Effects
  <2>2. reads.committed_request_id # None =>
            The(reads.committed_request_id) <= next_request_id
    BY <1>1, <1>3, <2>1, LiveFacts
  <2>3. PhaseInv'
    BY <1>1, <1>2, <1>4, <1>5, <1>9, <2>1, <2>2
       DEF PhaseInv, LivePhases, StateOf, ReceivePhases, OpenPhases
  <2>4. SinkInv'
    BY <1>2, <1>4, <1>5, <1>6, <1>9, <2>1 DEF SinkInv
  <2> QED BY <1>4, <1>5, <1>7, <1>9, <2>3, <2>4 DEF ParentInv
<1> QED BY <1>8, <1>9

LEMMA BeginStreamInv ==
    ASSUME ParentInv, NEW generation, NEW token, BeginStreamCall(generation, token)
    PROVE  ParentInv'
<1> DEFINE f == Frame("StreamEntry", next_request_id, <<token>>)
           o == BeginStreamEntry(results, f, generation)
<1>1. phase = "Idle"
  BY DEF BeginStreamCall
<1>2. /\ ResultInv(results) /\ results.failure = NoFailure
      /\ BrokerInv(reads) /\ Typed /\ SinkInv /\ PhaseInv
  BY <1>1, LiveFacts DEF ParentInv
<1>3. f.h \in FrameHeaders /\ f.h.type = "StreamEntry" /\ f.h.req = next_request_id
      /\ next_request_id \in Nat
  BY <1>2, SentHeader DEF Typed
<1>4. /\ ResultInv(o)
      /\ o.failure = NoFailure =>
             /\ Effects(results.protocol, "ParentToWorker", f.h, o.protocol)
             /\ o.stream # None /\ The(o.stream) \in Nat
             /\ o.candidate = results.candidate /\ o.catalog = results.catalog
  BY <1>2, <1>3, BeginStreamEntryHolds
<1>5. /\ BrokerInv(reads)' /\ sink' = <<>> /\ reads' = reads
      /\ asked' = [asked EXCEPT !.size = IF o.failure = NoFailure THEN The(o.stream) ELSE 0]
      /\ IF o.failure # NoFailure
         THEN phase' = "Terminal" /\ results' = Retire(o, "WorkerFailure")
         ELSE phase' = "Streaming" /\ results' = o
      /\ streaming' = TRUE /\ toParent' = toParent
      /\ active_request_id' = IF o.failure = NoFailure THEN next_request_id
                              ELSE active_request_id
      /\ next_request_id' = IF next_request_id = MaxCounter THEN MaxCounter
                            ELSE next_request_id + 1
  BY <1>2 DEF BeginStreamCall, SendTransaction, RetireSession, AllocateRequestId
<1> HIDE DEF o, f
<1>6. asked' \in [enumerate : Seq(Nat), cancel : SUBSET Nat, size : Nat]
      /\ asked'.size = IF o.failure = NoFailure THEN The(o.stream) ELSE 0
  <2> DEFINE size == IF o.failure = NoFailure THEN The(o.stream) ELSE 0
  <2>1. size \in Nat
    BY <1>4
  <2> HIDE DEF size
  <2>2. asked' = [asked EXCEPT !.size = size]
    BY <1>2, <1>5 DEF Typed, size
  <2>3. asked' \in [enumerate : Seq(Nat), cancel : SUBSET Nat, size : Nat]
        /\ asked'.size = size
    BY <1>2, <2>1, <2>2 DEF Typed
  <2> QED BY <2>3 DEF size
<1>7. Typed'
  <2>1. next_request_id' \in Nat
    BY <1>3, <1>5, ResultLimitsAssumption
  <2>2. active_request_id' \in Nat /\ OnWire(toParent')
    BY <1>2, <1>3, <1>5 DEF Typed
  <2>3. streaming' \in BOOLEAN
    BY <1>5
  <2> QED BY <1>6, <2>1, <2>2, <2>3 DEF Typed
<1>8. << >> \in Seq(Nat) /\ Len(<< >>) = 0
  OBVIOUS
<1>9. CASE o.failure # NoFailure
  BY <1>4, <1>5, <1>6, <1>7, <1>8, <1>9, TerminalInv DEF ResultInv
<1>10. CASE o.failure = NoFailure
  <2>1. /\ o.protocol.state = "Streaming" /\ o.protocol.active_request_id = next_request_id
        /\ o.protocol.last_request_id = next_request_id
        /\ next_request_id > results.protocol.last_request_id
    BY <1>3, <1>4, <1>10 DEF Effects
  <2>2. reads.committed_request_id # None =>
            The(reads.committed_request_id) <= next_request_id
    BY <1>1, <1>3, <2>1, LiveFacts
  <2>3. PhaseInv'
    BY <1>1, <1>2, <1>4, <1>5, <1>10, <2>1, <2>2
       DEF PhaseInv, LivePhases, StateOf, ReceivePhases, OpenPhases
  <2>4. SinkInv'
    BY <1>4, <1>5, <1>6, <1>8, <1>10 DEF SinkInv
  <2> QED BY <1>4, <1>5, <1>7, <1>10, <2>3, <2>4 DEF ParentInv
<1> QED BY <1>9, <1>10

LEMMA RequestCancelInv == ASSUME ParentInv, RequestCancel PROVE ParentInv'
<1> DEFINE f == Frame("Cancel", active_request_id, <<>>)
           o == AcceptCancel(results, f)
<1>1. phase \in {"Enumerating", "Streaming"}
  BY DEF RequestCancel
<1>2. /\ ResultInv(results) /\ results.failure = NoFailure
      /\ BrokerInv(reads) /\ Typed /\ SinkInv /\ PhaseInv
      /\ results.protocol.state = phase
  BY <1>1, LiveFacts DEF ParentInv, StateOf
<1>3. f.h \in FrameHeaders /\ f.h.type = "Cancel" /\ active_request_id \in Nat
  BY <1>2, SentHeader DEF Typed
<1>4. /\ ResultInv(o)
      /\ o.failure = NoFailure =>
             /\ Effects(results.protocol, "ParentToWorker", f.h, o.protocol)
             /\ o.catalog = None /\ o.stream = results.stream
             /\ o.candidate # None => ~The(o.candidate).promotable
  BY <1>2, <1>3, AcceptCancelHolds
<1>5. /\ BrokerInv(reads)' /\ sink' = sink /\ reads' = reads /\ streaming' = streaming
      /\ asked' = [asked EXCEPT !.cancel = @ \cup {active_request_id}]
      /\ IF o.failure # NoFailure
         THEN phase' = "Terminal" /\ results' = Retire(o, "WorkerFailure")
         ELSE phase' = "Cancelling" /\ results' = o
      /\ toParent' = toParent /\ active_request_id' = active_request_id
      /\ next_request_id' = next_request_id
  BY <1>2 DEF RequestCancel, SendTransaction, RetireSession
<1> HIDE DEF o, f
<1>6. asked' \in [enumerate : Seq(Nat), cancel : SUBSET Nat, size : Nat]
      /\ asked'.size = asked.size
  <2> DEFINE cancelled == asked.cancel \cup {active_request_id}
  <2>1. cancelled \in SUBSET Nat
    BY <1>2, <1>3 DEF Typed
  <2>2. asked' = [asked EXCEPT !.cancel = cancelled]
    BY <1>2, <1>5 DEF Typed
  <2> HIDE DEF cancelled
  <2> QED BY <1>2, <2>1, <2>2 DEF Typed
<1>7. Typed'
  BY <1>2, <1>5, <1>6 DEF Typed
<1>8. CASE o.failure # NoFailure
  BY <1>2, <1>4, <1>5, <1>6, <1>7, <1>8, TerminalInv DEF ResultInv, SinkInv
<1>9. CASE o.failure = NoFailure
  <2>1. /\ o.protocol.state = "Cancelling"
        /\ o.protocol.active_request_id = results.protocol.active_request_id
        /\ o.protocol.last_request_id = results.protocol.last_request_id
    BY <1>1, <1>2, <1>3, <1>4, <1>9 DEF Effects, Keeps
  <2>2. PhaseInv'
    BY <1>1, <1>2, <1>4, <1>5, <1>9, <2>1
       DEF PhaseInv, LivePhases, StateOf, ReceivePhases, OpenPhases
  <2>3. SinkInv'
    BY <1>2, <1>4, <1>5, <1>6, <1>9, <2>1 DEF SinkInv
  <2> QED BY <1>4, <1>5, <1>7, <1>9, <2>2, <2>3 DEF ParentInv
<1> QED BY <1>8, <1>9

LEMMA ShutdownInv == ASSUME ParentInv, ShutdownCall PROVE ParentInv'
<1> DEFINE f == Frame("Shutdown", 0, <<>>)
           o == AcceptShutdown(results, f)
<1>1. phase \in {"Idle", "Cancelled"}
  BY DEF ShutdownCall
<1>2. /\ ResultInv(results) /\ results.failure = NoFailure
      /\ BrokerInv(reads) /\ Typed /\ SinkInv /\ PhaseInv
  BY <1>1, LiveFacts DEF ParentInv
<1>3. f.h \in FrameHeaders /\ f.h.type = "Shutdown"
  BY SentHeader
<1>4. /\ ResultInv(o)
      /\ o.failure = NoFailure =>
             /\ Effects(results.protocol, "ParentToWorker", f.h, o.protocol)
             /\ o.candidate = None /\ o.catalog = None /\ o.stream = None
  BY <1>2, <1>3, SessionEndHolds
<1>5. /\ BrokerInv(reads)' /\ sink' = sink /\ reads' = reads /\ streaming' = streaming
      /\ asked' = asked /\ Typed'
      /\ IF o.failure # NoFailure
         THEN phase' = "Terminal" /\ results' = Retire(o, "WorkerFailure")
         ELSE phase' = "Closed" /\ results' = o
  BY <1>2 DEF ShutdownCall, SendTransaction, RetireSession, Typed
<1> HIDE DEF o, f
<1>6. CASE o.failure # NoFailure
  BY <1>2, <1>4, <1>5, <1>6, TerminalInv DEF ResultInv, SinkInv
<1>7. CASE o.failure = NoFailure
  <2>1. /\ o.protocol.state = "Closed"
        /\ o.protocol.last_request_id = results.protocol.last_request_id
    BY <1>3, <1>4, <1>7 DEF Effects
  <2>2. PhaseInv'
    BY <1>1, <1>2, <1>4, <1>5, <1>7, <2>1
       DEF PhaseInv, LivePhases, StateOf, ReceivePhases, OpenPhases
  <2>3. SinkInv'
    BY <1>2, <1>4, <1>5, <1>7 DEF SinkInv
  <2> QED BY <1>4, <1>5, <1>7, <2>2, <2>3 DEF ParentInv
<1> QED BY <1>6, <1>7

LEMMA ReceiveResultInv ==
    ASSUME ParentInv, NEW sinkOk \in BOOLEAN, ReceiveResult(sinkOk)
    PROVE  ParentInv'
<1> DEFINE f == Head(toParent)
           misplaced == phase = "Enumerating" \/ (phase = "Cancelling" /\ ~streaming)
           o == IF f.h.type = "EntryBatch" THEN AcceptEntryBatch(results, f)
                ELSE IF misplaced THEN Retire(results, "WorkerFailure")
                ELSE AcceptDataChunk(results, f, sinkOk)
<1>1. /\ phase \in ReceivePhases /\ phase # "Terminal" /\ toParent # <<>>
      /\ f.h.type \in {"EntryBatch", "DataChunk"}
  BY DEF ReceiveResult, ReceivePhases
<1>2. /\ ResultInv(results) /\ results.failure = NoFailure /\ Held(results)
      /\ BrokerInv(reads) /\ Typed /\ SinkInv /\ PhaseInv
  BY <1>1, LiveFacts DEF ParentInv
<1>3. /\ f.h \in FrameHeaders /\ OnWire(Tail(toParent))
      /\ f.h.type = "EntryBatch" => f.body \in Seq(Entries)
      /\ f.h.type = "DataChunk" => f.body \in Seq(Nat)
  BY <1>1, <1>2, Wired DEF Typed, IsWire
<1>4. ResultInv(Retire(results, "WorkerFailure"))
      /\ Retire(results, "WorkerFailure").failure # NoFailure
  BY <1>2, RetiredWith
<1>5. f.h.type = "EntryBatch" =>
        /\ ResultInv(o)
        /\ o.failure = NoFailure =>
               /\ Effects(results.protocol, "WorkerToParent", f.h, o.protocol)
               /\ results.candidate # None /\ o.candidate # None
               /\ The(o.candidate).promotable = The(results.candidate).promotable
               /\ o.catalog = results.catalog /\ o.stream = results.stream
  BY <1>2, <1>3, AcceptEntryBatchHolds
<1>6. f.h.type = "DataChunk" =>
        /\ ResultInv(o)
        /\ o.failure = NoFailure =>
               /\ Effects(results.protocol, "WorkerToParent", f.h, o.protocol)
               /\ results.stream # None /\ o.stream # None
               /\ The(results.stream) \in Nat /\ Len(f.body) <= The(results.stream)
               /\ The(o.stream) = The(results.stream) - Len(f.body)
               /\ o.candidate = results.candidate /\ o.catalog = results.catalog
  BY <1>2, <1>3, <1>4, AcceptDataChunkHolds
<1>7. /\ BrokerInv(reads)' /\ reads' = reads /\ streaming' = streaming
      /\ asked' = asked /\ Typed' /\ active_request_id' = active_request_id
      /\ sink' = IF o.failure = NoFailure /\ f.h.type = "DataChunk" THEN sink \o f.body ELSE sink
      /\ IF o.failure # NoFailure
         THEN phase' = "Terminal" /\ results' = Retire(o, "WorkerFailure")
         ELSE phase' = phase /\ results' = o
  BY <1>2, <1>3 DEF ReceiveResult, Consume, RetireSession, Typed
<1> HIDE DEF o, f
<1>8. CASE o.failure # NoFailure
  <2>1. Held(o)
    BY <1>1, <1>5, <1>6 DEF ResultInv
  <2> QED BY <1>2, <1>7, <1>8, <2>1, TerminalInv DEF SinkInv
<1>9. CASE o.failure = NoFailure
  <2>1. /\ o.protocol.state = results.protocol.state
        /\ Keeps(results.protocol, o.protocol)
    BY <1>1, <1>5, <1>6, <1>9 DEF Effects
  <2>2. /\ o.catalog = results.catalog /\ ResultInv(o)
        /\ o.candidate # None <=> results.candidate # None
        /\ o.candidate # None =>
               The(o.candidate).promotable = The(results.candidate).promotable
        /\ o.stream # None <=> results.stream # None
    BY <1>1, <1>5, <1>6, <1>9
  <2>3. PhaseInv'
    BY <1>1, <1>2, <1>7, <1>9, <2>1, <2>2
       DEF PhaseInv, LivePhases, StateOf, ReceivePhases, OpenPhases, Keeps
  <2>4. SinkInv'
    <3>1. CASE f.h.type = "EntryBatch"
      BY <1>1, <1>2, <1>5, <1>7, <1>9, <3>1 DEF SinkInv, ReceivePhases
    <3>2. CASE f.h.type = "DataChunk"
      <4>1. /\ Len(sink) \in Nat /\ Len(f.body) \in Nat /\ asked.size \in Nat
            /\ sink \in Seq(Nat) /\ f.body \in Seq(Nat)
        BY <1>2, <1>3, <3>2 DEF SinkInv, Typed
      <4>2. /\ sink' \in Seq(Nat) /\ Len(sink') = Len(sink) + Len(f.body)
        BY <1>7, <1>9, <3>2, <4>1, ConcatProperties
      <4>3. Len(sink) + The(results.stream) = asked.size
        BY <1>2, <1>6, <1>9, <3>2 DEF SinkInv
      <4>4. Len(sink') + The(o.stream) = asked.size /\ Len(sink') <= asked.size
        BY <1>6, <1>9, <3>2, <4>1, <4>2, <4>3
      <4> QED BY <1>1, <1>7, <1>9, <4>2, <4>4 DEF SinkInv, ReceivePhases
    <3> QED BY <1>1, <3>1, <3>2
  <2> QED BY <1>7, <1>9, <2>2, <2>3, <2>4 DEF ParentInv
<1> QED BY <1>8, <1>9

LEMMA ReceiveTerminalInv == ASSUME ParentInv, ReceiveTerminal PROVE ParentInv'
<1> DEFINE f == Head(toParent)
           o == CASE f.h.type = "CancelAck" -> AcceptCancelAck(results, f)
                  [] f.h.type = "Complete" /\ streaming -> CompleteStream(results, f)
                  [] OTHER -> CompleteEnumeration(results, f)
           legal == f.h.type = "Complete" \/ phase = "Cancelling"
           done == IF legal THEN o ELSE Retire(o, "WorkerFailure")
           next == TerminalPhase(f.h.type)
<1>1. /\ phase \in ReceivePhases /\ phase # "Terminal" /\ toParent # <<>>
      /\ f.h.type \in {"Complete", "CancelAck"}
  BY DEF ReceiveTerminal, ReceivePhases
<1>2. /\ ResultInv(results) /\ results.failure = NoFailure
      /\ BrokerInv(reads) /\ Typed /\ SinkInv /\ PhaseInv
  BY <1>1, LiveFacts DEF ParentInv
<1>3. f.h \in FrameHeaders /\ OnWire(Tail(toParent))
  BY <1>1, <1>2, Wired DEF Typed, IsWire
<1>4. f.h.type = "CancelAck" =>
        /\ ResultInv(o)
        /\ o.failure = NoFailure =>
               /\ Effects(results.protocol, "WorkerToParent", f.h, o.protocol)
               /\ o.candidate = None /\ o.catalog = None /\ o.stream = None
  BY <1>2, <1>3, SessionEndHolds
<1>5. f.h.type = "Complete" /\ streaming =>
        /\ ResultInv(o)
        /\ o.failure = NoFailure =>
               /\ Effects(results.protocol, "WorkerToParent", f.h, o.protocol)
               /\ results.stream # None /\ The(results.stream) = 0 /\ o.stream = None
  BY <1>2, <1>3, CompleteStreamHolds
<1>6. f.h.type = "Complete" /\ ~streaming =>
        /\ ResultInv(o)
        /\ o.failure = NoFailure =>
               /\ Effects(results.protocol, "WorkerToParent", f.h, o.protocol)
               /\ o.stream = results.stream
  BY <1>2, <1>3, CompleteEnumerationHolds
<1> HIDE DEF o
<1>7. /\ ResultInv(o)
      /\ o.failure = NoFailure =>
             Effects(results.protocol, "WorkerToParent", f.h, o.protocol)
  BY <1>1, <1>4, <1>5, <1>6
<1>8. ResultInv(done) /\ (done.failure = NoFailure => done = o)
  BY <1>7, RetiredWith DEF ResultInv
<1>9. /\ BrokerInv(reads)' /\ reads' = reads /\ streaming' = streaming /\ sink' = sink
      /\ asked' = asked /\ Typed'
      /\ IF done.failure # NoFailure
         THEN phase' = "Terminal" /\ results' = Retire(done, "WorkerFailure")
         ELSE phase' = next /\ results' = done
  <2>1. /\ toParent' = Tail(toParent)
        /\ active_request_id' = IF done.failure = NoFailure THEN 0 ELSE active_request_id
        /\ next_request_id' = next_request_id /\ reads' = reads /\ streaming' = streaming
        /\ sink' = sink /\ asked' = asked
        /\ IF done.failure # NoFailure
           THEN phase' = "Terminal" /\ results' = Retire(done, "WorkerFailure")
           ELSE phase' = next /\ results' = done
    BY DEF ReceiveTerminal, Consume, RetireSession, o
  <2>2. active_request_id' \in Nat
    BY <1>2, <2>1 DEF Typed
  <2> QED BY <1>2, <1>3, <2>1, <2>2 DEF Typed
<1> HIDE DEF done
<1>10. CASE done.failure # NoFailure
  BY <1>2, <1>8, <1>9, <1>10, TerminalInv DEF ResultInv, SinkInv
<1>11. CASE done.failure = NoFailure
  <2>1. done = o /\ o.failure = NoFailure
    BY <1>8, <1>11
  <2>2. /\ o.protocol.last_request_id = results.protocol.last_request_id
        /\ o.protocol.state = next /\ next \in {"Idle", "Cancelled"}
        /\ next = IF f.h.type = "Complete" THEN "Idle" ELSE "Cancelled"
    BY <1>1, <1>7, <2>1 DEF Effects, TerminalPhase
  <2>3. next = "Cancelled" => o.catalog = None
    BY <1>1, <1>4, <2>1, <2>2
  <2> HIDE DEF next, f
  <2>4. PhaseInv'
    BY <1>1, <1>2, <1>9, <1>11, <2>1, <2>2, <2>3
       DEF PhaseInv, LivePhases, StateOf, ReceivePhases, OpenPhases
  <2>5. SinkInv'
    <3>1. CASE f.h.type = "CancelAck"
      BY <1>2, <1>4, <1>9, <1>11, <2>1, <2>2, <3>1 DEF SinkInv
    <3>2. CASE f.h.type = "Complete" /\ streaming
      <4>1. Len(sink) + 0 = asked.size /\ Len(sink) \in Nat
        BY <1>2, <1>5, <2>1, <3>2 DEF SinkInv
      <4> QED BY <1>2, <1>5, <1>9, <1>11, <2>1, <3>2, <4>1 DEF SinkInv
    <3>3. CASE f.h.type = "Complete" /\ ~streaming
      BY <1>2, <1>6, <1>9, <1>11, <2>1, <3>3 DEF SinkInv
    <3> QED BY <1>1, <3>1, <3>2, <3>3
  <2> QED BY <1>8, <1>9, <1>11, <2>4, <2>5 DEF ParentInv
<1> QED BY <1>10, <1>11

LEMMA ReceiveReadRequestInv ==
    ASSUME ParentInv, NEW status \in ServiceOutcomes, NEW delivered \in BOOLEAN,
           ReceiveReadRequest(status, delivered)
    PROVE  ParentInv'
<1> DEFINE f == Head(toParent)
           p == Prepare(reads, results, f, status)
           replying == p.b.failure = NoFailure /\ p.b.pending # None
           q == IF replying THEN IF delivered THEN CommitReplySent(p.b, p.r)
                                 ELSE AbandonReply(p.b, p.r)
                ELSE p
           legal == q.b.failure = NoFailure /\ (replying \/ phase = "Cancelling")
           done == IF legal THEN q.r ELSE Retire(q.r, "WorkerFailure")
<1>1. /\ phase \in ReceivePhases /\ phase # "Terminal" /\ toParent # <<>>
      /\ f.h.type = "ReadRequest"
  BY DEF ReceiveReadRequest, ReceivePhases
<1>2. /\ ResultInv(results) /\ results.failure = NoFailure
      /\ BrokerInv(reads) /\ reads.failure = NoFailure /\ reads.pending = None
      /\ Typed /\ SinkInv /\ PhaseInv
      /\ reads.committed_request_id # None =>
             The(reads.committed_request_id) <= results.protocol.last_request_id
      /\ results.protocol.last_request_id \in Nat
  BY <1>1, LiveFacts DEF ParentInv
<1>3. /\ f.h \in FrameHeaders /\ OnWire(Tail(toParent))
      /\ f.body[1] \in Nat /\ f.body[2] \in Nat
  BY <1>1, <1>2, Wired DEF Typed, IsWire
<1>4. \/ /\ BrokerInv(p.b) /\ p.b.failure # NoFailure
         /\ ResultInv(p.r) /\ p.r.failure # NoFailure
      \/ /\ p.b = reads /\ ResultInv(p.r) /\ p.r.failure = NoFailure
         /\ SameResults(results, p.r)
      \/ /\ Owes(p.b, p.r) /\ p.b.committed_request_id = reads.committed_request_id
         /\ ResultInv(p.r) /\ p.r.failure = NoFailure
         /\ SameResults(results, p.r)
  BY <1>1, <1>2, <1>3, OutcomesAreStatuses, PrepareHolds
<1>5. /\ asked' = asked /\ Typed' /\ active_request_id' = active_request_id
      /\ streaming' = streaming /\ sink' = sink /\ reads' = q.b
      /\ IF done.failure # NoFailure
         THEN phase' = "Terminal" /\ results' = Retire(done, "WorkerFailure")
         ELSE phase' = phase /\ results' = done
  BY <1>2, <1>3 DEF ReceiveReadRequest, AnswerRead, SettleReply, AfterRead, Replying, Consume,
    RetireSession, Typed
<1> HIDE DEF p
<1>6. \/ BrokerInv(q.b) /\ ResultInv(q.r) /\ q.r.failure # NoFailure
      \/ /\ BrokerInv(q.b) /\ q.b.failure = NoFailure /\ q.b.pending = None
         /\ q.b.committed_request_id # None =>
                The(q.b.committed_request_id) <= results.protocol.last_request_id
         /\ ResultInv(q.r) /\ q.r.failure = NoFailure /\ SameResults(results, q.r)
  <2>1. CASE replying
    <3>1. Owes(p.b, p.r) /\ ResultInv(p.r) /\ p.r.failure = NoFailure
          /\ SameResults(results, p.r)
      BY <1>2, <1>4, <2>1
    <3>2. p.r.protocol.last_request_id = results.protocol.last_request_id
      BY <3>1 DEF SameResults, Keeps
    <3>3. CASE delivered
      <4>1. q = CommitReplySent(p.b, p.r)
        BY <2>1, <3>3
      <4> HIDE DEF q
      <4>2. \/ BrokerInv(q.b) /\ ResultInv(q.r) /\ q.r.failure # NoFailure
            \/ /\ BrokerInv(q.b) /\ q.b.failure = NoFailure /\ q.b.pending = None
               /\ q.b.committed_request_id = Some(p.r.protocol.last_request_id)
               /\ ResultInv(q.r) /\ q.r.failure = NoFailure /\ SameResults(p.r, q.r)
        BY <3>1, <4>1, CommitHolds
      <4>3. SameResults(p.r, q.r) => SameResults(results, q.r)
        BY <3>1 DEF SameResults, Keeps
      <4> QED BY <1>2, <3>2, <4>2, <4>3, Options
    <3>4. CASE ~delivered
      <4>1. q = AbandonReply(p.b, p.r)
        BY <2>1, <3>4
      <4> HIDE DEF q
      <4> QED BY <3>1, <4>1, AbandonHolds
    <3> QED BY <3>3, <3>4
  <2>2. CASE ~replying
    <3>1. q = p
      BY <2>2
    <3>2. ~Owes(p.b, p.r)
      BY <2>2 DEF Owes
    <3> HIDE DEF q
    <3> QED BY <1>2, <1>4, <3>1, <3>2
  <2> QED BY <2>1, <2>2
<1> HIDE DEF q
<1>7. ResultInv(done) /\ (done.failure = NoFailure => done = q.r)
  BY <1>6, RetiredWith DEF ResultInv
<1>8. BrokerInv(reads')
  BY <1>5, <1>6
<1> HIDE DEF done
<1>9. CASE done.failure # NoFailure
  BY <1>2, <1>5, <1>7, <1>8, <1>9, TerminalInv DEF ResultInv, SinkInv
<1>10. CASE done.failure = NoFailure
  <2>1. /\ done = q.r /\ SameResults(results, done) /\ reads'.failure = NoFailure
        /\ reads'.pending = None
        /\ reads'.committed_request_id # None =>
               The(reads'.committed_request_id) <= done.protocol.last_request_id
    BY <1>5, <1>6, <1>7, <1>10 DEF SameResults, Keeps
  <2>2. PhaseInv'
    BY <1>1, <1>2, <1>5, <1>10, <2>1
       DEF PhaseInv, LivePhases, StateOf, ReceivePhases, OpenPhases, SameResults, Keeps
  <2>3. SinkInv'
    BY <1>1, <1>2, <1>5, <1>10, <2>1 DEF SinkInv, ReceivePhases, SameResults
  <2> QED BY <1>5, <1>7, <1>8, <1>10, <2>2, <2>3 DEF ParentInv
<1> QED BY <1>9, <1>10

LEMMA WorkerKeepsParent ==
    ASSUME ParentInv, (\E f \in WorkerFrames : WorkerWrites(f)) \/ WorkerReads \/ WorkerVanishes
    PROVE  ParentInv'
<1>1. Typed'
  <2>1. OnWire(toParent')
    <3>1. OnWire(toParent)
      BY DEF ParentInv, Typed
    <3>2. ASSUME NEW f \in WorkerFrames, WorkerWrites(f) PROVE OnWire(toParent')
      BY <3>1, <3>2, Wired, WorkerFramesAssumption DEF WorkerWrites
    <3> QED BY <3>1, <3>2 DEF WorkerReads, WorkerVanishes
  <2> QED BY <2>1 DEF ParentInv, Typed, WorkerWrites, WorkerReads, WorkerVanishes, parentVars
<1>2. UNCHANGED parentVars
  BY DEF WorkerWrites, WorkerReads, WorkerVanishes
<1>3. ResultInv(results)' /\ BrokerInv(reads)'
  BY <1>2 DEF ParentInv, parentVars
<1>4. PhaseInv' /\ SinkInv'
  BY <1>2 DEF ParentInv, PhaseInv, SinkInv, parentVars
<1> QED BY <1>1, <1>3, <1>4 DEF ParentInv

LEMMA StutterInv == ASSUME ParentInv, UNCHANGED untrustedVars PROVE ParentInv'
<1>1. Typed'
  BY DEF ParentInv, Typed, untrustedVars, parentVars, transportVars
<1>2. ResultInv(results)' /\ BrokerInv(reads)'
  BY DEF ParentInv, untrustedVars, parentVars
<1>3. PhaseInv' /\ SinkInv'
  BY DEF ParentInv, PhaseInv, SinkInv, untrustedVars, parentVars
<1> QED BY <1>1, <1>2, <1>3 DEF ParentInv

(* Every call of the parent and every frame it receives. *)
LEMMA ParentNextInv == ASSUME ParentInv, ParentNext PROVE ParentInv'
<1>1. CASE SendHello
  BY <1>1, SendHelloInv
<1>2. CASE RequestIdsExhausted \/ ParentGivesUp \/ InvalidateSource
  BY <1>2, GivingUpInv
<1>3. CASE BeginEnumerationCall
  BY <1>3, BeginEnumerationInv
<1>4. ASSUME NEW generation \in RequestIds, NEW token \in Tokens,
             BeginStreamCall(generation, token)
      PROVE  ParentInv'
  BY <1>4, BeginStreamInv
<1>5. CASE RequestCancel
  BY <1>5, RequestCancelInv
<1>6. CASE ShutdownCall
  BY <1>6, ShutdownInv
<1>7. CASE ReceiveReady
  BY <1>7, ReceiveReadyInv
<1>8. ASSUME NEW ok \in BOOLEAN, ReceiveResult(ok) PROVE ParentInv'
  BY <1>8, ReceiveResultInv
<1>9. CASE ReceiveTerminal
  BY <1>9, ReceiveTerminalInv
<1>10. ASSUME NEW status \in ServiceOutcomes, NEW delivered \in BOOLEAN,
              ReceiveReadRequest(status, delivered)
       PROVE  ParentInv'
  BY <1>10, ReceiveReadRequestInv
<1>11. CASE ReceiveUnexpected
  BY <1>11, ReceiveUnexpectedInv
<1> QED
  BY <1>1, <1>2, <1>3, <1>4, <1>5, <1>6, <1>7, <1>8, <1>9, <1>10, <1>11
  DEF ParentNext, ParentReceive

LEMMA ParentIsInductive == UntrustedSpec => []ParentInv
<1>1. ParentInv /\ [UntrustedNext]_untrustedVars => ParentInv'
  BY ParentNextInv, WorkerKeepsParent, StutterInv DEF UntrustedNext
<1> QED BY <1>1, ParentInitInv, PTL DEF UntrustedSpec

-----------------------------------------------------------------------------
(* Whatever the worker writes, what the parent promotes is sound: ordered,   *)
(* free of path conflicts, within the parent's own limits, and gone once the *)
(* session is cancelled, closed or retired (result_session.rs).              *)
THEOREM CatalogsAreSound == UntrustedSpec => []CatalogIsSound
<1>1. ParentInv => CatalogIsSound
  <2> SUFFICES ASSUME ParentInv PROVE CatalogIsSound
    OBVIOUS
  <2>1. CASE results.catalog = None
    <3>1. CatalogEntries = << >> /\ Len(<< >>) = 0
      BY <2>1 DEF CatalogEntries
    <3>2. << >> \in Seq(Entries)
      OBVIOUS
    <3>3. TotalBytes(<< >>) = 0
      <4> DEFINE sum == CHOOSE g : SumOf(<< >>, 0, g)
      <4>1. SumOf(<< >>, 0, sum)
        BY SumExists
      <4>2. TotalBytes(<< >>) = sum[0]
        BY <3>1 DEF TotalBytes, SumOf
      <4> HIDE DEF sum
      <4>3. sum[0] = 0
        BY <4>1 DEF SumOf
      <4> QED BY <4>2, <4>3
    <3> QED BY <2>1, <3>1, <3>3, ResultLimitsAssumption DEF CatalogIsSound
  <2>2. CASE results.catalog # None
    <3> DEFINE e == The(results.catalog).entries
               tokens == [i \in 1..Len(e) |-> e[i].token]
    <3>1. CatalogInv(e) /\ e \in Seq(Entries)
      BY <2>2, Options DEF ParentInv, ResultInv, Held, Sessions, Catalogs
    <3>2. CatalogEntries = e
      BY <2>2 DEF CatalogEntries
    <3> HIDE DEF e
    <3>3. Len(e) \in Nat /\ \A i \in 1..Len(e) : e[i].token \in Nat
      BY <3>1, EntriesAssumption
    <3>4. \A i, j \in 1..Len(e) : i < j => tokens[i] < tokens[j]
      <4>1. \A i \in 1..Len(e) : tokens[i] \in Int
        BY <3>3
      <4>2. \A i \in 1..Len(e) - 1 : tokens[i] < tokens[i + 1]
        BY <3>1, <3>3 DEF CatalogInv, Growing
      <4> HIDE DEF tokens
      <4> QED BY <3>3, <4>1, <4>2, GrowingIsOrdered
    <3>5. phase \in {"Idle", "Streaming"}
      BY <2>2 DEF ParentInv, PhaseInv
    <3> QED BY <3>1, <3>2, <3>3, <3>4, <3>5 DEF CatalogIsSound, CatalogInv
  <2> QED BY <2>1, <2>2
<1> QED BY <1>1, ParentIsInductive, PTL

(* The phase the caller holds is the state of the validator, for every worker *)
(* (parent_session.rs).                                                       *)
THEOREM PhasesAgree == UntrustedSpec => []PhaseAgrees
<1>1. ParentInv => PhaseAgrees
  BY DEF ParentInv, PhaseInv, PhaseAgrees, OpenPhases, LivePhases, StateOf, ReceivePhases
<1> QED BY <1>1, ParentIsInductive, PTL

(* No worker makes the sink take more than was declared, or a short stream    *)
(* look complete (accept_data_chunk, complete_stream).                        *)
THEOREM SinksAreBounded == UntrustedSpec => []SinkIsBounded
<1>1. ParentInv => SinkIsBounded
  BY DEF ParentInv, SinkInv, SinkIsBounded
<1> QED BY <1>1, ParentIsInductive, PTL

(* No worker reads beyond the quotas, or on behalf of a request that was not  *)
(* opened (source_read_broker.rs).                                            *)
THEOREM ReadsStayCharged == UntrustedSpec => []ReadsAreCharged
<1>1. ParentInv => ReadsAreCharged
  BY DEF ParentInv, BrokerInv, PhaseInv, ReadsAreCharged, OpenPhases
<1> QED BY <1>1, ParentIsInductive, PTL

-----------------------------------------------------------------------------
(* The bytes of two runs of entries add up. *)
Sums(x, sum) ==
    /\ sum[0] = 0 /\ \A i \in 0..Len(x) : sum[i] \in Nat
    /\ \A i \in 1..Len(x) : sum[i] = sum[i - 1] + x[i].size

LEMMA TotalBytesSum ==
    ASSUME NEW x \in Seq(Entries)
    PROVE  \E sum : TotalBytes(x) = sum[Len(x)] /\ Sums(x, sum)
<1> DEFINE N == Len(x)
           sum == CHOOSE f : SumOf(x, N, f)
           S == {n \in Nat : n <= N => sum[n] \in Nat}
<1>0. N \in Nat /\ \A i \in 1..N : x[i].size \in Nat
  BY EntriesAssumption
<1>1. SumOf(x, N, sum)
  BY <1>0, SumExists
<1>2. TotalBytes(x) = sum[N]
  BY DEF TotalBytes, SumOf
<1> HIDE DEF sum
<1>3. \A i \in 0..N : sum[i] = IF i = 0 THEN 0 ELSE sum[i - 1] + x[i].size
  <2> HIDE DEF N
  <2> QED BY <1>1 DEF SumOf
<1>4. sum[0] = 0 /\ \A i \in 1..N : sum[i] = sum[i - 1] + x[i].size
  <2> HIDE DEF N
  <2> QED BY <1>0, <1>3
<1>5. \A i \in 0..N : sum[i] \in Nat
  <2> HIDE DEF N
  <2>1. 0 \in S
    BY <1>4
  <2>2. ASSUME NEW n \in Nat, n \in S PROVE n + 1 \in S
    <3> SUFFICES ASSUME n + 1 <= N PROVE sum[n + 1] \in Nat
      OBVIOUS
    <3>1. sum[n + 1] = sum[n] + x[n + 1].size
      BY <1>0, <1>4
    <3> QED BY <1>0, <2>2, <3>1
  <2>3. Nat \subseteq S
    <3> HIDE DEF S
    <3> QED BY <2>1, <2>2, Induction
  <2> QED BY <1>0, <2>3
<1> QED BY <1>2, <1>4, <1>5 DEF Sums

LEMMA TotalBytesConcat ==
    ASSUME NEW x \in Seq(Entries), NEW y \in Seq(Entries)
    PROVE  TotalBytes(x \o y) = TotalBytes(x) + TotalBytes(y)
<1> DEFINE z == x \o y
           m == Len(x)
           n == Len(y)
<1>1. PICK a : TotalBytes(x) = a[Len(x)] /\ Sums(x, a)
  BY TotalBytesSum
<1>2. PICK b : TotalBytes(y) = b[Len(y)] /\ Sums(y, b)
  BY TotalBytesSum
<1>3. z \in Seq(Entries) /\ Len(z) = m + n /\ m \in Nat /\ n \in Nat
      /\ (\A i \in 1..m : z[i] = x[i]) /\ (\A i \in 1..n : z[m + i] = y[i])
  OBVIOUS
<1> HIDE DEF z
<1>4. PICK c : TotalBytes(z) = c[Len(z)] /\ Sums(z, c)
  BY <1>3, TotalBytesSum
<1>5. /\ a[0] = 0 /\ \A i \in 1..m : a[i] = a[i - 1] + x[i].size
      /\ a[m] \in Nat
  BY <1>1 DEF Sums
<1>6. /\ b[0] = 0 /\ \A i \in 1..n : b[i] = b[i - 1] + y[i].size
      /\ \A i \in 0..n : b[i] \in Nat
  BY <1>2 DEF Sums
<1>7. c[0] = 0 /\ \A i \in 1..m + n : c[i] = c[i - 1] + z[i].size
  BY <1>3, <1>4 DEF Sums
<1>8. \A i \in 1..n : y[i].size \in Nat
  BY EntriesAssumption
<1> HIDE DEF m, n
<1>9. c[m] = a[m]
  <2> DEFINE S == {i \in Nat : i <= m => c[i] = a[i]}
  <2>1. 0 \in S
    BY <1>5, <1>7
  <2>2. ASSUME NEW i \in Nat, i \in S PROVE i + 1 \in S
    <3> SUFFICES ASSUME i + 1 <= m PROVE c[i + 1] = a[i + 1]
      OBVIOUS
    <3>1. /\ i + 1 \in 1..m /\ i + 1 \in 1..m + n /\ (i + 1) - 1 = i
      BY <1>3
    <3>2. c[i + 1] = c[i] + z[i + 1].size /\ a[i + 1] = a[i] + x[i + 1].size
      BY <1>5, <1>7, <3>1
    <3>3. c[i] = a[i] /\ z[i + 1] = x[i + 1]
      BY <1>3, <2>2, <3>1
    <3> QED BY <3>2, <3>3
  <2>3. Nat \subseteq S
    <3> HIDE DEF S
    <3> QED BY <2>1, <2>2, Induction
  <2> QED BY <1>3, <2>3
<1>10. c[m + n] = a[m] + b[n]
  <2> DEFINE S == {i \in Nat : i <= n => c[m + i] = a[m] + b[i]}
  <2>1. 0 \in S
    BY <1>3, <1>5, <1>6, <1>9
  <2>2. ASSUME NEW i \in Nat, i \in S PROVE i + 1 \in S
    <3> SUFFICES ASSUME i + 1 <= n PROVE c[m + (i + 1)] = a[m] + b[i + 1]
      OBVIOUS
    <3>1. /\ m + (i + 1) \in 1..m + n /\ i + 1 \in 1..n /\ i \in 0..n
          /\ (m + (i + 1)) - 1 = m + i /\ (i + 1) - 1 = i
      BY <1>3
    <3>2. /\ c[m + (i + 1)] = c[m + i] + z[m + (i + 1)].size
          /\ b[i + 1] = b[i] + y[i + 1].size
      BY <1>6, <1>7, <3>1
    <3>3. /\ c[m + i] = a[m] + b[i] /\ z[m + (i + 1)] = y[i + 1]
          /\ b[i] \in Nat /\ y[i + 1].size \in Nat
      BY <1>3, <1>6, <1>8, <2>2, <3>1
    <3> QED BY <1>5, <3>2, <3>3
  <2>3. Nat \subseteq S
    <3> HIDE DEF S
    <3> QED BY <2>1, <2>2, Induction
  <2> QED BY <1>3, <2>3
<1> QED BY <1>1, <1>2, <1>3, <1>4, <1>10 DEF m, n, z

LEMMA EmptyBytes == TotalBytes(<< >>) = 0
<1>1. << >> \in Seq(Entries) /\ Len(<< >>) = 0
  OBVIOUS
<1>2. PICK sum : TotalBytes(<< >>) = sum[Len(<< >>)] /\ Sums(<< >>, sum)
  BY <1>1, TotalBytesSum
<1> QED BY <1>1, <1>2 DEF Sums
=============================================================================
