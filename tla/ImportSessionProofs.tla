------------------------ MODULE ImportSessionProofs -------------------------
(***************************************************************************)
(* A session proved in three parts.  The worker service against every      *)
(* parent and dispatcher: the dispatcher is released exactly once and the  *)
(* service stays in step with its validator.  The two ends together:       *)
(* outcomes, stream and catalog agree.  The order of their frames: neither *)
(* end ever refuses the other for it.  The parent's half against every     *)
(* worker is in SessionProofs.                                             *)
(***************************************************************************)
EXTENDS ImportSession, AnyParent, SessionProofs

-----------------------------------------------------------------------------
(* PART 1: the worker service against every parent.                          *)

(* Frames whose header can be read. *)
Framed(q) == \E F : q \in Seq(F) /\ \A f \in F : f.h \in FrameHeaders

(* The fields of the service that decide its control, and E for what the     *)
(* others hold.                                                              *)
Services(E) ==
    [enumeration : E, stream_size : E, remaining_stream_bytes : E, dispatch_steps : E,
     next_read_sequence : E, pending_read_sequence : E, pending_read_length : E,
     active_operation : {"Enumerate", "Stream"}, active_request_id : Nat,
     dispatch_active : BOOLEAN, pending_read : BOOLEAN, late_read_reply : BOOLEAN]
IsService(s) == \E E : s \in Services(E)

Dispatchers == [begun : Nat, released : Nat]

\* What the dispatcher d still holds is the request the service calls active.
Owns(s, d) ==
    /\ IsService(s) /\ d \in Dispatchers
    /\ s.dispatch_active => d.begun = d.released + 1
    /\ ~s.dispatch_active => d.begun = d.released

Quiet(s) == ~s.dispatch_active /\ ~s.pending_read /\ ~s.late_read_reply

Dispatching(s, w) ==
    /\ w.state \in ActiveStates
    /\ s.dispatch_active /\ ~s.late_read_reply
    /\ s.active_request_id = w.active_request_id
    /\ s.pending_read <=> w.read_in_flight
    /\ w.state = "Enumerating" => s.active_operation = "Enumerate"

Stopped(s, w) ==
    /\ w.state = "Cancelled" /\ ~s.dispatch_active
    /\ s.pending_read <=> w.late_read_reply_request_id # 0
    /\ s.late_read_reply <=> w.late_read_reply_request_id # 0

(* Between two frames, and while the frame f is being written. *)
AtRest ==
    \/ pc = "Handshake" /\ wv.state = "AwaitingHello" /\ Quiet(service)
    \/ pc = "Loop" /\ wv.state = "Idle" /\ Quiet(service)
    \/ pc = "Loop" /\ Stopped(service, wv)
    \/ pc = "Loop" /\ Dispatching(service, wv) /\ ~wv.read_in_flight
    \/ pc = "AwaitReply" /\ Dispatching(service, wv) /\ wv.read_in_flight

Writing(type) ==
    \/ type = "Ready" /\ pc = "Handshake" /\ wv.state = "Idle" /\ Quiet(service)
    \/ type = "ReadRequest" /\ pc = "Loop" /\ Dispatching(service, wv) /\ wv.read_in_flight
    \/ /\ type \in {"EntryBatch", "DataChunk"} /\ pc = "Loop"
       /\ Dispatching(service, wv) /\ ~wv.read_in_flight
    \/ /\ type = "Complete" /\ pc = "Loop" /\ wv.state = "Idle"
       /\ service.dispatch_active /\ ~service.pending_read /\ ~service.late_read_reply
    \/ type = "CancelAck" /\ pc \in {"Loop", "AwaitReply"} /\ Stopped(service, wv)

InStep ==
    /\ pc \in {"Handshake", "Loop", "AwaitReply", "Done", "Failed"}
    /\ Running =>
           /\ wv.error = NoError
           /\ outbox = None => AtRest
           /\ outbox # None => Writing(The(outbox).h.type)
    /\ ~Running => ~service.dispatch_active

WorkerInv ==
    /\ Framed(toWorker)
    /\ Sound(wv, WorkerBudgets)
    /\ Owns(service, dispatcher)
    /\ InStep

-----------------------------------------------------------------------------
LEMMA Framing ==
    /\ Framed(<< >>)
    /\ \A q : Framed(q) /\ q # << >> => Head(q).h \in FrameHeaders /\ Framed(Tail(q))
    /\ \A q, f : Framed(q) /\ f.h \in FrameHeaders => Framed(Append(q, f))
<1>1. Framed(<< >>)
  <2> DEFINE F == {}
  <2>1. << >> \in Seq(F) /\ \A f \in F : f.h \in FrameHeaders
    OBVIOUS
  <2> HIDE DEF F
  <2> QED BY <2>1 DEF Framed
<1>2. ASSUME NEW q, Framed(q), q # << >>
      PROVE  Head(q).h \in FrameHeaders /\ Framed(Tail(q))
  <2>1. PICK F : q \in Seq(F) /\ \A f \in F : f.h \in FrameHeaders
    BY <1>2 DEF Framed
  <2>2. Head(q) \in F /\ Tail(q) \in Seq(F)
    BY <1>2, <2>1, HeadTailProperties
  <2> QED BY <2>1, <2>2 DEF Framed
<1>3. ASSUME NEW q, NEW f, Framed(q), f.h \in FrameHeaders PROVE Framed(Append(q, f))
  <2>1. PICK F : q \in Seq(F) /\ \A g \in F : g.h \in FrameHeaders
    BY <1>3 DEF Framed
  <2> DEFINE G == F \cup {f}
  <2>2. q \in Seq(G) /\ f \in G /\ \A g \in G : g.h \in FrameHeaders
    BY <1>3, <2>1
  <2> HIDE DEF G
  <2>3. Append(q, f) \in Seq(G)
    BY <2>2, AppendProperties
  <2> QED BY <2>2, <2>3 DEF Framed
<1> QED BY <1>1, <1>2, <1>3

LEMMA Optional == \A x : Some(x) # None /\ The(Some(x)) = x
BY DEF Some, None, The

(* A service that changes one of its fields is a service. *)
LEMMA ServiceFields ==
    ASSUME NEW s, IsService(s), NEW x
    PROVE  /\ LET t == [s EXCEPT !.dispatch_active = FALSE] IN
              /\ IsService(t) /\ ~t.dispatch_active
              /\ t.pending_read = s.pending_read /\ t.late_read_reply = s.late_read_reply
           /\ LET t == [s EXCEPT !.dispatch_steps = x] IN
              /\ IsService(t) /\ t.dispatch_active = s.dispatch_active
              /\ t.pending_read = s.pending_read /\ t.late_read_reply = s.late_read_reply
              /\ t.active_request_id = s.active_request_id
              /\ t.active_operation = s.active_operation
           /\ LET t == [s EXCEPT !.enumeration = x] IN
              /\ IsService(t) /\ t.dispatch_active = s.dispatch_active
              /\ t.pending_read = s.pending_read /\ t.late_read_reply = s.late_read_reply
              /\ t.active_request_id = s.active_request_id
              /\ t.active_operation = s.active_operation
           /\ LET t == [s EXCEPT !.remaining_stream_bytes = x] IN
              /\ IsService(t) /\ t.dispatch_active = s.dispatch_active
              /\ t.pending_read = s.pending_read /\ t.late_read_reply = s.late_read_reply
              /\ t.active_request_id = s.active_request_id
              /\ t.active_operation = s.active_operation
<1>1. PICK E : s \in Services(E)
  BY DEF IsService
<1>2. s \in Services(E \cup {x})
  BY <1>1 DEF Services
<1>3. LET t == [s EXCEPT !.dispatch_active = FALSE] IN
      /\ t \in Services(E) /\ ~t.dispatch_active
      /\ t.pending_read = s.pending_read /\ t.late_read_reply = s.late_read_reply
  BY <1>1 DEF Services
<1>4. LET t == [s EXCEPT !.dispatch_steps = x] IN
      /\ t \in Services(E \cup {x}) /\ t.dispatch_active = s.dispatch_active
      /\ t.pending_read = s.pending_read /\ t.late_read_reply = s.late_read_reply
      /\ t.active_request_id = s.active_request_id
      /\ t.active_operation = s.active_operation
  BY <1>2 DEF Services
<1>5. LET t == [s EXCEPT !.enumeration = x] IN
      /\ t \in Services(E \cup {x}) /\ t.dispatch_active = s.dispatch_active
      /\ t.pending_read = s.pending_read /\ t.late_read_reply = s.late_read_reply
      /\ t.active_request_id = s.active_request_id
      /\ t.active_operation = s.active_operation
  BY <1>2 DEF Services
<1>6. LET t == [s EXCEPT !.remaining_stream_bytes = x] IN
      /\ t \in Services(E \cup {x}) /\ t.dispatch_active = s.dispatch_active
      /\ t.pending_read = s.pending_read /\ t.late_read_reply = s.late_read_reply
      /\ t.active_request_id = s.active_request_id
      /\ t.active_operation = s.active_operation
  BY <1>2 DEF Services
<1> QED BY <1>3, <1>4, <1>5, <1>6 DEF IsService

(* A failed lifetime has released what it held. *)
LEMMA FailClosedInv ==
    ASSUME NEW s, NEW d, Owns(s, d), NEW e, FailClosed(s, d, e),
           Framed(toWorker'), Sound(wv, WorkerBudgets)'
    PROVE  WorkerInv' /\ pc' = "Failed"
<1> DEFINE t == [s EXCEPT !.dispatch_active = FALSE]
<1>1. IsService(t) /\ ~t.dispatch_active
  BY ServiceFields DEF Owns
<1>2. pc' = "Failed" /\ service' = t
      /\ dispatcher' = IF s.dispatch_active THEN [d EXCEPT !.released = @ + 1] ELSE d
  BY DEF FailClosed
<1>3. dispatcher' \in Dispatchers /\ dispatcher'.begun = dispatcher'.released
  <2>1. CASE s.dispatch_active
    <3> DEFINE n == d.released + 1
    <3>1. dispatcher' = [d EXCEPT !.released = n] /\ n \in Nat /\ d.begun = n
      BY <1>2, <2>1 DEF Owns, Dispatchers
    <3> HIDE DEF n
    <3> QED BY <3>1 DEF Owns, Dispatchers
  <2>2. CASE ~s.dispatch_active
    BY <1>2, <2>2 DEF Owns
  <2> QED BY <2>1, <2>2
<1> HIDE DEF t
<1>4. Owns(service, dispatcher)'
  BY <1>1, <1>2, <1>3 DEF Owns
<1>5. InStep'
  BY <1>1, <1>2 DEF InStep, Running
<1> QED BY <1>2, <1>4, <1>5 DEF WorkerInv

(* What the service learns from a frame it observes. *)
LEMMA WorkerObserves ==
    ASSUME NEW v, Sound(v, WorkerBudgets), NEW d \in Directions, NEW f, f.h \in FrameHeaders
    PROVE  LET o == ObserveAtWorker(v, d, f) IN
           /\ Sound(o, WorkerBudgets)
           /\ o.error = NoError => Effects(v, d, f.h, o) /\ ReadEffects(v, f.h, o)
<1>1. WorkerBudgets \in Budgets
  BY WorkerLimitsAssumption
<1> QED BY <1>1, ObserveIsSound, AcceptedEffects, AcceptedReads DEF ObserveAtWorker

(* A write that is started is observed first, or ends the lifetime. *)
LEMMA StartWriteHolds ==
    ASSUME NEW v, Sound(v, WorkerBudgets), NEW s, NEW d, Owns(s, d), NEW f,
           f.h \in FrameHeaders, StartWrite(v, s, d, f), Framed(toWorker')
    PROVE  \/ WorkerInv' /\ pc' = "Failed"
           \/ /\ outbox' = Some(f) /\ service' = s /\ dispatcher' = d /\ pc' = pc
              /\ Sound(wv, WorkerBudgets)' /\ wv'.error = NoError
              /\ Effects(v, "WorkerToParent", f.h, wv') /\ ReadEffects(v, f.h, wv')
<1> DEFINE o == ObserveAtWorker(v, "WorkerToParent", f)
<1>1. "WorkerToParent" \in Directions
  BY DEF Directions
<1>2. /\ Sound(o, WorkerBudgets)
      /\ o.error = NoError =>
             Effects(v, "WorkerToParent", f.h, o) /\ ReadEffects(v, f.h, o)
  BY <1>1, WorkerObserves
<1>3. /\ wv' = o
      /\ IF o.error # NoError THEN FailClosed(s, d, "ProtocolFailure")
         ELSE outbox' = Some(f) /\ service' = s /\ dispatcher' = d /\ pc' = pc
  BY DEF StartWrite
<1> HIDE DEF o
<1>4. CASE o.error # NoError
  BY <1>2, <1>3, <1>4, FailClosedInv
<1>5. CASE o.error = NoError
  BY <1>2, <1>3, <1>5
<1> QED BY <1>4, <1>5

LEMMA WorkerInitInv == AnyParentInit => WorkerInv
<1> SUFFICES ASSUME AnyParentInit PROVE WorkerInv
  OBVIOUS
<1>1. Framed(toWorker)
  BY Framing DEF AnyParentInit, TransportInit
<1>2. wv = NewValidator /\ service = NewService /\ pc = "Handshake" /\ outbox = None
      /\ dispatcher = [begun |-> 0, released |-> 0]
  BY DEF AnyParentInit, WorkerInit
<1>3. Sound(wv, WorkerBudgets) /\ wv.error = NoError /\ wv.state = "AwaitingHello"
  <2>1. NewValidator \in Validators
    BY DEF NewValidator, Validators, SessionStates, NoError
  <2>2. WithinBudgets(NewValidator, WorkerBudgets)
    BY WorkerLimitsAssumption DEF NewValidator, WithinBudgets, Budgets
  <2> QED BY <1>2, <2>1, <2>2 DEF Sound, Consistent, LateWindowOf, NewValidator,
          RequestStates, NoError
<1>4. IsService(service) /\ Quiet(service)
  <2>1. NewService \in Services({NewEnumerationBudget, 0, 1})
    BY DEF NewService, Services
  <2>2. Quiet(NewService)
    BY DEF NewService, Quiet
  <2> QED BY <1>2, <2>1, <2>2 DEF IsService
<1>5. Owns(service, dispatcher)
  BY <1>2, <1>4 DEF Owns, Dispatchers, Quiet
<1>6. InStep
  BY <1>2, <1>3, <1>4 DEF InStep, AtRest, Running
<1> QED BY <1>1, <1>3, <1>5, <1>6 DEF WorkerInv

-----------------------------------------------------------------------------
(* A frame at the head of the pipe is one the parent may write. *)
LEMMA Arriving ==
    ASSUME WorkerInv, toWorker # <<>>
    PROVE  /\ Head(toWorker).h \in FrameHeaders
           /\ Framed(Tail(toWorker))
BY Framing DEF WorkerInv

(* The headers of what the worker itself writes. *)
LEMMA WrittenHeader ==
    ASSUME NEW type \in {"Ready", "ReadRequest", "Complete", "CancelAck"},
           NEW req \in Nat, NEW body
    PROVE  /\ Frame(type, req, body).h \in FrameHeaders
           /\ Frame(type, req, body).h.type = type
           /\ Frame(type, req, body).h.req = req
<1>1. PayloadLength(type, body) \in Nat
  BY DEF PayloadLength
<1> QED BY <1>1, SessionIdentAssumption
        DEF Frame, Header, FrameHeaders, MessageTypes, ZeroRequestTypes, Envelopes

LEMMA WrittenResult ==
    ASSUME NEW type \in {"EntryBatch", "DataChunk"}, NEW req \in Nat,
           NEW body, Len(body) \in Nat
    PROVE  Frame(type, req, body).h \in FrameHeaders /\ Frame(type, req, body).h.type = type
<1>1. PayloadLength(type, body) \in Nat
  BY DEF PayloadLength
<1> QED BY <1>1, SessionIdentAssumption
        DEF Frame, Header, FrameHeaders, MessageTypes, ZeroRequestTypes, Envelopes

LEMMA ReceiveHelloInv == ASSUME WorkerInv, ReceiveHello PROVE WorkerInv'
<1> DEFINE f == Head(toWorker)
           o == ObserveAtWorker(wv, "ParentToWorker", f)
           ready == Frame("Ready", 0, <<>>)
<1>1. /\ pc = "Handshake" /\ outbox = None /\ toWorker # <<>> /\ toWorker' = Tail(toWorker)
      /\ IF f.h.type # "Hello" \/ o.error # NoError
         THEN wv' = o /\ FailClosed(service, dispatcher, "ProtocolFailure")
         ELSE StartWrite(o, service, dispatcher, ready)
  BY DEF ReceiveHello
<1>2. f.h \in FrameHeaders /\ Framed(toWorker') /\ "ParentToWorker" \in Directions
  BY <1>1, Arriving DEF Directions
<1>3. Sound(wv, WorkerBudgets) /\ Owns(service, dispatcher) /\ Quiet(service)
  BY <1>1 DEF WorkerInv, InStep, Running, AtRest
<1>4. /\ Sound(o, WorkerBudgets)
      /\ o.error = NoError => Effects(wv, "ParentToWorker", f.h, o)
  BY <1>2, <1>3, WorkerObserves
<1>5. ready.h \in FrameHeaders /\ ready.h.type = "Ready"
  BY WrittenHeader
<1> HIDE DEF o, ready
<1>6. CASE f.h.type # "Hello" \/ o.error # NoError
  BY <1>1, <1>2, <1>3, <1>4, <1>6, FailClosedInv
<1>7. CASE f.h.type = "Hello" /\ o.error = NoError
  <2>1. \/ WorkerInv' /\ pc' = "Failed"
        \/ /\ outbox' = Some(ready) /\ service' = service /\ dispatcher' = dispatcher
           /\ pc' = pc /\ Sound(wv, WorkerBudgets)' /\ wv'.error = NoError
           /\ Effects(o, "WorkerToParent", ready.h, wv')
    BY <1>1, <1>2, <1>3, <1>4, <1>5, <1>7, StartWriteHolds
  <2> SUFFICES ASSUME outbox' = Some(ready), service' = service, dispatcher' = dispatcher,
                      pc' = pc, Sound(wv, WorkerBudgets)', wv'.error = NoError,
                      Effects(o, "WorkerToParent", ready.h, wv')
               PROVE  WorkerInv'
    BY <2>1
  <2>2. wv'.state = "Idle"
    BY <1>5 DEF Effects
  <2>3. outbox' # None /\ The(outbox').h.type = "Ready"
    BY <1>5, Optional
  <2>4. InStep'
    BY <1>1, <1>3, <2>2, <2>3 DEF InStep, Running, Writing
  <2> QED BY <1>2, <1>3, <2>4 DEF WorkerInv
<1> QED BY <1>6, <1>7

(* handle_cancel, wherever the cancel is read. *)
LEMMA HandleCancelInv ==
    ASSUME WorkerInv, NEW f, f.h \in FrameHeaders, f.h.type = "Cancel",
           pc \in {"Loop", "AwaitReply"}, outbox = None,
           Framed(toWorker'), HandleCancel(f)
    PROVE  WorkerInv'
<1> DEFINE o == ObserveAtWorker(wv, "ParentToWorker", f)
           stopped == [service EXCEPT !.dispatch_active = FALSE,
                                      !.late_read_reply = service.pending_read]
           n == dispatcher.released + 1
           released == [dispatcher EXCEPT !.released = n]
           ack == Frame("CancelAck", f.h.req, <<>>)
<1>1. Sound(wv, WorkerBudgets) /\ Owns(service, dispatcher) /\ AtRest
      /\ "ParentToWorker" \in Directions
  BY DEF WorkerInv, InStep, Running, Directions
<1>2. /\ Sound(o, WorkerBudgets)
      /\ o.error = NoError => Effects(wv, "ParentToWorker", f.h, o) /\ ReadEffects(wv, f.h, o)
  BY <1>1, WorkerObserves
<1>3. released = [dispatcher EXCEPT !.released = @ + 1]
  BY <1>1 DEF Owns, Dispatchers
<1>4. IF o.error # NoError
      THEN wv' = o /\ FailClosed(service, dispatcher, "ProtocolFailure")
      ELSE IF wv.state = "Idle"
      THEN wv' = o /\ UNCHANGED <<service, dispatcher, outbox, pc, failure, workerIo>>
      ELSE IF ~service.dispatch_active
      THEN wv' = o /\ FailClosed(service, dispatcher, "InternalFailure")
      ELSE StartWrite(o, stopped, released, ack)
  BY <1>3 DEF HandleCancel
<1>5. f.h.req \in Nat
  BY DEF FrameHeaders
<1>6. ack.h \in FrameHeaders /\ ack.h.type = "CancelAck"
  BY <1>5, WrittenHeader
<1> HIDE DEF o, ack
<1>7. CASE o.error # NoError \/ (wv.state # "Idle" /\ ~service.dispatch_active)
  BY <1>1, <1>2, <1>4, <1>7, FailClosedInv
<1>8. CASE o.error = NoError /\ wv.state = "Idle"
  <2>1. o.state = "Idle"
    BY <1>2, <1>8 DEF Effects
  <2>2. pc = "Loop" /\ Quiet(service)
    BY <1>1, <1>8 DEF AtRest, Stopped, Dispatching, ActiveStates
  <2>3. InStep'
    BY <1>4, <1>8, <2>1, <2>2 DEF InStep, Running, AtRest
  <2> QED BY <1>1, <1>2, <1>4, <1>8, <2>3 DEF WorkerInv
<1>9. CASE o.error = NoError /\ wv.state # "Idle" /\ service.dispatch_active
  <2>1. Dispatching(service, wv)
    BY <1>1, <1>9 DEF AtRest, Quiet, Stopped
  <2>2. /\ IsService(stopped) /\ ~stopped.dispatch_active
        /\ stopped.pending_read = service.pending_read
        /\ stopped.late_read_reply = service.pending_read
    <3>1. PICK E : service \in Services(E)
      BY <1>1 DEF Owns, IsService
    <3>2. /\ stopped \in Services(E) /\ ~stopped.dispatch_active
          /\ stopped.pending_read = service.pending_read
          /\ stopped.late_read_reply = service.pending_read
      BY <3>1 DEF Services
    <3> QED BY <3>2 DEF IsService
  <2>3. released \in Dispatchers /\ released.begun = released.released
    <3>1. dispatcher \in Dispatchers /\ n \in Nat /\ dispatcher.begun = n
      BY <1>1, <1>9 DEF Owns, Dispatchers
    <3> HIDE DEF n
    <3> QED BY <3>1 DEF Dispatchers
  <2> HIDE DEF stopped, released
  <2>4. Owns(stopped, released)
    BY <2>2, <2>3 DEF Owns
  <2>5. \/ WorkerInv' /\ pc' = "Failed"
        \/ /\ outbox' = Some(ack) /\ service' = stopped /\ dispatcher' = released
           /\ pc' = pc /\ Sound(wv, WorkerBudgets)' /\ wv'.error = NoError
           /\ Effects(o, "WorkerToParent", ack.h, wv') /\ ReadEffects(o, ack.h, wv')
    BY <1>2, <1>4, <1>6, <1>9, <2>4, StartWriteHolds
  <2> SUFFICES ASSUME outbox' = Some(ack), service' = stopped, dispatcher' = released,
                      pc' = pc, Sound(wv, WorkerBudgets)', wv'.error = NoError,
                      Effects(o, "WorkerToParent", ack.h, wv'), ReadEffects(o, ack.h, wv')
               PROVE  WorkerInv'
    BY <2>5
  <2>6. /\ wv'.state = "Cancelled" /\ o.state = "Cancelling"
        /\ o.read_in_flight <=> wv.read_in_flight
        /\ wv'.late_read_reply_request_id =
               IF o.read_in_flight THEN o.active_request_id ELSE 0
    BY <1>2, <1>6, <1>9 DEF Effects, ReadEffects
  <2>7. o.active_request_id # 0
    BY <1>2, <1>9, <2>6 DEF Sound, Consistent, RequestStates
  <2>8. service.pending_read <=> wv'.late_read_reply_request_id # 0
    BY <2>1, <2>6, <2>7 DEF Dispatching
  <2>9. Stopped(service, wv)'
    BY <2>2, <2>6, <2>8 DEF Stopped
  <2>10. outbox' # None /\ The(outbox').h.type = "CancelAck"
    BY <1>6, Optional
  <2>11. InStep'
    BY <2>9, <2>10 DEF InStep, Running, Writing
  <2> QED BY <2>4, <2>11 DEF WorkerInv
<1> QED BY <1>7, <1>8, <1>9

(* accept_read_reply, for the read that is awaited or for the one that      *)
(* crossed the cancel.                                                      *)
LEMMA AcceptReplyInv ==
    ASSUME WorkerInv, NEW f, f.h \in FrameHeaders, f.h.type = "ReadReply", outbox = None,
           NEW discard \in BOOLEAN, NEW ok \in BOOLEAN,
           pc = "AwaitReply" \/ (pc = "Loop" /\ wv.state = "Cancelled"),
           Framed(toWorker'), AcceptReply(f, discard, ok)
    PROVE  WorkerInv'
<1> DEFINE o == ObserveAtWorker(wv, "ParentToWorker", f)
           canonical == /\ f.body[1] = service.pending_read_sequence
                        /\ f.body[3] = IF f.body[2] = "Ok" THEN service.pending_read_length ELSE 0
           n == (service.pending_read_sequence + 1) % (WorkerMaxSequence + 1)
           answered == [service EXCEPT !.pending_read = FALSE, !.late_read_reply = FALSE,
                           !.next_read_sequence = n, !.pending_read_sequence = 0,
                           !.pending_read_length = 0]
<1>1. Sound(wv, WorkerBudgets) /\ Owns(service, dispatcher) /\ AtRest
      /\ "ParentToWorker" \in Directions
  BY DEF WorkerInv, InStep, Running, Directions
<1>2. /\ Sound(o, WorkerBudgets)
      /\ o.error = NoError => Effects(wv, "ParentToWorker", f.h, o) /\ ReadEffects(wv, f.h, o)
  BY <1>1, WorkerObserves
<1>3. IF ~service.pending_read \/ ~canonical
      THEN UNCHANGED wv /\ FailClosed(service, dispatcher, "ProtocolFailure")
      ELSE /\ wv' = o
           /\ IF o.error # NoError
              THEN FailClosed(service, dispatcher, "ProtocolFailure")
              ELSE IF ~discard /\ f.body[2] # "Ok"
              THEN FailClosed(answered, dispatcher, "SourceFailure")
              ELSE IF ~discard /\ ~ok
              THEN FailClosed(answered, dispatcher, "DispatchFailure")
              ELSE /\ service' = answered
                   /\ pc' = "Loop"
                   /\ UNCHANGED <<dispatcher, outbox, failure, workerIo>>
  BY DEF AcceptReply
<1>4. /\ IsService(answered) /\ answered.dispatch_active = service.dispatch_active
      /\ ~answered.pending_read /\ ~answered.late_read_reply
      /\ answered.active_request_id = service.active_request_id
      /\ answered.active_operation = service.active_operation
  <2>1. PICK E : service \in Services(E)
    BY <1>1 DEF Owns, IsService
  <2> HIDE DEF n
  <2>2. service \in Services(E \cup {n, 0})
    BY <2>1 DEF Services
  <2>3. /\ answered \in Services(E \cup {n, 0})
        /\ answered.dispatch_active = service.dispatch_active
        /\ ~answered.pending_read /\ ~answered.late_read_reply
        /\ answered.active_request_id = service.active_request_id
        /\ answered.active_operation = service.active_operation
    BY <2>2 DEF Services
  <2> QED BY <2>3 DEF IsService
<1> HIDE DEF o, answered, canonical
<1>5. Owns(answered, dispatcher)
  BY <1>1, <1>4 DEF Owns
<1>6. CASE wv' = wv /\ FailClosed(service, dispatcher, "ProtocolFailure")
  BY <1>1, <1>6, FailClosedInv
<1>7. CASE wv' = o /\ \E e : \/ FailClosed(service, dispatcher, e)
                           \/ FailClosed(answered, dispatcher, e)
  BY <1>1, <1>2, <1>5, <1>7, FailClosedInv
<1>8. CASE /\ wv' = o /\ o.error = NoError /\ service' = answered /\ pc' = "Loop"
           /\ UNCHANGED <<dispatcher, outbox>>
  <2>1. CASE pc = "AwaitReply"
    <3>1. Dispatching(service, wv)
      BY <1>1, <2>1 DEF AtRest
    <3>2. o.state = wv.state /\ o.active_request_id = wv.active_request_id /\ ~o.read_in_flight
      BY <1>2, <1>8, <3>1 DEF Effects, ReadEffects, Keeps, Dispatching
    <3>3. Dispatching(answered, o)
      BY <1>4, <3>1, <3>2 DEF Dispatching
    <3>4. InStep'
      BY <1>8, <3>2, <3>3 DEF InStep, Running, AtRest
    <3> QED BY <1>2, <1>5, <1>8, <3>4 DEF WorkerInv
  <2>2. CASE pc = "Loop" /\ wv.state = "Cancelled"
    <3>1. Stopped(service, wv)
      BY <1>1, <2>2 DEF AtRest, Dispatching, ActiveStates
    <3>2. o.state = "Cancelled" /\ o.late_read_reply_request_id = 0
      BY <1>2, <1>8, <2>2 DEF Effects, ReadEffects
    <3>3. Stopped(answered, o)
      BY <1>4, <3>1, <3>2 DEF Stopped
    <3>4. InStep'
      BY <1>8, <3>3 DEF InStep, Running, AtRest
    <3> QED BY <1>2, <1>5, <1>8, <3>4 DEF WorkerInv
  <2> QED BY <2>1, <2>2
<1> QED BY <1>3, <1>6, <1>7, <1>8

-----------------------------------------------------------------------------
LEMMA BeginOperationInv ==
    ASSUME WorkerInv, NEW begin, begin = None \/ \E size \in StreamSizes : begin = Some(size),
           BeginOperation(begin)
    PROVE  WorkerInv'
<1> DEFINE f == Head(toWorker)
           operation == IF f.h.type = "Enumerate" THEN "Enumerate" ELSE "Stream"
           o == ObserveAtWorker(wv, "ParentToWorker", f)
           n == dispatcher.begun + 1
           m == dispatcher.released + 1
           owned == [dispatcher EXCEPT !.begun = n]
           handed == [owned EXCEPT !.released = m]
           size == The(begin)
           started == [service EXCEPT !.dispatch_active = TRUE, !.active_operation = operation,
                          !.active_request_id = f.h.req, !.stream_size = size,
                          !.remaining_stream_bytes = size, !.enumeration = NewEnumerationBudget,
                          !.next_read_sequence = 1, !.pending_read = FALSE,
                          !.late_read_reply = FALSE]
           canonical == IF operation = "Enumerate" THEN begin = Some(0)
                        ELSE size <= WorkerEntryBytes
<1>1. /\ pc = "Loop" /\ outbox = None /\ toWorker # <<>> /\ toWorker' = Tail(toWorker)
      /\ wv.state \notin ActiveStates
  BY DEF BeginOperation, ReceiveLoop, InDispatch, ActiveStates
<1>2. /\ Sound(wv, WorkerBudgets) /\ Owns(service, dispatcher) /\ AtRest
      /\ f.h \in FrameHeaders /\ Framed(toWorker')
      /\ "ParentToWorker" \in Directions
  BY <1>1, Arriving DEF WorkerInv, InStep, Running, Directions
<1>3. /\ Sound(o, WorkerBudgets)
      /\ o.error = NoError => Effects(wv, "ParentToWorker", f.h, o) /\ ReadEffects(wv, f.h, o)
  BY <1>2, WorkerObserves
<1>4. dispatcher \in Dispatchers /\ n \in Nat /\ m \in Nat
      /\ owned \in Dispatchers /\ owned.begun = n /\ owned.released = dispatcher.released
      /\ handed \in Dispatchers /\ handed.begun = n /\ handed.released = m
  <2>1. dispatcher \in Dispatchers /\ n \in Nat /\ m \in Nat
    BY <1>2 DEF Owns, Dispatchers
  <2> HIDE DEF n, m
  <2> QED BY <2>1 DEF Dispatchers
<1>5. [dispatcher EXCEPT !.begun = @ + 1] = owned
  BY <1>4 DEF Dispatchers
<1>6. [owned EXCEPT !.released = @ + 1] = handed
  <2>1. owned.released + 1 = m
    BY <1>4
  <2> HIDE DEF owned, m
  <2> QED BY <1>4, <2>1 DEF Dispatchers
<1>7. /\ f.h.type \in {"Enumerate", "StreamEntry"} /\ wv' = o
      /\ IF o.error # NoError
         THEN FailClosed(service, dispatcher, "ProtocolFailure")
         ELSE IF begin = None
         THEN FailClosed(service, dispatcher, "DispatchFailure")
         ELSE IF ~canonical
         THEN FailClosed(service, handed, "DispatchFailure")
         ELSE service' = started /\ dispatcher' = owned /\ UNCHANGED <<pc, outbox>>
  BY <1>5, <1>6 DEF BeginOperation
<1>8. /\ IsService(started) /\ started.dispatch_active /\ started.active_request_id = f.h.req
      /\ started.active_operation = operation
      /\ ~started.pending_read /\ ~started.late_read_reply
  <2>1. PICK E : service \in Services(E)
    BY <1>2 DEF Owns, IsService
  <2> DEFINE F == E \cup {size, NewEnumerationBudget, 1}
  <2>2. service \in Services(F) /\ f.h.req \in Nat /\ operation \in {"Enumerate", "Stream"}
    BY <1>2, <2>1 DEF Services, FrameHeaders
  <2>3. size \in F /\ NewEnumerationBudget \in F /\ 1 \in F
    OBVIOUS
  <2> HIDE DEF F, size, operation, f
  <2>4. /\ started \in Services(F) /\ started.dispatch_active
        /\ started.active_request_id = f.h.req /\ started.active_operation = operation
        /\ ~started.pending_read /\ ~started.late_read_reply
    BY <2>2, <2>3 DEF Services
  <2> QED BY <2>4 DEF IsService
<1> HIDE DEF o, n, m, owned, handed, started, canonical, size
<1>9. CASE o.error # NoError \/ begin = None
  BY <1>2, <1>3, <1>7, <1>9, FailClosedInv
<1>10. CASE o.error = NoError /\ begin # None
  <2>1. wv.state = "Idle"
    BY <1>3, <1>7, <1>10 DEF Effects
  <2>2. ~service.dispatch_active /\ IsService(service)
        /\ dispatcher.begun = dispatcher.released
    BY <1>2, <2>1 DEF AtRest, Quiet, Stopped, Dispatching, ActiveStates, Owns
  <2>3. CASE ~canonical
    <3>1. Owns(service, handed)
      BY <1>4, <2>2 DEF Owns, n, m
    <3> QED BY <1>2, <1>3, <1>7, <1>10, <2>3, <3>1, FailClosedInv
  <2>4. CASE canonical
    <3>1. service' = started /\ dispatcher' = owned /\ UNCHANGED <<pc, outbox>>
      BY <1>7, <1>10, <2>4
    <3>2. Owns(started, owned)
      BY <1>4, <1>8, <2>2 DEF Owns, n
    <3>3. /\ o.state = IF f.h.type = "Enumerate" THEN "Enumerating" ELSE "Streaming"
          /\ o.active_request_id = f.h.req /\ ~o.read_in_flight
      BY <1>3, <1>7, <1>10 DEF Effects, ReadEffects
    <3>4. Dispatching(started, o)
      BY <1>7, <1>8, <3>3 DEF Dispatching, ActiveStates
    <3>5. InStep'
      BY <1>1, <1>7, <1>10, <3>1, <3>3, <3>4 DEF InStep, Running, AtRest
    <3> QED BY <1>2, <1>3, <1>7, <3>1, <3>2, <3>5 DEF WorkerInv
  <2> QED BY <2>3, <2>4
<1> QED BY <1>9, <1>10

LEMMA ReceiveCancelInv == ASSUME WorkerInv, ReceiveCancel PROVE WorkerInv'
<1>1. /\ pc \in {"Loop", "AwaitReply"} /\ outbox = None /\ toWorker # <<>>
      /\ Head(toWorker).h.type = "Cancel" /\ toWorker' = Tail(toWorker)
      /\ HandleCancel(Head(toWorker))
  BY DEF ReceiveCancel, ReceiveLoop
<1> QED BY <1>1, Arriving, HandleCancelInv

LEMMA ProbeCancelInv == ASSUME WorkerInv, ProbeCancel PROVE WorkerInv'
<1>1. /\ pc \in {"Loop", "AwaitReply"} /\ outbox = None /\ toWorker # <<>>
      /\ toWorker' = Tail(toWorker)
      /\ IF Head(toWorker).h.type # "Cancel"
         THEN wv' = wv /\ FailClosed(service, dispatcher, "ProtocolFailure")
         ELSE HandleCancel(Head(toWorker))
  BY DEF ProbeCancel, ActiveLoop
<1>2. CASE Head(toWorker).h.type # "Cancel"
  <2>1. Owns(service, dispatcher) /\ Sound(wv, WorkerBudgets)'
    BY <1>1, <1>2 DEF WorkerInv
  <2> QED BY <1>1, <1>2, <2>1, Arriving, FailClosedInv
<1>3. CASE Head(toWorker).h.type = "Cancel"
  BY <1>1, <1>3, Arriving, HandleCancelInv
<1> QED BY <1>2, <1>3

LEMMA ReceiveLateReplyInv == ASSUME WorkerInv, ReceiveLateReply PROVE WorkerInv'
<1>1. /\ pc = "Loop" /\ outbox = None /\ toWorker # <<>>
      /\ Head(toWorker).h.type = "ReadReply" /\ toWorker' = Tail(toWorker)
      /\ IF wv.state # "Cancelled" \/ ~service.late_read_reply
         THEN wv' = wv /\ FailClosed(service, dispatcher, "ProtocolFailure")
         ELSE AcceptReply(Head(toWorker), TRUE, TRUE)
  BY DEF ReceiveLateReply, ReceiveLoop
<1>2. CASE wv.state # "Cancelled" \/ ~service.late_read_reply
  <2>1. Owns(service, dispatcher) /\ Sound(wv, WorkerBudgets)'
    BY <1>1, <1>2 DEF WorkerInv
  <2> QED BY <1>1, <1>2, <2>1, Arriving, FailClosedInv
<1>3. CASE ~(wv.state # "Cancelled" \/ ~service.late_read_reply)
  BY <1>1, <1>3, Arriving, AcceptReplyInv
<1> QED BY <1>2, <1>3

LEMMA AwaitReplyOrCancelInv ==
    ASSUME WorkerInv, NEW ok \in BOOLEAN, AwaitReplyOrCancel(ok) PROVE WorkerInv'
<1> DEFINE f == Head(toWorker)
<1>1. /\ pc = "AwaitReply" /\ outbox = None /\ toWorker # <<>> /\ toWorker' = Tail(toWorker)
      /\ CASE f.h.type = "Cancel" -> HandleCancel(f)
           [] f.h.type = "ReadReply" -> AcceptReply(f, FALSE, ok)
           [] OTHER -> wv' = wv /\ FailClosed(service, dispatcher, "ProtocolFailure")
  BY DEF AwaitReplyOrCancel
<1>2. f.h \in FrameHeaders /\ Framed(toWorker')
  BY <1>1, Arriving
<1> HIDE DEF f
<1>3. CASE f.h.type = "Cancel"
  BY <1>1, <1>2, <1>3, HandleCancelInv
<1>4. CASE f.h.type = "ReadReply"
  BY <1>1, <1>2, <1>4, AcceptReplyInv
<1>5. CASE f.h.type \notin {"Cancel", "ReadReply"}
  <2>1. wv' = wv /\ FailClosed(service, dispatcher, "ProtocolFailure")
    BY <1>1, <1>5
  <2>2. Owns(service, dispatcher) /\ Sound(wv, WorkerBudgets)'
    BY <2>1 DEF WorkerInv
  <2> QED BY <1>2, <2>1, <2>2, FailClosedInv
<1> QED BY <1>3, <1>4, <1>5

LEMMA HandleShutdownInv == ASSUME WorkerInv, HandleShutdown PROVE WorkerInv'
<1> DEFINE f == Head(toWorker)
           o == ObserveAtWorker(wv, "ParentToWorker", f)
           closed == [service EXCEPT !.pending_read = FALSE, !.late_read_reply = FALSE]
<1>1. /\ pc = "Loop" /\ outbox = None /\ toWorker # <<>> /\ toWorker' = Tail(toWorker)
      /\ f.h.type = "Shutdown" /\ wv' = o
      /\ IF o.error # NoError
         THEN FailClosed(service, dispatcher, "ProtocolFailure")
         ELSE service' = closed /\ pc' = "Done" /\ dispatcher' = dispatcher
  BY DEF HandleShutdown, ReceiveLoop
<1>2. /\ Sound(wv, WorkerBudgets) /\ Owns(service, dispatcher) /\ AtRest
      /\ f.h \in FrameHeaders /\ Framed(toWorker')
      /\ "ParentToWorker" \in Directions
  BY <1>1, Arriving DEF WorkerInv, InStep, Running, Directions
<1>3. /\ Sound(o, WorkerBudgets)
      /\ o.error = NoError => Effects(wv, "ParentToWorker", f.h, o)
  BY <1>2, WorkerObserves
<1>4. IsService(closed) /\ closed.dispatch_active = service.dispatch_active
  <2>1. PICK E : service \in Services(E)
    BY <1>2 DEF Owns, IsService
  <2>2. closed \in Services(E) /\ closed.dispatch_active = service.dispatch_active
    BY <2>1 DEF Services
  <2> QED BY <2>2 DEF IsService
<1> HIDE DEF o, closed
<1>5. CASE o.error # NoError
  BY <1>1, <1>2, <1>3, <1>5, FailClosedInv
<1>6. CASE o.error = NoError
  <2>1. wv.state \in {"Idle", "Cancelled"}
    BY <1>1, <1>3, <1>6 DEF Effects
  <2>2. ~service.dispatch_active
    BY <1>2, <2>1 DEF AtRest, Quiet, Stopped, Dispatching, ActiveStates
  <2>3. Owns(closed, dispatcher)
    BY <1>2, <1>4 DEF Owns
  <2>4. InStep'
    BY <1>1, <1>4, <1>6, <2>2 DEF InStep, Running
  <2> QED BY <1>1, <1>2, <1>3, <1>6, <2>3, <2>4 DEF WorkerInv
<1> QED BY <1>5, <1>6

(* The steps that do nothing but fail: an unexpected frame, a spent dispatch *)
(* budget, a broken pipe.                                                    *)
LEMMA PlainFailuresInv ==
    ASSUME WorkerInv,
           ReceiveUnexpectedAtWorker \/ DispatchBudgetExceeded \/ WorkerIoFails
    PROVE  WorkerInv'
<1>1. /\ wv' = wv /\ \E e : FailClosed(service, dispatcher, e)
      /\ toWorker' = toWorker \/ (toWorker # <<>> /\ toWorker' = Tail(toWorker))
  BY DEF ReceiveUnexpectedAtWorker, ReceiveLoop, DispatchBudgetExceeded, WorkerIoFails
<1>2. Framed(toWorker')
  BY <1>1, Arriving DEF WorkerInv
<1>3. Owns(service, dispatcher) /\ Sound(wv, WorkerBudgets)'
  BY <1>1 DEF WorkerInv
<1> QED BY <1>1, <1>2, <1>3, FailClosedInv

-----------------------------------------------------------------------------
(* A service that counted a dispatch step is the same to the validator. *)
LEMMA SteppedIs ==
    ASSUME WorkerInv
    PROVE  /\ IsService(Stepped) /\ Owns(Stepped, dispatcher)
           /\ Stepped.dispatch_active = service.dispatch_active
           /\ Stepped.pending_read = service.pending_read
           /\ Stepped.late_read_reply = service.late_read_reply
           /\ Stepped.active_request_id = service.active_request_id
           /\ Stepped.active_operation = service.active_operation
<1> DEFINE n == service.dispatch_steps + 1
           t == [service EXCEPT !.dispatch_steps = n]
<1>1. Owns(service, dispatcher) /\ IsService(service)
  BY DEF WorkerInv, Owns
<1>2. Stepped = t
  BY DEF Stepped
<1> HIDE DEF n
<1>3. /\ IsService(t) /\ t.dispatch_active = service.dispatch_active
      /\ t.pending_read = service.pending_read /\ t.late_read_reply = service.late_read_reply
      /\ t.active_request_id = service.active_request_id
      /\ t.active_operation = service.active_operation
  BY <1>1, ServiceFields
<1> HIDE DEF t
<1> QED BY <1>1, <1>2, <1>3 DEF Owns

(* A dispatch step puts its frame in the outbox, or the lifetime is over. *)
LEMMA DispatchStepHolds ==
    ASSUME WorkerInv, NEW canonical, NEW f, NEW s,
           f.h \in FrameHeaders, Owns(s, dispatcher), DispatchStep(canonical, f, s)
    PROVE  \/ WorkerInv' /\ pc' = "Failed"
           \/ /\ canonical /\ pc = "Loop" /\ Dispatching(service, wv) /\ ~wv.read_in_flight
              /\ outbox' = Some(f) /\ service' = s /\ dispatcher' = dispatcher /\ pc' = pc
              /\ Sound(wv, WorkerBudgets)' /\ wv'.error = NoError
              /\ Effects(wv, "WorkerToParent", f.h, wv') /\ ReadEffects(wv, f.h, wv')
              /\ Framed(toWorker')
<1>1. /\ pc = "Loop" /\ outbox = None /\ wv.state \in ActiveStates /\ toWorker' = toWorker
      /\ IF canonical THEN StartWrite(wv, s, dispatcher, f)
         ELSE wv' = wv /\ FailClosed(Stepped, dispatcher, "DispatchFailure")
  BY DEF DispatchStep, MayDispatch, ActiveLoop, InDispatch, ActiveStates
<1>2. Sound(wv, WorkerBudgets) /\ AtRest /\ Framed(toWorker')
  BY <1>1 DEF WorkerInv, InStep, Running
<1>3. Dispatching(service, wv) /\ ~wv.read_in_flight
  BY <1>1, <1>2 DEF AtRest, Stopped, ActiveStates
<1>4. CASE ~canonical
  <2>1. Sound(wv, WorkerBudgets)'
    BY <1>1, <1>2, <1>4
  <2> QED BY <1>1, <1>2, <1>4, <2>1, SteppedIs, FailClosedInv
<1>5. CASE canonical
  <2>1. StartWrite(wv, s, dispatcher, f)
    BY <1>1, <1>5
  <2>2. \/ WorkerInv' /\ pc' = "Failed"
        \/ /\ outbox' = Some(f) /\ service' = s /\ dispatcher' = dispatcher /\ pc' = pc
           /\ Sound(wv, WorkerBudgets)' /\ wv'.error = NoError
           /\ Effects(wv, "WorkerToParent", f.h, wv') /\ ReadEffects(wv, f.h, wv')
    BY <1>2, <2>1, StartWriteHolds
  <2> QED BY <1>1, <1>2, <1>3, <1>5, <2>2
<1> QED BY <1>4, <1>5

LEMMA StepNeedReadInv == ASSUME WorkerInv, StepNeedRead(1) PROVE WorkerInv'
<1> DEFINE next == service.next_read_sequence
           canonical == ~service.pending_read /\ next # 0 /\ FitsFrame(1 + 1)
           f == Frame("ReadRequest", service.active_request_id, <<next, 1>>)
           s == [Stepped EXCEPT !.pending_read = TRUE, !.pending_read_sequence = next,
                                !.pending_read_length = 1]
<1>1. DispatchStep(canonical, f, s)
  BY DEF StepNeedRead
<1>2. service.active_request_id \in Nat
  BY DEF WorkerInv, Owns, IsService, Services
<1>3. f.h \in FrameHeaders /\ f.h.type = "ReadRequest"
  BY <1>2, WrittenHeader
<1>4. /\ IsService(s) /\ s.dispatch_active = service.dispatch_active /\ s.pending_read
      /\ s.late_read_reply = service.late_read_reply
      /\ s.active_request_id = service.active_request_id
      /\ s.active_operation = service.active_operation
  <2>1. PICK E : Stepped \in Services(E)
    BY SteppedIs DEF IsService
  <2> HIDE DEF next
  <2>2. Stepped \in Services(E \cup {next, 1})
    BY <2>1 DEF Services
  <2>3. /\ s \in Services(E \cup {next, 1}) /\ s.dispatch_active = Stepped.dispatch_active
        /\ s.pending_read /\ s.late_read_reply = Stepped.late_read_reply
        /\ s.active_request_id = Stepped.active_request_id
        /\ s.active_operation = Stepped.active_operation
    BY <2>2 DEF Services
  <2> HIDE DEF s
  <2> QED BY <2>3, SteppedIs DEF IsService
<1> HIDE DEF canonical, f, s
<1>5. Owns(s, dispatcher)
  BY <1>4 DEF WorkerInv, Owns
<1>6. SUFFICES ASSUME
             /\ pc = "Loop" /\ Dispatching(service, wv) /\ ~wv.read_in_flight
             /\ outbox' = Some(f) /\ service' = s /\ dispatcher' = dispatcher /\ pc' = pc
             /\ Sound(wv, WorkerBudgets)' /\ wv'.error = NoError
             /\ Effects(wv, "WorkerToParent", f.h, wv') /\ ReadEffects(wv, f.h, wv')
             /\ Framed(toWorker')
      PROVE  WorkerInv'
  BY <1>1, <1>3, <1>5, DispatchStepHolds
<1>7. wv'.state = wv.state /\ wv'.active_request_id = wv.active_request_id
      /\ wv'.read_in_flight
  BY <1>3, <1>6 DEF Effects, ReadEffects, Keeps, Dispatching
<1>8. Dispatching(service, wv)'
  BY <1>4, <1>6, <1>7 DEF Dispatching
<1>9. outbox' # None /\ The(outbox').h.type = "ReadRequest"
  BY <1>3, <1>6, Optional
<1>10. InStep'
  BY <1>6, <1>7, <1>8, <1>9 DEF InStep, Running, Writing
<1> QED BY <1>5, <1>6, <1>10 DEF WorkerInv

(* A batch and a chunk: what they report is not the service's to decide. *)
LEMMA ReportStepInv ==
    ASSUME WorkerInv, NEW canonical, NEW type \in {"EntryBatch", "DataChunk"}, NEW body,
           Len(body) \in Nat,
           DispatchStep(canonical, Frame(type, service.active_request_id, body), Stepped)
    PROVE  WorkerInv'
<1> DEFINE f == Frame(type, service.active_request_id, body)
<1>1. service.active_request_id \in Nat
  BY DEF WorkerInv, Owns, IsService, Services
<1>2. f.h \in FrameHeaders /\ f.h.type = type
  BY <1>1, WrittenResult
<1> HIDE DEF f
<1>3. DispatchStep(canonical, f, Stepped)
  BY DEF f
<1>4. SUFFICES ASSUME
             /\ pc = "Loop" /\ Dispatching(service, wv)
             /\ outbox' = Some(f) /\ service' = Stepped /\ dispatcher' = dispatcher /\ pc' = pc
             /\ Sound(wv, WorkerBudgets)' /\ wv'.error = NoError
             /\ Effects(wv, "WorkerToParent", f.h, wv') /\ ReadEffects(wv, f.h, wv')
             /\ Framed(toWorker')
      PROVE  WorkerInv'
  BY <1>2, <1>3, SteppedIs, DispatchStepHolds
<1>5. wv'.state = wv.state /\ wv'.active_request_id = wv.active_request_id
      /\ ~wv.read_in_flight /\ ~wv'.read_in_flight
  BY <1>2, <1>4 DEF Effects, ReadEffects, Keeps
<1>6. Dispatching(service, wv)'
  BY <1>4, <1>5, SteppedIs DEF Dispatching
<1>7. outbox' # None /\ The(outbox').h.type = type
  BY <1>2, <1>4, Optional
<1>8. InStep'
  BY <1>4, <1>5, <1>6, <1>7 DEF InStep, Running, Writing
<1> QED BY <1>4, <1>8, SteppedIs DEF WorkerInv

LEMMA StepEntryBatchInv ==
    ASSUME WorkerInv, NEW entries \in Batches, StepEntryBatch(entries) PROVE WorkerInv'
<1>1. Len(entries) \in Nat
  BY BatchesAssumption, LenProperties
<1> QED BY <1>1, ReportStepInv DEF StepEntryBatch

LEMMA StepDataChunkInv == ASSUME WorkerInv, NEW n \in ChunkSizes, StepDataChunk(n) PROVE WorkerInv'
<1> DEFINE g(i) == service.stream_size - service.remaining_stream_bytes + i
           body == [i \in 1..n |-> g(i)]
           canonical == /\ service.active_operation = "Stream"
                        /\ n <= service.remaining_stream_bytes
                        /\ FitsFrame(n)
<1>1. DispatchStep(canonical, Frame("DataChunk", service.active_request_id, body), Stepped)
  BY DEF StepDataChunk
<1>2. n \in Nat
  BY WorkerLimitsAssumption
<1>3. Len(body) \in Nat
  <2>1. body \in Seq({g(i) : i \in 1..n})
    <3> HIDE DEF g
    <3> QED BY <1>2, IsASeq
  <2> QED BY <2>1, LenProperties
<1> HIDE DEF canonical, body
<1> QED BY <1>1, <1>3, ReportStepInv

(* The two steps that put a completion on the wire, one of them only to be  *)
(* refused.                                                                 *)
LEMMA CompletionStepInv ==
    ASSUME WorkerInv, NEW canonical, NEW req \in Nat,
           DispatchStep(canonical, Frame("Complete", req, <<>>), Stepped)
    PROVE  WorkerInv'
<1> DEFINE f == Frame("Complete", req, <<>>)
<1>1. f.h \in FrameHeaders /\ f.h.type = "Complete"
  BY WrittenHeader
<1> HIDE DEF f
<1>2. DispatchStep(canonical, f, Stepped)
  BY DEF f
<1>3. SUFFICES ASSUME
             /\ pc = "Loop" /\ Dispatching(service, wv) /\ ~wv.read_in_flight
             /\ outbox' = Some(f) /\ service' = Stepped /\ dispatcher' = dispatcher /\ pc' = pc
             /\ Sound(wv, WorkerBudgets)' /\ wv'.error = NoError
             /\ Effects(wv, "WorkerToParent", f.h, wv')
             /\ Framed(toWorker')
      PROVE  WorkerInv'
  BY <1>1, <1>2, SteppedIs, DispatchStepHolds
<1>4. wv'.state = "Idle"
  BY <1>1, <1>3 DEF Effects
<1>5. service'.dispatch_active /\ ~service'.pending_read /\ ~service'.late_read_reply
  BY <1>3, SteppedIs DEF Dispatching
<1>6. outbox' # None /\ The(outbox').h.type = "Complete"
  BY <1>1, <1>3, Optional
<1>7. InStep'
  BY <1>3, <1>4, <1>5, <1>6 DEF InStep, Running, Writing
<1> QED BY <1>3, <1>7, SteppedIs DEF WorkerInv

LEMMA CompletingInv == ASSUME WorkerInv, StepComplete \/ StepFails PROVE WorkerInv'
<1>1. service.active_request_id \in Nat /\ 0 \in Nat
  BY DEF WorkerInv, Owns, IsService, Services
<1> QED BY <1>1, CompletionStepInv DEF StepComplete, StepFails

-----------------------------------------------------------------------------
(* A write that finishes commits what it announced. *)
LEMMA FinishWriteInv == ASSUME WorkerInv, FinishWrite PROVE WorkerInv'
<1> DEFINE f == The(outbox)
<1>1. /\ outbox # None /\ Running /\ outbox' = None
      /\ wv' = wv /\ toWorker' = toWorker
  BY DEF FinishWrite
<1>2. /\ Framed(toWorker') /\ Sound(wv, WorkerBudgets)'
      /\ wv'.error = NoError
      /\ Owns(service, dispatcher) /\ Writing(f.h.type) /\ IsService(service)
  BY <1>1 DEF WorkerInv, InStep, Owns
<1>3. f.h.type \in {"Ready", "ReadRequest", "EntryBatch", "DataChunk", "Complete", "CancelAck"}
  BY <1>2 DEF Writing
<1>4. CASE f.h.type = "Ready"
  <2>1. pc' = "Loop" /\ service' = service /\ dispatcher' = dispatcher
    BY <1>4 DEF FinishWrite
  <2>2. wv.state = "Idle" /\ Quiet(service)
    BY <1>2, <1>4 DEF Writing
  <2>3. InStep'
    BY <1>1, <1>2, <2>1, <2>2 DEF InStep, Running, AtRest
  <2> QED BY <1>2, <2>1, <2>3 DEF WorkerInv
<1>5. CASE f.h.type = "ReadRequest"
  <2>1. pc' = "AwaitReply" /\ service' = service /\ dispatcher' = dispatcher
    BY <1>5 DEF FinishWrite
  <2>2. Dispatching(service, wv) /\ wv.read_in_flight
    BY <1>2, <1>5 DEF Writing
  <2>3. InStep'
    BY <1>1, <1>2, <2>1, <2>2 DEF InStep, Running, AtRest
  <2> QED BY <1>2, <2>1, <2>3 DEF WorkerInv
<1>6. CASE f.h.type \in {"EntryBatch", "DataChunk"}
  <2> DEFINE x == Spend(service.enumeration, f.body)
             y == service.remaining_stream_bytes - Len(f.body)
  <2>1. /\ pc' = pc /\ dispatcher' = dispatcher
        /\ \/ service' = [service EXCEPT !.enumeration = x]
           \/ service' = [service EXCEPT !.remaining_stream_bytes = y]
    BY <1>6 DEF FinishWrite
  <2> HIDE DEF x, y
  <2>2. /\ IsService(service') /\ service'.dispatch_active = service.dispatch_active
        /\ service'.pending_read = service.pending_read
        /\ service'.late_read_reply = service.late_read_reply
        /\ service'.active_request_id = service.active_request_id
        /\ service'.active_operation = service.active_operation
    <3>1. CASE service' = [service EXCEPT !.enumeration = x]
      BY <1>2, <3>1, ServiceFields
    <3>2. CASE service' = [service EXCEPT !.remaining_stream_bytes = y]
      BY <1>2, <3>2, ServiceFields
    <3> QED BY <2>1, <3>1, <3>2
  <2>3. pc = "Loop" /\ Dispatching(service, wv) /\ ~wv.read_in_flight
    BY <1>2, <1>6 DEF Writing
  <2>4. Dispatching(service, wv)'
    BY <1>1, <2>2, <2>3 DEF Dispatching
  <2>5. InStep'
    BY <1>1, <1>2, <2>1, <2>3, <2>4 DEF InStep, Running, AtRest
  <2>6. Owns(service, dispatcher)'
    BY <1>2, <2>1, <2>2 DEF Owns
  <2> QED BY <1>2, <2>5, <2>6 DEF WorkerInv
<1>7. CASE f.h.type = "Complete"
  <2> DEFINE n == dispatcher.released + 1
             released == [dispatcher EXCEPT !.released = n]
             ended == [service EXCEPT !.dispatch_active = FALSE, !.active_request_id = 0]
  <2>1. pc' = pc /\ service' = ended /\ dispatcher' = released
    BY <1>7 DEF FinishWrite
  <2>2. /\ pc = "Loop" /\ wv.state = "Idle" /\ service.dispatch_active
        /\ ~service.pending_read /\ ~service.late_read_reply
    BY <1>2, <1>7 DEF Writing
  <2>3. IsService(ended) /\ Quiet(ended)
    <3>1. PICK E : service \in Services(E)
      BY <1>2 DEF IsService
    <3>2. ended \in Services(E) /\ Quiet(ended)
      BY <2>2, <3>1 DEF Services, Quiet
    <3> QED BY <3>2 DEF IsService
  <2>4. released \in Dispatchers /\ released.begun = released.released
    <3>1. dispatcher \in Dispatchers /\ n \in Nat /\ dispatcher.begun = n
      BY <1>2, <2>2 DEF Owns, Dispatchers
    <3> HIDE DEF n
    <3> QED BY <3>1 DEF Dispatchers
  <2> HIDE DEF ended, released
  <2>5. Owns(service, dispatcher)'
    BY <2>1, <2>3, <2>4 DEF Owns, Quiet
  <2>6. InStep'
    BY <1>1, <1>2, <2>1, <2>2, <2>3 DEF InStep, Running, AtRest
  <2> QED BY <1>2, <2>5, <2>6 DEF WorkerInv
<1>8. CASE f.h.type = "CancelAck"
  <2> DEFINE ended == [service EXCEPT !.active_request_id = 0]
  <2>1. pc' = "Loop" /\ service' = ended /\ dispatcher' = dispatcher
    BY <1>8 DEF FinishWrite
  <2>2. Stopped(service, wv)
    BY <1>2, <1>8 DEF Writing
  <2>3. /\ IsService(ended) /\ ended.dispatch_active = service.dispatch_active
        /\ ended.pending_read = service.pending_read
        /\ ended.late_read_reply = service.late_read_reply
    <3>1. PICK E : service \in Services(E)
      BY <1>2 DEF IsService
    <3>2. /\ ended \in Services(E) /\ ended.dispatch_active = service.dispatch_active
          /\ ended.pending_read = service.pending_read
          /\ ended.late_read_reply = service.late_read_reply
      BY <3>1 DEF Services
    <3> QED BY <3>2 DEF IsService
  <2> HIDE DEF ended
  <2>4. Stopped(service, wv)'
    BY <1>1, <2>1, <2>2, <2>3 DEF Stopped
  <2>5. InStep'
    BY <1>1, <1>2, <2>1, <2>4 DEF InStep, Running, AtRest
  <2>6. Owns(service, dispatcher)'
    BY <1>2, <2>1, <2>3 DEF Owns
  <2> QED BY <1>2, <2>5, <2>6 DEF WorkerInv
<1> QED BY <1>3, <1>4, <1>5, <1>6, <1>7, <1>8

(* Nothing a parent does reaches the service's own state. *)
LEMMA ParentKeepsWorker ==
    ASSUME WorkerInv, UNCHANGED workerVars, Framed(toWorker')
    PROVE  WorkerInv'
<1>1. /\ wv' = wv /\ service' = service /\ pc' = pc /\ outbox' = outbox
      /\ dispatcher' = dispatcher
  BY DEF workerVars
<1>2. InStep'
  BY <1>1 DEF WorkerInv, InStep, Running, AtRest, Writing, Quiet, Stopped, Dispatching
<1> QED BY <1>1, <1>2 DEF WorkerInv

LEMMA WorkerNextInv == ASSUME WorkerInv, WorkerNext PROVE WorkerInv'
<1>1. CASE WorkerReceive
  <2>1. ASSUME NEW size \in StreamSizes, BeginOperation(Some(size)) PROVE WorkerInv'
    BY <2>1, BeginOperationInv
  <2>2. ASSUME BeginOperation(None) PROVE WorkerInv'
    BY <2>2, BeginOperationInv
  <2>3. ASSUME NEW ok \in BOOLEAN, AwaitReplyOrCancel(ok) PROVE WorkerInv'
    BY <2>3, AwaitReplyOrCancelInv
  <2> QED BY <1>1, <2>1, <2>2, <2>3, ReceiveHelloInv, ReceiveCancelInv, ReceiveLateReplyInv,
             HandleShutdownInv, PlainFailuresInv, ProbeCancelInv DEF WorkerReceive
<1>2. CASE WorkerDispatch
  <2>1. ASSUME NEW entries \in Batches, StepEntryBatch(entries) PROVE WorkerInv'
    BY <2>1, StepEntryBatchInv
  <2>2. ASSUME NEW n \in ChunkSizes, StepDataChunk(n) PROVE WorkerInv'
    BY <2>2, StepDataChunkInv
  <2> QED BY <1>2, <2>1, <2>2, StepNeedReadInv, CompletingInv, PlainFailuresInv
          DEF WorkerDispatch
<1>3. CASE FinishWrite \/ WorkerIoFails
  BY <1>3, FinishWriteInv, PlainFailuresInv
<1> QED BY <1>1, <1>2, <1>3 DEF WorkerNext

LEMMA AnyParentStep == ASSUME WorkerInv, [AnyParentNext]_anyParentVars PROVE WorkerInv'
<1>1. ASSUME NEW f \in ParentFrames, ParentWrites(f) PROVE WorkerInv'
  <2>1. UNCHANGED workerVars /\ toWorker' = Append(toWorker, f)
    BY <1>1 DEF ParentWrites
  <2>2. Framed(toWorker')
    BY <1>1, <2>1, ParentFramesAssumption, Framing DEF WorkerInv
  <2> QED BY <2>1, <2>2, ParentKeepsWorker
<1>2. CASE ParentReads \/ ParentAborts \/ UNCHANGED anyParentVars
  <2>1. UNCHANGED workerVars /\ toWorker' = toWorker
    BY <1>2 DEF ParentReads, ParentAborts, anyParentVars, transportVars
  <2> QED BY <2>1, ParentKeepsWorker DEF WorkerInv
<1> QED BY <1>1, <1>2, WorkerNextInv DEF AnyParentNext

-----------------------------------------------------------------------------
(* The obligation every Dispatcher puts on its caller (begin answered by one *)
(* end or cancel), kept by run_parser_worker_service against every parent:   *)
(* whatever frames arrive in whatever order, whatever the dispatcher reports *)
(* and wherever the pipe breaks, a request begun on it is released exactly   *)
(* once, and nothing is still held when the lifetime is over.                *)
THEOREM DispatcherIsReleasedOnce == AnyParentSpec => []DispatcherReleasedOnce
<1>1. WorkerInv => DispatcherReleasedOnce
  <2> SUFFICES ASSUME WorkerInv PROVE DispatcherReleasedOnce
    OBVIOUS
  <2>1. /\ Owns(service, dispatcher) /\ dispatcher.begun \in Nat /\ dispatcher.released \in Nat
        /\ service.dispatch_active \in BOOLEAN
    BY DEF WorkerInv, Owns, Dispatchers, IsService, Services
  <2>2. pc \in {"Done", "Failed"} => ~service.dispatch_active
    BY DEF WorkerInv, InStep, Running
  <2>3. CASE service.dispatch_active
    <3>1. dispatcher.begun = dispatcher.released + 1
      BY <2>1, <2>3 DEF Owns
    <3>2. dispatcher.released = dispatcher.begun - 1 /\ dispatcher.released # dispatcher.begun
      BY <2>1, <3>1
    <3> QED BY <2>2, <2>3, <3>2 DEF DispatcherReleasedOnce
  <2>4. CASE ~service.dispatch_active
    <3>1. dispatcher.begun = dispatcher.released
      BY <2>1, <2>4 DEF Owns
    <3> QED BY <2>4, <3>1 DEF DispatcherReleasedOnce
  <2> QED BY <2>3, <2>4
<1> QED BY <1>1, WorkerInitInv, AnyParentStep, PTL DEF AnyParentSpec

(* Between two frames the fields of struct Service say what the session      *)
(* validator says: which request the dispatcher works on, whether a read is  *)
(* outstanding and whether a late reply is still to be drained, so that the  *)
(* receive loop never takes a frame for another request's.                   *)
THEOREM ServiceStaysInStep == AnyParentSpec => []ServiceInStep
<1>1. WorkerInv => ServiceInStep
  <2> SUFFICES ASSUME WorkerInv, Running, outbox = None PROVE ServiceInStep
    BY DEF ServiceInStep
  <2>1. AtRest /\ Consistent(wv) /\ LateWindowOf(wv) /\ wv.error = NoError
        /\ wv.read_in_flight \in BOOLEAN
    BY DEF WorkerInv, InStep, Sound, Validators
  <2>2. CASE wv.state \in ActiveStates
    <3>1. /\ Dispatching(service, wv) /\ InDispatch
          /\ pc = "AwaitReply" <=> wv.read_in_flight
      BY <2>1, <2>2 DEF AtRest, Stopped, ActiveStates, InDispatch
    <3>2. wv.late_read_reply_request_id = 0
      BY <2>1, <2>2 DEF LateWindowOf, ActiveStates
    <3> QED BY <3>1, <3>2 DEF ServiceInStep, Dispatching
  <2>3. CASE wv.state \notin ActiveStates
    <3>1. /\ ~service.dispatch_active /\ ~InDispatch /\ pc # "AwaitReply"
          /\ wv.state \in {"AwaitingHello", "Idle", "Cancelled"}
      BY <2>1, <2>3 DEF AtRest, Stopped, Dispatching, Quiet, ActiveStates, InDispatch
    <3>2. ~wv.read_in_flight
      BY <2>1, <3>1 DEF Consistent, RequestStates
    <3>3. service.late_read_reply <=> wv.late_read_reply_request_id # 0
      BY <2>1, <2>3, <3>1 DEF AtRest, Stopped, Dispatching, Quiet, LateWindowOf
    <3> QED BY <3>1, <3>2, <3>3 DEF ServiceInStep, InDispatch
  <2> QED BY <2>2, <2>3
<1> QED BY <1>1, WorkerInitInv, AnyParentStep, PTL DEF AnyParentSpec

-----------------------------------------------------------------------------
(* PART 2: one lifetime of the two ends.                                     *)

(* First what a step of the service means to the history of its requests,    *)
(* whoever the parent is.                                                    *)
Terminals == {"Complete", "CancelAck"}

Numbers(s) ==
    /\ s.stream_size \in Nat /\ s.remaining_stream_bytes \in Int
    /\ s.remaining_stream_bytes <= s.stream_size
    /\ s.next_read_sequence \in Nat /\ s.pending_read_sequence \in Nat

\* How much of the open stream is on the wire.
Sofar == service.stream_size - service.remaining_stream_bytes

(* The frame in the outbox belongs to the newest request, and a chunk goes   *)
(* on where the stream stands.                                               *)
Addressed(f) ==
    /\ IsWire(f)
    /\ f.h.type # "Ready" => f.h.req = wv.last_request_id
    /\ f.h.type = "DataChunk" => \A k \in 1..Len(f.body) : f.body[k] = Sofar + k

Begun ==
    /\ InDispatch' /\ outbox' = None /\ Numbers(service')
    /\ service'.remaining_stream_bytes = service'.stream_size
    /\ toWorker # <<>> /\ wv'.last_request_id = Head(toWorker).h.req
    /\ wv'.last_request_id > wv.last_request_id

Continued ==
    /\ wv'.last_request_id = wv.last_request_id
    /\ InDispatch' => InDispatch
    /\ Numbers(service')
    /\ service'.stream_size = service.stream_size
    /\ service'.remaining_stream_bytes = service.remaining_stream_bytes
    /\ \/ outbox' = None
       \/ \E f : /\ outbox' = Some(f) /\ Addressed(f)
                 /\ f.h.type # "Ready" => InDispatch

Moved == ~Running' \/ Begun \/ Continued

LEMMA FailedMoves == ASSUME pc' = "Failed" PROVE Moved
BY DEF Moved, Running

\* The open request of a live validator is the newest.
LEMMA NewestIsOpen ==
    ASSUME WorkerInv, Running, InDispatch
    PROVE  wv.active_request_id = wv.last_request_id /\ wv.last_request_id \in Nat
BY DEF WorkerInv, InStep, Sound, Consistent, InDispatch, RequestStates, Validators

LEMMA HelloMoves == ASSUME WorkerInv, Numbers(service), ReceiveHello PROVE Moved
<1> DEFINE f == Head(toWorker)
           o == ObserveAtWorker(wv, "ParentToWorker", f)
           ready == Frame("Ready", 0, <<>>)
<1>1. /\ pc = "Handshake" /\ outbox = None /\ toWorker # <<>> /\ toWorker' = Tail(toWorker)
      /\ IF f.h.type # "Hello" \/ o.error # NoError
         THEN wv' = o /\ FailClosed(service, dispatcher, "ProtocolFailure")
         ELSE StartWrite(o, service, dispatcher, ready)
  BY DEF ReceiveHello
<1>2. f.h \in FrameHeaders /\ Framed(toWorker') /\ "ParentToWorker" \in Directions
  BY <1>1, Arriving DEF Directions
<1>3. Sound(wv, WorkerBudgets) /\ Owns(service, dispatcher)
  BY DEF WorkerInv
<1>4. /\ Sound(o, WorkerBudgets)
      /\ o.error = NoError => Effects(wv, "ParentToWorker", f.h, o)
  BY <1>2, <1>3, WorkerObserves
<1>5. ready.h \in FrameHeaders /\ ready.h.type = "Ready"
  BY WrittenHeader
<1> HIDE DEF o, ready
<1>6. CASE f.h.type # "Hello" \/ o.error # NoError
  BY <1>1, <1>2, <1>3, <1>4, <1>6, FailClosedInv, FailedMoves
<1>7. CASE f.h.type = "Hello" /\ o.error = NoError
  <2>1. \/ pc' = "Failed"
        \/ /\ outbox' = Some(ready) /\ service' = service
           /\ Effects(o, "WorkerToParent", ready.h, wv')
    BY <1>1, <1>2, <1>3, <1>4, <1>5, <1>7, StartWriteHolds
  <2> SUFFICES ASSUME outbox' = Some(ready), service' = service,
                      Effects(o, "WorkerToParent", ready.h, wv')
               PROVE  Continued
    BY <2>1, FailedMoves DEF Moved
  <2>2. wv'.state = "Idle" /\ wv'.last_request_id = wv.last_request_id
    BY <1>4, <1>5, <1>7 DEF Effects, Keeps
  <2>3. Addressed(ready)
    BY <1>5 DEF Addressed, IsWire
  <2> QED BY <1>5, <2>2, <2>3 DEF Continued, InDispatch
<1> QED BY <1>6, <1>7

LEMMA CancelMoves ==
    ASSUME WorkerInv, Numbers(service), NEW f, f.h \in FrameHeaders, f.h.type = "Cancel",
           pc \in {"Loop", "AwaitReply"}, outbox = None, Framed(toWorker'), HandleCancel(f)
    PROVE  Moved
<1> DEFINE o == ObserveAtWorker(wv, "ParentToWorker", f)
           stopped == [service EXCEPT !.dispatch_active = FALSE,
                                      !.late_read_reply = service.pending_read]
           n == dispatcher.released + 1
           released == [dispatcher EXCEPT !.released = n]
           ack == Frame("CancelAck", f.h.req, <<>>)
<1>1. Sound(wv, WorkerBudgets) /\ Owns(service, dispatcher) /\ "ParentToWorker" \in Directions
  BY DEF WorkerInv, Directions
<1>2. /\ Sound(o, WorkerBudgets)
      /\ o.error = NoError => Effects(wv, "ParentToWorker", f.h, o)
  BY <1>1, WorkerObserves
<1>3. released = [dispatcher EXCEPT !.released = @ + 1]
  BY <1>1 DEF Owns, Dispatchers
<1>4. IF o.error # NoError
      THEN wv' = o /\ FailClosed(service, dispatcher, "ProtocolFailure")
      ELSE IF wv.state = "Idle"
      THEN wv' = o /\ UNCHANGED <<service, dispatcher, outbox, pc, failure, workerIo>>
      ELSE IF ~service.dispatch_active
      THEN wv' = o /\ FailClosed(service, dispatcher, "InternalFailure")
      ELSE StartWrite(o, stopped, released, ack)
  BY <1>3 DEF HandleCancel
<1>5. f.h.req \in Nat
  BY DEF FrameHeaders
<1>6. ack.h \in FrameHeaders /\ ack.h.type = "CancelAck" /\ ack.h.req = f.h.req
  BY <1>5, WrittenHeader
<1> HIDE DEF o, ack
<1>7. CASE o.error # NoError \/ (wv.state # "Idle" /\ ~service.dispatch_active)
  BY <1>1, <1>2, <1>4, <1>7, FailClosedInv, FailedMoves
<1>8. CASE o.error = NoError /\ wv.state = "Idle"
  <2>1. /\ wv' = o /\ service' = service /\ outbox' = None
        /\ o.state = "Idle" /\ o.last_request_id = wv.last_request_id
    BY <1>2, <1>4, <1>8 DEF Effects, Keeps
  <2> QED BY <2>1 DEF Moved, Continued, InDispatch
<1>9. CASE o.error = NoError /\ wv.state # "Idle" /\ service.dispatch_active
  <2>1. /\ IsService(stopped) /\ ~stopped.dispatch_active
        /\ stopped.stream_size = service.stream_size
        /\ stopped.remaining_stream_bytes = service.remaining_stream_bytes
        /\ Numbers(stopped)
    <3>1. PICK E : service \in Services(E)
      BY <1>1 DEF Owns, IsService
    <3>2. /\ stopped \in Services(E) /\ ~stopped.dispatch_active
          /\ stopped.stream_size = service.stream_size
          /\ stopped.remaining_stream_bytes = service.remaining_stream_bytes
          /\ stopped.next_read_sequence = service.next_read_sequence
          /\ stopped.pending_read_sequence = service.pending_read_sequence
      BY <3>1 DEF Services
    <3> QED BY <3>2 DEF IsService, Numbers
  <2>2. released \in Dispatchers /\ released.begun = released.released
    <3>1. dispatcher \in Dispatchers /\ n \in Nat /\ dispatcher.begun = n
      BY <1>1, <1>9 DEF Owns, Dispatchers
    <3> HIDE DEF n
    <3> QED BY <3>1 DEF Dispatchers
  <2> HIDE DEF stopped, released
  <2>3. Owns(stopped, released)
    BY <2>1, <2>2 DEF Owns
  <2>4. \/ pc' = "Failed"
        \/ /\ outbox' = Some(ack) /\ service' = stopped
           /\ Effects(o, "WorkerToParent", ack.h, wv')
    BY <1>2, <1>4, <1>6, <1>9, <2>3, StartWriteHolds
  <2> SUFFICES ASSUME outbox' = Some(ack), service' = stopped,
                      Effects(o, "WorkerToParent", ack.h, wv')
               PROVE  Continued
    BY <2>4, FailedMoves DEF Moved
  <2>5. /\ wv'.state = "Cancelled" /\ wv'.last_request_id = wv.last_request_id
        /\ wv.state \in ActiveStates /\ f.h.req = wv.active_request_id
    BY <1>2, <1>6, <1>9 DEF Effects, Keeps
  <2>6. InDispatch /\ f.h.req = wv.last_request_id
    BY <2>5, NewestIsOpen DEF InDispatch, ActiveStates, Running
  <2>7. Addressed(ack)
    BY <1>6, <2>6 DEF Addressed, IsWire
  <2> QED BY <2>1, <2>5, <2>6, <2>7 DEF Continued, InDispatch
<1> QED BY <1>7, <1>8, <1>9

LEMMA ReplyMoves ==
    ASSUME WorkerInv, Numbers(service), NEW f, f.h \in FrameHeaders, f.h.type = "ReadReply",
           outbox = None, NEW discard \in BOOLEAN, NEW ok \in BOOLEAN, Framed(toWorker'),
           AcceptReply(f, discard, ok)
    PROVE  Moved
<1> DEFINE o == ObserveAtWorker(wv, "ParentToWorker", f)
           n == (service.pending_read_sequence + 1) % (WorkerMaxSequence + 1)
           answered == [service EXCEPT !.pending_read = FALSE, !.late_read_reply = FALSE,
                           !.next_read_sequence = n, !.pending_read_sequence = 0,
                           !.pending_read_length = 0]
<1>1. Sound(wv, WorkerBudgets) /\ Owns(service, dispatcher) /\ "ParentToWorker" \in Directions
  BY DEF WorkerInv, Directions
<1>2. o.error = NoError => Effects(wv, "ParentToWorker", f.h, o)
  BY <1>1, WorkerObserves
<1>3. \/ pc' = "Failed"
      \/ wv' = o /\ o.error = NoError /\ service' = answered /\ outbox' = None
  BY DEF AcceptReply, FailClosed
<1>4. Numbers(answered) /\ answered.stream_size = service.stream_size
      /\ answered.remaining_stream_bytes = service.remaining_stream_bytes
  <2>1. PICK E : service \in Services(E)
    BY <1>1 DEF Owns, IsService
  <2>2. n \in Nat
    BY WorkerLimitsAssumption DEF Numbers
  <2> HIDE DEF n
  <2> QED BY <2>1, <2>2 DEF Services, Numbers
<1> HIDE DEF o, answered
<1>5. ASSUME wv' = o, o.error = NoError, service' = answered, outbox' = None PROVE Moved
  <2>1. o.state = wv.state /\ o.last_request_id = wv.last_request_id
    BY <1>2, <1>5 DEF Effects, Keeps
  <2> QED BY <1>4, <1>5, <2>1 DEF Moved, Continued, InDispatch
<1> QED BY <1>3, <1>5, FailedMoves

LEMMA BeginMoves ==
    ASSUME WorkerInv, NEW begin,
           begin = None \/ \E size \in StreamSizes : begin = Some(size),
           Numbers(service), BeginOperation(begin)
    PROVE  Moved
<1> DEFINE f == Head(toWorker)
           operation == IF f.h.type = "Enumerate" THEN "Enumerate" ELSE "Stream"
           o == ObserveAtWorker(wv, "ParentToWorker", f)
           size == The(begin)
           started == [service EXCEPT !.dispatch_active = TRUE, !.active_operation = operation,
                          !.active_request_id = f.h.req, !.stream_size = size,
                          !.remaining_stream_bytes = size, !.enumeration = NewEnumerationBudget,
                          !.next_read_sequence = 1, !.pending_read = FALSE,
                          !.late_read_reply = FALSE]
<1>1. /\ outbox = None /\ toWorker # <<>> /\ f.h.type \in {"Enumerate", "StreamEntry"}
      /\ \/ pc' = "Failed"
         \/ /\ wv' = o /\ o.error = NoError /\ begin # None
            /\ service' = started /\ outbox' = None
  BY DEF BeginOperation, ReceiveLoop, FailClosed
<1>2. /\ Sound(wv, WorkerBudgets) /\ Owns(service, dispatcher) /\ f.h \in FrameHeaders
      /\ "ParentToWorker" \in Directions
  BY <1>1, Arriving DEF WorkerInv, Directions
<1>3. o.error = NoError => Effects(wv, "ParentToWorker", f.h, o)
  BY <1>2, WorkerObserves
<1> HIDE DEF o, f
<1> SUFFICES ASSUME wv' = o, o.error = NoError, begin # None, service' = started, outbox' = None
             PROVE  Begun
  BY <1>1, FailedMoves DEF Moved
<1>4. size \in Nat
  BY Optional, WorkerLimitsAssumption
<1> HIDE DEF size, operation
<1>5. Numbers(started) /\ started.remaining_stream_bytes = started.stream_size
  <2>1. PICK E : service \in Services(E)
    BY <1>2 DEF Owns, IsService
  <2> QED BY <1>4, <2>1 DEF Services, Numbers
<1> HIDE DEF started
<1>6. /\ o.state \in ActiveStates /\ o.last_request_id = f.h.req
      /\ f.h.req > wv.last_request_id
  BY <1>1, <1>3 DEF Effects, ActiveStates
<1> QED BY <1>1, <1>5, <1>6 DEF Begun, InDispatch, ActiveStates, f

(* A dispatch step that puts the frame f on the wire. *)
LEMMA DispatchMoves ==
    ASSUME WorkerInv, NEW canonical, NEW f, NEW s,
           IsWire(f), f.h.req = service.active_request_id,
           canonical /\ f.h.type = "DataChunk" =>
               \A k \in 1..Len(f.body) : f.body[k] = Sofar + k,
           f.h.type \in {"ReadRequest", "EntryBatch", "DataChunk", "Complete"},
           Owns(s, dispatcher), Numbers(s), s.stream_size = service.stream_size,
           s.remaining_stream_bytes = service.remaining_stream_bytes,
           DispatchStep(canonical, f, s)
    PROVE  Moved
<1>1. f.h \in FrameHeaders
  BY DEF IsWire
<1>2. \/ pc' = "Failed"
      \/ /\ canonical /\ pc = "Loop" /\ Dispatching(service, wv)
         /\ outbox' = Some(f) /\ service' = s
         /\ Effects(wv, "WorkerToParent", f.h, wv')
  BY <1>1, DispatchStepHolds
<1> SUFFICES ASSUME canonical, pc = "Loop", Dispatching(service, wv),
                    outbox' = Some(f), service' = s, Effects(wv, "WorkerToParent", f.h, wv')
             PROVE  Continued
  BY <1>2, FailedMoves DEF Moved
<1>3. InDispatch /\ f.h.req = wv.last_request_id
  BY NewestIsOpen DEF Dispatching, InDispatch, ActiveStates, Running
<1>4. wv'.last_request_id = wv.last_request_id
  BY DEF Effects, Keeps
<1>5. Addressed(f)
  BY <1>3 DEF Addressed
<1> QED BY <1>3, <1>4, <1>5 DEF Continued

LEMMA SteppedNumbers ==
    ASSUME WorkerInv, Numbers(service)
    PROVE  /\ Numbers(Stepped) /\ Stepped.stream_size = service.stream_size
           /\ Stepped.remaining_stream_bytes = service.remaining_stream_bytes
<1> DEFINE n == service.dispatch_steps + 1
<1>1. PICK E : service \in Services(E)
  BY DEF WorkerInv, Owns, IsService
<1>2. Stepped = [service EXCEPT !.dispatch_steps = n]
  BY DEF Stepped
<1> HIDE DEF n
<1> QED BY <1>1, <1>2 DEF Services, Numbers

LEMMA ReadMoves == ASSUME WorkerInv, Numbers(service), StepNeedRead(1) PROVE Moved
<1> DEFINE next == service.next_read_sequence
           canonical == ~service.pending_read /\ next # 0 /\ FitsFrame(1 + 1)
           f == Frame("ReadRequest", service.active_request_id, <<next, 1>>)
           s == [Stepped EXCEPT !.pending_read = TRUE, !.pending_read_sequence = next,
                                !.pending_read_length = 1]
<1>1. DispatchStep(canonical, f, s)
  BY DEF StepNeedRead
<1>2. service.active_request_id \in Nat /\ next \in Nat
  BY DEF WorkerInv, Owns, IsService, Services, Numbers
<1>3. f.h \in FrameHeaders /\ f.h.type = "ReadRequest" /\ f.h.req = service.active_request_id
  BY <1>2, WrittenHeader
<1>4. IsWire(f)
  <2>1. f.body[1] = next /\ f.body[2] = 1
    BY DEF Frame
  <2> HIDE DEF f
  <2> QED BY <1>2, <1>3, <2>1 DEF IsWire
<1>5. /\ IsService(s) /\ s.dispatch_active = service.dispatch_active /\ Numbers(s)
      /\ s.stream_size = service.stream_size
      /\ s.remaining_stream_bytes = service.remaining_stream_bytes
  <2>1. PICK E : Stepped \in Services(E)
    BY SteppedIs DEF IsService
  <2> HIDE DEF next
  <2>2. Stepped \in Services(E \cup {next, 1})
    BY <2>1 DEF Services
  <2>3. /\ s \in Services(E \cup {next, 1}) /\ s.dispatch_active = Stepped.dispatch_active
        /\ s.stream_size = Stepped.stream_size
        /\ s.remaining_stream_bytes = Stepped.remaining_stream_bytes
        /\ s.next_read_sequence = Stepped.next_read_sequence
        /\ s.pending_read_sequence = next
    BY <2>2 DEF Services
  <2> HIDE DEF s
  <2> QED BY <1>2, <2>3, SteppedIs, SteppedNumbers DEF IsService, Numbers
<1> HIDE DEF canonical, f, s
<1>6. Owns(s, dispatcher)
  BY <1>5 DEF WorkerInv, Owns
<1> QED BY <1>1, <1>3, <1>4, <1>5, <1>6, DispatchMoves

LEMMA BatchMoves ==
    ASSUME WorkerInv, Numbers(service), NEW entries \in Batches, StepEntryBatch(entries)
    PROVE  Moved
<1> DEFINE f == Frame("EntryBatch", service.active_request_id, entries)
           canonical == /\ service.active_operation = "Enumerate"
                        /\ BatchIsCanonical(entries, service.enumeration)
                        /\ FitsFrame(Len(entries))
<1>1. DispatchStep(canonical, f, Stepped)
  BY DEF StepEntryBatch
<1>2. service.active_request_id \in Nat /\ entries \in Seq(Entries) /\ Len(entries) \in Nat
  BY BatchesAssumption, LenProperties DEF WorkerInv, Owns, IsService, Services
<1>3. f.h \in FrameHeaders /\ f.h.type = "EntryBatch"
  BY <1>2, WrittenResult
<1>4. f.h.req = service.active_request_id /\ f.body = entries
  BY DEF Frame, Header
<1> HIDE DEF f, canonical
<1>5. IsWire(f)
  BY <1>2, <1>3, <1>4 DEF IsWire
<1> QED BY <1>1, <1>3, <1>4, <1>5, SteppedIs, SteppedNumbers, DispatchMoves

LEMMA ChunkMoves ==
    ASSUME WorkerInv, Numbers(service), NEW n \in ChunkSizes, StepDataChunk(n)
    PROVE  Moved
<1> DEFINE body == [i \in 1..n |-> service.stream_size - service.remaining_stream_bytes + i]
           f == Frame("DataChunk", service.active_request_id, body)
           canonical == /\ service.active_operation = "Stream"
                        /\ n <= service.remaining_stream_bytes
                        /\ FitsFrame(n)
<1>1. DispatchStep(canonical, f, Stepped)
  BY DEF StepDataChunk
<1>2. service.active_request_id \in Nat /\ n \in Nat
  BY WorkerLimitsAssumption DEF WorkerInv, Owns, IsService, Services
<1>3. /\ body \in Seq(Nat) /\ Len(body) = n
      /\ \A k \in 1..Len(body) : body[k] = Sofar + k
  <2>1. body \in [1..n -> Nat]
    BY <1>2 DEF Numbers
  <2>2. \A k \in 1..n : body[k] = Sofar + k
    BY DEF Sofar
  <2> HIDE DEF body
  <2> QED BY <1>2, <2>1, <2>2
<1>4. f.h \in FrameHeaders /\ f.h.type = "DataChunk"
  <2> HIDE DEF body
  <2> QED BY <1>2, <1>3, WrittenResult
<1>5. f.h.req = service.active_request_id /\ f.body = body
  BY DEF Frame, Header
<1> HIDE DEF f, canonical, body
<1>6. IsWire(f)
  BY <1>3, <1>4, <1>5 DEF IsWire
<1> QED BY <1>1, <1>3, <1>4, <1>5, <1>6, SteppedIs, SteppedNumbers, DispatchMoves

LEMMA CompletionMoves ==
    ASSUME WorkerInv, Numbers(service), StepComplete \/ StepFails PROVE Moved
<1>1. CASE StepFails
  <2>1. pc' = "Failed"
    BY <1>1 DEF StepFails, DispatchStep, FailClosed
  <2> QED BY <2>1, FailedMoves
<1>2. CASE StepComplete
  <2> DEFINE f == Frame("Complete", service.active_request_id, <<>>)
             canonical == service.active_operation = "Stream" =>
                              service.remaining_stream_bytes = 0
  <2>1. DispatchStep(canonical, f, Stepped)
    BY <1>2 DEF StepComplete
  <2>2. service.active_request_id \in Nat
    BY DEF WorkerInv, Owns, IsService, Services
  <2>3. f.h \in FrameHeaders /\ f.h.type = "Complete" /\ f.h.req = service.active_request_id
    BY <2>2, WrittenHeader
  <2> HIDE DEF f, canonical
  <2>4. IsWire(f)
    BY <2>3 DEF IsWire
  <2> QED BY <2>1, <2>3, <2>4, SteppedIs, SteppedNumbers, DispatchMoves
<1> QED BY <1>1, <1>2

(* The steps that write nothing to the pipe. *)
LEMMA ServiceMoves ==
    ASSUME WorkerInv, Running => Numbers(service),
           WorkerReceive \/ WorkerDispatch \/ WorkerIoFails
    PROVE  /\ Moved
           /\ UNCHANGED <<toParent, parentIo, emitted, outcomeAtWorker>>
           /\ toWorker' = toWorker \/ (toWorker # <<>> /\ toWorker' = Tail(toWorker))
<1>1. Running
  BY DEF WorkerReceive, WorkerDispatch, WorkerIoFails, Running, ReceiveHello, BeginOperation,
         ReceiveCancel, ReceiveLateReply, HandleShutdown, ReceiveUnexpectedAtWorker,
         ReceiveLoop, ProbeCancel, AwaitReplyOrCancel, DispatchBudgetExceeded, StepNeedRead,
         StepEntryBatch, StepDataChunk, StepComplete, StepFails, DispatchStep, MayDispatch,
         ActiveLoop
<1>2. Numbers(service)
  BY <1>1
<1>3. CASE ReceiveHello
  BY <1>2, <1>3, HelloMoves DEF ReceiveHello
<1>4. ASSUME NEW begin, begin = None \/ \E size \in StreamSizes : begin = Some(size),
             BeginOperation(begin)
      PROVE  /\ Moved /\ UNCHANGED <<toParent, parentIo, emitted, outcomeAtWorker>>
             /\ toWorker # <<>> /\ toWorker' = Tail(toWorker)
  BY <1>2, <1>4, BeginMoves DEF BeginOperation, ReceiveLoop
<1>5. CASE ReceiveCancel
  <2>1. /\ pc = "Loop" /\ outbox = None /\ toWorker # <<>> /\ toWorker' = Tail(toWorker)
        /\ Head(toWorker).h.type = "Cancel" /\ HandleCancel(Head(toWorker))
        /\ UNCHANGED <<toParent, parentIo, emitted, outcomeAtWorker>>
    BY <1>5 DEF ReceiveCancel, ReceiveLoop
  <2> QED BY <1>2, <2>1, Arriving, CancelMoves
<1>6. CASE ReceiveLateReply
  <2>1. /\ outbox = None /\ toWorker # <<>> /\ toWorker' = Tail(toWorker)
        /\ Head(toWorker).h.type = "ReadReply"
        /\ pc' = "Failed" \/ AcceptReply(Head(toWorker), TRUE, TRUE)
        /\ UNCHANGED <<toParent, parentIo, emitted, outcomeAtWorker>>
    BY <1>6 DEF ReceiveLateReply, ReceiveLoop, FailClosed
  <2> QED BY <1>2, <2>1, Arriving, ReplyMoves, FailedMoves
<1>7. CASE HandleShutdown
  <2>1. pc' \in {"Failed", "Done"}
    BY <1>7 DEF HandleShutdown, FailClosed
  <2> QED BY <1>7, <2>1 DEF HandleShutdown, ReceiveLoop, Moved, Running
<1>8. CASE ReceiveUnexpectedAtWorker \/ DispatchBudgetExceeded \/ WorkerIoFails
  <2>1. pc' = "Failed"
    BY <1>8 DEF ReceiveUnexpectedAtWorker, DispatchBudgetExceeded, WorkerIoFails, FailClosed
  <2> QED BY <1>8, <2>1, FailedMoves
          DEF ReceiveUnexpectedAtWorker, ReceiveLoop, DispatchBudgetExceeded, WorkerIoFails
<1>9. CASE ProbeCancel
  <2>1. /\ pc = "Loop" /\ outbox = None /\ toWorker # <<>> /\ toWorker' = Tail(toWorker)
        /\ \/ pc' = "Failed"
           \/ Head(toWorker).h.type = "Cancel" /\ HandleCancel(Head(toWorker))
        /\ UNCHANGED <<toParent, parentIo, emitted, outcomeAtWorker>>
    BY <1>9 DEF ProbeCancel, ActiveLoop, FailClosed
  <2> QED BY <1>2, <2>1, Arriving, CancelMoves, FailedMoves
<1>10. ASSUME NEW ok \in BOOLEAN, AwaitReplyOrCancel(ok)
       PROVE  /\ Moved /\ UNCHANGED <<toParent, parentIo, emitted, outcomeAtWorker>>
              /\ toWorker # <<>> /\ toWorker' = Tail(toWorker)
  <2>1. /\ pc = "AwaitReply" /\ outbox = None /\ toWorker # <<>> /\ toWorker' = Tail(toWorker)
        /\ \/ pc' = "Failed"
           \/ Head(toWorker).h.type = "Cancel" /\ HandleCancel(Head(toWorker))
           \/ Head(toWorker).h.type = "ReadReply" /\ AcceptReply(Head(toWorker), FALSE, ok)
        /\ UNCHANGED <<toParent, parentIo, emitted, outcomeAtWorker>>
    BY <1>10 DEF AwaitReplyOrCancel, FailClosed
  <2> QED BY <1>2, <2>1, Arriving, CancelMoves, ReplyMoves, FailedMoves
<1>11. CASE WorkerDispatch /\ ~DispatchBudgetExceeded
  <2>1. UNCHANGED <<toWorker, toParent, parentIo, emitted, outcomeAtWorker>>
    BY <1>11 DEF WorkerDispatch, StepNeedRead, StepEntryBatch, StepDataChunk, StepComplete,
                 StepFails, DispatchStep
  <2> QED BY <1>2, <1>11, <2>1, ReadMoves, BatchMoves, ChunkMoves, CompletionMoves
          DEF WorkerDispatch
<1> QED BY <1>3, <1>4, <1>5, <1>6, <1>7, <1>8, <1>9, <1>10, <1>11 DEF WorkerReceive

-----------------------------------------------------------------------------
(* What the frames of one request in a pipe add up to.  The chunks carry the *)
(* bytes of the stream from one position to another; the batches carry what  *)
(* makes one sequence of entries into another.                               *)
IsOf(f, type, req) == f.h.type = type /\ f.h.req = req

Carries(q, req, pos) ==
    \A k \in 1..Len(q) :
        IF IsOf(q[k], "DataChunk", req)
        THEN /\ pos[k] = pos[k - 1] + Len(q[k].body)
             /\ \A j \in 1..Len(q[k].body) : q[k].body[j] = pos[k - 1] + j
        ELSE pos[k] = pos[k - 1]
Streams(q, req, from, to) ==
    \E pos \in [0..Len(q) -> Nat] : pos[0] = from /\ pos[Len(q)] = to /\ Carries(q, req, pos)

Collects(q, req, pre) ==
    \A k \in 1..Len(q) :
        pre[k] = IF IsOf(q[k], "EntryBatch", req) THEN pre[k - 1] \o q[k].body ELSE pre[k - 1]
Lists(q, req, from, to) ==
    \E pre \in [0..Len(q) -> Seq(Entries)] :
        pre[0] = from /\ pre[Len(q)] = to /\ Collects(q, req, pre)

LEMMA WireTail ==
    ASSUME NEW q, OnWire(q), q # << >>
    PROVE  /\ Len(q) \in Nat \ {0} /\ Len(Tail(q)) = Len(q) - 1 /\ Head(q) = q[1]
           /\ \A k \in 1..Len(q) - 1 : Tail(q)[k] = q[k + 1]
BY DEF OnWire

LEMMA WireAppend ==
    ASSUME NEW q, OnWire(q), NEW f
    PROVE  /\ Len(q) \in Nat /\ Len(Append(q, f)) = Len(q) + 1
           /\ Append(q, f)[Len(q) + 1] = f
           /\ \A k \in 1..Len(q) : Append(q, f)[k] = q[k]
BY DEF OnWire

LEMMA WireItems ==
    ASSUME NEW q, OnWire(q) PROVE Len(q) \in Nat /\ \A k \in 1..Len(q) : IsWire(q[k])
BY DEF OnWire

\* A pipe without a frame of the request adds nothing.
LEMMA NothingStreams ==
    ASSUME NEW q, OnWire(q), NEW req, \A k \in 1..Len(q) : ~IsOf(q[k], "DataChunk", req),
           NEW n \in Nat
    PROVE  Streams(q, req, n, n)
<1> DEFINE pos == [k \in 0..Len(q) |-> n]
<1>1. Len(q) \in Nat
  BY WireItems
<1>2. pos \in [0..Len(q) -> Nat] /\ pos[0] = n /\ pos[Len(q)] = n
  BY <1>1
<1>3. Carries(q, req, pos)
  BY <1>1 DEF Carries
<1> HIDE DEF pos
<1> QED BY <1>2, <1>3 DEF Streams

LEMMA StreamsTail ==
    ASSUME NEW q, OnWire(q), q # << >>, NEW req, NEW from, NEW to, Streams(q, req, from, to)
    PROVE  /\ from \in Nat
           /\ ~IsOf(Head(q), "DataChunk", req) => Streams(Tail(q), req, from, to)
           /\ IsOf(Head(q), "DataChunk", req) =>
                  /\ \A j \in 1..Len(Head(q).body) : Head(q).body[j] = from + j
                  /\ Streams(Tail(q), req, from + Len(Head(q).body), to)
<1>1. PICK pos \in [0..Len(q) -> Nat] :
          pos[0] = from /\ pos[Len(q)] = to /\ Carries(q, req, pos)
  BY DEF Streams
<1> DEFINE t == Tail(q)
           rest == [k \in 0..Len(t) |-> pos[k + 1]]
<1>2. /\ Len(q) \in Nat \ {0} /\ Len(t) = Len(q) - 1 /\ Head(q) = q[1]
      /\ \A k \in 1..Len(q) - 1 : t[k] = q[k + 1]
  BY WireTail
<1> HIDE DEF t
<1>3. rest \in [0..Len(t) -> Nat] /\ rest[0] = pos[1] /\ rest[Len(t)] = to
  BY <1>1, <1>2
<1>4. Carries(t, req, rest)
  <2> SUFFICES ASSUME NEW k \in 1..Len(t)
               PROVE  IF IsOf(t[k], "DataChunk", req)
                      THEN /\ rest[k] = rest[k - 1] + Len(t[k].body)
                           /\ \A j \in 1..Len(t[k].body) : t[k].body[j] = rest[k - 1] + j
                      ELSE rest[k] = rest[k - 1]
    BY DEF Carries
  <2>1. k + 1 \in 1..Len(q) /\ t[k] = q[k + 1] /\ rest[k] = pos[k + 1] /\ rest[k - 1] = pos[k]
        /\ (k + 1) - 1 = k
    BY <1>2
  <2> HIDE DEF rest
  <2> QED BY <1>1, <2>1 DEF Carries
<1> HIDE DEF rest
<1>5. 1 \in 1..Len(q) /\ pos[1 - 1] = from /\ from \in Nat
  BY <1>1, <1>2
<1>6. Streams(t, req, pos[1], to)
  BY <1>3, <1>4 DEF Streams
<1> QED BY <1>1, <1>2, <1>5, <1>6 DEF Carries, t

LEMMA StreamsAppend ==
    ASSUME NEW q, OnWire(q), NEW req, NEW from, NEW to, Streams(q, req, from, to),
           NEW f, IsWire(f)
    PROVE  /\ to \in Nat
           /\ ~IsOf(f, "DataChunk", req) => Streams(Append(q, f), req, from, to)
           /\ IsOf(f, "DataChunk", req) /\ (\A j \in 1..Len(f.body) : f.body[j] = to + j) =>
                  Streams(Append(q, f), req, from, to + Len(f.body))
<1>1. PICK pos \in [0..Len(q) -> Nat] :
          pos[0] = from /\ pos[Len(q)] = to /\ Carries(q, req, pos)
  BY DEF Streams
<1> DEFINE a == Append(q, f)
           mine == IsOf(f, "DataChunk", req)
           end == IF mine THEN to + Len(f.body) ELSE to
           more == [k \in 0..Len(a) |-> IF k = Len(a) THEN end ELSE pos[k]]
<1>2. /\ Len(q) \in Nat /\ Len(a) = Len(q) + 1 /\ a[Len(a)] = f
      /\ \A k \in 1..Len(q) : a[k] = q[k]
  BY WireAppend
<1>3. to \in Nat /\ end \in Nat
  <2>1. to \in Nat
    BY <1>1, <1>2
  <2>2. mine => Len(f.body) \in Nat
    BY LenProperties DEF IsWire, IsOf
  <2> QED BY <2>1, <2>2
<1> SUFFICES ASSUME mine => \A j \in 1..Len(f.body) : f.body[j] = to + j
             PROVE  Streams(a, req, from, end)
  BY <1>3
<1> HIDE DEF a, end, mine
<1>4. /\ more \in [0..Len(a) -> Nat] /\ more[0] = from /\ more[Len(a)] = end
      /\ \A k \in 0..Len(q) : more[k] = pos[k]
  BY <1>1, <1>2, <1>3
<1> HIDE DEF more
<1>5. Carries(a, req, more)
  <2> SUFFICES ASSUME NEW k \in 1..Len(a)
               PROVE  IF IsOf(a[k], "DataChunk", req)
                      THEN /\ more[k] = more[k - 1] + Len(a[k].body)
                           /\ \A j \in 1..Len(a[k].body) : a[k].body[j] = more[k - 1] + j
                      ELSE more[k] = more[k - 1]
    BY DEF Carries
  <2>1. CASE k = Len(a)
    <3>1. a[k] = f /\ more[k] = end /\ more[k - 1] = to
      BY <1>1, <1>2, <1>4, <2>1
    <3> QED BY <3>1 DEF mine, end
  <2>2. CASE k # Len(a)
    <3>1. k \in 1..Len(q) /\ a[k] = q[k] /\ more[k] = pos[k] /\ more[k - 1] = pos[k - 1]
      BY <1>2, <1>4, <2>2
    <3> QED BY <1>1, <3>1 DEF Carries
  <2> QED BY <2>1, <2>2
<1> QED BY <1>4, <1>5 DEF Streams

LEMMA NothingListed ==
    ASSUME NEW q, OnWire(q), NEW req, \A k \in 1..Len(q) : ~IsOf(q[k], "EntryBatch", req),
           NEW from \in Seq(Entries)
    PROVE  Lists(q, req, from, from)
<1> DEFINE pre == [k \in 0..Len(q) |-> from]
<1>1. Len(q) \in Nat
  BY WireItems
<1>2. pre \in [0..Len(q) -> Seq(Entries)] /\ pre[0] = from /\ pre[Len(q)] = from
  BY <1>1
<1>3. Collects(q, req, pre)
  BY <1>1 DEF Collects
<1> HIDE DEF pre
<1> QED BY <1>2, <1>3 DEF Lists

LEMMA ListedNothing ==
    ASSUME NEW q, OnWire(q), NEW req, \A k \in 1..Len(q) : ~IsOf(q[k], "EntryBatch", req),
           NEW from, NEW to, Lists(q, req, from, to)
    PROVE  to = from
<1>1. PICK pre \in [0..Len(q) -> Seq(Entries)] :
          pre[0] = from /\ pre[Len(q)] = to /\ Collects(q, req, pre)
  BY DEF Lists
<1>2. Len(q) \in Nat
  BY WireItems
<1> DEFINE S == {n \in Nat : n <= Len(q) => pre[n] = from}
<1>3. 0 \in S
  BY <1>1
<1>4. ASSUME NEW n \in Nat, n \in S PROVE n + 1 \in S
  <2> SUFFICES ASSUME n + 1 <= Len(q) PROVE pre[n + 1] = from
    OBVIOUS
  <2>1. n + 1 \in 1..Len(q) /\ (n + 1) - 1 = n /\ pre[n] = from
    BY <1>2, <1>4
  <2> QED BY <1>1, <2>1 DEF Collects
<1>5. Nat \subseteq S
  <2> HIDE DEF S
  <2> QED BY <1>3, <1>4, Induction
<1> QED BY <1>1, <1>2, <1>5

LEMMA ListsTail ==
    ASSUME NEW q, OnWire(q), q # << >>, NEW req, NEW from, NEW to, Lists(q, req, from, to)
    PROVE  /\ ~IsOf(Head(q), "EntryBatch", req) => Lists(Tail(q), req, from, to)
           /\ IsOf(Head(q), "EntryBatch", req) =>
                  Lists(Tail(q), req, from \o Head(q).body, to)
<1>1. PICK pre \in [0..Len(q) -> Seq(Entries)] :
          pre[0] = from /\ pre[Len(q)] = to /\ Collects(q, req, pre)
  BY DEF Lists
<1> DEFINE t == Tail(q)
           rest == [k \in 0..Len(t) |-> pre[k + 1]]
<1>2. /\ Len(q) \in Nat \ {0} /\ Len(t) = Len(q) - 1 /\ Head(q) = q[1]
      /\ \A k \in 1..Len(q) - 1 : t[k] = q[k + 1]
  BY WireTail
<1> HIDE DEF t
<1>3. rest \in [0..Len(t) -> Seq(Entries)] /\ rest[0] = pre[1] /\ rest[Len(t)] = to
  BY <1>1, <1>2
<1>4. Collects(t, req, rest)
  <2> SUFFICES ASSUME NEW k \in 1..Len(t)
               PROVE  rest[k] = IF IsOf(t[k], "EntryBatch", req)
                                THEN rest[k - 1] \o t[k].body ELSE rest[k - 1]
    BY DEF Collects
  <2>1. k + 1 \in 1..Len(q) /\ t[k] = q[k + 1] /\ rest[k] = pre[k + 1] /\ rest[k - 1] = pre[k]
        /\ (k + 1) - 1 = k
    BY <1>2
  <2> HIDE DEF rest
  <2> QED BY <1>1, <2>1 DEF Collects
<1> HIDE DEF rest
<1>5. 1 \in 1..Len(q) /\ pre[1 - 1] = from
  BY <1>1, <1>2
<1>6. Lists(t, req, pre[1], to)
  BY <1>3, <1>4 DEF Lists
<1> QED BY <1>1, <1>2, <1>5, <1>6 DEF Collects, t

LEMMA ListsAppend ==
    ASSUME NEW q, OnWire(q), NEW req, NEW from, NEW to, Lists(q, req, from, to),
           NEW f, IsWire(f)
    PROVE  /\ ~IsOf(f, "EntryBatch", req) => Lists(Append(q, f), req, from, to)
           /\ IsOf(f, "EntryBatch", req) => Lists(Append(q, f), req, from, to \o f.body)
<1>1. PICK pre \in [0..Len(q) -> Seq(Entries)] :
          pre[0] = from /\ pre[Len(q)] = to /\ Collects(q, req, pre)
  BY DEF Lists
<1> DEFINE a == Append(q, f)
           mine == IsOf(f, "EntryBatch", req)
           end == IF mine THEN to \o f.body ELSE to
           more == [k \in 0..Len(a) |-> IF k = Len(a) THEN end ELSE pre[k]]
<1>2. /\ Len(q) \in Nat /\ Len(a) = Len(q) + 1 /\ a[Len(a)] = f
      /\ \A k \in 1..Len(q) : a[k] = q[k]
  BY WireAppend
<1>3. to \in Seq(Entries) /\ end \in Seq(Entries)
  <2>1. to \in Seq(Entries)
    BY <1>1, <1>2
  <2>2. mine => f.body \in Seq(Entries)
    BY DEF IsWire, IsOf
  <2> QED BY <2>1, <2>2, ConcatProperties
<1> SUFFICES Lists(a, req, from, end)
  OBVIOUS
<1> HIDE DEF a, end, mine
<1>4. /\ more \in [0..Len(a) -> Seq(Entries)] /\ more[0] = from /\ more[Len(a)] = end
      /\ \A k \in 0..Len(q) : more[k] = pre[k]
  BY <1>1, <1>2, <1>3
<1> HIDE DEF more
<1>5. Collects(a, req, more)
  <2> SUFFICES ASSUME NEW k \in 1..Len(a)
               PROVE  more[k] = IF IsOf(a[k], "EntryBatch", req)
                                THEN more[k - 1] \o a[k].body ELSE more[k - 1]
    BY DEF Collects
  <2>1. CASE k = Len(a)
    <3>1. a[k] = f /\ more[k] = end /\ more[k - 1] = to
      BY <1>1, <1>2, <1>4, <2>1
    <3> QED BY <3>1 DEF mine, end
  <2>2. CASE k # Len(a)
    <3>1. k \in 1..Len(q) /\ a[k] = q[k] /\ more[k] = pre[k] /\ more[k - 1] = pre[k - 1]
      BY <1>2, <1>4, <2>2
    <3> QED BY <1>1, <3>1 DEF Collects
  <2> QED BY <2>1, <2>2
<1> QED BY <1>4, <1>5 DEF Lists

-----------------------------------------------------------------------------
(* What a step of the parent means to the history of its requests, whoever   *)
(* the worker is.  An id is used once a request was given it; 0 stands for   *)
(* no request.                                                               *)
Used(i) == i \in 0..MaxCounter /\ (i < next_request_id \/ request_ids_exhausted)

Numbering ==
    /\ next_request_id \in RequestIds /\ request_ids_exhausted \in BOOLEAN
    /\ Used(active_request_id)

Asks ==
    /\ Numbering'
    /\ \A i : Used(i) => Used(i)'
    /\ asked'.cancel \subseteq asked.cancel \cup {active_request_id}
    /\ \/ toWorker' = toWorker
       \/ \E f : /\ f.h \in FrameHeaders /\ Used(f.h.req)'
                 /\ toWorker' = Append(toWorker, f)
    /\ toParent' = toParent \/ (toParent # <<>> /\ toParent' = Tail(toParent))

Retires ==
    /\ phase' = "Terminal" /\ results'.catalog = None
    /\ sink' \in {sink, <<>>} /\ outcomeAtParent' = outcomeAtParent

Rests ==
    /\ phase' \notin ReceivePhases /\ phase # "Terminal"
    /\ UNCHANGED <<sink, outcomeAtParent, asked>>
    /\ results'.catalog \in {None, results.catalog}
    /\ results'.enumeration_counter = results.enumeration_counter

EnumerationStarts ==
    /\ phase # "Terminal" /\ phase' = "Enumerating"
    /\ UNCHANGED <<sink, outcomeAtParent, toParent>> /\ ~streaming'
    /\ ~Used(next_request_id) /\ active_request_id' = next_request_id
    /\ asked' = [asked EXCEPT !.enumerate = Append(@, next_request_id)]
    /\ results'.catalog = None
    /\ results'.enumeration_counter = results.enumeration_counter + 1
    /\ The(results'.candidate) = NewCandidate(results.enumeration_counter + 1)

StreamStarts ==
    /\ phase # "Terminal" /\ phase' = "Streaming" /\ sink' = <<>>
    /\ UNCHANGED <<outcomeAtParent, toParent>> /\ streaming'
    /\ ~Used(next_request_id) /\ active_request_id' = next_request_id
    /\ asked'.enumerate = asked.enumerate /\ asked'.cancel = asked.cancel
    /\ results'.catalog = results.catalog
    /\ results'.enumeration_counter = results.enumeration_counter

CancelStarts ==
    /\ phase \in {"Enumerating", "Streaming"} /\ phase' = "Cancelling"
    /\ UNCHANGED <<sink, streaming, outcomeAtParent, toParent, active_request_id>>
    /\ asked'.enumerate = asked.enumerate
    /\ results'.catalog = None
    /\ results'.enumeration_counter = results.enumeration_counter

Arrives ==
    /\ phase \in ReceivePhases /\ toParent # <<>> /\ toParent' = Tail(toParent)
    /\ UNCHANGED <<streaming, asked>>
    /\ results'.enumeration_counter = results.enumeration_counter

(* A frame of the open request that does not end it. *)
Takes ==
    LET f == Head(toParent) IN
    /\ Arrives
    /\ UNCHANGED <<phase, active_request_id, outcomeAtParent>>
    /\ results'.catalog = results.catalog
    /\ \/ /\ f.h.type = "EntryBatch" /\ f.h.req = active_request_id /\ sink' = sink
          /\ The(results'.candidate).generation = The(results.candidate).generation
          /\ The(results'.candidate).promotable = The(results.candidate).promotable
          /\ The(results.candidate).promotable =>
                 The(results'.candidate).entries = The(results.candidate).entries \o f.body
       \/ /\ f.h.type = "DataChunk" /\ f.h.req = active_request_id /\ sink' = sink \o f.body
          /\ phase = "Streaming" \/ (phase = "Cancelling" /\ streaming)
          /\ results'.candidate = results.candidate
       \/ /\ f.h.type = "ReadRequest" /\ sink' = sink
          /\ results'.candidate = results.candidate

(* The frame that ends the open request. *)
EndsRequest ==
    LET f == Head(toParent) IN
    /\ Arrives
    /\ f.h.type \in Terminals /\ f.h.req = active_request_id
    /\ phase' \notin ReceivePhases /\ sink' = sink
    /\ outcomeAtParent' = [outcomeAtParent EXCEPT ![active_request_id] =
                               IF f.h.type = "Complete" THEN "complete" ELSE "cancelled"]
    /\ \/ results'.catalog \in {None, results.catalog}
       \/ /\ f.h.type = "Complete" /\ ~streaming /\ phase # "Cancelling"
          /\ results'.catalog = Some([generation |-> The(results.candidate).generation,
                                      entries |-> The(results.candidate).entries])

ParentMoved ==
    /\ Asks
    /\ \/ Retires \/ Rests \/ EnumerationStarts \/ StreamStarts \/ CancelStarts
       \/ Takes \/ EndsRequest

LEMMA Allocated ==
    ASSUME next_request_id \in RequestIds, ~request_ids_exhausted, AllocateRequestId
    PROVE  /\ next_request_id' \in RequestIds /\ request_ids_exhausted' \in BOOLEAN
           /\ \A i : Used(i) => Used(i)'
           /\ ~Used(next_request_id)
           /\ \A i : i = next_request_id => Used(i)'
<1>1. next_request_id \in 1..MaxCounter /\ MaxCounter \in Nat
  BY ResultLimitsAssumption DEF RequestIds
<1>2. request_ids_exhausted' \in BOOLEAN
  BY DEF AllocateRequestId
<1>3. CASE next_request_id = MaxCounter
  <2>1. next_request_id' = MaxCounter /\ request_ids_exhausted'
    BY <1>3 DEF AllocateRequestId
  <2> QED BY <1>1, <1>2, <1>3, <2>1 DEF RequestIds, Used
<1>4. CASE next_request_id # MaxCounter
  <2>1. next_request_id' = next_request_id + 1
    BY <1>4 DEF AllocateRequestId
  <2> QED BY <1>1, <1>2, <1>4, <2>1 DEF RequestIds, Used
<1> QED BY <1>3, <1>4

\* Steps that allocate nothing.
LEMMA SameIds ==
    ASSUME Numbering, UNCHANGED <<next_request_id, request_ids_exhausted>>,
           Used(active_request_id')
    PROVE  Numbering' /\ \A i : Used(i) => Used(i)'
BY DEF Numbering, Used

LEMMA ZeroIsUsed == ASSUME Numbering PROVE Used(0)
BY ResultLimitsAssumption DEF Numbering, Used, RequestIds

LEMMA SendHelloMoves == ASSUME ParentInv, Numbering, SendHello PROVE ParentMoved
<1> DEFINE f == Frame("Hello", 0, <<>>)
           o == ResultObserve(results, "ParentToWorker", f)
<1>1. phase = "Connecting"
  BY DEF SendHello
<1>2. ResultInv(results) /\ results.failure = NoFailure
  BY <1>1, LiveFacts
<1>3. f.h \in FrameHeaders /\ f.h.req = 0
  BY SentHeader
<1>4. ResultInv(o) /\ (o.failure = NoFailure => Observed(results, "ParentToWorker", f, o))
  BY <1>2, <1>3, ObservedOrRetired DEF Directions
<1>5. /\ toWorker' = Append(toWorker, f) /\ toParent' = toParent
      /\ IF o.failure # NoFailure
         THEN phase' = "Terminal" /\ results' = Retire(o, "WorkerFailure")
         ELSE phase' = "AwaitingReady" /\ results' = o
      /\ UNCHANGED <<next_request_id, request_ids_exhausted, active_request_id, sink,
                     outcomeAtParent, asked>>
  BY DEF SendHello, RetireSession
<1> HIDE DEF o, f
<1>6. Asks
  <2>1. Numbering' /\ \A i : Used(i) => Used(i)'
    BY <1>5, SameIds DEF Numbering
  <2>2. Used(f.h.req)'
    BY <1>3, <1>5, ZeroIsUsed DEF Used
  <2> QED BY <1>3, <1>5, <2>1, <2>2 DEF Asks
<1>7. CASE o.failure # NoFailure
  <2>1. results'.catalog = None
    BY <1>4, <1>5, <1>7, RetiredWith DEF ResultInv
  <2> QED BY <1>5, <1>6, <1>7, <2>1 DEF ParentMoved, Retires
<1>8. CASE o.failure = NoFailure
  BY <1>1, <1>4, <1>5, <1>6, <1>8 DEF ParentMoved, Rests, Observed, ReceivePhases
<1> QED BY <1>7, <1>8

LEMMA ReceiveReadyMoves == ASSUME ParentInv, Numbering, ReceiveReady PROVE ParentMoved
<1> DEFINE f == Head(toParent)
           o == ResultObserve(results, "WorkerToParent", f)
<1>1. phase = "AwaitingReady" /\ toParent # <<>>
  BY DEF ReceiveReady
<1>2. ResultInv(results) /\ results.failure = NoFailure /\ Typed
  BY <1>1, LiveFacts DEF ParentInv
<1>3. f.h \in FrameHeaders
  BY <1>1, <1>2, Wired DEF Typed, IsWire
<1>4. ResultInv(o) /\ (o.failure = NoFailure => Observed(results, "WorkerToParent", f, o))
  BY <1>2, <1>3, ObservedOrRetired DEF Directions
<1>5. /\ toParent' = Tail(toParent) /\ toWorker' = toWorker
      /\ \/ phase' = "Terminal" /\ results' = Retire(o, "WorkerFailure")
         \/ phase' = "Idle" /\ results' = o /\ o.failure = NoFailure
      /\ UNCHANGED <<next_request_id, request_ids_exhausted, active_request_id, sink,
                     outcomeAtParent, asked>>
  BY DEF ReceiveReady, RetireSession
<1> HIDE DEF o, f
<1>6. Asks
  <2>1. Numbering' /\ \A i : Used(i) => Used(i)'
    BY <1>5, SameIds DEF Numbering
  <2> QED BY <1>1, <1>5, <2>1 DEF Asks
<1>7. CASE phase' = "Terminal" /\ results' = Retire(o, "WorkerFailure")
  <2>1. results'.catalog = None
    BY <1>4, <1>7, RetiredWith DEF ResultInv
  <2> QED BY <1>5, <1>6, <1>7, <2>1 DEF ParentMoved, Retires
<1>8. CASE phase' = "Idle" /\ results' = o /\ o.failure = NoFailure
  BY <1>1, <1>4, <1>5, <1>6, <1>8 DEF ParentMoved, Rests, Observed, ReceivePhases
<1> QED BY <1>5, <1>7, <1>8

LEMMA GivingUpMoves ==
    ASSUME ParentInv, Numbering,
           RequestIdsExhausted \/ ParentGivesUp \/ InvalidateSource \/ ReceiveUnexpected
    PROVE  ParentMoved
<1>1. Held(results)
  BY DEF ParentInv, ResultInv
<1>2. /\ \E e \in {"WorkerFailure", "SourceInvalidated"} :
             results' = Retire(results, e) \/ results' = Retire(Retire(results, e), e)
      /\ phase' = "Terminal" /\ toWorker' = toWorker
      /\ toParent' = toParent \/ (toParent # <<>> /\ toParent' = Tail(toParent))
      /\ UNCHANGED <<next_request_id, request_ids_exhausted, active_request_id, sink,
                     outcomeAtParent, asked>>
  <2>1. Retire(results, "WorkerFailure").failure # NoFailure
    BY <1>1, RetiredWith
  <2> QED BY <2>1 DEF RequestIdsExhausted, ParentGivesUp, InvalidateSource, ReceiveUnexpected,
                      RetireSession, Consume
<1>3. results'.catalog = None
  <2>1. PICK e \in {"WorkerFailure", "SourceInvalidated"} :
            results' = Retire(results, e) \/ results' = Retire(Retire(results, e), e)
    BY <1>2
  <2>2. Held(Retire(results, e)) /\ Retire(results, e).catalog = None
    BY <1>1, RetiredWith DEF ResultInv
  <2>3. Retire(Retire(results, e), e).catalog = None
    BY <2>2, RetiredWith
  <2> QED BY <2>1, <2>2, <2>3
<1>4. Asks
  <2>1. Numbering' /\ \A i : Used(i) => Used(i)'
    BY <1>2, SameIds DEF Numbering
  <2> QED BY <1>2, <2>1 DEF Asks
<1> QED BY <1>2, <1>3, <1>4 DEF ParentMoved, Retires

LEMMA BeginEnumerationMoves ==
    ASSUME ParentInv, Numbering, BeginEnumerationCall PROVE ParentMoved
<1> DEFINE f == Frame("Enumerate", next_request_id, <<>>)
           o == BeginEnumeration(results, f)
<1>1. phase = "Idle" /\ ~request_ids_exhausted /\ AllocateRequestId
  BY DEF BeginEnumerationCall
<1>2. ResultInv(results) /\ results.failure = NoFailure /\ Typed
  BY <1>1, LiveFacts DEF ParentInv
<1>3. f.h \in FrameHeaders /\ f.h.req = next_request_id
  BY <1>2, SentHeader DEF Typed
<1>4. /\ ResultInv(o)
      /\ o.failure = NoFailure =>
             /\ o.catalog = None
             /\ o.enumeration_counter = results.enumeration_counter + 1
             /\ The(o.candidate) = NewCandidate(results.enumeration_counter + 1)
  BY <1>2, <1>3, BeginEnumerationHolds
<1>5. /\ IF o.failure # NoFailure
         THEN /\ phase' = "Terminal" /\ results' = Retire(o, "WorkerFailure")
              /\ active_request_id' = active_request_id /\ toWorker' = toWorker
              /\ asked' = [asked EXCEPT !.enumerate = @]
         ELSE /\ phase' = "Enumerating" /\ results' = o
              /\ active_request_id' = next_request_id /\ toWorker' = Append(toWorker, f)
              /\ asked' = [asked EXCEPT !.enumerate = Append(@, next_request_id)]
      /\ streaming' = FALSE /\ toParent' = toParent /\ sink' = sink
      /\ outcomeAtParent' = outcomeAtParent
  BY DEF BeginEnumerationCall, SendTransaction, RetireSession
<1> HIDE DEF o, f
<1>6. /\ next_request_id' \in RequestIds /\ request_ids_exhausted' \in BOOLEAN
      /\ \A i : Used(i) => Used(i)'
      /\ ~Used(next_request_id)
      /\ \A i : i = next_request_id => Used(i)'
  BY <1>1, Allocated DEF Numbering
<1>7. asked'.cancel = asked.cancel
  BY <1>2, <1>5 DEF Typed
<1>8. Asks
  <2>1. Used(active_request_id)' /\ \A i : i = f.h.req => Used(i)'
    <3>1. \A i : i = active_request_id \/ i = next_request_id => Used(i)'
      BY <1>6 DEF Numbering
    <3>2. Used(active_request_id)'
      BY <1>5, <3>1 DEF Used
    <3> QED BY <1>3, <3>1, <3>2
  <2>2. Numbering'
    BY <1>6, <2>1 DEF Numbering
  <2> QED BY <1>3, <1>5, <1>6, <1>7, <2>1, <2>2 DEF Asks
<1>9. CASE o.failure # NoFailure
  <2>1. results'.catalog = None
    BY <1>4, <1>5, <1>9, RetiredWith DEF ResultInv
  <2> QED BY <1>5, <1>8, <1>9, <2>1 DEF ParentMoved, Retires
<1>10. CASE o.failure = NoFailure
  BY <1>1, <1>4, <1>5, <1>6, <1>8, <1>10 DEF ParentMoved, EnumerationStarts
<1> QED BY <1>9, <1>10

LEMMA BeginStreamMoves ==
    ASSUME ParentInv, Numbering, NEW generation, NEW token, BeginStreamCall(generation, token)
    PROVE  ParentMoved
<1> DEFINE f == Frame("StreamEntry", next_request_id, <<token>>)
           o == BeginStreamEntry(results, f, generation)
<1>1. phase = "Idle" /\ ~request_ids_exhausted /\ AllocateRequestId
  BY DEF BeginStreamCall
<1>2. ResultInv(results) /\ results.failure = NoFailure /\ Typed
  BY <1>1, LiveFacts DEF ParentInv
<1>3. f.h \in FrameHeaders /\ f.h.req = next_request_id
  BY <1>2, SentHeader DEF Typed
<1>4. /\ ResultInv(o)
      /\ o.failure = NoFailure =>
             /\ o.catalog = results.catalog
             /\ o.enumeration_counter = results.enumeration_counter
  BY <1>2, <1>3, BeginStreamEntryHolds
<1>5. /\ IF o.failure # NoFailure
         THEN /\ phase' = "Terminal" /\ results' = Retire(o, "WorkerFailure")
              /\ active_request_id' = active_request_id /\ toWorker' = toWorker
         ELSE /\ phase' = "Streaming" /\ results' = o
              /\ active_request_id' = next_request_id /\ toWorker' = Append(toWorker, f)
      /\ streaming' = TRUE /\ toParent' = toParent /\ sink' = <<>>
      /\ outcomeAtParent' = outcomeAtParent
      /\ asked' = [asked EXCEPT !.size = IF o.failure = NoFailure THEN The(o.stream) ELSE 0]
  BY DEF BeginStreamCall, SendTransaction, RetireSession
<1> HIDE DEF o, f
<1>6. /\ next_request_id' \in RequestIds /\ request_ids_exhausted' \in BOOLEAN
      /\ \A i : Used(i) => Used(i)'
      /\ ~Used(next_request_id)
      /\ \A i : i = next_request_id => Used(i)'
  BY <1>1, Allocated DEF Numbering
<1>7. asked'.cancel = asked.cancel /\ asked'.enumerate = asked.enumerate
  BY <1>2, <1>5 DEF Typed
<1>8. Asks
  <2>1. Used(active_request_id)' /\ \A i : i = f.h.req => Used(i)'
    <3>1. \A i : i = active_request_id \/ i = next_request_id => Used(i)'
      BY <1>6 DEF Numbering
    <3>2. Used(active_request_id)'
      BY <1>5, <3>1 DEF Used
    <3> QED BY <1>3, <3>1, <3>2
  <2>2. Numbering'
    BY <1>6, <2>1 DEF Numbering
  <2> QED BY <1>3, <1>5, <1>6, <1>7, <2>1, <2>2 DEF Asks
<1>9. CASE o.failure # NoFailure
  <2>1. results'.catalog = None
    BY <1>4, <1>5, <1>9, RetiredWith DEF ResultInv
  <2> QED BY <1>5, <1>8, <1>9, <2>1 DEF ParentMoved, Retires
<1>10. CASE o.failure = NoFailure
  BY <1>1, <1>4, <1>5, <1>6, <1>7, <1>8, <1>10 DEF ParentMoved, StreamStarts
<1> QED BY <1>9, <1>10

LEMMA RequestCancelMoves == ASSUME ParentInv, Numbering, RequestCancel PROVE ParentMoved
<1> DEFINE f == Frame("Cancel", active_request_id, <<>>)
           o == AcceptCancel(results, f)
<1>1. phase \in {"Enumerating", "Streaming"}
  BY DEF RequestCancel
<1>2. ResultInv(results) /\ results.failure = NoFailure /\ Typed
  BY <1>1, LiveFacts DEF ParentInv
<1>3. f.h \in FrameHeaders /\ f.h.req = active_request_id
  BY <1>2, SentHeader DEF Typed
<1>4. /\ ResultInv(o)
      /\ o.failure = NoFailure =>
             /\ o.catalog = None /\ o.enumeration_counter = results.enumeration_counter
  BY <1>2, <1>3, AcceptCancelHolds
<1>5. /\ IF o.failure # NoFailure
         THEN phase' = "Terminal" /\ results' = Retire(o, "WorkerFailure") /\ toWorker' = toWorker
         ELSE phase' = "Cancelling" /\ results' = o /\ toWorker' = Append(toWorker, f)
      /\ asked' = [asked EXCEPT !.cancel = @ \cup {active_request_id}]
      /\ UNCHANGED <<next_request_id, request_ids_exhausted, active_request_id,
                     streaming, sink, outcomeAtParent, toParent>>
  BY DEF RequestCancel, SendTransaction, RetireSession
<1> HIDE DEF o, f
<1>6. /\ asked'.cancel = asked.cancel \cup {active_request_id}
      /\ asked'.enumerate = asked.enumerate
  BY <1>2, <1>5 DEF Typed
<1>7. Asks
  <2>1. Numbering' /\ \A i : Used(i) => Used(i)'
    BY <1>5, SameIds DEF Numbering
  <2>2. \A i : i = f.h.req => Used(i)'
    BY <1>3, <2>1 DEF Numbering
  <2> QED BY <1>3, <1>5, <1>6, <2>1, <2>2 DEF Asks
<1>8. CASE o.failure # NoFailure
  <2>1. results'.catalog = None
    BY <1>4, <1>5, <1>8, RetiredWith DEF ResultInv
  <2> QED BY <1>5, <1>7, <1>8, <2>1 DEF ParentMoved, Retires
<1>9. CASE o.failure = NoFailure
  BY <1>1, <1>4, <1>5, <1>6, <1>7, <1>9 DEF ParentMoved, CancelStarts
<1> QED BY <1>8, <1>9

LEMMA ShutdownMoves == ASSUME ParentInv, Numbering, ShutdownCall PROVE ParentMoved
<1> DEFINE f == Frame("Shutdown", 0, <<>>)
           o == AcceptShutdown(results, f)
<1>1. phase \in {"Idle", "Cancelled"}
  BY DEF ShutdownCall
<1>2. ResultInv(results) /\ results.failure = NoFailure
  BY <1>1, LiveFacts
<1>3. f.h \in FrameHeaders /\ f.h.req = 0
  BY SentHeader
<1>4. /\ ResultInv(o)
      /\ o.failure = NoFailure =>
             /\ o.catalog = None /\ o.enumeration_counter = results.enumeration_counter
  BY <1>2, <1>3, SessionEndHolds
<1>5. /\ IF o.failure # NoFailure
         THEN phase' = "Terminal" /\ results' = Retire(o, "WorkerFailure") /\ toWorker' = toWorker
         ELSE phase' = "Closed" /\ results' = o /\ toWorker' = Append(toWorker, f)
      /\ active_request_id' = 0
      /\ UNCHANGED <<next_request_id, request_ids_exhausted, sink, outcomeAtParent, asked,
                     toParent>>
  BY DEF ShutdownCall, SendTransaction, RetireSession
<1> HIDE DEF o, f
<1>6. Asks
  <2>1. Numbering' /\ \A i : Used(i) => Used(i)'
    BY <1>5, SameIds, ZeroIsUsed
  <2>2. Used(f.h.req)'
    BY <1>3, <1>5, ZeroIsUsed DEF Used
  <2> QED BY <1>3, <1>5, <2>1, <2>2 DEF Asks
<1>7. CASE o.failure # NoFailure
  <2>1. results'.catalog = None
    BY <1>4, <1>5, <1>7, RetiredWith DEF ResultInv
  <2> QED BY <1>5, <1>6, <1>7, <2>1 DEF ParentMoved, Retires
<1>8. CASE o.failure = NoFailure
  BY <1>1, <1>4, <1>5, <1>6, <1>8 DEF ParentMoved, Rests, ReceivePhases
<1> QED BY <1>7, <1>8

LEMMA ReceiveResultMoves ==
    ASSUME ParentInv, Numbering, NEW sinkOk \in BOOLEAN, ReceiveResult(sinkOk)
    PROVE  ParentMoved
<1> DEFINE f == Head(toParent)
           misplaced == phase = "Enumerating" \/ (phase = "Cancelling" /\ ~streaming)
           o == IF f.h.type = "EntryBatch" THEN AcceptEntryBatch(results, f)
                ELSE IF misplaced THEN Retire(results, "WorkerFailure")
                ELSE AcceptDataChunk(results, f, sinkOk)
           c == The(results.candidate)
<1>1. /\ phase \in ReceivePhases /\ phase # "Terminal" /\ toParent # <<>>
      /\ f.h.type \in {"EntryBatch", "DataChunk"}
  BY DEF ReceiveResult, ReceivePhases
<1>2. /\ ResultInv(results) /\ results.failure = NoFailure /\ Held(results) /\ Typed /\ PhaseInv
  BY <1>1, LiveFacts DEF ParentInv
<1>3. /\ f.h \in FrameHeaders
      /\ f.h.type = "EntryBatch" => f.body \in Seq(Entries)
      /\ f.h.type = "DataChunk" => f.body \in Seq(Nat)
  BY <1>1, <1>2, Wired DEF Typed, IsWire
<1>4. ResultInv(Retire(results, "WorkerFailure"))
      /\ Retire(results, "WorkerFailure").failure # NoFailure
  BY <1>2, RetiredWith
<1>5. f.h.type = "EntryBatch" =>
        /\ ResultInv(o)
        /\ o.failure = NoFailure =>
               /\ Effects(results.protocol, "WorkerToParent", f.h, o.protocol)
               /\ The(o.candidate).promotable = c.promotable
               /\ The(o.candidate).generation = c.generation
               /\ c.promotable => The(o.candidate).entries = c.entries \o f.body
               /\ o.catalog = results.catalog
               /\ o.enumeration_counter = results.enumeration_counter
  BY <1>2, <1>3, AcceptEntryBatchHolds
<1>6. f.h.type = "DataChunk" =>
        /\ ResultInv(o)
        /\ o.failure = NoFailure =>
               /\ Effects(results.protocol, "WorkerToParent", f.h, o.protocol) /\ ~misplaced
               /\ o.candidate = results.candidate /\ o.catalog = results.catalog
               /\ o.enumeration_counter = results.enumeration_counter
  BY <1>2, <1>3, <1>4, AcceptDataChunkHolds
<1>7. /\ sink' = IF o.failure = NoFailure /\ f.h.type = "DataChunk" THEN sink \o f.body ELSE sink
      /\ IF o.failure # NoFailure
         THEN phase' = "Terminal" /\ results' = Retire(o, "WorkerFailure")
         ELSE phase' = phase /\ results' = o
      /\ toParent' = Tail(toParent)
      /\ UNCHANGED <<next_request_id, request_ids_exhausted, active_request_id, streaming,
                     outcomeAtParent, asked, toWorker>>
  BY DEF ReceiveResult, Consume, RetireSession
<1> HIDE DEF o
<1>8. Asks
  <2>1. Numbering' /\ \A i : Used(i) => Used(i)'
    BY <1>7, SameIds DEF Numbering
  <2> QED BY <1>1, <1>7, <2>1 DEF Asks
<1>9. CASE o.failure # NoFailure
  <2>1. Held(o)
    BY <1>1, <1>5, <1>6 DEF ResultInv
  <2>2. results'.catalog = None
    BY <1>7, <1>9, <2>1, RetiredWith
  <2> QED BY <1>7, <1>8, <1>9, <2>2 DEF ParentMoved, Retires
<1>10. CASE o.failure = NoFailure
  <2>1. f.h.req = results.protocol.active_request_id
    BY <1>1, <1>5, <1>6, <1>10 DEF Effects
  <2>2. f.h.req = active_request_id
    BY <1>1, <1>2, <2>1 DEF PhaseInv
  <2>3. o.enumeration_counter = results.enumeration_counter /\ o.catalog = results.catalog
    BY <1>1, <1>5, <1>6, <1>10
  <2>4. Arrives
    BY <1>1, <1>7, <1>10, <2>3 DEF Arrives
  <2>5. Takes
    BY <1>1, <1>5, <1>6, <1>7, <1>10, <2>2, <2>3, <2>4 DEF Takes, ReceivePhases
  <2> QED BY <1>8, <2>5 DEF ParentMoved
<1> QED BY <1>9, <1>10

LEMMA ReceiveTerminalMoves == ASSUME ParentInv, Numbering, ReceiveTerminal PROVE ParentMoved
<1> DEFINE f == Head(toParent)
           o == CASE f.h.type = "CancelAck" -> AcceptCancelAck(results, f)
                  [] f.h.type = "Complete" /\ streaming -> CompleteStream(results, f)
                  [] OTHER -> CompleteEnumeration(results, f)
           legal == f.h.type = "Complete" \/ phase = "Cancelling"
           done == IF legal THEN o ELSE Retire(o, "WorkerFailure")
           next == TerminalPhase(f.h.type)
           c == The(results.candidate)
           promoted == Some([generation |-> c.generation, entries |-> c.entries])
<1>1. /\ phase \in ReceivePhases /\ phase # "Terminal" /\ toParent # <<>>
      /\ f.h.type \in {"Complete", "CancelAck"}
  BY DEF ReceiveTerminal, ReceivePhases
<1>2. ResultInv(results) /\ results.failure = NoFailure /\ Typed /\ PhaseInv
  BY <1>1, LiveFacts DEF ParentInv
<1>3. f.h \in FrameHeaders
  BY <1>1, <1>2, Wired DEF Typed, IsWire
<1>4. f.h.type = "CancelAck" =>
        /\ ResultInv(o)
        /\ o.failure = NoFailure =>
               /\ Effects(results.protocol, "WorkerToParent", f.h, o.protocol)
               /\ o.catalog = None /\ o.enumeration_counter = results.enumeration_counter
  BY <1>2, <1>3, SessionEndHolds
<1>5. f.h.type = "Complete" /\ streaming =>
        /\ ResultInv(o)
        /\ o.failure = NoFailure =>
               /\ Effects(results.protocol, "WorkerToParent", f.h, o.protocol)
               /\ o.catalog = results.catalog
               /\ o.enumeration_counter = results.enumeration_counter
  BY <1>2, <1>3, CompleteStreamHolds
<1>6. f.h.type = "Complete" /\ ~streaming =>
        /\ ResultInv(o)
        /\ o.failure = NoFailure =>
               /\ Effects(results.protocol, "WorkerToParent", f.h, o.protocol)
               /\ results.candidate # None
               /\ ~c.promotable => o.catalog = results.catalog
               /\ c.promotable => o.catalog = promoted
               /\ o.enumeration_counter = results.enumeration_counter
  BY <1>2, <1>3, CompleteEnumerationHolds
<1> HIDE DEF o
<1>7. /\ ResultInv(o)
      /\ o.failure = NoFailure =>
             /\ Effects(results.protocol, "WorkerToParent", f.h, o.protocol)
             /\ o.enumeration_counter = results.enumeration_counter
             /\ \/ o.catalog \in {None, results.catalog}
                \/ /\ f.h.type = "Complete" /\ ~streaming /\ phase # "Cancelling"
                   /\ o.catalog = promoted
  <2> SUFFICES ASSUME o.failure = NoFailure, f.h.type = "Complete", ~streaming
               PROVE  \/ o.catalog \in {None, results.catalog}
                      \/ phase # "Cancelling" /\ o.catalog = promoted
    <3> HIDE DEF promoted
    <3> QED BY <1>1, <1>4, <1>5, <1>6
  <2>1. phase = "Cancelling" => ~c.promotable
    BY <1>2, <1>6 DEF PhaseInv
  <2> HIDE DEF promoted
  <2> QED BY <1>6, <2>1
<1>8. ResultInv(done) /\ (done.failure = NoFailure => done = o)
  BY <1>7, RetiredWith DEF ResultInv
<1>9. /\ toParent' = Tail(toParent)
      /\ active_request_id' = IF done.failure = NoFailure THEN 0 ELSE active_request_id
      /\ IF done.failure # NoFailure
         THEN /\ phase' = "Terminal" /\ results' = Retire(done, "WorkerFailure")
              /\ outcomeAtParent' = outcomeAtParent
         ELSE /\ phase' = next /\ results' = done
              /\ outcomeAtParent' = [outcomeAtParent EXCEPT ![active_request_id] =
                                         IF next = "Idle" THEN "complete" ELSE "cancelled"]
      /\ UNCHANGED <<next_request_id, request_ids_exhausted, streaming, sink, asked, toWorker>>
  BY DEF ReceiveTerminal, Consume, RetireSession, o
<1> HIDE DEF done, promoted
<1>10. Asks
  <2>1. Used(active_request_id')
    BY <1>9, ZeroIsUsed DEF Numbering
  <2>2. Numbering' /\ \A i : Used(i) => Used(i)'
    BY <1>9, <2>1, SameIds
  <2> QED BY <1>1, <1>9, <2>2 DEF Asks
<1>11. CASE done.failure # NoFailure
  <2>1. results'.catalog = None
    BY <1>8, <1>9, <1>11, RetiredWith DEF ResultInv
  <2> QED BY <1>9, <1>10, <1>11, <2>1 DEF ParentMoved, Retires
<1>12. CASE done.failure = NoFailure
  <2>1. /\ f.h.req = results.protocol.active_request_id /\ next \in {"Idle", "Cancelled"}
        /\ next = "Idle" <=> f.h.type = "Complete"
    BY <1>1, <1>7, <1>8, <1>12 DEF Effects, TerminalPhase
  <2>2. f.h.req = active_request_id
    BY <1>1, <1>2, <2>1 DEF PhaseInv
  <2>3. Arrives
    BY <1>1, <1>7, <1>8, <1>9, <1>12 DEF Arrives
  <2> HIDE DEF next
  <2>4. EndsRequest
    BY <1>1, <1>7, <1>8, <1>9, <1>12, <2>1, <2>2, <2>3
       DEF EndsRequest, ReceivePhases, Terminals, promoted
  <2> QED BY <1>10, <2>4 DEF ParentMoved
<1> QED BY <1>11, <1>12

LEMMA ReceiveReadRequestMoves ==
    ASSUME ParentInv, Numbering, NEW status \in ServiceOutcomes, NEW delivered \in BOOLEAN,
           ReceiveReadRequest(status, delivered)
    PROVE  ParentMoved
<1> DEFINE f == Head(toParent)
           p == Prepare(reads, results, f, status)
           replying == p.b.failure = NoFailure /\ p.b.pending # None
           q == IF replying THEN IF delivered THEN CommitReplySent(p.b, p.r)
                                 ELSE AbandonReply(p.b, p.r)
                ELSE p
           legal == q.b.failure = NoFailure /\ (replying \/ phase = "Cancelling")
           done == IF legal THEN q.r ELSE Retire(q.r, "WorkerFailure")
           reply == PreparedReply(p.b)
<1>1. /\ phase \in ReceivePhases /\ phase # "Terminal" /\ toParent # <<>>
      /\ f.h.type = "ReadRequest"
  BY DEF ReceiveReadRequest, ReceivePhases
<1>2. /\ ResultInv(results) /\ results.failure = NoFailure
      /\ results.protocol.state = StateOf(phase)
      /\ BrokerInv(reads) /\ reads.failure = NoFailure /\ reads.pending = None
      /\ Typed /\ PhaseInv
  BY <1>1, LiveFacts DEF ParentInv
<1>3. f.h \in FrameHeaders /\ f.body[1] \in Nat /\ f.body[2] \in Nat
  BY <1>1, <1>2, Wired DEF Typed, IsWire
<1>4. \/ /\ BrokerInv(p.b) /\ p.b.failure # NoFailure
         /\ ResultInv(p.r) /\ p.r.failure # NoFailure
      \/ /\ p.b = reads /\ ResultInv(p.r) /\ p.r.failure = NoFailure
         /\ SameResults(results, p.r)
      \/ /\ Owes(p.b, p.r) /\ ResultInv(p.r) /\ p.r.failure = NoFailure
         /\ SameResults(results, p.r)
  BY <1>1, <1>2, <1>3, OutcomesAreStatuses, PrepareHolds
<1>5. /\ toParent' = Tail(toParent)
      /\ toWorker' = IF replying /\ delivered THEN Append(toWorker, reply) ELSE toWorker
      /\ IF done.failure # NoFailure
         THEN phase' = "Terminal" /\ results' = Retire(done, "WorkerFailure")
         ELSE phase' = phase /\ results' = done
      /\ UNCHANGED <<next_request_id, request_ids_exhausted, active_request_id, streaming,
                     sink, outcomeAtParent, asked>>
  BY DEF ReceiveReadRequest, AnswerRead, SettleReply, AfterRead, Replying, Consume,
    RetireSession
<1> HIDE DEF p, reply
<1>6. replying => Owes(p.b, p.r) /\ ResultInv(p.r) /\ p.r.failure = NoFailure
                  /\ SameResults(results, p.r)
  BY <1>2, <1>4
<1>7. /\ ResultInv(q.r)
      /\ q.r.failure = NoFailure => SameResults(results, q.r)
  <2>1. CASE replying /\ delivered
    <3>1. q = CommitReplySent(p.b, p.r)
      BY <2>1
    <3> HIDE DEF q
    <3>2. ResultInv(q.r) /\ (q.r.failure = NoFailure => SameResults(p.r, q.r))
      BY <1>6, <2>1, <3>1, CommitHolds
    <3> QED BY <1>6, <2>1, <3>2 DEF SameResults, Keeps
  <2>2. CASE replying /\ ~delivered
    <3>1. q = AbandonReply(p.b, p.r)
      BY <2>2
    <3> HIDE DEF q
    <3> QED BY <1>6, <2>2, <3>1, AbandonHolds
  <2>3. CASE ~replying
    <3>1. q = p
      BY <2>3
    <3> HIDE DEF q
    <3> QED BY <1>4, <3>1
  <2> QED BY <2>1, <2>2, <2>3
<1> HIDE DEF q
<1>8. ResultInv(done) /\ (done.failure = NoFailure => SameResults(results, done))
  BY <1>7, RetiredWith DEF ResultInv
<1> HIDE DEF done
<1>9. replying => reply.h \in FrameHeaders /\ reply.h.req = active_request_id
  <2> SUFFICES ASSUME replying
               PROVE  reply.h \in FrameHeaders /\ reply.h.req = active_request_id
    OBVIOUS
  <2>1. /\ The(p.b.pending) \in Pendings
        /\ The(p.b.pending).request_id = results.protocol.last_request_id
    BY <1>6 DEF Owes, SameResults, Keeps
  <2>2. reply.h \in FrameHeaders /\ reply.h.req = results.protocol.last_request_id
    BY <2>1, ReplyHeader DEF reply
  <2>3. results.protocol.state \in RequestStates /\ results.protocol.error = NoError
    BY <1>1, <1>2 DEF ResultInv, StateOf, ReceivePhases, RequestStates
  <2>4. results.protocol.active_request_id = results.protocol.last_request_id
    BY <1>2, <2>3 DEF ResultInv, Held, Sound, Consistent
  <2> QED BY <1>1, <1>2, <2>2, <2>4 DEF PhaseInv
<1> HIDE DEF replying
<1>10. Asks
  <2>1. Numbering' /\ \A i : Used(i) => Used(i)'
    BY <1>5, SameIds DEF Numbering
  <2>2. replying => \A i : i = reply.h.req => Used(i)'
    BY <1>9, <2>1 DEF Numbering
  <2> QED BY <1>1, <1>5, <1>9, <2>1, <2>2 DEF Asks
<1>11. CASE done.failure # NoFailure
  <2>1. results'.catalog = None
    BY <1>5, <1>8, <1>11, RetiredWith DEF ResultInv
  <2> QED BY <1>5, <1>10, <1>11, <2>1 DEF ParentMoved, Retires
<1>12. CASE done.failure = NoFailure
  <2>1. Takes
    BY <1>1, <1>5, <1>8, <1>12 DEF Takes, Arrives, SameResults
  <2> QED BY <1>10, <2>1 DEF ParentMoved
<1> QED BY <1>11, <1>12

LEMMA ParentMoves == ASSUME ParentInv, Numbering, ParentNext PROVE ParentMoved
<1>1. CASE SendHello
  BY <1>1, SendHelloMoves
<1>2. CASE RequestIdsExhausted \/ ParentGivesUp \/ InvalidateSource \/ ReceiveUnexpected
  BY <1>2, GivingUpMoves
<1>3. CASE BeginEnumerationCall
  BY <1>3, BeginEnumerationMoves
<1>4. ASSUME NEW generation \in RequestIds, NEW token \in Tokens,
             BeginStreamCall(generation, token)
      PROVE  ParentMoved
  BY <1>4, BeginStreamMoves
<1>5. CASE RequestCancel
  BY <1>5, RequestCancelMoves
<1>6. CASE ShutdownCall
  BY <1>6, ShutdownMoves
<1>7. CASE ReceiveReady
  BY <1>7, ReceiveReadyMoves
<1>8. ASSUME NEW ok \in BOOLEAN, ReceiveResult(ok) PROVE ParentMoved
  BY <1>8, ReceiveResultMoves
<1>9. CASE ReceiveTerminal
  BY <1>9, ReceiveTerminalMoves
<1>10. ASSUME NEW status \in ServiceOutcomes, NEW delivered \in BOOLEAN,
              ReceiveReadRequest(status, delivered)
       PROVE  ParentMoved
  BY <1>10, ReceiveReadRequestMoves
<1> QED
  BY <1>1, <1>2, <1>3, <1>4, <1>5, <1>6, <1>7, <1>8, <1>9, <1>10 DEF ParentNext, ParentReceive

-----------------------------------------------------------------------------
(* The two ends together.  Only ids that were given out are in flight.       *)
Pipes ==
    /\ \A k \in 1..Len(toWorker) : Used(toWorker[k].h.req)
    /\ \A k \in 1..Len(toParent) : toParent[k].h.type # "Ready" => Used(toParent[k].h.req)
    /\ \A i \in asked.cancel : Used(i)

Histories ==
    /\ outcomeAtParent \in [RequestIds -> Outcomes]
    /\ outcomeAtWorker \in [RequestIds -> Outcomes]
    /\ emitted \in [RequestIds -> Seq(Entries)]
    /\ \A i \in RequestIds : ~Used(i) => emitted[i] = <<>>

(* A running worker has not ended the request it works on, nor any later. *)
Unfinished == InDispatch \/ (outbox # None /\ The(outbox).h.type \in Terminals)

Reporting ==
    Running =>
        /\ Numbers(service) /\ Used(wv.last_request_id)
        /\ \A i \in RequestIds : i > wv.last_request_id => outcomeAtWorker[i] = "open"
        /\ Unfinished => /\ wv.last_request_id \in RequestIds
                         /\ outcomeAtWorker[wv.last_request_id] = "open"
        /\ outbox # None => Addressed(The(outbox))

(* A terminal frame tells how the worker ended its request, and nothing of   *)
(* that request follows it.                                                  *)
EndOf(type) == IF type = "Complete" THEN "complete" ELSE "cancelled"

Told ==
    /\ \A k \in 1..Len(toParent) :
           toParent[k].h.type \in Terminals =>
               /\ toParent[k].h.req \in RequestIds
               /\ outcomeAtWorker[toParent[k].h.req] = EndOf(toParent[k].h.type)
    /\ \A j, k \in 1..Len(toParent) :
           j < k /\ toParent[j].h.type \in Terminals /\ toParent[k].h.type # "Ready" =>
               toParent[k].h.req # toParent[j].h.req

(* The chunks in the pipe lead from the end of the sink to where the worker  *)
(* stands in the stream.                                                     *)
StreamIsOpen == phase = "Streaming" \/ (phase = "Cancelling" /\ streaming)

Leads(to) ==
    /\ Streams(toParent, active_request_id, Len(sink), to)
    /\ Running /\ InDispatch /\ wv.last_request_id = active_request_id => to = Sofar
    /\ Running /\ wv.last_request_id < active_request_id => to = 0

Streamed ==
    /\ phase = "Enumerating" => ~streaming
    /\ phase = "Streaming" => streaming
    /\ \A i \in 1..Len(sink) : sink[i] = i
    /\ StreamIsOpen => \E to : Leads(to)

(* The batches in the pipe lead from the candidate to all that was reported, *)
(* and the catalog is all that an ended enumeration reported.                *)
Collected ==
    LET c == The(results.candidate) IN
    /\ c.promotable /\ c.generation = Len(asked.enumerate)
    /\ asked.enumerate # <<>> /\ asked.enumerate[Len(asked.enumerate)] = active_request_id
    /\ Lists(toParent, active_request_id, c.entries, emitted[active_request_id])

Promoted ==
    LET c == The(results.catalog)
        request == asked.enumerate[c.generation] IN
    /\ c.generation = results.enumeration_counter
    /\ request \in RequestIds
    /\ c.entries = emitted[request]
    /\ outcomeAtWorker[request] = "complete"
    /\ request \notin asked.cancel

Catalogued ==
    /\ phase \in {"Enumerating", "Streaming"} => active_request_id \notin asked.cancel
    /\ phase # "Terminal" => results.enumeration_counter = Len(asked.enumerate)
    /\ phase = "Enumerating" => Collected
    /\ results.catalog # None => Promoted

SessionInv ==
    /\ ParentInv /\ WorkerInv
    /\ Numbering /\ Pipes /\ Histories /\ Reporting
    /\ Told /\ OutcomeAgreement /\ Streamed /\ Catalogued

\* The pipes as sequences.
LEMMA FramedTail ==
    ASSUME NEW q, Framed(q), q # << >>
    PROVE  /\ Len(q) \in Nat \ {0} /\ Len(Tail(q)) = Len(q) - 1 /\ Head(q) = q[1]
           /\ \A k \in 1..Len(q) - 1 : Tail(q)[k] = q[k + 1]
BY DEF Framed

LEMMA FramedAppend ==
    ASSUME NEW q, Framed(q), NEW f
    PROVE  /\ Len(q) \in Nat /\ Len(Append(q, f)) = Len(q) + 1
           /\ Append(q, f)[Len(q) + 1] = f
           /\ \A k \in 1..Len(q) : Append(q, f)[k] = q[k]
BY DEF Framed

\* The request open at the parent has an id.
LEMMA OpenIsNumbered ==
    ASSUME ParentInv, Numbering, phase \in ReceivePhases
    PROVE  active_request_id \in RequestIds
<1>1. /\ results.protocol.state \in RequestStates /\ results.protocol.error = NoError
      /\ ResultInv(results) /\ active_request_id = results.protocol.active_request_id
  BY LiveFacts DEF ParentInv, PhaseInv, ResultInv, StateOf, ReceivePhases, RequestStates
<1>2. active_request_id # 0
  BY <1>1 DEF ResultInv, Held, Sound, Consistent
<1> QED BY <1>2, ResultLimitsAssumption DEF Numbering, Used, RequestIds

LEMMA ParentKeepsPipes ==
    ASSUME SessionInv, ParentMoved, UNCHANGED workerVars
    PROVE  Numbering' /\ Pipes' /\ Framed(toWorker') /\ Reporting'
<1>1. /\ Numbering' /\ (\A i : Used(i) => Used(i)')
      /\ asked'.cancel \subseteq asked.cancel \cup {active_request_id}
      /\ \/ toWorker' = toWorker
         \/ \E f : /\ f.h \in FrameHeaders /\ Used(f.h.req)'
                   /\ toWorker' = Append(toWorker, f)
      /\ toParent' = toParent \/ (toParent # <<>> /\ toParent' = Tail(toParent))
  BY DEF ParentMoved, Asks
<1>2. Framed(toWorker) /\ OnWire(toParent) /\ Pipes /\ Numbering /\ Reporting
  BY DEF SessionInv, WorkerInv, ParentInv, Typed
<1>3. Framed(toWorker') /\ \A k \in 1..Len(toWorker') : \A i : i = toWorker'[k].h.req => Used(i)'
  <2>1. CASE toWorker' = toWorker
    BY <1>1, <1>2, <2>1 DEF Pipes
  <2>2. ASSUME NEW f, f.h \in FrameHeaders, Used(f.h.req)', toWorker' = Append(toWorker, f)
        PROVE  Framed(toWorker')
               /\ \A k \in 1..Len(toWorker') : \A i : i = toWorker'[k].h.req => Used(i)'
    <3>1. /\ Len(toWorker) \in Nat /\ Len(toWorker') = Len(toWorker) + 1
          /\ toWorker'[Len(toWorker) + 1] = f
          /\ \A k \in 1..Len(toWorker) : toWorker'[k] = toWorker[k]
      BY <1>2, <2>2, FramedAppend
    <3>2. ASSUME NEW k \in 1..Len(toWorker') PROVE \A i : i = toWorker'[k].h.req => Used(i)'
      <4>1. CASE k = Len(toWorker) + 1
        BY <2>2, <3>1, <4>1
      <4>2. CASE k # Len(toWorker) + 1
        <5>1. k \in 1..Len(toWorker) /\ toWorker'[k] = toWorker[k]
          BY <3>1, <4>2
        <5> QED BY <1>1, <1>2, <5>1 DEF Pipes
      <4> QED BY <4>1, <4>2
    <3> QED BY <1>2, <2>2, <3>2, Framing
  <2> QED BY <1>1, <2>1, <2>2
<1>4. \A k \in 1..Len(toParent') :
          toParent'[k].h.type # "Ready" => \A i : i = toParent'[k].h.req => Used(i)'
  <2>1. CASE toParent' = toParent
    BY <1>1, <1>2, <2>1 DEF Pipes
  <2>2. CASE toParent # <<>> /\ toParent' = Tail(toParent)
    <3>1. /\ Len(toParent) \in Nat \ {0} /\ Len(toParent') = Len(toParent) - 1
          /\ \A k \in 1..Len(toParent) - 1 : toParent'[k] = toParent[k + 1]
      BY <1>2, <2>2, WireTail
    <3>2. ASSUME NEW k \in 1..Len(toParent')
          PROVE  k + 1 \in 1..Len(toParent) /\ toParent'[k] = toParent[k + 1]
      BY <3>1
    <3> QED BY <1>1, <1>2, <3>2 DEF Pipes
  <2> QED BY <1>1, <2>1, <2>2
<1>5. \A i \in asked'.cancel : Used(i)'
  BY <1>1, <1>2 DEF Pipes, Numbering
<1>6. Pipes'
  BY <1>3, <1>4, <1>5 DEF Pipes
<1>7. Reporting'
  <2>1. UNCHANGED <<wv, service, pc, outbox, outcomeAtWorker>>
    BY DEF workerVars
  <2>2. Used(wv.last_request_id) => Used(wv.last_request_id)'
    BY <1>1, <2>1 DEF Used
  <2> QED BY <1>2, <2>1, <2>2
          DEF Reporting, Running, Unfinished, InDispatch, Addressed, Sofar
<1> QED BY <1>1, <1>3, <1>6, <1>7

LEMMA ParentKeepsTold ==
    ASSUME SessionInv, ParentMoved, UNCHANGED workerVars
    PROVE  Told' /\ Histories' /\ OutcomeAgreement'
<1>1. /\ \A i : Used(i) => Used(i)'
      /\ toParent' = toParent \/ (toParent # <<>> /\ toParent' = Tail(toParent))
  BY DEF ParentMoved, Asks
<1>2. /\ OnWire(toParent) /\ Told /\ Histories /\ OutcomeAgreement
      /\ ParentInv /\ Numbering
  BY DEF SessionInv, ParentInv, Typed
<1>3. UNCHANGED <<outcomeAtWorker, emitted>>
  BY DEF workerVars
<1>4. Told'
  <2>1. CASE toParent' = toParent
    BY <1>2, <1>3, <2>1 DEF Told
  <2>2. CASE toParent # <<>> /\ toParent' = Tail(toParent)
    <3>1. /\ Len(toParent) \in Nat \ {0} /\ Len(toParent') = Len(toParent) - 1
          /\ \A k \in 1..Len(toParent) - 1 : toParent'[k] = toParent[k + 1]
      BY <1>2, <2>2, WireTail
    <3>2. ASSUME NEW k \in 1..Len(toParent')
          PROVE  k + 1 \in 1..Len(toParent) /\ toParent'[k] = toParent[k + 1]
      BY <3>1
    <3>3. ASSUME NEW k \in 1..Len(toParent'), toParent'[k].h.type \in Terminals
          PROVE  /\ toParent'[k].h.req \in RequestIds
                 /\ outcomeAtWorker'[toParent'[k].h.req] = EndOf(toParent'[k].h.type)
      BY <1>2, <1>3, <3>2, <3>3 DEF Told
    <3>4. ASSUME NEW j \in 1..Len(toParent'), NEW k \in 1..Len(toParent'), j < k,
                 toParent'[j].h.type \in Terminals, toParent'[k].h.type # "Ready"
          PROVE  toParent'[k].h.req # toParent'[j].h.req
      <4>1. j + 1 < k + 1
        BY <3>1, <3>4
      <4> QED BY <1>2, <3>2, <3>4, <4>1 DEF Told
    <3> QED BY <3>3, <3>4 DEF Told
  <2> QED BY <1>1, <2>1, <2>2
<1>5. \/ outcomeAtParent' = outcomeAtParent
      \/ /\ active_request_id \in RequestIds
         /\ outcomeAtParent' = [outcomeAtParent EXCEPT ![active_request_id] =
                                    outcomeAtWorker[active_request_id]]
  <2>1. CASE EndsRequest
    <3>1. /\ toParent # <<>> /\ Head(toParent).h.type \in Terminals
          /\ Head(toParent).h.req = active_request_id
          /\ outcomeAtParent' = [outcomeAtParent EXCEPT ![active_request_id] =
                                     EndOf(Head(toParent).h.type)]
      BY <2>1 DEF EndsRequest, Arrives, EndOf
    <3>2. Head(toParent) = toParent[1] /\ 1 \in 1..Len(toParent)
      BY <1>2, <3>1, WireTail
    <3> QED BY <1>2, <3>1, <3>2 DEF Told
  <2>2. CASE ~EndsRequest
    BY <2>2 DEF ParentMoved, Retires, Rests, EnumerationStarts, StreamStarts, CancelStarts,
                Takes
  <2> QED BY <2>1, <2>2
<1>6. Histories'
  <2>1. outcomeAtParent' \in [RequestIds -> Outcomes]
    BY <1>2, <1>5 DEF Histories
  <2>2. \A i \in RequestIds : ~Used(i)' => emitted'[i] = <<>>
    BY <1>1, <1>2, <1>3 DEF Histories
  <2> QED BY <1>2, <1>3, <2>1, <2>2 DEF Histories
<1>7. OutcomeAgreement'
  BY <1>2, <1>3, <1>5 DEF OutcomeAgreement, Histories
<1> QED BY <1>4, <1>6, <1>7

(* A request that begins finds no frame of its own in the pipe. *)
LEMMA FreshId ==
    ASSUME SessionInv, ~Used(next_request_id)
    PROVE  /\ next_request_id \in RequestIds
           /\ \A k \in 1..Len(toParent) :
                  toParent[k].h.type # "Ready" => toParent[k].h.req # next_request_id
           /\ next_request_id \notin asked.cancel
           /\ emitted[next_request_id] = <<>>
           /\ Running => wv.last_request_id < next_request_id
<1>1. Numbering /\ Pipes /\ Histories /\ Reporting
  BY DEF SessionInv
<1>2. next_request_id \in RequestIds
  BY <1>1 DEF Numbering
<1>3. Running => wv.last_request_id < next_request_id
  <2>1. next_request_id \in 0..MaxCounter /\ ~request_ids_exhausted
    BY <1>1, ResultLimitsAssumption DEF Numbering, Used, RequestIds
  <2> QED BY <1>1, <2>1 DEF Reporting, Used
<1> QED BY <1>1, <1>2, <1>3 DEF Pipes, Histories

LEMMA ParentKeepsStream ==
    ASSUME SessionInv, ParentMoved, UNCHANGED workerVars
    PROVE  Streamed'
<1>1. /\ OnWire(toParent) /\ Streamed /\ ParentInv /\ Numbering
      /\ sink \in Seq(Nat) /\ Len(sink) \in Nat
  BY DEF SessionInv, ParentInv, Typed, SinkInv
<1>2. UNCHANGED <<wv, service, pc>>
  BY DEF workerVars
<1>3. /\ \A to : (Running /\ InDispatch /\ wv.last_request_id = active_request_id => to = Sofar)
                 /\ active_request_id' = active_request_id
                 => (Running /\ InDispatch /\ wv.last_request_id = active_request_id => to = Sofar)'
      /\ \A to : (Running /\ wv.last_request_id < active_request_id => to = 0)
                 /\ active_request_id' = active_request_id
                 => (Running /\ wv.last_request_id < active_request_id => to = 0)'
  BY <1>2 DEF Running, InDispatch, Sofar
<1>4. CASE Retires
  <2>1. \A i \in 1..Len(sink') : sink'[i] = i
    BY <1>1, <1>4 DEF Retires, Streamed
  <2> QED BY <1>4, <2>1 DEF Retires, Streamed, StreamIsOpen
<1>5. CASE Rests \/ EndsRequest
  BY <1>1, <1>5 DEF Rests, EndsRequest, Streamed, StreamIsOpen, ReceivePhases
<1>6. CASE EnumerationStarts
  BY <1>1, <1>6 DEF EnumerationStarts, Streamed, StreamIsOpen
<1>7. CASE StreamStarts
  <2>1. /\ phase' = "Streaming" /\ streaming' /\ sink' = <<>> /\ toParent' = toParent
        /\ ~Used(next_request_id) /\ active_request_id' = next_request_id
    BY <1>7 DEF StreamStarts
  <2>2. /\ \A k \in 1..Len(toParent) : ~IsOf(toParent[k], "DataChunk", next_request_id)
        /\ Running => wv.last_request_id < next_request_id
        /\ next_request_id \in Nat
        /\ Running => wv.last_request_id \in Nat
    <3>1. Running => wv.last_request_id \in Nat
      BY ResultLimitsAssumption DEF SessionInv, Reporting, Used
    <3> QED BY <2>1, <3>1, FreshId, ResultLimitsAssumption DEF IsOf, RequestIds
  <2>3. Streams(toParent, next_request_id, 0, 0)
    BY <1>1, <2>2, NothingStreams
  <2>4. Leads(0)'
    <3>1. Len(sink') = 0
      BY <2>1
    <3>2. ~(Running' /\ wv'.last_request_id = active_request_id')
      BY <1>2, <2>1, <2>2 DEF Running
    <3> QED BY <2>1, <2>3, <3>1, <3>2 DEF Leads
  <2>5. \A i \in 1..Len(sink') : sink'[i] = i
    BY <2>1
  <2> QED BY <2>1, <2>4, <2>5 DEF Streamed
<1>8. CASE CancelStarts
  <2>1. /\ phase \in {"Enumerating", "Streaming"} /\ phase' = "Cancelling"
        /\ UNCHANGED <<sink, streaming, toParent, active_request_id>>
    BY <1>8 DEF CancelStarts
  <2>2. ASSUME streaming PROVE \E to : Leads(to)'
    <3>1. PICK to : Leads(to)
      BY <1>1, <2>1, <2>2 DEF Streamed, StreamIsOpen
    <3>2. Leads(to)'
      BY <1>3, <2>1, <3>1 DEF Leads
    <3> QED BY <3>2
  <2> QED BY <1>1, <2>1, <2>2 DEF Streamed, StreamIsOpen
<1>9. CASE Takes
  <2> DEFINE f == Head(toParent)
  <2>1. /\ toParent # <<>> /\ toParent' = Tail(toParent)
        /\ UNCHANGED <<phase, streaming, active_request_id>>
        /\ \/ f.h.type # "DataChunk" /\ sink' = sink
           \/ /\ IsOf(f, "DataChunk", active_request_id) /\ sink' = sink \o f.body
              /\ StreamIsOpen
    BY <1>9 DEF Takes, Arrives, IsOf, StreamIsOpen
  <2>2. f.h.type = "DataChunk" => f.body \in Seq(Nat)
    BY <1>1, <2>1, Wired DEF IsWire
  <2>3. ASSUME NEW to, Leads(to) PROVE Streams(toParent, active_request_id, Len(sink), to)
    BY <2>3 DEF Leads
  <2>4. ASSUME NEW to, Leads(to)
        PROVE  Leads(to)' /\ \A i \in 1..Len(sink') : sink'[i] = i
    <3>1. CASE f.h.type # "DataChunk" /\ sink' = sink
      <4>1. Streams(toParent', active_request_id, Len(sink), to)
        BY <1>1, <2>1, <2>3, <2>4, <3>1, StreamsTail DEF IsOf
      <4>2. Leads(to)'
        BY <1>3, <2>1, <2>4, <3>1, <4>1 DEF Leads
      <4> QED BY <1>1, <3>1, <4>2 DEF Streamed
    <3>2. CASE IsOf(f, "DataChunk", active_request_id) /\ sink' = sink \o f.body
      <4>1. /\ \A j \in 1..Len(f.body) : f.body[j] = Len(sink) + j
            /\ Streams(toParent', active_request_id, Len(sink) + Len(f.body), to)
        BY <1>1, <2>1, <2>3, <2>4, <3>2, StreamsTail
      <4>2. f.body \in Seq(Nat) /\ Len(f.body) \in Nat
        BY <2>2, <3>2 DEF IsOf
      <4>3. /\ Len(sink') = Len(sink) + Len(f.body)
            /\ \A i \in 1..Len(sink) + Len(f.body) :
                   sink'[i] = IF i <= Len(sink) THEN sink[i] ELSE f.body[i - Len(sink)]
        BY <1>1, <3>2, <4>2, ConcatProperties
      <4>4. ASSUME NEW i \in 1..Len(sink') PROVE sink'[i] = i
        <5>1. CASE i <= Len(sink)
          <6>1. i \in 1..Len(sink) /\ sink'[i] = sink[i]
            BY <1>1, <4>2, <4>3, <5>1
          <6> QED BY <1>1, <6>1 DEF Streamed
        <5>2. CASE i > Len(sink)
          <6>1. i - Len(sink) \in 1..Len(f.body) /\ sink'[i] = f.body[i - Len(sink)]
            BY <1>1, <4>2, <4>3, <5>2
          <6> QED BY <1>1, <4>1, <6>1
        <5> QED BY <1>1, <4>2, <4>3, <5>1, <5>2
      <4>5. Leads(to)'
        BY <1>3, <2>1, <2>4, <4>1, <4>3 DEF Leads
      <4> QED BY <4>4, <4>5
    <3> QED BY <2>1, <3>1, <3>2
  <2> HIDE DEF f
  <2>5. CASE StreamIsOpen
    <3>1. PICK to : Leads(to)
      BY <1>1, <2>5 DEF Streamed
    <3>2. Leads(to)' /\ \A i \in 1..Len(sink') : sink'[i] = i
      BY <2>4, <3>1
    <3> QED BY <1>1, <2>1, <3>2 DEF Streamed
  <2>6. CASE ~StreamIsOpen
    BY <1>1, <2>1, <2>6 DEF Streamed, StreamIsOpen
  <2> QED BY <2>5, <2>6
<1> QED BY <1>4, <1>5, <1>6, <1>7, <1>8, <1>9 DEF ParentMoved

LEMMA PromotedStays ==
    ASSUME Promoted, UNCHANGED <<emitted, outcomeAtWorker>>, results'.catalog = results.catalog,
           results'.enumeration_counter = results.enumeration_counter,
           asked'.enumerate = asked.enumerate, asked'.cancel = asked.cancel
    PROVE  Promoted'
BY DEF Promoted

LEMMA ParentKeepsCatalog ==
    ASSUME SessionInv, ParentMoved, UNCHANGED workerVars
    PROVE  Catalogued'
<1>1. /\ OnWire(toParent) /\ Catalogued /\ Streamed /\ Told /\ ParentInv /\ Numbering
      /\ asked \in [enumerate : Seq(Nat), cancel : SUBSET Nat, size : Nat]
      /\ results.enumeration_counter \in Nat
  BY DEF SessionInv, ParentInv, Typed, ResultInv, Held, Sessions
<1>2. UNCHANGED <<emitted, outcomeAtWorker>>
  BY DEF workerVars
<1>3. CASE Retires
  BY <1>3 DEF Retires, Catalogued
<1>4. CASE Rests
  <2>1. results'.catalog # None => Promoted'
    BY <1>1, <1>2, <1>4, PromotedStays DEF Rests, Catalogued
  <2> QED BY <1>1, <1>4, <2>1 DEF Rests, Catalogued, ReceivePhases
<1>5. CASE EnumerationStarts
  <2> DEFINE n == next_request_id
             c == NewCandidate(results.enumeration_counter + 1)
  <2>1. /\ phase # "Terminal" /\ phase' = "Enumerating" /\ toParent' = toParent
        /\ ~Used(n) /\ active_request_id' = n
        /\ asked' = [asked EXCEPT !.enumerate = Append(@, n)]
        /\ results'.catalog = None
        /\ results'.enumeration_counter = results.enumeration_counter + 1
        /\ The(results'.candidate) = c
    BY <1>5 DEF EnumerationStarts
  <2>2. /\ n \in Nat /\ n \notin asked.cancel /\ emitted[n] = <<>>
        /\ \A k \in 1..Len(toParent) : ~IsOf(toParent[k], "EntryBatch", n)
    BY <2>1, FreshId, ResultLimitsAssumption DEF IsOf, RequestIds
  <2>3. /\ c.promotable /\ c.generation = results.enumeration_counter + 1
        /\ c.entries = <<>>
    BY DEF NewCandidate
  <2> HIDE DEF n, c
  <2>4. Lists(toParent, n, <<>>, emitted[n])
    BY <1>1, <2>2, NothingListed, EmptySeq
  <2>5. /\ asked'.enumerate = Append(asked.enumerate, n) /\ asked'.cancel = asked.cancel
        /\ asked.enumerate \in Seq(Nat)
    BY <1>1, <2>1
  <2>6. /\ Len(asked'.enumerate) = Len(asked.enumerate) + 1 /\ asked'.enumerate # <<>>
        /\ asked'.enumerate[Len(asked'.enumerate)] = n
    BY <2>2, <2>5, AppendProperties
  <2>7. results.enumeration_counter = Len(asked.enumerate)
    BY <1>1, <2>1 DEF Catalogued
  <2>8. Collected'
    BY <1>2, <2>1, <2>3, <2>4, <2>6, <2>7 DEF Collected
  <2> QED BY <2>1, <2>2, <2>5, <2>6, <2>7, <2>8 DEF Catalogued
<1>6. CASE StreamStarts
  <2>1. next_request_id \notin asked.cancel
    BY <1>6, FreshId DEF StreamStarts
  <2>2. results'.catalog # None => Promoted'
    BY <1>1, <1>2, <1>6, PromotedStays DEF StreamStarts, Catalogued
  <2> QED BY <1>1, <1>6, <2>1, <2>2 DEF StreamStarts, Catalogued
<1>7. CASE CancelStarts
  BY <1>1, <1>7 DEF CancelStarts, Catalogued
<1>8. CASE Takes
  <2>1. /\ phase # "Terminal" /\ toParent # <<>> /\ toParent' = Tail(toParent)
        /\ UNCHANGED <<phase, active_request_id, streaming, asked>>
        /\ results'.catalog = results.catalog
        /\ results'.enumeration_counter = results.enumeration_counter
    BY <1>8 DEF Takes, Arrives, ReceivePhases
  <2>2. results'.catalog # None => Promoted'
    BY <1>1, <1>2, <2>1, PromotedStays DEF Catalogued
  <2>3. ASSUME phase = "Enumerating" PROVE Collected'
    <3> DEFINE c == The(results.candidate)
               d == The(results'.candidate)
               f == Head(toParent)
    <3>1. /\ Collected /\ ~streaming
      BY <1>1, <2>3 DEF Catalogued, Streamed
    <3>2. /\ c.promotable
          /\ d.promotable = c.promotable /\ d.generation = c.generation
          /\ \/ f.h.type = "EntryBatch" /\ f.h.req = active_request_id
                /\ d.entries = c.entries \o f.body
             \/ f.h.type # "EntryBatch" /\ d.entries = c.entries
      BY <1>8, <2>3, <3>1 DEF Takes, Collected
    <3>3. Lists(toParent, active_request_id, c.entries, emitted[active_request_id])
      BY <3>1 DEF Collected
    <3>4. Lists(toParent', active_request_id, d.entries, emitted[active_request_id])
      BY <1>1, <2>1, <3>2, <3>3, ListsTail DEF IsOf
    <3>5. /\ d.promotable /\ d.generation = Len(asked.enumerate) /\ asked.enumerate # <<>>
          /\ asked.enumerate[Len(asked.enumerate)] = active_request_id
      BY <3>1, <3>2 DEF Collected
    <3> QED BY <1>2, <2>1, <3>4, <3>5 DEF Collected
  <2> QED BY <1>1, <2>1, <2>2, <2>3 DEF Catalogued
<1>9. CASE EndsRequest
  <2> DEFINE f == Head(toParent)
             c == The(results.candidate)
  <2>1. /\ phase \in ReceivePhases /\ toParent # <<>> /\ toParent' = Tail(toParent)
        /\ f.h.type \in Terminals /\ f.h.req = active_request_id
        /\ phase' \notin ReceivePhases /\ asked' = asked
        /\ results'.enumeration_counter = results.enumeration_counter
        /\ \/ results'.catalog \in {None, results.catalog}
           \/ /\ f.h.type = "Complete" /\ ~streaming /\ phase # "Cancelling"
              /\ results'.catalog = Some([generation |-> c.generation, entries |-> c.entries])
    BY <1>9 DEF EndsRequest, Arrives
  <2>2. results'.enumeration_counter = Len(asked'.enumerate)
    BY <1>1, <2>1 DEF Catalogued, ReceivePhases
  <2>3. CASE results'.catalog \in {None, results.catalog}
    <3>1. results'.catalog # None => Promoted'
      BY <1>1, <1>2, <2>1, <2>3, PromotedStays DEF Catalogued
    <3> QED BY <2>1, <2>2, <3>1 DEF Catalogued, ReceivePhases
  <2>4. CASE /\ f.h.type = "Complete" /\ ~streaming /\ phase # "Cancelling"
             /\ results'.catalog = Some([generation |-> c.generation, entries |-> c.entries])
    <3> DEFINE r == active_request_id
    <3>1. phase = "Enumerating" /\ Collected /\ r \notin asked.cancel
      BY <1>1, <2>1, <2>4 DEF Streamed, Catalogued, ReceivePhases
    <3>2. /\ Len(toParent) \in Nat \ {0} /\ Len(toParent') = Len(toParent) - 1
          /\ f = toParent[1]
          /\ \A k \in 1..Len(toParent) - 1 : toParent'[k] = toParent[k + 1]
          /\ OnWire(toParent')
      BY <1>1, <2>1, WireTail, Wired
    <3>3. r \in RequestIds /\ outcomeAtWorker[r] = "complete"
      <4>1. 1 \in 1..Len(toParent)
        BY <3>2
      <4> QED BY <1>1, <2>1, <2>4, <3>2, <4>1 DEF Told, EndOf
    <3>4. ASSUME NEW k \in 1..Len(toParent') PROVE ~IsOf(toParent'[k], "EntryBatch", r)
      <4>1. k + 1 \in 1..Len(toParent) /\ 1 \in 1..Len(toParent) /\ 1 < k + 1
            /\ toParent'[k] = toParent[k + 1]
        BY <3>2
      <4> QED BY <1>1, <2>1, <3>2, <4>1 DEF Told, IsOf
    <3>5. Lists(toParent, r, c.entries, emitted[r])
      BY <3>1 DEF Collected
    <3>6. Lists(toParent', r, c.entries, emitted[r])
      BY <1>1, <2>1, <2>4, <3>5, ListsTail DEF IsOf
    <3>7. emitted[r] = c.entries
      BY <3>2, <3>4, <3>6, ListedNothing
    <3>8. c.generation = Len(asked.enumerate) /\ asked.enumerate[Len(asked.enumerate)] = r
      BY <3>1 DEF Collected
    <3>9. /\ The(results'.catalog).generation = c.generation
          /\ The(results'.catalog).entries = c.entries
      BY <2>4, Optional
    <3> HIDE DEF c, r, f
    <3>10. Promoted'
      BY <1>2, <2>1, <2>2, <3>1, <3>3, <3>7, <3>8, <3>9 DEF Promoted
    <3> QED BY <2>1, <2>2, <3>10 DEF Catalogued, ReceivePhases
  <2> QED BY <2>1, <2>3, <2>4
<1> QED BY <1>3, <1>4, <1>5, <1>6, <1>7, <1>8, <1>9 DEF ParentMoved

LEMMA ParentStep == ASSUME SessionInv, ParentNext, UNCHANGED workerVars PROVE SessionInv'
<1>1. ParentInv /\ WorkerInv /\ Numbering
  BY DEF SessionInv
<1>2. ParentInv' /\ ParentMoved
  BY <1>1, ParentNextInv, ParentMoves
<1>3. Numbering' /\ Pipes' /\ Framed(toWorker') /\ Reporting'
  BY <1>2, ParentKeepsPipes
<1>4. WorkerInv'
  BY <1>1, <1>3, ParentKeepsWorker
<1>5. Told' /\ Histories' /\ OutcomeAgreement' /\ Streamed' /\ Catalogued'
  BY <1>2, ParentKeepsTold, ParentKeepsStream, ParentKeepsCatalog
<1> QED BY <1>2, <1>3, <1>4, <1>5 DEF SessionInv

-----------------------------------------------------------------------------
(* Steps of the service.  What the parent holds depends on the pipe alone.   *)
LEMMA WireKeepsParent ==
    ASSUME ParentInv, UNCHANGED parentVars, OnWire(toParent') PROVE ParentInv'
<1>1. Typed' /\ ResultInv(results)' /\ BrokerInv(reads)'
  BY DEF ParentInv, Typed, parentVars
<1>2. PhaseInv' /\ SinkInv'
  BY DEF ParentInv, PhaseInv, SinkInv, parentVars
<1> QED BY <1>1, <1>2 DEF ParentInv

LEMMA SameNumbering ==
    ASSUME UNCHANGED parentVars
    PROVE  (Numbering => Numbering') /\ \A i : Used(i) <=> Used(i)'
BY DEF Numbering, Used, parentVars

LEMMA ServiceStep ==
    ASSUME SessionInv, WorkerReceive \/ WorkerDispatch \/ WorkerIoFails, UNCHANGED parentVars
    PROVE  SessionInv'
<1>1. /\ ParentInv /\ WorkerInv /\ Numbering /\ Pipes /\ Histories /\ Reporting
      /\ Told /\ OutcomeAgreement /\ Streamed /\ Catalogued
      /\ Framed(toWorker) /\ OnWire(toParent)
  BY DEF SessionInv, WorkerInv, ParentInv, Typed
<1>2. /\ Moved /\ UNCHANGED <<toParent, emitted, outcomeAtWorker>>
      /\ toWorker' = toWorker \/ (toWorker # <<>> /\ toWorker' = Tail(toWorker))
  BY <1>1, ServiceMoves DEF Reporting
<1>3. Running
  BY DEF WorkerReceive, WorkerDispatch, WorkerIoFails, Running, ReceiveHello, BeginOperation,
         ReceiveCancel, ReceiveLateReply, HandleShutdown, ReceiveUnexpectedAtWorker,
         ReceiveLoop, ProbeCancel, AwaitReplyOrCancel, DispatchBudgetExceeded, StepNeedRead,
         StepEntryBatch, StepDataChunk, StepComplete, StepFails, DispatchStep, MayDispatch,
         ActiveLoop
<1>4. /\ WorkerInv' /\ ParentInv' /\ Numbering' /\ \A i : Used(i) <=> Used(i)'
  BY <1>1, <1>2, WorkerNextInv, WireKeepsParent, SameNumbering DEF WorkerNext
<1>5. UNCHANGED <<phase, streaming, sink, active_request_id, results, asked, outcomeAtParent>>
  BY DEF parentVars
<1>6. Pipes'
  <2>1. \A k \in 1..Len(toWorker') : \A i : i = toWorker'[k].h.req => Used(i)
    <3>1. CASE toWorker' = toWorker
      BY <1>1, <3>1 DEF Pipes
    <3>2. CASE toWorker # <<>> /\ toWorker' = Tail(toWorker)
      <4>1. /\ Len(toWorker) \in Nat \ {0} /\ Len(toWorker') = Len(toWorker) - 1
            /\ \A k \in 1..Len(toWorker) - 1 : toWorker'[k] = toWorker[k + 1]
        BY <1>1, <3>2, FramedTail
      <4>2. ASSUME NEW k \in 1..Len(toWorker')
            PROVE  k + 1 \in 1..Len(toWorker) /\ toWorker'[k] = toWorker[k + 1]
        BY <4>1
      <4> QED BY <1>1, <4>2 DEF Pipes
    <3> QED BY <1>2, <3>1, <3>2
  <2>2. \A k \in 1..Len(toWorker') : \A i : i = toWorker'[k].h.req => Used(i)'
    BY <1>4, <2>1
  <2>3. \A k \in 1..Len(toParent') :
            toParent'[k].h.type # "Ready" => \A i : i = toParent'[k].h.req => Used(i)'
    BY <1>1, <1>2, <1>4 DEF Pipes
  <2>4. \A i \in asked'.cancel : Used(i)'
    BY <1>1, <1>4, <1>5 DEF Pipes
  <2> QED BY <2>2, <2>3, <2>4 DEF Pipes
<1>7. Histories' /\ Told' /\ OutcomeAgreement' /\ Catalogued'
  <2>1. Histories'
    BY <1>1, <1>2, <1>4, <1>5 DEF Histories
  <2>2. Told' /\ OutcomeAgreement'
    BY <1>1, <1>2, <1>5 DEF Told, OutcomeAgreement
  <2>3. Catalogued'
    BY <1>1, <1>2, <1>5 DEF Catalogued, Collected, Promoted
  <2> QED BY <2>1, <2>2, <2>3
<1>8. /\ wv.last_request_id \in Nat /\ Used(wv.last_request_id)
      /\ \A i \in RequestIds : i > wv.last_request_id => outcomeAtWorker[i] = "open"
      /\ Unfinished => /\ wv.last_request_id \in RequestIds
                       /\ outcomeAtWorker[wv.last_request_id] = "open"
  BY <1>1, <1>3, ResultLimitsAssumption DEF Reporting, Used
<1>9. CASE ~Running'
  <2>1. Reporting'
    BY <1>9 DEF Reporting
  <2>2. Streamed'
    <3>1. \A to : Leads(to) => Leads(to)'
      BY <1>2, <1>5, <1>9 DEF Leads
    <3> QED BY <1>1, <1>5, <3>1 DEF Streamed, StreamIsOpen
  <2> QED BY <1>4, <1>6, <1>7, <2>1, <2>2 DEF SessionInv
<1>10. CASE Running' /\ Begun
  <2> DEFINE n == Head(toWorker).h.req
  <2>1. /\ InDispatch' /\ outbox' = None /\ Numbers(service')
        /\ service'.remaining_stream_bytes = service'.stream_size
        /\ toWorker # <<>> /\ wv'.last_request_id = n /\ n > wv.last_request_id
    BY <1>10 DEF Begun
  <2>2. Used(n) /\ n \in RequestIds
    <3>1. 1 \in 1..Len(toWorker) /\ Head(toWorker) = toWorker[1]
      BY <1>1, <2>1, FramedTail
    <3>2. Used(n)
      BY <1>1, <3>1 DEF Pipes
    <3> QED BY <1>8, <2>1, <3>2, ResultLimitsAssumption DEF Used, RequestIds
  <2> HIDE DEF n
  <2>3. Reporting'
    <3>1. \A i : i = wv'.last_request_id => Used(i)'
      BY <1>4, <2>1, <2>2
    <3>2. \A i \in RequestIds : i >= n => outcomeAtWorker'[i] = "open"
      BY <1>2, <1>8, <2>1, <2>2, ResultLimitsAssumption DEF RequestIds
    <3>3. n \in Nat
      BY <2>2 DEF RequestIds
    <3> QED BY <2>1, <2>2, <3>1, <3>2, <3>3, ResultLimitsAssumption
            DEF Reporting, Used, RequestIds
  <2>4. Sofar' = 0
    BY <2>1 DEF Sofar, Numbers
  <2>5. \A to : Leads(to) => Leads(to)'
    <3> SUFFICES ASSUME NEW to, Leads(to) PROVE Leads(to)'
      OBVIOUS
    <3>1. /\ Streams(toParent, active_request_id, Len(sink), to)
          /\ wv.last_request_id < active_request_id => to = 0
      BY <1>3 DEF Leads
    <3>2. active_request_id \in Nat /\ n \in Nat
      BY <1>1, <2>2 DEF ParentInv, Typed, RequestIds
    <3>3. /\ n = active_request_id => to = 0
          /\ n < active_request_id => to = 0
      BY <1>8, <2>1, <3>1, <3>2
    <3> QED BY <1>2, <1>5, <2>1, <2>4, <3>1, <3>3 DEF Leads
  <2>6. Streamed'
    BY <1>1, <1>5, <2>5 DEF Streamed, StreamIsOpen
  <2> QED BY <1>4, <1>6, <1>7, <2>3, <2>6 DEF SessionInv
<1>11. CASE Running' /\ Continued
  <2>1. /\ wv'.last_request_id = wv.last_request_id
        /\ InDispatch' => InDispatch
        /\ Numbers(service') /\ Sofar' = Sofar
        /\ outbox' = None \/ \E f : /\ outbox' = Some(f) /\ Addressed(f)
                                    /\ f.h.type # "Ready" => InDispatch
    BY <1>11 DEF Continued, Sofar
  <2>2. /\ Unfinished' => Unfinished
        /\ outbox' # None => /\ IsWire(The(outbox'))
                             /\ The(outbox').h.type # "Ready" =>
                                    The(outbox').h.req = wv'.last_request_id
                             /\ The(outbox').h.type = "DataChunk" =>
                                    \A k \in 1..Len(The(outbox').body) :
                                        The(outbox').body[k] = Sofar' + k
    <3>1. CASE outbox' = None
      BY <2>1, <3>1 DEF Unfinished
    <3>2. ASSUME NEW f, outbox' = Some(f), Addressed(f), f.h.type # "Ready" => InDispatch
          PROVE  /\ Unfinished' => Unfinished
                 /\ IsWire(The(outbox'))
                 /\ The(outbox').h.type # "Ready" => The(outbox').h.req = wv'.last_request_id
                 /\ The(outbox').h.type = "DataChunk" =>
                        \A k \in 1..Len(The(outbox').body) : The(outbox').body[k] = Sofar' + k
      BY <2>1, <3>2, Optional DEF Unfinished, Addressed, Terminals
    <3> QED BY <2>1, <3>1, <3>2
  <2>3. Reporting'
    <3>1. \A i : i = wv'.last_request_id => Used(i)'
      BY <1>4, <1>8, <2>1
    <3>2. outbox' # None => Addressed(The(outbox))'
      BY <2>2 DEF Addressed
    <3> QED BY <1>2, <1>8, <2>1, <2>2, <3>1, <3>2 DEF Reporting
  <2>4. \A to : Leads(to) => Leads(to)'
    BY <1>2, <1>3, <1>5, <2>1 DEF Leads
  <2>5. Streamed'
    BY <1>1, <1>5, <2>4 DEF Streamed, StreamIsOpen
  <2> QED BY <1>4, <1>6, <1>7, <2>3, <2>5 DEF SessionInv
<1> QED BY <1>2, <1>9, <1>10, <1>11 DEF Moved

(* The frame that reaches the pipe, and what its write commits. *)
Writes(f) ==
    LET last == wv.last_request_id IN
    /\ IsWire(f) /\ toParent' = Append(toParent, f)
    /\ Running /\ Running' /\ outbox' = None /\ UNCHANGED <<wv, toWorker>>
    /\ Numbers(service')
    /\ f.h.type # "Ready" => /\ f.h.req = last /\ last \in RequestIds
                             /\ outcomeAtWorker[last] = "open"
    /\ IF f.h.type \in Terminals
       THEN /\ ~InDispatch
            /\ outcomeAtWorker' = [outcomeAtWorker EXCEPT ![last] = EndOf(f.h.type)]
       ELSE outcomeAtWorker' = outcomeAtWorker
    /\ IF f.h.type = "EntryBatch"
       THEN emitted' = [emitted EXCEPT ![last] = @ \o f.body]
       ELSE emitted' = emitted
    /\ IF f.h.type = "DataChunk"
       THEN /\ InDispatch /\ Sofar' = Sofar + Len(f.body)
            /\ \A k \in 1..Len(f.body) : f.body[k] = Sofar + k
       ELSE Sofar' = Sofar

LEMMA FinishWrites == ASSUME SessionInv, FinishWrite PROVE Writes(The(outbox))
<1> DEFINE f == The(outbox)
           last == wv.last_request_id
<1>1. /\ outbox # None /\ Running /\ toParent' = Append(toParent, f) /\ outbox' = None
      /\ UNCHANGED <<wv, toWorker>>
  BY DEF FinishWrite
<1>2. /\ Writing(f.h.type) /\ IsService(service) /\ Numbers(service) /\ Addressed(f)
      /\ Unfinished => last \in RequestIds /\ outcomeAtWorker[last] = "open"
  BY <1>1 DEF SessionInv, WorkerInv, InStep, Owns, Reporting
<1>3. IsWire(f) /\ (f.h.type # "Ready" => f.h.req = last)
      /\ (f.h.type = "DataChunk" => \A k \in 1..Len(f.body) : f.body[k] = Sofar + k)
  BY <1>2 DEF Addressed
<1>4. f.h.type \in {"Ready", "ReadRequest", "EntryBatch", "DataChunk", "Complete", "CancelAck"}
  BY <1>2 DEF Writing
<1>5. /\ f.h.type \in {"ReadRequest", "EntryBatch", "DataChunk"} => InDispatch
      /\ f.h.type \in Terminals => ~InDispatch
  BY <1>2 DEF Writing, Dispatching, Stopped, ActiveStates, InDispatch, Terminals
<1>6. f.h.type # "Ready" => last \in RequestIds /\ outcomeAtWorker[last] = "open"
  BY <1>1, <1>2, <1>4, <1>5 DEF Unfinished, Terminals
<1>7. PICK E : service \in Services(E)
  BY <1>2 DEF IsService
<1>8. CASE f.h.type \in {"Ready", "ReadRequest"}
  <2>1. /\ service' = service /\ emitted' = emitted /\ outcomeAtWorker' = outcomeAtWorker
        /\ Running' /\ Sofar' = Sofar
    BY <1>8 DEF FinishWrite, Running, Sofar
  <2> QED BY <1>1, <1>2, <1>3, <1>6, <1>8, <2>1 DEF Writes, Terminals
<1>9. CASE f.h.type = "EntryBatch"
  <2> DEFINE x == Spend(service.enumeration, f.body)
  <2>1. /\ service' = [service EXCEPT !.enumeration = x] /\ pc' = pc
        /\ emitted' = [emitted EXCEPT ![f.h.req] = @ \o f.body]
        /\ outcomeAtWorker' = outcomeAtWorker
    BY <1>9 DEF FinishWrite
  <2> HIDE DEF x
  <2>2. Running' /\ Numbers(service') /\ Sofar' = Sofar
    BY <1>1, <1>2, <1>7, <2>1 DEF Services, Numbers, Sofar, Running
  <2> QED BY <1>1, <1>3, <1>6, <1>9, <2>1, <2>2 DEF Writes, Terminals
<1>10. CASE f.h.type = "DataChunk"
  <2> DEFINE y == service.remaining_stream_bytes - Len(f.body)
  <2>1. /\ service' = [service EXCEPT !.remaining_stream_bytes = y] /\ pc' = pc
        /\ emitted' = emitted /\ outcomeAtWorker' = outcomeAtWorker
    BY <1>10 DEF FinishWrite
  <2>2. Len(f.body) \in Nat
    BY <1>3, <1>10, LenProperties DEF IsWire
  <2>3. /\ y \in Int /\ y <= service.stream_size
        /\ service.stream_size - y = Sofar + Len(f.body)
    BY <1>2, <2>2 DEF Numbers, Sofar
  <2> HIDE DEF y
  <2>4. Running' /\ Numbers(service') /\ Sofar' = Sofar + Len(f.body)
    BY <1>1, <1>2, <1>7, <2>1, <2>3 DEF Services, Numbers, Sofar, Running
  <2> QED BY <1>1, <1>3, <1>5, <1>6, <1>10, <2>1, <2>4 DEF Writes, Terminals
<1>11. CASE f.h.type \in Terminals
  <2>1. /\ \/ service' = [service EXCEPT !.dispatch_active = FALSE, !.active_request_id = 0]
              /\ pc' = pc
           \/ service' = [service EXCEPT !.active_request_id = 0] /\ pc' = "Loop"
        /\ emitted' = emitted
        /\ outcomeAtWorker' = [outcomeAtWorker EXCEPT ![f.h.req] = EndOf(f.h.type)]
    BY <1>11 DEF FinishWrite, Terminals, EndOf
  <2>2. Running' /\ Numbers(service') /\ Sofar' = Sofar
    BY <1>1, <1>2, <1>7, <2>1 DEF Services, Numbers, Sofar, Running
  <2> QED BY <1>1, <1>3, <1>5, <1>6, <1>11, <2>1, <2>2 DEF Writes, Terminals
<1> QED BY <1>4, <1>8, <1>9, <1>10, <1>11 DEF Terminals

(* The newest frame belongs to a request that is still open, every terminal  *)
(* frame before it to one that is not.                                       *)
LEMMA WriteKeepsTold ==
    ASSUME SessionInv, NEW f, Writes(f), UNCHANGED parentVars
    PROVE  Pipes' /\ Histories' /\ Reporting' /\ Told' /\ OutcomeAgreement'
<1> DEFINE last == wv.last_request_id
           n == Len(toParent)
<1>1. /\ Pipes /\ Histories /\ Reporting /\ Told /\ OutcomeAgreement /\ OnWire(toParent)
      /\ Numbering
  BY DEF SessionInv, ParentInv, Typed
<1>2. /\ IsWire(f) /\ toParent' = Append(toParent, f)
      /\ Running' /\ outbox' = None /\ UNCHANGED <<wv, toWorker>> /\ Numbers(service')
      /\ f.h.type # "Ready" => /\ f.h.req = last /\ last \in RequestIds
                               /\ outcomeAtWorker[last] = "open"
      /\ IF f.h.type \in Terminals
         THEN /\ ~InDispatch
              /\ outcomeAtWorker' = [outcomeAtWorker EXCEPT ![last] = EndOf(f.h.type)]
         ELSE outcomeAtWorker' = outcomeAtWorker
      /\ IF f.h.type = "EntryBatch"
         THEN emitted' = [emitted EXCEPT ![last] = @ \o f.body]
         ELSE emitted' = emitted
  BY DEF Writes
<1>3. /\ n \in Nat /\ Len(toParent') = n + 1 /\ toParent'[n + 1] = f
      /\ \A k \in 1..n : toParent'[k] = toParent[k]
  BY <1>1, <1>2, WireAppend
<1>4. UNCHANGED <<asked, outcomeAtParent>> /\ \A i : Used(i) <=> Used(i)'
  BY SameNumbering DEF parentVars
<1>5. Used(last) /\ Running
  <2>1. Running
    BY <1>2 DEF Writes
  <2> QED BY <1>1, <2>1 DEF Reporting
<1> HIDE DEF n
<1>6. Pipes'
  <2>1. ASSUME NEW k \in 1..Len(toParent'), toParent'[k].h.type # "Ready"
        PROVE  \A i : i = toParent'[k].h.req => Used(i)'
    <3>1. CASE k = n + 1
      BY <1>2, <1>3, <1>4, <1>5, <2>1, <3>1
    <3>2. CASE k # n + 1
      <4>1. k \in 1..n /\ toParent'[k] = toParent[k]
        BY <1>3, <3>2
      <4> QED BY <1>1, <1>4, <2>1, <4>1 DEF Pipes, n
    <3> QED BY <3>1, <3>2
  <2>2. \A k \in 1..Len(toWorker') : \A i : i = toWorker'[k].h.req => Used(i)'
    BY <1>1, <1>2, <1>4 DEF Pipes
  <2>3. \A i \in asked'.cancel : Used(i)'
    BY <1>1, <1>4 DEF Pipes
  <2> QED BY <2>1, <2>2, <2>3 DEF Pipes
<1>7. Histories'
  <2>1. outcomeAtWorker' \in [RequestIds -> Outcomes]
    BY <1>1, <1>2 DEF Histories, EndOf, Outcomes
  <2>2. emitted' \in [RequestIds -> Seq(Entries)]
    <3>1. CASE f.h.type = "EntryBatch"
      <4>1. emitted[last] \o f.body \in Seq(Entries)
        BY <1>1, <1>2, <3>1, ConcatProperties DEF Histories, IsWire
      <4> QED BY <1>1, <1>2, <3>1, <4>1 DEF Histories
    <3> QED BY <1>1, <1>2, <3>1 DEF Histories
  <2>3. \A i \in RequestIds : ~Used(i)' => emitted'[i] = <<>>
    BY <1>1, <1>2, <1>4, <1>5 DEF Histories
  <2> QED BY <1>1, <1>4, <2>1, <2>2, <2>3 DEF Histories
<1>8. Reporting'
  <2>1. \A i : i = wv'.last_request_id => Used(i)'
    BY <1>2, <1>4, <1>5
  <2>2. \A i \in RequestIds : i > last => outcomeAtWorker'[i] = "open"
    <3>1. last \in Nat /\ \A i \in RequestIds : i \in Nat
      BY <1>5, ResultLimitsAssumption DEF Used, RequestIds
    <3> QED BY <1>1, <1>2, <1>5, <3>1 DEF Reporting, Histories
  <2>3. Unfinished' => /\ last \in RequestIds /\ outcomeAtWorker'[last] = "open"
    <3>1. Unfinished' => InDispatch
      BY <1>2 DEF Unfinished, InDispatch
    <3>2. InDispatch => Unfinished
      BY DEF Unfinished
    <3> QED BY <1>1, <1>2, <1>5, <3>1, <3>2 DEF Reporting
  <2> QED BY <1>2, <2>1, <2>2, <2>3 DEF Reporting
<1>9. \A i \in RequestIds : outcomeAtWorker[i] # "open" =>
          outcomeAtWorker'[i] = outcomeAtWorker[i] /\ (f.h.type # "Ready" => i # last)
  <2> SUFFICES ASSUME NEW i \in RequestIds, outcomeAtWorker[i] # "open"
               PROVE  outcomeAtWorker'[i] = outcomeAtWorker[i]
                      /\ (f.h.type # "Ready" => i # last)
    OBVIOUS
  <2>1. f.h.type # "Ready" => i # last
    BY <1>2
  <2>2. f.h.type \in Terminals => f.h.type # "Ready"
    BY DEF Terminals
  <2> QED BY <1>1, <1>2, <2>1, <2>2 DEF Histories
<1>10. \A i : EndOf(i) # "open"
  BY DEF EndOf
<1>11. Told'
  <2>1. ASSUME NEW k \in 1..Len(toParent'), toParent'[k].h.type \in Terminals
        PROVE  /\ toParent'[k].h.req \in RequestIds
               /\ outcomeAtWorker'[toParent'[k].h.req] = EndOf(toParent'[k].h.type)
    <3>1. CASE k = n + 1
      BY <1>1, <1>2, <1>3, <2>1, <3>1 DEF Terminals, Histories
    <3>2. CASE k # n + 1
      <4>1. k \in 1..n /\ toParent'[k] = toParent[k]
        BY <1>3, <3>2
      <4> QED BY <1>1, <1>9, <1>10, <2>1, <4>1 DEF Told, n
    <3> QED BY <3>1, <3>2
  <2>2. ASSUME NEW j \in 1..Len(toParent'), NEW k \in 1..Len(toParent'), j < k,
               toParent'[j].h.type \in Terminals, toParent'[k].h.type # "Ready"
        PROVE  toParent'[k].h.req # toParent'[j].h.req
    <3>1. j \in 1..n /\ toParent'[j] = toParent[j]
      BY <1>3, <2>2
    <3>2. CASE k = n + 1
      <4>1. /\ toParent[j].h.req \in RequestIds
            /\ outcomeAtWorker[toParent[j].h.req] # "open"
        BY <1>1, <1>10, <2>2, <3>1 DEF Told, n
      <4> QED BY <1>2, <1>3, <2>2, <3>1, <3>2, <4>1
    <3>3. CASE k # n + 1
      <4>1. k \in 1..n /\ toParent'[k] = toParent[k]
        BY <1>3, <3>3
      <4> QED BY <1>1, <2>2, <3>1, <4>1 DEF Told, n
    <3> QED BY <3>2, <3>3
  <2> QED BY <2>1, <2>2 DEF Told
<1>12. OutcomeAgreement'
  BY <1>1, <1>4, <1>9 DEF OutcomeAgreement
<1> QED BY <1>6, <1>7, <1>8, <1>11, <1>12

LEMMA WriteKeepsStream ==
    ASSUME SessionInv, NEW f, Writes(f), UNCHANGED parentVars
    PROVE  Streamed'
<1> DEFINE last == wv.last_request_id
<1>1. Streamed /\ OnWire(toParent) /\ last \in Nat /\ active_request_id \in Nat
  BY ResultLimitsAssumption DEF SessionInv, ParentInv, Typed, Writes, Reporting, Used
<1>2. UNCHANGED <<phase, streaming, sink, active_request_id>>
  BY DEF parentVars
<1>3. /\ IsWire(f) /\ toParent' = Append(toParent, f) /\ Running /\ wv' = wv
      /\ InDispatch' <=> InDispatch
      /\ f.h.type # "Ready" => f.h.req = last
      /\ IF f.h.type = "DataChunk"
         THEN /\ InDispatch /\ Sofar' = Sofar + Len(f.body)
              /\ \A k \in 1..Len(f.body) : f.body[k] = Sofar + k
         ELSE Sofar' = Sofar
  BY DEF Writes, InDispatch
<1>4. ASSUME NEW to, Leads(to) PROVE \E next : Leads(next)'
  <2>1. /\ Streams(toParent, active_request_id, Len(sink), to)
        /\ InDispatch /\ last = active_request_id => to = Sofar
        /\ last < active_request_id => to = 0
    BY <1>3, <1>4 DEF Leads
  <2>2. CASE IsOf(f, "DataChunk", active_request_id)
    <3>1. last = active_request_id /\ to = Sofar
      BY <1>3, <2>1, <2>2 DEF IsOf
    <3>2. Streams(toParent', active_request_id, Len(sink), to + Len(f.body))
      BY <1>1, <1>3, <2>1, <2>2, <3>1, StreamsAppend DEF IsOf
    <3>3. Leads(to + Len(f.body))'
      BY <1>1, <1>2, <1>3, <2>2, <3>1, <3>2 DEF Leads, IsOf
    <3> QED BY <3>3
  <2>3. CASE ~IsOf(f, "DataChunk", active_request_id)
    <3>1. Streams(toParent', active_request_id, Len(sink), to)
      BY <1>1, <1>3, <2>1, <2>3, StreamsAppend
    <3>2. last = active_request_id => Sofar' = Sofar
      BY <1>3, <2>3 DEF IsOf
    <3>3. Leads(to)'
      BY <1>2, <1>3, <2>1, <3>1, <3>2 DEF Leads
    <3> QED BY <3>3
  <2> QED BY <2>2, <2>3
<1> QED BY <1>1, <1>2, <1>4 DEF Streamed, StreamIsOpen

LEMMA WriteKeepsCatalog ==
    ASSUME SessionInv, NEW f, Writes(f), UNCHANGED parentVars
    PROVE  Catalogued'
<1> DEFINE last == wv.last_request_id
<1>1. Catalogued /\ OnWire(toParent) /\ Histories /\ ParentInv /\ Numbering
  BY DEF SessionInv, ParentInv, Typed
<1>2. UNCHANGED <<phase, active_request_id, asked, results>>
  BY DEF parentVars
<1>3. /\ IsWire(f) /\ toParent' = Append(toParent, f)
      /\ f.h.type # "Ready" => /\ f.h.req = last /\ last \in RequestIds
                               /\ outcomeAtWorker[last] = "open"
      /\ IF f.h.type \in Terminals
         THEN outcomeAtWorker' = [outcomeAtWorker EXCEPT ![last] = EndOf(f.h.type)]
         ELSE outcomeAtWorker' = outcomeAtWorker
      /\ IF f.h.type = "EntryBatch"
         THEN emitted' = [emitted EXCEPT ![last] = @ \o f.body]
         ELSE emitted' = emitted
      /\ f.h.type \in Terminals => f.h.type # "Ready"
  BY DEF Writes, Terminals
<1>4. ASSUME NEW i \in RequestIds
      PROVE  /\ IsOf(f, "EntryBatch", i) => emitted'[i] = emitted[i] \o f.body
             /\ ~IsOf(f, "EntryBatch", i) => emitted'[i] = emitted[i]
  BY <1>1, <1>3 DEF Histories, IsOf
<1>5. ASSUME phase = "Enumerating" PROVE Collected'
  <2> DEFINE c == The(results.candidate)
             r == active_request_id
  <2>1. /\ Collected /\ r \in RequestIds
    BY <1>1, <1>5, OpenIsNumbered DEF Catalogued, ReceivePhases
  <2>2. Lists(toParent, r, c.entries, emitted[r])
    BY <2>1 DEF Collected
  <2>3. Lists(toParent', r, c.entries, emitted'[r])
    BY <1>1, <1>3, <1>4, <2>1, <2>2, ListsAppend
  <2> QED BY <1>2, <2>1, <2>3 DEF Collected
<1>6. ASSUME results.catalog # None PROVE Promoted'
  <2> DEFINE c == The(results.catalog)
             request == asked.enumerate[c.generation]
  <2>1. /\ c.generation = results.enumeration_counter /\ request \in RequestIds
        /\ c.entries = emitted[request] /\ outcomeAtWorker[request] = "complete"
        /\ request \notin asked.cancel
    BY <1>1, <1>6 DEF Catalogued, Promoted
  <2>2. f.h.type # "Ready" => request # last
    BY <1>3, <2>1
  <2>3. emitted'[request] = emitted[request]
    BY <1>3, <1>4, <2>1, <2>2 DEF IsOf
  <2>4. outcomeAtWorker'[request] = outcomeAtWorker[request]
    BY <1>1, <1>3, <2>1, <2>2 DEF Histories
  <2> HIDE DEF request
  <2>5. request = asked'.enumerate[The(results'.catalog).generation]
    BY <1>2 DEF request
  <2> QED BY <1>2, <2>1, <2>3, <2>4, <2>5 DEF Promoted
<1> QED BY <1>1, <1>2, <1>5, <1>6 DEF Catalogued

LEMMA WriteStep == ASSUME SessionInv, FinishWrite, UNCHANGED parentVars PROVE SessionInv'
<1>1. Writes(The(outbox))
  BY FinishWrites
<1>2. ParentInv /\ WorkerInv /\ Numbering /\ OnWire(toParent)
  BY DEF SessionInv, ParentInv, Typed
<1>3. OnWire(toParent')
  BY <1>1, <1>2, Wired DEF Writes
<1>4. ParentInv' /\ WorkerInv' /\ Numbering'
  BY <1>2, <1>3, WireKeepsParent, FinishWriteInv, SameNumbering
<1>5. /\ Pipes' /\ Histories' /\ Reporting' /\ Told' /\ OutcomeAgreement'
      /\ Streamed' /\ Catalogued'
  BY <1>1, WriteKeepsTold, WriteKeepsStream, WriteKeepsCatalog
<1> QED BY <1>4, <1>5 DEF SessionInv

-----------------------------------------------------------------------------
LEMMA SessionInitInv == Init => SessionInv
<1> SUFFICES ASSUME Init PROVE SessionInv
  OBVIOUS
<1>1. ParentInv /\ WorkerInv
  BY ParentInitInv, WorkerInitInv DEF Init, UntrustedInit, AnyParentInit
<1>2. /\ toWorker = <<>> /\ toParent = <<>> /\ outbox = None /\ wv = NewValidator
      /\ service = NewService /\ sink = <<>> /\ phase = "Connecting" /\ ~streaming
      /\ next_request_id = 1 /\ ~request_ids_exhausted /\ request_ids_exhausted \in BOOLEAN
      /\ active_request_id = 0
      /\ asked.enumerate = <<>> /\ asked.cancel = {}
      /\ results.catalog = None /\ results.enumeration_counter = 0
      /\ emitted = [i \in 1..MaxCounter |-> <<>>]
      /\ outcomeAtParent = [i \in RequestIds |-> "open"]
      /\ outcomeAtWorker = [i \in 1..MaxCounter |-> "open"]
  BY DEF Init, TransportInit, ParentInit, WorkerInit, NewResultSession
<1>3. Numbering /\ Pipes /\ Used(0)
  BY <1>2, ResultLimitsAssumption DEF Numbering, Pipes, Used, RequestIds
<1>4. Histories /\ OutcomeAgreement
  BY <1>2, EmptySeq DEF Histories, OutcomeAgreement, RequestIds, Outcomes
<1>5. Reporting
  <2>1. Numbers(service) /\ wv.last_request_id = 0 /\ ~InDispatch
    BY <1>2 DEF Numbers, NewService, NewValidator, InDispatch
  <2> QED BY <1>2, <1>3, <2>1 DEF Reporting, Unfinished, RequestIds
<1>6. Told /\ Streamed /\ Catalogued
  BY <1>2 DEF Told, Streamed, StreamIsOpen, Catalogued
<1> QED BY <1>1, <1>3, <1>4, <1>5, <1>6 DEF SessionInv

LEMMA SessionStep == ASSUME SessionInv, [Next]_vars PROVE SessionInv'
<1>1. CASE ParentNext /\ UNCHANGED workerVars
  BY <1>1, ParentStep
<1>2. CASE WorkerNext /\ UNCHANGED parentVars
  BY <1>2, ServiceStep, WriteStep DEF WorkerNext
<1>3. CASE UNCHANGED vars
  <2>1. UNCHANGED <<parentVars, workerVars, toWorker, toParent>>
    BY <1>3 DEF vars, transportVars
  <2>2. /\ ParentInv /\ WorkerInv /\ OnWire(toParent') /\ Framed(toWorker')
    BY <2>1 DEF SessionInv, ParentInv, Typed, WorkerInv
  <2>3. ParentInv' /\ WorkerInv'
    BY <2>1, <2>2, WireKeepsParent, ParentKeepsWorker
  <2>4. Numbering' /\ Pipes' /\ Histories' /\ Reporting'
    BY <2>1 DEF SessionInv, parentVars, workerVars, Numbering, Used, Pipes, Histories,
                Reporting, Running, Unfinished, InDispatch, Addressed, Sofar
  <2>5. Told' /\ OutcomeAgreement' /\ Catalogued'
    BY <2>1 DEF SessionInv, parentVars, workerVars, Told, OutcomeAgreement, Catalogued,
                Collected, Promoted
  <2>6. Streamed'
    BY <2>1 DEF SessionInv, parentVars, workerVars, Streamed, StreamIsOpen, Leads, Running,
                InDispatch, Sofar
  <2> QED BY <2>3, <2>4, <2>5, <2>6 DEF SessionInv
<1> QED BY <1>1, <1>2, <1>3 DEF Next

LEMMA SessionIsInductive == Spec => []SessionInv
BY SessionInitInv, SessionStep, PTL DEF Spec

(* The parent's IdleParserSession reports a request complete only when the   *)
(* worker's dispatcher completed it, and cancelled only when the worker      *)
(* acknowledged the cancel, wherever the cancel and the completion cross on  *)
(* the two pipes.                                                            *)
THEOREM OutcomesAgree == Spec => []OutcomeAgreement
<1>1. SessionInv => OutcomeAgreement
  BY DEF SessionInv
<1> QED BY <1>1, SessionIsInductive, PTL

(* accept_data_chunk hands the sink the bytes of the entry in order, without *)
(* a gap, a repeat or a byte of an earlier stream still in the pipe, and a   *)
(* stream the parent reports complete delivered all the bytes it announced.  *)
THEOREM StreamsAreExact == Spec => []StreamIsExact
<1>1. SessionInv => StreamIsExact
  <2> SUFFICES ASSUME SessionInv PROVE StreamIsExact
    OBVIOUS
  <2>1. SinkInv /\ Streamed
    BY DEF SessionInv, ParentInv
  <2>2. sink = [i \in 1..Len(sink) |-> i]
    <3>1. sink = [i \in 1..Len(sink) |-> sink[i]]
      BY <2>1 DEF SinkInv
    <3> QED BY <2>1, <3>1 DEF Streamed
  <2> QED BY <2>1, <2>2 DEF SinkInv, StreamIsExact
<1> QED BY <1>1, SessionIsInductive, PTL

(* complete_enumeration promotes the whole of one enumeration: every entry   *)
(* the worker reported for it, in order, ended by the worker's own complete, *)
(* and never one the parent asked to cancel.                                 *)
THEOREM CatalogsAreWhole == Spec => []CatalogIsWholeEnumeration
<1>1. SessionInv => CatalogIsWholeEnumeration
  BY DEF SessionInv, Catalogued, Promoted, CatalogIsWholeEnumeration
<1> QED BY <1>1, SessionIsInductive, PTL

-----------------------------------------------------------------------------
(* PART 3: the two ends never refuse each other for the order of frames.     *)

(* A validator can refuse a clean frame that is in order only for a budget.  *)
LEMMA OnlyBudgetsRefuse ==
    ASSUME NEW b \in Budgets, NEW w, Sound(w, b), w.error = NoError, NEW d \in Directions,
           NEW h \in FrameHeaders, Clean(h), InOrder(w, d, h)
    PROVE  Observe(w, d, h, b).error \in BudgetErrors
<1> DEFINE c == Charge(w, h, b)
           counted == [w EXCEPT !.message_count = @ + 1]
<1>0. w \in Validators /\ Consistent(w)
  BY DEF Sound
<1>1. w.state # "Closed" /\ HeaderError(h) = NoError /\ h.sid = SessionIdent
  BY DEF Clean, InOrder, ActiveStates, RequestStates
<1>2. Observe(w, d, h, b) = IF c.error # NoError THEN c ELSE ObserveInState(c, d, h)
  BY <1>1 DEF Observe
<1>3. Sound(c, b)
  BY ChargeIsSound
<1>4. Fail(w, "MessageBudgetExceeded").error = "MessageBudgetExceeded"
      /\ Fail(counted, "ByteBudgetExceeded").error = "ByteBudgetExceeded"
  BY <1>0 DEF Fail, Validators
<1>5. c \in {Fail(w, "MessageBudgetExceeded"), Fail(counted, "ByteBudgetExceeded"),
             [counted EXCEPT !.payload_bytes = @ + h.len]}
  BY DEF Charge
<1>6. CASE c.error # NoError
  <2>1. [counted EXCEPT !.payload_bytes = @ + h.len].error = NoError
    BY <1>0 DEF Validators
  <2>2. c.error \in {"MessageBudgetExceeded", "ByteBudgetExceeded"}
    BY <1>4, <1>5, <1>6, <2>1
  <2> QED BY <1>2, <1>6, <2>2 DEF BudgetErrors
<1>7. CASE c.error = NoError
  <2>1. c = Charged(w, h)
    <3>1. c = [counted EXCEPT !.payload_bytes = @ + h.len]
      BY <1>4, <1>5, <1>7 DEF NoError
    <3> QED BY <1>0, <3>1 DEF Charged, Validators
  <2> HIDE DEF c
  <2>2. InOrder(c, d, h)
    BY <1>0, <2>1, ChargedFields DEF InOrder, Unblocked
  <2>3. ObserveInState(c, d, h).error = NoError
    BY <1>3, <1>7, <2>2, InOrderPasses DEF Sound
  <2> QED BY <1>2, <1>7, <2>3 DEF BudgetErrors
<1> QED BY <1>6, <1>7

-----------------------------------------------------------------------------
(* Where the two ends can stand together.  One row of the table below fixes  *)
(* the phase p of the parent with its open request, the worker's validator   *)
(* w and what is under way between them: the frames tw to the worker and the *)
(* frames s to the parent, the one being written included.                   *)
Result(streams) == IF streams THEN "DataChunk" ELSE "EntryBatch"
BeginType(streams) == IF streams THEN "StreamEntry" ELSE "Enumerate"
StateFor(streams) == IF streams THEN "Streaming" ELSE "Enumerating"

Only(q, type, req) == Len(q) = 1 /\ IsOf(q[1], type, req)

(* Results of the request, the last n of the frames left aside. *)
Results(q, streams, req, n) == \A k \in 1..Len(q) - n : IsOf(q[k], Result(streams), req)

Ending(q, streams, req, last) ==
    /\ Len(q) > 0 /\ IsOf(q[Len(q)], last, req)
    /\ Results(q, streams, req, 1)

(* The n newest frames, behind the cancel that lost to the last completion   *)
(* if it is still unread.                                                    *)
Late(q, w, n) ==
    \/ Len(q) = n
    \/ Len(q) = n + 1 /\ w.accept_late_cancel /\ IsOf(q[1], "Cancel", w.completed_request_id)

Working(w, streams, req, reading) ==
    /\ w.state = StateFor(streams) /\ w.active_request_id = req
    /\ w.read_in_flight = reading

Resting(p, s, w, tw) ==
    /\ Len(s) = 0 \/ (p = "AwaitingReady" /\ w.state = "Idle")
    /\ \/ p = "Connecting" /\ w.state = "AwaitingHello" /\ Len(tw) = 0
       \/ p = "AwaitingReady" /\ w.state = "AwaitingHello" /\ Only(tw, "Hello", 0)
       \/ p = "AwaitingReady" /\ w.state = "Idle" /\ Len(tw) = 0 /\ Only(s, "Ready", 0)
       \/ p = "Idle" /\ w.state = "Idle" /\ Late(tw, w, 0)
       \/ p = "Cancelled" /\ w.state = "Cancelled" /\ Len(tw) = 0
       \/ /\ p = "Closed" /\ w.state = "Idle"
          /\ Late(tw, w, 1) /\ IsOf(tw[Len(tw)], "Shutdown", 0)
       \/ p = "Closed" /\ w.state = "Cancelled" /\ Only(tw, "Shutdown", 0)

Serving(req, streams, s, w, tw) ==
    \/ /\ w.state = "Idle" /\ w.last_request_id < req /\ Len(s) = 0
       /\ Late(tw, w, 1) /\ IsOf(tw[Len(tw)], BeginType(streams), req)
    \/ /\ Working(w, streams, req, FALSE) /\ Len(tw) = 0
       /\ Results(s, streams, req, 0)
    \/ /\ Working(w, streams, req, TRUE) /\ Len(tw) = 0
       /\ Ending(s, streams, req, "ReadRequest")
    \/ Working(w, streams, req, TRUE) /\ Only(tw, "ReadReply", req) /\ Len(s) = 0
    \/ /\ w.state = "Idle" /\ w.accept_late_cancel /\ w.completed_request_id = req
       /\ Len(tw) = 0 /\ Ending(s, streams, req, "Complete")

Withdrawing(req, streams, crossed, s, w, tw) ==
    \/ /\ w.state = "Idle" /\ w.last_request_id < req /\ Len(s) = 0 /\ ~crossed
       /\ Late(tw, w, 2) /\ IsOf(tw[Len(tw) - 1], BeginType(streams), req)
       /\ IsOf(tw[Len(tw)], "Cancel", req)
    \/ /\ Working(w, streams, req, FALSE) /\ Only(tw, "Cancel", req) /\ ~crossed
       /\ Results(s, streams, req, 0)
    \/ /\ Working(w, streams, req, TRUE) /\ Only(tw, "Cancel", req) /\ ~crossed
       /\ Ending(s, streams, req, "ReadRequest")
    \/ Working(w, streams, req, TRUE) /\ Only(tw, "Cancel", req) /\ Len(s) = 0 /\ crossed
    \/ /\ Working(w, streams, req, TRUE) /\ Len(s) = 0 /\ ~crossed
       /\ Len(tw) = 2 /\ IsOf(tw[1], "ReadReply", req) /\ IsOf(tw[2], "Cancel", req)
    \/ /\ w.state = "Idle" /\ Late(tw, w, 0) /\ ~crossed
       /\ Ending(s, streams, req, "Complete")
    \/ /\ w.state = "Cancelled" /\ Len(tw) = 0 /\ (crossed => Len(s) = 1)
       /\ Ending(s, streams, req, "CancelAck")
    \/ /\ w.state = "Cancelled" /\ Len(tw) = 0 /\ ~crossed
       /\ Len(s) > 1 /\ Results(s, streams, req, 2)
       /\ IsOf(s[Len(s) - 1], "ReadRequest", req) /\ IsOf(s[Len(s)], "CancelAck", req)

Row(p, req, streams, crossed, s, w, tw) ==
    \/ Resting(p, s, w, tw)
    \/ p = StateFor(streams) /\ Serving(req, streams, s, w, tw)
    \/ p = "Cancelling" /\ Withdrawing(req, streams, crossed, s, w, tw)

(* A frame f put at the end of q, and one taken from its head. *)
Pushed(q, f, r) ==
    /\ Len(q) \in Nat /\ Len(r) = Len(q) + 1 /\ r[Len(q) + 1] = f
    /\ \A k \in 1..Len(q) : r[k] = q[k]
Popped(q, r) ==
    /\ Len(q) \in Nat \ {0} /\ Len(r) = Len(q) - 1
    /\ \A k \in 1..Len(q) - 1 : r[k] = q[k + 1]

(* What the worker finds at the head of its pipe. *)
LEMMA WorkerFinds ==
    ASSUME NEW p, NEW req \in Nat, NEW streams \in BOOLEAN, NEW crossed \in BOOLEAN, NEW s,
           NEW w, w \in Validators, NEW tw, Len(tw) \in Nat, Row(p, req, streams, crossed, s, w, tw)
    PROVE  /\ w.state \in {"AwaitingHello", "Idle", "Cancelled"} \cup ActiveStates
           /\ Len(tw) > 0 =>
              /\ w.state = "AwaitingHello" => IsOf(tw[1], "Hello", 0)
              /\ w.state = "Idle" =>
                   \/ IsOf(tw[1], "Cancel", w.completed_request_id) /\ w.accept_late_cancel
                   \/ IsOf(tw[1], BeginType(streams), req) /\ req > w.last_request_id
                   \/ IsOf(tw[1], "Shutdown", 0)
              /\ w.state = "Cancelled" => IsOf(tw[1], "Shutdown", 0)
              /\ w.state \in ActiveStates =>
                   \/ IsOf(tw[1], "Cancel", w.active_request_id)
                   \/ IsOf(tw[1], "ReadReply", w.active_request_id) /\ w.read_in_flight
<1>1. CASE Resting(p, s, w, tw)
  BY <1>1 DEF Resting, Only, Late, IsOf, ActiveStates
<1>2. CASE Serving(req, streams, s, w, tw)
  BY <1>2 DEF Serving, Only, Late, Working, StateFor, ActiveStates, Validators
<1>3. CASE Withdrawing(req, streams, crossed, s, w, tw)
  <2>1. CASE w.state = "Idle"
    <3>0. Len(tw) = 2 => tw[Len(tw) - 1] = tw[1]
      OBVIOUS
    <3>1. Len(tw) > 0 => \/ Len(tw) = 2 /\ IsOf(tw[1], BeginType(streams), req)
                         \/ /\ w.accept_late_cancel
                            /\ IsOf(tw[1], "Cancel", w.completed_request_id)
      BY <1>3, <2>1, <3>0 DEF Withdrawing, Late, Working, StateFor
    <3>2. Len(tw) = 2 => req > w.last_request_id
      BY <1>3, <2>1 DEF Withdrawing, Late, Working, StateFor, Validators
    <3> QED BY <2>1, <3>1, <3>2 DEF ActiveStates
  <2>2. CASE w.state # "Idle"
    BY <1>3, <2>2 DEF Withdrawing, Only, Working, StateFor, ActiveStates
  <2> QED BY <2>1, <2>2
<1> QED BY <1>1, <1>2, <1>3 DEF Row

(* The worker's turns: each leads from a row to a row. *)
LEMMA RowHello ==
    ASSUME NEW p, NEW req, NEW streams, NEW crossed, NEW s, NEW w, NEW tw,
           Row(p, req, streams, crossed, s, w, tw), w.state = "AwaitingHello",
           NEW s2, NEW w2, NEW tw2, NEW f, IsOf(f, "Ready", 0),
           Popped(tw, tw2), Pushed(s, f, s2), w2.state = "Idle"
    PROVE  Row(p, req, streams, crossed, s2, w2, tw2)
<1>1. p = "AwaitingReady" /\ Len(tw) = 1 /\ Len(s) = 0
  BY DEF Row, Resting, Serving, Withdrawing, Working, StateFor, Only, Popped
<1>2. Len(tw2) = 0 /\ Len(s2) = 1 /\ s2[1] = f
  BY <1>1 DEF Popped, Pushed
<1> QED BY <1>1, <1>2 DEF Row, Resting, Only

LEMMA RowStaleCancel ==
    ASSUME NEW p, NEW req, NEW streams \in BOOLEAN, NEW crossed, NEW s, NEW w, NEW tw,
           Row(p, req, streams, crossed, s, w, tw), w.state = "Idle",
           tw[1].h.type = "Cancel", NEW w2, NEW tw2, Popped(tw, tw2), w2.state = "Idle",
           w2.last_request_id = w.last_request_id
    PROVE  Row(p, req, streams, crossed, s, w2, tw2)
<1>1. \A n \in {0, 1, 2} : Late(tw, w, n) /\ Len(tw) # n =>
          /\ Len(tw2) = n
          /\ \A k \in 1..n : tw2[k] = tw[k + 1]
  BY DEF Late, Popped
<1>2. CASE Resting(p, s, w, tw)
  BY <1>1, <1>2 DEF Row, Resting, Late, IsOf, Popped
<1>3. CASE Serving(req, streams, s, w, tw) /\ p = StateFor(streams)
  <2>1. /\ w.last_request_id < req /\ Len(s) = 0
        /\ Late(tw, w, 1) /\ IsOf(tw[Len(tw)], BeginType(streams), req)
    BY <1>3 DEF Serving, Working, StateFor, Popped
  <2>2. Len(tw) # 1
    BY <2>1 DEF IsOf, BeginType
  <2>3. Len(tw2) = 1 /\ tw2[1] = tw[2] /\ Len(tw) = 2
    BY <1>1, <2>1, <2>2 DEF Late
  <2> QED BY <1>3, <2>1, <2>3 DEF Row, Serving, Late
<1>4. CASE Withdrawing(req, streams, crossed, s, w, tw) /\ p = "Cancelling"
  <2>1. CASE Late(tw, w, 0) /\ ~crossed /\ Ending(s, streams, req, "Complete")
    <3>1. Len(tw2) = 0
      BY <2>1, <1>1 DEF Popped
    <3> QED BY <1>4, <2>1, <3>1 DEF Row, Withdrawing, Late
  <2>2. CASE ~(Late(tw, w, 0) /\ ~crossed /\ Ending(s, streams, req, "Complete"))
    <3>1. /\ w.last_request_id < req /\ Len(s) = 0 /\ ~crossed
          /\ Late(tw, w, 2) /\ IsOf(tw[Len(tw) - 1], BeginType(streams), req)
          /\ IsOf(tw[Len(tw)], "Cancel", req)
      BY <1>4, <2>2 DEF Withdrawing, Working, StateFor
    <3>2. Len(tw) = 2 => tw[Len(tw) - 1] = tw[1]
      OBVIOUS
    <3>3. Len(tw) # 2
      BY <3>1, <3>2 DEF IsOf, BeginType
    <3>4. Len(tw2) = 2 /\ tw2[1] = tw[2] /\ tw2[2] = tw[3] /\ Len(tw) = 3
      BY <1>1, <3>1, <3>3 DEF Late
    <3>5. tw[Len(tw) - 1] = tw2[Len(tw2) - 1] /\ tw[Len(tw)] = tw2[Len(tw2)]
      BY <3>4
    <3> QED BY <1>4, <3>1, <3>4, <3>5 DEF Row, Withdrawing, Late
  <2> QED BY <2>1, <2>2
<1> QED BY <1>2, <1>3, <1>4 DEF Row

LEMMA RowBegin ==
    ASSUME NEW p, NEW req, NEW streams \in BOOLEAN, NEW crossed, NEW s, NEW w, NEW tw,
           Row(p, req, streams, crossed, s, w, tw), w.state = "Idle",
           tw[1].h.type \in {"Enumerate", "StreamEntry"}, NEW w2, NEW tw2, Popped(tw, tw2),
           w2.state = IF tw[1].h.type = "Enumerate" THEN "Enumerating" ELSE "Streaming",
           w2.active_request_id = tw[1].h.req, w2.read_in_flight = FALSE
    PROVE  Row(p, req, streams, crossed, s, w2, tw2)
<1>1. ~Resting(p, s, w, tw)
  BY DEF Resting, Late, Only, IsOf, Popped
<1>2. IsOf(tw[1], BeginType(streams), req) => Working(w2, streams, req, FALSE)
  BY DEF IsOf, BeginType, Working, StateFor
<1>3. CASE Serving(req, streams, s, w, tw) /\ p = StateFor(streams)
  <2>1. Len(s) = 0 /\ Late(tw, w, 1) /\ IsOf(tw[Len(tw)], BeginType(streams), req)
    BY <1>3 DEF Serving, Working, StateFor, Popped
  <2>2. Len(tw) = 1
    BY <2>1 DEF Late, IsOf
  <2>3. Len(tw2) = 0 /\ Results(s, streams, req, 0)
    BY <2>1, <2>2 DEF Popped, Results
  <2> QED BY <1>2, <1>3, <2>1, <2>2, <2>3 DEF Row, Serving
<1>4. CASE Withdrawing(req, streams, crossed, s, w, tw) /\ p = "Cancelling"
  <2>1. ~Late(tw, w, 0)
    BY DEF Late, IsOf, Popped
  <2>2. /\ Len(s) = 0 /\ ~crossed
        /\ Late(tw, w, 2) /\ IsOf(tw[Len(tw) - 1], BeginType(streams), req)
        /\ IsOf(tw[Len(tw)], "Cancel", req)
    BY <1>4, <2>1 DEF Withdrawing, Working, StateFor
  <2>3. Len(tw) = 2
    BY <2>2 DEF Late, IsOf
  <2>4. Len(tw2) = 1 /\ tw2[1] = tw[2] /\ Results(s, streams, req, 0)
        /\ tw[Len(tw) - 1] = tw[1]
    BY <2>2, <2>3 DEF Popped, Results
  <2> QED BY <1>2, <1>4, <2>2, <2>3, <2>4 DEF Row, Withdrawing, Only
<1> QED BY <1>1, <1>3, <1>4 DEF Row

LEMMA RowCancel ==
    ASSUME NEW p, NEW req, NEW streams \in BOOLEAN, NEW crossed \in BOOLEAN, NEW s, NEW w, NEW tw,
           Row(p, req, streams, crossed, s, w, tw), w.state \in ActiveStates,
           tw[1].h.type = "Cancel", NEW s2, NEW w2, NEW tw2, NEW f,
           IsOf(f, "CancelAck", w.active_request_id), Popped(tw, tw2), Pushed(s, f, s2),
           w2.state = "Cancelled"
    PROVE  Row(p, req, streams, crossed, s2, w2, tw2)
<1>1. ~Resting(p, s, w, tw)
  BY DEF Resting, ActiveStates
<1>2. ~Serving(req, streams, s, w, tw)
  BY DEF Serving, Only, IsOf, Popped, ActiveStates
<1>3. p = "Cancelling" /\ Withdrawing(req, streams, crossed, s, w, tw)
  BY <1>1, <1>2 DEF Row
<1>4. /\ Len(tw) = 1 /\ w.active_request_id = req
      /\ \/ ~crossed /\ Results(s, streams, req, 0)
         \/ ~crossed /\ Ending(s, streams, req, "ReadRequest")
         \/ Len(s) = 0 /\ crossed
  BY <1>3 DEF Withdrawing, ActiveStates, Working, Only, IsOf
<1>5. Len(tw2) = 0 /\ Len(s2) > 0 /\ IsOf(s2[Len(s2)], "CancelAck", req)
  BY <1>4 DEF Popped, Pushed
<1>6. CASE ~crossed /\ Results(s, streams, req, 0)
  <2>1. Results(s2, streams, req, 1)
    BY <1>6 DEF Results, Pushed
  <2> QED BY <1>3, <1>5, <1>6, <2>1 DEF Row, Withdrawing, Ending
<1>7. CASE ~crossed /\ Ending(s, streams, req, "ReadRequest")
  <2>1. Results(s2, streams, req, 2)
    BY <1>7 DEF Results, Pushed, Ending
  <2>2. Len(s2) > 1 /\ s2[Len(s2) - 1] = s[Len(s)]
    BY <1>7 DEF Pushed, Ending
  <2> QED BY <1>3, <1>5, <1>7, <2>1, <2>2 DEF Row, Withdrawing, Ending
<1>8. CASE Len(s) = 0 /\ crossed
  <2>1. Results(s2, streams, req, 1) /\ Len(s2) = 1
    BY <1>8 DEF Results, Pushed
  <2> QED BY <1>3, <1>5, <1>8, <2>1 DEF Row, Withdrawing, Ending
<1> QED BY <1>4, <1>6, <1>7, <1>8

LEMMA RowReply ==
    ASSUME NEW p, NEW req, NEW streams \in BOOLEAN, NEW crossed \in BOOLEAN, NEW s, NEW w, NEW tw,
           Row(p, req, streams, crossed, s, w, tw), w.state \in ActiveStates,
           tw[1].h.type = "ReadReply", NEW w2, NEW tw2, Popped(tw, tw2),
           w2.state = w.state, w2.active_request_id = w.active_request_id,
           w2.read_in_flight = FALSE
    PROVE  Row(p, req, streams, crossed, s, w2, tw2)
<1>1. ~Resting(p, s, w, tw)
  BY DEF Resting, ActiveStates
<1>2. Working(w, streams, req, TRUE) => Working(w2, streams, req, FALSE)
  BY DEF Working
<1>3. Len(s) = 0 => Results(s, streams, req, 0)
  BY DEF Results
<1>4. CASE p = StateFor(streams) /\ Serving(req, streams, s, w, tw)
  <2>1. Working(w, streams, req, TRUE) /\ Len(tw) = 1 /\ Len(s) = 0
    BY <1>4 DEF Serving, Only, IsOf, Popped, ActiveStates
  <2>2. Len(tw2) = 0
    BY <2>1 DEF Popped
  <2> QED BY <1>2, <1>3, <1>4, <2>1, <2>2 DEF Row, Serving
<1>5. CASE p = "Cancelling" /\ Withdrawing(req, streams, crossed, s, w, tw)
  <2>1. /\ Working(w, streams, req, TRUE) /\ Len(tw) = 2 /\ Len(s) = 0 /\ ~crossed
        /\ IsOf(tw[2], "Cancel", req)
    BY <1>5 DEF Withdrawing, Only, IsOf, Popped, ActiveStates
  <2>2. Len(tw2) = 1 /\ tw2[1] = tw[2]
    BY <2>1 DEF Popped
  <2> QED BY <1>2, <1>3, <1>5, <2>1, <2>2 DEF Row, Withdrawing, Only
<1> QED BY <1>1, <1>4, <1>5 DEF Row

(* What the dispatcher has written while the parent is silent. *)
LEMMA RowDispatch ==
    ASSUME NEW p, NEW req, NEW streams \in BOOLEAN, NEW crossed \in BOOLEAN, NEW s, NEW w, NEW tw,
           Row(p, req, streams, crossed, s, w, tw), w.state \in ActiveStates,
           ~w.read_in_flight, Len(tw) = 0
    PROVE  /\ p = StateFor(streams) /\ Working(w, streams, req, FALSE)
           /\ Results(s, streams, req, 0)
BY DEF Row, Resting, Serving, Withdrawing, Working, Only, ActiveStates

LEMMA RowResult ==
    ASSUME NEW p, NEW req, NEW streams \in BOOLEAN, NEW crossed \in BOOLEAN, NEW s, NEW w, NEW tw,
           Row(p, req, streams, crossed, s, w, tw), w.state \in ActiveStates,
           ~w.read_in_flight, Len(tw) = 0, NEW s2, NEW w2, NEW f,
           f.h.type = IF w.state = "Streaming" THEN "DataChunk" ELSE "EntryBatch",
           f.h.req = w.active_request_id, Pushed(s, f, s2),
           w2.state = w.state, w2.active_request_id = w.active_request_id,
           w2.read_in_flight = FALSE
    PROVE  Row(p, req, streams, crossed, s2, w2, tw)
<1>1. /\ p = StateFor(streams) /\ Working(w, streams, req, FALSE)
      /\ Results(s, streams, req, 0)
  BY RowDispatch
<1>2. Working(w2, streams, req, FALSE) /\ IsOf(f, Result(streams), req)
  BY <1>1 DEF Working, IsOf, Result, StateFor
<1>3. Results(s2, streams, req, 0)
  BY <1>1, <1>2 DEF Results, Pushed
<1> QED BY <1>1, <1>2, <1>3 DEF Row, Serving

LEMMA RowNeedRead ==
    ASSUME NEW p, NEW req, NEW streams \in BOOLEAN, NEW crossed \in BOOLEAN, NEW s, NEW w, NEW tw,
           Row(p, req, streams, crossed, s, w, tw), w.state \in ActiveStates,
           ~w.read_in_flight, Len(tw) = 0, NEW s2, NEW w2, NEW f,
           IsOf(f, "ReadRequest", w.active_request_id), Pushed(s, f, s2),
           w2.state = w.state, w2.active_request_id = w.active_request_id,
           w2.read_in_flight = TRUE
    PROVE  Row(p, req, streams, crossed, s2, w2, tw)
<1>1. /\ p = StateFor(streams) /\ Working(w, streams, req, FALSE)
      /\ Results(s, streams, req, 0)
  BY RowDispatch
<1>2. Working(w2, streams, req, TRUE) /\ IsOf(f, "ReadRequest", req)
  BY <1>1 DEF Working
<1>3. Ending(s2, streams, req, "ReadRequest")
  BY <1>1, <1>2 DEF Ending, Results, Pushed
<1> QED BY <1>1, <1>2, <1>3 DEF Row, Serving

LEMMA RowComplete ==
    ASSUME NEW p, NEW req, NEW streams \in BOOLEAN, NEW crossed \in BOOLEAN, NEW s, NEW w, NEW tw,
           Row(p, req, streams, crossed, s, w, tw), w.state \in ActiveStates,
           ~w.read_in_flight, Len(tw) = 0, NEW s2, NEW w2, NEW f,
           IsOf(f, "Complete", w.active_request_id), Pushed(s, f, s2),
           w2.state = "Idle", w2.accept_late_cancel,
           w2.completed_request_id = w.active_request_id
    PROVE  Row(p, req, streams, crossed, s2, w2, tw)
<1>1. /\ p = StateFor(streams) /\ Working(w, streams, req, FALSE)
      /\ Results(s, streams, req, 0)
  BY RowDispatch
<1>2. w2.completed_request_id = req /\ IsOf(f, "Complete", req)
  BY <1>1 DEF Working
<1>3. Ending(s2, streams, req, "Complete")
  BY <1>1, <1>2 DEF Ending, Results, Pushed
<1> QED BY <1>1, <1>2, <1>3 DEF Row, Serving

-----------------------------------------------------------------------------
(* What the parent finds at the head of its pipe, and its turns. *)
LEMMA ParentFinds ==
    ASSUME NEW p, NEW req, NEW streams \in BOOLEAN, NEW crossed \in BOOLEAN, NEW s, NEW w, NEW tw,
           Row(p, req, streams, crossed, s, w, tw), Len(s) \in Nat, Len(s) > 0
    PROVE  \/ p = "AwaitingReady" /\ IsOf(s[1], "Ready", 0)
           \/ /\ p = StateFor(streams) \/ (p = "Cancelling" /\ ~crossed)
              /\ s[1].h.req = req
              /\ s[1].h.type \in {Result(streams), "ReadRequest", "Complete"}
           \/ p = "Cancelling" /\ IsOf(s[1], "CancelAck", req)
<1>1. CASE Resting(p, s, w, tw)
  BY <1>1 DEF Resting, Only
<1>0. /\ Len(s) = 1 \/ 1 \in 1..Len(s) - 1
      /\ Len(s) > 1 => Len(s) = 2 \/ 1 \in 1..Len(s) - 2
      /\ 1 \in 1..Len(s)
      /\ Len(s) - 0 = Len(s)
      /\ Len(s) = 1 => s[Len(s)] = s[1]
  <2> DEFINE n == Len(s)
  <2>1. n \in Nat /\ n > 0
    OBVIOUS
  <2> HIDE DEF n
  <2>2. /\ n = 1 \/ 1 \in 1..n - 1
        /\ n > 1 => n = 2 \/ 1 \in 1..n - 2
        /\ 1 \in 1..n /\ n - 0 = n
    BY <2>1
  <2> QED BY <2>2 DEF n
<1>2. \A last : Ending(s, streams, req, last) =>
          \/ Len(s) = 1 /\ IsOf(s[1], last, req)
          \/ IsOf(s[1], Result(streams), req)
  BY <1>0 DEF Ending, Results
<1>3. /\ Results(s, streams, req, 0) => IsOf(s[1], Result(streams), req)
      /\ Len(s) > 1 /\ Results(s, streams, req, 2) =>
             Len(s) = 2 \/ IsOf(s[1], Result(streams), req)
      /\ Len(s) = 2 => s[Len(s) - 1] = s[1]
  BY <1>0 DEF Results
<1> DEFINE mid == IsOf(s[1], Result(streams), req)
           first(t) == IsOf(s[1], t, req)
<1>6. /\ Ending(s, streams, req, "ReadRequest") => first("ReadRequest") \/ mid
      /\ Ending(s, streams, req, "Complete") => first("Complete") \/ mid
      /\ Ending(s, streams, req, "CancelAck") => (Len(s) = 1 /\ first("CancelAck")) \/ mid
  BY <1>2
<1>7. /\ mid => s[1].h.req = req /\ s[1].h.type = Result(streams)
      /\ \A t : first(t) => s[1].h.req = req /\ s[1].h.type = t
  BY DEF IsOf
<1>8. Len(s) # 0
  OBVIOUS
<1>4. CASE p = StateFor(streams) /\ Serving(req, streams, s, w, tw)
  <2>1. first("ReadRequest") \/ first("Complete") \/ mid
    <3> HIDE DEF first, mid
    <3>1. Results(s, streams, req, 0) => mid
      BY <1>3 DEF mid
    <3> QED BY <1>4, <1>6, <1>8, <3>1 DEF Serving
  <2> HIDE DEF first, mid
  <2> QED BY <1>4, <1>7, <2>1
<1>5. CASE p = "Cancelling" /\ Withdrawing(req, streams, crossed, s, w, tw)
  <2>0. Results(s, streams, req, 0) => mid
    BY <1>3 DEF mid
  <2>3. Len(s) > 1 /\ Results(s, streams, req, 2) /\ IsOf(s[Len(s) - 1], "ReadRequest", req)
            => first("ReadRequest") \/ mid
    BY <1>3
  <2> HIDE DEF first, mid
  <2>1. CASE ~crossed
    <3>1. first("ReadRequest") \/ first("Complete") \/ first("CancelAck") \/ mid
      BY <1>5, <1>6, <1>8, <2>0, <2>1, <2>3 DEF Withdrawing
    <3> QED BY <1>5, <1>7, <2>1, <3>1 DEF first
  <2>2. CASE crossed
    <3>1. Ending(s, streams, req, "CancelAck") /\ Len(s) = 1
      BY <1>5, <1>8, <2>2 DEF Withdrawing
    <3>2. first("CancelAck")
      BY <3>1 DEF Ending, first
    <3> QED BY <1>5, <3>2 DEF first
  <2> QED BY <2>1, <2>2
<1> QED BY <1>1, <1>4, <1>5 DEF Row

LEMMA RowSendHello ==
    ASSUME NEW req, NEW streams \in BOOLEAN, NEW crossed \in BOOLEAN, NEW s, NEW w, NEW tw,
           Row("Connecting", req, streams, crossed, s, w, tw), NEW f, IsOf(f, "Hello", 0),
           NEW tw2, Pushed(tw, f, tw2)
    PROVE  Row("AwaitingReady", req, streams, crossed, s, w, tw2)
<1>1. w.state = "AwaitingHello" /\ Len(tw) = 0 /\ Len(s) = 0
  BY DEF Row, Resting, StateFor
<1>2. Len(tw2) = 1 /\ tw2[1] = f
  BY <1>1 DEF Pushed
<1> QED BY <1>1, <1>2 DEF Row, Resting, Only

LEMMA RowReady ==
    ASSUME NEW req, NEW streams \in BOOLEAN, NEW crossed \in BOOLEAN, NEW s, NEW w, NEW tw,
           Row("AwaitingReady", req, streams, crossed, s, w, tw), NEW s2, Popped(s, s2)
    PROVE  Row("Idle", req, streams, crossed, s2, w, tw)
<1>1. w.state = "Idle" /\ Len(tw) = 0 /\ Len(s) = 1
  BY DEF Row, Resting, StateFor, Only, Popped
<1> QED BY <1>1 DEF Row, Resting, Late, Popped

LEMMA RowSendBegin ==
    ASSUME NEW req, NEW streams \in BOOLEAN, NEW crossed \in BOOLEAN, NEW s, NEW w, NEW tw,
           Row("Idle", req, streams, crossed, s, w, tw), NEW f, NEW req2,
           NEW streams2 \in BOOLEAN, NEW crossed2, IsOf(f, BeginType(streams2), req2),
           w.last_request_id < req2, NEW tw2, Pushed(tw, f, tw2)
    PROVE  Row(StateFor(streams2), req2, streams2, crossed2, s, w, tw2)
<1>1. w.state = "Idle" /\ Late(tw, w, 0) /\ Len(s) = 0
  BY DEF Row, Resting, StateFor
<1>2. tw2[Len(tw2)] = f
  BY DEF Pushed
<1>3. Late(tw2, w, 1)
  BY <1>1 DEF Pushed, Late
<1> QED BY <1>1, <1>2, <1>3 DEF Row, Serving

LEMMA RowSendCancel ==
    ASSUME NEW p \in ActiveStates, NEW req, NEW streams \in BOOLEAN, NEW crossed \in BOOLEAN,
           NEW s, NEW w, NEW tw, Row(p, req, streams, crossed, s, w, tw),
           NEW f, IsOf(f, "Cancel", req), NEW tw2, Pushed(tw, f, tw2)
    PROVE  Row("Cancelling", req, streams, FALSE, s, w, tw2)
<1>1. Serving(req, streams, s, w, tw)
  BY DEF Row, Resting, ActiveStates
<1>2. /\ tw2[Len(tw2)] = f /\ Len(tw2) = Len(tw) + 1
      /\ Len(tw) = 0 => Len(tw2) = 1 /\ tw2[1] = f
  BY DEF Pushed
<1>3. CASE /\ w.state = "Idle" /\ w.last_request_id < req /\ Len(s) = 0
           /\ Late(tw, w, 1) /\ IsOf(tw[Len(tw)], BeginType(streams), req)
  <2>1. Late(tw2, w, 2)
    BY <1>3 DEF Pushed, Late
  <2>2. tw2[Len(tw2) - 1] = tw[Len(tw)]
    BY <1>3 DEF Pushed, Late
  <2> QED BY <1>2, <1>3, <2>1, <2>2 DEF Row, Withdrawing
<1>4. CASE Working(w, streams, req, FALSE) /\ Len(tw) = 0 /\ Results(s, streams, req, 0)
  BY <1>2, <1>4 DEF Row, Withdrawing, Only
<1>5. CASE /\ Working(w, streams, req, TRUE) /\ Len(tw) = 0
           /\ Ending(s, streams, req, "ReadRequest")
  BY <1>2, <1>5 DEF Row, Withdrawing, Only
<1>6. CASE Working(w, streams, req, TRUE) /\ Only(tw, "ReadReply", req) /\ Len(s) = 0
  <2>1. Len(tw2) = 2 /\ tw2[1] = tw[1] /\ tw2[2] = f
    BY <1>6 DEF Pushed, Only
  <2> QED BY <1>6, <2>1 DEF Row, Withdrawing, Only
<1>7. CASE /\ w.state = "Idle" /\ w.accept_late_cancel /\ w.completed_request_id = req
           /\ Len(tw) = 0 /\ Ending(s, streams, req, "Complete")
  <2>1. Late(tw2, w, 0)
    BY <1>2, <1>7 DEF Late
  <2> QED BY <1>7, <2>1 DEF Row, Withdrawing
<1> QED BY <1>1, <1>3, <1>4, <1>5, <1>6, <1>7 DEF Serving

LEMMA RowSendShutdown ==
    ASSUME NEW p \in {"Idle", "Cancelled"}, NEW req, NEW streams \in BOOLEAN,
           NEW crossed \in BOOLEAN, NEW s, NEW w, NEW tw,
           Row(p, req, streams, crossed, s, w, tw),
           NEW f, IsOf(f, "Shutdown", 0), NEW tw2, Pushed(tw, f, tw2), NEW req2, NEW crossed2
    PROVE  Row("Closed", req2, streams, crossed2, s, w, tw2)
<1>1. Resting(p, s, w, tw)
  BY DEF Row, StateFor
<1>2. CASE p = "Idle"
  <2>1. Late(tw2, w, 1) /\ tw2[Len(tw2)] = f
    BY <1>1, <1>2 DEF Resting, Late, Pushed
  <2> QED BY <1>1, <1>2, <2>1 DEF Row, Resting
<1>3. CASE p = "Cancelled"
  <2>1. Only(tw2, "Shutdown", 0)
    BY <1>1, <1>3 DEF Resting, Only, Pushed
  <2> QED BY <1>1, <1>3, <2>1 DEF Row, Resting
<1> QED BY <1>2, <1>3

LEMMA PopResults ==
    ASSUME NEW s, NEW s2, Popped(s, s2), NEW streams, NEW req
    PROVE  /\ \A n \in {0, 1, 2} : Results(s, streams, req, n) => Results(s2, streams, req, n)
           /\ \A last : Ending(s, streams, req, last) =>
                  \/ Len(s) = 1 /\ IsOf(s[1], last, req)
                  \/ /\ Len(s) > 1 /\ IsOf(s[1], Result(streams), req)
                     /\ Ending(s2, streams, req, last)
<1> DEFINE n == Len(s)
<1>0. n \in Nat /\ n > 0 /\ Len(s2) = n - 1 /\ \A k \in 1..n - 1 : s2[k] = s[k + 1]
  BY DEF Popped
<1> HIDE DEF n
<1>1. ASSUME NEW m \in {0, 1, 2}, Results(s, streams, req, m) PROVE Results(s2, streams, req, m)
  <2>1. \A k \in 1..(n - 1) - m : k \in 1..n - 1 /\ k + 1 \in 1..n - m
    BY <1>0
  <2> QED BY <1>0, <1>1, <2>1 DEF Results, n
<1>2. ASSUME NEW last, Ending(s, streams, req, last)
      PROVE  \/ Len(s) = 1 /\ IsOf(s[1], last, req)
             \/ /\ Len(s) > 1 /\ IsOf(s[1], Result(streams), req)
                /\ Ending(s2, streams, req, last)
  <2>1. CASE n = 1
    BY <1>2, <2>1 DEF Ending, n
  <2>2. CASE n > 1
    <3>1. 1 \in 1..n - 1 /\ n - 1 > 0 /\ n - 1 \in 1..n - 1 /\ (n - 1) + 1 = n
      BY <1>0, <2>2
    <3>2. s2[n - 1] = s[n]
      BY <1>0, <3>1
    <3>3. IsOf(s[1], Result(streams), req) /\ Results(s2, streams, req, 1)
      BY <1>1, <1>2, <3>1 DEF Ending, Results, n
    <3>4. IsOf(s[n], last, req)
      BY <1>2 DEF Ending, n
    <3> QED BY <1>0, <2>2, <3>1, <3>2, <3>3, <3>4 DEF Ending, n
  <2> QED BY <1>0, <2>1, <2>2
<1> QED BY <1>1, <1>2

LEMMA LastTaken == \A s, s2 : Popped(s, s2) /\ Len(s) = 1 => Len(s2) = 0
<1> TAKE s, s2
<1> HAVE Popped(s, s2) /\ Len(s) = 1
<1>1. Len(s2) = Len(s) - 1
  BY DEF Popped
<1> QED BY <1>1

LEMMA EndingTaken ==
    ASSUME NEW s, NEW s2, Popped(s, s2), NEW streams, NEW req, NEW last,
           Ending(s, streams, req, last), s[1].h.type # Result(streams)
    PROVE  Len(s) = 1 /\ s[1].h.type = last
BY PopResults DEF IsOf

LEMMA RowTakeResult ==
    ASSUME NEW p, NEW req, NEW streams \in BOOLEAN, NEW crossed \in BOOLEAN, NEW s, NEW w, NEW tw,
           Row(p, req, streams, crossed, s, w, tw), s[1].h.type = Result(streams),
           NEW s2, Popped(s, s2)
    PROVE  Row(p, req, streams, crossed, s2, w, tw)
<1> DEFINE in(last) == Ending(s, streams, req, last) => Ending(s2, streams, req, last)
<1>1. Result(streams) \notin {"Ready", "ReadRequest", "Complete", "CancelAck"}
  BY DEF Result
<1>2. in("ReadRequest") /\ in("Complete") /\ in("CancelAck")
  BY <1>1, PopResults DEF IsOf
<1>3. Results(s, streams, req, 0) => Results(s2, streams, req, 0)
  BY PopResults
<1>4. Len(s) # 0
  BY DEF Popped
<1>5. ~Resting(p, s, w, tw)
  BY <1>1, <1>4 DEF Resting, Only, IsOf
<1>6. CASE p = StateFor(streams) /\ Serving(req, streams, s, w, tw)
  <2>1. Serving(req, streams, s2, w, tw)
    BY <1>2, <1>3, <1>4, <1>6 DEF Serving
  <2> QED BY <1>6, <2>1 DEF Row
<1>7. CASE p = "Cancelling" /\ Withdrawing(req, streams, crossed, s, w, tw)
  <2>1. Ending(s, streams, req, "CancelAck") => Len(s) # 1
    BY <1>1 DEF Ending, IsOf
  <2>2. ASSUME Len(s) > 1, Results(s, streams, req, 2), IsOf(s[Len(s) - 1], "ReadRequest", req),
               IsOf(s[Len(s)], "CancelAck", req)
        PROVE  /\ Len(s2) > 1 /\ Results(s2, streams, req, 2)
               /\ IsOf(s2[Len(s2) - 1], "ReadRequest", req)
               /\ IsOf(s2[Len(s2)], "CancelAck", req)
    <3> DEFINE n == Len(s)
    <3>0. n \in Nat /\ Len(s2) = n - 1 /\ \A k \in 1..n - 1 : s2[k] = s[k + 1]
      BY DEF Popped
    <3>1. n # 2
      BY <1>1, <2>2 DEF IsOf
    <3>2. n > 1
      BY <2>2
    <3> HIDE DEF n
    <3>3. n > 2 /\ n - 1 > 1 /\ n - 1 \in 1..n - 1 /\ (n - 1) - 1 \in 1..n - 1
          /\ (n - 1) + 1 = n /\ ((n - 1) - 1) + 1 = n - 1
      BY <3>0, <3>1, <3>2
    <3>4. s2[n - 1] = s[n] /\ s2[(n - 1) - 1] = s[n - 1]
      BY <3>0, <3>3
    <3>5. Results(s2, streams, req, 2)
      BY <2>2, PopResults
    <3> QED BY <2>2, <3>0, <3>3, <3>4, <3>5 DEF n
  <2>3. Withdrawing(req, streams, crossed, s2, w, tw)
    BY <1>2, <1>3, <1>4, <1>7, <2>1, <2>2 DEF Withdrawing
  <2> QED BY <1>7, <2>3 DEF Row
<1> QED BY <1>5, <1>6, <1>7 DEF Row

LEMMA RowTakeRead ==
    ASSUME NEW p \in ActiveStates, NEW req, NEW streams \in BOOLEAN, NEW crossed \in BOOLEAN,
           NEW s, NEW w, NEW tw, Row(p, req, streams, crossed, s, w, tw),
           s[1].h.type = "ReadRequest", NEW s2, Popped(s, s2),
           NEW f, IsOf(f, "ReadReply", req), NEW tw2, Pushed(tw, f, tw2), NEW crossed2
    PROVE  Row(p, req, streams, crossed2, s2, w, tw2)
<1>1. p = StateFor(streams) /\ Serving(req, streams, s, w, tw)
  BY DEF Row, Resting, ActiveStates
<1>2. Len(s) # 0 /\ Result(streams) # "ReadRequest"
  BY DEF Popped, Result
<1>3. ~Ending(s, streams, req, "Complete") /\ ~Results(s, streams, req, 0)
  <2>1. ~Ending(s, streams, req, "Complete")
    BY <1>2, EndingTaken
  <2>2. 1 \in 1..Len(s) - 0
    BY DEF Popped
  <2>3. ~Results(s, streams, req, 0)
    BY <1>2, <2>2 DEF Results, IsOf
  <2> QED BY <2>1, <2>3
<1>4. /\ Working(w, streams, req, TRUE) /\ Len(tw) = 0
      /\ Ending(s, streams, req, "ReadRequest")
  BY <1>1, <1>2, <1>3 DEF Serving
<1>5. Len(s) = 1 /\ Len(s2) = 0
  BY <1>2, <1>4, EndingTaken, LastTaken
<1>6. Only(tw2, "ReadReply", req)
  BY <1>4 DEF Pushed, Only
<1> QED BY <1>1, <1>4, <1>5, <1>6 DEF Row, Serving

LEMMA RowTakeCrossed ==
    ASSUME NEW req, NEW streams \in BOOLEAN, NEW crossed \in BOOLEAN,
           NEW s, NEW w, NEW tw, Row("Cancelling", req, streams, crossed, s, w, tw),
           s[1].h.type = "ReadRequest", NEW s2, Popped(s, s2)
    PROVE  Row("Cancelling", req, streams, TRUE, s2, w, tw)
<1>1. Withdrawing(req, streams, crossed, s, w, tw)
  BY DEF Row, Resting, StateFor
<1>2. Len(s) # 0 /\ Result(streams) # "ReadRequest"
  BY DEF Popped, Result
<1>3. /\ ~Ending(s, streams, req, "Complete") /\ ~Ending(s, streams, req, "CancelAck")
      /\ ~Results(s, streams, req, 0)
      /\ Ending(s, streams, req, "ReadRequest") => Len(s) = 1
  <2>1. /\ ~Ending(s, streams, req, "Complete") /\ ~Ending(s, streams, req, "CancelAck")
        /\ Ending(s, streams, req, "ReadRequest") => Len(s) = 1
    BY <1>2, EndingTaken
  <2>2. 1 \in 1..Len(s) - 0
    BY DEF Popped
  <2>3. ~Results(s, streams, req, 0)
    BY <1>2, <2>2 DEF Results, IsOf
  <2> QED BY <2>1, <2>3
<1>4. CASE /\ Working(w, streams, req, TRUE) /\ Only(tw, "Cancel", req)
           /\ Ending(s, streams, req, "ReadRequest")
  <2>1. Len(s2) = 0
    BY <1>3, <1>4, LastTaken
  <2> QED BY <1>4, <2>1 DEF Row, Withdrawing
<1>5. CASE /\ w.state = "Cancelled" /\ Len(tw) = 0
           /\ Len(s) > 1 /\ Results(s, streams, req, 2)
           /\ IsOf(s[Len(s)], "CancelAck", req)
  <2>1. Len(s) = 2
    <3>1. Len(s) # 2 => 1 \in 1..Len(s) - 2
      BY <1>5 DEF Popped
    <3> QED BY <1>2, <1>5, <3>1 DEF Results, IsOf
  <2>2. Len(s2) = 1 /\ s2[1] = s[2] /\ s2[Len(s2)] = s[Len(s)]
    BY <2>1 DEF Popped
  <2>3. Ending(s2, streams, req, "CancelAck")
    BY <1>5, <2>2 DEF Ending, Results
  <2> QED BY <1>5, <2>2, <2>3 DEF Row, Withdrawing
<1> QED BY <1>1, <1>2, <1>3, <1>4, <1>5 DEF Withdrawing

LEMMA RowTakeComplete ==
    ASSUME NEW p, NEW req, NEW streams \in BOOLEAN, NEW crossed \in BOOLEAN,
           NEW s, NEW w, NEW tw, Row(p, req, streams, crossed, s, w, tw),
           s[1].h.type = "Complete", NEW s2, Popped(s, s2), NEW req2, NEW crossed2
    PROVE  Row("Idle", req2, streams, crossed2, s2, w, tw)
<1>1. Len(s) # 0 /\ Result(streams) # "Complete" /\ 1 \in 1..Len(s) - 0
  BY DEF Popped, Result
<1>2. /\ ~Ending(s, streams, req, "ReadRequest") /\ ~Ending(s, streams, req, "CancelAck")
      /\ Ending(s, streams, req, "Complete") => Len(s) = 1
  BY <1>1, EndingTaken
<1>3. ~Results(s, streams, req, 0)
  BY <1>1 DEF Results, IsOf
<1>4. ~(Len(s) > 1 /\ Results(s, streams, req, 2) /\ IsOf(s[Len(s) - 1], "ReadRequest", req))
  <2>1. Len(s) > 1 => Len(s) = 2 \/ 1 \in 1..Len(s) - 2
    BY DEF Popped
  <2> QED BY <1>1, <2>1 DEF Results, IsOf
<1>5. ~Resting(p, s, w, tw)
  BY <1>1 DEF Resting, Only, IsOf
<1>6. w.state = "Idle" /\ Late(tw, w, 0) /\ Ending(s, streams, req, "Complete")
  BY <1>1, <1>2, <1>3, <1>4, <1>5 DEF Row, Serving, Withdrawing, Late
<1>7. Len(s2) = 0
  BY <1>2, <1>6, LastTaken
<1> QED BY <1>6, <1>7 DEF Row, Resting

LEMMA RowTakeAck ==
    ASSUME NEW p, NEW req, NEW streams \in BOOLEAN, NEW crossed \in BOOLEAN,
           NEW s, NEW w, NEW tw, Row(p, req, streams, crossed, s, w, tw),
           s[1].h.type = "CancelAck", NEW s2, Popped(s, s2), NEW req2, NEW crossed2
    PROVE  Row("Cancelled", req2, streams, crossed2, s2, w, tw)
<1>1. Len(s) # 0 /\ Result(streams) # "CancelAck" /\ 1 \in 1..Len(s) - 0
  BY DEF Popped, Result
<1>2. /\ ~Ending(s, streams, req, "ReadRequest") /\ ~Ending(s, streams, req, "Complete")
      /\ Ending(s, streams, req, "CancelAck") => Len(s) = 1
  BY <1>1, EndingTaken
<1>3. ~Results(s, streams, req, 0)
  BY <1>1 DEF Results, IsOf
<1>4. ~(Len(s) > 1 /\ Results(s, streams, req, 2) /\ IsOf(s[Len(s) - 1], "ReadRequest", req))
  <2>1. Len(s) > 1 => Len(s) = 2 \/ 1 \in 1..Len(s) - 2
    BY DEF Popped
  <2> QED BY <1>1, <2>1 DEF Results, IsOf
<1>5. ~Resting(p, s, w, tw)
  BY <1>1 DEF Resting, Only, IsOf
<1>6. w.state = "Cancelled" /\ Len(tw) = 0 /\ Ending(s, streams, req, "CancelAck")
  BY <1>1, <1>2, <1>3, <1>4, <1>5 DEF Row, Serving, Withdrawing
<1>7. Len(s2) = 0
  BY <1>2, <1>6, LastTaken
<1> QED BY <1>6, <1>7 DEF Row, Resting

-----------------------------------------------------------------------------
(* The operations of the result session on a frame that is in order: the     *)
(* validator can only run out of budget, and an operation that succeeds has  *)
(* observed the frame and nothing else.                                      *)
Orderly(r) ==
    r.protocol.error \in BudgetErrors /\ r.failure \notin {"InvalidState", "ResultValidation"}

Follows(r, d, f, o) ==
    /\ Orderly(o)
    /\ o.failure = NoFailure => o.protocol = Observe(r.protocol, d, f.h, ParentBudgets)

LEMMA OrderlyRetires ==
    ASSUME NEW r \in Sessions, Orderly(r), NEW e, e \notin {"InvalidState", "ResultValidation"}
    PROVE  Orderly(Retire(r, e))
<1>1. r.failure = NoFailure =>
        Retire(r, e).protocol = r.protocol /\ Retire(r, e).failure = e
  BY DEF Retire, RetireAll, Sessions
<1>2. r.failure # NoFailure => Retire(r, e) = r
  BY DEF Retire
<1> QED BY <1>1, <1>2 DEF Orderly

LEMMA LiveIsOrderly ==
    ASSUME NEW r, ResultInv(r), r.failure = NoFailure PROVE r \in Sessions /\ Orderly(r)
BY DEF ResultInv, Held, Orderly, BudgetErrors, NoFailure

LEMMA ObserveFollows ==
    ASSUME NEW r, ResultInv(r), r.failure = NoFailure, NEW d \in Directions,
           NEW f, f.h \in FrameHeaders, Clean(f.h), InOrder(r.protocol, d, f.h)
    PROVE  LET o == ResultObserve(r, d, f) IN
           Follows(r, d, f, o) /\ o \in Sessions
<1> DEFINE v == Observe(r.protocol, d, f.h, ParentBudgets)
           seen == [r EXCEPT !.protocol = v]
           o == ResultObserve(r, d, f)
<1>1. r \in Sessions /\ Sound(r.protocol, ParentBudgets) /\ r.protocol.error = NoError
  BY DEF ResultInv, Held
<1>2. v \in Validators /\ v.error \in BudgetErrors
  BY <1>1, ObserveIsSound, OnlyBudgetsRefuse, ParentBudgetsAssumption DEF Sound
<1>3. o = IF seen.protocol.error = NoError THEN seen ELSE Retire(seen, "Protocol")
  BY DEF ResultObserve
<1> HIDE DEF v, o
<1>4. seen \in Sessions /\ seen.protocol = v /\ seen.failure = NoFailure
  BY <1>1, <1>2 DEF Sessions
<1> HIDE DEF seen
<1>5. Orderly(seen)
  BY <1>2, <1>4 DEF Orderly, NoFailure
<1>6. Orderly(o)
  BY <1>3, <1>4, <1>5, OrderlyRetires
<1>7. Retire(seen, "Protocol").failure # NoFailure
  BY <1>4 DEF Retire, RetireAll, Sessions, NoFailure
<1>8. o \in Sessions
  BY ObservedOrRetired DEF o, ResultInv, Held
<1> QED BY <1>3, <1>4, <1>6, <1>7, <1>8 DEF Follows, v, o

(* A session that only changed what it holds. *)
LEMMA HoldingFollows ==
    ASSUME NEW r, NEW d, NEW f, NEW o \in Sessions, Follows(r, d, f, o), NEW x, NEW y, NEW n
    PROVE  /\ Follows(r, d, f, [o EXCEPT !.candidate = x])
           /\ Follows(r, d, f, [o EXCEPT !.stream = x])
           /\ Follows(r, d, f, [o EXCEPT !.catalog = y, !.candidate = x])
           /\ Follows(r, d, f, RetireAll(o))
           /\ Follows(r, d, f, [RetireAll(o) EXCEPT !.enumeration_counter = n, !.candidate = x])
<1>1. ASSUME NEW t, t.protocol = o.protocol, t.failure = o.failure PROVE Follows(r, d, f, t)
  BY <1>1 DEF Follows, Orderly
<1>2. /\ [o EXCEPT !.candidate = x].protocol = o.protocol
      /\ [o EXCEPT !.candidate = x].failure = o.failure
      /\ [o EXCEPT !.stream = x].protocol = o.protocol
      /\ [o EXCEPT !.stream = x].failure = o.failure
      /\ [o EXCEPT !.catalog = y, !.candidate = x].protocol = o.protocol
      /\ [o EXCEPT !.catalog = y, !.candidate = x].failure = o.failure
  BY DEF Sessions
<1>3. RetireAll(o).protocol = o.protocol /\ RetireAll(o).failure = o.failure
  BY DEF RetireAll, Sessions
<1>4. /\ [RetireAll(o) EXCEPT !.enumeration_counter = n, !.candidate = x].protocol = o.protocol
      /\ [RetireAll(o) EXCEPT !.enumeration_counter = n, !.candidate = x].failure = o.failure
  BY DEF RetireAll, Sessions
<1> QED BY <1>1, <1>2, <1>3, <1>4

(* What every operation below needs of the session and of the frame. *)
InTurn(r, d, f) ==
    /\ ResultInv(r) /\ r.failure = NoFailure /\ d \in Directions
    /\ f.h \in FrameHeaders /\ Clean(f.h) /\ InOrder(r.protocol, d, f.h)

LEMMA RetiredFollows ==
    ASSUME NEW r \in Sessions, Orderly(r), NEW q, NEW d, NEW f
    PROVE  \A e \in {"Protocol", "Layout", "UnknownSourceToken", "DownstreamFailure",
                     "IncompleteStream", "GenerationExhausted", "SourceInvalidated",
                     "SourceReadFailure", "WorkerFailure"} :
               Follows(q, d, f, Retire(r, e)) /\ Retire(r, e).failure # NoFailure
<1> TAKE e \in {"Protocol", "Layout", "UnknownSourceToken", "DownstreamFailure",
                "IncompleteStream", "GenerationExhausted", "SourceInvalidated",
                "SourceReadFailure", "WorkerFailure"}
<1>1. Orderly(Retire(r, e))
  BY OrderlyRetires
<1>2. Retire(r, e).failure # NoFailure
  BY DEF Retire, RetireAll, Sessions, NoFailure
<1> QED BY <1>1, <1>2 DEF Follows

LEMMA BeginsFollow ==
    ASSUME NEW r, NEW f, InTurn(r, "ParentToWorker", f), NEW generation
    PROVE  /\ Follows(r, "ParentToWorker", f, BeginEnumeration(r, f))
           /\ Follows(r, "ParentToWorker", f, BeginStreamEntry(r, f, generation))
<1> DEFINE o == ResultObserve(r, "ParentToWorker", f)
           found == FindEntry(r, generation, f.body[1])
           fresh == [RetireAll(o) EXCEPT
                 !.enumeration_counter = @ + 1,
                 !.candidate = Some(NewCandidate(o.enumeration_counter + 1))]
           opened == [o EXCEPT !.stream = Some((CHOOSE e \in found : TRUE).size)]
<1>1. Follows(r, "ParentToWorker", f, o) /\ o \in Sessions
  BY ObserveFollows DEF InTurn
<1>2. /\ Follows(r, "ParentToWorker", f, Retire(r, "GenerationExhausted"))
      /\ Follows(r, "ParentToWorker", f, Retire(r, "UnknownSourceToken"))
  BY LiveIsOrderly, RetiredFollows DEF InTurn
<1>3. r.failure = NoFailure
  BY DEF InTurn
<1>4. BeginEnumeration(r, f) =
        IF r.enumeration_counter = MaxCounter THEN Retire(r, "GenerationExhausted")
        ELSE IF o.failure # NoFailure THEN o ELSE fresh
  BY <1>3 DEF BeginEnumeration, AndThen, NewCandidate
<1>5. BeginStreamEntry(r, f, generation) =
        IF found = {} THEN Retire(r, "UnknownSourceToken")
        ELSE IF o.failure # NoFailure THEN o ELSE opened
  BY <1>3 DEF BeginStreamEntry, AndThen
<1> HIDE DEF o, found
<1>6. Follows(r, "ParentToWorker", f, fresh)
  <2> DEFINE n == RetireAll(o).enumeration_counter + 1
             x == Some(NewCandidate(o.enumeration_counter + 1))
  <2>1. fresh = [RetireAll(o) EXCEPT !.enumeration_counter = n, !.candidate = x]
    BY <1>1 DEF RetireAll, Sessions
  <2> HIDE DEF n, x, fresh
  <2> QED BY <1>1, <2>1, HoldingFollows
<1>7. Follows(r, "ParentToWorker", f, opened)
  BY <1>1, HoldingFollows
<1> HIDE DEF fresh, opened
<1> QED BY <1>1, <1>2, <1>4, <1>5, <1>6, <1>7

LEMMA ReportsFollow ==
    ASSUME NEW r, NEW f, InTurn(r, "WorkerToParent", f), NEW sinkOk
    PROVE  /\ r.candidate # None => Follows(r, "WorkerToParent", f, AcceptEntryBatch(r, f))
           /\ r.stream # None => Follows(r, "WorkerToParent", f, AcceptDataChunk(r, f, sinkOk))
<1> DEFINE o == ResultObserve(r, "WorkerToParent", f)
           c == The(r.candidate)
           x == Some(Extended(c, f.body))
           y == Some(The(r.stream) - Len(f.body))
           canonical == BatchIsCanonical(f.body, c.budget)
           fits == Len(f.body) \in 1..The(r.stream)
<1>1. Follows(r, "WorkerToParent", f, o) /\ o \in Sessions
  BY ObserveFollows DEF InTurn
<1>2. Follows(r, "WorkerToParent", f, Retire(r, "Protocol"))
  BY LiveIsOrderly, RetiredFollows DEF InTurn
<1>3. Follows(r, "WorkerToParent", f, Retire(o, "DownstreamFailure"))
  BY <1>1, RetiredFollows DEF Follows
<1>4. r.failure = NoFailure
  BY DEF InTurn
<1>5. r.candidate # None => AcceptEntryBatch(r, f) =
        IF ~canonical THEN Retire(r, "Protocol")
        ELSE IF o.failure # NoFailure THEN o ELSE [o EXCEPT !.candidate = x]
  BY <1>4 DEF AcceptEntryBatch, AndThen, Extended
<1>6. r.stream # None => AcceptDataChunk(r, f, sinkOk) =
        IF ~fits THEN Retire(r, "Protocol")
        ELSE IF o.failure # NoFailure THEN o
        ELSE IF ~sinkOk THEN Retire(o, "DownstreamFailure") ELSE [o EXCEPT !.stream = y]
  BY <1>4 DEF AcceptDataChunk, AndThen
<1> HIDE DEF o, canonical, x, y, fits
<1>7. /\ Follows(r, "WorkerToParent", f, [o EXCEPT !.candidate = x])
      /\ Follows(r, "WorkerToParent", f, [o EXCEPT !.stream = y])
  BY <1>1, HoldingFollows
<1> QED BY <1>1, <1>2, <1>3, <1>5, <1>6, <1>7

(* The bytes of a promotable candidate are what its budget has spent. *)
Accounted(r) ==
    r.candidate # None /\ The(r.candidate).promotable =>
        TotalBytes(The(r.candidate).entries) =
            MaximumTotalBytes - The(r.candidate).budget.remaining_total_bytes

LEMMA CompletionsFollow ==
    ASSUME NEW r, NEW f, InTurn(r, "WorkerToParent", f), Accounted(r)
    PROVE  /\ r.candidate # None => Follows(r, "WorkerToParent", f, CompleteEnumeration(r, f))
           /\ r.stream # None => Follows(r, "WorkerToParent", f, CompleteStream(r, f))
<1> DEFINE o == ResultObserve(r, "WorkerToParent", f)
           c == The(r.candidate)
           promoted == IF c.promotable
                       THEN Some([generation |-> c.generation, entries |-> c.entries])
                       ELSE o.catalog
<1>1. Follows(r, "WorkerToParent", f, o) /\ o \in Sessions
  BY ObserveFollows DEF InTurn
<1>2. /\ Follows(r, "WorkerToParent", f, Retire(r, "Layout"))
      /\ Follows(r, "WorkerToParent", f, Retire(r, "IncompleteStream"))
  BY LiveIsOrderly, RetiredFollows DEF InTurn
<1>3. r.failure = NoFailure
  BY DEF InTurn
<1>4. r.candidate # None => CompleteEnumeration(r, f) =
        IF c.promotable /\ ~PlanSucceeds(c.entries) THEN Retire(r, "Layout")
        ELSE IF o.failure # NoFailure THEN o
        ELSE [o EXCEPT !.catalog = promoted, !.candidate = None]
  <2>1. r.candidate # None => CompleteEnumeration(r, f) =
        IF c.promotable /\ ~PlanSucceeds(c.entries) THEN Retire(r, "Layout")
        ELSE IF c.promotable /\ TotalBytes(c.entries) #
                    MaximumTotalBytes - c.budget.remaining_total_bytes
        THEN Retire(r, "ResultValidation")
        ELSE IF o.failure # NoFailure THEN o
        ELSE [o EXCEPT !.catalog = IF c.promotable
                              THEN Some([generation |-> c.generation, entries |-> c.entries])
                              ELSE @,
                       !.candidate = None]
    BY <1>3 DEF CompleteEnumeration, AndThen
  <2>2. [o EXCEPT !.catalog = IF c.promotable
                              THEN Some([generation |-> c.generation, entries |-> c.entries])
                              ELSE @,
                  !.candidate = None] = [o EXCEPT !.catalog = promoted, !.candidate = None]
    <3> HIDE DEF o, c
    <3> QED BY <1>1 DEF Sessions
  <2> HIDE DEF promoted, o
  <2> QED BY <2>1, <2>2 DEF Accounted
<1>5. r.stream # None => CompleteStream(r, f) =
        IF The(r.stream) # 0 THEN Retire(r, "IncompleteStream")
        ELSE IF o.failure # NoFailure THEN o ELSE [o EXCEPT !.stream = None]
  BY <1>3 DEF CompleteStream, AndThen
<1> HIDE DEF o, promoted
<1>6. /\ Follows(r, "WorkerToParent", f, [o EXCEPT !.catalog = promoted, !.candidate = None])
      /\ Follows(r, "WorkerToParent", f, [o EXCEPT !.stream = None])
  BY <1>1, HoldingFollows
<1> QED BY <1>1, <1>2, <1>4, <1>5, <1>6

LEMMA ReadsFollow ==
    ASSUME NEW r, NEW f, NEW expected
    PROVE  /\ InTurn(r, "WorkerToParent", f) =>
                  Follows(r, "WorkerToParent", f, AcceptReadRequest(r, f, expected))
           /\ InTurn(r, "ParentToWorker", f) =>
                  Follows(r, "ParentToWorker", f, AcceptReadReply(r, f, expected))
<1>1. ASSUME InTurn(r, "WorkerToParent", f)
      PROVE  Follows(r, "WorkerToParent", f, AcceptReadRequest(r, f, expected))
  <2> DEFINE o == ResultObserve(r, "WorkerToParent", f)
  <2>1. Follows(r, "WorkerToParent", f, o)
    BY <1>1, ObserveFollows DEF InTurn
  <2>2. Follows(r, "WorkerToParent", f, Retire(r, "Protocol"))
    BY <1>1, LiveIsOrderly, RetiredFollows DEF InTurn
  <2>3. AcceptReadRequest(r, f, expected) \in {Retire(r, "Protocol"), o}
    BY <1>1 DEF AcceptReadRequest, AndThen, InTurn
  <2> HIDE DEF o
  <2> QED BY <2>1, <2>2, <2>3
<1>2. ASSUME InTurn(r, "ParentToWorker", f)
      PROVE  Follows(r, "ParentToWorker", f, AcceptReadReply(r, f, expected))
  <2> DEFINE o == ResultObserve(r, "ParentToWorker", f)
  <2>1. Follows(r, "ParentToWorker", f, o) /\ o \in Sessions
    BY <1>2, ObserveFollows DEF InTurn
  <2>2. Follows(r, "ParentToWorker", f, Retire(r, "Protocol"))
    BY <1>2, LiveIsOrderly, RetiredFollows DEF InTurn
  <2>3. AcceptReadReply(r, f, expected) \in
          {Retire(r, "Protocol"), o, Retire(o, "SourceInvalidated"),
           Retire(o, "SourceReadFailure")}
    BY <1>2 DEF AcceptReadReply, AndThen, InTurn
  <2> HIDE DEF o
  <2>4. /\ Follows(r, "ParentToWorker", f, Retire(o, "SourceInvalidated"))
        /\ Follows(r, "ParentToWorker", f, Retire(o, "SourceReadFailure"))
    BY <2>1, RetiredFollows DEF Follows
  <2> QED BY <2>1, <2>2, <2>3, <2>4
<1> QED BY <1>1, <1>2

LEMMA StopsFollow ==
    ASSUME NEW r, NEW f
    PROVE  /\ InTurn(r, "ParentToWorker", f) =>
                  /\ Follows(r, "ParentToWorker", f, AcceptCancel(r, f))
                  /\ Follows(r, "ParentToWorker", f, AcceptShutdown(r, f))
           /\ InTurn(r, "WorkerToParent", f) =>
                  Follows(r, "WorkerToParent", f, AcceptCancelAck(r, f))
<1>1. ASSUME NEW d \in {"ParentToWorker", "WorkerToParent"}, InTurn(r, d, f)
      PROVE  LET o == ResultObserve(r, d, f) IN
             /\ Follows(r, d, f, o) /\ o \in Sessions /\ Follows(r, d, f, RetireAll(o))
  <2> DEFINE o == ResultObserve(r, d, f)
  <2>1. Follows(r, d, f, o) /\ o \in Sessions
    BY <1>1, ObserveFollows DEF InTurn
  <2> HIDE DEF o
  <2>2. Follows(r, d, f, RetireAll(o))
    BY <2>1, HoldingFollows
  <2> QED BY <2>1, <2>2 DEF o
<1>2. ASSUME InTurn(r, "ParentToWorker", f)
      PROVE  Follows(r, "ParentToWorker", f, AcceptCancel(r, f))
  <2> DEFINE o == ResultObserve(r, "ParentToWorker", f)
             x == IF o.candidate = None THEN None
                  ELSE Some([The(o.candidate) EXCEPT !.promotable = FALSE, !.entries = <<>>])
             t == [o EXCEPT !.catalog = None,
                            !.candidate = IF @ = None THEN None
                                  ELSE Some([The(@) EXCEPT !.promotable = FALSE,
                                                           !.entries = <<>>])]
  <2>1. Follows(r, "ParentToWorker", f, o) /\ o \in Sessions
    BY <1>1, <1>2
  <2>2. AcceptCancel(r, f) = IF o.failure # NoFailure THEN o ELSE t
    BY <1>2 DEF AcceptCancel, AndThen, InTurn
  <2> HIDE DEF o
  <2>3. t = [o EXCEPT !.catalog = None, !.candidate = x]
    BY <2>1 DEF Sessions
  <2> HIDE DEF t, x
  <2>4. Follows(r, "ParentToWorker", f, t)
    <3>1. Follows(r, "ParentToWorker", f, [o EXCEPT !.catalog = None, !.candidate = x])
      BY <2>1, HoldingFollows
    <3> QED BY <2>3, <3>1
  <2> QED BY <2>1, <2>2, <2>4
<1>3. InTurn(r, "ParentToWorker", f) =>
          Follows(r, "ParentToWorker", f, AcceptShutdown(r, f))
  BY <1>1 DEF AcceptShutdown, AndThen, InTurn
<1>4. InTurn(r, "WorkerToParent", f) =>
          Follows(r, "WorkerToParent", f, AcceptCancelAck(r, f))
  BY <1>1 DEF AcceptCancelAck, AndThen, InTurn
<1> QED BY <1>2, <1>3, <1>4

(* What the accepted reports and a fresh enumeration leave accounted. *)
LEMMA ReportAccounted ==
    ASSUME NEW r, ResultInv(r), r.failure = NoFailure, Accounted(r),
           NEW f, f.h \in FrameHeaders, f.body \in Seq(Entries)
    PROVE  LET o == AcceptEntryBatch(r, f) IN o.failure = NoFailure => Accounted(o)
<1> DEFINE o == ResultObserve(r, "WorkerToParent", f)
           c == The(r.candidate)
           new == Extended(c, f.body)
           next == [o EXCEPT !.candidate = Some(new)]
           canonical == BatchIsCanonical(f.body, c.budget)
<1>1. "WorkerToParent" \in Directions
  BY DEF Directions
<1>2. o \in Sessions
  BY <1>1, ObservedOrRetired DEF ResultInv, Held
<1>3. AcceptEntryBatch(r, f) =
        IF r.candidate = None THEN Retire(r, "InvalidState")
        ELSE IF ~canonical THEN Retire(r, "Protocol")
        ELSE IF o.failure # NoFailure THEN o ELSE next
  BY DEF AcceptEntryBatch, AndThen, Extended
<1>4. Retire(r, "InvalidState").failure # NoFailure /\ Retire(r, "Protocol").failure # NoFailure
  BY RetiredWith DEF ResultInv
<1>5. ASSUME r.candidate # None PROVE Accounted(next)
  <2>1. c \in Candidates
    BY <1>5, Options DEF ResultInv, Held, Sessions
  <2>2. next.candidate = Some(new) /\ The(Some(new)) = new
    <3> HIDE DEF o, new
    <3> QED BY <1>2, Options DEF Sessions
  <2> HIDE DEF c
  <2>3. /\ new.promotable = c.promotable
        /\ c.promotable => new.entries = c.entries \o f.body
        /\ new.budget = Spend(c.budget, f.body)
    BY <2>1 DEF Extended, Candidates
  <2>4. new.budget.remaining_total_bytes =
            c.budget.remaining_total_bytes - TotalBytes(f.body)
    BY <2>1, <2>3 DEF Spend, Candidates, EntryBudgets
  <2>5. /\ TotalBytes(c.entries) \in Nat /\ TotalBytes(f.body) \in Nat
        /\ TotalBytes(c.entries \o f.body) = TotalBytes(c.entries) + TotalBytes(f.body)
        /\ c.budget.remaining_total_bytes \in Int
    BY <2>1, TotalBytesType, TotalBytesConcat DEF Candidates, EntryBudgets
  <2>6. c.promotable =>
          TotalBytes(c.entries) = MaximumTotalBytes - c.budget.remaining_total_bytes
    BY <1>5 DEF Accounted, c
  <2> HIDE DEF new, next
  <2>7. new.promotable =>
          TotalBytes(new.entries) = MaximumTotalBytes - new.budget.remaining_total_bytes
    <3> SUFFICES ASSUME new.promotable
                 PROVE  TotalBytes(new.entries) =
                            MaximumTotalBytes - new.budget.remaining_total_bytes
      OBVIOUS
    <3>1. TotalBytes(new.entries) = TotalBytes(c.entries) + TotalBytes(f.body)
      BY <2>3, <2>5
    <3>2. TotalBytes(c.entries) = MaximumTotalBytes - c.budget.remaining_total_bytes
      BY <2>3, <2>6
    <3> QED BY <2>4, <2>5, <3>1, <3>2, ResultLimitsAssumption
  <2> QED BY <2>2, <2>7 DEF Accounted
<1> HIDE DEF next, o, canonical
<1> QED BY <1>3, <1>4, <1>5

LEMMA FreshAccounted == \A r, n : The(r.candidate) = NewCandidate(n) => Accounted(r)
BY EmptyBytes, ResultLimitsAssumption DEF NewCandidate, Accounted

-----------------------------------------------------------------------------
(* The two ends of a lifetime.  What either of them puts on the wire is      *)
(* clean, and no read is so long that its reply would not fit a frame.       *)
Sendable(f) ==
    Clean(f.h) /\ (f.h.type = "ReadRequest" => 1 + f.body[2] <= MaxFramePayload)

Canonical ==
    /\ \A k \in 1..Len(toWorker) : Clean(toWorker[k].h)
    /\ \A k \in 1..Len(toParent) : Sendable(toParent[k])
    /\ outbox # None => Sendable(The(outbox))

(* A read and its reply name the sequence and the length the worker waits    *)
(* for.                                                                      *)
Answer(f) ==
    f.h.type = "ReadReply" =>
        /\ f.body[1] = service.pending_read_sequence
        /\ f.body[3] = IF f.body[2] = "Ok" THEN service.pending_read_length ELSE 0

Question(f) ==
    f.h.type = "ReadRequest" =>
        /\ f.body[1] = service.pending_read_sequence
        /\ f.body[2] = service.pending_read_length

ReadMatches ==
    Running /\ service.pending_read =>
        /\ \A k \in 1..Len(toWorker) : Answer(toWorker[k])
        /\ phase # "Terminal" =>
               /\ \A k \in 1..Len(toParent) : Question(toParent[k])
               /\ outbox # None => Question(The(outbox))

(* What a live parent holds of the open request, and what a running worker   *)
(* knows of its own.                                                         *)
Balanced(r, p, streams) ==
    /\ ~r.protocol.read_in_flight
    /\ p \in ReceivePhases =>
           /\ r.protocol.active_result_type = Result(streams)
           /\ streams => r.stream # None
           /\ ~streams => r.candidate # None
    /\ Accounted(r)

ParentSide ==
    phase # "Terminal" =>
        Balanced(results, phase, streaming) /\ Used(results.protocol.last_request_id)

WorkerSide == Running /\ wv.state = "Streaming" => service.active_operation = "Stream"

\* An end that is gone closed its side of the channel.
Ports == (phase = "Terminal" => parentIo # "open") /\ (~Running => workerIo # "open")

(* The ends stand in a row of the table.  Once an end is gone the row keeps  *)
(* its last part in it: a live end still meets what the other left behind.   *)
Prefix(q, s) == Len(q) <= Len(s) /\ \A k \in 1..Len(q) : q[k] = s[k]

Sent == IF outbox = None THEN toParent ELSE Append(toParent, The(outbox))

AtParent(p, req, streams, crossed, s) ==
    /\ p = phase /\ req = active_request_id /\ streams = streaming
    /\ crossed = results.protocol.crossed_read_request_seen
    /\ Prefix(toParent, s)

Stands(p, req, streams, crossed, s, w, tw) ==
    /\ req \in Nat /\ streams \in BOOLEAN /\ crossed \in BOOLEAN
    /\ OnWire(s) /\ Framed(tw) /\ w \in Validators
    /\ Row(p, req, streams, crossed, s, w, tw)
    /\ phase # "Terminal" => AtParent(p, req, streams, crossed, s)
    /\ Running => w = wv /\ tw = toWorker
    /\ Running /\ phase # "Terminal" => s = Sent

Joint == \E p, req, streams, crossed, s, w, tw : Stands(p, req, streams, crossed, s, w, tw)

OrderInv ==
    /\ Joint /\ Canonical /\ ReadMatches
    /\ ParentSide /\ WorkerSide /\ Ports
    /\ NoOrderingFailure

(* The pipes as sequences. *)
LEMMA WirePops ==
    ASSUME NEW q, OnWire(q), q # << >> PROVE Popped(q, Tail(q)) /\ OnWire(Tail(q)) /\ Head(q) = q[1]
<1>1. OnWire(Tail(q))
  BY Wired
<1>2. Popped(q, Tail(q)) /\ Head(q) = q[1]
  BY WireTail DEF Popped
<1> QED BY <1>1, <1>2

LEMMA WirePushes ==
    ASSUME NEW q, OnWire(q), NEW f PROVE Pushed(q, f, Append(q, f))
BY WireAppend DEF Pushed

LEMMA FramedPops ==
    ASSUME NEW q, Framed(q), q # << >>
    PROVE  Popped(q, Tail(q)) /\ Framed(Tail(q)) /\ Head(q) = q[1] /\ Len(q) > 0
<1>1. Framed(Tail(q))
  BY Framing
<1>2. Popped(q, Tail(q)) /\ Head(q) = q[1] /\ Len(q) > 0
  BY FramedTail DEF Popped
<1> QED BY <1>1, <1>2

LEMMA FramedPushes ==
    ASSUME NEW q, Framed(q), NEW f PROVE Pushed(q, f, Append(q, f))
BY FramedAppend DEF Pushed

LEMMA EmptyPipe ==
    ASSUME NEW q, OnWire(q) \/ Framed(q) PROVE Len(q) \in Nat /\ (Len(q) = 0 <=> q = << >>)
BY DEF OnWire, Framed

LEMMA PrefixTail ==
    ASSUME NEW q, NEW s, OnWire(q), OnWire(s), Prefix(q, s), q # << >>
    PROVE  Prefix(Tail(q), Tail(s)) /\ s # << >> /\ s[1] = Head(q)
<1>1. /\ Len(q) \in Nat \ {0} /\ Len(Tail(q)) = Len(q) - 1 /\ Head(q) = q[1]
      /\ \A k \in 1..Len(q) - 1 : Tail(q)[k] = q[k + 1]
  BY WireTail
<1>2. Len(s) \in Nat /\ Len(s) # 0 /\ s # << >>
  BY <1>1, EmptyPipe DEF Prefix
<1>3. /\ Len(s) \in Nat \ {0} /\ Len(Tail(s)) = Len(s) - 1
      /\ \A k \in 1..Len(s) - 1 : Tail(s)[k] = s[k + 1]
  BY <1>2, WireTail
<1>4. s[1] = q[1]
  BY <1>1 DEF Prefix
<1>5. Len(q) <= Len(s)
  BY DEF Prefix
<1>6. ASSUME NEW k \in 1..Len(q) - 1 PROVE Tail(q)[k] = Tail(s)[k]
  <2>1. k \in 1..Len(s) - 1 /\ k + 1 \in 1..Len(q)
    BY <1>1, <1>3, <1>5, <1>6
  <2>2. q[k + 1] = s[k + 1]
    BY <2>1 DEF Prefix
  <2> QED BY <1>1, <1>3, <1>6, <2>1, <2>2
<1>7. Len(Tail(q)) <= Len(Tail(s))
  BY <1>1, <1>3, <1>5
<1> QED BY <1>1, <1>2, <1>4, <1>6, <1>7 DEF Prefix

LEMMA PrefixAppend ==
    ASSUME NEW q, NEW s, OnWire(q), OnWire(s), Prefix(q, s), NEW f PROVE Prefix(q, Append(s, f))
<1>1. /\ Len(s) \in Nat /\ Len(Append(s, f)) = Len(s) + 1
      /\ \A k \in 1..Len(s) : Append(s, f)[k] = s[k]
  BY WireAppend
<1>2. Len(q) \in Nat
  BY EmptyPipe
<1> QED BY <1>1, <1>2 DEF Prefix

LEMMA TailOfAppend ==
    ASSUME NEW q, OnWire(q), q # << >>, NEW f PROVE Tail(Append(q, f)) = Append(Tail(q), f)
<1>1. PICK F : q \in Seq(F)
  BY DEF OnWire
<1> DEFINE G == F \cup {f}
<1>2. q \in Seq(G) /\ f \in G
  BY <1>1
<1> HIDE DEF G
<1>3. Append(q, f) \in Seq(G) /\ Append(q, f) # << >> /\ Len(Append(q, f)) = Len(q) + 1
  BY <1>2, AppendProperties
<1>4. Tail(q) \in Seq(G) /\ Len(Tail(q)) = Len(q) - 1 /\ Len(q) \in Nat \ {0}
  BY <1>2
<1>5. /\ Append(Tail(q), f) \in Seq(G) /\ Len(Append(Tail(q), f)) = Len(q)
      /\ Tail(Append(q, f)) \in Seq(G) /\ Len(Tail(Append(q, f))) = Len(q)
  BY <1>2, <1>3, <1>4
<1>6. ASSUME NEW k \in 1..Len(q) PROVE Tail(Append(q, f))[k] = Append(Tail(q), f)[k]
  <2>1. Tail(Append(q, f))[k] = Append(q, f)[k + 1]
    BY <1>3, <1>4, <1>6
  <2>2. CASE k = Len(q)
    <3>1. Append(q, f)[Len(q) + 1] = f /\ Append(Tail(q), f)[Len(Tail(q)) + 1] = f
      BY <1>2, <1>4, AppendProperties
    <3>2. Len(Tail(q)) + 1 = Len(q)
      BY <1>4
    <3> QED BY <2>1, <2>2, <3>1, <3>2
  <2>3. CASE k # Len(q)
    <3> DEFINE n == Len(q)
               m == Len(Tail(q))
    <3>0. k \in 1..n /\ n \in Nat /\ m = n - 1 /\ k # n
      BY <1>4, <1>6, <2>3
    <3> HIDE DEF n, m
    <3>1. k \in 1..m /\ k + 1 \in 1..n
      BY <3>0
    <3> USE DEF n, m
    <3>2. Append(q, f)[k + 1] = q[k + 1] /\ Append(Tail(q), f)[k] = Tail(q)[k]
      BY <1>2, <1>4, <3>1, AppendProperties
    <3>3. Tail(q)[k] = q[k + 1]
      BY <1>2, <1>4, <3>1
    <3> QED BY <2>1, <3>2, <3>3
  <2> QED BY <2>2, <2>3
<1> QED BY <1>5, <1>6, SeqEqual

-----------------------------------------------------------------------------
(* Every frame the two ends build is clean. *)
LEMMA CleanHeader ==
    ASSUME NEW type \in MessageTypes, NEW req \in Nat, NEW len \in Nat, len <= MaxFramePayload,
           (type \in ZeroRequestTypes) <=> (req = 0)
    PROVE  Clean(Header(type, req, len))
<1> DEFINE h == Header(type, req, len)
<1>1. /\ h.type = type /\ h.req = req /\ h.len = len /\ h.envelope = "ok"
      /\ h.sid = SessionIdent
  BY DEF Header
<1> HIDE DEF h
<1>2. ~(h.len > MaxFramePayload) /\ h.sid # 0
  BY <1>1, SessionIdentAssumption, MaxFramePayloadAssumption
<1>3. (h.type \in ZeroRequestTypes) = (h.req = 0)
  BY <1>1
<1>4. HeaderError(h) = NoError
  BY <1>1, <1>2, <1>3 DEF HeaderError
<1> QED BY <1>1, <1>4 DEF Clean, h

LEMMA CleanFrames ==
    /\ \A body : \A type \in ZeroRequestTypes : Clean(Frame(type, 0, body).h)
    /\ \A body : \A req \in Nat \ {0} :
          \A type \in {"Enumerate", "StreamEntry", "ReadRequest", "Complete", "Cancel",
                      "CancelAck"} : Clean(Frame(type, req, body).h)
    /\ \A body : \A req \in Nat \ {0} : \A type \in {"EntryBatch", "DataChunk"} :
          Len(body) \in Nat /\ FitsFrame(Len(body)) => Clean(Frame(type, req, body).h)
    /\ \A body : \A req \in Nat \ {0} :
          body[3] \in Nat /\ FitsFrame(1 + body[3]) => Clean(Frame("ReadReply", req, body).h)
<1>1. \A type, req, body : Frame(type, req, body).h = Header(type, req, PayloadLength(type, body))
  BY DEF Frame
<1>2. 0 \in Nat /\ 1 \in Nat /\ 0 <= MaxFramePayload /\ 1 <= MaxFramePayload
  BY MaxFramePayloadAssumption
<1>3. ASSUME NEW type \in ZeroRequestTypes, NEW body PROVE Clean(Frame(type, 0, body).h)
  <2>1. PayloadLength(type, body) \in {0, 1} /\ type \in MessageTypes
    BY DEF PayloadLength, ZeroRequestTypes, MessageTypes
  <2> QED BY <1>1, <1>2, <2>1, CleanHeader
<1>4. ASSUME NEW type \in {"Enumerate", "StreamEntry", "ReadRequest", "Complete", "Cancel",
                           "CancelAck"}, NEW req \in Nat \ {0}, NEW body
      PROVE  Clean(Frame(type, req, body).h)
  <2>1. PayloadLength(type, body) \in {0, 1} /\ type \in MessageTypes
        /\ type \notin ZeroRequestTypes
    BY DEF PayloadLength, ZeroRequestTypes, MessageTypes
  <2> QED BY <1>1, <1>2, <2>1, CleanHeader
<1>5. ASSUME NEW type \in {"EntryBatch", "DataChunk"}, NEW req \in Nat \ {0}, NEW body,
             Len(body) \in Nat, FitsFrame(Len(body))
      PROVE  Clean(Frame(type, req, body).h)
  <2>1. PayloadLength(type, body) = Len(body) /\ type \in MessageTypes
        /\ type \notin ZeroRequestTypes
    BY DEF PayloadLength, ZeroRequestTypes, MessageTypes
  <2> QED BY <1>1, <1>5, <2>1, CleanHeader DEF FitsFrame
<1>6. ASSUME NEW req \in Nat \ {0}, NEW body, body[3] \in Nat, FitsFrame(1 + body[3])
      PROVE  Clean(Frame("ReadReply", req, body).h)
  <2>1. PayloadLength("ReadReply", body) = 1 + body[3] /\ "ReadReply" \in MessageTypes
        /\ "ReadReply" \notin ZeroRequestTypes
    BY DEF PayloadLength, ZeroRequestTypes, MessageTypes
  <2>2. 1 + body[3] \in Nat
    BY <1>6
  <2> QED BY <1>1, <1>6, <2>1, <2>2, CleanHeader DEF FitsFrame
<1> QED BY <1>3, <1>4, <1>5, <1>6

-----------------------------------------------------------------------------
(* The parent's steps, and what one of them leaves to the order. *)
ParentActs ==
    /\ phase # "Terminal" /\ UNCHANGED <<workerVars, workerIo>>
    /\ Orderly(results')
    /\ phase' = "Terminal" => parentIo' = "aborted"
    /\ toParent' = toParent \/ (toParent # <<>> /\ toParent' = Tail(toParent))
    /\ \/ toWorker' = toWorker
       \/ \E f : /\ toWorker' = Append(toWorker, f) /\ Clean(f.h)
                 /\ Running /\ service.pending_read => Answer(f)
    /\ ParentSide' /\ Joint'

LEMMA TailKeeps ==
    ASSUME NEW q, OnWire(q) \/ Framed(q), q # << >>
    PROVE  \A k \in 1..Len(Tail(q)) : k + 1 \in 1..Len(q) /\ Tail(q)[k] = q[k + 1]
<1>1. /\ Len(q) \in Nat \ {0} /\ Len(Tail(q)) = Len(q) - 1
      /\ \A k \in 1..Len(q) - 1 : Tail(q)[k] = q[k + 1]
  BY WireTail, FramedTail
<1> DEFINE n == Len(q)
<1> HIDE DEF n
<1>2. n \in Nat \ {0} => \A k \in 1..n - 1 : k + 1 \in 1..n
  OBVIOUS
<1> QED BY <1>1, <1>2 DEF n

LEMMA AppendKeeps ==
    ASSUME NEW q, OnWire(q) \/ Framed(q), NEW f
    PROVE  \A k \in 1..Len(Append(q, f)) :
               Append(q, f)[k] = f \/ (k \in 1..Len(q) /\ Append(q, f)[k] = q[k])
<1>1. /\ Len(q) \in Nat /\ Len(Append(q, f)) = Len(q) + 1
      /\ Append(q, f)[Len(q) + 1] = f
      /\ \A k \in 1..Len(q) : Append(q, f)[k] = q[k]
  BY WireAppend, FramedAppend
<1> DEFINE n == Len(q)
<1> HIDE DEF n
<1>2. n \in Nat => \A k \in 1..n + 1 : k = n + 1 \/ k \in 1..n
  OBVIOUS
<1> QED BY <1>1, <1>2 DEF n

LEMMA ParentKeepsOrder == ASSUME SessionInv, OrderInv, ParentActs PROVE OrderInv'
<1>1. OnWire(toParent) /\ Framed(toWorker)
  BY DEF SessionInv, ParentInv, Typed, WorkerInv
<1>2. /\ UNCHANGED <<wv, service, pc, outbox, failure, workerIo>>
      /\ Running' = Running
  BY DEF ParentActs, workerVars, Running
<1>3. \A k \in 1..Len(toParent') : \E j \in 1..Len(toParent) : toParent'[k] = toParent[j]
  BY <1>1, TailKeeps DEF ParentActs
<1>4. \A k \in 1..Len(toWorker') :
          \/ \E j \in 1..Len(toWorker) : toWorker'[k] = toWorker[j]
          \/ Clean(toWorker'[k].h) /\ (Running /\ service.pending_read => Answer(toWorker'[k]))
  BY <1>1, AppendKeeps DEF ParentActs
<1>5. Canonical'
  <2>1. \A k \in 1..Len(toWorker') : Clean(toWorker'[k].h)
    BY <1>4 DEF OrderInv, Canonical
  <2>2. \A k \in 1..Len(toParent') : Sendable(toParent'[k])
    BY <1>3 DEF OrderInv, Canonical
  <2>3. outbox' # None => Sendable(The(outbox'))
    BY <1>2 DEF OrderInv, Canonical
  <2> QED BY <2>1, <2>2, <2>3 DEF Canonical, Sendable
<1>6. ReadMatches'
  <2> SUFFICES ASSUME Running, service.pending_read
               PROVE  /\ \A k \in 1..Len(toWorker') : Answer(toWorker'[k])
                      /\ phase' # "Terminal" =>
                             /\ \A k \in 1..Len(toParent') : Question(toParent'[k])
                             /\ outbox # None => Question(The(outbox))
    BY <1>2 DEF ReadMatches, Answer, Question
  <2>1. /\ \A k \in 1..Len(toWorker) : Answer(toWorker[k])
        /\ \A k \in 1..Len(toParent) : Question(toParent[k])
        /\ outbox # None => Question(The(outbox))
    BY DEF OrderInv, ReadMatches, ParentActs
  <2> QED BY <1>3, <1>4, <2>1
<1>7. WorkerSide' /\ Ports'
  BY <1>2 DEF OrderInv, WorkerSide, Ports, ParentActs
<1>8. NoOrderingFailure'
  BY <1>2 DEF OrderInv, NoOrderingFailure, ParentActs, Orderly
<1> QED BY <1>5, <1>6, <1>7, <1>8 DEF ParentActs, OrderInv

(* The row a live parent stands in, and the row its step leads to. *)
Meets(s, w, tw) ==
    Stands(phase, active_request_id, streaming, results.protocol.crossed_read_request_seen,
           s, w, tw)

LEMMA LiveMeets ==
    ASSUME Joint, phase # "Terminal" PROVE \E s, w, tw : Meets(s, w, tw)
<1>1. PICK p, req, streams, crossed, s, w, tw : Stands(p, req, streams, crossed, s, w, tw)
  BY DEF Joint
<1>2. /\ p = phase /\ req = active_request_id /\ streams = streaming
      /\ crossed = results.protocol.crossed_read_request_seen
  BY <1>1 DEF Stands, AtParent
<1> QED BY <1>1, <1>2 DEF Meets

LEMMA ParentLeaves ==
    ASSUME Joint, UNCHANGED workerVars, toWorker' = toWorker, phase' = "Terminal"
    PROVE  Joint'
<1>1. PICK p, req, streams, crossed, s, w, tw : Stands(p, req, streams, crossed, s, w, tw)
  BY DEF Joint
<1>2. Running' = Running /\ wv' = wv
  BY DEF workerVars, Running
<1>3. Stands(p, req, streams, crossed, s, w, tw)'
  BY <1>1, <1>2 DEF Stands
<1> QED BY <1>3 DEF Joint

LEMMA ParentTurns ==
    ASSUME SessionInv, SessionInv', phase # "Terminal", UNCHANGED workerVars,
           NEW s, NEW w, NEW tw, Meets(s, w, tw), NEW s2, NEW tw2,
           \/ toParent' = toParent /\ s2 = s
           \/ toParent # <<>> /\ toParent' = Tail(toParent) /\ s2 = Tail(s),
           \/ toWorker' = toWorker /\ tw2 = tw
           \/ Running /\ tw2 = toWorker',
           NEW p2, NEW req2 \in Nat, NEW streams2 \in BOOLEAN, NEW crossed2 \in BOOLEAN,
           Row(p2, req2, streams2, crossed2, s2, w, tw2),
           phase' # "Terminal" =>
               /\ p2 = phase' /\ req2 = active_request_id' /\ streams2 = streaming'
               /\ crossed2 = results'.protocol.crossed_read_request_seen
    PROVE  Joint'
<1>1. Running' = Running /\ wv' = wv /\ outbox' = outbox
  BY DEF workerVars, Running
<1>2. /\ OnWire(s) /\ Framed(tw) /\ w \in Validators /\ Prefix(toParent, s)
      /\ Running => w = wv /\ tw = toWorker /\ s = Sent
  BY DEF Meets, Stands, AtParent
<1>3. OnWire(toParent) /\ OnWire(toParent') /\ Framed(toWorker')
  BY DEF SessionInv, ParentInv, Typed, WorkerInv
<1>4. OnWire(s2) /\ Prefix(toParent', s2) /\ (Running => s2 = Sent')
  <2>1. CASE toParent' = toParent /\ s2 = s
    BY <1>1, <1>2, <2>1 DEF Sent
  <2>2. CASE toParent # <<>> /\ toParent' = Tail(toParent) /\ s2 = Tail(s)
    <3>1. Prefix(Tail(toParent), Tail(s)) /\ s # << >>
      BY <1>2, <1>3, <2>2, PrefixTail
    <3>2. OnWire(Tail(s))
      BY <1>2, <3>1, WirePops
    <3>3. Running => s2 = Sent'
      BY <1>1, <1>2, <1>3, <2>2, TailOfAppend DEF Sent
    <3> QED BY <2>2, <3>1, <3>2, <3>3
  <2> QED BY <2>1, <2>2
<1>5. Framed(tw2) /\ (Running => tw2 = toWorker')
  BY <1>2, <1>3
<1>6. Stands(p2, req2, streams2, crossed2, s2, w, tw2)'
  BY <1>1, <1>2, <1>4, <1>5 DEF Stands, AtParent
<1> QED BY <1>6 DEF Joint

(* What an operation that succeeded did to the validator. *)
LEMMA FollowedEffects ==
    ASSUME NEW r, NEW d, NEW f, InTurn(r, d, f), NEW o, Follows(r, d, f, o), ResultInv(o),
           o.failure = NoFailure
    PROVE  /\ Effects(r.protocol, d, f.h, o.protocol) /\ ReadEffects(r.protocol, f.h, o.protocol)
           /\ Leaves(r.protocol, f.h, o.protocol)
           /\ o.protocol.state \notin RequestStates =>
                  ~o.protocol.read_in_flight /\ ~o.protocol.crossed_read_request_seen
           /\ o.protocol.state # "Cancelling" => ~o.protocol.crossed_read_request_seen
           /\ o.protocol \in Validators
<1>1. o.protocol = Observe(r.protocol, d, f.h, ParentBudgets) /\ o.protocol.error = NoError
  BY DEF Follows, ResultInv
<1>2. Sound(r.protocol, ParentBudgets) /\ Sound(o.protocol, ParentBudgets)
  BY DEF InTurn, ResultInv, Held
<1>3. d \in Directions /\ f.h \in FrameHeaders
  BY DEF InTurn
<1>4. /\ Effects(r.protocol, d, f.h, o.protocol) /\ ReadEffects(r.protocol, f.h, o.protocol)
      /\ Leaves(r.protocol, f.h, o.protocol)
  BY <1>1, <1>2, <1>3, ParentBudgetsAssumption, AcceptedEffects, AcceptedReads, AcceptedLeaves
<1>5. o.protocol \in Validators /\ Consistent(o.protocol)
  BY <1>2 DEF Sound
<1> QED BY <1>1, <1>4, <1>5 DEF Consistent, RequestStates, Validators

(* A retired session. *)
LEMMA ParentRetired ==
    ASSUME SessionInv, OrderInv, phase # "Terminal", UNCHANGED <<workerVars, workerIo>>,
           NEW o, ResultInv(o), Orderly(o),
           \E e \in {"WorkerFailure", "SourceInvalidated"} : results' = Retire(o, e),
           phase' = "Terminal", parentIo' = "aborted", toWorker' = toWorker,
           toParent' = toParent \/ (toParent # <<>> /\ toParent' = Tail(toParent))
    PROVE  ParentActs
<1>1. Orderly(results')
  BY OrderlyRetires DEF ResultInv, Held
<1>2. Joint'
  BY ParentLeaves DEF OrderInv
<1> QED BY <1>1, <1>2 DEF ParentActs, ParentSide

LEMMA GivingUpActs ==
    ASSUME SessionInv, OrderInv, UNCHANGED workerVars,
           RequestIdsExhausted \/ ParentGivesUp \/ InvalidateSource \/ ReceiveUnexpected
    PROVE  ParentActs
<1>1. phase # "Terminal"
  BY DEF RequestIdsExhausted, ParentGivesUp, InvalidateSource, ReceiveUnexpected, OpenPhases,
         ReceivePhases
<1>2. ResultInv(results) /\ results.failure = NoFailure
  BY <1>1, LiveFacts DEF SessionInv
<1>3. Orderly(results)
  BY <1>2, LiveIsOrderly
<1> DEFINE lost == Retire(results, "WorkerFailure")
<1>4. ResultInv(lost) /\ Orderly(lost) /\ lost.failure # NoFailure
  BY <1>2, <1>3, RetiredWith, OrderlyRetires DEF ResultInv, Held
<1> HIDE DEF lost
<1>5. /\ phase' = "Terminal" /\ parentIo' = "aborted" /\ toWorker' = toWorker
      /\ workerIo' = workerIo
      /\ toParent' = toParent \/ (toParent # <<>> /\ toParent' = Tail(toParent))
      /\ \/ \E e \in {"WorkerFailure", "SourceInvalidated"} : results' = Retire(results, e)
         \/ results' = Retire(lost, "WorkerFailure")
  BY <1>4 DEF RequestIdsExhausted, ParentGivesUp, InvalidateSource, ReceiveUnexpected,
              RetireSession, Consume, lost
<1> QED BY <1>1, <1>2, <1>3, <1>4, <1>5, ParentRetired

LEMMA LiveParent ==
    ASSUME SessionInv, OrderInv, phase # "Terminal"
    PROVE  /\ ResultInv(results) /\ results.failure = NoFailure /\ Orderly(results)
           /\ results.protocol.state = StateOf(phase) /\ results.protocol \in Validators
           /\ active_request_id \in Nat /\ next_request_id \in Nat \ {0} /\ streaming \in BOOLEAN
           /\ Balanced(results, phase, streaming) /\ Used(results.protocol.last_request_id)
           /\ phase # "Cancelling" => ~results.protocol.crossed_read_request_seen
           /\ phase \in ReceivePhases =>
                  /\ active_request_id = results.protocol.active_request_id
                  /\ active_request_id # 0
           /\ ParentMaySend => Running
<1>1. ParentInv /\ Numbering
  BY DEF SessionInv
<1>2. /\ ResultInv(results) /\ results.failure = NoFailure
      /\ results.protocol.state = StateOf(phase)
  BY <1>1, LiveFacts
<1>3. /\ results.protocol \in Validators /\ Consistent(results.protocol)
      /\ results.protocol.error = NoError /\ Orderly(results)
  BY <1>2, LiveIsOrderly DEF ResultInv, Held, Sound
<1>4. phase # "Cancelling" => ~results.protocol.crossed_read_request_seen
  BY <1>2, <1>3 DEF StateOf, Consistent
<1>5. phase \in ReceivePhases =>
          active_request_id = results.protocol.active_request_id /\ active_request_id # 0
  <2>1. phase \in ReceivePhases => active_request_id \in RequestIds
    BY <1>1, OpenIsNumbered
  <2> QED BY <1>1, <2>1, ResultLimitsAssumption DEF ParentInv, PhaseInv, RequestIds
<1>6. ParentMaySend => Running
  BY DEF OrderInv, Ports, ParentMaySend
<1>7. next_request_id \in Nat \ {0}
  BY <1>1, ResultLimitsAssumption DEF Numbering, RequestIds
<1>8. Balanced(results, phase, streaming) /\ Used(results.protocol.last_request_id)
  BY DEF OrderInv, ParentSide
<1>9. active_request_id \in Nat /\ streaming \in BOOLEAN
  BY <1>1 DEF ParentInv, Typed
<1> QED BY <1>2, <1>3, <1>4, <1>5, <1>6, <1>7, <1>8, <1>9

LEMMA SendActs ==
    ASSUME SessionInv, SessionInv', OrderInv, phase # "Terminal", UNCHANGED workerVars,
           UNCHANGED <<toParent, workerIo>>, NEW f, Clean(f.h), f.h.type # "ReadReply",
           NEW o, ResultInv(o), Orderly(o), NEW next, SendTransaction(f, o, next),
           next # "Terminal",
           o.failure = NoFailure =>
               /\ Balanced(o, next, streaming')
               /\ \A i : i = o.protocol.last_request_id => Used(i)'
               /\ \A s, w, tw : Meets(s, w, tw) /\ Running =>
                      Row(next, active_request_id', streaming',
                          o.protocol.crossed_read_request_seen, s, w, Append(tw, f))
    PROVE  ParentActs
<1>1. CASE o.failure # NoFailure
  BY <1>1, ParentRetired DEF SendTransaction, RetireSession
<1>2. CASE o.failure = NoFailure
  <2>1. /\ ParentMaySend /\ toWorker' = Append(toWorker, f) /\ phase' = next /\ results' = o
    BY <1>2 DEF SendTransaction
  <2>2. Running
    BY <2>1, LiveParent
  <2>3. PICK s, w, tw : Meets(s, w, tw)
    BY LiveMeets DEF OrderInv
  <2>4. tw = toWorker
    BY <2>2, <2>3 DEF Meets, Stands
  <2>5. Row(phase', active_request_id', streaming',
            results'.protocol.crossed_read_request_seen, s, w, toWorker')
    BY <1>2, <2>1, <2>2, <2>3, <2>4
  <2>6. /\ active_request_id' \in Nat /\ streaming' \in BOOLEAN
        /\ results'.protocol.crossed_read_request_seen \in BOOLEAN
    BY DEF SessionInv, ParentInv, Typed, ResultInv, Held, Sound, Validators
  <2>7. Joint'
    BY <2>2, <2>3, <2>5, <2>6, ParentTurns
  <2>8. ParentSide'
    BY <1>2, <2>1 DEF ParentSide, Used
  <2> QED BY <2>1, <2>7, <2>8 DEF ParentActs, Answer
<1> QED BY <1>1, <1>2

LEMMA SendHelloActs ==
    ASSUME SessionInv, SessionInv', OrderInv, SendHello, UNCHANGED workerVars PROVE ParentActs
<1> DEFINE f == Frame("Hello", 0, <<>>)
           o == ResultObserve(results, "ParentToWorker", f)
<1>1. phase = "Connecting" /\ ParentMaySend
  BY DEF SendHello
<1>2. /\ ResultInv(results) /\ results.failure = NoFailure /\ Running
      /\ results.protocol.state = "AwaitingHello"
      /\ Balanced(results, phase, streaming) /\ Used(results.protocol.last_request_id)
      /\ ~results.protocol.crossed_read_request_seen
      /\ active_request_id \in Nat /\ streaming \in BOOLEAN
  BY <1>1, LiveParent DEF StateOf
<1>3. f.h \in FrameHeaders /\ f.h.req = 0 /\ f.h.type = "Hello"
  BY SentHeader
<1>4. Clean(f.h)
  BY CleanFrames DEF ZeroRequestTypes
<1>5. /\ toWorker' = Append(toWorker, f) /\ toParent' = toParent /\ workerIo' = workerIo
      /\ IF o.failure # NoFailure
         THEN /\ phase' = "Terminal" /\ results' = Retire(o, "WorkerFailure")
              /\ parentIo' = "aborted"
         ELSE phase' = "AwaitingReady" /\ results' = o
      /\ UNCHANGED <<next_request_id, request_ids_exhausted, active_request_id, streaming>>
  BY DEF SendHello, RetireSession
<1> HIDE DEF f
<1>6. InTurn(results, "ParentToWorker", f)
  BY <1>2, <1>3, <1>4 DEF InTurn, InOrder, Directions
<1>7. /\ Follows(results, "ParentToWorker", f, o) /\ o \in Sessions /\ ResultInv(o)
      /\ o.failure = NoFailure => Observed(results, "ParentToWorker", f, o)
  BY <1>6, ObserveFollows, ObservedOrRetired DEF InTurn
<1> HIDE DEF o
<1>8. o.failure = NoFailure =>
        /\ Effects(results.protocol, "ParentToWorker", f.h, o.protocol)
        /\ o.protocol.state \notin RequestStates =>
               ~o.protocol.read_in_flight /\ ~o.protocol.crossed_read_request_seen
        /\ o.candidate = results.candidate
  BY <1>6, <1>7, FollowedEffects DEF Observed
<1>9. Orderly(results')
  BY <1>5, <1>7, OrderlyRetires DEF Follows
<1>10. ParentSide'
  <2> SUFFICES ASSUME o.failure = NoFailure
               PROVE  /\ Balanced(o, "AwaitingReady", streaming)
                      /\ \A i : i = o.protocol.last_request_id => Used(i)'
    BY <1>5 DEF ParentSide, Used
  <2>1. o.protocol.state = "AwaitingReady" /\ o.protocol.last_request_id =
            results.protocol.last_request_id
    BY <1>3, <1>8 DEF Effects, Keeps
  <2>2. Used(results.protocol.last_request_id)
    BY <1>2
  <2>3. \A i : i = o.protocol.last_request_id => Used(i)'
    BY <1>5, <2>1, <2>2 DEF Used
  <2> QED BY <1>2, <1>8, <2>1, <2>3 DEF Balanced, Accounted, RequestStates, ReceivePhases
<1>11. Joint'
  <2>1. PICK s, w, tw : Meets(s, w, tw)
    BY <1>1, LiveMeets DEF OrderInv
  <2>2. /\ tw = toWorker /\ Framed(tw)
        /\ Row("Connecting", active_request_id, streaming, FALSE, s, w, tw)
    BY <1>1, <1>2, <2>1 DEF Meets, Stands
  <2>3. Pushed(tw, f, toWorker') /\ IsOf(f, "Hello", 0)
    BY <1>3, <1>5, <2>2, FramedPushes DEF IsOf
  <2>4. Row("AwaitingReady", active_request_id, streaming, FALSE, s, w, toWorker')
    BY <1>2, <2>2, <2>3, RowSendHello
  <2>5. phase' # "Terminal" => ~results'.protocol.crossed_read_request_seen
    BY <1>3, <1>5, <1>8 DEF Effects, RequestStates
  <2>6. phase' # "Terminal" => results'.protocol.crossed_read_request_seen = FALSE
    BY <2>5 DEF SessionInv, ParentInv, ResultInv, Held, Sound, Validators
  <2> QED BY <1>1, <1>2, <1>5, <2>1, <2>4, <2>6, ParentTurns
<1> QED BY <1>1, <1>2, <1>3, <1>4, <1>5, <1>9, <1>10, <1>11 DEF ParentActs, Answer

LEMMA BeginsInOrder ==
    ASSUME SessionInv, OrderInv, phase = "Idle", ~request_ids_exhausted, NEW f,
           f.h \in FrameHeaders, Clean(f.h), f.h.type \in {"Enumerate", "StreamEntry"},
           f.h.req = next_request_id
    PROVE  InTurn(results, "ParentToWorker", f)
<1>1. /\ ResultInv(results) /\ results.failure = NoFailure
      /\ results.protocol.state = "Idle" /\ Used(results.protocol.last_request_id)
      /\ next_request_id \in Nat
  BY LiveParent DEF StateOf
<1>2. f.h.req > results.protocol.last_request_id
  BY <1>1, ResultLimitsAssumption DEF Used
<1> QED BY <1>1, <1>2 DEF InTurn, InOrder, Directions

LEMMA BeginsInRow ==
    ASSUME SessionInv, OrderInv, phase = "Idle", ~Used(next_request_id), NEW f,
           NEW streams \in BOOLEAN, IsOf(f, BeginType(streams), next_request_id),
           NEW s, NEW w, NEW tw, Meets(s, w, tw), Running
    PROVE  Row(StateFor(streams), next_request_id, streams, FALSE, s, w, Append(tw, f))
<1>1. /\ ~results.protocol.crossed_read_request_seen /\ streaming \in BOOLEAN
      /\ results.protocol \in Validators
  BY LiveParent
<1>2. /\ Framed(tw) /\ w = wv
      /\ Row("Idle", active_request_id, streaming, FALSE, s, w, tw)
  BY <1>1 DEF Meets, Stands, Validators
<1>3. wv.last_request_id < next_request_id
  BY FreshId
<1>4. Pushed(tw, f, Append(tw, f))
  BY <1>2, FramedPushes
<1> QED BY <1>1, <1>2, <1>3, <1>4, RowSendBegin

LEMMA BeginEnumerationActs ==
    ASSUME SessionInv, SessionInv', OrderInv, BeginEnumerationCall, UNCHANGED workerVars
    PROVE  ParentActs
<1> DEFINE f == Frame("Enumerate", next_request_id, <<>>)
           o == BeginEnumeration(results, f)
<1>1. phase = "Idle" /\ ~request_ids_exhausted /\ AllocateRequestId
  BY DEF BeginEnumerationCall
<1>2. /\ ResultInv(results) /\ results.failure = NoFailure /\ next_request_id \in Nat \ {0}
  BY <1>1, LiveParent
<1>3. /\ f.h \in FrameHeaders /\ f.h.req = next_request_id /\ f.h.type = "Enumerate"
      /\ Clean(f.h)
  BY <1>2, SentHeader, CleanFrames
<1>4. /\ UNCHANGED <<toParent, workerIo>> /\ streaming' = FALSE
      /\ SendTransaction(f, o, "Enumerating")
      /\ o.failure = NoFailure => active_request_id' = next_request_id
  BY DEF BeginEnumerationCall
<1> HIDE DEF f
<1>5. InTurn(results, "ParentToWorker", f)
  BY <1>1, <1>3, BeginsInOrder
<1>6. Follows(results, "ParentToWorker", f, o)
  BY <1>5, BeginsFollow
<1>7. /\ ResultInv(o)
      /\ o.failure = NoFailure =>
             /\ o.candidate # None
             /\ The(o.candidate) = NewCandidate(results.enumeration_counter + 1)
  BY <1>2, <1>3, BeginEnumerationHolds
<1> HIDE DEF o
<1>8. o.failure = NoFailure => Accounted(o)
  BY <1>7, FreshAccounted
<1>9. ASSUME o.failure = NoFailure
      PROVE  /\ Balanced(o, "Enumerating", FALSE)
             /\ \A i : i = o.protocol.last_request_id => Used(i)'
             /\ o.protocol.crossed_read_request_seen = FALSE
  <2>1. /\ Effects(results.protocol, "ParentToWorker", f.h, o.protocol)
        /\ ReadEffects(results.protocol, f.h, o.protocol)
        /\ Leaves(results.protocol, f.h, o.protocol) /\ o.protocol \in Validators
    BY <1>5, <1>6, <1>7, <1>9, FollowedEffects
  <2>2. /\ o.protocol.state = "Enumerating" /\ o.protocol.last_request_id = next_request_id
        /\ ~o.protocol.read_in_flight /\ o.protocol.crossed_read_request_seen = FALSE
    BY <1>3, <2>1 DEF Effects, ReadEffects, Leaves, Validators
  <2>3. o.protocol.active_result_type = "EntryBatch"
    BY <1>7, <1>9, <2>2 DEF ResultInv, Held, Sound, Consistent
  <2>4. \A i : i = next_request_id => Used(i)'
    BY <1>1, Allocated DEF SessionInv, Numbering
  <2> QED BY <1>7, <1>8, <1>9, <2>2, <2>3, <2>4 DEF Balanced, Result
<1>10. ASSUME o.failure = NoFailure, NEW s, NEW w, NEW tw, Meets(s, w, tw), Running
       PROVE  Row("Enumerating", active_request_id', streaming',
                  o.protocol.crossed_read_request_seen, s, w, Append(tw, f))
  <2>1. ~Used(next_request_id) /\ IsOf(f, BeginType(FALSE), next_request_id)
    BY <1>1, <1>3, Allocated DEF SessionInv, Numbering, IsOf, BeginType
  <2>2. Row(StateFor(FALSE), next_request_id, FALSE, FALSE, s, w, Append(tw, f))
    BY <1>1, <1>10, <2>1, BeginsInRow
  <2> QED BY <1>4, <1>9, <1>10, <2>2 DEF StateFor
<1> QED BY <1>1, <1>3, <1>4, <1>6, <1>7, <1>9, <1>10, SendActs DEF Follows

LEMMA BeginStreamActs ==
    ASSUME SessionInv, SessionInv', OrderInv, NEW generation, NEW token,
           BeginStreamCall(generation, token), UNCHANGED workerVars
    PROVE  ParentActs
<1> DEFINE f == Frame("StreamEntry", next_request_id, <<token>>)
           o == BeginStreamEntry(results, f, generation)
<1>1. phase = "Idle" /\ ~request_ids_exhausted /\ AllocateRequestId
  BY DEF BeginStreamCall
<1>2. /\ ResultInv(results) /\ results.failure = NoFailure /\ next_request_id \in Nat \ {0}
      /\ Accounted(results)
  BY <1>1, LiveParent DEF Balanced
<1>3. /\ f.h \in FrameHeaders /\ f.h.req = next_request_id /\ f.h.type = "StreamEntry"
      /\ Clean(f.h)
  BY <1>2, SentHeader, CleanFrames
<1>4. /\ UNCHANGED <<toParent, workerIo>> /\ streaming' = TRUE
      /\ SendTransaction(f, o, "Streaming")
      /\ o.failure = NoFailure => active_request_id' = next_request_id
  BY DEF BeginStreamCall
<1> HIDE DEF f
<1>5. InTurn(results, "ParentToWorker", f)
  BY <1>1, <1>3, BeginsInOrder
<1>6. Follows(results, "ParentToWorker", f, o)
  BY <1>5, BeginsFollow
<1>7. /\ ResultInv(o)
      /\ o.failure = NoFailure => o.stream # None /\ o.candidate = results.candidate
  BY <1>2, <1>3, BeginStreamEntryHolds
<1> HIDE DEF o
<1>9. ASSUME o.failure = NoFailure
      PROVE  /\ Balanced(o, "Streaming", TRUE)
             /\ \A i : i = o.protocol.last_request_id => Used(i)'
             /\ o.protocol.crossed_read_request_seen = FALSE
  <2>1. /\ Effects(results.protocol, "ParentToWorker", f.h, o.protocol)
        /\ ReadEffects(results.protocol, f.h, o.protocol)
        /\ Leaves(results.protocol, f.h, o.protocol) /\ o.protocol \in Validators
    BY <1>5, <1>6, <1>7, <1>9, FollowedEffects
  <2>2. /\ o.protocol.state = "Streaming" /\ o.protocol.last_request_id = next_request_id
        /\ ~o.protocol.read_in_flight /\ o.protocol.crossed_read_request_seen = FALSE
    BY <1>3, <2>1 DEF Effects, ReadEffects, Leaves, Validators
  <2>3. o.protocol.active_result_type = "DataChunk"
    BY <1>7, <1>9, <2>2 DEF ResultInv, Held, Sound, Consistent
  <2>4. \A i : i = next_request_id => Used(i)'
    BY <1>1, Allocated DEF SessionInv, Numbering
  <2>5. Accounted(o)
    BY <1>2, <1>7, <1>9 DEF Accounted
  <2> QED BY <1>7, <1>9, <2>2, <2>3, <2>4, <2>5 DEF Balanced, Result
<1>10. ASSUME o.failure = NoFailure, NEW s, NEW w, NEW tw, Meets(s, w, tw), Running
       PROVE  Row("Streaming", active_request_id', streaming',
                  o.protocol.crossed_read_request_seen, s, w, Append(tw, f))
  <2>1. ~Used(next_request_id) /\ IsOf(f, BeginType(TRUE), next_request_id)
    BY <1>1, <1>3, Allocated DEF SessionInv, Numbering, IsOf, BeginType
  <2>2. Row(StateFor(TRUE), next_request_id, TRUE, FALSE, s, w, Append(tw, f))
    BY <1>1, <1>10, <2>1, BeginsInRow
  <2> QED BY <1>4, <1>9, <1>10, <2>2 DEF StateFor
<1> QED BY <1>1, <1>3, <1>4, <1>6, <1>7, <1>9, <1>10, SendActs DEF Follows

LEMMA CancelKeepsCandidate ==
    ASSUME NEW r, ResultInv(r), r.failure = NoFailure, NEW f, f.h \in FrameHeaders,
           AcceptCancel(r, f).failure = NoFailure, r.candidate # None
    PROVE  AcceptCancel(r, f).candidate # None
<1> DEFINE o == ResultObserve(r, "ParentToWorker", f)
           x == Some([The(o.candidate) EXCEPT !.promotable = FALSE, !.entries = <<>>])
           t == [o EXCEPT !.catalog = None,
                          !.candidate = IF @ = None THEN None
                                ELSE Some([The(@) EXCEPT !.promotable = FALSE,
                                                         !.entries = <<>>])]
<1>1. ResultInv(o) /\ (o.failure = NoFailure => Observed(r, "ParentToWorker", f, o))
  BY ObservedOrRetired DEF Directions
<1>2. AcceptCancel(r, f) = IF o.failure # NoFailure THEN o ELSE t
  BY DEF AcceptCancel, AndThen
<1> HIDE DEF o
<1>3. o.failure = NoFailure /\ AcceptCancel(r, f) = t
  BY <1>2
<1>4. o.candidate # None /\ o \in Sessions
  BY <1>1, <1>3 DEF Observed, ResultInv, Held
<1>5. t.candidate = x
  BY <1>4 DEF Sessions
<1> QED BY <1>3, <1>5, Options

LEMMA RequestCancelActs ==
    ASSUME SessionInv, SessionInv', OrderInv, RequestCancel, UNCHANGED workerVars
    PROVE  ParentActs
<1> DEFINE f == Frame("Cancel", active_request_id, <<>>)
           o == AcceptCancel(results, f)
<1>1. phase \in ActiveStates /\ phase # "Terminal" /\ phase \in ReceivePhases
  BY DEF RequestCancel, ActiveStates, ReceivePhases
<1>2. /\ ResultInv(results) /\ results.failure = NoFailure
      /\ active_request_id \in Nat \ {0} /\ streaming \in BOOLEAN
      /\ active_request_id = results.protocol.active_request_id
      /\ results.protocol.state = phase /\ results.protocol \in Validators
      /\ ~results.protocol.crossed_read_request_seen
      /\ Balanced(results, phase, streaming) /\ Used(results.protocol.last_request_id)
  BY <1>1, LiveParent DEF StateOf, ActiveStates
<1>3. /\ f.h \in FrameHeaders /\ f.h.req = active_request_id /\ f.h.type = "Cancel"
      /\ Clean(f.h)
  BY <1>2, SentHeader, CleanFrames
<1>4. /\ UNCHANGED <<toParent, workerIo, streaming, active_request_id, next_request_id,
                     request_ids_exhausted>>
      /\ SendTransaction(f, o, "Cancelling")
  BY DEF RequestCancel
<1> HIDE DEF f
<1>5. InTurn(results, "ParentToWorker", f)
  BY <1>1, <1>2, <1>3 DEF InTurn, InOrder, Directions
<1>6. Follows(results, "ParentToWorker", f, o)
  BY <1>5, StopsFollow
<1>7. /\ ResultInv(o)
      /\ o.failure = NoFailure =>
             /\ o.stream = results.stream
             /\ o.candidate # None => ~The(o.candidate).promotable
             /\ results.candidate # None => o.candidate # None
  BY <1>2, <1>3, AcceptCancelHolds, CancelKeepsCandidate
<1> HIDE DEF o
<1>8. ASSUME o.failure = NoFailure
      PROVE  /\ Balanced(o, "Cancelling", streaming')
             /\ \A i : i = o.protocol.last_request_id => Used(i)'
             /\ o.protocol.crossed_read_request_seen = FALSE
  <2>1. /\ Effects(results.protocol, "ParentToWorker", f.h, o.protocol)
        /\ ReadEffects(results.protocol, f.h, o.protocol)
        /\ Leaves(results.protocol, f.h, o.protocol) /\ o.protocol \in Validators
    BY <1>5, <1>6, <1>7, <1>8, FollowedEffects
  <2>2. /\ o.protocol.last_request_id = results.protocol.last_request_id
        /\ o.protocol.read_in_flight <=> results.protocol.read_in_flight
        /\ o.protocol.active_result_type = results.protocol.active_result_type
        /\ ~o.protocol.crossed_read_request_seen
    BY <1>1, <1>2, <1>3, <2>1 DEF Effects, ReadEffects, Leaves, Keeps
  <2>3. Used(results.protocol.last_request_id)
    BY <1>2
  <2>4. \A i : i = o.protocol.last_request_id => Used(i)'
    BY <1>4, <2>2, <2>3 DEF Used
  <2>5. Balanced(o, "Cancelling", streaming)
    BY <1>1, <1>2, <1>7, <1>8, <2>2 DEF Balanced, Accounted
  <2>6. o.protocol.crossed_read_request_seen = FALSE
    BY <2>1, <2>2 DEF Validators
  <2> QED BY <1>4, <2>4, <2>5, <2>6
<1>9. ASSUME o.failure = NoFailure, NEW s, NEW w, NEW tw, Meets(s, w, tw), Running
      PROVE  Row("Cancelling", active_request_id', streaming',
                 o.protocol.crossed_read_request_seen, s, w, Append(tw, f))
  <2>1. /\ Framed(tw)
        /\ Row(phase, active_request_id, streaming,
               results.protocol.crossed_read_request_seen, s, w, tw)
    BY <1>9 DEF Meets, Stands
  <2>2. Pushed(tw, f, Append(tw, f)) /\ IsOf(f, "Cancel", active_request_id)
    BY <1>3, <2>1, FramedPushes DEF IsOf
  <2>3. results.protocol.crossed_read_request_seen \in BOOLEAN
    BY <1>2 DEF Validators
  <2>4. Row("Cancelling", active_request_id, streaming, FALSE, s, w, Append(tw, f))
    BY <1>1, <1>2, <2>1, <2>2, <2>3, RowSendCancel
  <2> QED BY <1>4, <1>8, <1>9, <2>4
<1> QED BY <1>1, <1>3, <1>4, <1>6, <1>7, <1>8, <1>9, SendActs DEF Follows

LEMMA ShutdownActs ==
    ASSUME SessionInv, SessionInv', OrderInv, ShutdownCall, UNCHANGED workerVars
    PROVE  ParentActs
<1> DEFINE f == Frame("Shutdown", 0, <<>>)
           o == AcceptShutdown(results, f)
<1>1. phase \in {"Idle", "Cancelled"}
  BY DEF ShutdownCall
<1>2. /\ ResultInv(results) /\ results.failure = NoFailure
      /\ active_request_id \in Nat /\ streaming \in BOOLEAN
      /\ results.protocol.state = phase /\ results.protocol \in Validators
      /\ Used(results.protocol.last_request_id)
  BY <1>1, LiveParent DEF StateOf
<1>3. f.h \in FrameHeaders /\ f.h.req = 0 /\ f.h.type = "Shutdown" /\ Clean(f.h)
  BY SentHeader, CleanFrames DEF ZeroRequestTypes
<1>4. /\ UNCHANGED <<toParent, workerIo, streaming, next_request_id, request_ids_exhausted>>
      /\ SendTransaction(f, o, "Closed") /\ active_request_id' = 0
  BY DEF ShutdownCall
<1> HIDE DEF f
<1>5. InTurn(results, "ParentToWorker", f)
  BY <1>1, <1>2, <1>3 DEF InTurn, InOrder, Directions
<1>6. Follows(results, "ParentToWorker", f, o)
  BY <1>5, StopsFollow
<1>7. ResultInv(o) /\ (o.failure = NoFailure => o.candidate = None)
  BY <1>2, <1>3, SessionEndHolds
<1> HIDE DEF o
<1>8. ASSUME o.failure = NoFailure
      PROVE  /\ Balanced(o, "Closed", streaming')
             /\ \A i : i = o.protocol.last_request_id => Used(i)'
  <2>1. /\ Effects(results.protocol, "ParentToWorker", f.h, o.protocol)
        /\ o.protocol.state \notin RequestStates => ~o.protocol.read_in_flight
    BY <1>5, <1>6, <1>7, <1>8, FollowedEffects
  <2>2. /\ o.protocol.last_request_id = results.protocol.last_request_id
        /\ ~o.protocol.read_in_flight
    BY <1>3, <2>1 DEF Effects, RequestStates
  <2>3. Used(results.protocol.last_request_id)
    BY <1>2
  <2>4. \A i : i = o.protocol.last_request_id => Used(i)'
    BY <1>4, <2>2, <2>3 DEF Used
  <2> QED BY <1>7, <1>8, <2>2, <2>4 DEF Balanced, Accounted, ReceivePhases
<1>9. ASSUME o.failure = NoFailure, NEW s, NEW w, NEW tw, Meets(s, w, tw), Running
      PROVE  Row("Closed", active_request_id', streaming',
                 o.protocol.crossed_read_request_seen, s, w, Append(tw, f))
  <2>1. /\ Framed(tw)
        /\ Row(phase, active_request_id, streaming,
               results.protocol.crossed_read_request_seen, s, w, tw)
    BY <1>9 DEF Meets, Stands
  <2>2. Pushed(tw, f, Append(tw, f)) /\ IsOf(f, "Shutdown", 0)
    BY <1>3, <2>1, FramedPushes DEF IsOf
  <2>3. results.protocol.crossed_read_request_seen \in BOOLEAN
    BY <1>2 DEF Validators
  <2>4. \A c : Row("Closed", 0, streaming, c, s, w, Append(tw, f))
    BY <1>1, <1>2, <2>1, <2>2, <2>3, RowSendShutdown
  <2> QED BY <1>4, <1>9, <2>4
<1> QED BY <1>1, <1>3, <1>4, <1>6, <1>7, <1>8, <1>9, SendActs DEF Follows

-----------------------------------------------------------------------------
(* What a live parent reads is in order. *)
LEMMA MeetsHead ==
    ASSUME SessionInv, toParent # <<>>, phase # "Terminal",
           NEW s, NEW w, NEW tw, Meets(s, w, tw)
    PROVE  /\ s[1] = Head(toParent) /\ Popped(s, Tail(s)) /\ Len(s) \in Nat /\ Len(s) > 0
           /\ Row(phase, active_request_id, streaming,
                  results.protocol.crossed_read_request_seen, s, w, tw)
<1>1. /\ OnWire(s) /\ Prefix(toParent, s) /\ OnWire(toParent)
      /\ Row(phase, active_request_id, streaming,
             results.protocol.crossed_read_request_seen, s, w, tw)
  BY DEF Meets, Stands, AtParent, SessionInv, ParentInv, Typed
<1>2. s # << >> /\ s[1] = Head(toParent)
  BY <1>1, PrefixTail
<1>3. Popped(s, Tail(s))
  BY <1>1, <1>2, WirePops
<1>4. Len(s) \in Nat /\ Len(s) > 0
  BY <1>3 DEF Popped
<1> QED BY <1>1, <1>2, <1>3, <1>4

LEMMA HeadInTurn ==
    ASSUME SessionInv, OrderInv, phase # "Terminal", toParent # <<>>
    PROVE  LET f == Head(toParent) IN
           /\ IsWire(f) /\ Sendable(f) /\ InTurn(results, "WorkerToParent", f)
           /\ \/ phase = "AwaitingReady" /\ IsOf(f, "Ready", 0)
              \/ /\ phase \in ReceivePhases /\ f.h.req = active_request_id
                 /\ f.h.type \in {Result(streaming), "ReadRequest", "Complete"}
                 /\ ~results.protocol.crossed_read_request_seen
              \/ phase = "Cancelling" /\ IsOf(f, "CancelAck", active_request_id)
<1> DEFINE f == Head(toParent)
<1>1. PICK s, w, tw : Meets(s, w, tw)
  BY LiveMeets DEF OrderInv
<1>2. /\ s[1] = f /\ Len(s) \in Nat /\ Len(s) > 0
      /\ Row(phase, active_request_id, streaming,
             results.protocol.crossed_read_request_seen, s, w, tw)
  BY <1>1, MeetsHead
<1>3. /\ ResultInv(results) /\ results.failure = NoFailure
      /\ results.protocol.state = StateOf(phase) /\ results.protocol \in Validators
      /\ streaming \in BOOLEAN /\ ~results.protocol.read_in_flight
      /\ phase # "Cancelling" => ~results.protocol.crossed_read_request_seen
      /\ phase \in ReceivePhases => /\ active_request_id = results.protocol.active_request_id
                                    /\ results.protocol.active_result_type = Result(streaming)
  BY LiveParent DEF Balanced
<1>4. results.protocol.crossed_read_request_seen \in BOOLEAN
  BY <1>3 DEF Validators
<1>5. \/ phase = "AwaitingReady" /\ IsOf(f, "Ready", 0)
      \/ /\ phase \in ReceivePhases /\ f.h.req = active_request_id
         /\ f.h.type \in {Result(streaming), "ReadRequest", "Complete"}
         /\ ~results.protocol.crossed_read_request_seen
      \/ phase = "Cancelling" /\ IsOf(f, "CancelAck", active_request_id)
  BY <1>2, <1>3, <1>4, ParentFinds DEF StateFor, ReceivePhases
<1>6. OnWire(toParent)
  BY DEF SessionInv, ParentInv, Typed
<1>7. IsWire(f) /\ f.h \in FrameHeaders
  BY <1>6, Wired DEF IsWire
<1>8. Sendable(f) /\ Clean(f.h)
  <2>1. Head(toParent) = toParent[1] /\ 1 \in 1..Len(toParent)
    BY <1>6, WireTail
  <2> QED BY <2>1 DEF OrderInv, Canonical, Sendable
<1>9. InOrder(results.protocol, "WorkerToParent", f.h)
  <2>1. CASE phase = "AwaitingReady" /\ IsOf(f, "Ready", 0)
    BY <1>3, <2>1 DEF InOrder, IsOf, StateOf
  <2>2. CASE phase \in ReceivePhases /\ f.h.req = active_request_id
             /\ f.h.type \in {Result(streaming), "ReadRequest", "Complete"}
             /\ ~results.protocol.crossed_read_request_seen
    BY <1>3, <2>2 DEF InOrder, StateOf, ReceivePhases, RequestStates, Unblocked
  <2>3. CASE phase = "Cancelling" /\ IsOf(f, "CancelAck", active_request_id)
    BY <1>3, <2>3 DEF InOrder, IsOf, StateOf, ReceivePhases
  <2> QED BY <1>5, <2>1, <2>2, <2>3
<1>10. InTurn(results, "WorkerToParent", f)
  BY <1>3, <1>7, <1>8, <1>9 DEF InTurn, Directions
<1> QED BY <1>5, <1>7, <1>8, <1>10

LEMMA TakeActs ==
    ASSUME SessionInv, SessionInv', OrderInv, phase # "Terminal", toParent # <<>>,
           UNCHANGED workerVars,
           UNCHANGED <<toWorker, workerIo, streaming, next_request_id, request_ids_exhausted>>,
           NEW o, ResultInv(o), Orderly(o), NEW next, next # "Terminal", Consume(o, next),
           o.failure = NoFailure =>
               /\ Balanced(o, next, streaming)
               /\ o.protocol.last_request_id = results.protocol.last_request_id
               /\ \A s, w, tw : Meets(s, w, tw) =>
                      Row(next, active_request_id', streaming,
                          o.protocol.crossed_read_request_seen, Tail(s), w, tw)
    PROVE  ParentActs
<1>1. CASE o.failure # NoFailure
  BY <1>1, ParentRetired DEF Consume, RetireSession
<1>2. CASE o.failure = NoFailure
  <2>1. /\ toParent' = Tail(toParent) /\ phase' = next /\ results' = o
    BY <1>2 DEF Consume
  <2>2. Used(results.protocol.last_request_id)
    BY LiveParent
  <2>3. PICK s, w, tw : Meets(s, w, tw)
    BY LiveMeets DEF OrderInv
  <2>5. Row(phase', active_request_id', streaming',
            results'.protocol.crossed_read_request_seen, Tail(s), w, tw)
    BY <1>2, <2>1, <2>3
  <2>6. /\ active_request_id' \in Nat /\ streaming' \in BOOLEAN
        /\ results'.protocol.crossed_read_request_seen \in BOOLEAN
    BY DEF SessionInv, ParentInv, Typed, ResultInv, Held, Sound, Validators
  <2>7. Joint'
    <3> DEFINE s2 == Tail(s)
    <3> HIDE DEF s2
    <3>1. Row(phase', active_request_id', streaming',
              results'.protocol.crossed_read_request_seen, s2, w, tw)
      BY <2>5 DEF s2
    <3>2. /\ toParent # <<>> /\ toParent' = Tail(toParent) /\ s2 = Tail(s)
          /\ toWorker' = toWorker
      BY <2>1 DEF s2
    <3> QED BY <2>3, <2>6, <3>1, <3>2, ParentTurns
  <2>8. ParentSide'
    BY <1>2, <2>1, <2>2 DEF ParentSide, Used
  <2> QED BY <2>1, <2>7, <2>8 DEF ParentActs, Answer
<1> QED BY <1>1, <1>2

LEMMA ReceiveReadyActs ==
    ASSUME SessionInv, SessionInv', OrderInv, ReceiveReady, UNCHANGED workerVars
    PROVE  ParentActs
<1> DEFINE f == Head(toParent)
           o == ResultObserve(results, "WorkerToParent", f)
<1>1. phase = "AwaitingReady" /\ toParent # <<>>
  BY DEF ReceiveReady
<1>2. InTurn(results, "WorkerToParent", f) /\ IsOf(f, "Ready", 0)
  BY <1>1, HeadInTurn DEF ReceivePhases
<1>3. /\ Consume(o, "Idle")
      /\ UNCHANGED <<toWorker, workerIo, streaming, next_request_id, request_ids_exhausted,
                     active_request_id>>
  BY <1>2 DEF ReceiveReady, Consume, IsOf
<1> HIDE DEF f
<1>4. /\ Follows(results, "WorkerToParent", f, o) /\ ResultInv(o)
      /\ o.failure = NoFailure => Observed(results, "WorkerToParent", f, o)
  BY <1>2, ObserveFollows, ObservedOrRetired DEF InTurn
<1> HIDE DEF o
<1>5. Balanced(results, phase, streaming)
      /\ ~results.protocol.crossed_read_request_seen /\ results.protocol \in Validators
  BY <1>1, LiveParent
<1>6. ASSUME o.failure = NoFailure
      PROVE  /\ Balanced(o, "Idle", streaming)
             /\ o.protocol.last_request_id = results.protocol.last_request_id
             /\ o.protocol.crossed_read_request_seen = FALSE
  <2>1. /\ Effects(results.protocol, "WorkerToParent", f.h, o.protocol)
        /\ o.protocol.state \notin RequestStates =>
               ~o.protocol.read_in_flight /\ ~o.protocol.crossed_read_request_seen
        /\ o.protocol \in Validators /\ o.candidate = results.candidate
    BY <1>2, <1>4, <1>6, FollowedEffects DEF Observed
  <2>2. /\ o.protocol.last_request_id = results.protocol.last_request_id
        /\ ~o.protocol.read_in_flight /\ ~o.protocol.crossed_read_request_seen
    BY <1>2, <2>1 DEF Effects, Keeps, IsOf, RequestStates
  <2>3. o.protocol.crossed_read_request_seen = FALSE
    BY <2>1, <2>2 DEF Validators
  <2> QED BY <1>5, <2>1, <2>2, <2>3 DEF Balanced, Accounted, ReceivePhases
<1>7. ASSUME o.failure = NoFailure, NEW s, NEW w, NEW tw, Meets(s, w, tw)
      PROVE  Row("Idle", active_request_id', streaming,
                 o.protocol.crossed_read_request_seen, Tail(s), w, tw)
  <2>0. results.protocol.crossed_read_request_seen = FALSE
    BY <1>5 DEF Validators
  <2>1. /\ Popped(s, Tail(s))
        /\ Row("AwaitingReady", active_request_id, streaming, FALSE, s, w, tw)
    BY <1>1, <1>7, <2>0, MeetsHead
  <2>2. streaming \in BOOLEAN
    BY <1>1, LiveParent
  <2>3. Row("Idle", active_request_id, streaming, FALSE, Tail(s), w, tw)
    BY <2>1, <2>2, RowReady
  <2> QED BY <1>3, <1>6, <1>7, <2>3
<1> QED BY <1>1, <1>3, <1>4, <1>6, <1>7, TakeActs DEF Follows

LEMMA ReceiveResultActs ==
    ASSUME SessionInv, SessionInv', OrderInv, NEW sinkOk \in BOOLEAN, ReceiveResult(sinkOk),
           UNCHANGED workerVars
    PROVE  ParentActs
<1> DEFINE f == Head(toParent)
           misplaced == phase = "Enumerating" \/ (phase = "Cancelling" /\ ~streaming)
           o == IF f.h.type = "EntryBatch" THEN AcceptEntryBatch(results, f)
                ELSE IF misplaced THEN Retire(results, "WorkerFailure")
                ELSE AcceptDataChunk(results, f, sinkOk)
           flag == results.protocol.crossed_read_request_seen
<1>1. /\ phase \in ReceivePhases /\ phase # "Terminal" /\ toParent # <<>>
      /\ f.h.type \in {"EntryBatch", "DataChunk"}
  BY DEF ReceiveResult, ReceivePhases
<1>2. /\ IsWire(f) /\ InTurn(results, "WorkerToParent", f)
      /\ f.h.type = Result(streaming) /\ f.h.req = active_request_id
  BY <1>1, HeadInTurn DEF ReceivePhases, IsOf
<1>3. /\ ResultInv(results) /\ results.failure = NoFailure /\ streaming \in BOOLEAN
      /\ Balanced(results, phase, streaming) /\ Orderly(results) /\ results \in Sessions
      /\ flag \in BOOLEAN
  BY <1>1, LiveParent, LiveIsOrderly DEF Validators
<1>4. /\ f.h \in FrameHeaders
      /\ f.h.type = "EntryBatch" => f.body \in Seq(Entries) /\ ~streaming
      /\ f.h.type = "DataChunk" => f.body \in Seq(Nat) /\ streaming
  BY <1>2 DEF IsWire, Result
<1>5. /\ Consume(o, phase)
      /\ UNCHANGED <<toWorker, workerIo, streaming, next_request_id, request_ids_exhausted,
                     active_request_id>>
  BY DEF ReceiveResult
<1>6. f.h.type = "EntryBatch" =>
        /\ ResultInv(o) /\ Follows(results, "WorkerToParent", f, o)
        /\ o.failure = NoFailure => o.candidate # None /\ Accounted(o)
  <2> SUFFICES ASSUME f.h.type = "EntryBatch"
               PROVE  /\ ResultInv(AcceptEntryBatch(results, f))
                      /\ Follows(results, "WorkerToParent", f, AcceptEntryBatch(results, f))
                      /\ AcceptEntryBatch(results, f).failure = NoFailure =>
                             /\ AcceptEntryBatch(results, f).candidate # None
                             /\ Accounted(AcceptEntryBatch(results, f))
    OBVIOUS
  <2>1. f.body \in Seq(Entries) /\ results.candidate # None /\ Accounted(results)
    BY <1>1, <1>3, <1>4 DEF Balanced
  <2> HIDE DEF f
  <2>2. Follows(results, "WorkerToParent", f, AcceptEntryBatch(results, f))
    BY <1>2, <2>1, ReportsFollow
  <2> QED BY <1>3, <1>4, <2>1, <2>2, AcceptEntryBatchHolds, ReportAccounted
<1>7. f.h.type = "DataChunk" =>
        /\ ResultInv(o) /\ Orderly(o)
        /\ o.failure = NoFailure =>
               /\ Follows(results, "WorkerToParent", f, o)
               /\ o.stream # None /\ o.candidate = results.candidate
  <2> SUFFICES ASSUME f.h.type = "DataChunk"
               PROVE  /\ ResultInv(o) /\ Orderly(o)
                      /\ o.failure = NoFailure =>
                             /\ Follows(results, "WorkerToParent", f, o)
                             /\ o.stream # None /\ o.candidate = results.candidate
    OBVIOUS
  <2>1. CASE misplaced
    <3>1. o = Retire(results, "WorkerFailure")
      BY <2>1
    <3>2. ResultInv(o) /\ o.failure # NoFailure /\ Orderly(o)
      BY <1>3, <3>1, RetiredWith, OrderlyRetires DEF ResultInv
    <3> QED BY <3>2
  <2>2. CASE ~misplaced
    <3>1. o = AcceptDataChunk(results, f, sinkOk)
      BY <2>2
    <3>2. results.stream # None
      BY <1>1, <1>3, <1>4 DEF Balanced
    <3> HIDE DEF f, o
    <3>3. Follows(results, "WorkerToParent", f, o)
      BY <1>2, <3>1, <3>2, ReportsFollow
    <3> QED BY <1>3, <1>4, <3>1, <3>3, AcceptDataChunkHolds DEF Follows
  <2> QED BY <2>1, <2>2
<1> HIDE DEF o
<1>8. ASSUME o.failure = NoFailure
      PROVE  /\ Balanced(o, phase, streaming)
             /\ o.protocol.last_request_id = results.protocol.last_request_id
             /\ o.protocol.crossed_read_request_seen = flag
  <2>1. /\ Effects(results.protocol, "WorkerToParent", f.h, o.protocol)
        /\ ReadEffects(results.protocol, f.h, o.protocol)
        /\ Leaves(results.protocol, f.h, o.protocol)
    BY <1>1, <1>2, <1>6, <1>7, <1>8, FollowedEffects
  <2> HIDE DEF f
  <2>2. /\ o.protocol.last_request_id = results.protocol.last_request_id
        /\ ~o.protocol.read_in_flight
        /\ o.protocol.active_result_type = results.protocol.active_result_type
        /\ o.protocol.crossed_read_request_seen = flag
    BY <1>1, <2>1 DEF Effects, Keeps, ReadEffects, Leaves
  <2>3. Accounted(o) /\ (streaming => o.stream # None) /\ (~streaming => o.candidate # None)
    BY <1>1, <1>3, <1>4, <1>6, <1>7, <1>8 DEF Balanced, Accounted
  <2> QED BY <1>1, <1>3, <2>2, <2>3 DEF Balanced
<1>9. ASSUME o.failure = NoFailure, NEW s, NEW w, NEW tw, Meets(s, w, tw)
      PROVE  Row(phase, active_request_id', streaming,
                 o.protocol.crossed_read_request_seen, Tail(s), w, tw)
  <2>1. /\ s[1] = f /\ Popped(s, Tail(s))
        /\ Row(phase, active_request_id, streaming, flag, s, w, tw)
    BY <1>1, <1>9, MeetsHead
  <2> HIDE DEF f, flag
  <2>2. Row(phase, active_request_id, streaming, flag, Tail(s), w, tw)
    BY <1>2, <1>3, <2>1, RowTakeResult
  <2> QED BY <1>5, <1>8, <1>9, <2>2
<1>10. ResultInv(o) /\ Orderly(o)
  BY <1>1, <1>6, <1>7 DEF Follows
<1> QED BY <1>1, <1>5, <1>8, <1>9, <1>10, TakeActs

LEMMA ReceiveTerminalActs ==
    ASSUME SessionInv, SessionInv', OrderInv, ReceiveTerminal, UNCHANGED workerVars
    PROVE  ParentActs
<1> DEFINE f == Head(toParent)
           o == CASE f.h.type = "CancelAck" -> AcceptCancelAck(results, f)
                  [] f.h.type = "Complete" /\ streaming -> CompleteStream(results, f)
                  [] OTHER -> CompleteEnumeration(results, f)
           legal == f.h.type = "Complete" \/ phase = "Cancelling"
           done == IF legal THEN o ELSE Retire(o, "WorkerFailure")
           next == TerminalPhase(f.h.type)
           flag == results.protocol.crossed_read_request_seen
<1>1. /\ phase \in ReceivePhases /\ phase # "Terminal" /\ toParent # <<>>
      /\ f.h.type \in {"Complete", "CancelAck"}
  BY DEF ReceiveTerminal, ReceivePhases
<1>2. /\ InTurn(results, "WorkerToParent", f) /\ legal
      /\ f.h.req = active_request_id
  BY <1>1, HeadInTurn DEF ReceivePhases, IsOf, Result
<1>3. /\ ResultInv(results) /\ results.failure = NoFailure /\ streaming \in BOOLEAN
      /\ Balanced(results, phase, streaming) /\ flag \in BOOLEAN
  BY <1>1, LiveParent DEF Validators
<1>4. f.h \in FrameHeaders /\ next \in {"Idle", "Cancelled"} /\ next # "Terminal"
  BY <1>2 DEF InTurn, TerminalPhase
<1>5. /\ Consume(o, next)
      /\ UNCHANGED <<toWorker, workerIo, streaming, next_request_id, request_ids_exhausted>>
      /\ o.failure = NoFailure => active_request_id' = 0
  <2>1. done = o
    BY <1>2
  <2>2. /\ Consume(done, next)
        /\ UNCHANGED <<toWorker, workerIo, streaming, next_request_id, request_ids_exhausted>>
        /\ done.failure = NoFailure => active_request_id' = 0
    BY DEF ReceiveTerminal
  <2> HIDE DEF done, o, next
  <2> QED BY <2>1, <2>2
<1>6. /\ ResultInv(o) /\ Follows(results, "WorkerToParent", f, o)
      /\ o.failure = NoFailure => o.candidate \in {None, results.candidate}
  <2>0. /\ Accounted(results) /\ (streaming => results.stream # None)
        /\ ~streaming => results.candidate # None
    BY <1>1, <1>3 DEF Balanced
  <2>1. CASE f.h.type = "CancelAck"
    <3>1. o = AcceptCancelAck(results, f)
      BY <2>1
    <3> HIDE DEF o, f
    <3> QED BY <1>2, <1>3, <1>4, <3>1, SessionEndHolds, StopsFollow
  <2>2. CASE f.h.type = "Complete" /\ streaming
    <3>1. o = CompleteStream(results, f)
      BY <2>2
    <3> HIDE DEF o, f
    <3> QED BY <1>2, <1>3, <1>4, <2>0, <2>2, <3>1, CompleteStreamHolds, CompletionsFollow
  <2>3. CASE f.h.type = "Complete" /\ ~streaming
    <3>1. o = CompleteEnumeration(results, f)
      BY <2>3
    <3> HIDE DEF o, f
    <3> QED BY <1>2, <1>3, <1>4, <2>0, <2>3, <3>1, CompleteEnumerationHolds, CompletionsFollow
  <2> QED BY <1>1, <2>1, <2>2, <2>3
<1> HIDE DEF o
<1>7. ASSUME o.failure = NoFailure
      PROVE  /\ Balanced(o, next, streaming)
             /\ o.protocol.last_request_id = results.protocol.last_request_id
             /\ o.protocol.crossed_read_request_seen = FALSE
  <2>1. /\ Effects(results.protocol, "WorkerToParent", f.h, o.protocol)
        /\ o.protocol.state \notin RequestStates =>
               ~o.protocol.read_in_flight /\ ~o.protocol.crossed_read_request_seen
        /\ o.protocol \in Validators
    BY <1>2, <1>6, <1>7, FollowedEffects
  <2>2. /\ o.protocol.last_request_id = results.protocol.last_request_id
        /\ ~o.protocol.read_in_flight /\ o.protocol.crossed_read_request_seen = FALSE
    BY <1>1, <2>1 DEF Effects, RequestStates, Validators
  <2>3. Accounted(o)
    BY <1>3, <1>6, <1>7 DEF Balanced, Accounted
  <2> HIDE DEF next
  <2> QED BY <1>4, <2>2, <2>3 DEF Balanced, ReceivePhases
<1>8. ASSUME o.failure = NoFailure, NEW s, NEW w, NEW tw, Meets(s, w, tw)
      PROVE  Row(next, active_request_id', streaming,
                 o.protocol.crossed_read_request_seen, Tail(s), w, tw)
  <2>1. /\ s[1] = f /\ Popped(s, Tail(s))
        /\ Row(phase, active_request_id, streaming, flag, s, w, tw)
    BY <1>1, <1>8, MeetsHead
  <2>2. /\ f.h.type = "Complete" => next = "Idle"
        /\ f.h.type = "CancelAck" => next = "Cancelled"
    BY DEF TerminalPhase
  <2> HIDE DEF f, flag, next
  <2>3. Row(next, 0, streaming, FALSE, Tail(s), w, tw)
    <3> DEFINE s2 == Tail(s)
    <3>1. Popped(s, s2)
      BY <2>1
    <3> HIDE DEF s2
    <3>2. CASE f.h.type = "Complete"
      <4>1. s[1].h.type = "Complete" /\ streaming \in BOOLEAN /\ flag \in BOOLEAN
        BY <1>3, <2>1, <3>2
      <4>2. Row(phase, active_request_id, streaming, flag, s, w, tw)
        BY <2>1
      <4>3. \A req2, crossed2 : Row("Idle", req2, streaming, crossed2, s2, w, tw)
        BY ONLY <3>1, <4>1, <4>2, RowTakeComplete
      <4> QED BY <2>2, <3>2, <4>3 DEF s2
    <3>3. CASE f.h.type = "CancelAck"
      <4>1. s[1].h.type = "CancelAck" /\ streaming \in BOOLEAN /\ flag \in BOOLEAN
        BY <1>3, <2>1, <3>3
      <4>2. Row(phase, active_request_id, streaming, flag, s, w, tw)
        BY <2>1
      <4>3. \A req2, crossed2 : Row("Cancelled", req2, streaming, crossed2, s2, w, tw)
        BY ONLY <3>1, <4>1, <4>2, RowTakeAck
      <4> QED BY <2>2, <3>3, <4>3 DEF s2
    <3> QED BY <1>1, <3>2, <3>3
  <2> QED BY <1>5, <1>7, <1>8, <2>3
<1> HIDE DEF next, f
<1> QED BY <1>1, <1>4, <1>5, <1>6, <1>7, <1>8, TakeActs DEF Follows

(* The broker's part of a read that is in order. *)
LEMMA BrokerFailOrderly ==
    ASSUME NEW b, b.failure = NoFailure, NEW r \in Sessions, Orderly(r), NEW e
    PROVE  Orderly(BrokerFail(b, r, e).r)
<1>1. BrokerFail(b, r, e).r = Retire(r, "WorkerFailure")
  BY DEF BrokerFail
<1> QED BY <1>1, OrderlyRetires

LEMMA PrepareFollows ==
    ASSUME NEW b \in Brokers, b.failure = NoFailure, NEW r, NEW f,
           InTurn(r, "WorkerToParent", f), NEW status
    PROVE  LET p == Prepare(b, r, f, status) IN
           \/ Orderly(p.r) /\ p.b.failure # NoFailure
           \/ /\ IgnoresReads(r) /\ p.b = b /\ p.r.failure = NoFailure
              /\ Follows(r, "WorkerToParent", f, p.r)
           \/ /\ ~IgnoresReads(r) /\ p.b.failure = NoFailure /\ p.r.failure = NoFailure
              /\ Follows(r, "WorkerToParent", f, p.r)
              /\ p.b.pending = Some([request_id |-> f.h.req, sequence |-> f.body[1],
                                     status |-> status,
                                     length |-> IF status = "Ok" THEN f.body[2] ELSE 0])
<1> DEFINE expected == ExpectedSequence(b, f)
           cancelling == IgnoresReads(r)
           length == f.body[2]
           size == 1 + length
           accepted == AcceptReadRequest(r, f, expected)
           pending == [request_id |-> f.h.req, sequence |-> expected, status |-> status,
                       length |-> IF status = "Ok" THEN length ELSE 0]
           charged == [b EXCEPT !.requests_charged = @ + 1,
                                !.reply_payload_bytes_charged = @ + size,
                                !.pending = Some(pending)]
           error == SessionErrorOf(accepted)
           p == Prepare(b, r, f, status)
<1>1. \/ p.b.failure # NoFailure
         /\ \/ \E e \in {"SequenceExhausted", "RequestBudgetExceeded", "ByteBudgetExceeded"} :
                   p.r = BrokerFail(b, r, e).r
            \/ p.r = BrokerFail(b, accepted, error).r
      \/ cancelling /\ accepted.failure = NoFailure /\ p = [b |-> b, r |-> accepted]
      \/ /\ ~cancelling /\ accepted.failure = NoFailure /\ f.body[1] = expected
         /\ p = [b |-> charged, r |-> accepted]
  <2>1. \A x : \A e \in {"SequenceExhausted", "RequestBudgetExceeded", "ByteBudgetExceeded",
                         "Protocol", "Internal"} : BrokerFail(b, x, e).b.failure # NoFailure
    BY DEF BrokerFail, NoFailure, Brokers
  <2>2. error \in {"Protocol", "Internal"}
    BY DEF SessionErrorOf
  <2> HIDE DEF expected, cancelling, error
  <2>3. p \in {BrokerFail(b, r, "SequenceExhausted"), BrokerFail(b, r, "RequestBudgetExceeded"),
               BrokerFail(b, r, "ByteBudgetExceeded"), BrokerFail(b, accepted, error)}
        \/ (cancelling /\ accepted.failure = NoFailure /\ p = [b |-> b, r |-> accepted])
        \/ (/\ ~cancelling /\ accepted.failure = NoFailure /\ f.body[1] = expected
            /\ p = [b |-> charged, r |-> accepted])
    <3> HIDE DEF accepted, charged
    <3> QED BY DEF Prepare, expected, cancelling, error, accepted, charged
  <2> HIDE DEF p, accepted, charged
  <2> QED BY <2>1, <2>2, <2>3
<1>2. Follows(r, "WorkerToParent", f, accepted) /\ accepted \in Sessions
  BY ReadsFollow, AcceptReadRequestHolds DEF InTurn, ResultInv, Held
<1>3. Orderly(r) /\ r \in Sessions
  BY LiveIsOrderly DEF InTurn
<1>4. charged.failure = NoFailure /\ charged.pending = Some(pending)
  <2> HIDE DEF pending
  <2> QED BY DEF Brokers
<1> HIDE DEF p, accepted, charged, error, expected
<1>5. CASE /\ p.b.failure # NoFailure
           /\ \/ \E e \in {"SequenceExhausted", "RequestBudgetExceeded", "ByteBudgetExceeded"} :
                     p.r = BrokerFail(b, r, e).r
              \/ p.r = BrokerFail(b, accepted, error).r
  <2>1. Orderly(p.r)
    BY <1>2, <1>3, <1>5, BrokerFailOrderly DEF Follows
  <2> QED BY <1>5, <2>1 DEF p
<1>6. CASE cancelling /\ accepted.failure = NoFailure /\ p = [b |-> b, r |-> accepted]
  BY <1>2, <1>6 DEF p
<1>7. CASE /\ ~cancelling /\ accepted.failure = NoFailure /\ f.body[1] = expected
           /\ p = [b |-> charged, r |-> accepted]
  <2>1. p.b = charged /\ p.r = accepted
    BY <1>7
  <2>2. /\ ~IgnoresReads(r) /\ p.b.failure = NoFailure /\ p.r.failure = NoFailure
        /\ Follows(r, "WorkerToParent", f, p.r)
    BY <1>2, <1>4, <1>7, <2>1
  <2>3. pending = [request_id |-> f.h.req, sequence |-> f.body[1], status |-> status,
                   length |-> IF status = "Ok" THEN f.body[2] ELSE 0]
    BY <1>7
  <2>4. p.b.pending = Some(pending)
    <3> HIDE DEF pending
    <3> QED BY <1>4, <2>1
  <2> HIDE DEF pending
  <2>5. p.b.pending = Some([request_id |-> f.h.req, sequence |-> f.body[1], status |-> status,
                            length |-> IF status = "Ok" THEN f.body[2] ELSE 0])
    BY <2>3, <2>4
  <2> QED BY <2>2, <2>5 DEF p
<1> QED BY <1>1, <1>5, <1>6, <1>7 DEF p

LEMMA CommitFollows ==
    ASSUME NEW b \in Brokers, b.failure = NoFailure, NEW r,
           InTurn(r, "ParentToWorker", PreparedReply(b))
    PROVE  /\ Orderly(CommitReplySent(b, r).r) /\ Orderly(AbandonReply(b, r).r)
           /\ AbandonReply(b, r).r.failure # NoFailure
           /\ CommitReplySent(b, r).r.failure = NoFailure =>
                  Follows(r, "ParentToWorker", PreparedReply(b), CommitReplySent(b, r).r)
<1> DEFINE reply == PreparedReply(b)
           p == The(b.pending)
           accepted == AcceptReadReply(r, reply, p.sequence)
           taken == [b EXCEPT !.pending = None]
           lost(x, e) == BrokerFail(taken, x, e).r
<1>1. Orderly(r) /\ r \in Sessions /\ r.failure = NoFailure
  BY LiveIsOrderly DEF InTurn
<1>2. Follows(r, "ParentToWorker", reply, accepted) /\ accepted \in Sessions
  BY ReadsFollow, AcceptReadReplyHolds DEF InTurn, ResultInv, Held
<1>3. taken.failure = NoFailure
  BY DEF Brokers
<1>4. \/ \E e : CommitReplySent(b, r).r = lost(accepted, e)
      \/ CommitReplySent(b, r).r = accepted
  <2> HIDE DEF accepted, taken, p, reply
  <2> QED BY DEF CommitReplySent, accepted, taken, p, reply
<1>5. AbandonReply(b, r).r = lost(r, "TransportAbandoned")
  BY DEF AbandonReply
<1>6. \A x \in Sessions : Orderly(x) => \A e : Orderly(lost(x, e)) /\ lost(x, e).failure # NoFailure
  <2> TAKE x \in Sessions
  <2> HAVE Orderly(x)
  <2> TAKE e
  <2>1. lost(x, e) = Retire(x, "WorkerFailure")
    BY <1>3 DEF BrokerFail
  <2>2. Retire(x, "WorkerFailure").failure # NoFailure
    BY DEF Retire, RetireAll, Sessions, NoFailure
  <2>3. Orderly(Retire(x, "WorkerFailure"))
    BY OrderlyRetires
  <2> QED BY <2>1, <2>2, <2>3
<1> HIDE DEF lost, accepted
<1> QED BY <1>1, <1>2, <1>4, <1>5, <1>6 DEF Follows

(* The reply to a read at the head of the pipe. *)
LEMMA ReplyInTurn ==
    ASSUME NEW r, NEW f, NEW o, InTurn(r, "WorkerToParent", f), IsWire(f), Sendable(f),
           f.h.type = "ReadRequest", r.protocol.state \in ActiveStates,
           Follows(r, "WorkerToParent", f, o), ResultInv(o), o.failure = NoFailure,
           NEW b, NEW status,
           b.pending = Some([request_id |-> f.h.req, sequence |-> f.body[1], status |-> status,
                             length |-> IF status = "Ok" THEN f.body[2] ELSE 0])
    PROVE  LET reply == PreparedReply(b) IN
           /\ InTurn(o, "ParentToWorker", reply) /\ IsOf(reply, "ReadReply", f.h.req)
           /\ reply.body[1] = f.body[1]
           /\ reply.body[3] = IF reply.body[2] = "Ok" THEN f.body[2] ELSE 0
<1> DEFINE n == IF status = "Ok" THEN f.body[2] ELSE 0
           body == <<f.body[1], status, n>>
           reply == Frame("ReadReply", f.h.req, body)
<1>1. PreparedReply(b) = reply
  <2> DEFINE x == [request_id |-> f.h.req, sequence |-> f.body[1], status |-> status, length |-> n]
  <2>1. The(b.pending) = x
    <3> HIDE DEF x
    <3>1. b.pending = Some(x)
      BY DEF x
    <3> QED BY <3>1, Optional
  <2> QED BY <2>1 DEF PreparedReply
<1>2. /\ f.h.req \in Nat /\ f.body[2] \in Nat /\ 1 + f.body[2] <= MaxFramePayload
      /\ f.h \in FrameHeaders
  BY DEF IsWire, Sendable, FrameHeaders
<1>3. n \in Nat /\ FitsFrame(1 + n)
  BY <1>2, MaxFramePayloadAssumption DEF FitsFrame
<1>4. /\ Effects(r.protocol, "WorkerToParent", f.h, o.protocol)
      /\ ReadEffects(r.protocol, f.h, o.protocol) /\ o.protocol \in Validators
  BY FollowedEffects
<1>5. /\ o.protocol.state = r.protocol.state /\ o.protocol.active_request_id = f.h.req
      /\ o.protocol.read_in_flight
  BY <1>4 DEF Effects, ReadEffects, Keeps
<1>6. f.h.req # 0
  <2>1. o.protocol.error = NoError /\ Consistent(o.protocol)
    BY DEF ResultInv, Held, Sound
  <2> QED BY <1>5, <2>1 DEF Consistent, ActiveStates, RequestStates
<1>7. reply.body = body /\ body[1] = f.body[1] /\ body[2] = status /\ body[3] = n
  BY DEF Frame
<1> HIDE DEF n, body
<1>8. Clean(reply.h)
  BY <1>2, <1>3, <1>6, <1>7, CleanFrames
<1>9. /\ reply.h.type = "ReadReply" /\ reply.h.req = f.h.req /\ reply.h \in FrameHeaders
  <2>1. reply.h = [type |-> "ReadReply", sid |-> SessionIdent, req |-> f.h.req,
                   len |-> 1 + n, envelope |-> "ok"]
    BY <1>7 DEF Frame, Header, PayloadLength
  <2>2. 1 + n \in Nat /\ SessionIdent \in Nat
    BY <1>3, SessionIdentAssumption
  <2> QED BY <1>2, <2>1, <2>2 DEF FrameHeaders, MessageTypes, ZeroRequestTypes, Envelopes
<1>10. InOrder(o.protocol, "ParentToWorker", reply.h)
  BY <1>5, <1>9 DEF InOrder
<1> HIDE DEF reply
<1>11. InTurn(o, "ParentToWorker", reply) /\ IsOf(reply, "ReadReply", f.h.req)
  BY <1>8, <1>9, <1>10 DEF InTurn, IsOf, Directions
<1>12. reply.body[1] = f.body[1] /\ reply.body[3] = IF reply.body[2] = "Ok" THEN f.body[2] ELSE 0
  BY <1>7 DEF n
<1> QED BY <1>1, <1>11, <1>12

LEMMA AnswersHead ==
    ASSUME OrderInv, phase # "Terminal", OnWire(toParent), toParent # <<>>,
           Head(toParent).h.type = "ReadRequest", NEW reply,
           reply.body[1] = Head(toParent).body[1],
           reply.body[3] = IF reply.body[2] = "Ok" THEN Head(toParent).body[2] ELSE 0
    PROVE  Running /\ service.pending_read => Answer(reply)
<1>1. Head(toParent) = toParent[1] /\ 1 \in 1..Len(toParent)
  BY WireTail
<1>2. Running /\ service.pending_read => Question(Head(toParent))
  BY <1>1 DEF OrderInv, ReadMatches
<1> QED BY <1>2 DEF Question, Answer

(* A reply that was delivered, whether the session goes on or not. *)
LEMMA ReplyActs ==
    ASSUME SessionInv, SessionInv', OrderInv, UNCHANGED workerVars,
           phase \in ActiveStates, toParent # <<>>, Head(toParent).h.type = "ReadRequest",
           NEW reply, Clean(reply.h), IsOf(reply, "ReadReply", active_request_id),
           Running /\ service.pending_read => Answer(reply), ParentMaySend,
           toWorker' = Append(toWorker, reply),
           NEW o, ResultInv(o), Orderly(o), Consume(o, phase),
           o.failure = NoFailure =>
               /\ Balanced(o, phase, streaming)
               /\ o.protocol.last_request_id = results.protocol.last_request_id,
           UNCHANGED <<workerIo, streaming, next_request_id, request_ids_exhausted,
                       active_request_id>>
    PROVE  ParentActs
<1>1. /\ phase # "Terminal" /\ Running /\ streaming \in BOOLEAN /\ active_request_id \in Nat
      /\ Used(results.protocol.last_request_id) /\ results.protocol \in Validators
  BY LiveParent DEF ActiveStates
<1>2. /\ toParent' = Tail(toParent)
      /\ IF o.failure # NoFailure
         THEN /\ phase' = "Terminal" /\ results' = Retire(o, "WorkerFailure")
              /\ parentIo' = "aborted"
         ELSE phase' = phase /\ results' = o
  BY DEF Consume, RetireSession
<1>3. Orderly(results')
  BY <1>2, OrderlyRetires DEF ResultInv, Held
<1>4. PICK s, w, tw : Meets(s, w, tw)
  BY <1>1, LiveMeets DEF OrderInv
<1> DEFINE flag == results.protocol.crossed_read_request_seen
           flag2 == results'.protocol.crossed_read_request_seen
<1>5. /\ s[1] = Head(toParent) /\ Popped(s, Tail(s))
      /\ Row(phase, active_request_id, streaming, flag, s, w, tw)
      /\ flag \in BOOLEAN
  BY <1>1, <1>4, MeetsHead DEF Validators
<1>6. tw = toWorker /\ Pushed(tw, reply, toWorker')
  BY <1>1, <1>4, FramedPushes DEF Meets, Stands
<1>7. flag2 \in BOOLEAN
  BY DEF SessionInv, ParentInv, ResultInv, Held, Sound, Validators
<1> DEFINE s2 == Tail(s)
<1>8. s2 = Tail(s) /\ Popped(s, s2)
  BY <1>5
<1> HIDE DEF s2, flag, flag2
<1>9. \A c : Row(phase, active_request_id, streaming, c, s2, w, toWorker')
  <2>1. s[1].h.type = "ReadRequest"
    BY <1>5
  <2> QED BY <1>1, <1>5, <1>6, <1>8, <2>1, RowTakeRead
<1>10. Joint'
  <2>1. Row(phase, active_request_id, streaming, flag2, s2, w, toWorker')
    BY <1>9
  <2>2. phase' # "Terminal" =>
            /\ phase = phase' /\ active_request_id = active_request_id'
            /\ streaming = streaming' /\ flag2 = results'.protocol.crossed_read_request_seen
    BY <1>2 DEF flag2
  <2>3. /\ toParent # <<>> /\ toParent' = Tail(toParent) /\ s2 = Tail(s)
        /\ Running /\ toWorker' = toWorker'
    BY <1>1, <1>2, <1>8
  <2> QED BY <1>1, <1>4, <1>7, <2>1, <2>2, <2>3, ParentTurns
<1>11. ParentSide'
  BY <1>1, <1>2 DEF ParentSide, Used
<1> QED BY <1>1, <1>2, <1>3, <1>10, <1>11 DEF ParentActs

LEMMA ReceiveReadRequestActs ==
    ASSUME SessionInv, SessionInv', OrderInv, NEW status \in ServiceOutcomes,
           NEW delivered \in BOOLEAN, ReceiveReadRequest(status, delivered), UNCHANGED workerVars
    PROVE  ParentActs
<1> DEFINE f == Head(toParent)
           p == Prepare(reads, results, f, status)
           replying == p.b.failure = NoFailure /\ p.b.pending # None
           q == IF replying THEN IF delivered THEN CommitReplySent(p.b, p.r)
                                 ELSE AbandonReply(p.b, p.r)
                ELSE p
           legal == q.b.failure = NoFailure /\ (replying \/ phase = "Cancelling")
           done == IF legal THEN q.r ELSE Retire(q.r, "WorkerFailure")
           reply == PreparedReply(p.b)
           flag == results.protocol.crossed_read_request_seen
<1>1. /\ phase \in ReceivePhases /\ phase # "Terminal" /\ toParent # <<>>
      /\ f.h.type = "ReadRequest"
  BY DEF ReceiveReadRequest, ReceivePhases
<1>2. /\ ResultInv(results) /\ results.failure = NoFailure
      /\ results.protocol.state = phase
      /\ BrokerInv(reads) /\ reads.failure = NoFailure /\ reads.pending = None
      /\ reads \in Brokers /\ OnWire(toParent)
  BY <1>1, LiveFacts DEF SessionInv, ParentInv, StateOf, ReceivePhases, BrokerInv, Typed
<1>3. /\ IsWire(f) /\ Sendable(f) /\ InTurn(results, "WorkerToParent", f)
      /\ f.h.req = active_request_id /\ f.h \in FrameHeaders
      /\ f.body[1] \in Nat /\ f.body[2] \in Nat
  BY <1>1, HeadInTurn DEF ReceivePhases, IsOf, IsWire
<1>4. /\ Balanced(results, phase, streaming) /\ streaming \in BOOLEAN /\ flag \in BOOLEAN
  BY <1>1, LiveParent DEF Validators
<1>5. /\ toParent' = Tail(toParent) /\ (replying /\ delivered => ParentMaySend)
      /\ toWorker' = IF replying /\ delivered THEN Append(toWorker, reply) ELSE toWorker
      /\ Consume(done, phase)
      /\ UNCHANGED <<next_request_id, request_ids_exhausted, active_request_id, streaming,
                     workerIo>>
  BY DEF ReceiveReadRequest, AnswerRead, SettleReply, AfterRead, Replying, Consume
<1>6. \/ Orderly(p.r) /\ p.b.failure # NoFailure
      \/ /\ IgnoresReads(results) /\ p.b = reads /\ p.r.failure = NoFailure
         /\ Follows(results, "WorkerToParent", f, p.r)
      \/ /\ ~IgnoresReads(results) /\ p.b.failure = NoFailure /\ p.r.failure = NoFailure
         /\ Follows(results, "WorkerToParent", f, p.r)
         /\ p.b.pending = Some([request_id |-> f.h.req, sequence |-> f.body[1],
                                status |-> status,
                                length |-> IF status = "Ok" THEN f.body[2] ELSE 0])
  <2> HIDE DEF f
  <2> QED BY <1>2, <1>3, PrepareFollows
<1>7. \/ /\ p.b.failure # NoFailure /\ ResultInv(p.r) /\ p.r.failure # NoFailure
      \/ /\ p.b = reads /\ ResultInv(p.r) /\ p.r.failure = NoFailure
         /\ SameResults(results, p.r)
      \/ /\ Owes(p.b, p.r) /\ ResultInv(p.r) /\ p.r.failure = NoFailure
         /\ SameResults(results, p.r)
  <2> HIDE DEF f
  <2> QED BY <1>1, <1>2, <1>3, OutcomesAreStatuses, PrepareHolds
<1> HIDE DEF p, reply
<1>8. CASE Orderly(p.r) /\ p.b.failure # NoFailure
  <2>1. ~replying /\ q = p
    BY <1>8
  <2>2. ResultInv(p.r) /\ p.r.failure # NoFailure
    BY <1>2, <1>7, <1>8 DEF Owes
  <2>3. /\ done \in {p.r, Retire(p.r, "WorkerFailure")}
        /\ \A e : Retire(p.r, e) = p.r
    <3> HIDE DEF q, replying
    <3> QED BY <2>1, <2>2 DEF Retire
  <2>4. done = p.r
    BY <2>3
  <2>5. toWorker' = toWorker
    BY <1>5, <2>1
  <2> HIDE DEF done, q, replying
  <2> QED BY <1>1, <1>5, <1>8, <2>2, <2>4, <2>5, ParentRetired DEF Consume, RetireSession
<1>9. CASE /\ IgnoresReads(results) /\ p.b = reads /\ p.r.failure = NoFailure
           /\ Follows(results, "WorkerToParent", f, p.r)
  <2>1. ~replying /\ q = p /\ phase = "Cancelling" /\ legal /\ done = p.r
    BY <1>2, <1>9 DEF IgnoresReads
  <2>2. ResultInv(p.r) /\ SameResults(results, p.r)
    BY <1>2, <1>7, <1>9 DEF Owes
  <2>3. toWorker' = toWorker /\ Consume(p.r, phase)
    BY <1>5, <2>1
  <2> HIDE DEF done, q, replying, legal
  <2>4. /\ Effects(results.protocol, "WorkerToParent", f.h, p.r.protocol)
        /\ Leaves(results.protocol, f.h, p.r.protocol) /\ p.r.protocol \in Validators
    BY <1>3, <1>9, <2>2, FollowedEffects
  <2>5. /\ p.r.protocol.crossed_read_request_seen = TRUE /\ ~p.r.protocol.read_in_flight
        /\ p.r.protocol.active_result_type = results.protocol.active_result_type
    BY <1>1, <1>2, <2>1, <2>4 DEF Leaves, Validators
  <2>6. /\ Balanced(p.r, phase, streaming)
        /\ p.r.protocol.last_request_id = results.protocol.last_request_id
    BY <1>4, <2>2, <2>5 DEF Balanced, Accounted, SameResults, Keeps
  <2>7. ASSUME NEW s, NEW w, NEW tw, Meets(s, w, tw)
        PROVE  Row(phase, active_request_id', streaming,
                   p.r.protocol.crossed_read_request_seen, Tail(s), w, tw)
    <3>1. /\ s[1] = f /\ Popped(s, Tail(s))
          /\ Row("Cancelling", active_request_id, streaming, flag, s, w, tw)
      BY <1>1, <2>1, <2>7, MeetsHead
    <3>2. s[1].h.type = "ReadRequest"
      BY <1>1, <3>1
    <3> HIDE DEF f, flag
    <3>3. Row("Cancelling", active_request_id, streaming, TRUE, Tail(s), w, tw)
      BY <1>4, <3>1, <3>2, RowTakeCrossed
    <3> QED BY <1>5, <2>1, <2>5, <3>3
  <2> QED BY <1>1, <1>5, <1>9, <2>2, <2>3, <2>6, <2>7, TakeActs DEF Follows
<1>10. CASE /\ ~IgnoresReads(results) /\ p.b.failure = NoFailure /\ p.r.failure = NoFailure
            /\ Follows(results, "WorkerToParent", f, p.r)
            /\ p.b.pending = Some([request_id |-> f.h.req, sequence |-> f.body[1],
                                   status |-> status,
                                   length |-> IF status = "Ok" THEN f.body[2] ELSE 0])
  <2>1. replying /\ phase \in ActiveStates
    BY <1>1, <1>2, <1>10, Optional DEF IgnoresReads, ReceivePhases, ActiveStates
  <2>2. /\ ResultInv(p.r) /\ SameResults(results, p.r) /\ Owes(p.b, p.r)
        /\ p.b \in Brokers
    BY <1>2, <1>7, <2>1 DEF Owes, BrokerInv
  <2>3. done = IF delivered THEN CommitReplySent(p.b, p.r).r ELSE AbandonReply(p.b, p.r).r
    <3>1. q = IF delivered THEN CommitReplySent(p.b, p.r) ELSE AbandonReply(p.b, p.r)
      BY <2>1
    <3> HIDE DEF q
    <3>2. q.b.failure # NoFailure => q.r.failure # NoFailure
      BY <1>10, <2>2, <3>1, CommitHolds, AbandonHolds
    <3>3. \A e : q.r.failure # NoFailure => Retire(q.r, e) = q.r
      BY DEF Retire
    <3> QED BY <2>1, <3>1, <3>2, <3>3
  <2> HIDE DEF done, q, legal
  <2>4. /\ InTurn(p.r, "ParentToWorker", reply) /\ IsOf(reply, "ReadReply", f.h.req)
        /\ reply.body[1] = f.body[1]
        /\ reply.body[3] = IF reply.body[2] = "Ok" THEN f.body[2] ELSE 0
    <3> HIDE DEF f
    <3> QED BY <1>1, <1>2, <1>3, <1>10, <2>1, <2>2, ReplyInTurn DEF reply
  <2>5. CASE ~delivered
    <3>1. done = AbandonReply(p.b, p.r).r
      BY <2>3, <2>5
    <3>2. Orderly(done) /\ ResultInv(done) /\ done.failure # NoFailure
      BY <1>10, <2>2, <2>4, <3>1, CommitFollows, AbandonHolds DEF reply
    <3>3. toWorker' = toWorker
      BY <1>5, <2>5
    <3> QED BY <1>1, <1>5, <3>2, <3>3, ParentRetired DEF Consume, RetireSession
  <2>6. CASE delivered
    <3>1. done = CommitReplySent(p.b, p.r).r
      BY <2>3, <2>6
    <3>2. /\ Orderly(done)
          /\ done.failure = NoFailure => Follows(p.r, "ParentToWorker", reply, done)
      BY <1>10, <2>2, <2>4, <3>1, CommitFollows DEF reply
    <3>3. ResultInv(done) /\ (done.failure = NoFailure => SameResults(p.r, done))
      BY <1>10, <2>2, <3>1, CommitHolds
    <3>4. ASSUME done.failure = NoFailure
          PROVE  /\ Balanced(done, phase, streaming)
                 /\ done.protocol.last_request_id = results.protocol.last_request_id
      <4>1. /\ Leaves(results.protocol, f.h, p.r.protocol)
        BY <1>3, <1>10, <2>2, FollowedEffects
      <4>2. /\ ReadEffects(p.r.protocol, reply.h, done.protocol)
            /\ Leaves(p.r.protocol, reply.h, done.protocol)
        BY <2>4, <3>2, <3>3, <3>4, FollowedEffects
      <4>3. p.r.protocol.state \in ActiveStates
        BY <1>2, <2>1, <2>2 DEF SameResults
      <4>4. /\ ~done.protocol.read_in_flight
            /\ done.protocol.active_result_type = results.protocol.active_result_type
        BY <1>1, <2>4, <4>1, <4>2, <4>3 DEF ReadEffects, Leaves, IsOf
      <4> QED BY <1>4, <2>2, <3>3, <3>4, <4>4 DEF Balanced, Accounted, SameResults, Keeps
    <3>5. ParentMaySend /\ toWorker' = Append(toWorker, reply)
      BY <1>5, <2>1, <2>6
    <3>6. Clean(reply.h) /\ IsOf(reply, "ReadReply", active_request_id)
      BY <1>3, <2>4 DEF InTurn
    <3>7. Running /\ service.pending_read => Answer(reply)
      BY <1>1, <1>2, <2>4, AnswersHead
    <3> HIDE DEF replying
    <3> QED BY <1>1, <1>5, <2>1, <3>2, <3>3, <3>4, <3>5, <3>6, <3>7, ReplyActs
  <2> QED BY <2>5, <2>6
<1> QED BY <1>6, <1>8, <1>9, <1>10

LEMMA ParentOrder ==
    ASSUME SessionInv, SessionInv', OrderInv, ParentNext, UNCHANGED workerVars PROVE OrderInv'
<1>1. CASE SendHello \/ BeginEnumerationCall \/ RequestCancel \/ ShutdownCall
  BY <1>1, SendHelloActs, BeginEnumerationActs, RequestCancelActs, ShutdownActs,
     ParentKeepsOrder
<1>2. CASE \E generation \in RequestIds, token \in Tokens : BeginStreamCall(generation, token)
  BY <1>2, BeginStreamActs, ParentKeepsOrder
<1>3. CASE RequestIdsExhausted \/ ParentGivesUp \/ InvalidateSource \/ ReceiveUnexpected
  BY <1>3, GivingUpActs, ParentKeepsOrder
<1>4. CASE ReceiveReady \/ ReceiveTerminal
  BY <1>4, ReceiveReadyActs, ReceiveTerminalActs, ParentKeepsOrder
<1>5. CASE \E ok \in BOOLEAN : ReceiveResult(ok)
  BY <1>5, ReceiveResultActs, ParentKeepsOrder
<1>6. CASE \E status \in ServiceOutcomes, delivered \in BOOLEAN :
               ReceiveReadRequest(status, delivered)
  BY <1>6, ReceiveReadRequestActs, ParentKeepsOrder
<1> QED BY <1>1, <1>2, <1>3, <1>4, <1>5, <1>6 DEF ParentNext, ParentReceive

-----------------------------------------------------------------------------
(* The worker's steps: one that ends its lifetime, and one after which it    *)
(* runs on.                                                                  *)
ServiceStops ==
    /\ ~Running' /\ workerIo' # "open" /\ outbox' = None
    /\ wv'.error \in BudgetErrors
    /\ failure' # "InternalFailure" /\ (failure' = "ProtocolFailure" => wv'.error # NoError)
    /\ UNCHANGED <<toParent, parentIo>>
    /\ toWorker' = toWorker \/ (toWorker # <<>> /\ toWorker' = Tail(toWorker))

Advances(s, s2) ==
    \/ outbox' = None /\ s2 = s
    \/ \E f : outbox' = Some(f) /\ s2 = Append(s, f)

ServiceTurns ==
    /\ Running /\ Running' /\ outbox = None
    /\ UNCHANGED <<toParent, parentIo, workerIo, failure>>
    /\ toWorker' = toWorker \/ (toWorker # <<>> /\ toWorker' = Tail(toWorker))
    /\ outbox' # None => Sendable(The(outbox'))
    /\ ReadMatches' /\ WorkerSide'
    /\ \A p, req, streams, crossed, s :
           Stands(p, req, streams, crossed, s, wv, toWorker) =>
               \E s2 : Advances(s, s2) /\ Row(p, req, streams, crossed, s2, wv', toWorker')

LEMMA SameParent ==
    ASSUME OrderInv, UNCHANGED parentVars, parentIo' = parentIo
    PROVE  /\ ParentSide' /\ phase' = phase
           /\ phase' = "Terminal" => parentIo' # "open"
           /\ results'.protocol.error \in BudgetErrors
           /\ results'.failure \notin {"InvalidState", "ResultValidation"}
BY DEF OrderInv, ParentSide, Used, Ports, NoOrderingFailure, parentVars

LEMMA WorkerQueue ==
    ASSUME SessionInv, OrderInv,
           toWorker' = toWorker \/ (toWorker # <<>> /\ toWorker' = Tail(toWorker))
    PROVE  /\ \A k \in 1..Len(toWorker') : \E j \in 1..Len(toWorker) : toWorker'[k] = toWorker[j]
           /\ \A k \in 1..Len(toWorker') : Clean(toWorker'[k].h)
<1>1. \A k \in 1..Len(toWorker') : \E j \in 1..Len(toWorker) : toWorker'[k] = toWorker[j]
  BY TailKeeps DEF SessionInv, WorkerInv
<1> QED BY <1>1 DEF OrderInv, Canonical

LEMMA StopsKeepOrder ==
    ASSUME SessionInv, OrderInv, ServiceStops, UNCHANGED parentVars PROVE OrderInv'
<1>1. PICK p, req, streams, crossed, s, w, tw : Stands(p, req, streams, crossed, s, w, tw)
  BY DEF OrderInv, Joint
<1>2. Stands(p, req, streams, crossed, s, w, tw)'
  BY <1>1 DEF Stands, AtParent, ServiceStops, parentVars
<1>3. Joint'
  BY <1>2 DEF Joint
<1>4. Canonical'
  <2>1. \A k \in 1..Len(toWorker') : Clean(toWorker'[k].h)
    BY WorkerQueue DEF ServiceStops
  <2> QED BY <2>1 DEF OrderInv, Canonical, Sendable, ServiceStops
<1>5. ReadMatches' /\ WorkerSide'
  BY DEF ServiceStops, ReadMatches, WorkerSide
<1>6. ParentSide' /\ Ports' /\ NoOrderingFailure'
  BY SameParent DEF ServiceStops, Ports, NoOrderingFailure
<1> QED BY <1>3, <1>4, <1>5, <1>6 DEF OrderInv

LEMMA RunsClean ==
    ASSUME SessionInv, OrderInv, Running
    PROVE  /\ wv.error = NoError /\ Sound(wv, WorkerBudgets) /\ wv \in Validators
           /\ failure # "ProtocolFailure" /\ failure # "InternalFailure"
           /\ outbox = None => AtRest
BY DEF SessionInv, WorkerInv, InStep, OrderInv, NoOrderingFailure, Sound

LEMMA TurnsKeepOrder ==
    ASSUME SessionInv, SessionInv', OrderInv, ServiceTurns, UNCHANGED parentVars PROVE OrderInv'
<1>1. PICK p, req, streams, crossed, s, w, tw : Stands(p, req, streams, crossed, s, w, tw)
  BY DEF OrderInv, Joint
<1>2. w = wv /\ tw = toWorker
  BY <1>1 DEF Stands, ServiceTurns
<1>3. PICK s2 : Advances(s, s2) /\ Row(p, req, streams, crossed, s2, wv', toWorker')
  BY <1>1, <1>2 DEF ServiceTurns
<1>4. /\ OnWire(s) /\ OnWire(toParent) /\ Framed(toWorker') /\ wv' \in Validators
      /\ \A f : outbox' = Some(f) => IsWire(f)
  <2>1. OnWire(s) /\ OnWire(toParent) /\ Framed(toWorker') /\ wv' \in Validators
    BY <1>1 DEF Stands, SessionInv, ParentInv, Typed, WorkerInv, Sound
  <2>2. Running' /\ (outbox' # None => IsWire(The(outbox')))
    BY DEF SessionInv, Reporting, Addressed, ServiceTurns
  <2> QED BY <2>1, <2>2, Optional
<1>5. OnWire(s2)
  BY <1>3, <1>4, Wired DEF Advances
<1>6. phase # "Terminal" => Prefix(toParent, s) /\ s = toParent
  BY <1>1 DEF Stands, AtParent, ServiceTurns, Sent
<1>7. phase # "Terminal" => Prefix(toParent', s2) /\ s2 = Sent'
  <2>1. CASE outbox' = None /\ s2 = s
    BY <1>6, <2>1 DEF ServiceTurns, Sent
  <2>2. CASE \E f : outbox' = Some(f) /\ s2 = Append(s, f)
    <3>1. PICK f : outbox' = Some(f) /\ s2 = Append(s, f)
      BY <2>2
    <3>2. outbox' # None /\ The(outbox') = f
      BY <3>1, Optional
    <3>3. phase # "Terminal" => Prefix(toParent, s2)
      BY <1>4, <1>6, <3>1, PrefixAppend
    <3> QED BY <1>6, <3>1, <3>2, <3>3 DEF ServiceTurns, Sent
  <2> QED BY <1>3, <2>1, <2>2 DEF Advances
<1>8. PICK w2, tw2 : w2 = wv' /\ tw2 = toWorker'
  OBVIOUS
<1>9. Joint'
  <2>1. Framed(tw2) /\ w2 \in Validators /\ Row(p, req, streams, crossed, s2, w2, tw2)
    BY <1>3, <1>4, <1>8
  <2>2. Stands(p, req, streams, crossed, s2, w2, tw2)'
    BY <1>1, <1>5, <1>7, <1>8, <2>1 DEF Stands, AtParent, parentVars
  <2> QED BY <2>2 DEF Joint
<1>10. Canonical'
  <2>1. \A k \in 1..Len(toWorker') : Clean(toWorker'[k].h)
    BY WorkerQueue DEF ServiceTurns
  <2> QED BY <2>1 DEF OrderInv, Canonical, Sendable, ServiceTurns
<1>11. ParentSide' /\ Ports' /\ NoOrderingFailure'
  <2>1. wv'.error = NoError /\ failure \notin {"ProtocolFailure", "InternalFailure"}
    BY RunsClean DEF SessionInv, WorkerInv, InStep, ServiceTurns
  <2> QED BY <2>1, SameParent DEF ServiceTurns, Ports, NoOrderingFailure, BudgetErrors
<1> QED BY <1>9, <1>10, <1>11 DEF OrderInv, ServiceTurns

(* What a running worker finds at the head of its pipe is in order. *)
LEMMA WorkerHead ==
    ASSUME SessionInv, OrderInv, Running, outbox = None, toWorker # <<>>
    PROVE  LET f == Head(toWorker) IN
           /\ f.h \in FrameHeaders /\ Clean(f.h) /\ InOrder(wv, "ParentToWorker", f.h)
           /\ f = toWorker[1] /\ Popped(toWorker, Tail(toWorker))
           /\ 1 \in 1..Len(toWorker)
           /\ wv.state = "AwaitingHello" => f.h.type = "Hello"
           /\ wv.state = "Idle" => f.h.type \in {"Cancel", "Enumerate", "StreamEntry", "Shutdown"}
           /\ wv.state = "Cancelled" => f.h.type = "Shutdown"
           /\ wv.state \in ActiveStates =>
                  \/ f.h.type = "Cancel"
                  \/ f.h.type = "ReadReply" /\ wv.read_in_flight
           /\ wv.state \in {"AwaitingHello", "Idle", "Cancelled"} \cup ActiveStates
<1> DEFINE f == Head(toWorker)
<1>1. Framed(toWorker) /\ f.h \in FrameHeaders
  BY Arriving DEF SessionInv, WorkerInv
<1>2. /\ f = toWorker[1] /\ Popped(toWorker, Tail(toWorker))
      /\ Len(toWorker) \in Nat /\ Len(toWorker) > 0
  BY <1>1, FramedPops DEF Popped
<1>3. 1 \in 1..Len(toWorker)
  BY <1>2
<1>4. Clean(f.h)
  BY <1>2, <1>3 DEF OrderInv, Canonical
<1>5. PICK p, req, streams, crossed, s, w, tw : Stands(p, req, streams, crossed, s, w, tw)
  BY DEF OrderInv, Joint
<1>6. /\ w = wv /\ tw = toWorker /\ wv \in Validators
      /\ req \in Nat /\ streams \in BOOLEAN /\ crossed \in BOOLEAN
      /\ Row(p, req, streams, crossed, s, wv, toWorker)
  BY <1>5 DEF Stands
<1> HIDE DEF f
<1>7. /\ wv.state \in {"AwaitingHello", "Idle", "Cancelled"} \cup ActiveStates
      /\ wv.state = "AwaitingHello" => IsOf(f, "Hello", 0)
      /\ wv.state = "Idle" =>
           \/ IsOf(f, "Cancel", wv.completed_request_id) /\ wv.accept_late_cancel
           \/ IsOf(f, BeginType(streams), req) /\ req > wv.last_request_id
           \/ IsOf(f, "Shutdown", 0)
      /\ wv.state = "Cancelled" => IsOf(f, "Shutdown", 0)
      /\ wv.state \in ActiveStates =>
           \/ IsOf(f, "Cancel", wv.active_request_id)
           \/ IsOf(f, "ReadReply", wv.active_request_id) /\ wv.read_in_flight
  BY <1>2, <1>6, WorkerFinds
<1>8. InOrder(wv, "ParentToWorker", f.h)
  BY <1>7 DEF InOrder, IsOf, BeginType
<1> QED BY <1>1, <1>2, <1>3, <1>4, <1>7, <1>8 DEF IsOf, BeginType, f

LEMMA WorkerTakes ==
    ASSUME NEW v, Sound(v, WorkerBudgets), v.error = NoError, NEW d \in Directions,
           NEW f, f.h \in FrameHeaders, Clean(f.h), InOrder(v, d, f.h)
    PROVE  LET o == ObserveAtWorker(v, d, f) IN
           /\ Sound(o, WorkerBudgets) /\ o.error \in BudgetErrors
           /\ o.error = NoError => Effects(v, d, f.h, o) /\ ReadEffects(v, f.h, o)
                                   /\ Leaves(v, f.h, o)
<1>1. WorkerBudgets \in Budgets
  BY WorkerLimitsAssumption
<1> QED BY <1>1, WorkerObserves, OnlyBudgetsRefuse, AcceptedLeaves DEF ObserveAtWorker

LEMMA StartWriteOrderly ==
    ASSUME NEW v, Sound(v, WorkerBudgets), v.error = NoError, NEW f, f.h \in FrameHeaders,
           Clean(f.h), InOrder(v, "WorkerToParent", f.h), NEW s, NEW d, StartWrite(v, s, d, f),
           UNCHANGED <<toParent, parentIo>>,
           toWorker' = toWorker \/ (toWorker # <<>> /\ toWorker' = Tail(toWorker))
    PROVE  \/ ServiceStops
           \/ /\ outbox' = Some(f) /\ service' = s /\ UNCHANGED <<pc, failure, workerIo>>
              /\ wv'.error = NoError /\ Sound(wv', WorkerBudgets)
              /\ Effects(v, "WorkerToParent", f.h, wv') /\ ReadEffects(v, f.h, wv')
              /\ Leaves(v, f.h, wv')
<1> DEFINE o == ObserveAtWorker(v, "WorkerToParent", f)
<1>1. /\ Sound(o, WorkerBudgets) /\ o.error \in BudgetErrors
      /\ o.error = NoError => Effects(v, "WorkerToParent", f.h, o) /\ ReadEffects(v, f.h, o)
                              /\ Leaves(v, f.h, o)
  BY WorkerTakes DEF Directions
<1>2. /\ wv' = o
      /\ IF o.error # NoError THEN FailClosed(s, d, "ProtocolFailure")
         ELSE outbox' = Some(f) /\ service' = s /\ UNCHANGED <<pc, failure, workerIo>>
  BY DEF StartWrite
<1> HIDE DEF o
<1> QED BY <1>1, <1>2 DEF ServiceStops, FailClosed, Running

LEMMA FailureStops ==
    ASSUME NEW s, NEW d, NEW e, FailClosed(s, d, e), wv'.error \in BudgetErrors,
           e # "InternalFailure", e = "ProtocolFailure" => wv'.error # NoError,
           UNCHANGED <<toParent, parentIo>>,
           toWorker' = toWorker \/ (toWorker # <<>> /\ toWorker' = Tail(toWorker))
    PROVE  ServiceStops
BY DEF ServiceStops, FailClosed, Running

(* A step that asks for no read leaves the outstanding one as it is. *)
LEMMA ReadsStay ==
    ASSUME SessionInv, OrderInv, UNCHANGED <<parentVars, toParent>>, Running,
           outbox = None,
           toWorker' = toWorker \/ (toWorker # <<>> /\ toWorker' = Tail(toWorker)),
           outbox' # None => The(outbox').h.type # "ReadRequest",
           service'.pending_read =>
               /\ service.pending_read
               /\ service'.pending_read_sequence = service.pending_read_sequence
               /\ service'.pending_read_length = service.pending_read_length
    PROVE  ReadMatches'
<1> SUFFICES ASSUME service'.pending_read PROVE ReadMatches'
  BY DEF ReadMatches
<1>1. \A k \in 1..Len(toWorker') : \E j \in 1..Len(toWorker) : toWorker'[k] = toWorker[j]
  BY WorkerQueue
<1>2. /\ \A k \in 1..Len(toWorker) : Answer(toWorker[k])
      /\ phase # "Terminal" => \A k \in 1..Len(toParent) : Question(toParent[k])
  BY DEF OrderInv, ReadMatches
<1>3. \A f : (Answer(f) => Answer(f)') /\ (Question(f) => Question(f)')
  BY DEF Answer, Question
<1>4. \A k \in 1..Len(toWorker') : \A f : f = toWorker'[k] => Answer(f)'
  BY <1>1, <1>2, <1>3
<1>5. phase' # "Terminal" => \A k \in 1..Len(toParent') : \A f : f = toParent'[k] => Question(f)'
  BY <1>2, <1>3 DEF parentVars
<1>6. outbox' # None => \A f : f = The(outbox') => Question(f)'
  BY DEF Question
<1> QED BY <1>4, <1>5, <1>6 DEF ReadMatches, Answer, Question

-----------------------------------------------------------------------------
(* A turn in which the worker starts to write f, and one in which it only    *)
(* takes a frame.                                                            *)
LEMMA WritingTurns ==
    ASSUME Running, Running', outbox = None,
           UNCHANGED <<toParent, parentIo, workerIo, failure>>,
           toWorker' = toWorker \/ (toWorker # <<>> /\ toWorker' = Tail(toWorker)),
           NEW f, outbox' = Some(f), Sendable(f), ReadMatches', WorkerSide',
           \A p, req, s, s2 : \A streams, crossed \in BOOLEAN :
               Row(p, req, streams, crossed, s, wv, toWorker) /\ Pushed(s, f, s2) =>
                   Row(p, req, streams, crossed, s2, wv', toWorker')
    PROVE  ServiceTurns
<1>1. The(outbox') = f
  BY Optional
<1>2. ASSUME NEW p, NEW req, NEW streams, NEW crossed, NEW s,
             Stands(p, req, streams, crossed, s, wv, toWorker)
      PROVE  \E s2 : Advances(s, s2) /\ Row(p, req, streams, crossed, s2, wv', toWorker')
  <2>1. Pushed(s, f, Append(s, f))
    BY <1>2, WirePushes DEF Stands
  <2>2. Row(p, req, streams, crossed, Append(s, f), wv', toWorker')
    BY <1>2, <2>1 DEF Stands
  <2>3. Advances(s, Append(s, f))
    BY DEF Advances
  <2> QED BY <2>2, <2>3
<1> QED BY <1>1, <1>2 DEF ServiceTurns

LEMMA TakingTurns ==
    ASSUME Running, Running', outbox = None, outbox' = None,
           UNCHANGED <<toParent, parentIo, workerIo, failure>>,
           toWorker' = toWorker \/ (toWorker # <<>> /\ toWorker' = Tail(toWorker)),
           ReadMatches', WorkerSide',
           \A p, req, s : \A streams, crossed \in BOOLEAN :
               Row(p, req, streams, crossed, s, wv, toWorker) =>
                   Row(p, req, streams, crossed, s, wv', toWorker')
    PROVE  ServiceTurns
<1>1. ASSUME NEW p, NEW req, NEW streams, NEW crossed, NEW s,
             Stands(p, req, streams, crossed, s, wv, toWorker)
      PROVE  \E s2 : Advances(s, s2) /\ Row(p, req, streams, crossed, s2, wv', toWorker')
  <2>1. Row(p, req, streams, crossed, s, wv', toWorker')
    BY <1>1 DEF Stands
  <2>2. Advances(s, s)
    BY DEF Advances
  <2> QED BY <2>1, <2>2
<1> QED BY <1>1 DEF ServiceTurns

LEMMA HelloOrderly ==
    ASSUME SessionInv, OrderInv, UNCHANGED parentVars, ReceiveHello
    PROVE  ServiceStops \/ ServiceTurns
<1> DEFINE f == Head(toWorker)
           o == ObserveAtWorker(wv, "ParentToWorker", f)
           ready == Frame("Ready", 0, <<>>)
<1>1. /\ pc = "Handshake" /\ outbox = None /\ toWorker # <<>> /\ toWorker' = Tail(toWorker)
      /\ IF f.h.type # "Hello" \/ o.error # NoError
         THEN wv' = o /\ FailClosed(service, dispatcher, "ProtocolFailure")
         ELSE StartWrite(o, service, dispatcher, ready)
      /\ UNCHANGED <<toParent, parentIo>>
  BY DEF ReceiveHello
<1>2. Running /\ wv.error = NoError /\ Sound(wv, WorkerBudgets) /\ AtRest
  BY <1>1, RunsClean DEF Running
<1>3. wv.state = "AwaitingHello" /\ Quiet(service)
  BY <1>1, <1>2 DEF AtRest
<1>4. /\ f.h \in FrameHeaders /\ Clean(f.h) /\ InOrder(wv, "ParentToWorker", f.h)
      /\ f.h.type = "Hello" /\ Popped(toWorker, toWorker')
  BY <1>1, <1>2, <1>3, WorkerHead
<1>5. "ParentToWorker" \in Directions
  BY DEF Directions
<1>6. /\ Sound(o, WorkerBudgets) /\ o.error \in BudgetErrors
      /\ o.error = NoError => Effects(wv, "ParentToWorker", f.h, o)
  BY <1>2, <1>4, <1>5, WorkerTakes
<1>7. ready.h \in FrameHeaders /\ ready.h.type = "Ready" /\ ready.h.req = 0 /\ Clean(ready.h)
  BY WrittenHeader, CleanFrames DEF ZeroRequestTypes
<1> HIDE DEF f, o, ready
<1>8. CASE o.error # NoError
  BY <1>1, <1>6, <1>8, FailureStops
<1>9. CASE o.error = NoError
  <2>1. StartWrite(o, service, dispatcher, ready) /\ o.state = "AwaitingReady"
    BY <1>1, <1>4, <1>6, <1>9 DEF Effects
  <2>2. InOrder(o, "WorkerToParent", ready.h)
    BY <1>7, <2>1 DEF InOrder
  <2>3. \/ ServiceStops
        \/ /\ outbox' = Some(ready) /\ service' = service
           /\ UNCHANGED <<pc, failure, workerIo>>
           /\ Effects(o, "WorkerToParent", ready.h, wv')
    BY <1>1, <1>6, <1>7, <1>9, <2>1, <2>2, StartWriteOrderly
  <2> SUFFICES ASSUME outbox' = Some(ready), service' = service,
                      UNCHANGED <<pc, failure, workerIo>>,
                      Effects(o, "WorkerToParent", ready.h, wv')
               PROVE  ServiceTurns
    BY <2>3
  <2>4. wv'.state = "Idle" /\ Running'
    BY <1>2, <1>7 DEF Effects, Running
  <2>5. ReadMatches' /\ WorkerSide'
    BY <1>3, <2>4 DEF ReadMatches, WorkerSide, Quiet
  <2>6. Sendable(ready) /\ IsOf(ready, "Ready", 0)
    BY <1>7 DEF Sendable, IsOf
  <2>7. ASSUME NEW p, NEW req, NEW s, NEW s2, NEW streams \in BOOLEAN, NEW crossed \in BOOLEAN,
               Row(p, req, streams, crossed, s, wv, toWorker), Pushed(s, ready, s2)
        PROVE  Row(p, req, streams, crossed, s2, wv', toWorker')
    BY <1>3, <1>4, <2>4, <2>6, <2>7, RowHello
  <2> QED BY <1>1, <1>2, <2>4, <2>5, <2>6, <2>7, WritingTurns
<1> QED BY <1>8, <1>9

LEMMA BeginOrderly ==
    ASSUME SessionInv, OrderInv, UNCHANGED parentVars, NEW begin, BeginOperation(begin)
    PROVE  ServiceStops \/ ServiceTurns
<1> DEFINE f == Head(toWorker)
           operation == IF f.h.type = "Enumerate" THEN "Enumerate" ELSE "Stream"
           o == ObserveAtWorker(wv, "ParentToWorker", f)
           size == The(begin)
           started == [service EXCEPT !.dispatch_active = TRUE, !.active_operation = operation,
                          !.active_request_id = f.h.req, !.stream_size = size,
                          !.remaining_stream_bytes = size, !.enumeration = NewEnumerationBudget,
                          !.next_read_sequence = 1, !.pending_read = FALSE,
                          !.late_read_reply = FALSE]
<1>1. /\ pc = "Loop" /\ outbox = None /\ toWorker # <<>> /\ toWorker' = Tail(toWorker)
      /\ f.h.type \in {"Enumerate", "StreamEntry"} /\ wv' = o /\ UNCHANGED <<toParent, parentIo>>
      /\ \/ o.error # NoError /\ FailClosed(service, dispatcher, "ProtocolFailure")
         \/ \E d : FailClosed(service, d, "DispatchFailure")
         \/ /\ o.error = NoError /\ service' = started
            /\ UNCHANGED <<pc, failure, outbox, workerIo>>
  BY DEF BeginOperation, ReceiveLoop
<1>2. /\ Running /\ wv.error = NoError /\ Sound(wv, WorkerBudgets)
      /\ "ParentToWorker" \in Directions /\ IsService(service)
  BY <1>1, RunsClean DEF Running, Directions, SessionInv, WorkerInv, Owns
<1>3. /\ f.h \in FrameHeaders /\ Clean(f.h) /\ InOrder(wv, "ParentToWorker", f.h)
      /\ f = toWorker[1] /\ Popped(toWorker, toWorker')
  BY <1>1, <1>2, WorkerHead
<1>4. wv.state = "Idle"
  BY <1>1, <1>3 DEF InOrder
<1>5. /\ o.error \in BudgetErrors /\ Sound(o, WorkerBudgets)
      /\ o.error = NoError => Effects(wv, "ParentToWorker", f.h, o) /\ ReadEffects(wv, f.h, o)
  BY <1>2, <1>3, WorkerTakes
<1> HIDE DEF o, f
<1>6. /\ started.pending_read = FALSE /\ started.active_operation = operation
  <2>1. PICK E : service \in Services(E)
    BY <1>2 DEF IsService
  <2> HIDE DEF size, operation
  <2> QED BY <2>1 DEF Services
<1> HIDE DEF started
<1>7. CASE o.error # NoError /\ FailClosed(service, dispatcher, "ProtocolFailure")
  BY <1>1, <1>5, <1>7, FailureStops
<1>8. CASE \E d : FailClosed(service, d, "DispatchFailure")
  BY <1>1, <1>5, <1>8, FailureStops
<1>9. CASE o.error = NoError /\ service' = started /\ UNCHANGED <<pc, failure, outbox, workerIo>>
  <2>1. /\ wv'.state = IF f.h.type = "Enumerate" THEN "Enumerating" ELSE "Streaming"
        /\ wv'.active_request_id = f.h.req /\ ~wv'.read_in_flight
    BY <1>1, <1>5, <1>9 DEF Effects, ReadEffects
  <2>2. wv'.read_in_flight = FALSE
    BY <1>1, <1>5, <2>1 DEF Sound, Validators
  <2>3. Running' /\ outbox' = None
    BY <1>1, <1>2, <1>9 DEF Running
  <2>4. ReadMatches' /\ WorkerSide'
    BY <1>6, <1>9, <2>1 DEF ReadMatches, WorkerSide
  <2>5. ASSUME NEW p, NEW req, NEW s, NEW streams \in BOOLEAN, NEW crossed \in BOOLEAN,
               Row(p, req, streams, crossed, s, wv, toWorker)
        PROVE  Row(p, req, streams, crossed, s, wv', toWorker')
    BY <1>1, <1>3, <1>4, <2>1, <2>2, <2>5, RowBegin
  <2> QED BY <1>1, <1>2, <1>9, <2>3, <2>4, <2>5, TakingTurns
<1> QED BY <1>1, <1>7, <1>8, <1>9

(* handle_cancel, wherever the cancel is read: at rest a worker that is not  *)
(* idle holds the request the cancel names.                                  *)
LEMMA CancelOrderly ==
    ASSUME SessionInv, OrderInv, UNCHANGED parentVars, pc \in {"Loop", "AwaitReply"},
           outbox = None, toWorker # <<>>, toWorker' = Tail(toWorker),
           Head(toWorker).h.type = "Cancel", HandleCancel(Head(toWorker)),
           UNCHANGED <<toParent, parentIo>>
    PROVE  ServiceStops \/ ServiceTurns
<1> DEFINE f == Head(toWorker)
           o == ObserveAtWorker(wv, "ParentToWorker", f)
           stopped == [service EXCEPT !.dispatch_active = FALSE,
                                      !.late_read_reply = service.pending_read]
           released == [dispatcher EXCEPT !.released = @ + 1]
           ack == Frame("CancelAck", f.h.req, <<>>)
<1>1. /\ Running /\ wv.error = NoError /\ Sound(wv, WorkerBudgets) /\ AtRest
      /\ "ParentToWorker" \in Directions /\ IsService(service)
  BY RunsClean DEF Running, Directions, SessionInv, WorkerInv, Owns
<1>2. /\ f.h \in FrameHeaders /\ Clean(f.h) /\ InOrder(wv, "ParentToWorker", f.h)
      /\ f.h.type = "Cancel" /\ f = toWorker[1] /\ Popped(toWorker, toWorker')
  BY <1>1, WorkerHead
<1>3. /\ o.error \in BudgetErrors /\ Sound(o, WorkerBudgets)
      /\ o.error = NoError => Effects(wv, "ParentToWorker", f.h, o)
  BY <1>1, <1>2, WorkerTakes
<1>4. IF o.error # NoError
      THEN wv' = o /\ FailClosed(service, dispatcher, "ProtocolFailure")
      ELSE IF wv.state = "Idle"
      THEN wv' = o /\ UNCHANGED <<service, dispatcher, outbox, pc, failure, workerIo>>
      ELSE IF ~service.dispatch_active
      THEN wv' = o /\ FailClosed(service, dispatcher, "InternalFailure")
      ELSE StartWrite(o, stopped, released, ack)
  BY DEF HandleCancel
<1>5. /\ stopped.pending_read = service.pending_read
      /\ stopped.pending_read_sequence = service.pending_read_sequence
      /\ stopped.pending_read_length = service.pending_read_length
  <2>1. PICK E : service \in Services(E)
    BY <1>1 DEF IsService
  <2> QED BY <2>1 DEF Services
<1>6. f.h.req \in Nat
  BY <1>2 DEF FrameHeaders
<1>7. ack.h \in FrameHeaders /\ ack.h.type = "CancelAck" /\ ack.h.req = f.h.req
  BY <1>6, WrittenHeader
<1>8. f.h.req # 0 => Clean(ack.h)
  BY <1>6, CleanFrames
<1> HIDE DEF o, f, ack, stopped, released
<1>9. CASE o.error # NoError
  BY <1>3, <1>4, <1>9, FailureStops
<1>10. CASE o.error = NoError /\ wv.state = "Idle"
  <2>1. /\ wv' = o /\ o.state = "Idle" /\ o.last_request_id = wv.last_request_id
        /\ UNCHANGED <<service, outbox, pc, failure, workerIo>>
    BY <1>2, <1>3, <1>4, <1>10 DEF Effects, Keeps
  <2>2. Running' /\ outbox' = None /\ ~service'.pending_read
    BY <1>1, <1>10, <2>1 DEF Running, AtRest, Quiet, Stopped, Dispatching, ActiveStates
  <2>3. ReadMatches' /\ WorkerSide'
    BY <2>1, <2>2 DEF ReadMatches, WorkerSide
  <2>4. ASSUME NEW p, NEW req, NEW s, NEW streams \in BOOLEAN, NEW crossed \in BOOLEAN,
               Row(p, req, streams, crossed, s, wv, toWorker)
        PROVE  Row(p, req, streams, crossed, s, wv', toWorker')
    BY <1>2, <1>10, <2>1, <2>4, RowStaleCancel
  <2> QED BY <1>1, <2>1, <2>2, <2>3, <2>4, TakingTurns
<1>11. CASE o.error = NoError /\ wv.state # "Idle"
  <2>1. /\ wv.state \in ActiveStates /\ o.state = "Cancelling"
        /\ o.active_request_id = wv.active_request_id /\ f.h.req = wv.active_request_id
    BY <1>2, <1>3, <1>11 DEF Effects, Keeps
  <2>2. Dispatching(service, wv)
    BY <1>1, <2>1 DEF AtRest, Stopped, ActiveStates
  <2>3. StartWrite(o, stopped, released, ack)
    BY <1>4, <1>11, <2>2 DEF Dispatching
  <2>4. Clean(ack.h) /\ InOrder(o, "WorkerToParent", ack.h)
    <3>1. wv.active_request_id # 0
      BY <1>1, <2>1 DEF Sound, Consistent, RequestStates, ActiveStates
    <3> QED BY <1>7, <1>8, <2>1, <3>1 DEF InOrder
  <2>5. \/ ServiceStops
        \/ /\ outbox' = Some(ack) /\ service' = stopped
           /\ UNCHANGED <<pc, failure, workerIo>>
           /\ Effects(o, "WorkerToParent", ack.h, wv')
    BY <1>3, <1>7, <1>11, <2>3, <2>4, StartWriteOrderly
  <2> SUFFICES ASSUME outbox' = Some(ack), service' = stopped,
                      UNCHANGED <<pc, failure, workerIo>>,
                      Effects(o, "WorkerToParent", ack.h, wv')
               PROVE  ServiceTurns
    BY <2>5
  <2>6. wv'.state = "Cancelled" /\ Running' /\ The(outbox') = ack
    BY <1>1, <1>7, Optional DEF Effects, Running
  <2>7. ReadMatches'
    BY <1>1, <1>5, <1>7, <2>6, ReadsStay
  <2>8. WorkerSide'
    BY <2>6 DEF WorkerSide
  <2>9. Sendable(ack) /\ IsOf(ack, "CancelAck", wv.active_request_id)
    BY <1>7, <2>1, <2>4 DEF Sendable, IsOf
  <2>10. ASSUME NEW p, NEW req, NEW s, NEW s2, NEW streams \in BOOLEAN, NEW crossed \in BOOLEAN,
                Row(p, req, streams, crossed, s, wv, toWorker), Pushed(s, ack, s2)
         PROVE  Row(p, req, streams, crossed, s2, wv', toWorker')
    <3>1. toWorker[1].h.type = "Cancel"
      BY <1>2
    <3> QED BY <1>2, <2>1, <2>6, <2>9, <2>10, <3>1, RowCancel
  <2> QED BY <1>1, <2>6, <2>7, <2>8, <2>9, <2>10, WritingTurns
<1> QED BY <1>9, <1>10, <1>11

(* await_read_reply_or_cancel: the reply at the head answers the read that   *)
(* is awaited.                                                               *)
LEMMA ReplyOrderly ==
    ASSUME SessionInv, OrderInv, UNCHANGED parentVars, pc = "AwaitReply",
           outbox = None, toWorker # <<>>, toWorker' = Tail(toWorker),
           Head(toWorker).h.type = "ReadReply", NEW ok, AcceptReply(Head(toWorker), FALSE, ok),
           UNCHANGED <<toParent, parentIo>>
    PROVE  ServiceStops \/ ServiceTurns
<1> DEFINE f == Head(toWorker)
           o == ObserveAtWorker(wv, "ParentToWorker", f)
           canonical == /\ f.body[1] = service.pending_read_sequence
                        /\ f.body[3] = IF f.body[2] = "Ok" THEN service.pending_read_length ELSE 0
           n == (service.pending_read_sequence + 1) % (WorkerMaxSequence + 1)
           answered == [service EXCEPT !.pending_read = FALSE, !.late_read_reply = FALSE,
                           !.next_read_sequence = n, !.pending_read_sequence = 0,
                           !.pending_read_length = 0]
<1>1. /\ Running /\ wv.error = NoError /\ Sound(wv, WorkerBudgets) /\ AtRest
      /\ "ParentToWorker" \in Directions /\ IsService(service)
  BY RunsClean DEF Running, Directions, SessionInv, WorkerInv, Owns
<1>2. Dispatching(service, wv) /\ wv.read_in_flight
  BY <1>1 DEF AtRest
<1>3. /\ f.h \in FrameHeaders /\ Clean(f.h) /\ InOrder(wv, "ParentToWorker", f.h)
      /\ f = toWorker[1] /\ Popped(toWorker, toWorker') /\ 1 \in 1..Len(toWorker)
  BY <1>1, WorkerHead
<1>4. service.pending_read /\ wv.state \in ActiveStates
  BY <1>2 DEF Dispatching
<1>5. canonical
  <2>1. Answer(toWorker[1])
    BY <1>1, <1>3, <1>4 DEF OrderInv, ReadMatches
  <2> QED BY <1>3, <2>1 DEF Answer
<1>6. /\ o.error \in BudgetErrors /\ Sound(o, WorkerBudgets)
      /\ o.error = NoError => Effects(wv, "ParentToWorker", f.h, o) /\ ReadEffects(wv, f.h, o)
  BY <1>1, <1>3, WorkerTakes
<1>7. /\ wv' = o
      /\ \/ o.error # NoError /\ FailClosed(service, dispatcher, "ProtocolFailure")
         \/ FailClosed(answered, dispatcher, "SourceFailure")
         \/ FailClosed(answered, dispatcher, "DispatchFailure")
         \/ /\ o.error = NoError /\ service' = answered /\ pc' = "Loop"
            /\ UNCHANGED <<outbox, failure, workerIo>>
  BY <1>4, <1>5 DEF AcceptReply
<1>8. answered.pending_read = FALSE /\ answered.active_operation = service.active_operation
  <2>1. PICK E : service \in Services(E)
    BY <1>1 DEF IsService
  <2> HIDE DEF n
  <2> QED BY <2>1 DEF Services
<1>9. f.h.type = "ReadReply"
  OBVIOUS
<1> HIDE DEF o, f, answered, canonical
<1>10. CASE \/ o.error # NoError /\ FailClosed(service, dispatcher, "ProtocolFailure")
            \/ FailClosed(answered, dispatcher, "SourceFailure")
            \/ FailClosed(answered, dispatcher, "DispatchFailure")
  <2>1. o.error # NoError /\ FailClosed(service, dispatcher, "ProtocolFailure") => ServiceStops
    BY <1>6, <1>7, FailureStops
  <2>2. FailClosed(answered, dispatcher, "SourceFailure") => ServiceStops
    BY <1>6, <1>7, FailureStops
  <2>3. FailClosed(answered, dispatcher, "DispatchFailure") => ServiceStops
    BY <1>6, <1>7, FailureStops
  <2> QED BY <1>10, <2>1, <2>2, <2>3
<1>11. CASE /\ o.error = NoError /\ service' = answered /\ pc' = "Loop"
            /\ UNCHANGED <<outbox, failure, workerIo>>
  <2>1. /\ wv'.state = wv.state /\ wv'.active_request_id = wv.active_request_id
        /\ ~wv'.read_in_flight
    BY <1>4, <1>6, <1>7, <1>9, <1>11 DEF Effects, ReadEffects, Keeps
  <2>2. wv'.read_in_flight = FALSE
    BY <1>6, <1>7, <2>1 DEF Sound, Validators
  <2>3. Running' /\ outbox' = None
    BY <1>11 DEF Running
  <2>4. ReadMatches'
    BY <1>8, <1>11 DEF ReadMatches
  <2>5. WorkerSide'
    BY <1>1, <1>8, <1>11, <2>1 DEF WorkerSide, OrderInv
  <2>6. ASSUME NEW p, NEW req, NEW s, NEW streams \in BOOLEAN, NEW crossed \in BOOLEAN,
               Row(p, req, streams, crossed, s, wv, toWorker)
        PROVE  Row(p, req, streams, crossed, s, wv', toWorker')
    <3>1. toWorker[1].h.type = "ReadReply"
      BY <1>3, <1>9
    <3> QED BY <1>3, <1>4, <2>1, <2>2, <2>6, <3>1, RowReply
  <2> QED BY <1>1, <1>11, <2>3, <2>4, <2>5, <2>6, TakingTurns
<1> QED BY <1>7, <1>10, <1>11

LEMMA ReceiveOrderly ==
    ASSUME SessionInv, OrderInv, UNCHANGED parentVars, WorkerReceive
    PROVE  ServiceStops \/ ServiceTurns
<1> DEFINE f == Head(toWorker)
<1>1. CASE ReceiveHello
  BY <1>1, HelloOrderly
<1>2. ASSUME NEW begin, BeginOperation(begin) PROVE ServiceStops \/ ServiceTurns
  BY <1>2, BeginOrderly
<1>3. CASE ReceiveCancel
  BY <1>3, CancelOrderly DEF ReceiveCancel, ReceiveLoop
<1>4. ReceiveLoop => /\ Running /\ outbox = None /\ toWorker # <<>> /\ wv.state \notin ActiveStates
  BY DEF ReceiveLoop, Running, InDispatch, ActiveStates
<1>5. ReceiveLoop => f.h.type \in {"Hello", "Cancel", "Enumerate", "StreamEntry", "Shutdown"}
                     /\ wv.state \in {"AwaitingHello", "Idle", "Cancelled"}
  BY <1>4, WorkerHead
<1>6. ~ReceiveLateReply
  BY <1>5 DEF ReceiveLateReply
<1>7. ~ReceiveUnexpectedAtWorker
  <2>1. ReceiveLoop => wv.state # "AwaitingHello"
    BY <1>4, RunsClean DEF ReceiveLoop, AtRest, Stopped, Dispatching, ActiveStates
  <2>2. ReceiveLoop => f.h.type \in {"Cancel", "Enumerate", "StreamEntry", "Shutdown"}
    BY <1>4, <1>5, <2>1, WorkerHead
  <2> QED BY <2>2 DEF ReceiveUnexpectedAtWorker
<1>8. CASE HandleShutdown
  <2> DEFINE o == ObserveAtWorker(wv, "ParentToWorker", f)
  <2>1. /\ ReceiveLoop /\ toWorker' = Tail(toWorker) /\ wv' = o /\ UNCHANGED <<toParent, parentIo>>
        /\ \/ o.error # NoError /\ FailClosed(service, dispatcher, "ProtocolFailure")
           \/ pc' = "Done" /\ workerIo' = "closed" /\ UNCHANGED <<outbox, failure>>
    BY <1>8 DEF HandleShutdown
  <2>2. /\ wv.error = NoError /\ Sound(wv, WorkerBudgets) /\ "ParentToWorker" \in Directions
        /\ f.h \in FrameHeaders /\ Clean(f.h) /\ InOrder(wv, "ParentToWorker", f.h)
        /\ failure # "ProtocolFailure" /\ failure # "InternalFailure"
    BY <1>4, <2>1, WorkerHead, RunsClean DEF Directions
  <2>3. o.error \in BudgetErrors
    BY <2>2, WorkerTakes
  <2> HIDE DEF o, f
  <2>4. CASE o.error # NoError /\ FailClosed(service, dispatcher, "ProtocolFailure")
    BY <1>4, <2>1, <2>3, <2>4, FailureStops
  <2>5. CASE pc' = "Done" /\ workerIo' = "closed" /\ UNCHANGED <<outbox, failure>>
    BY <1>4, <2>1, <2>2, <2>3, <2>5 DEF ServiceStops, Running
  <2> QED BY <2>1, <2>4, <2>5
<1>9. CASE ProbeCancel
  <2>1. /\ pc = "Loop" /\ outbox = None /\ toWorker # <<>> /\ wv.state \in ActiveStates /\ Running
    BY <1>9 DEF ProbeCancel, ActiveLoop, InDispatch, ActiveStates, Running
  <2>2. ~wv.read_in_flight
    BY <2>1, RunsClean DEF AtRest, Stopped, ActiveStates
  <2>3. f.h.type = "Cancel"
    BY <2>1, <2>2, WorkerHead
  <2> QED BY <1>9, <2>1, <2>3, CancelOrderly DEF ProbeCancel
<1>10. ASSUME NEW ok, AwaitReplyOrCancel(ok) PROVE ServiceStops \/ ServiceTurns
  <2>1. /\ pc = "AwaitReply" /\ outbox = None /\ toWorker # <<>> /\ toWorker' = Tail(toWorker)
        /\ UNCHANGED <<toParent, parentIo>> /\ Running
        /\ f.h.type = "Cancel" => HandleCancel(f)
        /\ f.h.type = "ReadReply" => AcceptReply(f, FALSE, ok)
    BY <1>10 DEF AwaitReplyOrCancel, Running
  <2>2. wv.state \in ActiveStates
    BY <2>1, RunsClean DEF AtRest, Dispatching
  <2>3. f.h.type \in {"Cancel", "ReadReply"}
    BY <2>1, <2>2, WorkerHead
  <2> QED BY <2>1, <2>3, CancelOrderly, ReplyOrderly
<1> QED BY <1>1, <1>2, <1>3, <1>6, <1>7, <1>8, <1>9, <1>10 DEF WorkerReceive

(* The dispatch loop: what the worker knows before a step, and a step that   *)
(* puts the frame f on the wire.                                             *)
LEMMA BeforeDispatch ==
    ASSUME SessionInv, OrderInv, MayDispatch
    PROVE  /\ Running /\ pc = "Loop" /\ outbox = None /\ toWorker = <<>> /\ Len(toWorker) = 0
           /\ wv.error = NoError /\ Sound(wv, WorkerBudgets) /\ ~wv.read_in_flight
           /\ wv.state \in ActiveStates /\ Unblocked(wv) /\ ~service.pending_read
           /\ service.active_request_id = wv.active_request_id
           /\ service.active_request_id \in Nat \ {0}
           /\ service.active_operation = "Enumerate" =>
                  wv.state = "Enumerating" /\ wv.active_result_type = "EntryBatch"
           /\ service.active_operation = "Stream" =>
                  wv.state = "Streaming" /\ wv.active_result_type = "DataChunk"
<1>1. /\ pc = "Loop" /\ outbox = None /\ toWorker = <<>> /\ Running
      /\ wv.state \in ActiveStates
  BY DEF MayDispatch, ActiveLoop, InDispatch, ActiveStates, Running
<1>2. wv.error = NoError /\ Sound(wv, WorkerBudgets) /\ AtRest /\ wv \in Validators
  BY <1>1, RunsClean
<1>3. Dispatching(service, wv) /\ ~wv.read_in_flight
  BY <1>1, <1>2 DEF AtRest, Stopped, ActiveStates
<1>4. Consistent(wv) /\ wv.state \in RequestStates
  BY <1>1, <1>2 DEF Sound, RequestStates, ActiveStates
<1>5. /\ service.active_operation = "Enumerate" => wv.state = "Enumerating"
      /\ service.active_operation = "Stream" => wv.state = "Streaming"
  BY <1>1, <1>3 DEF OrderInv, WorkerSide, Dispatching, ActiveStates
<1>6. Len(toWorker) = 0
  BY <1>1
<1>7. wv.active_request_id \in Nat \ {0} /\ ~wv.crossed_read_request_seen
  BY <1>1, <1>2, <1>4 DEF Consistent, Validators, ActiveStates
<1> QED BY <1>1, <1>2, <1>3, <1>4, <1>5, <1>6, <1>7 DEF Unblocked, Dispatching, Consistent

LEMMA DispatchOrderly ==
    ASSUME SessionInv, OrderInv, UNCHANGED parentVars, NEW canonical, NEW f, NEW s,
           DispatchStep(canonical, f, s), f.h \in FrameHeaders,
           canonical => /\ Sendable(f) /\ f.h.req = service.active_request_id
                        /\ f.h.type \in {"ReadRequest", "Complete", wv.active_result_type},
           canonical => /\ s.active_operation = service.active_operation
                        /\ f.h.type # "ReadRequest" => ~s.pending_read
    PROVE  \/ ServiceStops \/ ServiceTurns
           \/ /\ Sendable(f) /\ f.h.type = "ReadRequest" /\ outbox' = Some(f) /\ service' = s
              /\ UNCHANGED <<pc, failure, workerIo, toWorker, toParent, parentIo>>
              /\ wv'.state = wv.state /\ wv'.active_request_id = wv.active_request_id
              /\ wv'.read_in_flight = TRUE
<1>1. /\ MayDispatch /\ UNCHANGED <<toWorker, toParent, parentIo>>
      /\ IF canonical THEN StartWrite(wv, s, dispatcher, f)
         ELSE wv' = wv /\ FailClosed(Stepped, dispatcher, "DispatchFailure")
  BY DEF DispatchStep
<1>2. /\ Running /\ pc = "Loop" /\ outbox = None /\ toWorker = <<>> /\ Len(toWorker) = 0
      /\ wv.error = NoError /\ Sound(wv, WorkerBudgets) /\ ~wv.read_in_flight
      /\ wv.state \in ActiveStates /\ Unblocked(wv)
      /\ service.active_request_id = wv.active_request_id
  BY <1>1, BeforeDispatch
<1>3. CASE ~canonical
  <2>1. wv'.error \in BudgetErrors
    BY <1>1, <1>2, <1>3 DEF BudgetErrors
  <2> QED BY <1>1, <1>3, <2>1, FailureStops
<1>4. CASE canonical
  <2>1. InOrder(wv, "WorkerToParent", f.h)
    BY <1>2, <1>4 DEF InOrder, RequestStates, ActiveStates
  <2>2. \/ ServiceStops
        \/ /\ outbox' = Some(f) /\ service' = s /\ UNCHANGED <<pc, failure, workerIo>>
           /\ Sound(wv', WorkerBudgets)
           /\ Effects(wv, "WorkerToParent", f.h, wv') /\ ReadEffects(wv, f.h, wv')
           /\ Leaves(wv, f.h, wv')
    BY <1>1, <1>2, <1>4, <2>1, StartWriteOrderly DEF Sendable
  <2>3. ASSUME outbox' = Some(f), service' = s, UNCHANGED <<pc, failure, workerIo>>,
               Sound(wv', WorkerBudgets),
               Effects(wv, "WorkerToParent", f.h, wv'), ReadEffects(wv, f.h, wv'),
               Leaves(wv, f.h, wv')
        PROVE  \/ ServiceTurns
               \/ /\ f.h.type = "ReadRequest" /\ wv'.state = wv.state
                  /\ wv'.active_request_id = wv.active_request_id /\ wv'.read_in_flight = TRUE
    <3>1. Running' /\ wv' \in Validators /\ f.h.req = wv.active_request_id
      BY <1>2, <1>4, <2>3 DEF Running, Sound
    <3>2. CASE f.h.type = "ReadRequest"
      <4>1. /\ wv'.state = wv.state /\ wv'.active_request_id = wv.active_request_id
            /\ wv'.read_in_flight
        BY <1>2, <2>3, <3>2 DEF Effects, ReadEffects, Keeps
      <4> QED BY <3>1, <3>2, <4>1 DEF Validators
    <3>3. CASE f.h.type = "Complete"
      <4>1. /\ wv'.state = "Idle" /\ wv'.completed_request_id = wv.active_request_id
            /\ wv'.accept_late_cancel
        BY <1>2, <2>3, <3>3 DEF Effects, Leaves, ActiveStates
      <4>2. ReadMatches' /\ WorkerSide'
        BY <1>4, <2>3, <3>3, <4>1 DEF ReadMatches, WorkerSide
      <4>3. IsOf(f, "Complete", wv.active_request_id)
        BY <3>1, <3>3 DEF IsOf
      <4>4. ASSUME NEW p, NEW req, NEW x, NEW x2, NEW streams \in BOOLEAN,
                   NEW crossed \in BOOLEAN,
                   Row(p, req, streams, crossed, x, wv, toWorker), Pushed(x, f, x2)
            PROVE  Row(p, req, streams, crossed, x2, wv', toWorker)
        BY <1>2, <4>1, <4>3, <4>4, RowComplete
      <4> QED BY <1>1, <1>2, <1>4, <2>3, <3>1, <4>2, <4>4, WritingTurns
    <3>4. CASE f.h.type \notin {"ReadRequest", "Complete"}
      <4>1. f.h.type = wv.active_result_type /\ f.h.type \in {"EntryBatch", "DataChunk"}
        BY <1>2, <1>4, <3>4 DEF Sound, Validators
      <4>2. f.h.type = IF wv.state = "Streaming" THEN "DataChunk" ELSE "EntryBatch"
        BY <1>2, <4>1 DEF Sound, Consistent, ActiveStates
      <4>3. /\ wv'.state = wv.state /\ wv'.active_request_id = wv.active_request_id
            /\ ~wv'.read_in_flight
        BY <2>3, <4>1 DEF Effects, ReadEffects, Keeps
      <4>4. wv'.read_in_flight = FALSE
        BY <3>1, <4>3 DEF Validators
      <4>5. ReadMatches'
        BY <1>4, <2>3, <3>4 DEF ReadMatches
      <4>6. WorkerSide'
        BY <1>2, <1>4, <2>3, <4>3 DEF WorkerSide, OrderInv
      <4>7. ASSUME NEW p, NEW req, NEW x, NEW x2, NEW streams \in BOOLEAN,
                   NEW crossed \in BOOLEAN,
                   Row(p, req, streams, crossed, x, wv, toWorker), Pushed(x, f, x2)
            PROVE  Row(p, req, streams, crossed, x2, wv', toWorker)
        BY <1>2, <3>1, <4>2, <4>3, <4>4, <4>7, RowResult
      <4> QED BY <1>1, <1>2, <1>4, <2>3, <3>1, <4>5, <4>6, <4>7, WritingTurns
    <3> QED BY <3>2, <3>3, <3>4
  <2> QED BY <1>1, <1>4, <2>2, <2>3
<1> QED BY <1>3, <1>4

LEMMA ReadOrderly ==
    ASSUME SessionInv, OrderInv, UNCHANGED parentVars, StepNeedRead(1)
    PROVE  ServiceStops \/ ServiceTurns
<1> DEFINE next == service.next_read_sequence
           canonical == ~service.pending_read /\ next # 0 /\ FitsFrame(1 + 1)
           f == Frame("ReadRequest", service.active_request_id, <<next, 1>>)
           s == [Stepped EXCEPT !.pending_read = TRUE, !.pending_read_sequence = next,
                                !.pending_read_length = 1]
<1>1. DispatchStep(canonical, f, s) /\ MayDispatch
  BY DEF StepNeedRead, DispatchStep
<1>2. /\ Running /\ pc = "Loop" /\ outbox = None /\ toWorker = <<>> /\ Len(toWorker) = 0
      /\ ~wv.read_in_flight /\ wv.state \in ActiveStates
      /\ service.active_request_id = wv.active_request_id
      /\ service.active_request_id \in Nat \ {0}
  BY <1>1, BeforeDispatch
<1>3. f.h \in FrameHeaders /\ f.h.type = "ReadRequest" /\ f.h.req = service.active_request_id
  BY <1>2, WrittenHeader
<1>4. Clean(f.h)
  BY <1>2, CleanFrames
<1>5. f.body[1] = next /\ f.body[2] = 1
  BY DEF Frame
<1>6. /\ s.active_operation = service.active_operation
      /\ s.pending_read_sequence = next /\ s.pending_read_length = 1
  <2>1. WorkerInv
    BY DEF SessionInv
  <2>2. PICK E : Stepped \in Services(E)
    BY <2>1, SteppedIs DEF IsService
  <2> HIDE DEF next
  <2> QED BY <2>1, <2>2, SteppedIs DEF Services
<1>7. canonical => 1 + 1 <= MaxFramePayload
  BY DEF FitsFrame
<1> HIDE DEF canonical, f, s, next
<1>8. canonical => Sendable(f)
  BY <1>4, <1>5, <1>7 DEF Sendable
<1>9. /\ canonical => /\ Sendable(f) /\ f.h.req = service.active_request_id
                       /\ f.h.type \in {"ReadRequest", "Complete", wv.active_result_type}
      /\ canonical => /\ s.active_operation = service.active_operation
                      /\ f.h.type # "ReadRequest" => ~s.pending_read
  BY <1>3, <1>6, <1>8
<1>10. \/ ServiceStops \/ ServiceTurns
      \/ /\ Sendable(f) /\ f.h.type = "ReadRequest" /\ outbox' = Some(f) /\ service' = s
         /\ UNCHANGED <<pc, failure, workerIo, toWorker, toParent, parentIo>>
         /\ wv'.state = wv.state /\ wv'.active_request_id = wv.active_request_id
         /\ wv'.read_in_flight = TRUE
  BY <1>1, <1>3, <1>9, DispatchOrderly
<1> SUFFICES ASSUME Sendable(f), outbox' = Some(f), service' = s,
                    UNCHANGED <<pc, failure, workerIo, toWorker, toParent, parentIo>>,
                    wv'.state = wv.state, wv'.active_request_id = wv.active_request_id,
                    wv'.read_in_flight = TRUE
             PROVE  ServiceTurns
  BY <1>10
<1>11. Running' /\ WorkerSide' /\ The(outbox') = f
  BY <1>2, <1>6, Optional DEF Running, WorkerSide, OrderInv
<1>12. phase # "Terminal" => \A k \in 1..Len(toParent) : toParent[k].h.type # "ReadRequest"
  <2> SUFFICES ASSUME phase # "Terminal"
               PROVE  \A k \in 1..Len(toParent) : toParent[k].h.type # "ReadRequest"
    OBVIOUS
  <2>1. PICK p, req, streams, crossed, x, w, tw : Stands(p, req, streams, crossed, x, w, tw)
    BY DEF OrderInv, Joint
  <2>2. /\ streams \in BOOLEAN /\ crossed \in BOOLEAN /\ x = toParent
        /\ Row(p, req, streams, crossed, x, wv, toWorker) /\ OnWire(x)
    BY <1>2, <2>1 DEF Stands, Sent
  <2>3. Results(x, streams, req, 0)
    BY <1>2, <2>2, RowDispatch
  <2>4. Len(x) - 0 = Len(x)
    BY <2>2, EmptyPipe
  <2> QED BY <2>2, <2>3, <2>4 DEF Results, IsOf, Result
<1>13. ReadMatches'
  <2>1. \A k \in 1..Len(toWorker') : \A g : g = toWorker'[k] => Answer(g)'
    BY <1>2
  <2>2. phase' # "Terminal" => \A k \in 1..Len(toParent') : \A g : g = toParent'[k] => Question(g)'
    BY <1>12 DEF Question, parentVars
  <2>3. \A g : g = The(outbox') => Question(g)'
    BY <1>5, <1>6, <1>11 DEF Question
  <2> QED BY <1>11, <2>1, <2>2, <2>3 DEF ReadMatches, Answer, Question
<1>14. IsOf(f, "ReadRequest", wv.active_request_id)
  BY <1>2, <1>3 DEF IsOf
<1>15. ASSUME NEW p, NEW req, NEW x, NEW x2, NEW streams \in BOOLEAN, NEW crossed \in BOOLEAN,
              Row(p, req, streams, crossed, x, wv, toWorker), Pushed(x, f, x2)
       PROVE  Row(p, req, streams, crossed, x2, wv', toWorker)
  BY <1>2, <1>14, <1>15, RowNeedRead
<1> QED BY <1>2, <1>11, <1>13, <1>15, WritingTurns

LEMMA DispatchesOrderly ==
    ASSUME SessionInv, OrderInv, UNCHANGED parentVars, WorkerDispatch
    PROVE  ServiceStops \/ ServiceTurns
<1>0. WorkerInv /\ IsService(Stepped) /\ Stepped.active_operation = service.active_operation
      /\ Stepped.pending_read = service.pending_read
  BY SteppedIs DEF SessionInv
<1>1. CASE DispatchBudgetExceeded
  <2>1. MayDispatch /\ FailClosed(service, dispatcher, "DispatchBudgetExceeded")
        /\ UNCHANGED <<wv, toWorker, toParent, parentIo>>
    BY <1>1 DEF DispatchBudgetExceeded
  <2>2. wv'.error \in BudgetErrors
    BY <2>1, BeforeDispatch DEF BudgetErrors
  <2> QED BY <2>1, <2>2, FailureStops
<1>2. CASE StepNeedRead(1)
  BY <1>2, ReadOrderly
<1>3. ASSUME NEW entries \in Batches, StepEntryBatch(entries) PROVE ServiceStops \/ ServiceTurns
  <2> DEFINE f == Frame("EntryBatch", service.active_request_id, entries)
             canonical == /\ service.active_operation = "Enumerate"
                          /\ BatchIsCanonical(entries, service.enumeration)
                          /\ FitsFrame(Len(entries))
  <2>1. DispatchStep(canonical, f, Stepped) /\ MayDispatch
    BY <1>3 DEF StepEntryBatch, DispatchStep
  <2>2. /\ service.active_request_id \in Nat \ {0} /\ ~service.pending_read
        /\ service.active_operation = "Enumerate" => wv.active_result_type = "EntryBatch"
    BY <2>1, BeforeDispatch
  <2>3. Len(entries) \in Nat
    BY BatchesAssumption, LenProperties
  <2>4. f.h \in FrameHeaders /\ f.h.type = "EntryBatch"
    BY <2>2, <2>3, WrittenResult
  <2>5. f.h.req = service.active_request_id
    BY DEF Frame, Header
  <2>6. canonical => Clean(f.h)
    BY <2>2, <2>3, CleanFrames
  <2>7. canonical => f.h.type = wv.active_result_type
    BY <2>2, <2>4
  <2> HIDE DEF f, canonical
  <2>8. canonical => Sendable(f)
    BY <2>4, <2>6 DEF Sendable
  <2> QED BY <1>0, <2>1, <2>2, <2>4, <2>5, <2>7, <2>8, DispatchOrderly
<1>4. ASSUME NEW n \in ChunkSizes, StepDataChunk(n) PROVE ServiceStops \/ ServiceTurns
  <2> DEFINE body == [i \in 1..n |-> service.stream_size - service.remaining_stream_bytes + i]
             f == Frame("DataChunk", service.active_request_id, body)
             canonical == /\ service.active_operation = "Stream"
                          /\ n <= service.remaining_stream_bytes
                          /\ FitsFrame(n)
  <2>1. DispatchStep(canonical, f, Stepped) /\ MayDispatch
    BY <1>4 DEF StepDataChunk, DispatchStep
  <2>2. /\ service.active_request_id \in Nat \ {0} /\ ~service.pending_read
        /\ service.active_operation = "Stream" => wv.active_result_type = "DataChunk"
    BY <2>1, BeforeDispatch
  <2>3. n \in Nat /\ Len(body) = n
    BY WorkerLimitsAssumption
  <2>4. f.h.req = service.active_request_id
    BY DEF Frame, Header
  <2> HIDE DEF body
  <2>5. f.h \in FrameHeaders /\ f.h.type = "DataChunk"
    BY <2>2, <2>3, WrittenResult
  <2>6. canonical => Clean(f.h)
    BY <2>2, <2>3, CleanFrames
  <2>7. canonical => f.h.type = wv.active_result_type
    BY <2>2, <2>5
  <2> HIDE DEF f, canonical
  <2>8. canonical => Sendable(f)
    BY <2>5, <2>6 DEF Sendable
  <2> QED BY <1>0, <2>1, <2>2, <2>4, <2>5, <2>7, <2>8, DispatchOrderly
<1>5. CASE StepComplete
  <2> DEFINE f == Frame("Complete", service.active_request_id, <<>>)
             canonical == service.active_operation = "Stream" =>
                              service.remaining_stream_bytes = 0
  <2>1. DispatchStep(canonical, f, Stepped) /\ MayDispatch
    BY <1>5 DEF StepComplete, DispatchStep
  <2>2. service.active_request_id \in Nat \ {0} /\ ~service.pending_read
    BY <2>1, BeforeDispatch
  <2>3. f.h \in FrameHeaders /\ f.h.type = "Complete" /\ f.h.req = service.active_request_id
    BY <2>2, WrittenHeader
  <2>4. Clean(f.h)
    BY <2>2, CleanFrames
  <2> HIDE DEF f, canonical
  <2>5. Sendable(f)
    BY <2>3, <2>4 DEF Sendable
  <2> QED BY <1>0, <2>1, <2>2, <2>3, <2>5, DispatchOrderly
<1>6. CASE StepFails
  <2>1. MayDispatch /\ wv' = wv /\ FailClosed(Stepped, dispatcher, "DispatchFailure")
        /\ UNCHANGED <<toWorker, toParent, parentIo>>
    BY <1>6 DEF StepFails, DispatchStep
  <2>2. wv'.error \in BudgetErrors
    BY <2>1, BeforeDispatch DEF BudgetErrors
  <2> QED BY <2>1, <2>2, FailureStops
<1> QED BY <1>1, <1>2, <1>3, <1>4, <1>5, <1>6 DEF WorkerDispatch

(* The frame that reaches the pipe was counted as sent before. *)
LEMMA WriteKeepsFields ==
    ASSUME SessionInv, FinishWrite
    PROVE  /\ service'.active_operation = service.active_operation
           /\ service'.pending_read = service.pending_read
           /\ service'.pending_read_sequence = service.pending_read_sequence
           /\ service'.pending_read_length = service.pending_read_length
<1> DEFINE f == The(outbox)
           x == Spend(service.enumeration, f.body)
           y == service.remaining_stream_bytes - Len(f.body)
<1>1. PICK E : service \in Services(E)
  BY DEF SessionInv, WorkerInv, Owns, IsService
<1>2. Writing(f.h.type)
  BY DEF FinishWrite, SessionInv, WorkerInv, InStep
<1>3. \/ service' = service
      \/ service' = [service EXCEPT !.enumeration = x]
      \/ service' = [service EXCEPT !.remaining_stream_bytes = y]
      \/ service' = [service EXCEPT !.dispatch_active = FALSE, !.active_request_id = 0]
      \/ service' = [service EXCEPT !.active_request_id = 0]
  BY <1>2 DEF FinishWrite, Writing
<1> HIDE DEF x, y
<1> QED BY <1>1, <1>3 DEF Services

LEMMA WriteOrder ==
    ASSUME SessionInv, OrderInv, FinishWrite, UNCHANGED parentVars PROVE OrderInv'
<1> DEFINE f == The(outbox)
<1>1. /\ outbox # None /\ Running /\ toParent' = Append(toParent, f) /\ outbox' = None
      /\ parentIo = "open" /\ UNCHANGED <<wv, failure, toWorker, parentIo, workerIo>>
  BY DEF FinishWrite, WorkerMaySend
<1>2. Running' /\ IsWire(f)
  BY FinishWrites DEF Writes
<1>3. phase # "Terminal" /\ phase' = phase
  BY <1>1 DEF OrderInv, Ports, parentVars
<1>4. OnWire(toParent) /\ OnWire(toParent') /\ Sendable(f)
  BY <1>1, <1>2, Wired DEF SessionInv, ParentInv, Typed, OrderInv, Canonical
<1>5. PICK p, req, streams, crossed, s, w, tw : Stands(p, req, streams, crossed, s, w, tw)
  BY DEF OrderInv, Joint
<1>6. s = toParent' /\ s = Sent'
  BY <1>1, <1>3, <1>5 DEF Stands, Sent
<1>7. Prefix(toParent', s)
  BY <1>4, <1>6, EmptyPipe DEF Prefix
<1>8. Joint'
  <2>1. Stands(p, req, streams, crossed, s, w, tw)'
    BY <1>1, <1>3, <1>5, <1>6, <1>7 DEF Stands, AtParent, parentVars
  <2> QED BY <2>1 DEF Joint
<1>9. \A k \in 1..Len(toParent') : toParent'[k] = f \/ \E j \in 1..Len(toParent) :
                                       toParent'[k] = toParent[j]
  <2>1. /\ Len(toParent) \in Nat /\ Len(toParent') = Len(toParent) + 1
        /\ toParent'[Len(toParent) + 1] = f
        /\ \A k \in 1..Len(toParent) : toParent'[k] = toParent[k]
    BY <1>1, <1>4, WireAppend
  <2> HIDE DEF f
  <2>2. ASSUME NEW k \in 1..Len(toParent')
        PROVE  k = Len(toParent) + 1 \/ k \in 1..Len(toParent)
    BY <2>1
  <2> QED BY <2>1, <2>2
<1>10. Canonical'
  BY <1>1, <1>4, <1>9 DEF OrderInv, Canonical, Sendable
<1>11. ReadMatches'
  <2> SUFFICES ASSUME service'.pending_read PROVE ReadMatches'
    BY DEF ReadMatches
  <2>1. \A g : (Answer(g) <=> Answer(g)') /\ (Question(g) <=> Question(g)')
    BY WriteKeepsFields DEF Answer, Question
  <2>2. /\ \A k \in 1..Len(toWorker) : Answer(toWorker[k])
        /\ \A k \in 1..Len(toParent) : Question(toParent[k])
        /\ Question(f)
    BY <1>1, <1>3, WriteKeepsFields DEF OrderInv, ReadMatches
  <2> HIDE DEF f
  <2>3. \A k \in 1..Len(toWorker') : \A g : g = toWorker'[k] => Answer(g)'
    BY <1>1, <2>1, <2>2
  <2>4. \A k \in 1..Len(toParent') : \A g : g = toParent'[k] => Question(g)'
    BY <1>9, <2>1, <2>2
  <2> QED BY <1>1, <2>3, <2>4 DEF ReadMatches, Answer, Question
<1>12. WorkerSide'
  BY <1>1, WriteKeepsFields DEF OrderInv, WorkerSide
<1>13. ParentSide' /\ Ports' /\ NoOrderingFailure'
  BY <1>1, <1>2, SameParent DEF OrderInv, Ports, NoOrderingFailure
<1> QED BY <1>8, <1>10, <1>11, <1>12, <1>13 DEF OrderInv

LEMMA WorkerOrder ==
    ASSUME SessionInv, SessionInv', OrderInv, WorkerNext, UNCHANGED parentVars PROVE OrderInv'
<1>1. CASE WorkerReceive \/ WorkerDispatch
  BY <1>1, ReceiveOrderly, DispatchesOrderly, StopsKeepOrder, TurnsKeepOrder
<1>2. CASE FinishWrite
  BY <1>2, WriteOrder
<1>3. CASE WorkerIoFails
  <2>1. Running /\ FailClosed(service, dispatcher, "TransportFailure")
        /\ UNCHANGED <<wv, toWorker, toParent, parentIo>>
    BY <1>3 DEF WorkerIoFails
  <2>2. wv'.error \in BudgetErrors
    BY <2>1, RunsClean DEF BudgetErrors
  <2> QED BY <2>1, <2>2, FailureStops, StopsKeepOrder
<1> QED BY <1>1, <1>2, <1>3 DEF WorkerNext

LEMMA OrderInit == Init => OrderInv
<1> SUFFICES ASSUME Init PROVE OrderInv
  OBVIOUS
<1>1. /\ toWorker = <<>> /\ toParent = <<>> /\ outbox = None /\ wv = NewValidator
      /\ service = NewService /\ phase = "Connecting" /\ ~streaming /\ streaming \in BOOLEAN
      /\ active_request_id = 0 /\ results = NewResultSession(NewValidator) /\ pc = "Handshake"
      /\ failure = "none" /\ parentIo = "open" /\ workerIo = "open"
  BY DEF Init, TransportInit, ParentInit, WorkerInit
<1>2. /\ ~service.pending_read /\ wv.state = "AwaitingHello" /\ wv.error = NoError
      /\ results.protocol = NewValidator /\ results.failure = NoFailure
      /\ results.candidate = None
  BY <1>1 DEF NewService, NewValidator, NewResultSession
<1>3. Len(toWorker) = 0 /\ Len(toParent) = 0 /\ wv \in Validators
      /\ results.protocol.crossed_read_request_seen = FALSE
      /\ results.protocol.read_in_flight = FALSE /\ results.protocol.last_request_id = 0
      /\ results.protocol.error = NoError
  BY <1>1, <1>2 DEF NewValidator, Validators, SessionStates, NoError
<1>4. OnWire(toParent) /\ Framed(toWorker)
  BY <1>1, Wired, Framing
<1>5. Row("Connecting", 0, streaming, FALSE, toParent, wv, toWorker)
  BY <1>2, <1>3 DEF Row, Resting
<1>6. Stands("Connecting", 0, streaming, FALSE, toParent, wv, toWorker)
  <2>1. Prefix(toParent, toParent)
    BY <1>3 DEF Prefix
  <2>2. AtParent("Connecting", 0, streaming, FALSE, toParent)
    BY <1>1, <1>3, <2>1 DEF AtParent
  <2>3. Sent = toParent
    BY <1>1 DEF Sent
  <2> QED BY <1>1, <1>3, <1>4, <1>5, <2>2, <2>3 DEF Stands
<1>7. Joint
  BY <1>6 DEF Joint
<1>8. Canonical /\ ReadMatches /\ WorkerSide /\ Ports
  BY <1>1, <1>2, <1>3 DEF Canonical, ReadMatches, WorkerSide, Ports, Running
<1>9. ParentSide
  <2>1. Numbering
    BY SessionInitInv DEF SessionInv
  <2>2. Used(0)
    BY <2>1, ZeroIsUsed
  <2>3. Balanced(results, phase, streaming)
    BY <1>1, <1>2, <1>3 DEF Balanced, Accounted, ReceivePhases
  <2> QED BY <1>3, <2>2, <2>3 DEF ParentSide
<1>10. NoOrderingFailure
  BY <1>1, <1>2, <1>3 DEF NoOrderingFailure, BudgetErrors, NoFailure
<1> QED BY <1>7, <1>8, <1>9, <1>10 DEF OrderInv

LEMMA OrderStep == ASSUME SessionInv, OrderInv, [Next]_vars PROVE SessionInv' /\ OrderInv'
<1>1. SessionInv'
  BY SessionStep
<1>2. CASE ParentNext /\ UNCHANGED workerVars
  BY <1>1, <1>2, ParentOrder
<1>3. CASE WorkerNext /\ UNCHANGED parentVars
  BY <1>1, <1>3, WorkerOrder
<1>4. CASE UNCHANGED vars
  <2>1. UNCHANGED <<parentVars, workerVars, toWorker, toParent, parentIo, workerIo>>
    BY <1>4 DEF vars, transportVars
  <2>2. PICK p, req, streams, crossed, s, w, tw : Stands(p, req, streams, crossed, s, w, tw)
    BY DEF OrderInv, Joint
  <2>3. Stands(p, req, streams, crossed, s, w, tw)'
    BY <2>1, <2>2 DEF Stands, AtParent, Sent, Running, parentVars, workerVars
  <2>4. Joint'
    BY <2>3 DEF Joint
  <2>5. Canonical' /\ ReadMatches' /\ WorkerSide'
    BY <2>1 DEF OrderInv, Canonical, Sendable, ReadMatches, Answer, Question, WorkerSide,
                Running, parentVars, workerVars
  <2>6. ParentSide' /\ Ports' /\ NoOrderingFailure'
    BY <2>1 DEF OrderInv, ParentSide, Used, Ports, NoOrderingFailure, Running, parentVars,
                workerVars
  <2> QED BY <1>1, <2>4, <2>5, <2>6 DEF OrderInv
<1> QED BY <1>1, <1>2, <1>3, <1>4 DEF Next

(* No interleaving of the two ends breaks the ordering rules of OWP/1: of    *)
(* every cancel, completion, read and reply that can cross on the pipes,     *)
(* wherever an end goes away, the validators of both peers refuse a frame    *)
(* only because a budget ran out; handle_cancel never meets the state its    *)
(* InternalFailure stands for, and the parent's ResultSession never finds a  *)
(* result without the request that it belongs to.                            *)
THEOREM NoOrderingFailures == Spec => []NoOrderingFailure
<1>1. SessionInv /\ OrderInv => NoOrderingFailure
  BY DEF OrderInv
<1> QED BY <1>1, SessionInitInv, OrderInit, OrderStep, PTL DEF Spec
=============================================================================
