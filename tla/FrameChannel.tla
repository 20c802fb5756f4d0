---------------------------- MODULE FrameChannel ----------------------------
(***************************************************************************)
(* ohl-import's FrameChannel (frame_channel.rs): one OWP/1 session over an *)
(* exact byte channel that several threads share.  A mutex guards the      *)
(* retained failure and the two direction flags, and is held for one step  *)
(* at a time; validation, transfers and abort_io run outside it.           *)
(*                                                                         *)
(* Frame contents are abstracted to what the channel decides on: a header  *)
(* that is canonical or not, and a payload that is empty or not.  A        *)
(* transfer that fails may have moved any part of its bytes.               *)
(***************************************************************************)
EXTENDS Naturals

CONSTANT Threads        \* the threads that hold the channel

VARIABLES
    failure,   \* ChannelState::failure: the first failure, or "None"
    active,    \* ChannelState::send_active and receive_active
    call,      \* where each thread is in its call, its direction and its error
    result,    \* what each thread's last call returned
    usable,    \* FrameBuffer::usable of the buffer each thread receives into
    torn,      \* that buffer holds part of a frame over older bytes
    wire,      \* whether the bytes of each direction stand between two frames
    aborts     \* how often the transport was aborted

vars == <<failure, active, call, result, usable, torn, wire, aborts>>

Directions == {"Send", "Receive"}
Failures == {"Protocol", "Transport", "Aborted"}
Refusals == {"ConcurrentOperation", "BufferInvalidated"}
Steps == {"Ready", "Check", "Header", "Payload", "Refuse", "Poison", "Abort", "Fail", "Succeed"}

AtRest == [at |-> "Ready", dir |-> "None", error |-> "None"]

Init ==
    /\ failure = "None"
    /\ active = [d \in Directions |-> FALSE]
    /\ call = [t \in Threads |-> AtRest]
    /\ result = [t \in Threads |-> "NoCall"]
    /\ usable \in [Threads -> BOOLEAN]
    /\ torn = [t \in Threads |-> ~usable[t]]
    /\ wire = [d \in Directions |-> "Boundary"]
    /\ aborts = 0

-----------------------------------------------------------------------------
At(t, step) == call[t].at = step
Goto(t, step) == call' = [call EXCEPT ![t].at = step]
GotoPoison(t, e) == call' = [call EXCEPT ![t].at = "Poison", ![t].error = e]
Return(t, r) == call' = [call EXCEPT ![t] = AtRest] /\ result' = [result EXCEPT ![t] = r]

Retained(error) == IF failure = "None" THEN error ELSE failure

(* begin: one locked step that refuses a poisoned channel and a second call  *)
(* in the same direction.                                                    *)
Begin(t, d) ==
    /\ At(t, "Ready")
    /\ \/ failure # "None" /\ Return(t, failure) /\ UNCHANGED active
       \/ /\ failure = "None" /\ active[d]
          /\ Return(t, "ConcurrentOperation") /\ UNCHANGED active
       \/ /\ failure = "None" /\ ~active[d]
          /\ active' = [active EXCEPT ![d] = TRUE]
          /\ call' = [call EXCEPT ![t] = [at |-> "Check", dir |-> d, error |-> "None"]]
          /\ UNCHANGED result
    /\ UNCHANGED <<failure, usable, torn, wire, aborts>>

\* validate_outgoing and the header's encoding.
CheckOutgoing(t) ==
    /\ At(t, "Check") /\ call[t].dir = "Send"
    /\ Goto(t, "Header") \/ GotoPoison(t, "Protocol")
    /\ UNCHANGED <<failure, active, result, usable, torn, wire, aborts>>

CheckBuffer(t) ==
    /\ At(t, "Check") /\ call[t].dir = "Receive"
    /\ Goto(t, IF usable[t] THEN "Header" ELSE "Refuse")
    /\ UNCHANGED <<failure, active, result, usable, torn, wire, aborts>>

\* Mutant: a header that timed out half way ends the call and not the channel.
TransferHeaderRetryable(t) ==
    LET d == call[t].dir
    IN  /\ At(t, "Header")
        /\ call' = [call EXCEPT ![t].at = "Fail", ![t].error = "Transport"]
        /\ wire' = [wire EXCEPT ![d] = "Inside"]
        /\ UNCHANGED <<failure, active, result, usable, torn, aborts>>

(* The header goes first.  A received one is decoded before any payload byte *)
(* is read, and the buffer stops being usable before the payload arrives.    *)
TransferHeader(t) ==
    LET d == call[t].dir
    IN  /\ At(t, "Header")
        /\ \/ /\ Goto(t, "Succeed")
              /\ UNCHANGED <<wire, usable>>
           \/ /\ Goto(t, "Payload")
              /\ wire' = [wire EXCEPT ![d] = "Inside"]
              /\ usable' = IF d = "Receive" THEN [usable EXCEPT ![t] = FALSE] ELSE usable
           \/ /\ d = "Receive" /\ GotoPoison(t, "Protocol")
              /\ wire' = [wire EXCEPT ![d] = "Inside"]
              /\ UNCHANGED usable
           \/ /\ GotoPoison(t, "Transport")
              /\ \E w \in {wire[d], "Inside"} : wire' = [wire EXCEPT ![d] = w]
              /\ UNCHANGED usable
        /\ UNCHANGED <<failure, active, result, torn, aborts>>

TransferPayload(t) ==
    LET d == call[t].dir
    IN  /\ At(t, "Payload")
        /\ \/ /\ Goto(t, "Succeed")
              /\ wire' = [wire EXCEPT ![d] = "Boundary"]
              /\ usable' = IF d = "Receive" THEN [usable EXCEPT ![t] = TRUE] ELSE usable
              /\ torn' = IF d = "Receive" THEN [torn EXCEPT ![t] = FALSE] ELSE torn
           \/ /\ GotoPoison(t, "Transport")
              /\ torn' = IF d = "Receive" THEN [torn EXCEPT ![t] = TRUE] ELSE torn
              /\ UNCHANGED <<wire, usable>>
        /\ UNCHANGED <<failure, active, result, aborts>>

(* abort: poisons the channel from any thread, during anyone's transfer.  It *)
(* returns nothing; its result records the failure the channel retains.      *)
CallAbort(t) ==
    /\ At(t, "Ready")
    /\ call' = [call EXCEPT ![t] = [at |-> "Poison", dir |-> "None", error |-> "Aborted"]]
    /\ UNCHANGED <<failure, active, result, usable, torn, wire, aborts>>

\* Mutant: every failing thread aborts the transport.
PoisonAlways(t) ==
    /\ At(t, "Poison")
    /\ failure' = Retained(call[t].error)
    /\ Goto(t, "Abort")
    /\ UNCHANGED <<active, result, usable, torn, wire, aborts>>

(* poison: the first failure is kept, and only the thread that set it goes   *)
(* on to abort the transport, after it released the lock.                    *)
Poison(t) ==
    /\ At(t, "Poison")
    /\ failure' = Retained(call[t].error)
    /\ Goto(t, IF failure = "None" THEN "Abort" ELSE "Fail")
    /\ UNCHANGED <<active, result, usable, torn, wire, aborts>>

AbortIo(t) ==
    /\ At(t, "Abort")
    /\ aborts' = aborts + 1
    /\ Goto(t, "Fail")
    /\ UNCHANGED <<failure, active, result, usable, torn, wire>>

Cleared(d) == [e \in Directions |-> active[e] /\ e # d]

(* end_failure: the retained first failure wins over the call's own.         *)
EndFailure(t) ==
    /\ At(t, "Fail")
    /\ active' = Cleared(call[t].dir)
    /\ Return(t, Retained(call[t].error))
    /\ UNCHANGED <<failure, usable, torn, wire, aborts>>

(* end_success: a failure of the other direction wins over this success.     *)
EndSuccess(t) ==
    /\ At(t, "Succeed")
    /\ active' = Cleared(call[t].dir)
    /\ Return(t, Retained("Ok"))
    /\ UNCHANGED <<failure, usable, torn, wire, aborts>>

\* Mutant: the refusal returns without ending the operation it began.
RefuseBufferHolding(t) ==
    /\ At(t, "Refuse")
    /\ Return(t, Retained("BufferInvalidated"))
    /\ UNCHANGED <<failure, active, usable, torn, wire, aborts>>

\* A buffer that is not usable ends the receive before any transfer.
RefuseBuffer(t) ==
    /\ At(t, "Refuse")
    /\ active' = Cleared(call[t].dir)
    /\ Return(t, Retained("BufferInvalidated"))
    /\ UNCHANGED <<failure, usable, torn, wire, aborts>>

\* FrameBuffer::reinit by the buffer's owner.
Reinit(t) ==
    /\ At(t, "Ready")
    /\ usable' = [usable EXCEPT ![t] = TRUE]
    /\ torn' = [torn EXCEPT ![t] = FALSE]
    /\ UNCHANGED <<failure, active, call, result, wire, aborts>>

Continue(t) ==
    \/ CheckOutgoing(t) \/ CheckBuffer(t) \/ TransferHeader(t) \/ TransferPayload(t)
    \/ Poison(t) \/ AbortIo(t) \/ EndFailure(t) \/ EndSuccess(t) \/ RefuseBuffer(t)

Next ==
    \E t \in Threads :
        \/ \E d \in Directions : Begin(t, d)
        \/ CallAbort(t) \/ Reinit(t) \/ Continue(t)

(* Every transfer has a deadline, so that a call in progress ends; nothing   *)
(* obliges a thread to begin one.                                            *)
Fairness == \A t \in Threads : WF_vars(Continue(t))

Spec == Init /\ [][Next]_vars /\ Fairness

-----------------------------------------------------------------------------
\* Every variable keeps the range of the field it models.
TypeOK ==
    /\ failure \in Failures \cup {"None"}
    /\ active \in [Directions -> BOOLEAN]
    /\ call \in [Threads -> [at : Steps, dir : Directions \cup {"None"},
                             error : Failures \cup {"None"}]]
    /\ result \in [Threads -> Failures \cup Refusals \cup {"NoCall", "Ok"}]
    /\ usable \in [Threads -> BOOLEAN] /\ torn \in [Threads -> BOOLEAN]
    /\ wire \in [Directions -> {"Boundary", "Inside"}]
    /\ aborts \in 0..1

InCall(t, d) == ~At(t, "Ready") /\ call[t].dir = d

(* A direction is marked active exactly while one thread is in a call of it, *)
(* on every way out of the call.                                             *)
OneOperationPerDirection ==
    \A d \in Directions :
        /\ active[d] <=> \E t \in Threads : InCall(t, d)
        /\ \A t, u \in Threads : InCall(t, d) /\ InCall(u, d) => t = u

(* However many threads fail at once, the transport is aborted exactly once, *)
(* by the one thread whose failure was retained.                             *)
OneAbort ==
    /\ \A t, u \in Threads : At(t, "Abort") /\ At(u, "Abort") => t = u
    /\ failure = "None" => aborts = 0
    /\ (\E t \in Threads : At(t, "Abort")) => failure # "None" /\ aborts = 0
    /\ failure # "None" /\ (\A t \in Threads : ~At(t, "Abort")) => aborts = 1

(* Whatever went wrong in whichever thread, every call that failed for good  *)
(* reports the channel's first failure.                                      *)
AllReportTheFirstFailure == \A t \in Threads : result[t] \in Failures => result[t] = failure

(* poison and end_failure between them: whichever threads fail, in whichever *)
(* order, one of them aborts the transport, once, and all of them report the *)
(* failure that it retained.                                                 *)
FirstFailureWins == OneAbort /\ AllReportTheFirstFailure

(* On a channel that is not poisoned no call, whether it succeeded or was    *)
(* refused, leaves a byte stream between two bytes of a frame.               *)
StreamAligned ==
    failure = "None" =>
        \A d \in Directions :
            ~active[d] => wire[d] = "Boundary"

(* A buffer that may be received into never holds part of a frame.           *)
UsableBufferIsWhole == \A t \in Threads : usable[t] => ~torn[t]

(* However a transfer of send or receive ends, part of a frame is left only  *)
(* where no later call can take it for a frame: in a poisoned stream, or in  *)
(* a ReusableFrameBuffer that has to be initialised again.                   *)
NoTornFrame == StreamAligned /\ UsableBufferIsWhole

(* Every call releases its direction.                                        *)
DirectionsAreReleased == \A d \in Directions : active[d] ~> ~active[d]
=============================================================================
