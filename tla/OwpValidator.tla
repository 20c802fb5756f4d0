---------------------------- MODULE OwpValidator ----------------------------
(***************************************************************************)
(* One session validator fed with any sequence of headers from either      *)
(* direction: the peer on the other end of the pipe is not trusted, so the *)
(* ordering rules must hold whatever it sends.                             *)
(***************************************************************************)
EXTENDS SessionValidator

CONSTANTS Limits,     \* the ProtocolBudgets of this session
          Frames      \* the headers that may be observed

ASSUME LimitsAssumption == Limits \in Budgets
ASSUME FramesAssumption == Frames \subseteq FrameHeaders

VARIABLE owp          \* the validator

owpVars == <<owp>>

OwpInit == owp = NewValidator

OwpStep(d, h) == owp' = Observe(owp, d, h, Limits)

OwpNext == \E d \in Directions, h \in Frames : OwpStep(d, h)

OwpSpec == OwpInit /\ [][OwpNext]_owpVars

-----------------------------------------------------------------------------
(* However the peer ordered its frames, in a live session of observe a       *)
(* request id is active exactly while a request is open and is then the      *)
(* latest id; a read is outstanding only inside an open request; a crossed   *)
(* read is remembered only while cancelling and never together with a read   *)
(* that preceded the cancel; and the late-cancel window is open only while   *)
(* idle after a completed request.  The window observe_cancelling leaves for *)
(* one late read reply exists only in a cancelled session, for the request   *)
(* that was cancelled: a failure or a shutdown closes it.                    *)
FlagsAgree == Consistent(owp) /\ LateWindowOf(owp)

(* The fields have the types of the Rust struct, and charge never lets a     *)
(* counter past its ceiling, so that its unsigned subtraction cannot wrap.   *)
OwpTypeOK == owp \in Validators /\ WithinBudgets(owp, Limits)

\* How a validator's state looks to a client of the session.
PhaseOf(state) ==
    CASE state \in {"AwaitingHello", "AwaitingReady"} -> "opening"
      [] state = "Idle" -> "ready"
      [] state \in {"Enumerating", "Streaming"} -> "busy"
      [] state = "Cancelling" -> "stopping"
      [] state = "Cancelled" -> "stopped"
      [] state = "Closed" -> "closed"
      [] OTHER -> "aborted"

Lifecycle == INSTANCE RequestLifecycle
    WITH phase <- PhaseOf(owp.state),
         current <- IF owp.state = "Failed" THEN 0 ELSE owp.active_request_id,
         latest <- owp.last_request_id

(* The validator implements the request lifecycle: one request at a time,    *)
(* growing ids, one terminal outcome per request, and no request after an    *)
(* acknowledged cancellation.                                                *)
ImplementsLifecycle == Lifecycle!Spec
=============================================================================
