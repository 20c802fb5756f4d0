--------------------------- MODULE ProcessSession ---------------------------
(***************************************************************************)
(* ohl-import's ProcessSession (process_session.rs): the owner of one      *)
(* worker for one session lifetime.  It opens the session, shuts it down   *)
(* in order or escalates, and records one outcome.  Other threads may hold *)
(* the same frame channel and use or abort it at any moment; the frame     *)
(* channel (FrameChannel) admits a transfer until its first failure and    *)
(* then aborts the transport once.                                         *)
(***************************************************************************)
EXTENDS WorkerHandle

CONSTANT Owner          \* the thread that owns the ProcessSession

ASSUME OwnerAssumption == Owner \in Threads

VARIABLES
    process,       \* state, termination, and what the owner is doing
    session,       \* the ParserSession: "None", "Live", "Lost" or "Closed"
    channel,       \* FrameChannel: not created, usable, or poisoned
    escalations,   \* history: calls of terminate_and_wait by the owner
    handle         \* the last WorkerHandle: "Held", "Dropping" or "Gone"

sessionVars == <<process, session, channel, escalations, handle>>
vars == <<handleVars, sessionVars>>

ProcessStates == {"Idle", "Open", "Closed", "Terminated"}
Tasks == {"Nothing", "Handshake", "Session", "Shutdown", "Close", "Wait", "Escalate",
          "Terminate", "Gone"}
IsTerminal == process.state \in {"Closed", "Terminated"}

Init ==
    /\ HandleInit
    /\ process = [state |-> "Idle", termination |-> "None", doing |-> "Nothing"]
    /\ session = "None"
    /\ channel = "None"
    /\ escalations = 0
    /\ handle = "Held"

nativeVars == <<mutex, aborted, abort_pending, cancellation, token, result, worker, child,
                abortReturned>>

-----------------------------------------------------------------------------
Doing(task) == Resting(Owner) /\ process.doing = task
Then(task) == process' = [process EXCEPT !.doing = task]

(* The frame channel fails: the first failure aborts the transport. *)
PoisonChannel(t) ==
    IF channel = "Poisoned" THEN UNCHANGED <<call, channel>>
    ELSE channel' = "Poisoned" /\ Call(t, "Abort")

(* open_with_ops: exists once.  The handshake is a run of transfers. *)
Open ==
    /\ Doing("Nothing") /\ process.state = "Idle" /\ channel = "None"
    /\ channel' = "Usable"
    /\ Call(Owner, "Transfer")
    /\ Then("Handshake")
    /\ UNCHANGED <<nativeVars, session, escalations, handle>>

(* The handshake goes on, succeeds, or fails: a frame that is refused, an    *)
(* I/O error or a session that cannot be composed.  Every failure escalates. *)
HandshakeReturns ==
    /\ Doing("Handshake")
    /\ \/ /\ result[Owner] = "Ok" /\ channel = "Usable"
          /\ Call(Owner, "Transfer")
          /\ UNCHANGED <<process, session, channel>>
       \/ /\ result[Owner] = "Ok" /\ channel = "Usable"
          /\ process' = [process EXCEPT !.state = "Open", !.doing = "Nothing"]
          /\ session' = "Live"
          /\ UNCHANGED <<call, channel>>
       \/ PoisonChannel(Owner) /\ Then("Escalate") /\ UNCHANGED session
    /\ UNCHANGED <<nativeVars, escalations, handle>>

(* Any call of the open session: one transfer, refused at once by a channel  *)
(* that is poisoned.                                                         *)
UseSession ==
    /\ Doing("Nothing") /\ session = "Live"
    /\ IF channel = "Poisoned"
       THEN session' = "Lost" /\ UNCHANGED <<call, process>>
       ELSE Call(Owner, "Transfer") /\ Then("Session") /\ UNCHANGED session
    /\ UNCHANGED <<nativeVars, channel, escalations, handle>>

(* A failed transfer, or a frame the session refuses, retires the session. *)
SessionReturns ==
    /\ Doing("Session")
    /\ Then("Nothing")
    /\ \/ result[Owner] = "Ok" /\ UNCHANGED <<call, channel, session>>
       \/ session' = "Lost" /\ PoisonChannel(Owner)
    /\ UNCHANGED <<nativeVars, escalations, handle>>

\* A live session is dropped; it outlives its owner if the caller kept it.
DropSession ==
    /\ Doing("Nothing") \/ Doing("Gone")
    /\ session = "Live"
    /\ session' = "Lost"
    /\ PoisonChannel(Owner)
    /\ UNCHANGED <<nativeVars, process, escalations, handle>>

(* orderly_shutdown of an open process: shutdown is sent, the channel closed *)
(* and the child waited for.  Whatever fails on the way escalates.           *)
OrderlyShutdown ==
    /\ Doing("Nothing") /\ process.state = "Open" /\ session = "Live"
    /\ IF channel = "Poisoned"
       THEN session' = "Lost" /\ Then("Escalate") /\ UNCHANGED call
       ELSE Call(Owner, "Transfer") /\ Then("Shutdown") /\ UNCHANGED session
    /\ UNCHANGED <<nativeVars, channel, escalations, handle>>

ShutdownSent ==
    /\ Doing("Shutdown")
    /\ \/ /\ result[Owner] = "Ok"
          /\ session' = "Closed"
          /\ Call(Owner, "Close") /\ Then("Close")
          /\ UNCHANGED channel
       \/ session' = "Lost" /\ PoisonChannel(Owner) /\ Then("Escalate")
    /\ UNCHANGED <<nativeVars, escalations, handle>>

WaitForExit ==
    /\ Doing("Close")
    /\ Call(Owner, "Wait") /\ Then("Wait")
    /\ UNCHANGED <<nativeVars, session, channel, escalations, handle>>

(* Mutant: a wait that timed out counts as an exit. *)
ExitWaitedTrusting ==
    /\ Doing("Wait")
    /\ process' = [state |-> "Closed", termination |-> result[Owner], doing |-> "Nothing"]
    /\ UNCHANGED <<nativeVars, call, session, channel, escalations, handle>>

ExitWaited ==
    /\ Doing("Wait")
    /\ IF result[Owner] \in {"Exited", "Terminated"}
       THEN process' = [state |-> "Closed", termination |-> result[Owner], doing |-> "Nothing"]
       ELSE Then("Escalate")
    /\ UNCHANGED <<nativeVars, call, session, channel, escalations, handle>>

\* terminate, abandon, finish and Drop: each ends in terminate_once.
EndLifetime ==
    /\ Doing("Nothing")
    /\ Then("Escalate")
    /\ UNCHANGED <<nativeVars, call, session, channel, escalations, handle>>

(* terminate_once: an outcome that is recorded is returned as it is. *)
TerminateOnce ==
    /\ Doing("Escalate")
    /\ \/ process.termination # "None" /\ Then("Nothing") /\ UNCHANGED <<call, escalations>>
       \/ /\ process.termination = "None"
          /\ process' = [process EXCEPT !.state = "Terminated", !.doing = "Terminate"]
          /\ Call(Owner, "Terminate")
          /\ escalations' = escalations + 1
    /\ UNCHANGED <<nativeVars, session, channel, handle>>

Escalated ==
    /\ Doing("Terminate")
    /\ process' = [process EXCEPT !.termination = result[Owner], !.doing = "Nothing"]
    /\ UNCHANGED <<nativeVars, call, session, channel, escalations, handle>>

\* The owner is gone; Drop has ended a lifetime that was not terminal.
DropProcess ==
    /\ Doing("Nothing") /\ IsTerminal
    /\ Then("Gone")
    /\ UNCHANGED <<nativeVars, call, session, channel, escalations, handle>>

-----------------------------------------------------------------------------
(* The other holders of the frame channel. *)
OtherTransfers(t) ==
    /\ t # Owner /\ Resting(t) /\ channel = "Usable" /\ result[t] \notin IoErrors
    /\ Call(t, "Transfer")
    /\ UNCHANGED <<nativeVars, sessionVars>>

\* A failed transfer of theirs, or FrameChannel::abort.
OtherFails(t) ==
    /\ t # Owner /\ Resting(t) /\ channel = "Usable"
    /\ PoisonChannel(t)
    /\ UNCHANGED <<nativeVars, process, session, escalations, handle>>

(* Mutant: a recorded outcome is taken for a reaped child. *)
DropHandleRecorded ==
    /\ handle = "Held" /\ process.doing = "Gone" /\ session # "Live"
    /\ \A t \in Threads : Resting(t)
    /\ IF process.termination # "None"
       THEN handle' = "Gone" /\ UNCHANGED worker
       ELSE handle' = "Dropping" /\ worker' \in RequestTermination(worker)
    /\ UNCHANGED <<mutex, aborted, abort_pending, cancellation, token, call, result, child,
                   abortReturned, process, session, channel, escalations>>

(* The last holder lets go: IsolatedWorker and Backend kill and reap a child *)
(* whose exit was never cached.                                              *)
DropHandle ==
    /\ handle = "Held" /\ process.doing = "Gone" /\ session # "Live"
    /\ \A t \in Threads : Resting(t)
    /\ IF worker.cached_exit # "None"
       THEN handle' = "Gone" /\ UNCHANGED worker
       ELSE handle' = "Dropping" /\ worker' \in RequestTermination(worker)
    /\ UNCHANGED <<mutex, aborted, abort_pending, cancellation, token, call, result, child,
                   abortReturned, process, session, channel, escalations>>

\* kill_and_reap waits without a deadline.
DropReaps ==
    /\ handle = "Dropping" /\ child = "Dead"
    /\ handle' = "Gone"
    /\ child' = "Reaped"
    /\ UNCHANGED <<mutex, aborted, abort_pending, cancellation, token, call, result, worker,
                   abortReturned, process, session, channel, escalations>>

-----------------------------------------------------------------------------
OwnerReturns ==
    \/ HandshakeReturns \/ SessionReturns \/ ShutdownSent \/ WaitForExit \/ ExitWaited
    \/ TerminateOnce \/ Escalated

Alive == handle = "Held"

Next ==
    \/ Alive /\ (Open \/ UseSession \/ DropSession \/ OrderlyShutdown \/ EndLifetime
                   \/ DropProcess \/ OwnerReturns)
    \/ Alive /\ \E t \in Threads : OtherTransfers(t) \/ OtherFails(t)
    \/ \E t \in Threads : (Continue(t) \/ TransferExpires(t)) /\ UNCHANGED sessionVars
    \/ Alive /\ SignalToken /\ UNCHANGED sessionVars
    \/ ChildDies /\ UNCHANGED sessionVars
    \/ DropHandle
    \/ DropReaps

(* Threads keep running and a wait keeps its deadline.  The deadline of a    *)
(* transfer is left out: nothing below may rest on 30 seconds passing.       *)
Fairness ==
    /\ \A t \in Threads : WF_vars(Continue(t) /\ UNCHANGED sessionVars)
    /\ WF_vars(Alive /\ OwnerReturns)

Spec == Init /\ [][Next]_vars /\ Fairness

-----------------------------------------------------------------------------
\* Every variable keeps the range of the field it models.
TypeOK ==
    /\ HandleTypeOK
    /\ process \in [state : ProcessStates, termination : WaitOutcomes \cup {"None"},
                    doing : Tasks]
    /\ session \in {"None", "Live", "Lost", "Closed"}
    /\ channel \in {"None", "Usable", "Poisoned"}
    /\ escalations \in Nat
    /\ handle \in {"Held", "Dropping", "Gone"}

(* However a lifetime ends, and however many of its ends fail, the owner     *)
(* terminates the worker at most once; a lifetime that closed in order was   *)
(* never escalated and its child is reaped.                                  *)
LifetimeEndsOnce ==
    /\ escalations <= 1
    /\ process.state = "Closed" => escalations = 0 /\ child = "Reaped"
    /\ process.termination # "None" => IsTerminal

(* No worker process outlives the last handle on it, even when every         *)
(* earlier termination timed out or failed.                                  *)
NoWorkerLeftBehind == handle = "Gone" => child = "Reaped"

(* An escalation ends, although another thread holds the mutex in a transfer *)
(* that the worker never answers.                                            *)
EscalationEnds == process.doing = "Escalate" ~> process.termination # "None"
=============================================================================
