---------------------------- MODULE WorkerHandle ----------------------------
(***************************************************************************)
(* The native adapter below the frame channel (ohl-import platform.rs over *)
(* ohl-platform isolated_worker): one confined child, its byte channel and *)
(* the mutex that serialises every native call on them.  abort never waits *)
(* for that mutex: it marks the handle, asks the transfer in the kernel to *)
(* stop and leaves the native abort to the next holder if it must.         *)
(*                                                                         *)
(* A transfer is abstracted to its poll loop: bytes arrive or do not.      *)
(***************************************************************************)
EXTENDS Naturals

CONSTANTS Threads,       \* the threads that hold the channel
          Free           \* nobody holds the mutex

ASSUME FreeAssumption == Free \notin Threads

VARIABLES
    mutex,           \* who holds WorkerHandle::worker, or Free
    aborted,         \* WorkerHandle::aborted
    abort_pending,   \* WorkerHandle::abort_pending
    cancellation,    \* WorkerHandle::cancellation has been requested
    token,           \* the caller's CancellationToken is signalled
    call,            \* each thread's operation and where it is in it
    result,          \* what each thread's last operation returned
    worker,          \* the fields of IsolatedWorker and its Backend
    child,           \* the process: "Running", "Dead", or "Reaped"
    abortReturned    \* history: some abort has returned

handleVars == <<mutex, aborted, abort_pending, cancellation, token, call, result,
                worker, child, abortReturned>>

Operations == {"Transfer", "Abort", "Close", "Wait", "Terminate"}
Steps == {"Gate", "Mark", "Cancel", "TryLock", "Defer", "Lock", "Swap", "Transfer", "Poll",
          "Wait", "Abort", "Close", "Terminate", "Reap"}
AtRest == [op |-> "None", at |-> "Rest"]
ExitKinds == {"Clean", "Failed", "Crashed", "ResourceLimit", "Terminated", "Unknown"}
IoErrors == {"IoFailure", "TimedOut", "Cancelled", "PeerClosed", "Aborted"}
WaitOutcomes == {"Exited", "Terminated", "TimedOut", "IoFailure"}

HandleInit ==
    /\ mutex = Free
    /\ aborted = FALSE /\ abort_pending = FALSE /\ cancellation = FALSE
    /\ token = FALSE
    /\ call = [t \in Threads |-> AtRest]
    /\ result = [t \in Threads |-> "None"]
    /\ worker = [closed |-> FALSE, cached_exit |-> "None", kill |-> "None"]
    /\ child = "Running"
    /\ abortReturned = FALSE

-----------------------------------------------------------------------------
At(t, step) == call[t].at = step
Resting(t) == call[t] = AtRest
Goto(t, step) == call' = [call EXCEPT ![t].at = step]
Return(t, r) == call' = [call EXCEPT ![t] = AtRest] /\ result' = [result EXCEPT ![t] = r]
Release(t, r) == Return(t, r) /\ mutex' = Free

(* Mutant: an escalation queues for the mutex before it interrupts anyone. *)
FirstStepQueueing(op) ==
    CASE op = "Transfer" -> "Gate" [] op = "Abort" -> "Mark" [] OTHER -> "Lock"

\* Where an operation starts: what it does before it locks.
FirstStep(op) ==
    CASE op = "Transfer" -> "Gate"
      [] op \in {"Abort", "Terminate"} -> "Mark"
      [] OTHER -> "Lock"

Call(t, op) == call' = [call EXCEPT ![t] = [op |-> op, at |-> FirstStep(op)]]

\* gate: a marked handle and a signalled caller both fail before any lock.
Gate(t) ==
    /\ At(t, "Gate")
    /\ \/ aborted /\ Return(t, "Aborted")
       \/ ~aborted /\ token /\ Return(t, "Cancelled")
       \/ ~aborted /\ ~token /\ Goto(t, "Lock") /\ UNCHANGED result
    /\ UNCHANGED <<mutex, aborted, abort_pending, cancellation, token, worker, child,
                   abortReturned>>

Lock(t) ==
    /\ At(t, "Lock") /\ mutex = Free
    /\ mutex' = t
    /\ Goto(t, "Swap")
    /\ UNCHANGED <<aborted, abort_pending, cancellation, token, result, worker, child,
                   abortReturned>>

\* IsolatedWorker::abort_io: the channel is shut down, for good.
AbortIo(w) == [w EXCEPT !.closed = TRUE]

(* Mutant: a lock that forgets the abort it was asked to do. *)
SwapForgetting(t) ==
    /\ At(t, "Swap")
    /\ abort_pending' = FALSE
    /\ Goto(t, IF call[t].op = "Wait" THEN "Reap" ELSE call[t].op)
    /\ UNCHANGED <<mutex, aborted, cancellation, token, result, worker, child, abortReturned>>

(* The rest of lock: whoever gets the mutex first does the deferred abort. *)
Swap(t) ==
    /\ At(t, "Swap")
    /\ abort_pending' = FALSE
    /\ worker' = IF abort_pending THEN AbortIo(worker) ELSE worker
    /\ Goto(t, IF call[t].op = "Wait" THEN "Reap" ELSE call[t].op)
    /\ UNCHANGED <<mutex, aborted, cancellation, token, result, child, abortReturned>>

-----------------------------------------------------------------------------
\* finish_io on a failure: the channel is shut down before the mutex is released.
FailIo(t, error) ==
    /\ worker' = AbortIo(worker)
    /\ Release(t, IF cancellation THEN "Cancelled" ELSE error)

\* check_io_preconditions: a channel that was shut down starts no transfer.
BeginTransfer(t) ==
    /\ At(t, "Transfer")
    /\ IF worker.closed THEN Release(t, "Aborted")
       ELSE Goto(t, "Poll") /\ UNCHANGED <<mutex, result>>
    /\ UNCHANGED <<aborted, abort_pending, cancellation, token, worker, child, abortReturned>>

(* poll_io_until: the head of the loop, which each slice of 10 ms returns    *)
(* to.  It looks at the handle's own cancellation only.                      *)
Poll(t) ==
    /\ At(t, "Poll")
    /\ IF cancellation THEN FailIo(t, "Cancelled")
       ELSE Goto(t, "Wait") /\ UNCHANGED <<mutex, result, worker>>
    /\ UNCHANGED <<aborted, abort_pending, cancellation, token, child, abortReturned>>

\* The slice ends, with part of the bytes or none.
SliceEnds(t) ==
    /\ At(t, "Wait")
    /\ Goto(t, "Poll")
    /\ UNCHANGED <<mutex, aborted, abort_pending, cancellation, token, result, worker, child,
                   abortReturned>>

TransferEnds(t) ==
    /\ At(t, "Wait")
    /\ \/ Release(t, "Ok") /\ UNCHANGED worker
       \/ \E error \in {"PeerClosed", "IoFailure"} : FailIo(t, error)
    /\ UNCHANGED <<aborted, abort_pending, cancellation, token, child, abortReturned>>

TransferExpires(t) ==
    /\ At(t, "Poll") \/ At(t, "Wait")
    /\ FailIo(t, "TimedOut")
    /\ UNCHANGED <<aborted, abort_pending, cancellation, token, child, abortReturned>>

-----------------------------------------------------------------------------
\* The first store of abort and of terminate_and_wait.
Mark(t) ==
    /\ At(t, "Mark")
    /\ aborted' = TRUE
    /\ Goto(t, "Cancel")
    /\ UNCHANGED <<mutex, abort_pending, cancellation, token, result, worker, child,
                   abortReturned>>

(* Mutant: the transfer in the kernel is not asked to stop. *)
CancelSilently(t) ==
    /\ At(t, "Cancel")
    /\ Goto(t, IF call[t].op = "Abort" THEN "TryLock" ELSE "Lock")
    /\ UNCHANGED <<mutex, aborted, abort_pending, cancellation, token, result, worker, child,
                   abortReturned>>

\* The second: the transfer in the kernel, if any, is asked to stop.
RequestCancellation(t) ==
    /\ At(t, "Cancel")
    /\ cancellation' = TRUE
    /\ Goto(t, IF call[t].op = "Abort" THEN "TryLock" ELSE "Lock")
    /\ UNCHANGED <<mutex, aborted, abort_pending, token, result, worker, child, abortReturned>>

TryLock(t) ==
    /\ At(t, "TryLock")
    /\ \/ mutex = Free /\ mutex' = t /\ Goto(t, "Abort")
       \/ mutex # Free /\ Goto(t, "Defer") /\ UNCHANGED mutex
    /\ UNCHANGED <<aborted, abort_pending, cancellation, token, result, worker, child,
                   abortReturned>>

NativeAbort(t) ==
    /\ At(t, "Abort")
    /\ worker' = AbortIo(worker)
    /\ Release(t, "Ok")
    /\ abortReturned' = TRUE
    /\ UNCHANGED <<aborted, abort_pending, cancellation, token, child>>

\* The holder may have released the mutex since try_lock.
DeferAbort(t) ==
    /\ At(t, "Defer")
    /\ abort_pending' = TRUE
    /\ Return(t, "Ok")
    /\ abortReturned' = TRUE
    /\ UNCHANGED <<mutex, aborted, cancellation, token, worker, child>>

-----------------------------------------------------------------------------
CloseChannel(t) ==
    /\ At(t, "Close")
    /\ worker' = [worker EXCEPT !.closed = TRUE]
    /\ Release(t, "Ok")
    /\ UNCHANGED <<aborted, abort_pending, cancellation, token, child, abortReturned>>

\* map_exit: an exit that could not be classified is not an answer.
MapExit(kind) ==
    CASE kind \in {"Clean", "Failed"} -> "Exited"
      [] kind \in {"Crashed", "ResourceLimit", "Terminated"} -> "Terminated"
      [] OTHER -> "IoFailure"

(* request_termination: SIGKILL is sent once; it can fail, or find the child *)
(* dead already.                                                             *)
RequestTermination(w) ==
    IF w.kill # "None" THEN {[w EXCEPT !.closed = TRUE]}
    ELSE {[w EXCEPT !.closed = TRUE, !.kill = k] : k \in {"Sent", "Failed", "NoProcess"}}

Terminate(t) ==
    /\ At(t, "Terminate")
    /\ \/ /\ worker.cached_exit # "None"
          /\ worker' = AbortIo(worker)
          /\ Release(t, MapExit(worker.cached_exit))
       \/ /\ worker.cached_exit = "None"
          /\ worker' \in RequestTermination(worker)
          /\ Goto(t, "Reap")
          /\ UNCHANGED <<mutex, result>>
    /\ UNCHANGED <<aborted, abort_pending, cancellation, token, child, abortReturned>>

\* Backend::wait and reap, up to the deadline; a reaped child's exit is cached.
Reap(t) ==
    /\ At(t, "Reap")
    /\ \/ /\ worker.cached_exit # "None"
          /\ Release(t, MapExit(worker.cached_exit)) /\ UNCHANGED <<worker, child>>
       \/ /\ worker.cached_exit = "None" /\ child = "Dead"
          /\ \E kind \in ExitKinds :
                /\ worker' = [worker EXCEPT !.cached_exit = kind]
                /\ Release(t, MapExit(kind))
          /\ child' = "Reaped"
       \/ /\ worker.cached_exit = "None"
          /\ worker' \in RequestTermination(worker)
          /\ Release(t, "IoFailure") /\ UNCHANGED child
    /\ UNCHANGED <<aborted, abort_pending, cancellation, token, abortReturned>>

WaitExpires(t) ==
    /\ At(t, "Reap") /\ worker.cached_exit = "None"
    /\ Release(t, IF call[t].op = "Terminate" /\ worker.kill = "Failed" THEN "IoFailure"
                  ELSE "TimedOut")
    /\ UNCHANGED <<aborted, abort_pending, cancellation, token, worker, child, abortReturned>>

-----------------------------------------------------------------------------
SignalToken ==
    /\ ~token
    /\ token' = TRUE
    /\ UNCHANGED <<mutex, aborted, abort_pending, cancellation, call, result, worker, child,
                   abortReturned>>

\* The confined process exits, crashes or is killed.
ChildDies ==
    /\ child = "Running"
    /\ child' = "Dead"
    /\ UNCHANGED <<mutex, aborted, abort_pending, cancellation, token, call, result, worker,
                   abortReturned>>

\* What a thread goes on to do by itself; its transfer's deadline is apart.
Continue(t) ==
    \/ Gate(t) \/ Lock(t) \/ Swap(t) \/ BeginTransfer(t) \/ Poll(t)
    \/ SliceEnds(t) \/ TransferEnds(t)
    \/ Mark(t) \/ RequestCancellation(t) \/ TryLock(t) \/ NativeAbort(t) \/ DeferAbort(t)
    \/ CloseChannel(t) \/ Terminate(t) \/ Reap(t) \/ WaitExpires(t)

HandleTypeOK ==
    /\ mutex \in Threads \cup {Free}
    /\ aborted \in BOOLEAN /\ abort_pending \in BOOLEAN /\ cancellation \in BOOLEAN
    /\ token \in BOOLEAN /\ abortReturned \in BOOLEAN
    /\ call \in [Threads -> [op : Operations, at : Steps] \cup {AtRest}]
    /\ result \in [Threads -> IoErrors \cup WaitOutcomes \cup {"None", "Ok"}]
    /\ worker \in [closed : BOOLEAN, cached_exit : ExitKinds \cup {"None"},
                   kill : {"None", "Sent", "Failed", "NoProcess"}]
    /\ child \in {"Running", "Dead", "Reaped"}

InKernel(t) == At(t, "Poll") \/ At(t, "Wait")

(* An abort that has returned is done or still owed: no interleaving of      *)
(* try_lock, the holder's release and the deferred mark loses it.            *)
AbortIsKept == abortReturned => worker.closed \/ abort_pending

(* A transfer in the kernel ends after an abort, whatever the peer does and  *)
(* long before its deadline.                                                 *)
AbortWakes == \A t \in Threads : (abortReturned /\ InKernel(t)) ~> ~InKernel(t)
=============================================================================
