------------------------ MODULE ProcessSessionProofs ------------------------
(***************************************************************************)
(* The worker handle and its owner, proved for any number of threads: an   *)
(* abort is never lost, a lifetime ends once, and no worker outlives the   *)
(* last handle on it.                                                      *)
(***************************************************************************)
EXTENDS ProcessSession, TLAPS

(* The steps of each operation: what a thread at a step may be doing. *)
StepsOf(op) ==
    CASE op = "Transfer" -> {"Gate", "Lock", "Swap", "Transfer", "Poll", "Wait"}
      [] op = "Abort" -> {"Mark", "Cancel", "TryLock", "Defer", "Abort"}
      [] op = "Close" -> {"Lock", "Swap", "Close"}
      [] op = "Wait" -> {"Lock", "Swap", "Reap"}
      [] OTHER -> {"Mark", "Cancel", "Lock", "Swap", "Terminate", "Reap"}

InOperation(t) == call[t] # AtRest => call[t].at \in StepsOf(call[t].op)

Exits == {"Exited", "Terminated"}

(* An exit is known, to the handle or to a caller, only of a reaped child. *)
ExitIsReaped ==
    /\ worker.cached_exit # "None" => child = "Reaped"
    /\ \A t \in Threads : result[t] \in Exits => child = "Reaped"

HandleInv ==
    /\ HandleTypeOK
    /\ \A t \in Threads : InOperation(t)
    /\ AbortIsKept
    /\ ExitIsReaped

(* The owner's place in its lifetime: which states and tasks go together,    *)
(* when it has escalated, and what a returned escalation left behind.        *)
OwnerInv ==
    /\ process.state \in {"Idle", "Open"} =>
           escalations = 0 /\ process.termination = "None"
    /\ process.state = "Closed" =>
           escalations = 0 /\ process.termination # "None" /\ child = "Reaped"
    /\ process.state = "Terminated" =>
           escalations = 1 /\ (process.termination # "None" \/ process.doing = "Terminate")
    /\ process.doing = "Handshake" => process.state = "Idle"
    /\ process.doing \in {"Shutdown", "Close", "Wait"} => process.state = "Open"
    /\ process.doing = "Terminate" =>
           /\ process.state = "Terminated"
           /\ process.termination = "None"
           /\ IF Resting(Owner) THEN result[Owner] \in WaitOutcomes
              ELSE call[Owner].op = "Terminate"

Inv ==
    /\ HandleInv
    /\ TypeOK
    /\ OwnerInv
    /\ NoWorkerLeftBehind

-----------------------------------------------------------------------------
(* What a step of thread t may do to the calls: its own goes on or returns,  *)
(* and an escalation returns only what waiting for the child can return.     *)
Advances(t) ==
    /\ \A u \in Threads \ {t} : call'[u] = call[u] /\ result'[u] = result[u]
    /\ \/ call'[t] # AtRest /\ call'[t].op = call[t].op
       \/ call'[t] = AtRest /\ (call[t].op = "Terminate" => result'[t] \in WaitOutcomes)
    /\ call[t] # AtRest

Results == IoErrors \cup WaitOutcomes \cup {"None", "Ok"}
Calls == [op : Operations, at : Steps]

(* A thread at a step is inside an operation that has that step. *)
LEMMA AtStep ==
    ASSUME HandleInv, NEW t \in Threads, NEW step \in Steps, At(t, step)
    PROVE  call[t] \in Calls /\ step \in StepsOf(call[t].op) /\ call[t].at = step
<1>1. call[t] \in Calls \cup {AtRest}
  BY DEF HandleInv, HandleTypeOK, Calls
<1>2. AtRest.at = "Rest" /\ "Rest" \notin Steps
  BY DEF AtRest, Steps
<1>3. call[t] # AtRest
  BY <1>2 DEF At
<1> QED BY <1>1, <1>3 DEF HandleInv, InOperation, At

(* A call that moves on inside its operation. *)
LEMMA GotoAdvances ==
    ASSUME HandleInv, NEW t \in Threads, NEW step \in Steps, call[t] \in Calls,
           step \in StepsOf(call[t].op), Goto(t, step), UNCHANGED result
    PROVE  /\ call' \in [Threads -> Calls \cup {AtRest}]
           /\ \A u \in Threads : InOperation(u)'
           /\ Advances(t)
<1>1. call \in [Threads -> Calls \cup {AtRest}]
  BY DEF HandleInv, HandleTypeOK, Calls
<1>2. /\ call' = [call EXCEPT ![t].at = step]
      /\ call'[t] = [call[t] EXCEPT !.at = step]
  BY <1>1 DEF Goto
<1>3. [call[t] EXCEPT !.at = step] \in Calls
  BY DEF Calls
<1>4. AtRest \notin Calls
  BY DEF AtRest, Calls, Operations
<1>5. /\ call'[t] # AtRest /\ call'[t].op = call[t].op /\ call'[t].at = step
      /\ call[t] # AtRest
  BY <1>2, <1>3, <1>4 DEF Calls
<1>6. \A u \in Threads \ {t} : call'[u] = call[u]
  BY <1>1, <1>2
<1>7. \A u \in Threads : InOperation(u)'
  BY <1>5, <1>6 DEF HandleInv, InOperation
<1>8. call' \in [Threads -> Calls \cup {AtRest}]
  BY <1>1, <1>2, <1>3
<1> QED BY <1>5, <1>6, <1>7, <1>8 DEF Advances

(* A call that returns. *)
LEMMA ReturnAdvances ==
    ASSUME HandleInv, NEW t \in Threads, NEW r \in Results, call[t] \in Calls,
           Return(t, r), call[t].op = "Terminate" => r \in WaitOutcomes
    PROVE  /\ call' \in [Threads -> Calls \cup {AtRest}]
           /\ result' \in [Threads -> Results]
           /\ result'[t] = r
           /\ \A u \in Threads : InOperation(u)'
           /\ Advances(t)
<1>1. /\ call \in [Threads -> Calls \cup {AtRest}]
      /\ result \in [Threads -> Results]
  BY DEF HandleInv, HandleTypeOK, Calls, Results
<1>2. /\ call' = [call EXCEPT ![t] = AtRest]
      /\ result' = [result EXCEPT ![t] = r]
  BY DEF Return
<1>3. /\ call'[t] = AtRest /\ result'[t] = r
      /\ \A u \in Threads \ {t} : call'[u] = call[u] /\ result'[u] = result[u]
  BY <1>1, <1>2
<1>4. AtRest \notin Calls
  BY DEF AtRest, Calls, Operations
<1>5. \A u \in Threads : InOperation(u)'
  BY <1>3 DEF HandleInv, InOperation
<1> QED BY <1>1, <1>2, <1>3, <1>4, <1>5 DEF Advances

(* A move changes no result and keeps whatever else the invariant says.      *)
LEMMA GotoKeepsInv ==
    ASSUME HandleInv, NEW t \in Threads, NEW step \in Steps, call[t] \in Calls,
           step \in StepsOf(call[t].op), Goto(t, step),
           UNCHANGED <<result, worker, child, abort_pending, abortReturned>>,
           mutex' \in Threads \cup {Free}, aborted' \in BOOLEAN, cancellation' \in BOOLEAN,
           token' \in BOOLEAN
    PROVE  HandleInv' /\ Advances(t)
<1>1. /\ call' \in [Threads -> Calls \cup {AtRest}]
      /\ \A u \in Threads : InOperation(u)'
      /\ Advances(t)
  BY GotoAdvances
<1>2. HandleTypeOK'
  BY <1>1 DEF HandleInv, HandleTypeOK, Calls
<1> QED BY <1>1, <1>2 DEF HandleInv, AbortIsKept, ExitIsReaped

(* A return that says nothing of an exit keeps the invariant when the        *)
(* channel is left as it is or shut down.                                    *)
LEMMA ReturnKeepsInv ==
    ASSUME HandleInv, NEW t \in Threads, NEW r \in Results \ Exits, call[t] \in Calls,
           Return(t, r), call[t].op = "Terminate" => r \in WaitOutcomes,
           worker' \in {worker, AbortIo(worker)}, UNCHANGED <<child, aborted, cancellation, token>>,
           mutex' \in Threads \cup {Free}, abort_pending' \in BOOLEAN,
           abortReturned' \in BOOLEAN, AbortIsKept'
    PROVE  HandleInv' /\ Advances(t)
<1>1. /\ call' \in [Threads -> Calls \cup {AtRest}]
      /\ result' \in [Threads -> Results]
      /\ result'[t] = r
      /\ \A u \in Threads : InOperation(u)'
      /\ Advances(t)
  BY ReturnAdvances
<1>2. /\ worker'.cached_exit = worker.cached_exit
      /\ worker' \in [closed : BOOLEAN, cached_exit : ExitKinds \cup {"None"},
                      kill : {"None", "Sent", "Failed", "NoProcess"}]
  BY DEF AbortIo, HandleInv, HandleTypeOK
<1>3. HandleTypeOK'
  BY <1>1, <1>2 DEF HandleInv, HandleTypeOK, Calls, Results
<1>4. ExitIsReaped'
  BY <1>1, <1>2 DEF HandleInv, ExitIsReaped, Advances
<1> QED BY <1>1, <1>3, <1>4 DEF HandleInv

LEMMA AbortIoCloses ==
    ASSUME HandleInv PROVE AbortIo(worker).closed = TRUE
BY DEF AbortIo, HandleInv, HandleTypeOK

LEMMA GateKeepsInv ==
    ASSUME HandleInv, NEW t \in Threads, Gate(t) PROVE HandleInv' /\ Advances(t)
<1>1. call[t] \in Calls /\ "Gate" \in StepsOf(call[t].op)
  BY AtStep DEF Gate, Steps
<1>2. call[t].op = "Transfer"
  BY <1>1 DEF StepsOf, Calls, Operations
<1>3. CASE Goto(t, "Lock") /\ UNCHANGED result
  BY <1>1, <1>2, <1>3, GotoKeepsInv DEF Gate, StepsOf, Steps, HandleInv, HandleTypeOK
<1>4. ASSUME NEW r \in {"Aborted", "Cancelled"}, Return(t, r) PROVE HandleInv' /\ Advances(t)
  <2>1. AbortIsKept'
    BY DEF Gate, HandleInv, AbortIsKept
  <2>2. r \in Results \ Exits
    BY DEF Results, Exits, IoErrors, WaitOutcomes
  <2> QED BY <1>1, <1>2, <1>4, <2>1, <2>2, ReturnKeepsInv DEF Gate, HandleInv, HandleTypeOK
<1> QED BY <1>3, <1>4 DEF Gate

LEMMA LockKeepsInv ==
    ASSUME HandleInv, NEW t \in Threads, Lock(t) PROVE HandleInv' /\ Advances(t)
<1>1. call[t] \in Calls /\ "Lock" \in StepsOf(call[t].op)
  BY AtStep DEF Lock, Steps
<1>2. "Swap" \in StepsOf(call[t].op)
  BY <1>1 DEF StepsOf, Calls, Operations
<1> QED BY <1>1, <1>2, GotoKeepsInv DEF Lock, Steps, HandleInv, HandleTypeOK

(* Whoever gets the mutex does the abort that is owed. *)
LEMMA SwapKeepsInv ==
    ASSUME HandleInv, NEW t \in Threads, Swap(t) PROVE HandleInv' /\ Advances(t)
<1> DEFINE step == IF call[t].op = "Wait" THEN "Reap" ELSE call[t].op
<1>1. call[t] \in Calls /\ "Swap" \in StepsOf(call[t].op)
  BY AtStep DEF Swap, Steps
<1>2. step \in Steps /\ step \in StepsOf(call[t].op)
  BY <1>1 DEF StepsOf, Calls, Operations, Steps
<1>3. Goto(t, step) /\ UNCHANGED result
  BY DEF Swap
<1> HIDE DEF step
<1>4. /\ call' \in [Threads -> Calls \cup {AtRest}]
      /\ \A u \in Threads : InOperation(u)'
      /\ Advances(t)
  BY <1>1, <1>2, <1>3, GotoAdvances
<1>5. /\ worker' \in [closed : BOOLEAN, cached_exit : ExitKinds \cup {"None"},
                      kill : {"None", "Sent", "Failed", "NoProcess"}]
      /\ worker'.cached_exit = worker.cached_exit
      /\ worker.closed \/ abort_pending => worker'.closed
  BY DEF Swap, AbortIo, HandleInv, HandleTypeOK
<1>6. HandleTypeOK'
  BY <1>4, <1>5 DEF Swap, HandleInv, HandleTypeOK, Calls
<1> QED BY <1>4, <1>5, <1>6 DEF Swap, HandleInv, AbortIsKept, ExitIsReaped

-----------------------------------------------------------------------------
(* A failed transfer shuts the channel down before it releases the mutex. *)
LEMMA FailIoKeepsInv ==
    ASSUME HandleInv, NEW t \in Threads, NEW error \in IoErrors, call[t] \in Calls,
           call[t].op = "Transfer", FailIo(t, error),
           UNCHANGED <<aborted, abort_pending, cancellation, token, child, abortReturned>>
    PROVE  HandleInv' /\ Advances(t)
<1> DEFINE r == IF cancellation THEN "Cancelled" ELSE error
<1>1. r \in Results \ Exits
  BY DEF Results, Exits, IoErrors, WaitOutcomes
<1>2. Return(t, r) /\ mutex' = Free /\ worker' = AbortIo(worker)
  BY DEF FailIo, Release
<1> HIDE DEF r
<1>3. AbortIsKept'
  BY <1>2, AbortIoCloses DEF AbortIsKept
<1> QED BY <1>1, <1>2, <1>3, ReturnKeepsInv DEF HandleInv, HandleTypeOK

(* The steps of a transfer, from the check of the channel to its end. *)
LEMMA TransferKeepsInv ==
    ASSUME HandleInv, NEW t \in Threads,
           \/ BeginTransfer(t) \/ Poll(t) \/ SliceEnds(t) \/ TransferEnds(t)
           \/ TransferExpires(t)
    PROVE  HandleInv' /\ Advances(t)
<1>1. ASSUME NEW step \in {"Transfer", "Poll", "Wait"}, At(t, step)
      PROVE  call[t] \in Calls /\ call[t].op = "Transfer"
  <2>1. call[t] \in Calls /\ step \in StepsOf(call[t].op)
    BY <1>1, AtStep DEF Steps
  <2> QED BY <2>1 DEF StepsOf, Calls, Operations
<1>2. ASSUME call[t] \in Calls, call[t].op = "Transfer", NEW step \in {"Poll", "Wait"},
             Goto(t, step), UNCHANGED <<mutex, aborted, abort_pending, cancellation, token,
                                        result, worker, child, abortReturned>>
      PROVE  HandleInv' /\ Advances(t)
  <2>1. step \in Steps /\ step \in StepsOf(call[t].op)
    BY <1>2 DEF Steps, StepsOf
  <2> QED BY <1>2, <2>1, GotoKeepsInv DEF HandleInv, HandleTypeOK
<1>3. ASSUME call[t] \in Calls, call[t].op = "Transfer", NEW r \in {"Aborted", "Ok"},
             Release(t, r), UNCHANGED <<aborted, abort_pending, cancellation, token,
                                        worker, child, abortReturned>>
      PROVE  HandleInv' /\ Advances(t)
  <2>1. r \in Results \ Exits
    BY DEF Results, Exits, IoErrors, WaitOutcomes
  <2>2. AbortIsKept'
    BY <1>3 DEF HandleInv, AbortIsKept
  <2> QED BY <1>3, <2>1, <2>2, ReturnKeepsInv DEF Release, HandleInv, HandleTypeOK
<1>4. CASE BeginTransfer(t)
  BY <1>1, <1>2, <1>3, <1>4 DEF BeginTransfer
<1>5. CASE Poll(t)
  <2>1. call[t] \in Calls /\ call[t].op = "Transfer"
    BY <1>1, <1>5 DEF Poll
  <2>2. CASE FailIo(t, "Cancelled")
    BY <1>5, <2>1, <2>2, FailIoKeepsInv DEF Poll, IoErrors
  <2>3. CASE Goto(t, "Wait") /\ UNCHANGED <<mutex, result, worker>>
    BY <1>2, <1>5, <2>1, <2>3 DEF Poll
  <2> QED BY <1>5, <2>2, <2>3 DEF Poll
<1>6. CASE SliceEnds(t)
  BY <1>1, <1>2, <1>6 DEF SliceEnds
<1>7. CASE TransferEnds(t)
  <2>1. call[t] \in Calls /\ call[t].op = "Transfer"
    BY <1>1, <1>7 DEF TransferEnds
  <2>2. ASSUME NEW error \in {"PeerClosed", "IoFailure"}, FailIo(t, error)
        PROVE  HandleInv' /\ Advances(t)
    BY <1>7, <2>1, <2>2, FailIoKeepsInv DEF TransferEnds, IoErrors
  <2>3. CASE Release(t, "Ok") /\ UNCHANGED worker
    BY <1>3, <1>7, <2>1, <2>3 DEF TransferEnds
  <2> QED BY <1>7, <2>2, <2>3 DEF TransferEnds
<1>8. CASE TransferExpires(t)
  <2>1. call[t] \in Calls /\ call[t].op = "Transfer"
    BY <1>1, <1>8 DEF TransferExpires
  <2> QED BY <1>8, <2>1, FailIoKeepsInv DEF TransferExpires, IoErrors
<1> QED BY <1>4, <1>5, <1>6, <1>7, <1>8

(* The two stores of abort and of terminate_and_wait, and the try_lock. *)
LEMMA MarkKeepsInv ==
    ASSUME HandleInv, NEW t \in Threads, Mark(t) \/ RequestCancellation(t) \/ TryLock(t)
    PROVE  HandleInv' /\ Advances(t)
<1>1. CASE Mark(t)
  <2>1. call[t] \in Calls /\ "Mark" \in StepsOf(call[t].op)
    BY <1>1, AtStep DEF Mark, Steps
  <2>2. "Cancel" \in StepsOf(call[t].op)
    BY <2>1 DEF StepsOf, Calls, Operations
  <2> QED BY <1>1, <2>1, <2>2, GotoKeepsInv DEF Mark, Steps, HandleInv, HandleTypeOK
<1>2. CASE RequestCancellation(t)
  <2> DEFINE step == IF call[t].op = "Abort" THEN "TryLock" ELSE "Lock"
  <2>1. call[t] \in Calls /\ "Cancel" \in StepsOf(call[t].op)
    BY <1>2, AtStep DEF RequestCancellation, Steps
  <2>2. step \in Steps /\ step \in StepsOf(call[t].op)
    BY <2>1 DEF StepsOf, Calls, Operations, Steps
  <2>3. Goto(t, step)
    BY <1>2 DEF RequestCancellation
  <2> HIDE DEF step
  <2> QED BY <1>2, <2>1, <2>2, <2>3, GotoKeepsInv
          DEF RequestCancellation, HandleInv, HandleTypeOK
<1>3. CASE TryLock(t)
  <2>1. call[t] \in Calls /\ "TryLock" \in StepsOf(call[t].op)
    BY <1>3, AtStep DEF TryLock, Steps
  <2>2. "Abort" \in StepsOf(call[t].op) /\ "Defer" \in StepsOf(call[t].op)
    BY <2>1 DEF StepsOf, Calls, Operations
  <2> QED BY <1>3, <2>1, <2>2, GotoKeepsInv DEF TryLock, Steps, HandleInv, HandleTypeOK
<1> QED BY <1>1, <1>2, <1>3

(* An abort returns with the channel shut down, or with the abort owed. *)
LEMMA AbortKeepsInv ==
    ASSUME HandleInv, NEW t \in Threads, NativeAbort(t) \/ DeferAbort(t) \/ CloseChannel(t)
    PROVE  HandleInv' /\ Advances(t)
<1>0. "Ok" \in Results \ Exits
  BY DEF Results, Exits, IoErrors, WaitOutcomes
<1>1. CASE NativeAbort(t)
  <2>1. call[t] \in Calls /\ "Abort" \in StepsOf(call[t].op)
    BY <1>1, AtStep DEF NativeAbort, Steps
  <2>2. call[t].op = "Abort"
    BY <2>1 DEF StepsOf, Calls, Operations
  <2>3. AbortIsKept'
    BY <1>1, AbortIoCloses DEF NativeAbort, AbortIsKept
  <2> QED BY <1>0, <1>1, <2>1, <2>2, <2>3, ReturnKeepsInv
          DEF NativeAbort, Release, HandleInv, HandleTypeOK
<1>2. CASE DeferAbort(t)
  <2>1. call[t] \in Calls /\ "Defer" \in StepsOf(call[t].op)
    BY <1>2, AtStep DEF DeferAbort, Steps
  <2>2. call[t].op = "Abort"
    BY <2>1 DEF StepsOf, Calls, Operations
  <2>3. AbortIsKept'
    BY <1>2 DEF DeferAbort, AbortIsKept
  <2> QED BY <1>0, <1>2, <2>1, <2>2, <2>3, ReturnKeepsInv
          DEF DeferAbort, HandleInv, HandleTypeOK
<1>3. CASE CloseChannel(t)
  <2>1. call[t] \in Calls /\ "Close" \in StepsOf(call[t].op)
    BY <1>3, AtStep DEF CloseChannel, Steps
  <2>2. call[t].op = "Close"
    BY <2>1 DEF StepsOf, Calls, Operations
  <2>3. worker' = AbortIo(worker)
    BY <1>3 DEF CloseChannel, AbortIo
  <2>4. AbortIsKept'
    BY <2>3, AbortIoCloses DEF AbortIsKept
  <2> QED BY <1>0, <1>3, <2>1, <2>2, <2>3, <2>4, ReturnKeepsInv
          DEF CloseChannel, Release, HandleInv, HandleTypeOK
<1> QED BY <1>1, <1>2, <1>3

-----------------------------------------------------------------------------
WorkerFields ==
    [closed : BOOLEAN, cached_exit : ExitKinds \cup {"None"},
     kill : {"None", "Sent", "Failed", "NoProcess"}]

(* A termination request shuts the channel down and says nothing of an exit. *)
LEMMA TerminationRequest ==
    ASSUME worker \in WorkerFields, NEW w \in RequestTermination(worker)
    PROVE  w \in WorkerFields /\ w.closed /\ w.cached_exit = worker.cached_exit
<1>1. CASE worker.kill # "None"
  BY <1>1 DEF RequestTermination, WorkerFields
<1>2. CASE worker.kill = "None"
  <2>1. PICK k \in {"Sent", "Failed", "NoProcess"} :
            w = [worker EXCEPT !.closed = TRUE, !.kill = k]
    BY <1>2 DEF RequestTermination
  <2> QED BY <2>1 DEF WorkerFields
<1> QED BY <1>1, <1>2

(* What map_exit answers is a wait outcome; it is an exit only of a child    *)
(* whose exit was classified.                                                *)
LEMMA MapExitType ==
    ASSUME NEW kind \in ExitKinds PROVE MapExit(kind) \in WaitOutcomes
BY DEF MapExit, WaitOutcomes, ExitKinds

(* A call that returns while the worker's fields change. *)
LEMMA ReleaseKeepsInv ==
    ASSUME HandleInv, NEW t \in Threads, NEW r \in WaitOutcomes, call[t] \in Calls,
           Release(t, r), worker' \in WorkerFields, child' \in {child, "Reaped"},
           UNCHANGED <<aborted, abort_pending, cancellation, token, abortReturned>>,
           worker.closed => worker'.closed,
           worker'.cached_exit # "None" => child' = "Reaped",
           r \in Exits => child' = "Reaped"
    PROVE  HandleInv' /\ Advances(t)
<1>0. r \in Results
  BY DEF Results
<1>1. /\ call' \in [Threads -> Calls \cup {AtRest}]
      /\ result' \in [Threads -> Results]
      /\ result'[t] = r
      /\ \A u \in Threads : InOperation(u)'
      /\ Advances(t)
  BY <1>0, ReturnAdvances DEF Release
<1>2. HandleTypeOK'
  BY <1>1 DEF Release, HandleInv, HandleTypeOK, Calls, Results, WorkerFields
<1>3. ExitIsReaped'
  BY <1>1 DEF HandleInv, ExitIsReaped, Advances
<1> QED BY <1>1, <1>2, <1>3 DEF HandleInv, AbortIsKept

LEMMA TerminateKeepsInv ==
    ASSUME HandleInv, NEW t \in Threads, Terminate(t) PROVE HandleInv' /\ Advances(t)
<1>0. call[t] \in Calls /\ "Terminate" \in StepsOf(call[t].op)
  BY AtStep DEF Terminate, Steps
<1>1. worker \in WorkerFields
  BY DEF HandleInv, HandleTypeOK, WorkerFields
<1>2. CASE worker.cached_exit # "None" /\ worker' = AbortIo(worker)
           /\ Release(t, MapExit(worker.cached_exit))
  <2>1. MapExit(worker.cached_exit) \in WaitOutcomes
    BY <1>1, <1>2, MapExitType DEF WorkerFields
  <2>2. worker' \in WorkerFields /\ worker'.closed
    BY <1>1, <1>2 DEF AbortIo, WorkerFields
  <2>3. child = "Reaped"
    BY <1>2 DEF HandleInv, ExitIsReaped
  <2> QED BY <1>0, <1>2, <2>1, <2>2, <2>3, ReleaseKeepsInv DEF Terminate
<1>3. CASE worker' \in RequestTermination(worker) /\ Goto(t, "Reap")
           /\ UNCHANGED <<mutex, result>>
  <2>1. worker' \in WorkerFields /\ worker'.closed /\ worker'.cached_exit = worker.cached_exit
    BY <1>1, <1>3, TerminationRequest
  <2>2. "Reap" \in Steps /\ "Reap" \in StepsOf(call[t].op)
    BY <1>0 DEF StepsOf, Calls, Operations, Steps
  <2>3. /\ call' \in [Threads -> Calls \cup {AtRest}]
        /\ \A u \in Threads : InOperation(u)'
        /\ Advances(t)
    BY <1>0, <1>3, <2>2, GotoAdvances
  <2>4. HandleTypeOK'
    BY <1>3, <2>1, <2>3 DEF Terminate, HandleInv, HandleTypeOK, Calls, WorkerFields
  <2> QED BY <1>3, <2>1, <2>3, <2>4 DEF Terminate, HandleInv, AbortIsKept, ExitIsReaped
<1> QED BY <1>2, <1>3 DEF Terminate

(* The child's exit is cached by the call that reaps it. *)
LEMMA ReapKeepsInv ==
    ASSUME HandleInv, NEW t \in Threads, Reap(t) \/ WaitExpires(t)
    PROVE  HandleInv' /\ Advances(t)
<1>0. call[t] \in Calls
  BY AtStep DEF Reap, WaitExpires, Steps
<1>1. worker \in WorkerFields
  BY DEF HandleInv, HandleTypeOK, WorkerFields
<1>2. CASE Reap(t) /\ worker.cached_exit # "None"
           /\ Release(t, MapExit(worker.cached_exit)) /\ UNCHANGED <<worker, child>>
  <2>1. MapExit(worker.cached_exit) \in WaitOutcomes
    BY <1>1, <1>2, MapExitType DEF WorkerFields
  <2>2. child = "Reaped"
    BY <1>2 DEF HandleInv, ExitIsReaped
  <2> QED BY <1>0, <1>1, <1>2, <2>1, <2>2, ReleaseKeepsInv DEF Reap
<1>3. ASSUME NEW kind \in ExitKinds, Reap(t), worker' = [worker EXCEPT !.cached_exit = kind],
             Release(t, MapExit(kind)), child' = "Reaped"
      PROVE  HandleInv' /\ Advances(t)
  <2>1. worker' \in WorkerFields /\ worker'.closed = worker.closed
    BY <1>1, <1>3 DEF WorkerFields
  <2> QED BY <1>0, <1>3, <2>1, MapExitType, ReleaseKeepsInv DEF Reap
<1>4. CASE Reap(t) /\ worker.cached_exit = "None" /\ worker' \in RequestTermination(worker)
           /\ Release(t, "IoFailure") /\ UNCHANGED child
  <2>1. worker' \in WorkerFields /\ worker'.closed /\ worker'.cached_exit = worker.cached_exit
    BY <1>1, <1>4, TerminationRequest
  <2> QED BY <1>0, <1>4, <2>1, ReleaseKeepsInv DEF Reap, WaitOutcomes, Exits
<1>5. CASE WaitExpires(t)
  <2> DEFINE r == IF call[t].op = "Terminate" /\ worker.kill = "Failed" THEN "IoFailure"
                  ELSE "TimedOut"
  <2>1. r \in WaitOutcomes /\ r \notin Exits
    BY DEF WaitOutcomes, Exits
  <2>2. Release(t, r)
    BY <1>5 DEF WaitExpires
  <2> HIDE DEF r
  <2> QED BY <1>0, <1>1, <1>5, <2>1, <2>2, ReleaseKeepsInv DEF WaitExpires
<1> QED BY <1>2, <1>3, <1>4, <1>5 DEF Reap

(* Every step a thread takes by itself keeps the invariant of the handle. *)
LEMMA ContinueKeepsInv ==
    ASSUME HandleInv, NEW t \in Threads, Continue(t) \/ TransferExpires(t)
    PROVE  HandleInv' /\ Advances(t)
BY GateKeepsInv, LockKeepsInv, SwapKeepsInv, TransferKeepsInv, MarkKeepsInv, AbortKeepsInv,
   TerminateKeepsInv, ReapKeepsInv DEF Continue

(* Nothing a thread does by itself revives a child. *)
LEMMA ContinueKeepsChild ==
    ASSUME NEW t \in Threads, Continue(t) \/ TransferExpires(t)
    PROVE  child' \in {child, "Reaped"}
BY DEF Continue, Gate, Lock, Swap, BeginTransfer, Poll, SliceEnds, TransferEnds, Mark,
       RequestCancellation, TryLock, NativeAbort, DeferAbort, CloseChannel, Terminate, Reap,
       WaitExpires, TransferExpires

-----------------------------------------------------------------------------
(* A thread at rest that is given a new call, or none. *)
LEMMA CallKeepsInv ==
    ASSUME HandleInv, NEW t \in Threads, UNCHANGED nativeVars,
           UNCHANGED call \/ \E op \in Operations : Call(t, op)
    PROVE  HandleInv' /\ \A u \in Threads \ {t} : call'[u] = call[u]
<1>1. call \in [Threads -> Calls \cup {AtRest}]
  BY DEF HandleInv, HandleTypeOK, Calls
<1>2. CASE UNCHANGED call
  BY <1>2 DEF nativeVars, HandleInv, HandleTypeOK, InOperation, AbortIsKept, ExitIsReaped
<1>3. ASSUME NEW op \in Operations, Call(t, op)
      PROVE  HandleInv' /\ \A u \in Threads \ {t} : call'[u] = call[u]
  <2> DEFINE new == [op |-> op, at |-> FirstStep(op)]
  <2>1. FirstStep(op) \in Steps /\ FirstStep(op) \in StepsOf(op)
    BY DEF FirstStep, Steps, StepsOf, Operations
  <2>2. new \in Calls /\ new.op = op /\ new.at = FirstStep(op)
    BY <2>1 DEF Calls
  <2>3. /\ call' = [call EXCEPT ![t] = new]
        /\ call'[t] = new
        /\ \A u \in Threads \ {t} : call'[u] = call[u]
    BY <1>1, <1>3 DEF Call
  <2> HIDE DEF new
  <2>4. call' \in [Threads -> Calls \cup {AtRest}]
    BY <1>1, <2>2, <2>3
  <2>5. \A u \in Threads : InOperation(u)'
    BY <2>1, <2>2, <2>3 DEF HandleInv, InOperation
  <2> QED BY <2>3, <2>4, <2>5 DEF nativeVars, HandleInv, HandleTypeOK, AbortIsKept,
             ExitIsReaped, Calls
<1> QED BY <1>2, <1>3

(* The call a thread is given is the one its operation starts with. *)
LEMMA CallIsMade ==
    ASSUME HandleInv, NEW t \in Threads, NEW op \in Operations, Call(t, op)
    PROVE  call'[t].op = op /\ call'[t] # AtRest
<1>1. call'[t] = [op |-> op, at |-> FirstStep(op)]
  BY DEF HandleInv, HandleTypeOK, Call
<1>2. op # "None"
  BY DEF Operations
<1> QED BY <1>1, <1>2 DEF AtRest

(* Poisoning the channel is an abort of the transport, or nothing. *)
LEMMA PoisonCalls ==
    ASSUME NEW t \in Threads, PoisonChannel(t)
    PROVE  /\ UNCHANGED call \/ \E op \in Operations : Call(t, op)
           /\ channel' = "Poisoned"
BY DEF PoisonChannel, Operations

SessionTypeOK ==
    /\ process \in [state : ProcessStates, termination : WaitOutcomes \cup {"None"},
                    doing : Tasks]
    /\ session \in {"None", "Live", "Lost", "Closed"}
    /\ channel \in {"None", "Usable", "Poisoned"}
    /\ escalations \in Nat
    /\ handle \in {"Held", "Dropping", "Gone"}

(* The owner's own steps never touch the native state: with the handle's     *)
(* invariant kept, what is left is the owner's bookkeeping.                  *)
LEMMA OwnerStepsKeepHandle ==
    ASSUME Inv, UNCHANGED nativeVars,
           UNCHANGED call \/ \E op \in Operations : Call(Owner, op)
    PROVE  HandleInv'
BY OwnerAssumption, CallKeepsInv DEF Inv

(* Inv, with the conjuncts the owner's steps can disturb set apart. *)
LEMMA InvByParts ==
    /\ Inv => HandleInv /\ SessionTypeOK /\ OwnerInv /\ NoWorkerLeftBehind
    /\ HandleInv' /\ SessionTypeOK' /\ OwnerInv' /\ NoWorkerLeftBehind' => Inv'
BY DEF Inv, TypeOK, SessionTypeOK, HandleInv

LEMMA OpenKeepsInv ==
    ASSUME Inv, Open \/ UseSession \/ DropSession PROVE Inv'
<1> USE InvByParts
<1>1. HandleInv'
  <2>1. CASE Open
    BY <2>1, OwnerStepsKeepHandle DEF Open, Operations
  <2>2. CASE UseSession
    BY <2>2, OwnerStepsKeepHandle DEF UseSession, Operations
  <2>3. CASE DropSession
    BY <2>3, OwnerStepsKeepHandle, PoisonCalls, OwnerAssumption DEF DropSession
  <2> QED BY <2>1, <2>2, <2>3
<1>2. SessionTypeOK'
  BY DEF Open, UseSession, DropSession, PoisonChannel, Then, SessionTypeOK, Tasks
<1>3. OwnerInv'
  <2>1. CASE Open
    BY <2>1 DEF Open, Then, Doing, SessionTypeOK, OwnerInv, nativeVars
  <2>2. CASE UseSession
    BY <2>2 DEF UseSession, Then, Doing, SessionTypeOK, OwnerInv, nativeVars
  <2>3. CASE DropSession
    BY <2>3 DEF DropSession, Then, Doing, SessionTypeOK, OwnerInv, nativeVars
  <2> QED BY <2>1, <2>2, <2>3
<1>4. NoWorkerLeftBehind'
  BY DEF Open, UseSession, DropSession, nativeVars, NoWorkerLeftBehind
<1> QED BY <1>1, <1>2, <1>3, <1>4

LEMMA HandshakeKeepsInv ==
    ASSUME Inv, HandshakeReturns \/ SessionReturns PROVE Inv'
<1> USE InvByParts
<1>1. HandleInv'
  <2>1. CASE HandshakeReturns
    BY <2>1, OwnerStepsKeepHandle, PoisonCalls, OwnerAssumption DEF HandshakeReturns, Operations
  <2>2. CASE SessionReturns
    BY <2>2, OwnerStepsKeepHandle, PoisonCalls, OwnerAssumption DEF SessionReturns
  <2> QED BY <2>1, <2>2
<1>2. SessionTypeOK'
  BY DEF HandshakeReturns, SessionReturns, PoisonChannel, Then, SessionTypeOK, Tasks,
         ProcessStates
<1>3. OwnerInv'
  <2>1. CASE HandshakeReturns
    BY <2>1 DEF HandshakeReturns, Then, Doing, SessionTypeOK, OwnerInv, nativeVars
  <2>2. CASE SessionReturns
    BY <2>2 DEF SessionReturns, Then, Doing, SessionTypeOK, OwnerInv, nativeVars
  <2> QED BY <2>1, <2>2
<1>4. NoWorkerLeftBehind'
  BY DEF HandshakeReturns, SessionReturns, nativeVars, NoWorkerLeftBehind
<1> QED BY <1>1, <1>2, <1>3, <1>4

LEMMA ShutdownKeepsInv ==
    ASSUME Inv, OrderlyShutdown \/ ShutdownSent \/ WaitForExit PROVE Inv'
<1> USE InvByParts
<1>1. HandleInv'
  <2>1. CASE OrderlyShutdown
    BY <2>1, OwnerStepsKeepHandle DEF OrderlyShutdown, Operations
  <2>2. CASE ShutdownSent
    BY <2>2, OwnerStepsKeepHandle, PoisonCalls, OwnerAssumption DEF ShutdownSent, Operations
  <2>3. CASE WaitForExit
    BY <2>3, OwnerStepsKeepHandle DEF WaitForExit, Operations
  <2> QED BY <2>1, <2>2, <2>3
<1>2. SessionTypeOK'
  BY DEF OrderlyShutdown, ShutdownSent, WaitForExit, PoisonChannel, Then, SessionTypeOK, Tasks
<1>3. OwnerInv'
  <2>1. CASE OrderlyShutdown
    BY <2>1 DEF OrderlyShutdown, Then, Doing, SessionTypeOK, OwnerInv, nativeVars
  <2>2. CASE ShutdownSent
    BY <2>2 DEF ShutdownSent, Then, Doing, SessionTypeOK, OwnerInv, nativeVars
  <2>3. CASE WaitForExit
    BY <2>3 DEF WaitForExit, Then, Doing, SessionTypeOK, OwnerInv, nativeVars
  <2> QED BY <2>1, <2>2, <2>3
<1>4. NoWorkerLeftBehind'
  BY DEF OrderlyShutdown, ShutdownSent, WaitForExit, nativeVars, NoWorkerLeftBehind
<1> QED BY <1>1, <1>2, <1>3, <1>4

(* An exit that was waited for is the exit of a reaped child. *)
LEMMA EndKeepsInv ==
    ASSUME Inv, ExitWaited \/ EndLifetime \/ DropProcess PROVE Inv'
<1> USE InvByParts
<1>1. HandleInv'
  BY OwnerStepsKeepHandle DEF ExitWaited, EndLifetime, DropProcess
<1>2. SessionTypeOK'
  BY DEF ExitWaited, EndLifetime, DropProcess, Then, SessionTypeOK, Tasks, ProcessStates,
         WaitOutcomes
<1>3. OwnerInv'
  <2>1. result[Owner] \in Exits => child = "Reaped"
    BY OwnerAssumption DEF HandleInv, ExitIsReaped
  <2>2. CASE ExitWaited
    BY <2>1, <2>2 DEF ExitWaited, Then, Doing, SessionTypeOK, OwnerInv, nativeVars, Exits
  <2>3. CASE EndLifetime
    BY <2>3 DEF EndLifetime, Then, Doing, SessionTypeOK, OwnerInv, nativeVars
  <2>4. CASE DropProcess
    BY <2>4 DEF DropProcess, Then, Doing, SessionTypeOK, OwnerInv, nativeVars
  <2> QED BY <2>2, <2>3, <2>4
<1>4. NoWorkerLeftBehind'
  BY DEF ExitWaited, EndLifetime, DropProcess, nativeVars, NoWorkerLeftBehind
<1> QED BY <1>1, <1>2, <1>3, <1>4

(* The escalation: counted when it is called, recorded when it returns. *)
LEMMA EscalationKeepsInv ==
    ASSUME Inv, TerminateOnce \/ Escalated PROVE Inv'
<1> USE InvByParts
<1>1. HandleInv'
  BY OwnerStepsKeepHandle DEF TerminateOnce, Escalated, Operations
<1>2. CASE TerminateOnce /\ process.termination # "None" /\ Then("Nothing")
           /\ UNCHANGED <<call, escalations>>
  <2>1. SessionTypeOK' /\ NoWorkerLeftBehind'
    BY <1>2 DEF TerminateOnce, Then, SessionTypeOK, Tasks, nativeVars, NoWorkerLeftBehind
  <2>2. OwnerInv'
    BY <1>2 DEF TerminateOnce, Then, Doing, SessionTypeOK, OwnerInv, nativeVars
  <2> QED BY <1>1, <2>1, <2>2
<1>3. CASE /\ TerminateOnce /\ process.termination = "None"
           /\ process' = [process EXCEPT !.state = "Terminated", !.doing = "Terminate"]
           /\ Call(Owner, "Terminate") /\ escalations' = escalations + 1
  <2>1. SessionTypeOK' /\ NoWorkerLeftBehind'
    <3>1. process' \in [state : ProcessStates, termination : WaitOutcomes \cup {"None"},
                        doing : Tasks]
      BY <1>3 DEF SessionTypeOK, Tasks, ProcessStates
    <3>2. escalations' \in Nat
      BY <1>3 DEF SessionTypeOK
    <3> QED BY <1>3, <3>1, <3>2 DEF TerminateOnce, SessionTypeOK, nativeVars,
               NoWorkerLeftBehind
  <2>2. call'[Owner].op = "Terminate" /\ call'[Owner] # AtRest
    BY <1>3, CallIsMade, OwnerAssumption DEF Operations
  <2>3. escalations = 0
    BY <1>3 DEF TerminateOnce, Doing, SessionTypeOK, OwnerInv, ProcessStates
  <2>4. OwnerInv'
    BY <1>3, <2>2, <2>3 DEF TerminateOnce, SessionTypeOK, OwnerInv, Resting
  <2> QED BY <1>1, <2>1, <2>4
<1>4. CASE Escalated
  <2>1. result[Owner] \in WaitOutcomes /\ result[Owner] # "None"
    BY <1>4 DEF Escalated, Doing, OwnerInv, WaitOutcomes
  <2>2. SessionTypeOK' /\ NoWorkerLeftBehind'
    BY <1>4, <2>1 DEF Escalated, SessionTypeOK, Tasks, nativeVars, NoWorkerLeftBehind
  <2>3. OwnerInv'
    BY <1>4, <2>1 DEF Escalated, Doing, SessionTypeOK, OwnerInv, nativeVars
  <2> QED BY <1>1, <2>2, <2>3
<1> QED BY <1>2, <1>3, <1>4 DEF TerminateOnce

(* The other holders of the channel never touch the owner's call. *)
LEMMA OthersKeepInv ==
    ASSUME Inv, NEW t \in Threads, OtherTransfers(t) \/ OtherFails(t) PROVE Inv'
<1> USE InvByParts
<1>1. HandleInv' /\ \A u \in Threads \ {t} : call'[u] = call[u]
  <2>1. UNCHANGED nativeVars /\ (UNCHANGED call \/ \E op \in Operations : Call(t, op))
    BY PoisonCalls DEF OtherTransfers, OtherFails, Operations
  <2> QED BY <2>1, CallKeepsInv
<1>2. t # Owner /\ Owner \in Threads
  BY OwnerAssumption DEF OtherTransfers, OtherFails
<1>3. SessionTypeOK' /\ NoWorkerLeftBehind'
  BY DEF OtherTransfers, OtherFails, PoisonChannel, SessionTypeOK, sessionVars, nativeVars,
         NoWorkerLeftBehind
<1>4. OwnerInv'
  BY <1>1, <1>2 DEF OtherTransfers, OtherFails, OwnerInv, Resting, sessionVars, nativeVars
<1> QED BY <1>1, <1>3, <1>4

(* A thread's own step: the owner's escalation returns a wait outcome, and a *)
(* reaped child stays reaped.                                                *)
LEMMA ContinueKeepsOwner ==
    ASSUME Inv, NEW t \in Threads, Continue(t) \/ TransferExpires(t), UNCHANGED sessionVars
    PROVE  Inv'
<1> USE InvByParts
<1>1. HandleInv' /\ Advances(t) /\ child' \in {child, "Reaped"}
  BY ContinueKeepsInv, ContinueKeepsChild
<1>2. SessionTypeOK' /\ NoWorkerLeftBehind'
  BY <1>1 DEF SessionTypeOK, sessionVars, NoWorkerLeftBehind
<1>3. OwnerInv'
  <2>1. process.doing = "Terminate" =>
            IF call'[Owner] = AtRest THEN result'[Owner] \in WaitOutcomes
            ELSE call'[Owner].op = "Terminate"
    <3>1. CASE t = Owner
      BY <1>1, <3>1 DEF OwnerInv, Advances, Resting
    <3>2. CASE t # Owner
      BY <1>1, <3>2, OwnerAssumption DEF OwnerInv, Advances, Resting
    <3> QED BY <3>1, <3>2
  <2> QED BY <1>1, <2>1 DEF OwnerInv, Resting, sessionVars
<1> QED BY <1>1, <1>2, <1>3

LEMMA EnvironmentKeepsInv ==
    ASSUME Inv, (SignalToken \/ ChildDies) /\ UNCHANGED sessionVars PROVE Inv'
<1> USE InvByParts
<1>1. HandleInv'
  <2>1. HandleTypeOK'
    BY DEF SignalToken, ChildDies, HandleInv, HandleTypeOK
  <2> QED BY <2>1 DEF SignalToken, ChildDies, HandleInv, InOperation, AbortIsKept, ExitIsReaped
<1>2. SessionTypeOK' /\ NoWorkerLeftBehind'
  BY DEF SignalToken, ChildDies, SessionTypeOK, sessionVars, NoWorkerLeftBehind
<1>3. OwnerInv'
  BY DEF SignalToken, ChildDies, OwnerInv, Resting, sessionVars
<1> QED BY <1>1, <1>2, <1>3

(* The last handle is gone only after the child was reaped: by a call that   *)
(* cached its exit, or by the drop itself.                                   *)
LEMMA DropKeepsInv ==
    ASSUME Inv, DropHandle \/ DropReaps PROVE Inv'
<1> USE InvByParts
<1>1. CASE DropHandle
  <2>1. /\ worker' \in WorkerFields /\ worker'.cached_exit = worker.cached_exit
        /\ worker.closed => worker'.closed
    <3>1. worker \in WorkerFields
      BY DEF HandleInv, HandleTypeOK, WorkerFields
    <3>2. worker' = worker \/ worker' \in RequestTermination(worker)
      BY <1>1 DEF DropHandle
    <3> QED BY <3>1, <3>2, TerminationRequest
  <2>2. HandleInv'
    <3>1. HandleTypeOK'
      BY <1>1, <2>1 DEF DropHandle, HandleInv, HandleTypeOK, WorkerFields
    <3> QED BY <1>1, <2>1, <3>1 DEF DropHandle, HandleInv, InOperation, AbortIsKept, ExitIsReaped
  <2>3. SessionTypeOK'
    BY <1>1 DEF DropHandle, SessionTypeOK
  <2>4. OwnerInv'
    BY <1>1 DEF DropHandle, OwnerInv, Resting
  <2>5. NoWorkerLeftBehind'
    BY <1>1 DEF DropHandle, NoWorkerLeftBehind, HandleInv, ExitIsReaped
  <2> QED BY <2>2, <2>3, <2>4, <2>5
<1>2. CASE DropReaps
  <2>1. HandleInv'
    <3>1. HandleTypeOK'
      BY <1>2 DEF DropReaps, HandleInv, HandleTypeOK
    <3> QED BY <1>2, <3>1 DEF DropReaps, HandleInv, InOperation, AbortIsKept, ExitIsReaped
  <2>2. SessionTypeOK' /\ NoWorkerLeftBehind'
    BY <1>2 DEF DropReaps, SessionTypeOK, NoWorkerLeftBehind
  <2>3. OwnerInv'
    BY <1>2 DEF DropReaps, OwnerInv, Resting
  <2> QED BY <2>1, <2>2, <2>3
<1> QED BY <1>1, <1>2

LEMMA InitInv == Init => Inv
<1> SUFFICES ASSUME Init PROVE Inv
  OBVIOUS
<1>1. HandleTypeOK
  BY DEF Init, HandleInit, HandleTypeOK
<1>2. HandleInv
  BY <1>1 DEF Init, HandleInit, HandleInv, InOperation, AbortIsKept, ExitIsReaped, Exits
<1>3. SessionTypeOK
  BY DEF Init, SessionTypeOK, ProcessStates, Tasks
<1> QED BY <1>1, <1>2, <1>3 DEF Init, Inv, TypeOK, SessionTypeOK, OwnerInv, NoWorkerLeftBehind

LEMMA NextKeepsInv == Inv /\ [Next]_vars => Inv'
<1> SUFFICES ASSUME Inv, [Next]_vars PROVE Inv'
  OBVIOUS
<1>1. CASE UNCHANGED vars
  BY <1>1 DEF vars, handleVars, sessionVars, Inv, HandleInv, TypeOK, HandleTypeOK, InOperation,
     AbortIsKept, ExitIsReaped, OwnerInv, Resting, NoWorkerLeftBehind
<1>2. CASE Open \/ UseSession \/ DropSession \/ OrderlyShutdown \/ EndLifetime
              \/ DropProcess \/ OwnerReturns
  BY <1>2, OpenKeepsInv, HandshakeKeepsInv, ShutdownKeepsInv, EndKeepsInv, EscalationKeepsInv
     DEF OwnerReturns
<1>3. ASSUME NEW t \in Threads, OtherTransfers(t) \/ OtherFails(t) PROVE Inv'
  BY <1>3, OthersKeepInv
<1>4. ASSUME NEW t \in Threads, Continue(t) \/ TransferExpires(t), UNCHANGED sessionVars
      PROVE  Inv'
  BY <1>4, ContinueKeepsOwner
<1>5. CASE (SignalToken \/ ChildDies) /\ UNCHANGED sessionVars
  BY <1>5, EnvironmentKeepsInv
<1>6. CASE DropHandle \/ DropReaps
  BY <1>6, DropKeepsInv
<1> QED BY <1>1, <1>2, <1>3, <1>4, <1>5, <1>6 DEF Next

LEMMA SpecInv == Spec => []Inv
BY InitInv, NextKeepsInv, PTL DEF Spec

-----------------------------------------------------------------------------
(* For any number of threads on one WorkerHandle: an abort that returned has *)
(* shut the channel down or is owed by abort_pending, however try_lock, the  *)
(* holder's release and the deferred mark interleave.                        *)
THEOREM HandleKeepsAborts == Spec => [](TypeOK /\ AbortIsKept)
<1>1. Inv => TypeOK /\ AbortIsKept
  BY DEF Inv, HandleInv
<1> QED BY <1>1, SpecInv, PTL

(* For any number of other holders of its channel: terminate_once calls the  *)
(* worker's termination at most once, and an orderly shutdown is recorded    *)
(* only of a reaped child that was never escalated.                          *)
THEOREM ProcessEndsOnce == Spec => []LifetimeEndsOnce
<1>1. Inv => LifetimeEndsOnce
  BY DEF Inv, TypeOK, OwnerInv, LifetimeEndsOnce, IsTerminal, ProcessStates
<1> QED BY <1>1, SpecInv, PTL

(* No worker process outlives the last WorkerHandle on it, whatever its      *)
(* holders did and whichever of their calls failed.                          *)
THEOREM WorkerIsReaped == Spec => []NoWorkerLeftBehind
<1>1. Inv => NoWorkerLeftBehind
  BY DEF Inv
<1> QED BY <1>1, SpecInv, PTL
=============================================================================
