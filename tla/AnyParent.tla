----------------------------- MODULE AnyParent ------------------------------
(***************************************************************************)
(* The worker service against any parent: frames of every type, at any     *)
(* time, or a parent that stops reading or goes away.  The service must    *)
(* release its dispatcher and keep its own bookkeeping in step with its    *)
(* validator whatever arrives.                                             *)
(***************************************************************************)
EXTENDS WorkerService

CONSTANT ParentFrames       \* the frames the parent may write

ASSUME ParentFramesAssumption == \A f \in ParentFrames : f.h \in FrameHeaders

anyParentVars == <<workerVars, transportVars>>

AnyParentInit == TransportInit /\ WorkerInit

ParentWrites(f) ==
    /\ ParentMaySend
    /\ toWorker' = Append(toWorker, f)
    /\ UNCHANGED <<workerVars, toParent, parentIo, workerIo>>

ParentReads ==
    /\ toParent # <<>>
    /\ toParent' = Tail(toParent)
    /\ UNCHANGED <<workerVars, toWorker, parentIo, workerIo>>

ParentAborts ==
    /\ parentIo = "open"
    /\ parentIo' = "aborted"
    /\ UNCHANGED <<workerVars, toWorker, toParent, workerIo>>

AnyParentNext ==
    \/ WorkerNext
    \/ \E f \in ParentFrames : ParentWrites(f)
    \/ ParentReads
    \/ ParentAborts

AnyParentSpec == AnyParentInit /\ [][AnyParentNext]_anyParentVars

-----------------------------------------------------------------------------
(* Between two frames the fields of Service agree with the validator: a      *)
(* request is active on the dispatcher exactly while the validator says so,  *)
(* for the same request id, and the service waits for a reply exactly while  *)
(* one is in flight.                                                         *)
ServiceInStep ==
    Running /\ outbox = None =>
        /\ service.dispatch_active <=> InDispatch
        /\ InDispatch => service.active_request_id = wv.active_request_id
        /\ pc = "AwaitReply" <=> wv.read_in_flight
        /\ wv.state = "Enumerating" => service.active_operation = "Enumerate"
        /\ service.late_read_reply <=> wv.late_read_reply_request_id # 0

=============================================================================
