---------------------------- MODULE OwpTransport ----------------------------
(***************************************************************************)
(* The duplex byte channel between the parent and the isolated worker, at  *)
(* the level of whole frames: two bounded FIFO pipes and the state of each *)
(* end.  The pipes are an operating-system service (external); src/ uses   *)
(* them only through exact reads, exact writes, a probe, abort and close.  *)
(*                                                                         *)
(* A frame is [h, body]: its header and, as a sequence, the decoded fields *)
(* of its payload.                                                         *)
(***************************************************************************)
EXTENDS SessionValidator, Sequences

CONSTANT PipeCapacity   \* frames a pipe holds before a writer blocks

ASSUME PipeCapacityAssumption == PipeCapacity \in Nat \ {0}

VARIABLES
    toWorker,     \* frames the parent wrote and the worker has not read
    toParent,     \* frames the worker wrote and the parent has not read
    parentIo,     \* "open", or "aborted" once the parent aborted the channel
    workerIo      \* "open", "closed" after shutdown, "aborted" after a failure

transportVars == <<toWorker, toParent, parentIo, workerIo>>

TransportInit ==
    /\ toWorker = <<>> /\ toParent = <<>>
    /\ parentIo = "open" /\ workerIo = "open"

(* The payload length a frame of this type carries, in the units of the     *)
(* byte budgets: fixed fields count one, data counts its length.            *)
PayloadLength(type, body) ==
    CASE type \in {"Hello", "StreamEntry", "ReadRequest", "Complete"} -> 1
      [] type = "ReadReply" -> 1 + body[3]
      [] type \in {"EntryBatch", "DataChunk"} -> Len(body)
      [] OTHER -> 0

Frame(type, req, body) ==
    [h |-> Header(type, req, PayloadLength(type, body)), body |-> body]

\* Option<T>: a sequence of at most one element.
None == <<>>
Some(x) == <<x>>
The(option) == option[1]

ParentMaySend == parentIo = "open" /\ workerIo = "open" /\ Len(toWorker) < PipeCapacity
WorkerMaySend == parentIo = "open" /\ workerIo = "open" /\ Len(toParent) < PipeCapacity
=============================================================================
