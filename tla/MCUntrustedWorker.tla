------------------------- MODULE MCUntrustedWorker --------------------------
(* Every frame type a worker may forge, for the first two request ids and    *)
(* for the id zero, with bodies inside and outside the parent's limits.      *)
EXTENDS UntrustedWorker

Entry(token, size, path) == [token |-> token, size |-> size, path |-> path]

ForgedBatches == {<<Entry(1, 1, "a")>>, <<Entry(1, 2, "b")>>,
                  <<Entry(2, 2, "b"), Entry(3, 1, "a")>>}

MCEntries == {Entry(1, 1, "a"), Entry(1, 2, "b"), Entry(2, 2, "b"), Entry(3, 1, "a")}

Forged(type, bodies) == {Frame(type, i, b) : i \in {1, 2}, b \in bodies}

MCWorkerFrames ==
    UNION {Forged("EntryBatch", ForgedBatches),
           Forged("DataChunk", {<<1>>, <<1, 2>>}),
           Forged("ReadRequest", {<<1, 1>>, <<2, 1>>}),
           Forged("Complete", {<<>>}),
           Forged("CancelAck", {<<>>}),
           {Frame("Ready", 0, <<>>)}}

MCBudgets == [messages |-> 10, bytes |-> 10]
=============================================================================
