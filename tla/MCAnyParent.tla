---------------------------- MODULE MCAnyParent -----------------------------
(* Two request ids, replies of each status and a parent that ignores every   *)
(* rule of the protocol.                                                     *)
EXTENDS AnyParent

Entry(token, size, path) == [token |-> token, size |-> size, path |-> path]

MCEntries == {Entry(1, 1, "a"), Entry(2, 1, "b"), Entry(2, 2, "b")}

MCBatches == {<<Entry(1, 1, "a")>>, <<Entry(2, 2, "b")>>, <<Entry(1, 1, "a"), Entry(2, 1, "b")>>}

Sent(type, bodies) == {Frame(type, i, b) : i \in {1, 2}, b \in bodies}

MCParentFrames ==
    UNION {Sent("Enumerate", {<<>>}),
           Sent("StreamEntry", {<<1>>}),
           Sent("ReadReply", {<<1, "Ok", 1>>, <<2, "Ok", 1>>, <<1, "SourceChanged", 0>>}),
           Sent("Cancel", {<<>>}),
           {Frame("Hello", 0, <<>>), Frame("Shutdown", 0, <<>>)}}

MCBudgets == [messages |-> 8, bytes |-> 8]
=============================================================================
