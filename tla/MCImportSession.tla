-------------------------- MODULE MCImportSession ---------------------------
(* A small import session for TLC: two entries reported in one batch each,  *)
(* three requests, reads of one unit, and a stream of two units that may     *)
(* come in one chunk or in two.                                              *)
EXTENDS ImportSession

Entry(token, size, path) == [token |-> token, size |-> size, path |-> path]

MCEntries == {Entry(1, 2, "a"), Entry(2, 1, "b")}

MCBatches == {<<Entry(1, 2, "a")>>, <<Entry(2, 1, "b")>>}
MCParentBudgets == [messages |-> 12, bytes |-> 12]
MCWorkerBudgets == [messages |-> 11, bytes |-> 11]
=============================================================================
