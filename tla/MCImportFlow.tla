---------------------------- MODULE MCImportFlow ----------------------------
(***************************************************************************)
(* Two programs that import one medium, with one recipe or with two;       *)
(* either may be started again.                                            *)
(***************************************************************************)
EXTENDS ImportFlow

TwoPrograms == {"first", "second"}
OneOrTwo == [p \in TwoPrograms |-> IF p = "first" THEN {"one"} ELSE {"one", "two"}]
============================================================================
