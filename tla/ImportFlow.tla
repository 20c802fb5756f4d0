----------------------------- MODULE ImportFlow -----------------------------
(***************************************************************************)
(* The importing program from its start to its exit: look for a payload    *)
(* that was imported before, prepare the media's cache entry, import the   *)
(* container through a worker, record what was published, look again.      *)
(* Several programs import the same medium at once, with recipes of their  *)
(* own; the user stops, kills and restarts them and clears the cache.      *)
(*                                                                         *)
(* Shared on disk: the cache entry of the medium (a directory that holds   *)
(* the manifest and, later, the payload record) and the published trees.   *)
(* How one tree is staged is PayloadStage's matter and how one session     *)
(* runs ImportSession's: here a tree appears whole and a call succeeds or  *)
(* fails.                                                                  *)
(***************************************************************************)
EXTENDS Naturals, FiniteSets

CONSTANTS Programs,      \* programs that import the medium
          Recipes,       \* the payload identities each program may be given
          Files,         \* entries the worker streams for one payload
          MaxClears,     \* times the user clears the cache
          MaxRestarts    \* times a program is started again

VARIABLES entry,    \* "absent", "bare" (a directory without its manifest), "whole"
          record,   \* "none", "empty", or the recorded identity
          trees,    \* published identities
          lock,     \* who holds the entry's publication lock
          run,      \* each program's state
          clears,   \* clears so far
          restarts  \* restarts so far

vars == <<entry, record, trees, lock, run, clears, restarts>>
disk == <<entry, record, trees>>

NoOne == "no one"
Unrecorded == {"none", "empty"}
\* A recorded identity is never mistaken for a missing or an empty record.
ASSUME RecipesAssumption == \A p \in Programs : Recipes[p] \cap Unrecorded = {}
Tokens == {"transport", "staging"}

\* `id' is the identity of the recipe; `worker' is "none", "running", or how
\* it ended: "orderly", "terminated" or "dropped"; `slot' is where its session
\* is; `published' and `spoilt' (failed in the middle of the record) are
\* history.
Started(id, spoilt) ==
  [pc |-> "find", id |-> id, tokens |-> {}, slot |-> "Taken", streamed |-> 0,
   failure |-> "none", status |-> "none", result |-> "none", worker |-> "none",
   found |-> "none", published |-> FALSE, spoilt |-> spoilt]

Init ==
  /\ entry = "absent" /\ record = "none" /\ trees = {}
  /\ lock = NoOne
  /\ \E id \in [Programs -> UNION {Recipes[p] : p \in Programs}] :
       /\ \A p \in Programs : id[p] \in Recipes[p]
       /\ run = [p \in Programs |-> Started(id[p], FALSE)]
  /\ clears = 0 /\ restarts = 0

At(p, pc) == run[p].pc = pc
Goto(p, pc) == run' = [run EXCEPT ![p].pc = pc]
\* What is left of a program that returned `result'.
Returned(r, result) ==
  [r EXCEPT !.pc = "exited", !.result = result, !.tokens = {}, !.slot = "Taken",
            !.streamed = 0, !.status = "none"]
Exit(p, result) == run' = [run EXCEPT ![p] = Returned(@, result)]
Stopped(p) == run[p].tokens # {}
Gated(p) == "transport" \in run[p].tokens
Bounds == <<clears, restarts>>
Held == UNCHANGED lock /\ UNCHANGED Bounds

-----------------------------------------------------------------------------
\* find_published_payload, before the import and after it.

Published == record \notin Unrecorded /\ record \in trees
Find(p) ==
  /\ At(p, "find")
  /\ IF Published
     THEN run' = [run EXCEPT ![p] = Returned([@ EXCEPT !.found = record], "found")]
     ELSE Goto(p, "prepare")
  /\ UNCHANGED disk /\ Held
FindAgain(p) ==
  /\ At(p, "find again")
  /\ run' = [run EXCEPT ![p] =
       Returned([@ EXCEPT !.found = IF Published THEN record ELSE "none"], "imported")]
  /\ UNCHANGED disk /\ Held

-----------------------------------------------------------------------------
\* prepare_import_cache and publish_entry.

\* verify_entry: a directory without a manifest is a conflict.
Verify(p, next) ==
  IF entry = "whole" THEN Goto(p, next) ELSE Exit(p, "ManifestConflict")

Prepare(p) ==
  /\ At(p, "prepare")
  /\ \/ IF entry = "absent" THEN Goto(p, "lock") ELSE Verify(p, "check record")
     \/ Exit(p, "SourceChanged")
  /\ UNCHANGED disk /\ Held

AcquireLock(p) ==
  /\ At(p, "lock")
  /\ IF lock = NoOne
     THEN lock' = p /\ Goto(p, "stage entry")
     ELSE UNCHANGED lock /\ Exit(p, "CacheBusy")
  /\ UNCHANGED disk /\ UNCHANGED Bounds

\* Mutant: the entry is created where it will be published.
StageEntryInPlace(p) ==
  /\ At(p, "stage entry")
  /\ entry' = IF entry = "absent" THEN "bare" ELSE entry
  /\ IF entry = "absent" THEN Goto(p, "publish entry") /\ UNCHANGED lock
     ELSE Verify(p, "check record") /\ lock' = NoOne
  /\ UNCHANGED <<record, trees, Bounds>>

\* The entry is looked at again under the lock; the manifest is then written
\* and synced in a staging directory.
StageEntry(p) ==
  /\ At(p, "stage entry")
  /\ \/ /\ entry # "absent"
        /\ Verify(p, "check record") /\ lock' = NoOne
     \/ /\ entry = "absent"
        /\ Goto(p, "publish entry") /\ UNCHANGED lock
     \/ /\ entry = "absent"
        /\ Exit(p, "ManifestWriteFailed") /\ lock' = NoOne
  /\ UNCHANGED disk /\ UNCHANGED Bounds

PublishEntry(p) ==
  /\ At(p, "publish entry")
  /\ IF entry = "absent"
     THEN /\ entry' = "whole"
          /\ Goto(p, "check record")
     ELSE UNCHANGED entry /\ Verify(p, "check record")
  /\ lock' = NoOne
  /\ UNCHANGED <<record, trees, Bounds>>

-----------------------------------------------------------------------------
\* import_payload, run_import and run_container_import.

\* A record that names an identity ends the import; the tree it names is not
\* looked at here.
CheckRecord(p) ==
  /\ At(p, "check record")
  /\ IF record \notin Unrecorded
     THEN Goto(p, "find again")
     ELSE Goto(p, "launch")
  /\ UNCHANGED disk /\ Held

Launch(p) ==
  /\ At(p, "launch")
  /\ \/ Stopped(p) /\ Exit(p, "Cancelled")
     \/ ~Stopped(p) /\ Exit(p, "Media")
     \/ /\ ~Stopped(p)
        /\ run' = [run EXCEPT ![p].pc = "open", ![p].worker = "running"]
  /\ UNCHANGED disk /\ Held

\* Mutant: the worker is not dropped on the way out.
OpenFailsAlone(p, why) == Exit(p, why)

\* The handshake, the enumeration, the selection and the layout: each one's
\* failure drops the process session, or abandons it, and ends the worker.
OpenFails(p, why) ==
  run' = [run EXCEPT ![p] = Returned([@ EXCEPT !.worker = "dropped"], why)]
Open(p) ==
  /\ At(p, "open")
  /\ \/ /\ ~Gated(p)
        /\ run' = [run EXCEPT ![p].pc = "stage", ![p].slot = "Idle"]
     \/ OpenFails(p, "Worker")
  /\ UNCHANGED disk /\ Held

\* stage_payload: a tree of that name is a hit; the staging token is polled
\* before every entry and before the publication.
StageFails(p, why) ==
  run' = [run EXCEPT ![p].pc = "end worker", ![p].status = "failed",
                     ![p].failure = IF @ = "none" THEN why ELSE @]
Stage(p) ==
  /\ At(p, "stage")
  /\ \/ /\ run[p].streamed = 0 /\ run[p].id \in trees
        /\ run' = [run EXCEPT ![p].pc = "end worker", ![p].status = "hit"]
     \/ "staging" \in run[p].tokens /\ StageFails(p, "Cancelled")
     \/ StageFails(p, "Staging")
     \/ /\ "staging" \notin run[p].tokens /\ run[p].streamed < Files
        /\ Goto(p, "stream")
     \/ /\ "staging" \notin run[p].tokens /\ run[p].streamed = Files
        /\ Goto(p, "publish")
  /\ UNCHANGED disk /\ Held

PublishTree(p) ==
  /\ At(p, "publish")
  /\ IF run[p].id \in trees
     THEN /\ UNCHANGED trees
          /\ run' = [run EXCEPT ![p].pc = "end worker", ![p].status = "hit"]
     ELSE /\ trees' = trees \cup {run[p].id}
          /\ run' = [run EXCEPT ![p].pc = "end worker", ![p].status = "published",
                                ![p].published = TRUE]
  /\ UNCHANGED <<entry, record>> /\ Held

-----------------------------------------------------------------------------
\* WorkerPayloadSource::stream: the slot is Taken while a session streams.
\* fail keeps the first failure; the stage then ends.

StreamFails(p, slot, why) ==
  run' = [run EXCEPT ![p].pc = "end worker", ![p].slot = slot, ![p].status = "failed",
                     ![p].failure = IF @ = "none" THEN why ELSE @]

BeginStream(p) ==
  /\ At(p, "stream")
  /\ \/ Stopped(p) /\ StreamFails(p, "Idle", "Cancelled")
     \/ ~Stopped(p) /\ run' = [run EXCEPT ![p].pc = "receive", ![p].slot = "Taken"]
     \/ ~Stopped(p) /\ StreamFails(p, "Terminal", "Worker")
  /\ UNCHANGED disk /\ Held

\* One turn of the loop: a stop asks the worker to cancel, which the gate
\* refuses when the transport token is what stopped it.
Receive(p) ==
  /\ At(p, "receive")
  /\ \/ Stopped(p) /\ ~Gated(p) /\ Goto(p, "drain")
     \/ Stopped(p) /\ StreamFails(p, "Terminal", "Cancelled")
     \/ ~Stopped(p) /\ run' = [run EXCEPT ![p].pc = "stage", ![p].slot = "Idle",
                                          ![p].streamed = @ + 1]
     \/ ~Stopped(p) /\ StreamFails(p, "Terminal", "Worker")
  /\ UNCHANGED disk /\ Held

\* Mutant: the drain waits for the acknowledgement alone.
DrainToIdle(p) ==
  /\ At(p, "drain")
  /\ ~Gated(p) /\ \E slot \in {"Cancelled", "Idle"} : StreamFails(p, slot, "Cancelled")
  /\ UNCHANGED disk /\ Held

\* drain_cancellation: until the worker acknowledges, completes or fails.
Drain(p) ==
  /\ At(p, "drain")
  /\ \/ ~Gated(p) /\ \E slot \in {"Cancelled", "Idle"} : StreamFails(p, slot, "Cancelled")
     \/ StreamFails(p, "Terminal", "Cancelled")
  /\ UNCHANGED disk /\ Held

-----------------------------------------------------------------------------
\* The worker's end: an orderly shutdown of a usable session after a
\* publication, and termination otherwise.  Either ends it once.

EndWorker(p) ==
  LET failed == run[p].status = "failed"
      orderly == ~failed /\ run[p].slot \in {"Idle", "Cancelled"}
      ended == [run[p] EXCEPT !.worker = IF orderly THEN "orderly" ELSE "terminated"]
  IN /\ At(p, "end worker")
     /\ run' = [run EXCEPT ![p] =
          IF failed THEN Returned(ended, ended.failure)
          ELSE [ended EXCEPT !.pc = "truncate record", !.tokens = {}]]
     /\ UNCHANGED disk /\ Held

\* record_payload_identity creates the directory when it is missing, then
\* creates or truncates the file, then writes it.
TruncateRecord(p) ==
  /\ At(p, "truncate record")
  /\ \/ /\ entry' = IF entry = "absent" THEN "bare" ELSE entry
        /\ record' = "empty" /\ Goto(p, "write record")
     \/ Exit(p, "Provenance") /\ UNCHANGED <<entry, record>>
  /\ UNCHANGED trees /\ Held

\* Mutant: a hit is not recorded.
WriteRecordIfPublished(p) ==
  /\ At(p, "write record")
  /\ record' = IF record = "none" \/ ~run[p].published THEN record ELSE run[p].id
  /\ Goto(p, "find again")
  /\ UNCHANGED <<entry, trees>> /\ Held

\* A record whose directory was cleared in between is written to nothing.
WriteRecord(p) ==
  /\ At(p, "write record")
  /\ \/ /\ record' = IF record = "none" THEN "none" ELSE run[p].id
        /\ Goto(p, "find again")
     \/ /\ UNCHANGED record
        /\ run' = [run EXCEPT ![p] =
             Returned([@ EXCEPT !.spoilt = TRUE], "Provenance")]
  /\ UNCHANGED <<entry, trees>> /\ Held

-----------------------------------------------------------------------------
\* The user.

\* The two tokens of an import, signalled in either order while it lasts.
Importing(p) == run[p].pc \in {"launch", "open", "stage", "stream", "receive",
                               "drain", "publish", "end worker"}
Signal(p, token) ==
  /\ Importing(p) /\ token \notin run[p].tokens
  /\ run' = [run EXCEPT ![p].tokens = @ \cup {token}]
  /\ UNCHANGED disk /\ Held

\* A killed program drops its lock, and its worker with it.
Kill(p) ==
  /\ run[p].pc # "exited"
  /\ run' = [run EXCEPT ![p] =
       Returned(Started(@.id, @.spoilt \/ At(p, "write record")), "killed")]
  /\ lock' = IF lock = p THEN NoOne ELSE lock
  /\ UNCHANGED disk /\ UNCHANGED Bounds

StartAgain(p) ==
  /\ At(p, "exited") /\ restarts < MaxRestarts
  /\ restarts' = restarts + 1
  /\ run' = [run EXCEPT ![p] = Started(@.id, @.spoilt)]
  /\ UNCHANGED disk /\ UNCHANGED <<lock, clears>>

ClearCache ==
  /\ clears < MaxClears
  /\ clears' = clears + 1
  /\ entry' = "absent" /\ record' = "none"
  /\ UNCHANGED <<trees, lock, run, restarts>>

-----------------------------------------------------------------------------
Step(p) ==
  \/ Find(p) \/ Prepare(p) \/ AcquireLock(p) \/ StageEntry(p) \/ PublishEntry(p)
  \/ CheckRecord(p) \/ Launch(p) \/ Open(p) \/ Stage(p)
  \/ BeginStream(p) \/ Receive(p) \/ Drain(p) \/ PublishTree(p)
  \/ EndWorker(p) \/ TruncateRecord(p) \/ WriteRecord(p) \/ FindAgain(p)

Next ==
  \/ \E p \in Programs : \/ Step(p) \/ Kill(p) \/ StartAgain(p)
                         \/ \E token \in Tokens : Signal(p, token)
  \/ ClearCache

\* A program that was started runs on until it exits.
Spec == Init /\ [][Next]_vars /\ \A p \in Programs : WF_vars(Step(p))

-----------------------------------------------------------------------------
\* Properties.

\* "Media" stands for what is refused before the worker is launched, "Worker"
\* for what fails between its launch and the staging.
Errors == {"SourceChanged", "ManifestConflict", "CacheBusy", "ManifestWriteFailed",
           "Cancelled", "Media", "Worker", "Staging", "Provenance"}

\* What run_import returns is what it did: an error other than Provenance
\* published nothing, a success has its payload published, whichever token was
\* signalled when, no way out leaves the worker running or shuts down in order
\* a session that failed, and what is recorded has been published.
Exited(p) == At(p, "exited") /\ run[p].result # "killed"
OutcomeIsTrue ==
  /\ \A p \in Programs : Exited(p) =>
       /\ run[p].result \in Errors \ {"Provenance"} => ~run[p].published
       /\ run[p].result = "imported" /\ run[p].worker # "none" => run[p].id \in trees
       /\ run[p].worker # "running"
       /\ run[p].worker = "orderly" => run[p].failure = "none"
  /\ record \notin Unrecorded => record \in trees

\* A cache entry is whole from the moment it can be seen
\* (prepare_import_cache): nobody meets a directory without a manifest, or a
\* conflict with a medium that is its own, unless the cache was cleared while
\* an import ran, whose record then puts the bare directory back.
EntryIsWhole ==
  clears = 0 => /\ entry # "bare"
                /\ \A p \in Programs : run[p].result # "ManifestConflict"

\* A program that reports an import finds the payload (locate_payload_files),
\* unless another one is in the middle of rewriting the record, was killed or
\* failed there, or the cache was cleared.
RewritesRecord(q) == At(q, "write record") \/ run[q].spoilt
ImportIsFound ==
  [][\A p \in Programs : FindAgain(p) =>
       \/ run'[p].found # "none"
       \/ clears > 0
       \/ \E q \in Programs \ {p} : RewritesRecord(q)]_vars

\* Every started program exits: no lock, no drain and no other program keeps
\* it (AcquireLock never waits, drain_cancellation ends with its session).
ProgramsExit == \A p \in Programs : run[p].pc # "exited" ~> At(p, "exited")
============================================================================
