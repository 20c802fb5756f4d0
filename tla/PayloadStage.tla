---------------------------- MODULE PayloadStage ----------------------------
(***************************************************************************)
(* The import commit protocol (ohl-payload stage.rs, store.rs, stream.rs   *)
(* over ohl-platform atomic_directory.rs and stability.rs): importers in   *)
(* separate processes stage the same plan of the same accepted source into *)
(* one store.  Every system call of stage_payload that the disk can refuse *)
(* is a step; a process can be killed and the power can fail between any   *)
(* two of them.                                                            *)
(*                                                                         *)
(* A staged tree is abstracted to what probe, publication and a crash tell *)
(* apart: the units written to each planned entry, whether any of them was *)
(* read from a source that is no longer the accepted one, and what has     *)
(* been synced.  Source version 0 is the accepted one; a changed source    *)
(* never returns to it.                                                    *)
(***************************************************************************)
EXTENDS Naturals

CONSTANTS Importers,
          EntryCount,        \* planned entries
          EntrySize,         \* their declared sizes, in units
          MaxChunk,          \* the longest chunk a source offers, in units
          MaxRuns,           \* bound on the runs of one importer
          MaxSourceChanges,  \* bound on changes of the source
          MaxOutsideSteps,   \* bound on steps of other users of the disk
          Absent, Outsider

ASSUME PlanAssumption ==
    /\ EntryCount \in Nat
    /\ EntrySize \in [1..EntryCount -> Nat]
    /\ MaxChunk \in Nat
ASSUME BoundsAssumption ==
    MaxRuns \in Nat /\ MaxSourceChanges \in Nat /\ MaxOutsideSteps \in Nat
ASSUME HolderAssumption ==
    Absent # Outsider /\ {Absent, Outsider} \cap (Importers \X Nat) = {}

VARIABLES
    pc,         \* the next step of each importer's stage_payload
    run,        \* how often each importer has started
    stop,       \* where each importer was when a stop was requested
    tree,       \* the staging tree each importer owns
    report,     \* its PayloadStageReport
    published,  \* what the plan's published name holds
    durable,    \* the published name itself has been synced
    source,     \* the version of the pinned source
    abandoned,  \* staging trees on disk that no process owns
    outside     \* steps taken by other users of the disk

importerVars == <<pc, run, stop, tree, report>>
diskVars == <<published, durable>>
worldVars == <<source, abandoned, outside>>
vars == <<importerVars, diskVars, worldVars>>

Entries == 1..EntryCount
Publishers == Importers \X Nat
Phases == {"Validation", "Probe", "Begin", "OpenFile", "StreamFile", "SealFile",
           "SealCompletion", "SyncStaged", "VerifySource", "Cancellation", "Publish",
           "Abort", "Revalidate", "SyncPublishedParent", "Complete"}
Ended == {"Done", "Killed"}
Statuses == {"Failed", "CleanupFailed", "CacheHit", "Conflict",
             "PublishedSyncComplete", "PublishedSyncUncertain"}
Errors == {"None", "InvalidRequest", "StoreFailure", "StreamFailure",
           "SourceVerificationFailure", "Cancelled", "PublishFailure",
           "RevalidationFailure", "CleanupFailure", "PublishedSyncFailure"}
Cleanups == {"None", "Done", "Failed"}

Trees == [exists : BOOLEAN, written : [Entries -> Nat], sealed : Nat,
          mixed : BOOLEAN, complete : BOOLEAN, synced : BOOLEAN]
Reports == [status : Statuses, phase : Phases, error : Errors, cleanup : Cleanups]

NoTree == [exists |-> FALSE, written |-> [k \in Entries |-> 0], sealed |-> 0,
           mixed |-> FALSE, complete |-> FALSE, synced |-> FALSE]
EmptyTree == [NoTree EXCEPT !.exists = TRUE]
Reported(status, phase, error, cleanup) ==
    [status |-> status, phase |-> phase, error |-> error, cleanup |-> cleanup]
FailedReport == Reported("Failed", "Validation", "None", "None")

(* What probe compares: the completion document, and the names and sizes of  *)
(* the files.  It does not read their bytes.                                 *)
Matches(t) == t.exists /\ t.complete /\ t.written = EntrySize

(* A payload nobody could fault: the planned tree, wholly read from the      *)
(* accepted source.                                                          *)
Whole(t) == Matches(t) /\ ~t.mixed

Init ==
    /\ pc = [i \in Importers |-> "Validation"]
    /\ run = [i \in Importers |-> 1]
    /\ stop = [i \in Importers |-> "Never"]
    /\ tree = [i \in Importers |-> NoTree]
    /\ report = [i \in Importers |-> FailedReport]
    /\ published \in {[by |-> Absent, tree |-> NoTree], [by |-> Outsider, tree |-> NoTree]}
    /\ durable = TRUE
    /\ source = 0 /\ abandoned = 0 /\ outside = 0

-----------------------------------------------------------------------------
Stopped(i) == stop[i] # "Never"

\* Stop with this status and error at this step.
Finish(i, status, phase, error) ==
    /\ pc' = [pc EXCEPT ![i] = "Done"]
    /\ report' = [report EXCEPT ![i] = Reported(status, phase, error, @.cleanup)]

\* Record the error and hand over to the abort.
AbortWith(i, phase, error) ==
    /\ pc' = [pc EXCEPT ![i] = "Abort"]
    /\ report' = [report EXCEPT ![i] = Reported(@.status, phase, error, @.cleanup)]

Goto(i, phase) == pc' = [pc EXCEPT ![i] = phase] /\ UNCHANGED report

AfterEntry(sealed) == IF sealed = EntryCount THEN "SealCompletion" ELSE "OpenFile"

(* prepare refuses the request or the capability; otherwise the first stop   *)
(* check follows.                                                            *)
Validate(i) ==
    /\ pc[i] = "Validation"
    /\ \/ \E error \in {"InvalidRequest", "SourceVerificationFailure"} :
              Finish(i, "Failed", "Validation", error)
       \/ Stopped(i) /\ Finish(i, "Failed", "Cancellation", "Cancelled")
       \/ ~Stopped(i) /\ Goto(i, "Probe")
    /\ UNCHANGED <<run, stop, tree, diskVars, worldVars>>

Probe(i) ==
    /\ pc[i] = "Probe"
    /\ \/ Finish(i, "Failed", "Probe", "StoreFailure")
       \/ Matches(published.tree) /\ Finish(i, "CacheHit", "Probe", "None")
       \/ /\ published.by # Absent /\ ~Matches(published.tree)
          /\ Finish(i, "Conflict", "Probe", "None")
       \/ published.by = Absent /\ Goto(i, "Begin")
    /\ UNCHANGED <<run, stop, tree, diskVars, worldVars>>

(* A failed begin owns no staging directory: what it had created is removed  *)
(* by Drop, whose failure is not reported, and the abort finds nothing.      *)
Begin(i) ==
    /\ pc[i] = "Begin"
    /\ \/ /\ Goto(i, AfterEntry(0))
          /\ tree' = [tree EXCEPT ![i] = EmptyTree]
       \/ /\ pc' = [pc EXCEPT ![i] = "Done"]
          /\ report' = [report EXCEPT ![i] = Reported("Failed", "Begin", "StoreFailure", "Done")]
          /\ \E left \in {NoTree, EmptyTree} : tree' = [tree EXCEPT ![i] = left]
    /\ UNCHANGED <<run, stop, diskVars, worldVars>>

OpenFile(i) ==
    /\ pc[i] = "OpenFile"
    /\ \/ Goto(i, "StreamFile")
       \/ AbortWith(i, "OpenFile", "StoreFailure")
    /\ UNCHANGED <<run, stop, tree, diskVars, worldVars>>

Fits(t, k, units) == t.written[k] + units <= EntrySize[k]

\* More units of entry k, read from the source as it is now.
WithUnits(t, k, units) ==
    [t EXCEPT !.written = [t.written EXCEPT ![k] = @ + units],
              !.mixed = t.mixed \/ source # 0]

(* One chunk offered to the bounded sink: stop is polled, a chunk past the   *)
(* declared size is refused before the file is touched, and the disk may     *)
(* refuse the rest.                                                          *)
WriteChunk(i) ==
    LET k == tree[i].sealed + 1
    IN  /\ pc[i] = "StreamFile"
        /\ ~Stopped(i)
        /\ \E units \in 1..MaxChunk :
              \/ /\ Fits(tree[i], k, units)
                 /\ tree' = [tree EXCEPT ![i] = WithUnits(tree[i], k, units)]
                 /\ UNCHANGED <<pc, report>>
              \/ /\ AbortWith(i, "StreamFile", "StreamFailure")
                 /\ UNCHANGED tree
        /\ UNCHANGED <<run, stop, diskVars, worldVars>>

(* The source returns: a stop wins over its own failure, which wins over an  *)
(* inexact byte count.                                                       *)
EndStream(i) ==
    LET k == tree[i].sealed + 1
    IN  /\ pc[i] = "StreamFile"
        /\ \/ Stopped(i) /\ AbortWith(i, "StreamFile", "Cancelled")
           \/ ~Stopped(i) /\ AbortWith(i, "StreamFile", "StreamFailure")
           \/ /\ ~Stopped(i) /\ tree[i].written[k] = EntrySize[k]
              /\ Goto(i, "SealFile")
        /\ UNCHANGED <<run, stop, tree, diskVars, worldVars>>

\* The file is synced and closed.
SealFile(i) ==
    /\ pc[i] = "SealFile"
    /\ \/ /\ Goto(i, AfterEntry(tree[i].sealed + 1))
          /\ tree' = [tree EXCEPT ![i].sealed = @ + 1]
       \/ AbortWith(i, "SealFile", "StoreFailure") /\ UNCHANGED tree
    /\ UNCHANGED <<run, stop, diskVars, worldVars>>

\* The completion document is written and synced after every entry is sealed.
SealCompletion(i) ==
    /\ pc[i] = "SealCompletion"
    /\ \/ /\ Goto(i, "SyncStaged")
          /\ tree' = [tree EXCEPT ![i].complete = TRUE]
       \/ AbortWith(i, "SealCompletion", "StoreFailure") /\ UNCHANGED tree
    /\ UNCHANGED <<run, stop, diskVars, worldVars>>

\* The staged directories are synced, deepest first; the transaction is Ready.
SyncStaged(i) ==
    /\ pc[i] = "SyncStaged"
    /\ \/ /\ Goto(i, "VerifySource")
          /\ tree' = [tree EXCEPT ![i].synced = TRUE]
       \/ AbortWith(i, "SealCompletion", "StoreFailure") /\ UNCHANGED tree
    /\ UNCHANGED <<run, stop, diskVars, worldVars>>

\* Mutant: the source is taken to be unchanged.
VerifySourceUnread(i) ==
    /\ pc[i] = "VerifySource"
    /\ Goto(i, "Cancellation")
    /\ UNCHANGED <<run, stop, tree, diskVars, worldVars>>

(* The complete source is rehashed.  Stop is polled before the first read    *)
(* and after each chunk but the last, so that a late stop does not fail it.  *)
VerifySource(i) ==
    /\ pc[i] = "VerifySource"
    /\ \/ Stopped(i) /\ AbortWith(i, "VerifySource", "Cancelled")
       \/ AbortWith(i, "VerifySource", "SourceVerificationFailure")
       \/ source = 0 /\ Goto(i, "Cancellation")
    /\ UNCHANGED <<run, stop, tree, diskVars, worldVars>>

\* Mutant: no check between verification and publication.
FinalCheckSkipped(i) ==
    /\ pc[i] = "Cancellation"
    /\ Goto(i, "Publish")
    /\ UNCHANGED <<run, stop, tree, diskVars, worldVars>>

FinalCheck(i) ==
    /\ pc[i] = "Cancellation"
    /\ \/ Stopped(i) /\ AbortWith(i, "Cancellation", "Cancelled")
       \/ ~Stopped(i) /\ Goto(i, "Publish")
    /\ UNCHANGED <<run, stop, tree, diskVars, worldVars>>

\* Mutant: a plain rename.
PublishReplacing(i) ==
    /\ pc[i] = "Publish"
    /\ published' = [by |-> <<i, run[i]>>, tree |-> tree[i]]
    /\ durable' = FALSE
    /\ tree' = [tree EXCEPT ![i] = NoTree]
    /\ Goto(i, "SyncPublishedParent")
    /\ UNCHANGED <<run, stop, worldVars>>

(* The commit point: one rename that refuses to replace.  A loser keeps its  *)
(* staging tree and aborts it before it looks at the winner.                 *)
Publish(i) ==
    /\ pc[i] = "Publish"
    /\ \/ /\ published.by = Absent
          /\ published' = [by |-> <<i, run[i]>>, tree |-> tree[i]]
          /\ durable' = FALSE
          /\ tree' = [tree EXCEPT ![i] = NoTree]
          /\ Goto(i, "SyncPublishedParent")
       \/ /\ published.by # Absent
          /\ AbortWith(i, "Revalidate", "None")
          /\ UNCHANGED <<tree, diskVars>>
       \/ /\ AbortWith(i, "Publish", "PublishFailure")
          /\ UNCHANGED <<tree, diskVars>>
    /\ UNCHANGED <<run, stop, worldVars>>

SyncPublishedParent(i) ==
    /\ pc[i] = "SyncPublishedParent"
    /\ \/ /\ durable' = TRUE
          /\ Finish(i, "PublishedSyncComplete", "Complete", "None")
       \/ /\ Finish(i, "PublishedSyncUncertain", "SyncPublishedParent",
                    "PublishedSyncFailure")
          /\ UNCHANGED durable
    /\ UNCHANGED <<run, stop, tree, published, worldVars>>

\* Mutant: a refused removal is reported as a clean abort.
AbortUnreported(i) ==
    /\ pc[i] = "Abort"
    /\ pc' = [pc EXCEPT ![i] = IF report[i].phase = "Revalidate" THEN "Revalidate"
                               ELSE "Done"]
    /\ report' = [report EXCEPT ![i].cleanup = "Done"]
    /\ \E left \in {NoTree, tree[i]} : tree' = [tree EXCEPT ![i] = left]
    /\ UNCHANGED <<run, stop, diskVars, worldVars>>

(* The staging tree is removed, or left in place when the disk refuses.      *)
Abort(i) ==
    /\ pc[i] = "Abort"
    /\ pc' = [pc EXCEPT ![i] = IF report[i].phase = "Revalidate" THEN "Revalidate"
                               ELSE "Done"]
    /\ \/ /\ tree' = [tree EXCEPT ![i] = NoTree]
          /\ report' = [report EXCEPT ![i].cleanup = "Done"]
       \/ report' = [report EXCEPT ![i].cleanup = "Failed"] /\ UNCHANGED tree
    /\ UNCHANGED <<run, stop, diskVars, worldVars>>

(* The loser of the publication race re-probes; a failed cleanup masks what  *)
(* it finds.                                                                 *)
Revalidate(i) ==
    LET cleaned == report[i].cleanup = "Done"
    IN  /\ pc[i] = "Revalidate"
        /\ \/ ~cleaned /\ Finish(i, "CleanupFailed", "Revalidate", "CleanupFailure")
           \/ cleaned /\ Finish(i, "Failed", "Revalidate", "RevalidationFailure")
           \/ /\ cleaned /\ Matches(published.tree)
              /\ Finish(i, "CacheHit", "Revalidate", "None")
           \/ /\ cleaned /\ published.by # Absent /\ ~Matches(published.tree)
              /\ Finish(i, "Conflict", "Revalidate", "None")
        /\ UNCHANGED <<run, stop, tree, diskVars, worldVars>>

Stage(i) ==
    \/ Validate(i) \/ Probe(i) \/ Begin(i) \/ OpenFile(i) \/ WriteChunk(i)
    \/ EndStream(i) \/ SealFile(i) \/ SealCompletion(i) \/ SyncStaged(i)
    \/ VerifySource(i) \/ FinalCheck(i) \/ Publish(i) \/ SyncPublishedParent(i)
    \/ Abort(i) \/ Revalidate(i)

-----------------------------------------------------------------------------
\* Another thread sets the stop flag, once, at any moment.
RequestStop(i) ==
    /\ pc[i] \notin Ended /\ ~Stopped(i)
    /\ stop' = [stop EXCEPT ![i] = pc[i]]
    /\ UNCHANGED <<pc, run, tree, report, diskVars, worldVars>>

Kill(i) ==
    /\ pc[i] \notin Ended
    /\ pc' = [pc EXCEPT ![i] = "Killed"]
    /\ UNCHANGED <<run, stop, tree, report, diskVars, worldVars>>

\* A later process imports again; what the earlier one left stays on disk.
Retry(i) ==
    /\ pc[i] \in Ended /\ run[i] < MaxRuns
    /\ pc' = [pc EXCEPT ![i] = "Validation"]
    /\ run' = [run EXCEPT ![i] = @ + 1]
    /\ stop' = [stop EXCEPT ![i] = "Never"]
    /\ tree' = [tree EXCEPT ![i] = NoTree]
    /\ report' = [report EXCEPT ![i] = FailedReport]
    /\ abandoned' = abandoned + (IF tree[i].exists THEN 1 ELSE 0)
    /\ UNCHANGED <<diskVars, source, outside>>

(* discard_interrupted_stages sweeps by name and stops at the first failure. *)
(* Its caller must know that nobody is staging.                              *)
DiscardInterruptedStages ==
    /\ abandoned > 0
    /\ \A i \in Importers : pc[i] \notin Ended => ~tree[i].exists
    /\ abandoned' \in 0..(abandoned - 1)
    /\ UNCHANGED <<importerVars, diskVars, source, outside>>

(* What the disk holds of a tree after a power failure: only a tree whose    *)
(* files, completion document and directories were all synced is certain.    *)
Survives(t) == t.exists /\ t.sealed = EntryCount /\ t.complete /\ t.synced
Survivors(t) == IF Survives(t) THEN {t} ELSE {t, [NoTree EXCEPT !.exists = TRUE]}

PowerFails ==
    /\ pc' = [i \in Importers |-> IF pc[i] \in Ended THEN pc[i] ELSE "Killed"]
    /\ \/ ~durable /\ published' = [by |-> Absent, tree |-> NoTree]
       \/ /\ published.by \in Publishers
          /\ \E t \in Survivors(published.tree) : published' = [published EXCEPT !.tree = t]
       \/ published.by \notin Publishers /\ UNCHANGED published
    /\ durable' = TRUE
    /\ UNCHANGED <<run, stop, tree, report, worldVars>>

SourceChanges ==
    /\ source < MaxSourceChanges
    /\ source' = source + 1
    /\ UNCHANGED <<importerVars, diskVars, abandoned, outside>>

\* Someone else puts another object at the name, or removes what is there.
OutsiderActs ==
    /\ outside < MaxOutsideSteps
    /\ outside' = outside + 1
    /\ published' = [by |-> IF published.by = Absent THEN Outsider ELSE Absent,
                     tree |-> NoTree]
    /\ durable' = TRUE
    /\ UNCHANGED <<importerVars, source, abandoned>>

Next ==
    \/ \E i \in Importers : Stage(i) \/ RequestStop(i) \/ Kill(i) \/ Retry(i)
    \/ DiscardInterruptedStages \/ PowerFails \/ SourceChanges \/ OutsiderActs

\* A process that is not killed keeps executing stage_payload.
Fairness == \A i \in Importers : WF_vars(Stage(i))

Spec == Init /\ [][Next]_vars /\ Fairness

-----------------------------------------------------------------------------
\* The variables keep the types of the fields they model.
TypeOK ==
    /\ pc \in [Importers -> Phases \cup Ended]
    /\ run \in [Importers -> Nat]
    /\ stop \in [Importers -> Phases \cup {"Never"}]
    /\ tree \in [Importers -> Trees]
    /\ report \in [Importers -> Reports]
    /\ published \in [by : Publishers \cup {Absent, Outsider}, tree : Trees]
    /\ durable \in BOOLEAN
    /\ source \in Nat /\ abandoned \in Nat /\ outside \in Nat
    /\ \A i \in Importers : \A k \in Entries : tree[i].written[k] <= EntrySize[k]

(* Whatever raced, failed or crashed, a published name holds every planned   *)
(* byte, all of it read from the accepted source: no mix of source states,   *)
(* no torn tree after a power failure.                                       *)
PublishedIsWhole == published.by \in Publishers => Whole(published.tree)

Holds(i) == published.by = <<i, run[i]>>
PublishedStatuses == {"PublishedSyncComplete", "PublishedSyncUncertain"}

(* The report agrees with the disk.  An attempt that does not report a       *)
(* publication has published nothing; one that reports a complete sync is    *)
(* beyond a power failure; and a staging tree left behind is reported as a   *)
(* failed cleanup, except where begin itself failed.                         *)
ReportIsTrue ==
    \A i \in Importers : pc[i] = "Done" =>
        /\ Holds(i) => report[i].status \in PublishedStatuses
        /\ Holds(i) /\ report[i].status = "PublishedSyncComplete" => durable
        /\ report[i].status \in PublishedStatuses \cup {"CacheHit"} => ~tree[i].exists
        /\ tree[i].exists => report[i].cleanup = "Failed" \/ report[i].phase = "Begin"

(* A stop requested at any moment before the last check prevents             *)
(* publication, even one that arrives while the source is being verified.    *)
StopPreventsPublication ==
    \A i \in Importers :
        pc[i] = "SyncPublishedParent" \/ (pc[i] = "Done" /\ Holds(i)) =>
            stop[i] \in {"Never", "Publish", "SyncPublishedParent"}

Name == INSTANCE PublishedPayload
    WITH holder <- published.by, whole <- Whole(published.tree)

(* The store implements the published name: one step from absent to a whole  *)
(* payload, never replaced by another importer, lost only before the sync.   *)
ImplementsPublishedPayload == Name!Spec
=============================================================================
