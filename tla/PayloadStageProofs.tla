------------------------- MODULE PayloadStageProofs -------------------------
(***************************************************************************)
(* Safety of the commit protocol for every number of importers, entries,   *)
(* chunks and runs: the inductive invariant follows each importer's        *)
(* staging tree through the steps of stage_payload.                        *)
(***************************************************************************)
EXTENDS PayloadStage, TLAPS

LateStops == {"Never", "Publish", "SyncPublishedParent"}
Writing == {"OpenFile", "StreamFile", "SealFile"}
Filled == {"SealCompletion", "SyncStaged", "VerifySource", "Cancellation", "Publish"}

(* What one importer knows at each step, as a relation on its own state.     *)
StepInv(p, t, s, r, src) ==
    /\ p \in Writing => /\ t.sealed < EntryCount
                        /\ \A k \in Entries : k <= t.sealed => t.written[k] = EntrySize[k]
    /\ p = "SealFile" => t.written[t.sealed + 1] = EntrySize[t.sealed + 1]
    /\ p \in Writing \cup Filled => t.exists
    /\ p \in Filled => t.sealed = EntryCount /\ t.written = EntrySize
    /\ p \in Filled \ {"SealCompletion"} => t.complete
    /\ p \in {"VerifySource", "Cancellation", "Publish"} => t.synced
    /\ p \in {"Cancellation", "Publish"} => ~t.mixed
    /\ src = 0 => ~t.mixed
    /\ p \in {"Validation", "Probe", "Begin", "SyncPublishedParent"} => ~t.exists
    /\ p \notin Ended => r.status = "Failed"
    /\ p = "Revalidate" => r.cleanup \in {"Done", "Failed"} /\ (t.exists => r.cleanup = "Failed")
    /\ p = "Done" =>
          /\ r.status \in PublishedStatuses \cup {"CacheHit"} => ~t.exists
          /\ t.exists => r.cleanup = "Failed" \/ r.phase = "Begin"
    /\ p \in {"Publish", "SyncPublishedParent"} => s \in LateStops

StepsInv == \A i \in Importers : StepInv(pc[i], tree[i], stop[i], report[i], source)

\* A published tree is whole and beyond a power failure; nothing else has one.
NameInv ==
    /\ published.by \in Publishers => Whole(published.tree) /\ Survives(published.tree)
    /\ published.by \notin Publishers => published.tree = NoTree

\* Only the run that renamed its tree holds the name, and its report says so.
HolderInv(i) ==
    /\ published.by \in Publishers /\ published.by[1] = i => published.by[2] <= run[i]
    /\ Holds(i) =>
          /\ pc[i] \in {"SyncPublishedParent", "Done", "Killed"}
          /\ stop[i] \in LateStops
          /\ pc[i] = "Done" => /\ report[i].status \in PublishedStatuses
                               /\ report[i].status = "PublishedSyncComplete" => durable

Inv == TypeOK /\ StepsInv /\ NameInv /\ \A i \in Importers : HolderInv(i)

Others(i) ==
    \A j \in Importers : j # i =>
        /\ pc'[j] = pc[j] /\ report'[j] = report[j] /\ tree'[j] = tree[j]
        /\ stop'[j] = stop[j] /\ run'[j] = run[j]

-----------------------------------------------------------------------------
(* The three ways a step of stage_payload leaves its program counter and its *)
(* report.                                                                   *)
LEMMA GotoEffect ==
    ASSUME TypeOK, NEW i \in Importers, NEW phase \in Phases, Goto(i, phase)
    PROVE  /\ pc' \in [Importers -> Phases \cup Ended]
           /\ report' \in [Importers -> Reports]
           /\ pc'[i] = phase /\ report'[i] = report[i]
           /\ \A j \in Importers : j # i => pc'[j] = pc[j] /\ report'[j] = report[j]
BY DEF TypeOK, Goto

LEMMA FinishEffect ==
    ASSUME TypeOK, NEW i \in Importers, NEW status \in Statuses, NEW phase \in Phases,
           NEW error \in Errors, Finish(i, status, phase, error)
    PROVE  /\ pc' \in [Importers -> Phases \cup Ended]
           /\ report' \in [Importers -> Reports]
           /\ pc'[i] = "Done"
           /\ report'[i] = Reported(status, phase, error, report[i].cleanup)
           /\ \A j \in Importers : j # i => pc'[j] = pc[j] /\ report'[j] = report[j]
<1>1. report[i].cleanup \in Cleanups
  BY DEF TypeOK, Reports
<1>2. report' \in [Importers -> Reports]
  BY <1>1 DEF TypeOK, Reports, Finish, Reported
<1> QED BY <1>2 DEF TypeOK, Finish, Ended

LEMMA AbortWithEffect ==
    ASSUME TypeOK, NEW i \in Importers, NEW phase \in Phases, NEW error \in Errors,
           AbortWith(i, phase, error)
    PROVE  /\ pc' \in [Importers -> Phases \cup Ended]
           /\ report' \in [Importers -> Reports]
           /\ pc'[i] = "Abort"
           /\ report'[i] = Reported(report[i].status, phase, error, report[i].cleanup)
           /\ \A j \in Importers : j # i => pc'[j] = pc[j] /\ report'[j] = report[j]
<1>1. report[i].cleanup \in Cleanups /\ report[i].status \in Statuses
  BY DEF TypeOK, Reports
<1>2. report' \in [Importers -> Reports]
  BY <1>1 DEF TypeOK, Reports, AbortWith, Reported
<1> QED BY <1>2 DEF TypeOK, AbortWith, Phases

LEMMA TreesOfNone == NoTree \in Trees /\ EmptyTree \in Trees /\ ~NoTree.exists
                     /\ EmptyTree.exists /\ ~EmptyTree.mixed /\ EmptyTree.sealed = 0
                     /\ ~NoTree.mixed
                     /\ \A k \in Entries : NoTree.written[k] = 0 /\ EmptyTree.written[k] = 0
BY DEF NoTree, EmptyTree, Trees

(* A step of one importer that leaves the disk and the source alone keeps    *)
(* the invariant when it keeps its own part of it.                           *)
LEMMA LocalStep ==
    ASSUME Inv, TypeOK', NEW i \in Importers, Others(i),
           UNCHANGED <<run, published, durable, source>>,
           StepInv(pc'[i], tree'[i], stop'[i], report'[i], source),
           HolderInv(i)'
    PROVE  Inv'
<1>1. StepsInv'
  BY DEF Inv, StepsInv, Others
<1>2. NameInv'
  BY DEF Inv, NameInv
<1>3. ASSUME NEW j \in Importers PROVE HolderInv(j)'
  <2>1. CASE j = i
    BY <2>1
  <2>2. CASE j # i
    BY <2>2 DEF Inv, HolderInv, Others, Holds
  <2> QED BY <2>1, <2>2
<1> QED BY <1>1, <1>2, <1>3 DEF Inv

(* Before its rename, and once its abort has begun, an importer does not     *)
(* hold the name.                                                            *)
LEMMA QuietStep ==
    ASSUME Inv, TypeOK', NEW i \in Importers, Others(i),
           UNCHANGED <<run, published, durable, source>>,
           StepInv(pc'[i], tree'[i], stop'[i], report'[i], source),
           pc[i] \notin {"SyncPublishedParent", "Done", "Killed"}
    PROVE  Inv'
<1>1. HolderInv(i)'
  BY DEF Inv, HolderInv, Holds
<1> QED BY <1>1, LocalStep

(* A step that touches only its program counter and its report. *)
LEMMA PcStep ==
    ASSUME Inv, NEW i \in Importers,
           pc' \in [Importers -> Phases \cup Ended], report' \in [Importers -> Reports],
           \A j \in Importers : j # i => pc'[j] = pc[j] /\ report'[j] = report[j],
           UNCHANGED <<run, stop, tree, diskVars, worldVars>>,
           StepInv(pc'[i], tree[i], stop[i], report'[i], source),
           pc[i] \notin {"SyncPublishedParent", "Done", "Killed"}
    PROVE  Inv'
<1>1. TypeOK'
  BY DEF Inv, TypeOK, diskVars, worldVars
<1>2. Others(i)
  BY DEF Others
<1> QED BY <1>1, <1>2, QuietStep DEF diskVars, worldVars

(* A step that also replaces its staging tree. *)
LEMMA TreeStep ==
    ASSUME Inv, NEW i \in Importers, NEW t \in Trees,
           \A k \in Entries : t.written[k] <= EntrySize[k],
           tree' = [tree EXCEPT ![i] = t],
           pc' \in [Importers -> Phases \cup Ended], report' \in [Importers -> Reports],
           \A j \in Importers : j # i => pc'[j] = pc[j] /\ report'[j] = report[j],
           UNCHANGED <<run, stop, diskVars, worldVars>>,
           StepInv(pc'[i], t, stop[i], report'[i], source),
           pc[i] \notin {"SyncPublishedParent", "Done", "Killed"}
    PROVE  Inv'
<1>0. tree'[i] = t /\ \A j \in Importers : j # i => tree'[j] = tree[j]
  BY DEF Inv, TypeOK
<1>1. TypeOK'
  <2>1. tree' \in [Importers -> Trees]
    BY DEF Inv, TypeOK
  <2>2. \A j \in Importers : \A k \in Entries : tree'[j].written[k] <= EntrySize[k]
    BY <1>0 DEF Inv, TypeOK
  <2> QED BY <2>1, <2>2 DEF Inv, TypeOK, diskVars, worldVars
<1>2. Others(i)
  BY <1>0 DEF Others
<1> QED BY <1>0, <1>1, <1>2, QuietStep DEF diskVars, worldVars

-----------------------------------------------------------------------------
LEMMA ValidateKeepsInv ==
    ASSUME Inv, NEW i \in Importers, Validate(i)
    PROVE  Inv'
<1>0. TypeOK /\ StepInv("Validation", tree[i], stop[i], report[i], source)
  BY DEF Inv, StepsInv, Validate
<1>1. ASSUME NEW error \in {"InvalidRequest", "SourceVerificationFailure"},
             Finish(i, "Failed", "Validation", error)
      PROVE  Inv'
  <2>1. error \in Errors /\ "Validation" \in Phases /\ "Failed" \in Statuses
    BY DEF Errors, Phases, Statuses
  <2> QED BY <1>0, <1>1, <2>1, FinishEffect, PcStep
          DEF Validate, StepInv, Reported, Writing, Filled, Ended, PublishedStatuses
<1>2. CASE Finish(i, "Failed", "Cancellation", "Cancelled")
  <2>1. "Cancelled" \in Errors /\ "Cancellation" \in Phases /\ "Failed" \in Statuses
    BY DEF Errors, Phases, Statuses
  <2> QED BY <1>0, <1>2, <2>1, FinishEffect, PcStep
          DEF Validate, StepInv, Reported, Writing, Filled, Ended, PublishedStatuses
<1>3. CASE Goto(i, "Probe")
  <2>1. "Probe" \in Phases
    BY DEF Phases
  <2> QED BY <1>0, <1>3, <2>1, GotoEffect, PcStep
          DEF Validate, StepInv, Writing, Filled, Ended
<1> QED BY <1>1, <1>2, <1>3 DEF Validate

(* Every failure between begin and publication records its error and turns   *)
(* to the abort.                                                             *)
LEMMA AbortWithKeepsInv ==
    ASSUME Inv, NEW i \in Importers, NEW phase \in Phases, NEW error \in Errors,
           AbortWith(i, phase, error),
           UNCHANGED <<run, stop, tree, diskVars, worldVars>>,
           pc[i] \notin {"SyncPublishedParent", "Done", "Killed"}
    PROVE  Inv'
<1>1. TypeOK /\ StepInv(pc[i], tree[i], stop[i], report[i], source)
  BY DEF Inv, StepsInv
<1>2. StepInv("Abort", tree[i], stop[i], Reported(report[i].status, phase, error,
              report[i].cleanup), source)
  BY <1>1 DEF StepInv, Reported, Writing, Filled, Ended
<1> QED BY <1>1, <1>2, AbortWithEffect, PcStep

LEMMA ProbeKeepsInv ==
    ASSUME Inv, NEW i \in Importers, Probe(i)
    PROVE  Inv'
<1>0. TypeOK /\ StepInv("Probe", tree[i], stop[i], report[i], source)
  BY DEF Inv, StepsInv, Probe
<1>1. ASSUME NEW status \in {"Failed", "CacheHit", "Conflict"},
             NEW error \in {"None", "StoreFailure"}, Finish(i, status, "Probe", error)
      PROVE  Inv'
  <2>1. error \in Errors /\ "Probe" \in Phases /\ status \in Statuses
    BY DEF Errors, Phases, Statuses
  <2> QED BY <1>0, <1>1, <2>1, FinishEffect, PcStep
          DEF Probe, StepInv, Reported, Writing, Filled, Ended, PublishedStatuses
<1>2. CASE Goto(i, "Begin")
  <2>1. "Begin" \in Phases
    BY DEF Phases
  <2> QED BY <1>0, <1>2, <2>1, GotoEffect, PcStep
          DEF Probe, StepInv, Writing, Filled, Ended
<1> QED BY <1>1, <1>2 DEF Probe

LEMMA BeginKeepsInv ==
    ASSUME Inv, NEW i \in Importers, Begin(i)
    PROVE  Inv'
<1>0. TypeOK /\ StepInv("Begin", tree[i], stop[i], report[i], source)
  BY DEF Inv, StepsInv, Begin
<1>1. \A k \in Entries : /\ EmptyTree.written[k] <= EntrySize[k]
                         /\ NoTree.written[k] <= EntrySize[k]
  BY TreesOfNone, PlanAssumption DEF Entries
<1>2. CASE Goto(i, AfterEntry(0)) /\ tree' = [tree EXCEPT ![i] = EmptyTree]
  <2>1. AfterEntry(0) \in Phases
    BY DEF AfterEntry, Phases
  <2>2. StepInv(AfterEntry(0), EmptyTree, stop[i], report[i], source)
    <3>1. CASE EntryCount = 0
      <4>1. EmptyTree.written = EntrySize
        BY <3>1, PlanAssumption DEF EmptyTree, NoTree, Entries
      <4> QED BY <1>0, <3>1, <4>1, TreesOfNone
              DEF AfterEntry, StepInv, Writing, Filled, Ended
    <3>2. CASE EntryCount # 0
      BY <1>0, <3>2, TreesOfNone, PlanAssumption
         DEF AfterEntry, StepInv, Writing, Filled, Ended, Entries
    <3> QED BY <3>1, <3>2
  <2> QED BY <1>0, <1>1, <1>2, <2>1, <2>2, GotoEffect, TreeStep, TreesOfNone DEF Begin
<1>3. ASSUME NEW left \in {NoTree, EmptyTree}, tree' = [tree EXCEPT ![i] = left],
             pc' = [pc EXCEPT ![i] = "Done"],
             report' = [report EXCEPT ![i] = Reported("Failed", "Begin", "StoreFailure", "Done")]
      PROVE  Inv'
  <2>1. Reported("Failed", "Begin", "StoreFailure", "Done") \in Reports
    BY DEF Reported, Reports, Statuses, Phases, Errors, Cleanups
  <2>2. pc' \in [Importers -> Phases \cup Ended] /\ report' \in [Importers -> Reports]
    BY <1>0, <1>3, <2>1 DEF TypeOK, Ended
  <2>3. StepInv("Done", left, stop[i], Reported("Failed", "Begin", "StoreFailure", "Done"),
                source)
    BY TreesOfNone DEF StepInv, Reported, Writing, Filled, Ended, PublishedStatuses
  <2>4. /\ pc'[i] = "Done"
        /\ report'[i] = Reported("Failed", "Begin", "StoreFailure", "Done")
        /\ \A j \in Importers : j # i => pc'[j] = pc[j] /\ report'[j] = report[j]
    BY <1>0, <1>3 DEF TypeOK
  <2> QED BY <1>1, <1>3, <2>2, <2>3, <2>4, TreeStep, TreesOfNone DEF Begin
<1> QED BY <1>2, <1>3 DEF Begin

LEMMA OpenFileKeepsInv ==
    ASSUME Inv, NEW i \in Importers, OpenFile(i)
    PROVE  Inv'
<1>0. TypeOK /\ StepInv("OpenFile", tree[i], stop[i], report[i], source)
  BY DEF Inv, StepsInv, OpenFile
<1>1. "StreamFile" \in Phases /\ "OpenFile" \in Phases /\ "StoreFailure" \in Errors
  BY DEF Phases, Errors
<1>2. CASE Goto(i, "StreamFile")
  BY <1>0, <1>1, <1>2, GotoEffect, PcStep DEF OpenFile, StepInv, Writing, Filled, Ended
<1>3. CASE AbortWith(i, "OpenFile", "StoreFailure")
  BY <1>1, <1>3, AbortWithKeepsInv DEF OpenFile
<1> QED BY <1>2, <1>3 DEF OpenFile

LEMMA WriteChunkKeepsInv ==
    ASSUME Inv, NEW i \in Importers, WriteChunk(i)
    PROVE  Inv'
<1> DEFINE k == tree[i].sealed + 1
<1>0. TypeOK /\ StepInv("StreamFile", tree[i], stop[i], report[i], source)
  BY DEF Inv, StepsInv, WriteChunk
<1>1. tree[i] \in Trees /\ k \in Entries
  <2>1. tree[i] \in Trees /\ tree[i].sealed \in Nat
    BY <1>0 DEF TypeOK, Trees
  <2>2. tree[i].sealed < EntryCount
    BY <1>0 DEF StepInv, Writing
  <2> QED BY <2>1, <2>2, PlanAssumption DEF Entries
<1>2. ASSUME NEW units \in 1..MaxChunk, Fits(tree[i], k, units),
             tree' = [tree EXCEPT ![i] = WithUnits(tree[i], k, units)],
             UNCHANGED <<pc, report>>
      PROVE  Inv'
  <2> DEFINE t == WithUnits(tree[i], k, units)
  <2>0. tree[i].written \in [Entries -> Nat] /\ units \in Nat
    BY <1>1, <1>2, PlanAssumption DEF Trees
  <2>1. /\ t.exists = tree[i].exists /\ t.sealed = tree[i].sealed
        /\ t.complete = tree[i].complete /\ t.synced = tree[i].synced
        /\ t.written = [tree[i].written EXCEPT ![k] = @ + units]
        /\ t.mixed = (tree[i].mixed \/ source # 0)
    BY <1>1 DEF Trees, WithUnits
  <2>2. t \in Trees
    <3>1. [tree[i].written EXCEPT ![k] = @ + units] \in [Entries -> Nat]
      BY <1>1, <2>0
    <3>2. (tree[i].mixed \/ source # 0) \in BOOLEAN
      OBVIOUS
    <3> QED BY <1>1, <3>1, <3>2 DEF Trees, WithUnits
  <2>3. \A n \in Entries : t.written[n] <= EntrySize[n]
    <3> SUFFICES ASSUME NEW n \in Entries PROVE t.written[n] <= EntrySize[n]
      OBVIOUS
    <3>1. CASE n = k
      <4>1. t.written[k] = tree[i].written[k] + units
        BY <1>1, <2>0, <2>1
      <4> QED BY <1>2, <3>1, <4>1 DEF Fits
    <3>2. CASE n # k
      <4>1. t.written[n] = tree[i].written[n]
        BY <1>1, <2>0, <2>1, <3>2
      <4> QED BY <1>0, <4>1 DEF TypeOK
    <3> QED BY <3>1, <3>2
  <2>4. \A n \in Entries : n <= tree[i].sealed => t.written[n] = tree[i].written[n]
    <3> SUFFICES ASSUME NEW n \in Entries, n <= tree[i].sealed
                 PROVE  t.written[n] = tree[i].written[n]
      OBVIOUS
    <3>1. n # k
      BY <1>1 DEF Entries, Trees
    <3> QED BY <1>1, <2>0, <2>1, <3>1
  <2>5. StepInv("StreamFile", t, stop[i], report[i], source)
    BY <1>0, <2>1, <2>4 DEF StepInv, Writing, Filled, Ended
  <2>6. tree' = [tree EXCEPT ![i] = t]
    BY <1>2
  <2> HIDE DEF t
  <2> QED BY <1>0, <1>2, <2>2, <2>3, <2>5, <2>6, TreeStep DEF WriteChunk, TypeOK
<1>3. CASE AbortWith(i, "StreamFile", "StreamFailure") /\ UNCHANGED tree
  <2>1. "StreamFile" \in Phases /\ "StreamFailure" \in Errors
    BY DEF Phases, Errors
  <2> QED BY <1>3, <2>1, AbortWithKeepsInv DEF WriteChunk
<1> QED BY <1>2, <1>3 DEF WriteChunk

LEMMA EndStreamKeepsInv ==
    ASSUME Inv, NEW i \in Importers, EndStream(i)
    PROVE  Inv'
<1>0. TypeOK /\ StepInv("StreamFile", tree[i], stop[i], report[i], source)
  BY DEF Inv, StepsInv, EndStream
<1>1. /\ "StreamFile" \in Phases /\ "SealFile" \in Phases
      /\ "Cancelled" \in Errors /\ "StreamFailure" \in Errors
  BY DEF Phases, Errors
<1>2. ASSUME NEW error \in {"Cancelled", "StreamFailure"}, AbortWith(i, "StreamFile", error)
      PROVE  Inv'
  BY <1>1, <1>2, AbortWithKeepsInv DEF EndStream
<1>3. CASE /\ tree[i].written[tree[i].sealed + 1] = EntrySize[tree[i].sealed + 1]
           /\ Goto(i, "SealFile")
  BY <1>0, <1>1, <1>3, GotoEffect, PcStep DEF EndStream, StepInv, Writing, Filled, Ended
<1> QED BY <1>2, <1>3 DEF EndStream

LEMMA SealFileKeepsInv ==
    ASSUME Inv, NEW i \in Importers, SealFile(i)
    PROVE  Inv'
<1> DEFINE n == tree[i].sealed + 1
<1>0. TypeOK /\ StepInv("SealFile", tree[i], stop[i], report[i], source)
  BY DEF Inv, StepsInv, SealFile
<1>1. tree[i] \in Trees /\ n \in Entries /\ tree[i].written \in [Entries -> Nat]
  <2>1. /\ tree[i] \in Trees /\ tree[i].sealed \in Nat
        /\ tree[i].written \in [Entries -> Nat]
    BY <1>0 DEF TypeOK, Trees
  <2>2. tree[i].sealed < EntryCount
    BY <1>0 DEF StepInv, Writing
  <2> QED BY <2>1, <2>2, PlanAssumption DEF Entries
<1>2. CASE Goto(i, AfterEntry(n)) /\ tree' = [tree EXCEPT ![i].sealed = @ + 1]
  <2> DEFINE t == [tree[i] EXCEPT !.sealed = @ + 1]
  <2>1. /\ t.exists = tree[i].exists /\ t.sealed = n /\ t.complete = tree[i].complete
        /\ t.synced = tree[i].synced /\ t.written = tree[i].written /\ t.mixed = tree[i].mixed
    BY <1>1 DEF Trees
  <2>2. t \in Trees /\ AfterEntry(n) \in Phases
    BY <1>1 DEF Trees, AfterEntry, Phases
  <2>3. \A k \in Entries : k <= n => t.written[k] = EntrySize[k]
    <3> SUFFICES ASSUME NEW k \in Entries, k <= n PROVE t.written[k] = EntrySize[k]
      OBVIOUS
    <3>1. k = n \/ k <= tree[i].sealed
      BY <1>1 DEF Entries, Trees
    <3> QED BY <1>0, <2>1, <3>1 DEF StepInv, Writing
  <2>4. StepInv(AfterEntry(n), t, stop[i], report[i], source)
    <3>1. CASE n = EntryCount
      <4>1. t.written = EntrySize
        BY <1>1, <2>1, <2>3, <3>1, PlanAssumption DEF Entries
      <4> QED BY <1>0, <2>1, <3>1, <4>1 DEF AfterEntry, StepInv, Writing, Filled, Ended
    <3>2. CASE n # EntryCount
      <4>1. n < EntryCount
        BY <1>1, <3>2, PlanAssumption DEF Entries
      <4> QED BY <1>0, <2>1, <2>3, <3>2, <4>1 DEF AfterEntry, StepInv, Writing, Filled, Ended
    <3> QED BY <3>1, <3>2
  <2>5. \A k \in Entries : t.written[k] <= EntrySize[k]
    BY <1>0, <2>1 DEF TypeOK
  <2>6. tree' = [tree EXCEPT ![i] = t]
    BY <1>2
  <2> HIDE DEF t, n
  <2> QED BY <1>0, <1>2, <2>2, <2>4, <2>5, <2>6, GotoEffect, TreeStep DEF SealFile
<1>3. CASE AbortWith(i, "SealFile", "StoreFailure") /\ UNCHANGED tree
  <2>1. "SealFile" \in Phases /\ "StoreFailure" \in Errors
    BY DEF Phases, Errors
  <2> QED BY <1>3, <2>1, AbortWithKeepsInv DEF SealFile
<1> QED BY <1>2, <1>3 DEF SealFile

LEMMA SealCompletionKeepsInv ==
    ASSUME Inv, NEW i \in Importers, SealCompletion(i)
    PROVE  Inv'
<1>0. TypeOK /\ StepInv("SealCompletion", tree[i], stop[i], report[i], source)
  BY DEF Inv, StepsInv, SealCompletion
<1>1. tree[i] \in Trees
  BY <1>0 DEF TypeOK
<1>2. CASE Goto(i, "SyncStaged") /\ tree' = [tree EXCEPT ![i].complete = TRUE]
  <2> DEFINE t == [tree[i] EXCEPT !.complete = TRUE]
  <2>1. /\ t \in Trees /\ t.exists = tree[i].exists /\ t.sealed = tree[i].sealed
        /\ t.complete /\ t.written = tree[i].written /\ t.mixed = tree[i].mixed
    BY <1>1 DEF Trees
  <2>2. StepInv("SyncStaged", t, stop[i], report[i], source)
    BY <1>0, <2>1 DEF StepInv, Writing, Filled, Ended
  <2>3. /\ \A k \in Entries : t.written[k] <= EntrySize[k]
        /\ tree' = [tree EXCEPT ![i] = t] /\ "SyncStaged" \in Phases
    BY <1>0, <1>2, <2>1 DEF TypeOK, Phases
  <2> HIDE DEF t
  <2>4. /\ pc' \in [Importers -> Phases \cup Ended] /\ report' \in [Importers -> Reports]
        /\ pc'[i] = "SyncStaged" /\ report'[i] = report[i]
        /\ \A j \in Importers : j # i => pc'[j] = pc[j] /\ report'[j] = report[j]
    BY <1>0, <1>2, <2>3, GotoEffect
  <2>5. pc[i] = "SealCompletion" /\ UNCHANGED <<run, stop, diskVars, worldVars>>
    BY DEF SealCompletion
  <2> QED BY <2>1, <2>2, <2>3, <2>4, <2>5, TreeStep
<1>3. CASE AbortWith(i, "SealCompletion", "StoreFailure") /\ UNCHANGED tree
  <2>1. "SealCompletion" \in Phases /\ "StoreFailure" \in Errors
    BY DEF Phases, Errors
  <2> QED BY <1>3, <2>1, AbortWithKeepsInv DEF SealCompletion
<1> QED BY <1>2, <1>3 DEF SealCompletion

LEMMA SyncStagedKeepsInv ==
    ASSUME Inv, NEW i \in Importers, SyncStaged(i)
    PROVE  Inv'
<1>0. TypeOK /\ StepInv("SyncStaged", tree[i], stop[i], report[i], source)
  BY DEF Inv, StepsInv, SyncStaged
<1>1. tree[i] \in Trees
  BY <1>0 DEF TypeOK
<1>2. CASE Goto(i, "VerifySource") /\ tree' = [tree EXCEPT ![i].synced = TRUE]
  <2> DEFINE t == [tree[i] EXCEPT !.synced = TRUE]
  <2>1. /\ t \in Trees /\ t.exists = tree[i].exists /\ t.sealed = tree[i].sealed
        /\ t.synced /\ t.complete = tree[i].complete
        /\ t.written = tree[i].written /\ t.mixed = tree[i].mixed
    BY <1>1 DEF Trees
  <2>2. StepInv("VerifySource", t, stop[i], report[i], source)
    BY <1>0, <2>1 DEF StepInv, Writing, Filled, Ended
  <2>3. /\ \A k \in Entries : t.written[k] <= EntrySize[k]
        /\ tree' = [tree EXCEPT ![i] = t] /\ "VerifySource" \in Phases
    BY <1>0, <1>2, <2>1 DEF TypeOK, Phases
  <2> HIDE DEF t
  <2>4. /\ pc' \in [Importers -> Phases \cup Ended] /\ report' \in [Importers -> Reports]
        /\ pc'[i] = "VerifySource" /\ report'[i] = report[i]
        /\ \A j \in Importers : j # i => pc'[j] = pc[j] /\ report'[j] = report[j]
    BY <1>0, <1>2, <2>3, GotoEffect
  <2>5. pc[i] = "SyncStaged" /\ UNCHANGED <<run, stop, diskVars, worldVars>>
    BY DEF SyncStaged
  <2> QED BY <2>1, <2>2, <2>3, <2>4, <2>5, TreeStep
<1>3. CASE AbortWith(i, "SealCompletion", "StoreFailure") /\ UNCHANGED tree
  <2>1. "SealCompletion" \in Phases /\ "StoreFailure" \in Errors
    BY DEF Phases, Errors
  <2> QED BY <1>3, <2>1, AbortWithKeepsInv DEF SyncStaged
<1> QED BY <1>2, <1>3 DEF SyncStaged

LEMMA VerifySourceKeepsInv ==
    ASSUME Inv, NEW i \in Importers, VerifySource(i)
    PROVE  Inv'
<1>0. TypeOK /\ StepInv("VerifySource", tree[i], stop[i], report[i], source)
  BY DEF Inv, StepsInv, VerifySource
<1>1. /\ "VerifySource" \in Phases /\ "Cancellation" \in Phases
      /\ "Cancelled" \in Errors /\ "SourceVerificationFailure" \in Errors
  BY DEF Phases, Errors
<1>2. ASSUME NEW error \in {"Cancelled", "SourceVerificationFailure"},
             AbortWith(i, "VerifySource", error)
      PROVE  Inv'
  BY <1>1, <1>2, AbortWithKeepsInv DEF VerifySource
<1>3. CASE source = 0 /\ Goto(i, "Cancellation")
  BY <1>0, <1>1, <1>3, GotoEffect, PcStep DEF VerifySource, StepInv, Writing, Filled, Ended
<1> QED BY <1>2, <1>3 DEF VerifySource

LEMMA FinalCheckKeepsInv ==
    ASSUME Inv, NEW i \in Importers, FinalCheck(i)
    PROVE  Inv'
<1>0. TypeOK /\ StepInv("Cancellation", tree[i], stop[i], report[i], source)
  BY DEF Inv, StepsInv, FinalCheck
<1>1. "Cancellation" \in Phases /\ "Publish" \in Phases /\ "Cancelled" \in Errors
  BY DEF Phases, Errors
<1>2. CASE AbortWith(i, "Cancellation", "Cancelled")
  BY <1>1, <1>2, AbortWithKeepsInv DEF FinalCheck
<1>3. CASE ~Stopped(i) /\ Goto(i, "Publish")
  BY <1>0, <1>1, <1>3, GotoEffect, PcStep
     DEF FinalCheck, StepInv, Writing, Filled, Ended, Stopped, LateStops
<1> QED BY <1>2, <1>3 DEF FinalCheck

LEMMA PublishKeepsInv ==
    ASSUME Inv, NEW i \in Importers, Publish(i)
    PROVE  Inv'
<1>0. TypeOK /\ StepInv("Publish", tree[i], stop[i], report[i], source)
  BY DEF Inv, StepsInv, Publish
<1>1. /\ "Publish" \in Phases /\ "Revalidate" \in Phases /\ "SyncPublishedParent" \in Phases
      /\ "None" \in Errors /\ "PublishFailure" \in Errors
  BY DEF Phases, Errors
<1>2. CASE /\ published' = [by |-> <<i, run[i]>>, tree |-> tree[i]]
           /\ durable' = FALSE
           /\ tree' = [tree EXCEPT ![i] = NoTree]
           /\ Goto(i, "SyncPublishedParent")
           /\ UNCHANGED <<run, stop, worldVars>>
  <2>1. /\ pc' \in [Importers -> Phases \cup Ended] /\ report' \in [Importers -> Reports]
        /\ pc'[i] = "SyncPublishedParent" /\ report'[i] = report[i]
        /\ \A j \in Importers : j # i => pc'[j] = pc[j] /\ report'[j] = report[j]
    BY <1>0, <1>1, <1>2, GotoEffect
  <2>2. tree'[i] = NoTree /\ \A j \in Importers : j # i => tree'[j] = tree[j]
    BY <1>0, <1>2 DEF TypeOK
  <2>3. tree[i] \in Trees /\ <<i, run[i]>> \in Publishers /\ run[i] \in Nat
    BY <1>0 DEF TypeOK, Publishers
  <2>4. TypeOK'
    <3>1. tree' \in [Importers -> Trees]
      BY <1>0, <1>2, TreesOfNone DEF TypeOK
    <3>2. \A j \in Importers : \A k \in Entries : tree'[j].written[k] <= EntrySize[k]
      <4>1. \A k \in Entries : NoTree.written[k] <= EntrySize[k]
        BY TreesOfNone, PlanAssumption DEF Entries
      <4> QED BY <1>0, <2>2, <4>1 DEF TypeOK
    <3>3. published' \in [by : Publishers \cup {Absent, Outsider}, tree : Trees]
      BY <1>2, <2>3
    <3> QED BY <1>0, <1>2, <2>1, <3>1, <3>2, <3>3 DEF TypeOK, worldVars
  <2>5. StepsInv'
    <3>1. StepInv("SyncPublishedParent", NoTree, stop[i], report[i], source)
      BY <1>0, TreesOfNone DEF StepInv, Writing, Filled, Ended
    <3> QED BY <1>2, <2>1, <2>2, <3>1 DEF Inv, StepsInv, worldVars
  <2>6. NameInv'
    BY <1>0, <1>2, <2>3 DEF NameInv, StepInv, Writing, Filled, Whole, Matches, Survives
  <2>7. ASSUME NEW j \in Importers PROVE HolderInv(j)'
    <3>1. CASE j = i
      <4>1. stop[i] \in LateStops
        BY <1>0 DEF StepInv
      <4> QED BY <1>2, <2>1, <2>3, <3>1, <4>1 DEF HolderInv, Holds
    <3>2. CASE j # i
      BY <1>2, <2>3, <3>2 DEF HolderInv, Holds
    <3> QED BY <3>1, <3>2
  <2> QED BY <2>4, <2>5, <2>6, <2>7 DEF Inv
<1>3. ASSUME NEW phase \in {"Revalidate", "Publish"}, NEW error \in {"None", "PublishFailure"},
             AbortWith(i, phase, error), UNCHANGED <<run, stop, tree, diskVars, worldVars>>
      PROVE  Inv'
  BY <1>1, <1>3, AbortWithKeepsInv DEF Publish
<1> QED BY <1>2, <1>3 DEF Publish

LEMMA SyncPublishedParentKeepsInv ==
    ASSUME Inv, NEW i \in Importers, SyncPublishedParent(i)
    PROVE  Inv'
<1>0. TypeOK /\ StepInv("SyncPublishedParent", tree[i], stop[i], report[i], source)
  BY DEF Inv, StepsInv, SyncPublishedParent
<1>1. PICK status \in PublishedStatuses, error \in Errors,
           step \in {"SyncPublishedParent", "Complete"} :
          /\ Finish(i, status, step, error)
          /\ status = "PublishedSyncComplete" => durable'
          /\ durable' \in BOOLEAN /\ (durable => durable')
          /\ UNCHANGED <<run, stop, tree, published, worldVars>>
  BY <1>0 DEF SyncPublishedParent, PublishedStatuses, Errors, TypeOK
<1>2. status \in Statuses /\ step \in Phases
  BY DEF PublishedStatuses, Statuses, Phases
<1>3. /\ pc' \in [Importers -> Phases \cup Ended] /\ report' \in [Importers -> Reports]
      /\ pc'[i] = "Done"
      /\ report'[i] = Reported(status, step, error, report[i].cleanup)
      /\ \A j \in Importers : j # i => pc'[j] = pc[j] /\ report'[j] = report[j]
  BY <1>0, <1>1, <1>2, FinishEffect
<1>4. TypeOK'
  BY <1>0, <1>1, <1>3 DEF TypeOK, worldVars
<1>5. StepsInv'
  <2>1. StepInv("Done", tree[i], stop[i],
                Reported(status, step, error, report[i].cleanup), source)
    BY <1>0 DEF StepInv, Reported, Writing, Filled, Ended
  <2> QED BY <1>1, <1>3, <2>1 DEF Inv, StepsInv, worldVars
<1>6. NameInv'
  BY <1>1 DEF Inv, NameInv
<1>7. ASSUME NEW j \in Importers PROVE HolderInv(j)'
  <2>1. CASE j = i
    <3>1. HolderInv(i) /\ stop[i] \in LateStops
      BY <1>0 DEF Inv, StepInv
    <3> QED BY <1>1, <1>3, <2>1, <3>1 DEF HolderInv, Holds, Reported
  <2>2. CASE j # i
    BY <1>1, <1>3, <2>2 DEF Inv, HolderInv, Holds
  <2> QED BY <2>1, <2>2
<1> QED BY <1>4, <1>5, <1>6, <1>7 DEF Inv

LEMMA AbortKeepsInv ==
    ASSUME Inv, NEW i \in Importers, Abort(i)
    PROVE  Inv'
<1> DEFINE next == IF report[i].phase = "Revalidate" THEN "Revalidate" ELSE "Done"
<1>0. TypeOK /\ StepInv("Abort", tree[i], stop[i], report[i], source)
  BY DEF Inv, StepsInv, Abort
<1>1. pc'[i] = next /\ pc' \in [Importers -> Phases \cup Ended]
      /\ \A j \in Importers : j # i => pc'[j] = pc[j]
  BY <1>0 DEF Abort, TypeOK, Phases, Ended
<1>2. ASSUME NEW c \in {"Done", "Failed"}, report' = [report EXCEPT ![i].cleanup = c]
      PROVE  /\ report' \in [Importers -> Reports]
             /\ report'[i].cleanup = c /\ report'[i].status = "Failed"
             /\ \A j \in Importers : j # i => report'[j] = report[j]
  <2>1. report[i] \in Reports /\ c \in Cleanups /\ report[i].status = "Failed"
    BY <1>0, <1>2 DEF TypeOK, Cleanups, StepInv, Ended
  <2> QED BY <1>0, <1>2, <2>1 DEF TypeOK, Reports
<1>3. CASE /\ tree' = [tree EXCEPT ![i] = NoTree]
           /\ report' = [report EXCEPT ![i].cleanup = "Done"]
  <2>1. StepInv(next, NoTree, stop[i], report'[i], source)
    BY <1>2, <1>3, TreesOfNone DEF StepInv, Writing, Filled, Ended, PublishedStatuses
  <2>2. \A k \in Entries : NoTree.written[k] <= EntrySize[k]
    BY TreesOfNone, PlanAssumption DEF Entries
  <2> QED BY <1>1, <1>2, <1>3, <2>1, <2>2, TreeStep, TreesOfNone DEF Abort
<1>4. CASE report' = [report EXCEPT ![i].cleanup = "Failed"] /\ UNCHANGED tree
  <2>1. StepInv(next, tree[i], stop[i], report'[i], source)
    BY <1>0, <1>2, <1>4 DEF StepInv, Writing, Filled, Ended, PublishedStatuses
  <2> QED BY <1>1, <1>2, <1>4, <2>1, PcStep DEF Abort
<1> QED BY <1>3, <1>4 DEF Abort

LEMMA RevalidateKeepsInv ==
    ASSUME Inv, NEW i \in Importers, Revalidate(i)
    PROVE  Inv'
<1>0. TypeOK /\ StepInv("Revalidate", tree[i], stop[i], report[i], source)
  BY DEF Inv, StepsInv, Revalidate
<1>1. PICK status \in {"CleanupFailed", "Failed", "CacheHit", "Conflict"},
           error \in {"CleanupFailure", "RevalidationFailure", "None"} :
          /\ Finish(i, status, "Revalidate", error)
          /\ status = "CacheHit" => report[i].cleanup = "Done"
  BY DEF Revalidate
<1>2. status \in Statuses /\ error \in Errors /\ "Revalidate" \in Phases
  BY DEF Statuses, Errors, Phases
<1>3. StepInv("Done", tree[i], stop[i],
              Reported(status, "Revalidate", error, report[i].cleanup), source)
  BY <1>0, <1>1 DEF StepInv, Reported, Writing, Filled, Ended, PublishedStatuses
<1> QED BY <1>0, <1>1, <1>2, <1>3, FinishEffect, PcStep DEF Revalidate

LEMMA StageKeepsInv ==
    ASSUME Inv, NEW i \in Importers, Stage(i)
    PROVE  Inv'
BY ValidateKeepsInv, ProbeKeepsInv, BeginKeepsInv, OpenFileKeepsInv, WriteChunkKeepsInv,
   EndStreamKeepsInv, SealFileKeepsInv, SealCompletionKeepsInv, SyncStagedKeepsInv,
   VerifySourceKeepsInv, FinalCheckKeepsInv, PublishKeepsInv, SyncPublishedParentKeepsInv,
   AbortKeepsInv, RevalidateKeepsInv DEF Stage

-----------------------------------------------------------------------------
LEMMA RequestStopKeepsInv ==
    ASSUME Inv, NEW i \in Importers, RequestStop(i)
    PROVE  Inv'
<1>0. TypeOK /\ StepInv(pc[i], tree[i], stop[i], report[i], source) /\ HolderInv(i)
  BY DEF Inv, StepsInv
<1>1. /\ pc[i] \in Phases /\ stop' = [stop EXCEPT ![i] = pc[i]]
      /\ UNCHANGED <<pc, run, tree, report, diskVars, worldVars>>
  BY <1>0 DEF RequestStop, TypeOK
<1>2. stop'[i] = pc[i] /\ \A j \in Importers : j # i => stop'[j] = stop[j]
  BY <1>0, <1>1 DEF TypeOK
<1>3. TypeOK'
  BY <1>0, <1>1 DEF TypeOK, diskVars, worldVars
<1>4. Others(i)
  BY <1>1, <1>2 DEF Others
<1>5. StepInv(pc'[i], tree'[i], stop'[i], report'[i], source)
  BY <1>0, <1>1, <1>2 DEF StepInv, LateStops
<1>6. HolderInv(i)'
  BY <1>0, <1>1, <1>2 DEF HolderInv, Holds, LateStops, RequestStop, Ended, diskVars
<1> QED BY <1>1, <1>3, <1>4, <1>5, <1>6, LocalStep DEF diskVars, worldVars

LEMMA KillKeepsInv ==
    ASSUME Inv, NEW i \in Importers, Kill(i)
    PROVE  Inv'
<1>0. TypeOK /\ StepInv(pc[i], tree[i], stop[i], report[i], source) /\ HolderInv(i)
  BY DEF Inv, StepsInv
<1>1. /\ pc'[i] = "Killed" /\ \A j \in Importers : j # i => pc'[j] = pc[j]
      /\ UNCHANGED <<run, stop, tree, report, diskVars, worldVars>>
  BY <1>0 DEF Kill, TypeOK
<1>2. TypeOK'
  BY <1>0, <1>1 DEF Kill, TypeOK, Ended, diskVars, worldVars
<1>3. Others(i)
  BY <1>1 DEF Others
<1>4. StepInv(pc'[i], tree'[i], stop'[i], report'[i], source)
  BY <1>0, <1>1 DEF StepInv, Writing, Filled, Ended
<1>5. HolderInv(i)'
  BY <1>0, <1>1 DEF HolderInv, Holds, diskVars
<1> QED BY <1>1, <1>2, <1>3, <1>4, <1>5, LocalStep DEF diskVars, worldVars

LEMMA RetryKeepsInv ==
    ASSUME Inv, NEW i \in Importers, Retry(i)
    PROVE  Inv'
<1>0. TypeOK /\ HolderInv(i)
  BY DEF Inv
<1>1. /\ pc'[i] = "Validation" /\ run'[i] = run[i] + 1 /\ stop'[i] = "Never"
      /\ tree'[i] = NoTree /\ report'[i] = FailedReport /\ run[i] \in Nat
      /\ UNCHANGED <<diskVars, source, outside>>
  BY <1>0 DEF Retry, TypeOK
<1>2. Others(i)
  BY <1>0 DEF Retry, TypeOK, Others
<1>3. TypeOK'
  <2>1. FailedReport \in Reports
    BY DEF FailedReport, Reported, Reports, Statuses, Phases, Errors, Cleanups
  <2>2. /\ tree' \in [Importers -> Trees] /\ run' \in [Importers -> Nat]
        /\ report' \in [Importers -> Reports] /\ abandoned' \in Nat
    BY <1>0, <2>1, TreesOfNone DEF Retry, TypeOK
  <2>3. \A j \in Importers : \A k \in Entries : tree'[j].written[k] <= EntrySize[k]
    <3>1. \A k \in Entries : NoTree.written[k] <= EntrySize[k]
      BY TreesOfNone, PlanAssumption DEF Entries
    <3> QED BY <1>0, <1>1, <1>2, <3>1 DEF TypeOK, Others
  <2>4. pc' \in [Importers -> Phases \cup Ended] /\ stop' \in [Importers -> Phases \cup {"Never"}]
    BY <1>0 DEF Retry, TypeOK, Phases
  <2> QED BY <1>0, <1>1, <2>2, <2>3, <2>4 DEF TypeOK, diskVars
<1>4. StepsInv'
  <2>1. StepInv("Validation", NoTree, "Never", FailedReport, source)
    BY TreesOfNone DEF StepInv, FailedReport, Reported, Writing, Filled, Ended
  <2> QED BY <1>1, <1>2, <2>1 DEF Inv, StepsInv, Others
<1>5. NameInv'
  BY <1>1 DEF Inv, NameInv, diskVars
<1>6. ASSUME NEW j \in Importers PROVE HolderInv(j)'
  <2>1. CASE j = i
    <3>1. ASSUME published.by = <<i, run[i] + 1>> PROVE FALSE
      <4>1. published.by \in Publishers /\ published.by[1] = i /\ published.by[2] = run[i] + 1
        BY <1>1, <3>1 DEF Publishers
      <4> QED BY <1>0, <1>1, <4>1 DEF HolderInv
    <3>2. published.by \in Publishers /\ published.by[1] = i => published.by[2] <= run'[i]
      <4>1. published.by \in Publishers => published.by[2] \in Nat
        BY DEF Publishers
      <4> QED BY <1>0, <1>1, <4>1 DEF HolderInv
    <3> QED BY <1>1, <2>1, <3>1, <3>2 DEF HolderInv, Holds, diskVars
  <2>2. CASE j # i
    BY <1>1, <1>2, <2>2 DEF Inv, HolderInv, Holds, Others, diskVars
  <2> QED BY <2>1, <2>2
<1> QED BY <1>3, <1>4, <1>5, <1>6 DEF Inv

LEMMA DiscardKeepsInv ==
    ASSUME Inv, DiscardInterruptedStages
    PROVE  Inv'
<1>1. abandoned' \in Nat /\ UNCHANGED <<importerVars, diskVars, source, outside>>
  BY DEF DiscardInterruptedStages, Inv, TypeOK
<1>2. TypeOK'
  BY <1>1 DEF Inv, TypeOK, importerVars, diskVars
<1> QED BY <1>1, <1>2 DEF Inv, StepsInv, NameInv, HolderInv, Holds, importerVars, diskVars

LEMMA SourceChangesKeepsInv ==
    ASSUME Inv, SourceChanges
    PROVE  Inv'
<1>1. /\ source' \in Nat /\ source' # 0
      /\ UNCHANGED <<importerVars, diskVars, abandoned, outside>>
  BY DEF SourceChanges, Inv, TypeOK
<1>2. TypeOK'
  BY <1>1 DEF Inv, TypeOK, importerVars, diskVars
<1>3. StepsInv'
  BY <1>1 DEF Inv, StepsInv, StepInv, importerVars
<1> QED BY <1>1, <1>2, <1>3 DEF Inv, NameInv, HolderInv, Holds, importerVars, diskVars

LEMMA OutsiderKeepsInv ==
    ASSUME Inv, OutsiderActs
    PROVE  Inv'
<1>1. PICK other \in {Absent, Outsider} :
          /\ published' = [by |-> other, tree |-> NoTree] /\ durable' = TRUE
          /\ outside' = outside + 1 /\ UNCHANGED <<importerVars, source, abandoned>>
  BY DEF OutsiderActs
<1>2. other \notin Publishers
  BY HolderAssumption DEF Publishers
<1>3. TypeOK'
  BY <1>1, TreesOfNone DEF Inv, TypeOK, importerVars
<1>4. StepsInv'
  BY <1>1 DEF Inv, StepsInv, importerVars
<1>5. NameInv'
  BY <1>1, <1>2 DEF NameInv
<1>6. ASSUME NEW j \in Importers PROVE HolderInv(j)'
  <2>1. <<j, run[j]>> \in Publishers
    BY DEF Inv, TypeOK, Publishers
  <2> QED BY <1>1, <1>2, <2>1 DEF HolderInv, Holds, importerVars
<1> QED BY <1>3, <1>4, <1>5, <1>6 DEF Inv

LEMMA PowerFailsKeepsInv ==
    ASSUME Inv, PowerFails
    PROVE  Inv'
<1>1. /\ pc' \in [Importers -> Phases \cup Ended] /\ durable' = TRUE
      /\ \A j \in Importers : pc'[j] = "Killed" \/ (pc'[j] = pc[j] /\ pc[j] \in Ended)
      /\ UNCHANGED <<run, stop, tree, report, worldVars>>
  BY DEF PowerFails, Inv, TypeOK, Ended
<1>2. Absent \notin Publishers
  BY HolderAssumption DEF Publishers
<1>3. published' = published \/ published' = [by |-> Absent, tree |-> NoTree]
  <2>1. CASE published.by \in Publishers
    <3>1. Survivors(published.tree) = {published.tree}
      BY <2>1 DEF Inv, NameInv, Survivors
    <3>2. [published EXCEPT !.tree = published.tree] = published
      BY DEF Inv, TypeOK
    <3> QED BY <2>1, <3>1, <3>2 DEF PowerFails
  <2>2. CASE published.by \notin Publishers
    BY <2>2 DEF PowerFails
  <2> QED BY <2>1, <2>2
<1>4. TypeOK'
  BY <1>1, <1>3, TreesOfNone DEF Inv, TypeOK, worldVars
<1>5. StepsInv'
  <2> SUFFICES ASSUME NEW j \in Importers
               PROVE  StepInv(pc'[j], tree[j], stop[j], report[j], source)
    BY <1>1 DEF StepsInv, worldVars
  <2>1. StepInv(pc[j], tree[j], stop[j], report[j], source)
    BY DEF Inv, StepsInv
  <2> QED BY <1>1, <2>1 DEF StepInv, Writing, Filled, Ended
<1>6. NameInv'
  BY <1>2, <1>3 DEF Inv, NameInv
<1>7. ASSUME NEW j \in Importers PROVE HolderInv(j)'
  <2>1. <<j, run[j]>> \in Publishers
    BY DEF Inv, TypeOK, Publishers
  <2>2. CASE published' = published
    BY <1>1, <2>2 DEF Inv, HolderInv, Holds
  <2>3. CASE published' = [by |-> Absent, tree |-> NoTree]
    BY <1>1, <1>2, <2>1, <2>3 DEF HolderInv, Holds
  <2> QED BY <1>3, <2>2, <2>3
<1> QED BY <1>4, <1>5, <1>6, <1>7 DEF Inv

-----------------------------------------------------------------------------
LEMMA InitInv ==
    ASSUME Init
    PROVE  Inv
<1>1. /\ Absent \notin Publishers /\ Outsider \notin Publishers
      /\ \A k \in Entries : NoTree.written[k] <= EntrySize[k]
  BY HolderAssumption, PlanAssumption, TreesOfNone DEF Publishers, Entries
<1>2. FailedReport \in Reports
  BY DEF FailedReport, Reported, Reports, Statuses, Phases, Errors, Cleanups
<1>3. TypeOK
  <2>1. pc \in [Importers -> Phases \cup Ended] /\ stop \in [Importers -> Phases \cup {"Never"}]
    BY DEF Init, Phases
  <2>2. tree \in [Importers -> Trees] /\ report \in [Importers -> Reports]
    BY <1>2, TreesOfNone DEF Init
  <2>3. \A i \in Importers : \A k \in Entries : tree[i].written[k] <= EntrySize[k]
    BY <1>1 DEF Init
  <2>4. published \in [by : Publishers \cup {Absent, Outsider}, tree : Trees]
    BY TreesOfNone DEF Init
  <2> QED BY <2>1, <2>2, <2>3, <2>4 DEF Init, TypeOK
<1>4. StepsInv
  <2>1. StepInv("Validation", NoTree, "Never", FailedReport, 0)
    BY TreesOfNone DEF StepInv, FailedReport, Reported, Writing, Filled, Ended
  <2> QED BY <2>1 DEF Init, StepsInv
<1>5. published.by \notin Publishers /\ published.tree = NoTree
  BY <1>1 DEF Init
<1>6. NameInv
  BY <1>5 DEF NameInv
<1>7. ASSUME NEW i \in Importers PROVE HolderInv(i)
  <2>1. <<i, run[i]>> \in Publishers
    BY <1>3 DEF TypeOK, Publishers
  <2> QED BY <1>5, <2>1 DEF HolderInv, Holds
<1> QED BY <1>3, <1>4, <1>6, <1>7 DEF Inv

LEMMA NextKeepsInv ==
    ASSUME Inv, [Next]_vars
    PROVE  Inv'
<1>1. ASSUME NEW i \in Importers, Stage(i) \/ RequestStop(i) \/ Kill(i) \/ Retry(i)
      PROVE  Inv'
  BY <1>1, StageKeepsInv, RequestStopKeepsInv, KillKeepsInv, RetryKeepsInv
<1>2. CASE DiscardInterruptedStages \/ PowerFails \/ SourceChanges \/ OutsiderActs
  BY <1>2, DiscardKeepsInv, PowerFailsKeepsInv, SourceChangesKeepsInv, OutsiderKeepsInv
<1>3. CASE UNCHANGED vars
  <2>1. UNCHANGED <<pc, run, stop, tree, report, published, durable, source, abandoned, outside>>
    BY <1>3 DEF vars, importerVars, diskVars, worldVars
  <2>2. TypeOK'
    BY <2>1 DEF Inv, TypeOK
  <2> QED BY <2>1, <2>2 DEF Inv, StepsInv, NameInv, HolderInv, Holds
<1> QED BY <1>1, <1>2, <1>3 DEF Next

LEMMA SpecInv == Spec => []Inv
BY InitInv, NextKeepsInv, PTL DEF Spec

(* For every number of importers, entries, runs, kills and power failures:   *)
(* stage_payload publishes only whole payloads of the accepted source.       *)
THEOREM StageSafety == Spec => [](TypeOK /\ PublishedIsWhole)
<1>1. Inv => TypeOK /\ PublishedIsWhole
  BY DEF Inv, NameInv, PublishedIsWhole
<1> QED BY <1>1, SpecInv, PTL

(* What stage_payload reports of publication, durability and cleanup agrees  *)
(* with the disk, for every number of importers and every kill.              *)
THEOREM StageReports == Spec => []ReportIsTrue
<1>1. Inv => ReportIsTrue
  <2> SUFFICES ASSUME Inv, NEW i \in Importers, pc[i] = "Done"
               PROVE  /\ Holds(i) => report[i].status \in PublishedStatuses
                      /\ Holds(i) /\ report[i].status = "PublishedSyncComplete" => durable
                      /\ report[i].status \in PublishedStatuses \cup {"CacheHit"}
                            => ~tree[i].exists
                      /\ tree[i].exists
                            => report[i].cleanup = "Failed" \/ report[i].phase = "Begin"
    BY DEF ReportIsTrue
  <2>1. HolderInv(i) /\ StepInv("Done", tree[i], stop[i], report[i], source)
    BY DEF Inv, StepsInv
  <2> QED BY <2>1 DEF HolderInv, StepInv
<1> QED BY <1>1, SpecInv, PTL

(* A stop requested before the last check of the stop flag prevents the      *)
(* publication, for every number of importers and entries.                   *)
THEOREM StageStops == Spec => []StopPreventsPublication
<1>1. Inv => StopPreventsPublication
  <2> SUFFICES ASSUME Inv, NEW i \in Importers,
                      pc[i] = "SyncPublishedParent" \/ (pc[i] = "Done" /\ Holds(i))
               PROVE  stop[i] \in LateStops
    BY DEF StopPreventsPublication, LateStops
  <2>1. HolderInv(i) /\ StepInv(pc[i], tree[i], stop[i], report[i], source)
    BY DEF Inv, StepsInv
  <2> QED BY <2>1 DEF HolderInv, StepInv
<1> QED BY <1>1, SpecInv, PTL

(* Every step of the protocol is a step of the published name, or none.      *)
LEMMA NameSteps ==
    ASSUME Inv, Inv', [Next]_vars
    PROVE  [Name!Next]_(Name!nameVars)
<1> USE DEF Name!nameVars, Name!Next
<1>0. ~Whole(NoTree) /\ Absent \notin Publishers /\ Outsider \notin Publishers
  BY TreesOfNone, HolderAssumption DEF Whole, Matches, Publishers
<1>1. ASSUME UNCHANGED diskVars PROVE [Name!Next]_(Name!nameVars)
  BY <1>1 DEF diskVars
<1>2. ASSUME NEW i \in Importers, Publish(i), published.by = Absent,
             published' = [by |-> <<i, run[i]>>, tree |-> tree[i]], durable' = FALSE
      PROVE  [Name!Next]_(Name!nameVars)
  <2>1. published'.by = <<i, run[i]>> /\ <<i, run[i]>> \in Publishers
    BY <1>2 DEF Inv, TypeOK, Publishers
  <2>2. Whole(published'.tree)
    BY <2>1 DEF Inv, NameInv
  <2>3. Whole(published.tree)' = TRUE
    BY <2>2 DEF Whole, Matches
  <2> QED BY <1>2, <2>1, <2>3 DEF Name!Publish
<1>3. ASSUME durable' = TRUE, UNCHANGED published PROVE [Name!Next]_(Name!nameVars)
  BY <1>3 DEF Name!Persist
<1>4. ASSUME NEW i \in Importers, Stage(i) PROVE [Name!Next]_(Name!nameVars)
  <2>1. CASE Publish(i)
    BY <1>1, <1>2, <2>1 DEF Publish
  <2>2. CASE SyncPublishedParent(i)
    BY <1>1, <1>3, <2>2 DEF SyncPublishedParent, diskVars
  <2>3. CASE ~Publish(i) /\ ~SyncPublishedParent(i)
    BY <1>1, <1>4, <2>3 DEF Stage, Validate, Probe, Begin, OpenFile, WriteChunk, EndStream,
       SealFile, SealCompletion, SyncStaged, VerifySource, FinalCheck, Abort, Revalidate
  <2> QED BY <2>1, <2>2, <2>3
<1>5. CASE OutsiderActs
  <2>1. /\ published'.by \in {Absent, Outsider} /\ published'.tree = NoTree
        /\ (published.by = Absent) # (published'.by = Absent) /\ durable' = TRUE
    BY <1>5, HolderAssumption DEF OutsiderActs
  <2>2. Whole(published.tree)' = FALSE
    BY <1>0, <2>1 DEF Whole, Matches
  <2> QED BY <2>1, <2>2 DEF Name!OutsiderActs
<1>6. CASE PowerFails
  <2>1. durable' = TRUE
    BY <1>6 DEF PowerFails
  <2>2. CASE ~durable /\ published' = [by |-> Absent, tree |-> NoTree]
    <3>1. published'.by = Absent /\ published'.tree = NoTree
      BY <2>2
    <3>2. Whole(published.tree)' = FALSE
      BY <1>0, <3>1 DEF Whole, Matches
    <3> QED BY <2>1, <2>2, <3>1, <3>2 DEF Name!Lose
  <2>3. ASSUME published.by \in Publishers, NEW t \in Survivors(published.tree),
               published' = [published EXCEPT !.tree = t]
        PROVE  [Name!Next]_(Name!nameVars)
    <3>1. t = published.tree
      BY <2>3 DEF Inv, NameInv, Survivors
    <3>2. published' = published
      BY <2>3, <3>1 DEF Inv, TypeOK
    <3> QED BY <1>3, <2>1, <3>2
  <2> QED BY <1>3, <1>6, <2>1, <2>2, <2>3 DEF PowerFails
<1>7. ASSUME NEW i \in Importers, RequestStop(i) \/ Kill(i) \/ Retry(i)
      PROVE  [Name!Next]_(Name!nameVars)
  BY <1>1, <1>7 DEF RequestStop, Kill, Retry
<1>8. CASE DiscardInterruptedStages \/ SourceChanges \/ UNCHANGED vars
  BY <1>1, <1>8 DEF DiscardInterruptedStages, SourceChanges, vars
<1> QED BY <1>4, <1>5, <1>6, <1>7, <1>8 DEF Next

(* The staged publication implements the abstract published name for every   *)
(* value of the constants: atomic, exclusive, and lost only before its sync. *)
THEOREM StageRefinesPublishedPayload == Spec => ImplementsPublishedPayload
<1>1. Init => Name!Init
  <2> SUFFICES ASSUME Init PROVE Name!Init
    OBVIOUS
  <2>1. published.by \in {Absent, Outsider} /\ published.tree = NoTree /\ durable = TRUE
    BY DEF Init
  <2>2. Whole(published.tree) = FALSE
    BY <2>1, TreesOfNone DEF Whole, Matches
  <2> QED BY <2>1, <2>2 DEF Name!Init
<1> QED BY <1>1, NameSteps, SpecInv, PTL DEF Spec, ImplementsPublishedPayload, Name!Spec
=============================================================================
