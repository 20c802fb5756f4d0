-------------------------- MODULE ImportFlowProofs --------------------------
(***************************************************************************)
(* The import command proved for any number of programs, recipes, entries, *)
(* restarts and cleared caches: an outcome says what happened, a cache     *)
(* entry is whole while nobody clears it, and an import that is reported   *)
(* is found.                                                               *)
(***************************************************************************)
EXTENDS ImportFlow, TLAPS

Entering == {"find", "prepare", "lock", "stage entry", "publish entry"}
Working == {"open", "stage", "stream", "receive", "drain", "publish"}
Recording == {"truncate record", "write record"}
Places == Entering \cup Working \cup Recording \cup
          {"check record", "launch", "end worker", "find again", "exited"}
Failures == {"none", "Cancelled", "Staging", "Worker"}
Identities == UNION {Recipes[p] : p \in Programs}

Runs ==
  [pc : Places, id : Identities, tokens : SUBSET Tokens,
   slot : {"Taken", "Idle", "Cancelled", "Terminal"}, streamed : Nat,
   failure : Failures, status : {"none", "hit", "published", "failed"},
   result : Errors \cup {"none", "found", "imported", "killed"},
   worker : {"none", "running", "orderly", "terminated", "dropped"},
   found : Identities \cup {"none"}, published : BOOLEAN, spoilt : BOOLEAN]

TypeOK ==
  /\ entry \in {"absent", "bare", "whole"}
  /\ record \in Unrecorded \cup Identities
  /\ trees \subseteq Identities
  /\ clears \in Nat /\ restarts \in Nat
  /\ run \in [Programs -> Runs]

(* How far a program has come says what has become of its worker, of its     *)
(* first failure and of the tree it was to publish among `published'.        *)
Quiet(r) == r.failure = "none" /\ ~r.published
RunInv(r, published) ==
  /\ r.pc \in Entering \cup {"check record", "launch"} => Quiet(r) /\ r.worker = "none"
  /\ r.pc \in Working => Quiet(r) /\ r.worker = "running"
  /\ r.pc = "end worker" =>
       /\ r.worker = "running"
       /\ IF r.status = "failed" THEN ~r.published
          ELSE r.failure = "none" /\ r.id \in published
  /\ r.pc \in Recording \cup {"find again"} => r.failure = "none" /\ r.worker # "running"
  /\ r.pc \in Recording => r.id \in published
  /\ r.pc = "find again" => r.worker = "none" \/ r.id \in published
  /\ r.pc = "exited" =>
       /\ r.result \in Errors \ {"Provenance"} => ~r.published
       /\ r.result = "imported" /\ r.worker # "none" => r.id \in published
       /\ r.worker # "running"
       /\ r.worker = "orderly" => r.failure = "none"

(* While nobody clears the cache, a program past its entry has a whole one,  *)
(* and a record it is about to write is there to be written.                 *)
Outside == Entering \cup {"exited"}
EntryInv(r, e, rec) ==
  /\ r.result # "ManifestConflict"
  /\ r.pc \notin Outside => e = "whole"
  /\ r.pc = "write record" => rec # "none"

(* A program about to look for its import finds it, or another one is to     *)
(* blame.                                                                    *)
FindInv(p) ==
  At(p, "find again") =>
    record \notin Unrecorded \/ \E q \in Programs \ {p} : RewritesRecord(q)

Inv ==
  /\ TypeOK
  /\ \A p \in Programs : RunInv(run[p], trees)
  /\ record \notin Unrecorded => record \in trees
  /\ clears = 0 => /\ entry # "bare"
                   /\ \A p \in Programs : EntryInv(run[p], entry, record) /\ FindInv(p)

-----------------------------------------------------------------------------
(* Every step of a program replaces its state by some r.  What r and the     *)
(* disk have to satisfy:                                                     *)
Blamed(r) == r.pc = "write record" \/ r.spoilt

DiskStep ==
  /\ entry' \in {"absent", "bare", "whole"}
  /\ record' \in Unrecorded \cup Identities
  /\ trees \subseteq trees' /\ trees' \subseteq Identities
  /\ record' \notin Unrecorded => record' \in trees'
  /\ clears' = clears /\ restarts' \in Nat
  /\ clears = 0 => /\ entry' # "bare"
                   /\ entry = "whole" => entry' = "whole"
                   /\ record # "none" => record' # "none"

(* More trees, and a record that stays, keep what is said of a program.      *)
LEMMA RunInvGrows ==
  ASSUME NEW r, NEW t, NEW u, t \subseteq u, RunInv(r, t) PROVE RunInv(r, u)
BY DEF RunInv

LEMMA StepKeepsInv ==
  ASSUME Inv, NEW p \in Programs, NEW r \in Runs, run' = [run EXCEPT ![p] = r], DiskStep,
         RunInv(r, trees'),
         clears = 0 => EntryInv(r, entry', record'),
         clears = 0 /\ r.pc = "find again" =>
           record' \notin Unrecorded \/ \E q \in Programs \ {p} : Blamed(run[q]),
         clears = 0 =>
           \/ record' \notin Unrecorded
           \/ Blamed(r)
           \/ record' = record /\ ~Blamed(run[p])
  PROVE  Inv'
<1>1. run \in [Programs -> Runs]
  BY DEF Inv, TypeOK
<1>2. run' \in [Programs -> Runs] /\ run'[p] = r /\ \A q \in Programs \ {p} : run'[q] = run[q]
  BY <1>1
<1>3. TypeOK'
  BY <1>2 DEF Inv, DiskStep, TypeOK
<1>4. \A q \in Programs : RunInv(run'[q], trees')
  <2>1. ASSUME NEW q \in Programs \ {p} PROVE RunInv(run[q], trees')
    <3>1. RunInv(run[q], trees) /\ trees \subseteq trees'
      BY DEF Inv, DiskStep
    <3> QED BY <3>1, RunInvGrows
  <2> QED BY <1>2, <2>1
<1>5. ASSUME clears = 0, NEW q \in Programs PROVE EntryInv(run'[q], entry', record')
  BY <1>2, <1>5 DEF Inv, DiskStep, EntryInv
<1>6. ASSUME clears = 0, NEW q \in Programs, run'[q].pc = "find again"
      PROVE  record' \notin Unrecorded \/ \E u \in Programs \ {q} : Blamed(run'[u])
  <2>1. CASE q = p
    BY <1>2, <1>6, <2>1
  <2>2. CASE q # p /\ (record' \notin Unrecorded \/ Blamed(r))
    BY <1>2, <2>2
  <2>3. CASE q # p /\ record' = record /\ ~Blamed(run[p])
    <3>1. record \notin Unrecorded \/ \E u \in Programs \ {q} : Blamed(run[u])
      BY <1>2, <1>6, <2>3 DEF Inv, FindInv, At, RewritesRecord, Blamed
    <3> QED BY <1>2, <2>3, <3>1
  <2> QED BY <1>6, <2>1, <2>2, <2>3
<1>7. \A q \in Programs : clears = 0 => FindInv(q)'
  BY <1>6 DEF FindInv, At, RewritesRecord, Blamed
<1> QED BY <1>3, <1>4, <1>5, <1>7 DEF Inv, DiskStep

(* A step that leaves the disk alone and does not enter or leave the record. *)
Local(p, r) ==
  /\ r \in Runs /\ RunInv(r, trees) /\ r.spoilt = run[p].spoilt
  /\ r.pc \notin {"write record", "find again"}
  /\ clears = 0 => /\ r.result # "ManifestConflict"
                   /\ r.pc \notin Outside => entry = "whole"

LEMMA LocalKeepsInv ==
  ASSUME Inv, NEW p \in Programs, NEW r, Local(p, r), run' = [run EXCEPT ![p] = r],
         run[p].pc # "write record", UNCHANGED disk, clears' = clears, restarts' \in Nat
  PROVE  Inv'
<1>1. DiskStep
  BY DEF Inv, TypeOK, disk, DiskStep
<1>2. r \in Runs /\ RunInv(r, trees') /\ (clears = 0 => EntryInv(r, entry', record'))
  BY DEF Local, disk, EntryInv
<1>3. record' = record /\ (Blamed(r) \/ ~Blamed(run[p])) /\ r.pc # "find again"
  BY DEF Local, disk, Blamed
<1> QED BY <1>1, <1>2, <1>3, StepKeepsInv

-----------------------------------------------------------------------------
(* What an outcome requires of the program that returns it. *)
Results == Errors \cup {"none", "found", "imported", "killed"}
MayReturn(r, result) ==
  /\ result \in Errors \ {"Provenance"} => ~r.published
  /\ result = "imported" /\ r.worker # "none" => r.id \in trees
  /\ r.worker # "running"
  /\ r.worker = "orderly" => r.failure = "none"

LEMMA ReturnedIsLocal ==
  ASSUME NEW p \in Programs, NEW r \in Runs, NEW result \in Results,
         MayReturn(r, result), r.spoilt = run[p].spoilt,
         clears = 0 => result # "ManifestConflict"
  PROVE  Local(p, Returned(r, result))
<1> DEFINE s == Returned(r, result)
<1>1. /\ s \in Runs /\ s.pc = "exited" /\ s.result = result /\ s.spoilt = r.spoilt
      /\ s.published = r.published /\ s.worker = r.worker /\ s.failure = r.failure
      /\ s.id = r.id
  BY DEF Returned, Runs, Results, Places, Tokens
<1> HIDE DEF s
<1>2. RunInv(s, trees)
  BY <1>1 DEF RunInv, MayReturn, Entering, Working, Recording
<1> QED BY <1>1, <1>2 DEF Local, Outside, s

(* A program that moves on as it is. *)
LEMMA GotoIsLocal ==
  ASSUME Inv, NEW p \in Programs, NEW pc \in Places \ {"write record", "find again"},
         RunInv([run[p] EXCEPT !.pc = pc], trees),
         clears = 0 /\ pc \notin Outside => entry = "whole"
  PROVE  Local(p, [run[p] EXCEPT !.pc = pc])
<1> DEFINE s == [run[p] EXCEPT !.pc = pc]
<1>1. run[p] \in Runs /\ (clears = 0 => run[p].result # "ManifestConflict")
  BY DEF Inv, TypeOK, EntryInv
<1>2. s \in Runs /\ s.pc = pc /\ s.spoilt = run[p].spoilt /\ s.result = run[p].result
  BY <1>1 DEF Runs
<1>3. RunInv(s, trees)
  OBVIOUS
<1> HIDE DEF s
<1> QED BY <1>1, <1>2, <1>3 DEF Local, s

(* What the invariant says of one program, as the steps below use it. *)
LEMMA OneProgram ==
  ASSUME Inv, NEW p \in Programs
  PROVE  /\ run[p] \in Runs /\ RunInv(run[p], trees)
         /\ clears = 0 => EntryInv(run[p], entry, record) /\ entry # "bare"
BY DEF Inv, TypeOK

-----------------------------------------------------------------------------
(* Before the import: the earlier payload, and the cache entry. *)
EarlySteps == Entering \cup {"check record", "launch"}
Moves(p) == \E r : Local(p, r) /\ run' = [run EXCEPT ![p] = r]

(* A program that has not launched its worker may fail for any reason. *)
LEMMA EarlyExit ==
  ASSUME Inv, NEW p \in Programs, run[p].pc \in EarlySteps, NEW result \in Errors,
         clears = 0 => result # "ManifestConflict", Exit(p, result)
  PROVE  Moves(p)
<1>1. run[p] \in Runs /\ RunInv(run[p], trees)
  BY OneProgram
<1>2. MayReturn(run[p], result)
  BY <1>1 DEF RunInv, Quiet, MayReturn, EarlySteps, Errors
<1>3. Local(p, Returned(run[p], result))
  BY <1>1, <1>2, ReturnedIsLocal DEF Results
<1> QED BY <1>3 DEF Exit, Moves

LEMMA EarlyGoto ==
  ASSUME Inv, NEW p \in Programs, run[p].pc \in EarlySteps, NEW pc \in EarlySteps,
         clears = 0 /\ pc \notin Outside => entry = "whole", Goto(p, pc)
  PROVE  Moves(p)
<1> DEFINE s == [run[p] EXCEPT !.pc = pc]
<1>1. run[p] \in Runs /\ RunInv(run[p], trees)
  BY OneProgram
<1>2. /\ s.pc = pc /\ s.worker = run[p].worker /\ s.failure = run[p].failure
      /\ s.published = run[p].published
  BY <1>1 DEF Runs
<1> HIDE DEF s
<1>3. RunInv(s, trees)
  BY <1>1, <1>2 DEF RunInv, Quiet, EarlySteps, Entering, Working, Recording
<1>4. pc \in Places \ {"write record", "find again"}
  BY DEF EarlySteps, Places, Entering
<1>5. Local(p, s)
  BY <1>3, <1>4, GotoIsLocal DEF s
<1> QED BY <1>5 DEF Goto, Moves, s

(* A whole entry is met, or the cache was cleared. *)
LEMMA VerifyMoves ==
  ASSUME Inv, NEW p \in Programs, run[p].pc \in EarlySteps, entry # "absent",
         Verify(p, "check record")
  PROVE  Moves(p)
<1>1. CASE entry = "whole"
  BY <1>1, EarlyGoto DEF Verify, EarlySteps
<1>2. CASE entry # "whole"
  <2>1. clears # 0
    BY <1>2 DEF Inv, TypeOK
  <2> QED BY <1>2, <2>1, EarlyExit DEF Verify, Errors
<1> QED BY <1>1, <1>2

LEMMA FindMoves ==
  ASSUME Inv, NEW p \in Programs, Find(p) PROVE Moves(p)
<1>1. run[p].pc \in EarlySteps
  BY DEF Find, At, EarlySteps, Entering
<1>2. CASE Published
  <2> DEFINE s == [run[p] EXCEPT !.found = record]
  <2>1. run[p] \in Runs /\ RunInv(run[p], trees) /\ record \in Identities
    BY <1>2, OneProgram DEF Published, Inv, TypeOK
  <2>2. /\ s \in Runs /\ s.worker = run[p].worker /\ s.spoilt = run[p].spoilt
    BY <2>1 DEF Runs
  <2> HIDE DEF s
  <2>3. MayReturn(s, "found")
    BY <1>1, <2>1, <2>2 DEF RunInv, MayReturn, EarlySteps, Errors
  <2>4. Local(p, Returned(s, "found"))
    BY <2>2, <2>3, ReturnedIsLocal DEF Results
  <2>5. run' = [run EXCEPT ![p] = Returned(s, "found")]
    BY <1>2 DEF Find, s
  <2> QED BY <2>4, <2>5 DEF Moves
<1>3. CASE ~Published
  BY <1>1, <1>3, EarlyGoto DEF Find, EarlySteps, Entering, Outside
<1> QED BY <1>2, <1>3

LEMMA PrepareMoves ==
  ASSUME Inv, NEW p \in Programs, Prepare(p) \/ AcquireLock(p) \/ StageEntry(p)
  PROVE  Moves(p)
<1>1. run[p].pc \in EarlySteps
  BY DEF Prepare, AcquireLock, StageEntry, At, EarlySteps, Entering
<1>2. ASSUME NEW result \in {"SourceChanged", "CacheBusy", "ManifestWriteFailed"},
             Exit(p, result)
      PROVE  Moves(p)
  BY <1>1, <1>2, EarlyExit DEF Errors
<1>3. ASSUME NEW pc \in {"lock", "stage entry", "publish entry"}, Goto(p, pc)
      PROVE  Moves(p)
  <2>1. pc \in EarlySteps /\ pc \in Outside
    BY DEF EarlySteps, Entering, Outside
  <2> QED BY <1>1, <1>3, <2>1, EarlyGoto
<1>4. CASE Prepare(p)
  BY <1>1, <1>2, <1>3, <1>4, VerifyMoves DEF Prepare
<1>5. CASE AcquireLock(p)
  BY <1>2, <1>3, <1>5 DEF AcquireLock
<1>6. CASE StageEntry(p)
  BY <1>1, <1>2, <1>3, <1>6, VerifyMoves DEF StageEntry
<1> QED BY <1>4, <1>5, <1>6

(* The worker is launched, or is not. *)
LEMMA LaunchMoves ==
  ASSUME Inv, NEW p \in Programs, Launch(p) PROVE Moves(p)
<1>1. run[p].pc = "launch" /\ run[p].pc \in EarlySteps
  BY DEF Launch, At, EarlySteps
<1>2. ASSUME NEW result \in {"Cancelled", "Media"}, Exit(p, result) PROVE Moves(p)
  BY <1>1, <1>2, EarlyExit DEF Errors
<1>3. CASE run' = [run EXCEPT ![p].pc = "open", ![p].worker = "running"]
  <2> DEFINE s == [run[p] EXCEPT !.pc = "open", !.worker = "running"]
  <2>1. /\ run[p] \in Runs /\ RunInv(run[p], trees)
        /\ clears = 0 => EntryInv(run[p], entry, record)
    BY OneProgram
  <2>2. /\ s \in Runs /\ s.pc = "open" /\ s.worker = "running" /\ s.spoilt = run[p].spoilt
        /\ s.failure = run[p].failure /\ s.published = run[p].published
        /\ s.result = run[p].result
    BY <2>1 DEF Runs, Places, Working
  <2> HIDE DEF s
  <2>3. RunInv(s, trees)
    BY <1>1, <2>1, <2>2 DEF RunInv, Quiet, Entering, Working, Recording
  <2>4. clears = 0 => entry = "whole" /\ s.result # "ManifestConflict"
    BY <1>1, <2>1, <2>2 DEF EntryInv, Outside, Entering
  <2>5. Local(p, s)
    BY <2>2, <2>3, <2>4 DEF Local
  <2>6. run' = [run EXCEPT ![p] = s]
    BY <1>3 DEF s
  <2> QED BY <2>5, <2>6 DEF Moves
<1> QED BY <1>2, <1>3 DEF Launch

-----------------------------------------------------------------------------
(* While the worker runs: the session, the stage and the streams. *)
LEMMA WorkMoves ==
  ASSUME Inv, NEW p \in Programs, run[p].pc \in Working, NEW s \in Runs,
         run' = [run EXCEPT ![p] = s], s.worker = "running", s.spoilt = run[p].spoilt,
         s.result = run[p].result, s.published = run[p].published, s.id = run[p].id,
         \/ s.pc \in Working /\ s.failure = "none"
         \/ s.pc = "end worker" /\ s.status = "failed"
         \/ s.pc = "end worker" /\ s.failure = "none" /\ s.id \in trees
  PROVE  Moves(p)
<1>1. /\ run[p] \in Runs /\ RunInv(run[p], trees)
      /\ clears = 0 => EntryInv(run[p], entry, record)
  BY OneProgram
<1>2. ~s.published
  BY <1>1 DEF RunInv, Quiet
<1>3. RunInv(s, trees)
  BY <1>2 DEF RunInv, Quiet, Entering, Working, Recording
<1>4. clears = 0 => entry = "whole" /\ s.result # "ManifestConflict"
  BY <1>1 DEF EntryInv, Outside, Entering, Working
<1>5. s.pc \notin {"write record", "find again"}
  BY DEF Working
<1>6. Local(p, s)
  BY <1>3, <1>4, <1>5 DEF Local
<1> QED BY <1>6 DEF Moves

LEMMA WorkingProgram ==
  ASSUME Inv, NEW p \in Programs, run[p].pc \in Working
  PROVE  run[p] \in Runs /\ run[p].failure = "none" /\ run[p].worker = "running"
         /\ ~run[p].published
BY OneProgram DEF RunInv, Quiet

(* A failure is kept, and the worker is ended. *)
LEMMA FailMoves ==
  ASSUME Inv, NEW p \in Programs, run[p].pc \in Working, NEW why \in Failures \ {"none"},
         NEW slot \in {"Idle", "Cancelled", "Terminal"},
         StageFails(p, why) \/ StreamFails(p, slot, why)
  PROVE  Moves(p)
<1> DEFINE staged == [run[p] EXCEPT !.pc = "end worker", !.status = "failed",
                                    !.failure = why]
           streamed == [run[p] EXCEPT !.pc = "end worker", !.slot = slot,
                                      !.status = "failed", !.failure = why]
<1>1. run[p] \in Runs /\ run[p].failure = "none" /\ run[p].worker = "running"
  BY WorkingProgram
<1>2. ASSUME NEW s \in {staged, streamed}
      PROVE  /\ s \in Runs /\ s.pc = "end worker" /\ s.status = "failed"
             /\ s.worker = "running" /\ s.spoilt = run[p].spoilt
             /\ s.result = run[p].result /\ s.published = run[p].published
             /\ s.id = run[p].id
  <2>1. CASE s = staged
    BY <1>1, <2>1 DEF Runs, Places
  <2>2. CASE s = streamed
    BY <1>1, <2>2 DEF Runs, Places
  <2> QED BY <1>2, <2>1, <2>2
<1>3. \E s \in {staged, streamed} : run' = [run EXCEPT ![p] = s]
  BY <1>1 DEF StageFails, StreamFails
<1> HIDE DEF staged, streamed
<1> QED BY <1>2, <1>3, WorkMoves

LEMMA WorkGoto ==
  ASSUME Inv, NEW p \in Programs, run[p].pc \in Working, NEW pc \in Working, Goto(p, pc)
  PROVE  Moves(p)
<1> DEFINE s == [run[p] EXCEPT !.pc = pc]
<1>1. run[p] \in Runs /\ run[p].failure = "none" /\ run[p].worker = "running"
  BY WorkingProgram
<1>2. /\ s \in Runs /\ s.pc = pc /\ s.failure = "none" /\ s.worker = "running"
      /\ s.spoilt = run[p].spoilt /\ s.result = run[p].result
      /\ s.published = run[p].published /\ s.id = run[p].id
  BY <1>1 DEF Runs, Places
<1>3. run' = [run EXCEPT ![p] = s]
  BY DEF Goto
<1> HIDE DEF s
<1> QED BY <1>2, <1>3, WorkMoves

LEMMA OpenMoves ==
  ASSUME Inv, NEW p \in Programs, Open(p) PROVE Moves(p)
<1>1. run[p].pc \in Working
  BY DEF Open, At, Working
<1>2. run[p] \in Runs /\ run[p].failure = "none" /\ run[p].worker = "running"
      /\ ~run[p].published
  BY <1>1, WorkingProgram
<1>3. CASE OpenFails(p, "Worker")
  <2> DEFINE s == [run[p] EXCEPT !.worker = "dropped"]
  <2>1. s \in Runs /\ s.worker = "dropped" /\ ~s.published /\ s.spoilt = run[p].spoilt
    BY <1>2 DEF Runs
  <2> HIDE DEF s
  <2>2. Local(p, Returned(s, "Worker"))
    BY <2>1, ReturnedIsLocal DEF MayReturn, Results, Errors
  <2>3. run' = [run EXCEPT ![p] = Returned(s, "Worker")]
    BY <1>3 DEF OpenFails, s
  <2> QED BY <2>2, <2>3 DEF Moves
<1>4. CASE run' = [run EXCEPT ![p].pc = "stage", ![p].slot = "Idle"]
  <2> DEFINE s == [run[p] EXCEPT !.pc = "stage", !.slot = "Idle"]
  <2>1. /\ s \in Runs /\ s.pc \in Working /\ s.failure = "none" /\ s.worker = "running"
        /\ s.spoilt = run[p].spoilt /\ s.result = run[p].result
        /\ s.published = run[p].published /\ s.id = run[p].id
    BY <1>2 DEF Runs, Places, Working
  <2>2. run' = [run EXCEPT ![p] = s]
    BY <1>4
  <2> HIDE DEF s
  <2> QED BY <1>1, <2>1, <2>2, WorkMoves
<1> QED BY <1>3, <1>4 DEF Open

(* A tree of that name ends the stage with a hit. *)
LEMMA StageMoves ==
  ASSUME Inv, NEW p \in Programs, Stage(p) PROVE Moves(p)
<1>1. run[p].pc \in Working
  BY DEF Stage, At, Working
<1>2. run[p] \in Runs /\ run[p].failure = "none" /\ run[p].worker = "running"
  BY <1>1, WorkingProgram
<1>3. ASSUME NEW why \in {"Cancelled", "Staging"}, StageFails(p, why) PROVE Moves(p)
  BY <1>1, <1>3, FailMoves DEF Failures
<1>4. ASSUME NEW pc \in {"stream", "publish"}, Goto(p, pc) PROVE Moves(p)
  BY <1>1, <1>4, WorkGoto DEF Working
<1>5. CASE run[p].id \in trees
           /\ run' = [run EXCEPT ![p].pc = "end worker", ![p].status = "hit"]
  <2> DEFINE s == [run[p] EXCEPT !.pc = "end worker", !.status = "hit"]
  <2>1. /\ s \in Runs /\ s.pc = "end worker" /\ s.failure = "none"
        /\ s.worker = "running" /\ s.spoilt = run[p].spoilt /\ s.result = run[p].result
        /\ s.published = run[p].published /\ s.id = run[p].id
    BY <1>2 DEF Runs, Places
  <2>2. run' = [run EXCEPT ![p] = s]
    BY <1>5
  <2> HIDE DEF s
  <2> QED BY <1>1, <1>5, <2>1, <2>2, WorkMoves
<1> QED BY <1>3, <1>4, <1>5 DEF Stage

LEMMA StreamMoves ==
  ASSUME Inv, NEW p \in Programs, BeginStream(p) \/ Receive(p) \/ Drain(p) PROVE Moves(p)
<1>1. run[p].pc \in Working
  BY DEF BeginStream, Receive, Drain, At, Working
<1>2. run[p] \in Runs /\ run[p].failure = "none" /\ run[p].worker = "running"
  BY <1>1, WorkingProgram
<1>3. ASSUME NEW why \in {"Cancelled", "Worker"}, NEW slot \in {"Idle", "Cancelled", "Terminal"},
             StreamFails(p, slot, why)
      PROVE  Moves(p)
  BY <1>1, <1>3, FailMoves DEF Failures
<1>4. CASE Goto(p, "drain")
  BY <1>1, <1>4, WorkGoto DEF Working
<1>5. ASSUME NEW s \in {[run[p] EXCEPT !.pc = "receive", !.slot = "Taken"],
                        [run[p] EXCEPT !.pc = "stage", !.slot = "Idle", !.streamed = @ + 1]},
             run' = [run EXCEPT ![p] = s]
      PROVE  Moves(p)
  <2>1. /\ s \in Runs /\ s.pc \in Working /\ s.failure = "none" /\ s.worker = "running"
        /\ s.spoilt = run[p].spoilt /\ s.result = run[p].result
        /\ s.published = run[p].published /\ s.id = run[p].id
    <3>1. CASE s = [run[p] EXCEPT !.pc = "receive", !.slot = "Taken"]
      BY <1>2, <3>1 DEF Runs, Places, Working
    <3>2. CASE s = [run[p] EXCEPT !.pc = "stage", !.slot = "Idle", !.streamed = @ + 1]
      <4> DEFINE n == run[p].streamed + 1
      <4>1. n \in Nat
        BY <1>2 DEF Runs
      <4>2. s = [run[p] EXCEPT !.pc = "stage", !.slot = "Idle", !.streamed = n]
        BY <3>2
      <4> HIDE DEF n
      <4> QED BY <1>2, <4>1, <4>2 DEF Runs, Places, Working
    <3> QED BY <1>5, <3>1, <3>2
  <2> QED BY <1>1, <1>5, <2>1, WorkMoves
<1>6. CASE BeginStream(p)
  BY <1>3, <1>5, <1>6 DEF BeginStream
<1>7. CASE Receive(p)
  BY <1>3, <1>4, <1>5, <1>7 DEF Receive
<1>8. CASE Drain(p)
  BY <1>3, <1>8 DEF Drain
<1> QED BY <1>6, <1>7, <1>8

-----------------------------------------------------------------------------
(* The worker's end: what failed returns its first failure, and what did not *)
(* is recorded.                                                              *)
LEMMA EndWorkerMoves ==
  ASSUME Inv, NEW p \in Programs, EndWorker(p) PROVE Moves(p)
<1> DEFINE failed == run[p].status = "failed"
           end == IF ~failed /\ run[p].slot \in {"Idle", "Cancelled"}
                  THEN "orderly" ELSE "terminated"
           ended == [run[p] EXCEPT !.worker = end]
           next == [ended EXCEPT !.pc = "truncate record", !.tokens = {}]
<1>1. /\ run[p] \in Runs /\ RunInv(run[p], trees) /\ run[p].pc = "end worker"
      /\ clears = 0 => EntryInv(run[p], entry, record)
  BY OneProgram DEF EndWorker, At
<1>2. end \in {"orderly", "terminated"} /\ (failed => end = "terminated")
  OBVIOUS
<1>3. IF failed THEN ~run[p].published ELSE run[p].failure = "none" /\ run[p].id \in trees
  BY <1>1 DEF RunInv
<1>4. run' = [run EXCEPT ![p] = IF failed THEN Returned(ended, ended.failure) ELSE next]
  BY DEF EndWorker
<1> HIDE DEF end
<1>5. /\ ended \in Runs /\ ended.worker = end /\ ended.spoilt = run[p].spoilt
      /\ ended.published = run[p].published /\ ended.failure = run[p].failure
      /\ ended.id = run[p].id /\ ended.result = run[p].result
  BY <1>1, <1>2 DEF Runs
<1>6. CASE failed
  <2>1. ended.failure \in Results /\ ended.failure # "ManifestConflict"
    BY <1>5 DEF Runs, Failures, Results, Errors
  <2>2. MayReturn(ended, ended.failure)
    BY <1>2, <1>3, <1>5, <1>6 DEF MayReturn, Runs, Failures
  <2> HIDE DEF ended
  <2>3. Local(p, Returned(ended, ended.failure))
    BY <1>5, <2>1, <2>2, ReturnedIsLocal
  <2> QED BY <1>4, <1>6, <2>3 DEF Moves
<1>7. CASE ~failed
  <2> HIDE DEF ended
  <2>1. /\ next \in Runs /\ next.pc = "truncate record" /\ next.worker = end
        /\ next.spoilt = run[p].spoilt /\ next.failure = run[p].failure
        /\ next.id = run[p].id /\ next.result = run[p].result
    BY <1>5 DEF Runs, Places, Recording, Tokens
  <2> HIDE DEF next
  <2>2. RunInv(next, trees)
    BY <1>2, <1>3, <1>7, <2>1 DEF RunInv, Entering, Working, Recording
  <2>3. clears = 0 => entry = "whole" /\ next.result # "ManifestConflict"
    BY <1>1, <2>1 DEF EntryInv, Outside, Entering
  <2>4. Local(p, next)
    BY <2>1, <2>2, <2>3 DEF Local
  <2> QED BY <1>4, <1>7, <2>4 DEF Moves
<1> QED BY <1>6, <1>7

(* A token changes nothing but itself. *)
LEMMA SignalMoves ==
  ASSUME Inv, NEW p \in Programs, NEW token \in Tokens, Signal(p, token) PROVE Moves(p)
<1> DEFINE s == [run[p] EXCEPT !.tokens = @ \cup {token}]
<1>1. /\ run[p] \in Runs /\ RunInv(run[p], trees)
      /\ clears = 0 => EntryInv(run[p], entry, record)
  BY OneProgram
<1>2. run[p].tokens \cup {token} \in SUBSET Tokens
  BY <1>1 DEF Runs
<1>3. /\ s \in Runs /\ s.pc = run[p].pc /\ s.worker = run[p].worker
      /\ s.spoilt = run[p].spoilt /\ s.failure = run[p].failure
      /\ s.id = run[p].id /\ s.result = run[p].result
      /\ s.published = run[p].published /\ s.status = run[p].status
  BY <1>1, <1>2 DEF Runs
<1>4. run' = [run EXCEPT ![p] = s]
  BY DEF Signal
<1> HIDE DEF s
<1>5. RunInv(s, trees)
  BY <1>1, <1>3 DEF RunInv, Quiet
<1>6. s.pc \notin {"write record", "find again"}
  BY <1>3 DEF Signal, Importing
<1>7. Local(p, s)
  BY <1>1, <1>3, <1>5, <1>6 DEF Local, EntryInv
<1> QED BY <1>4, <1>7 DEF Moves

LEMMA StartedProgram ==
  ASSUME NEW id \in Identities, NEW spoilt \in BOOLEAN
  PROVE  /\ Started(id, spoilt) \in Runs /\ Started(id, spoilt).pc = "find"
         /\ Started(id, spoilt).worker = "none" /\ Quiet(Started(id, spoilt))
         /\ Started(id, spoilt).spoilt = spoilt /\ Started(id, spoilt).id = id
         /\ Started(id, spoilt).result = "none"
BY DEF Started, Runs, Places, Entering, Tokens, Failures, Quiet

LEMMA StartAgainMoves ==
  ASSUME Inv, NEW p \in Programs, StartAgain(p) PROVE Moves(p)
<1> DEFINE s == Started(run[p].id, run[p].spoilt)
<1>1. run[p].id \in Identities /\ run[p].spoilt \in BOOLEAN
  BY OneProgram DEF Runs
<1>2. /\ s \in Runs /\ s.pc = "find" /\ s.worker = "none" /\ Quiet(s)
      /\ s.spoilt = run[p].spoilt /\ s.result = "none"
  BY <1>1, StartedProgram
<1>3. run' = [run EXCEPT ![p] = s]
  BY DEF StartAgain
<1> HIDE DEF s
<1>4. RunInv(s, trees)
  BY <1>2 DEF RunInv, Entering, Working, Recording
<1>5. Local(p, s)
  BY <1>2, <1>4 DEF Local, Outside, Entering
<1> QED BY <1>3, <1>5 DEF Moves

-----------------------------------------------------------------------------
(* The steps that change the disk, or touch the record. *)

(* The entry appears whole, under the lock. *)
LEMMA PublishEntryKeepsInv ==
  ASSUME Inv, NEW p \in Programs, PublishEntry(p) PROVE Inv'
<1>0. run[p].pc = "publish entry" /\ run[p].pc \in EarlySteps
  BY DEF PublishEntry, At, EarlySteps, Entering
<1>1. CASE entry = "absent"
  <2> DEFINE s == [run[p] EXCEPT !.pc = "check record"]
  <2>1. /\ run[p] \in Runs /\ RunInv(run[p], trees)
        /\ clears = 0 => EntryInv(run[p], entry, record)
    BY OneProgram
  <2>2. /\ s \in Runs /\ s.pc = "check record" /\ s.worker = run[p].worker
        /\ s.failure = run[p].failure /\ s.published = run[p].published
        /\ s.spoilt = run[p].spoilt /\ s.result = run[p].result
    BY <2>1 DEF Runs, Places
  <2>3. run' = [run EXCEPT ![p] = s]
    BY <1>1 DEF PublishEntry, Goto
  <2> HIDE DEF s
  <2>4. entry' = "whole" /\ record' = record /\ trees' = trees
        /\ clears' = clears /\ restarts' = restarts
    BY <1>1 DEF PublishEntry, Bounds
  <2>5. DiskStep
    BY <2>4 DEF Inv, TypeOK, DiskStep
  <2>6. RunInv(s, trees')
    BY <1>0, <2>1, <2>2 DEF RunInv, Quiet, Entering, Working, Recording
  <2>7. clears = 0 => EntryInv(s, entry', record')
    BY <2>1, <2>2, <2>4 DEF EntryInv
  <2>8. Blamed(s) \/ (record' = record /\ ~Blamed(run[p]))
    BY <1>0, <2>2, <2>4 DEF Blamed
  <2> QED BY <2>2, <2>3, <2>5, <2>6, <2>7, <2>8, StepKeepsInv
<1>2. CASE entry # "absent"
  <2>1. Moves(p)
    BY <1>0, <1>2, VerifyMoves DEF PublishEntry
  <2>2. UNCHANGED disk /\ clears' = clears /\ restarts' \in Nat
    BY <1>2 DEF PublishEntry, disk, Bounds, Inv, TypeOK
  <2> QED BY <1>0, <2>1, <2>2, LocalKeepsInv DEF Moves
<1> QED BY <1>1, <1>2

(* A recorded identity ends the import. *)
LEMMA CheckRecordKeepsInv ==
  ASSUME Inv, NEW p \in Programs, CheckRecord(p) PROVE Inv'
<1>0. run[p].pc = "check record" /\ run[p].pc \in EarlySteps
  BY DEF CheckRecord, At, EarlySteps
<1>1. UNCHANGED disk /\ clears' = clears /\ restarts' \in Nat
  BY DEF CheckRecord, Held, Bounds, Inv, TypeOK
<1>2. clears = 0 => entry = "whole"
  BY <1>0, OneProgram DEF EntryInv, Outside, Entering
<1>3. CASE record \in Unrecorded
  <2>1. Moves(p)
    BY <1>0, <1>2, <1>3, EarlyGoto DEF CheckRecord, EarlySteps
  <2> QED BY <1>0, <1>1, <2>1, LocalKeepsInv DEF Moves
<1>4. CASE record \notin Unrecorded
  <2> DEFINE s == [run[p] EXCEPT !.pc = "find again"]
  <2>1. /\ run[p] \in Runs /\ RunInv(run[p], trees)
        /\ clears = 0 => EntryInv(run[p], entry, record)
    BY OneProgram
  <2>2. /\ s \in Runs /\ s.pc = "find again" /\ s.worker = run[p].worker
        /\ s.failure = run[p].failure /\ s.result = run[p].result
    BY <2>1 DEF Runs, Places
  <2>3. run' = [run EXCEPT ![p] = s]
    BY <1>4 DEF CheckRecord, Goto
  <2> HIDE DEF s
  <2>4. DiskStep
    BY <1>1 DEF disk, Inv, TypeOK, DiskStep
  <2>5. RunInv(s, trees')
    BY <1>0, <2>1, <2>2 DEF RunInv, Quiet, Entering, Working, Recording
  <2>6. clears = 0 => EntryInv(s, entry', record')
    BY <1>0, <1>1, <1>2, <2>1, <2>2 DEF EntryInv, disk
  <2>7. record' \notin Unrecorded
    BY <1>1, <1>4 DEF disk
  <2> QED BY <2>2, <2>3, <2>4, <2>5, <2>6, <2>7, StepKeepsInv
<1> QED BY <1>3, <1>4

(* The tree appears, unless it is there already. *)
LEMMA PublishTreeKeepsInv ==
  ASSUME Inv, NEW p \in Programs, PublishTree(p) PROVE Inv'
<1> DEFINE hit == run[p].id \in trees
           s == [run[p] EXCEPT !.pc = "end worker",
                               !.status = IF hit THEN "hit" ELSE "published",
                               !.published = ~hit]
<1>1. /\ run[p] \in Runs /\ RunInv(run[p], trees) /\ run[p].pc = "publish"
      /\ clears = 0 => EntryInv(run[p], entry, record)
  BY OneProgram DEF PublishTree, At
<1>2. run[p].failure = "none" /\ run[p].worker = "running" /\ run[p].published = FALSE
      /\ run[p].id \in Identities
  BY <1>1 DEF RunInv, Quiet, Working, Runs
<1>3. run' = [run EXCEPT ![p] = s]
  <2>1. CASE hit
    <3>1. run' = [run EXCEPT ![p] = [run[p] EXCEPT !.pc = "end worker", !.status = "hit"]]
      BY <2>1 DEF PublishTree
    <3>2. s = [run[p] EXCEPT !.pc = "end worker", !.status = "hit"]
      BY <1>1, <1>2, <2>1 DEF Runs
    <3> QED BY <3>1, <3>2
  <2>2. CASE ~hit
    BY <2>2 DEF PublishTree
  <2> QED BY <2>1, <2>2
<1>4. trees' = trees \cup {run[p].id} /\ entry' = entry /\ record' = record
      /\ clears' = clears /\ restarts' = restarts
  BY DEF PublishTree, Held, Bounds
<1>5. /\ s \in Runs /\ s.pc = "end worker" /\ s.worker = "running" /\ s.failure = "none"
      /\ s.id = run[p].id /\ s.spoilt = run[p].spoilt /\ s.status # "failed"
      /\ s.result = run[p].result
  BY <1>1, <1>2 DEF Runs, Places
<1> HIDE DEF s, hit
<1>6. DiskStep
  BY <1>2, <1>4 DEF Inv, TypeOK, DiskStep
<1>7. RunInv(s, trees')
  BY <1>4, <1>5 DEF RunInv, Entering, Working, Recording
<1>8. clears = 0 => EntryInv(s, entry', record')
  BY <1>1, <1>4, <1>5 DEF EntryInv, Outside, Entering
<1>9. Blamed(s) \/ (record' = record /\ ~Blamed(run[p]))
  BY <1>1, <1>4, <1>5 DEF Blamed
<1> QED BY <1>3, <1>5, <1>6, <1>7, <1>8, <1>9, StepKeepsInv

(* A program that exits from the record, and one that is killed. *)
LEMMA EmptyRecordKeepsInv ==
  ASSUME Inv, NEW p \in Programs, TruncateRecord(p) PROVE Inv'
<1>0. run[p].pc = "truncate record" /\ trees' = trees /\ clears' = clears
      /\ restarts' = restarts
  BY DEF TruncateRecord, At, Held, Bounds
<1>1. /\ run[p] \in Runs /\ RunInv(run[p], trees)
      /\ clears = 0 => EntryInv(run[p], entry, record)
  BY OneProgram
<1>2. CASE entry' = (IF entry = "absent" THEN "bare" ELSE entry)
           /\ record' = "empty" /\ Goto(p, "write record")
  <2> DEFINE s == [run[p] EXCEPT !.pc = "write record"]
  <2>1. /\ s \in Runs /\ s.pc = "write record" /\ s.worker = run[p].worker
        /\ s.failure = run[p].failure /\ s.result = run[p].result /\ s.id = run[p].id
    BY <1>1 DEF Runs, Places, Recording
  <2>2. run' = [run EXCEPT ![p] = s]
    BY <1>2 DEF Goto
  <2> HIDE DEF s
  <2>3. clears = 0 => entry = "whole" /\ run[p].result # "ManifestConflict"
    BY <1>0, <1>1 DEF EntryInv, Outside, Entering
  <2>4. DiskStep
    BY <1>0, <1>2, <2>3 DEF Inv, TypeOK, DiskStep, Unrecorded
  <2>5. RunInv(s, trees')
    BY <1>0, <1>1, <2>1 DEF RunInv, Entering, Working, Recording
  <2>6. clears = 0 => EntryInv(s, entry', record')
    BY <1>2, <2>1, <2>3 DEF EntryInv
  <2> QED BY <2>1, <2>2, <2>4, <2>5, <2>6, StepKeepsInv DEF Blamed
<1>3. CASE Exit(p, "Provenance") /\ UNCHANGED <<entry, record>>
  <2>1. MayReturn(run[p], "Provenance")
    BY <1>0, <1>1 DEF MayReturn, RunInv, Recording
  <2>2. Local(p, Returned(run[p], "Provenance"))
    BY <1>1, <2>1, ReturnedIsLocal DEF Results, Errors
  <2>3. UNCHANGED disk /\ restarts' \in Nat
    BY <1>0, <1>3 DEF disk, Inv, TypeOK
  <2> QED BY <1>0, <1>3, <2>2, <2>3, LocalKeepsInv DEF Exit
<1> QED BY <1>2, <1>3 DEF TruncateRecord

(* What a program leaves behind in the record it was to blame for. *)
LEMMA SpoiltKeepsInv ==
  ASSUME Inv, NEW p \in Programs, NEW r \in Runs, MayReturn(r, "killed"),
         NEW result \in {"killed", "Provenance"}, UNCHANGED disk, clears' = clears,
         restarts' \in Nat, Blamed(run[p]) => r.spoilt,
         run' = [run EXCEPT ![p] = Returned(r, result)]
  PROVE  Inv'
<1> DEFINE s == Returned(r, result)
<1>1. /\ s \in Runs /\ s.pc = "exited" /\ s.result = result /\ s.spoilt = r.spoilt
      /\ s.published = r.published /\ s.worker = r.worker /\ s.failure = r.failure
      /\ s.id = r.id
  BY DEF Returned, Runs, Places, Tokens, Errors
<1>2. run' = [run EXCEPT ![p] = s]
  OBVIOUS
<1> HIDE DEF s
<1>3. RunInv(s, trees')
  BY <1>1 DEF RunInv, MayReturn, Entering, Working, Recording, Errors
<1>4. DiskStep
  BY DEF disk, Inv, TypeOK, DiskStep
<1>5. EntryInv(s, entry', record')
  BY <1>1 DEF EntryInv, Outside
<1>6. Blamed(s) \/ (record' = record /\ ~Blamed(run[p]))
  BY <1>1 DEF Blamed, disk
<1> QED BY <1>1, <1>2, <1>3, <1>4, <1>5, <1>6, StepKeepsInv

LEMMA WriteRecordKeepsInv ==
  ASSUME Inv, NEW p \in Programs, WriteRecord(p) PROVE Inv'
<1>0. run[p].pc = "write record" /\ trees' = trees /\ entry' = entry /\ clears' = clears
      /\ restarts' = restarts
  BY DEF WriteRecord, At, Held, Bounds
<1>1. /\ run[p] \in Runs /\ RunInv(run[p], trees)
      /\ clears = 0 => EntryInv(run[p], entry, record)
  BY OneProgram
<1>2. run[p].id \in trees /\ run[p].id \in Identities \ Unrecorded
      /\ run[p].worker # "running" /\ run[p].failure = "none"
  <2>1. run[p].id \in trees /\ run[p].worker # "running" /\ run[p].failure = "none"
    BY <1>0, <1>1 DEF RunInv, Recording
  <2>2. run[p].id \in Identities
    BY <1>1 DEF Runs
  <2>3. Identities \cap Unrecorded = {}
    BY RecipesAssumption DEF Identities
  <2> QED BY <2>1, <2>2, <2>3
<1>3. CASE record' = (IF record = "none" THEN "none" ELSE run[p].id) /\ Goto(p, "find again")
  <2> DEFINE s == [run[p] EXCEPT !.pc = "find again"]
  <2>1. /\ s \in Runs /\ s.pc = "find again" /\ s.worker = run[p].worker
        /\ s.failure = run[p].failure /\ s.result = run[p].result /\ s.id = run[p].id
    BY <1>1 DEF Runs, Places
  <2>2. run' = [run EXCEPT ![p] = s]
    BY <1>3 DEF Goto
  <2> HIDE DEF s
  <2>3. clears = 0 => entry = "whole" /\ run[p].result # "ManifestConflict" /\ record # "none"
    BY <1>0, <1>1 DEF EntryInv, Outside, Entering
  <2>4. clears = 0 => record' \notin Unrecorded
    BY <1>2, <1>3, <2>3
  <2>5. DiskStep
    BY <1>0, <1>2, <1>3, <2>3, <2>4 DEF Inv, TypeOK, DiskStep, Unrecorded
  <2>6. RunInv(s, trees')
    BY <1>0, <1>2, <2>1 DEF RunInv, Entering, Working, Recording
  <2>7. clears = 0 => EntryInv(s, entry', record')
    BY <1>0, <2>1, <2>3 DEF EntryInv
  <2> QED BY <2>1, <2>2, <2>4, <2>5, <2>6, <2>7, StepKeepsInv
<1>4. CASE UNCHANGED record
           /\ run' = [run EXCEPT ![p] = Returned([@ EXCEPT !.spoilt = TRUE], "Provenance")]
  <2> DEFINE s == [run[p] EXCEPT !.spoilt = TRUE]
  <2>1. /\ s \in Runs /\ s.spoilt /\ s.worker = run[p].worker /\ s.failure = run[p].failure
    BY <1>1 DEF Runs
  <2>2. run' = [run EXCEPT ![p] = Returned(s, "Provenance")]
    BY <1>4
  <2> HIDE DEF s
  <2>3. MayReturn(s, "killed")
    BY <1>2, <2>1 DEF MayReturn, Errors
  <2>4. UNCHANGED disk /\ restarts' \in Nat
    BY <1>0, <1>4 DEF disk, Inv, TypeOK
  <2> QED BY <1>0, <2>1, <2>2, <2>3, <2>4, SpoiltKeepsInv
<1> QED BY <1>3, <1>4 DEF WriteRecord

LEMMA KillKeepsInv ==
  ASSUME Inv, NEW p \in Programs, Kill(p) PROVE Inv'
<1> DEFINE spoilt == run[p].spoilt \/ At(p, "write record")
           s == Started(run[p].id, spoilt)
<1>1. run[p].id \in Identities /\ spoilt \in BOOLEAN
  BY OneProgram DEF Runs
<1>2. run' = [run EXCEPT ![p] = Returned(s, "killed")]
  BY DEF Kill
<1>3. Blamed(run[p]) => spoilt
  BY DEF Blamed, At
<1> HIDE DEF spoilt
<1>4. s \in Runs /\ s.worker = "none" /\ s.spoilt = spoilt
  BY <1>1, StartedProgram
<1> HIDE DEF s
<1>5. MayReturn(s, "killed")
  BY <1>4 DEF MayReturn, Errors
<1>6. UNCHANGED disk /\ clears' = clears /\ restarts' \in Nat
  BY DEF Kill, Bounds, Inv, TypeOK
<1> QED BY <1>2, <1>3, <1>4, <1>5, <1>6, SpoiltKeepsInv

LEMMA FindAgainKeepsInv ==
  ASSUME Inv, NEW p \in Programs, FindAgain(p) PROVE Inv'
<1> DEFINE found == IF Published THEN record ELSE "none"
           s == [run[p] EXCEPT !.found = found]
<1>1. /\ run[p] \in Runs /\ RunInv(run[p], trees) /\ run[p].pc = "find again"
  BY OneProgram DEF FindAgain, At
<1>2. found \in Identities \cup {"none"}
  BY DEF Published, Inv, TypeOK
<1>3. run' = [run EXCEPT ![p] = Returned(s, "imported")]
  BY DEF FindAgain
<1> HIDE DEF found
<1>4. /\ s \in Runs /\ s.worker = run[p].worker /\ s.failure = run[p].failure
      /\ s.id = run[p].id /\ s.spoilt = run[p].spoilt
  BY <1>1, <1>2 DEF Runs
<1> HIDE DEF s
<1>5. MayReturn(s, "imported")
  BY <1>1, <1>4 DEF RunInv, MayReturn, Errors
<1>6. Local(p, Returned(s, "imported"))
  BY <1>4, <1>5, ReturnedIsLocal DEF Results
<1>7. UNCHANGED disk /\ clears' = clears /\ restarts' \in Nat
  BY DEF FindAgain, Held, Bounds, Inv, TypeOK
<1> QED BY <1>1, <1>3, <1>6, <1>7, LocalKeepsInv

LEMMA ClearCacheKeepsInv ==
  ASSUME Inv, ClearCache PROVE Inv'
<1>1. clears' \in Nat /\ clears' # 0
  BY DEF ClearCache, Inv, TypeOK
<1>2. entry' = "absent" /\ record' = "none" /\ trees' = trees /\ run' = run
      /\ restarts' = restarts
  BY DEF ClearCache
<1>3. TypeOK'
  BY <1>1, <1>2 DEF Inv, TypeOK, Unrecorded
<1> QED BY <1>1, <1>2, <1>3 DEF Inv, Unrecorded

-----------------------------------------------------------------------------
LEMMA InitInv == Init => Inv
<1> SUFFICES ASSUME Init PROVE Inv
  OBVIOUS
<1>1. PICK id \in [Programs -> Identities] :
        run = [p \in Programs |-> Started(id[p], FALSE)]
  BY DEF Init, Identities
<1>2. ASSUME NEW p \in Programs
      PROVE  /\ run[p] \in Runs /\ run[p].pc = "find" /\ run[p].worker = "none"
             /\ Quiet(run[p]) /\ run[p].result = "none"
  BY <1>1, <1>2, StartedProgram
<1>3. TypeOK
  BY <1>1, <1>2 DEF Init, TypeOK, Unrecorded
<1>4. ASSUME NEW p \in Programs
      PROVE  RunInv(run[p], trees) /\ EntryInv(run[p], entry, record) /\ FindInv(p)
  BY <1>2 DEF RunInv, EntryInv, FindInv, At, Outside, Entering, Working, Recording
<1> QED BY <1>3, <1>4 DEF Init, Inv, Unrecorded

LEMMA NextKeepsInv == Inv /\ [Next]_vars => Inv'
<1> SUFFICES ASSUME Inv, [Next]_vars PROVE Inv'
  OBVIOUS
<1>1. ASSUME NEW p \in Programs, Moves(p), run[p].pc # "write record",
             UNCHANGED disk, clears' = clears, restarts' \in Nat
      PROVE  Inv'
  BY <1>1, LocalKeepsInv DEF Moves
<1>2. restarts \in Nat
  BY DEF Inv, TypeOK
<1>3. ASSUME NEW p \in Programs, Step(p) PROVE Inv'
  <2>1. CASE Find(p)
    BY <1>1, <1>2, <2>1, FindMoves DEF Find, At, Held, Bounds
  <2>2. CASE Prepare(p) \/ AcquireLock(p) \/ StageEntry(p)
    BY <1>1, <1>2, <2>2, PrepareMoves DEF Prepare, AcquireLock, StageEntry, At, Held, Bounds
  <2>3. CASE Launch(p)
    BY <1>1, <1>2, <2>3, LaunchMoves DEF Launch, At, Held, Bounds
  <2>4. CASE Open(p)
    BY <1>1, <1>2, <2>4, OpenMoves DEF Open, At, Held, Bounds
  <2>5. CASE Stage(p)
    BY <1>1, <1>2, <2>5, StageMoves DEF Stage, At, Held, Bounds
  <2>6. CASE BeginStream(p) \/ Receive(p) \/ Drain(p)
    BY <1>1, <1>2, <2>6, StreamMoves DEF BeginStream, Receive, Drain, At, Held, Bounds
  <2>7. CASE EndWorker(p)
    BY <1>1, <1>2, <2>7, EndWorkerMoves DEF EndWorker, At, Held, Bounds
  <2> QED BY <1>3, <2>1, <2>2, <2>3, <2>4, <2>5, <2>6, <2>7, PublishEntryKeepsInv,
             CheckRecordKeepsInv, PublishTreeKeepsInv, EmptyRecordKeepsInv,
             WriteRecordKeepsInv, FindAgainKeepsInv DEF Step
<1>4. ASSUME NEW p \in Programs, StartAgain(p) PROVE Inv'
  <2>1. Moves(p)
    BY <1>4, StartAgainMoves
  <2>2. UNCHANGED disk /\ clears' = clears /\ run[p].pc # "write record"
    BY <1>4 DEF StartAgain, At
  <2>3. restarts' \in Nat
    BY <1>2, <1>4 DEF StartAgain
  <2> QED BY <1>1, <2>1, <2>2, <2>3
<1>5. ASSUME NEW p \in Programs, NEW token \in Tokens, Signal(p, token) PROVE Inv'
  BY <1>1, <1>2, <1>5, SignalMoves DEF Signal, Importing, Held, Bounds
<1>6. CASE UNCHANGED vars
  <2>1. /\ entry' = entry /\ record' = record /\ trees' = trees /\ run' = run
        /\ clears' = clears /\ restarts' = restarts
    BY <1>6 DEF vars
  <2>2. TypeOK'
    BY <2>1 DEF Inv, TypeOK
  <2>3. ASSUME clears = 0, NEW p \in Programs PROVE FindInv(p)'
    <3>1. FindInv(p)
      BY <2>3 DEF Inv
    <3> QED BY <2>1, <3>1 DEF FindInv, At, RewritesRecord
  <2> QED BY <2>1, <2>2, <2>3 DEF Inv
<1> QED BY <1>3, <1>4, <1>5, <1>6, KillKeepsInv, ClearCacheKeepsInv DEF Next

LEMMA SpecInv == Spec => []Inv
BY InitInv, NextKeepsInv, PTL DEF Spec

(* What run_import returns is what it did: an error published nothing, a     *)
(* reported import has its payload published, the worker is never left       *)
(* running, and a record names a published tree.                             *)
THEOREM OutcomesAreTrue == Spec => []OutcomeIsTrue
<1>1. Inv => OutcomeIsTrue
  BY DEF Inv, RunInv, OutcomeIsTrue, Exited, At
<1> QED BY <1>1, SpecInv, PTL

(* While nobody clears the cache, prepare_import_cache shows no entry that   *)
(* is not whole, and no program meets a conflict with its own medium.        *)
THEOREM EntriesAreWhole == Spec => []EntryIsWhole
<1>1. Inv => EntryIsWhole
  BY DEF Inv, EntryInv, EntryIsWhole
<1> QED BY <1>1, SpecInv, PTL

(* The second find_published_payload of a program that reports an import     *)
(* finds one, unless another program is, or died, in the middle of the       *)
(* record, or the cache was cleared.                                         *)
THEOREM ImportsAreFound == Spec => ImportIsFound
<1> DEFINE Finds ==
      \A p \in Programs : FindAgain(p) =>
        \/ run'[p].found # "none"
        \/ clears > 0
        \/ \E q \in Programs \ {p} : RewritesRecord(q)
<1>1. Inv => Finds
  <2> SUFFICES ASSUME Inv, NEW p \in Programs, FindAgain(p), ~(clears > 0),
                      ~\E q \in Programs \ {p} : RewritesRecord(q)
               PROVE  run'[p].found # "none"
    OBVIOUS
  <2>0. record \notin Unrecorded
    <3>1. clears = 0
      BY DEF Inv, TypeOK
    <3> QED BY <3>1 DEF Inv, FindInv, FindAgain
  <2>1. Published /\ record # "none"
    BY <2>0 DEF Inv, Published, Unrecorded
  <2>2. run[p] \in Runs /\ run \in [Programs -> Runs]
    BY DEF Inv, TypeOK
  <2>3. run'[p] = Returned([run[p] EXCEPT !.found = record], "imported")
    BY <2>1, <2>2 DEF FindAgain
  <2> QED BY <2>1, <2>2, <2>3 DEF Returned, Runs
<1>2. Inv /\ [Next]_vars => [Finds]_vars
  BY <1>1
<1> HIDE DEF Finds
<1>3. Spec => [][Finds]_vars
  BY <1>2, SpecInv, PTL DEF Spec
<1> QED BY <1>3 DEF ImportIsFound, Finds
=============================================================================
