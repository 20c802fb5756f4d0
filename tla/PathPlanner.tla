----------------------------- MODULE PathPlanner ----------------------------
(***************************************************************************)
(* The two planners every archive-controlled name passes on its way to the *)
(* disk: plan_catalog (ohl-import catalog.rs), which promotes a worker's   *)
(* enumeration, and plan_payload_layout (ohl-payload layout.rs), which     *)
(* plans the destinations of the entries a recipe selects.  Each step is   *)
(* one iteration of a planner's loop.                                      *)
(*                                                                         *)
(* An archive path is the sequence of the components it splits into at     *)
(* either separator, a component the sequence of its bytes: the planners   *)
(* compare bytes, so their order matters.  Quotas, tokens and sizes are    *)
(* part of ResultSession.                                                  *)
(***************************************************************************)
EXTENDS Naturals, Sequences, SequencesExt

CONSTANTS ArchivePaths,   \* the spellings a worker may report
          MaxEntries      \* bound on the entries of one enumeration

VARIABLES
    stage,      \* which loop is running
    reported,   \* every spelling reported so far
    catalog,    \* locals of plan_catalog: planned, folded and the error
    layout,     \* locals of plan_payload_layout
    cursor      \* the catalog entry the layout loop is at

vars == <<stage, reported, catalog, layout, cursor>>

-----------------------------------------------------------------------------
Slash == 47
Dot == 46
Space == 32

\* A path is split at its separators, so no component contains one.
ASSUME ArchivePathsAssumption == \A path \in ArchivePaths : path \in Seq(Seq(Nat \ {Slash}))

Lowercase(byte) == IF byte \in 65..90 THEN byte + 32 ELSE byte
FoldCase(path) == [k \in DOMAIN path |-> [j \in DOMAIN path[k] |-> Lowercase(path[k][j])]]

\* The spelling of a normalized path: every component after a slash.
Bytes(path) ==
    LET text[n \in 0..Len(path)] ==
            IF n = 0 THEN <<>> ELSE text[n - 1] \o <<Slash>> \o path[n]
    IN  text[Len(path)]

\* The byte-wise order of BTreeSet<String> and of the layout's sort.
Precedes(s, t) ==
    \/ \E n \in 1..Len(s) : /\ n <= Len(t) /\ s[n] < t[n]
                            /\ \A m \in 1..(n - 1) : s[m] = t[m]
    \/ IsStrictPrefix(s, t)

\* The paths of a set, no spelling before a smaller one.
InByteOrder(S) ==
    CHOOSE s \in [1..Cardinality(S) -> S] :
        \A m, n \in DOMAIN s : m < n =>
            s[m] # s[n] /\ ~Precedes(Bytes(FoldCase(s[n])), Bytes(FoldCase(s[m])))

Relative(c) == c = <<Dot>> \/ c = <<Dot, Dot>>
Normalizes(path) == \A k \in DOMAIN path : ~Relative(path[k])
NormalizePath(path) ==
    LET kept[n \in 0..Len(path)] ==
            IF n = 0 THEN <<>>
            ELSE IF path[n] = <<>> THEN kept[n - 1] ELSE Append(kept[n - 1], path[n])
    IN  kept[Len(path)]

\* Destinations are stricter: no component may end in a dot or a space.
PayloadPathParses(path) ==
    \A k \in DOMAIN path : path[k][Len(path[k])] \notin {Dot, Space}

EmptyLayout == [planned |-> <<>>, files |-> {}, directories |-> {}, error |-> "None"]

Init ==
    /\ stage = "Catalog"
    /\ reported = <<>>
    /\ catalog = [planned |-> <<>>, folded |-> {}, error |-> "None"]
    /\ layout = EmptyLayout
    /\ cursor = 0

-----------------------------------------------------------------------------
(* One entry of plan_catalog. *)
PlanEntry(path) ==
    LET normalized == NormalizePath(path)
        folded == FoldCase(normalized)
    IN  /\ stage = "Catalog" /\ catalog.error = "None" /\ Len(reported) < MaxEntries
        /\ reported' = Append(reported, path)
        /\ catalog' =
             IF ~Normalizes(path) \/ normalized = <<>>
             THEN [catalog EXCEPT !.error = "InvalidPath"]
             ELSE IF folded \in catalog.folded
             THEN [catalog EXCEPT !.error = "PathConflict"]
             ELSE [catalog EXCEPT !.planned = Append(@, normalized), !.folded = @ \cup {folded}]
        /\ UNCHANGED <<stage, layout, cursor>>

\* Mutant: the byte after the shared prefix is not looked at.
ExtendsByBytes(path, previous) == IsStrictPrefix(Bytes(previous), Bytes(path))

\* The later path starts with the earlier one followed by a slash.
ExtendsDirectory(path, previous) == IsPrefix(Bytes(previous) \o <<Slash>>, Bytes(path))

(* The scan that closes plan_catalog compares each folded path with its      *)
(* predecessor in byte order.                                                *)
ScanNeighbours ==
    LET sorted == InByteOrder(catalog.folded)
        alias == \E n \in 2..Len(sorted) : ExtendsDirectory(sorted[n], sorted[n - 1])
    IN  /\ stage = "Catalog" /\ catalog.error = "None"
        /\ catalog' = IF alias THEN [catalog EXCEPT !.error = "PathConflict"] ELSE catalog
        /\ stage' = IF alias THEN "Catalog" ELSE "Layout"
        /\ cursor' = IF alias THEN 0 ELSE 1
        /\ UNCHANGED <<reported, layout>>

-----------------------------------------------------------------------------
Ancestors(path) == {SubSeq(path, 1, n) : n \in 1..(Len(path) - 1)}

(* Mutants: a destination that is already a directory, or that lies below a  *)
(* file, is not refused.                                                     *)
ClashesWithFilesOnly(plan, path) ==
    \/ FoldCase(path) \in plan.files
    \/ \E a \in Ancestors(path) : FoldCase(a) \in plan.files
    \/ \E a \in Ancestors(path), d \in plan.directories : FoldCase(a) = FoldCase(d) /\ a # d
ClashesIgnoringAncestors(plan, path) ==
    \/ FoldCase(path) \in plan.files
    \/ \E d \in plan.directories : FoldCase(d) = FoldCase(path)
    \/ \E a \in Ancestors(path), d \in plan.directories : FoldCase(a) = FoldCase(d) /\ a # d

(* A destination clashes with a file or a directory of its own name, with a  *)
(* file at one of its ancestors, or with another spelling of an ancestor.    *)
Clashes(plan, path) ==
    \/ FoldCase(path) \in plan.files
    \/ \E d \in plan.directories : FoldCase(d) = FoldCase(path)
    \/ \E a \in Ancestors(path) : FoldCase(a) \in plan.files
    \/ \E a \in Ancestors(path), d \in plan.directories : FoldCase(a) = FoldCase(d) /\ a # d

\* One entry of plan_payload_layout.
PlanDestination(plan, path) ==
    IF plan.error # "None" THEN plan
    ELSE IF Clashes(plan, path) THEN [plan EXCEPT !.error = "PathConflict"]
    ELSE [plan EXCEPT !.planned = Append(@, path), !.files = @ \cup {FoldCase(path)},
                      !.directories = @ \cup Ancestors(path)]

\* The key of a destination is its folded spelling without a leading slash.
SortByKey(planned) == InByteOrder(Range(planned))

PlanPayloadLayout(paths) ==
    LET plan[n \in 0..Len(paths)] ==
            IF n = 0 THEN EmptyLayout ELSE PlanDestination(plan[n - 1], paths[n])
        last == plan[Len(paths)]
    IN  IF last.error = "None" THEN [last EXCEPT !.planned = SortByKey(@)] ELSE last

(* The pipeline offers the layout loop the catalog entries in order; a       *)
(* spelling the destination policy refuses is skipped, and the recipe may    *)
(* leave out any other.                                                      *)
AtEntry == stage = "Layout" /\ layout.error = "None" /\ cursor <= Len(catalog.planned)

PlanNext ==
    /\ AtEntry
    /\ PayloadPathParses(catalog.planned[cursor])
    /\ layout' = PlanDestination(layout, catalog.planned[cursor])
    /\ cursor' = cursor + 1
    /\ UNCHANGED <<stage, reported, catalog>>

SkipNext ==
    /\ AtEntry
    /\ cursor' = cursor + 1
    /\ UNCHANGED <<stage, reported, catalog, layout>>

SealLayout ==
    /\ stage = "Layout" /\ layout.error = "None" /\ cursor > Len(catalog.planned)
    /\ layout' = [layout EXCEPT !.planned = SortByKey(@)]
    /\ stage' = "Planned"
    /\ UNCHANGED <<reported, catalog, cursor>>

Next ==
    \/ \E path \in ArchivePaths : PlanEntry(path)
    \/ ScanNeighbours \/ PlanNext \/ SkipNext \/ SealLayout

Spec == Init /\ [][Next]_vars

-----------------------------------------------------------------------------
\* One path names a directory that the other lies in, letter case apart.
IsAbove(p, q) == IsStrictPrefix(FoldCase(p), FoldCase(q))
Promoted == stage # "Catalog"

(* The doc comment of plan_catalog: conflicts include file versus directory  *)
(* prefix aliases, so no promoted path is an ancestor of another.            *)
CatalogIsPrefixFree ==
    Promoted => \A p, q \in Range(catalog.planned) : ~IsAbove(p, q)

SameName(p, q) == FoldCase(p) = FoldCase(q)

(* What a planned layout means to a disk that ignores letter case: no two    *)
(* files share a name, no file is also a directory, and every directory has  *)
(* one spelling, whatever the catalog let through.                           *)
LayoutIsExtractable ==
    LET planned == Range(layout.planned)
    IN  stage = "Planned" =>
        /\ Len(layout.planned) = Cardinality(planned)
        /\ \A p, q \in planned :
              /\ SameName(p, q) => p = q
              /\ ~IsAbove(p, q)
              /\ \A a \in Ancestors(p), d \in Ancestors(q) : SameName(a, d) => a = d

(* A path conflict is only ever reported for two entries that really clash:  *)
(* one name twice, a file above another, or a directory spelled in two ways. *)
RefusalsAreReal ==
    /\ catalog.error = "PathConflict" =>
          \E m, n \in DOMAIN reported :
              /\ m # n
              /\ LET p == NormalizePath(reported[m])
                     q == NormalizePath(reported[n])
                 IN  SameName(p, q) \/ IsAbove(p, q)
    /\ layout.error = "PathConflict" =>
          LET p == catalog.planned[cursor - 1]
          IN  \E q \in Range(layout.planned) :
                  \/ SameName(p, q) \/ IsAbove(p, q) \/ IsAbove(q, p)
                  \/ \E a \in Ancestors(p), d \in Ancestors(q) : SameName(a, d) /\ a # d

(* prepare in stage.rs plans the planned entries again and refuses a request *)
(* that does not come back unchanged: planning is independent of the order   *)
(* of its input, and a plan is its own plan.                                 *)
ReplanningAgrees ==
    stage = "Planned" => PlanPayloadLayout(layout.planned) = layout
=============================================================================
