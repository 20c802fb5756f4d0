# Verification of open-half-life: the import path and the map logic

open-half-life reads a user's own game media, turns it into a tree of files, and
plays the maps it finds there. Two parts of it are modelled here.

The *import path*. The bytes are parsed by an isolated worker process, which the
importer does not trust, and the result is published on disk so that a reader sees
either the whole payload or none of it. This is where the program meets
concurrency, failure, cancellation, crashes and a peer that may lie.

The *map logic*. A map is a set of entities that fire each other through a queue of
delayed events: doors, buttons, platforms, trains on switched tracks, masters,
managers. It can be saved at any step and loaded again, and left for a neighbouring
map that takes part of its state along. Nothing runs concurrently, but the state
machines meet in every order the player chooses, and a load or a level change has
to rebuild each of them.

The rest of the repository (formats, rendering, physics, monsters, weapons) is
sequential code over data and floating-point values; section 5 says what that means
for the share of the code this project covers.

All paths below are relative to the repository; `PROJECT.json` maps every
definition to its lines.

## 1. Inventory

### The parts of the import path

| Part | Source | State it keeps | Operations |
| --- | --- | --- | --- |
| OWP/1 validator | `ohl-parser-protocol/src/session.rs` | `SessionState`, active request and ids, late-reply window, message and byte counts | `observe_outbound`, `observe_inbound` |
| Result session | `ohl-import/src/result_session.rs`, `catalog.rs` | validator, request phase, catalog under construction, bytes delivered to the sink | `begin_*`, `accept_*`, `cancel`, `retire` |
| Source read broker | `ohl-import/src/source_read_broker.rs` | next sequence, read and byte quotas, the pending reply | `prepare`, `service`, `commit`, `abandon` |
| Parser session | `ohl-import/src/parent_session.rs` | typestate phase, handshake, request id allocation | `establish`, `enumerate`, `stream`, `receive_one`, `cancel`, `shutdown` |
| Worker service | `ohl-parser-worker-service/src/service.rs` | its own validator, active request, dispatch steps, reads outstanding, request after cancel | receive loop, dispatch loop, cancel, late reply, teardown |
| Frame channel | `ohl-import/src/frame_channel.rs` | first failure, an active flag per direction, a reusable buffer | `send`, `receive`, `abort`, `begin`/`end`, `poison` |
| Worker handle | `ohl-import/src/platform.rs` | mutex, `aborted`, `abort_pending`, cancellation token | `read_exact`, `write_all`, `abort`, `close`, `wait`, `terminate` |
| Isolated worker | `ohl-platform/src/isolated_worker/` | child, socket, terminal flag | transfers with deadline, terminate, reap, `Drop` |
| Process session | `ohl-import/src/process_session.rs` | lifetime state, recorded outcome | `open`, `orderly_shutdown`, `terminate_once`, `abandon`, `finish`, `Drop` |
| Payload staging | `ohl-payload/src/stage.rs`, `stream.rs` | phase, report, stop flag | `stage_payload` |
| Payload store | `ohl-payload/src/store.rs` | staging directories, completion marker, published name, what is synced | probe, begin, open, write, seal, sync, rename without replacing, sweep |
| Layout and paths | `ohl-payload/src/layout.rs`, `path.rs`, `ohl-import/src/catalog.rs` | folded path sets | normalise, fold, detect conflicts, sort |
| Container pipeline | `ohl-import/src/pipeline.rs` | two cancellation tokens, catalog, selection, where the session is | import: enumerate, select, stage, shut down, record |
| Provenance cache | `ohl-media/src/import_cache.rs` | cache entry with its manifest, publication lock | `prepare_import_cache`, `publish_entry`, `verify_entry` |
| Import command | `ohl-app/src/main.rs`, `ohl-import/src/runtime.rs` | payload record | find, prepare, import, find again |

### The parts of the map logic

| Part | Source | State it keeps | Operations |
| --- | --- | --- | --- |
| Simulation | `ohl-game/src/logic.rs` | queue of fires with their activators, trigger cooldowns and touch edges, multisource counts, busy managers | `fire`, `activate_with`, `touch_*`, `tick` |
| Movers | `ohl-game/src/logic.rs`, `registry.rs`, `pose.rs` | `MoverState` and timer of each door, button, platform | `advance_*`, `block_movers` |
| Track trains | `ohl-game/src/track_train.rs` | chain of nodes, node, distance along the segment, direction, speed, wait | `advance_firing`, `resplice_chain`, `relink`, `turn_on`, `reverse` |
| Track changes | `ohl-game/src/logic.rs` | platform displacement, the train it carries | `start_track_change`, `advance_track_changes`, `finish_track_change` |
| Cameras, effects, breakables | `camera.rs`, `effects.rs`, `ohl-engine/src/map_effects.rs` | active camera, on or off, health | `trigger`, `activate`, `break_entity` |
| Fixed step | `ohl-engine/src/systems.rs`, `combat.rs` | the player's touch and use, blocked movers | `Systems::step` |
| Saves | `ohl-engine/src/game.rs`, `save_state.rs` | one section per kind of state | `to_save`, `restore` |
| Level transitions | `ohl-engine/src/transition.rs`, `ohl-app/src/game_run.rs` | what is captured: movers, travellers, globals, offsets | `capture`, `apply`, `handle_game_events` |

### How they interact

The pipeline opens a *process session*, which launches an *isolated worker* and
wraps it in a *worker handle*. A *frame channel* sends and receives OWP/1 frames
over that handle. The *parser session* drives the protocol from the parent's
side: a *result session* checks every frame with the *validator* and builds the
catalog, and the *source read broker* answers the worker's reads of the media.
On the other side the *worker service* runs a dispatcher in bounded steps behind
the same validator. Once the catalog is complete the *layout* plans destination
paths and *payload staging* streams entries into the *store* and publishes them.
The *import command* wraps all of it: it prepares the medium's cache entry, runs the
pipeline, records the identity of what was published and looks it up again.

In a level, the *fixed step* hands the player's and a monster's place, the use key,
the shots and the blocked movers to the *simulation*: touches first, then the queue,
then the state machines of *movers*, *trains* and *platforms*, which put new fires
into the queue. A save collects the state section by section; a load builds the
level from its map, starts a new simulation and lays the sections over it. A level
change is an event of the step that the application follows when the frame is over:
it captures a *transition* from the old level, builds the new one and applies it.

### What is hard

Cancels cross replies and completions that are already in the pipe; a read may
be answered after the request it belongs to was cancelled; a worker may send any
frame at any time. An abort must reach a thread that holds the mutex and blocks
in the kernel. The child must never outlive its session. Several importers race
for one published name, and any of them can be killed, or the power can fail,
between two system calls. In a map, one fire may activate what is about to fire or
remove it; a switch replaces the chain of nodes under a moving train; a save may be
taken with everything in motion; a traveller may or may not have a counterpart in the
next map. `PROJECT.json` lists each of these hazards at its line,
with the properties that would catch it going wrong.

### The other parts

The remaining crates are listed in `PROJECT.json` with the reason each is left
out. In short: archive and game formats (`ohl-cabinet`, `ohl-iso9660`, `ohl-udf`,
`ohl-wise`, ...) are bounded parsers of bytes without shared state; the renderer,
audio, physics, AI, combat and gameplay crates work on floating-point state in one
frame loop; `xtask` is build tooling.

## 2. Modules

Data is abstract throughout: a frame is a record of the header fields the code
branches on, a file is the number of units written, a path is a sequence of small
components. Control is complete: each handler's guards, early returns, error
paths and their order.

| Module | Models | Form |
| --- | --- | --- |
| `SessionValidator` | `SessionValidator` of `session.rs`: header errors, charging of budgets, one operator per state and direction | operators on a validator record; no variables |
| `RequestLifecycle` | what the validator promises: one request at a time, ids strictly growing, one end each | abstract specification |
| `OwpValidator` | one validator observing arbitrary frames | specification; implements `RequestLifecycle` |
| `OwpTransport` | the pipes between parent and worker, bounded, with loss of a peer | variables and send/receive, external |
| `ResultSession` | request phase, catalog quotas and conflicts, stream accounting | operators on the parent's record |
| `SourceReadBroker` | prepare, service, commit, abandon, retire | operators on the broker's record |
| `ParserSession` | one action per call of the typestate session and per received frame | actions of the parent |
| `WorkerService` | the receive and dispatch loops, cancel, late reply, shutdown, fail-closed | actions of the worker |
| `ImportSession` | parent and worker composed | specification with fairness |
| `UntrustedWorker` | the parent with a worker that sends anything | specification |
| `AnyParent` | the worker with a parent that sends anything | specification |
| `FrameChannel` | any number of threads calling `send`, `receive`, `abort` | specification with fairness |
| `WorkerHandle` | mutex, gate, abort, deferred abort, transfer, wait, terminate, the child | actions |
| `ProcessSession` | the owner's operations on top of `WorkerHandle` | specification with fairness |
| `PublishedPayload` | what a reader of the store may rely on | abstract specification |
| `PayloadStage` | `stage_payload` with the store's calls, several importers, kill, power failure, outsider | specification; implements `PublishedPayload` |
| `PathPlanner` | `plan_catalog`, the selection and `plan_payload_layout` over spellings | specification |
| `ImportFlow` | the import command of several programs on one medium: cache entry, tokens, worker, record | specification with fairness |
| `MapEntities` | what the entities of a map have in common, name lookup | operators on a map |
| `TrackTrain` | chains of path nodes, a train's ride, resplicing, platforms | operators on a train's record |
| `MapLogic` | `activate_with` for every kind of entity, masters, the queue | operators on a simulation record |
| `MapStep` | the state machines, the touches and `Systems::step` | operators on a simulation record |
| `LevelChange` | `TransitionState::capture` and `apply` | operators on a simulation record |
| `MapGame` | a level that is played, saved, loaded and left | specification with fairness |
| `SessionProofs` | what the proofs of a session share (induction, what a sound validator is, which frames it accepts, what each accepted frame does to it); the theorems of `OwpValidator` and `UntrustedWorker` | lemmas and proofs |
| `ImportSessionProofs` | the theorems of `AnyParent` and `ImportSession` | proofs |
| other `*Proofs` | theorems about the module they are named after | proofs |
| `MC*` | constants for TLC | instances |

Definitions carry the names of the functions they translate. In the modules with
several definitions for one function (`PayloadStage`, `FrameChannel`,
`WorkerHandle`) a variable `pc` or `call` says which step a thread is at; a step
ends where another thread can observe a difference: at each system call that
changes the disk, each lock or atomic, each transfer.

Definitions marked `Mutant`, each just before the definition it varies, are plausible
bugs. No specification uses them; they exist so that each property can be shown to
fail when the code is wrong.

### Correspondence, component by component

**Validator.** A record `v` with the fields of `SessionValidator`. `Observe` is
`observe`: the header is checked, the message is charged, then the state's rules
apply. An error is terminal: the state becomes Failed. Two windows stay open for
frames that crossed: after a completion, one cancel of the request that has just
completed (`accept_late_cancel`); after an acknowledged cancel, which is the last
request of a session, one reply to a read that preceded it
(`late_read_reply_request_id`).

**Parent and worker.** Each side holds a validator and observes a frame *before*
it is sent and *when* it is received, as the code does. `ParserSession` has an
action for each call a user of the typestate can make in a phase and one for each
message `receive_one` handles, including every refusal. `WorkerService` alternates
between receiving and dispatching; the dispatcher is any dispatcher that respects
its contract (an arbitrary result per step, up to `MaximumDispatchSteps`).
A write that does not fit the pipe leaves the worker waiting, which is how the two
sides could deadlock; a lost peer ends the wait.

**Frame channel.** The short critical sections (`begin`, `poison`, the end of an
operation) are one step each, since they run under the state mutex; the transfer
of header and payload is outside it and can fail at either part. `usable` and
`torn` describe the caller's buffer, `aborts` counts aborts of the transport.

**Worker handle and process session.** `abort` sets `aborted`, requests
cancellation, and only *tries* the mutex: if it fails, `abort_pending` is left for
the holder, who swaps it after its operation and before it unlocks, and tests it
again after unlocking. Every one of these is a step. The child is running,
exited or reaped; terminate may fail; `Drop` of the last handle is the backstop.

**Staging.** Each phase of `stage_payload` is an action with all of its failures;
`tree[i]` is the staging tree an importer owns (files written, sealed, marked
complete, synced), `published` is who put what at the published name, and the power
failure keeps what had been synced; anything else may or may not survive.
The source has a version: a change after acceptance must be noticed by
the last validation. `Outsider` stands for another program that puts an object at the
published name or removes what is there.

**Paths.** A spelling is a sequence of components over a few bytes (a letter in two
cases, another letter, a dot, a dash), with empty and dot components, so that case folding, trailing dots
and the order of `-`, `.` and `/` all matter. Both planners run over every
enumeration, the second with every selection.

**The import command.** `run[p]` is a program: where it is, its worker and its session
slot, the failure it keeps, what it returned. A tree appears whole (`PayloadStage`
shows that it does) and a session call succeeds or fails (`ImportSession`). Each step
ends at a change of the shared directory: the entry staged, the entry published, the
record truncated, the record written. The user signals either token at any time,
kills and restarts programs and clears the cache.

**Maps.** `world` is the map: a sequence of entities in the order of their ids, each a
record of the keyvalues the code branches on. A simulation is one record with the
fields of `Simulation` and of the entities' components, and every function of
`logic.rs` is an operator from a record to a record, so that calls compose as they do
in the code, in ascending id order where the code sorts. Space is a few spots (a
volume overlaps the player when they share one) and a line for tracks. Time is the
step: timers count steps, a mover travels one unit in each.

**Saves and level changes.** `Reload` is a save and a load at once: a level built from
its map, with each section laid over it in the code's order. It happens between two
frames, with no level change left to follow; the autosave that `game_run.rs:2552` takes
on arrival, inside the loop over the events of a frame, is not told apart from one
after that loop, as those events are not part of a save. `twin` is the game that
was never interrupted, given the same inputs. `FollowChange` is `change_level` for
the first change of the frame: `CaptureTransition` on the old map, `Arriving` for the
map with the travellers it had to make, `Enter` for the state laid over it. Which
named entities are near the landmark is any choice.

## 3. Runs

All runs are exhaustive on their instance. `CHECK_DEADLOCK FALSE` is set where the
system ends: a session that is over, an import that has reported, a run that used
up a bound.

| Run | Instance | States | What it shows |
| --- | --- | --- | --- |
| `validator` | frames over two request ids, both directions, wrong session, damaged envelope, budgets small enough to run out | 3,076 | flags agree with the state, a late window exists only after an acknowledged cancel, the request lifecycle is implemented |
| `session` | two entries in a batch each, pipes of two frames, three request ids, two tokens, six dispatch steps | 91,607 | neither validator ever reports an ordering failure between conforming peers; both sides agree on each outcome; a promoted catalog is the whole enumeration; a finished stream is exact; a request ends, a cancel is resolved, the worker's service ends after shutdown or loss |
| `untrusted_worker` | any frame from the worker, pipe of one | 111,372 | the catalog stays within its quotas and free of conflicts, the phase agrees with the validator, the sink gets no more than declared, every read served is charged |
| `any_parent` | any frame from the parent, pipe of one | 122,360 | the dispatcher is released exactly once per request, the service's fields stay in step with its validator |
| `staging` | two importers with a second run each, one entry, one source change, one outside step, kills and power failures, symmetry on the importers | 2,980,254 | what is published is whole, a stop requested before the final check prevents publication, the report agrees with the disk, the store implements `PublishedPayload` |
| `path_planning` | nine spellings, up to four entries, every order and selection | 11,662 | the layout is extractable on a case-insensitive disk, a refusal is real, a plan plans to itself |
| `catalog_alias` | the same | until violated | violation, see section 6 |
| `channel` | two threads, every failure | 35,099 | one abort and one lasting failure reported, no torn frame, directions are released |
| `process` | the owner and one more holder | 101,321 | no abort is lost, the lifetime ends once, no child left behind, an abort wakes a transfer, an escalation ends |
| `import_flow` | two programs with one recipe or with two, one file, one restart, one clearing of the cache | 281,401 | what a program returns is what it did, the cache entry is whole once it can be seen, a reported import is found again, every program exits |
| `map_logic` | seven maps and two more that are entered, three inputs, one load, two travellers | 68,694 | a loaded game goes on as the saved one would have, what fires once fires once, nothing jumps, travellers arrive once, an arrival does not start the way back, the level comes to rest |
| `spawn_reload` | a map with a spawn target | until violated | violation, see section 6 |

### Why the bounds are enough

- *Requests*: `MaxCounter` is the last request id (`u64` in the code). Two ids let
  a frame of an old request meet a new one; three let an enumeration, a second
  enumeration and a stream follow one another, with a cancel crossing the end of
  any. The exhaustion of the counter is reached.
- *Dispatch steps*: the budget counts over the whole session. Six in `session`: a
  batch and its completion promote a catalog, and a stream in two chunks, its
  completion and a read between any two of them still fit; so do two batches, their
  completion, two chunks and theirs. The budget also runs out mid-request. Three in
  `any_parent`, whose properties are about one request at a time.
- *Pipes*: one or two frames. Two is the least capacity at which a cancel and a
  reply can be in flight together; both peers can find their pipe full.
- *Quotas*: against any worker, entries of up to 2 units and a total of 3 let a batch
  exceed each quota separately. Stream sizes include 0, the quota and one more than it.
- *Reads*: against any worker, three reads and a byte quota below their sum, so that both
  the count and the byte quota refuse a read; between conforming peers, two.
- *Threads*: the channel's and the handle's code tell a thread only from the
  others; a third thread repeats the role of the second. `FrameChannelProofs` and
  `ProcessSessionProofs` remove this bound.
- *Importers*: two, for the race to rename. `PayloadStageProofs` removes this and
  every other bound of `PayloadStage`.
- *Paths*: four entries. A conflict needs two, the separating neighbour a third,
  and a fourth shows that the verdict does not depend on the rest. `PathPlannerProofs`
  removes this bound and the choice of spellings.
- *Programs*: two, so that one can be between any two steps of the other; one restart
  repeats the command over what a killed program left, and one cleared cache falls
  between any two steps. `ImportFlowProofs` removes these bounds.
- *A session*: `SessionProofs` and `ImportSessionProofs` remove every bound of `untrusted_worker` and
  `any_parent` (the frames, the pipe, the quotas, the ids), and all bounds of `session`
  for its four invariants.
- *Maps*: each is built around one way entities act on each other (see the comments of
  `MCMapGame`): doors touched, used, shot and blocked; lifts that toggle; a multisource
  counting an auto trigger, a volume and a breakable; teleports one behind the other;
  a train on a loop with a switch and a dead end; a train handed over by a platform;
  two maps with a door, a relay, a fan and a tram in common, a guard of the first only,
  and a third that begins a new unit. Conveyors, toggled walls and messages, which
  take the branch of another entity or only raise an event, are in none of them.
- *Inputs*: three steps with an input among any number without: enough to throw a
  switch under a train that was started and to block a door that was opened; with
  `MaxReloads` one load anywhere among them. The queue holds `MaxPending` 3 fires (4096
  in the code), which the manager's schedule overflows. `MaxEvents` is 2
  (`MAX_EVENTS_PER_TICK`, 4096 in the code), below `MaxPending`, so that a step can
  leave due fires to the next, or to a load. `MaxPathNodes` 6 and `MaxTransitions` 3
  (256 and 64) end loops that these maps leave before. `MaxCarried` is 2 (256): a party of two and one left behind.
  `SentCap` only caps a count that the properties compare with 1.

### Fairness

Weak fairness only, and only on steps a thread takes by itself:

- `ImportSession`: each peer keeps receiving and dispatching, a blocked write is
  finished once there is room, and the end of a peer is eventually noticed. The code
  loops over blocking calls in both processes; closing the socket wakes the other
  end. Nothing makes the user begin, cancel or shut down.
- `FrameChannel`: a call that has started takes its next step; a transfer ends,
  with a result or an error, since each carries a deadline. No call need start.
- `ProcessSession`: a thread inside a call continues, except that a transfer which
  waits in the kernel does so only if data, cancellation or the end of the child
  allows it. The transfer's own 30-second deadline is *not* assumed: `AbortWakes` and
  `EscalationEnds` hold without its help. Nothing makes the worker answer.
- `ImportFlow`: a program that was started takes its next step. Nothing makes the user
  signal, kill, restart or clear.
- `MapGame`: the step loop runs whether there is an input or not, and a frame ends with
  its events being handled. `WeakFairness` is weak fairness of `Wait` and of
  `FollowChange` spelled out: a settled level, or steps without an input, again and
  again; no pending level change, or one followed, again and again. No input, load or
  level change need happen.

## 4. Proofs

Thirty-one theorems, for every value of the constants that the named assumptions of the
modules allow. Each assumption says what the type of the code's value says (a size is
a natural number, a quota is not zero, a frame has a header, a batch is a sequence),
or keeps two special values apart (`HolderAssumption`, `FreeAssumption`,
`RecipesAssumption`); TLC evaluates all of them. Each proof has an inductive invariant (`Inv`,
`ParentInv`, `WorkerInv`, `SessionInv` and `OrderInv` for the ends of a session and for
both, `PlannerInv` for the planners); the parts that TLC can evaluate were checked on the
run's instance first.

### One validator

**`ValidatorSafety`** (`SessionProofs`): types, budgets and `FlagsAgree`. Every
budget in `Budgets` and every set of headers. `FlagsAgree` relates state, active
request, pending cancel and late window; each handler relies on all of it, so the
induction carries the whole conjunction (`Sound`). There is one lemma per state
of the validator (`ActiveIsSound`, `CancellingIsSound`, ...) over a lemma that lists
what the state's handlers can return, and `ObserveIsSound` joins them after the
header check and the charge.

**`ValidatorRefinesLifecycle`**: under the mapping in `OwpValidator`, each observed
frame is a step of `RequestLifecycle` or a stutter. The lemmas `...Moves` show it
state by state; `Sound` supplies what the mapping needs.

`SessionProofs` keeps `Sound` and its lemmas for the two theorems' sake and for the two ends
of a session, which hold a validator each. It adds the table `Accepts` of what a frame
that was accepted implies, read off the handlers once (`AcceptedFrame`), and its two
summaries: `Effects`, what it did to the state and the ids, and `ReadEffects`, what it
did to the outstanding read.

### Each end against every peer

**`CatalogsAreSound`, `PhasesAgree`, `SinksAreBounded`, `ReadsStayCharged`**
(`SessionProofs`): the parent against a worker that writes any frames in any
order. `ParentInv` has five parts. `ResultInv`: the session's validator is sound; a
promotable candidate grows strictly and its budget remembers the last token, without
which a second batch could start below the first; what was promoted has passed
`plan_catalog`; a failed session holds nothing. `BrokerInv`: the charges are within the
quotas and never behind the sequence. `PhaseInv` ties the phase of the typestate to the
validator's state, the broker and the open request, and says that a cancelled
enumeration is no longer promotable, so that a completion which crossed the cancel
promotes nothing. `SinkInv`: delivered and remaining bytes
add up to the declared size. `Typed` are the types of the rest. One lemma per call of the typestate and per message of
`receive_one`, over lemmas about the operators of `ResultSession` and
`SourceReadBroker`.

The sum of the declared sizes of a sequence of entries is a recursive function, and
that sequences joined in order stay ordered needs induction too. The library's
induction theorems take an operator, which the provers cannot instantiate;
`SessionProofs` derives induction about a *set* of numbers from the library's least
element of a well-founded order (`WFMin`), and the proofs apply it to sets.

**`DispatcherIsReleasedOnce`, `ServiceStaysInStep`** (`ImportSessionProofs`): the worker
service against a parent that writes any frames in any order, and with any dispatcher.
`ServiceInStep` speaks of the moments between two frames, when nothing is being
written. The invariant has to say what holds while a frame *is* being written, because
the validator has already observed it and the service has not yet committed what
depends on the write: `Writing` gives the state for each type of frame in the outbox
(a completion being written still owns the dispatcher while the validator is idle; an
acknowledgement no longer does, and the late read is already recorded on both sides).
`Owns` relates what the dispatcher still holds to `dispatch_active`; `FailClosed` may be
called from any of these states and settles it (`FailClosedInv`).

### The two ends together

**`OutcomesAgree`, `StreamsAreExact`, `CatalogsAreWhole`** (`ImportSessionProofs`): one
lifetime of the parent and the worker, for all quotas, budgets, pipe capacities, entries,
chunk sizes and dispatchers, either end failing at any moment. `SessionInv` joins
`ParentInv` and `WorkerInv`, which hold here as they do against any peer, with what only
the two together keep:

- `Numbering`, `Pipes`: every id in flight has been given out (`Used`), so that a request
  which begins finds no frame of its own in either pipe (`FreshId`);
- `Reporting`: the worker writes only for the newest request it has seen, which it has not
  ended, and no later one;
- `Told`: a terminal frame in the pipe says how the worker ended its request, and no later
  frame in the pipe belongs to that request. With it the parent's outcome is the worker's
  when the frame arrives;
- `Streamed`: the sink is a prefix of the stream, and the chunks of the open request in the
  pipe lead from the end of the sink to where the worker stands (`Leads`);
- `Catalogued`: the batches of the open enumeration in the pipe lead from the candidate to
  all that the worker wrote (`Collected`), and a catalog is the whole of an ended one
  (`Promoted`).

`Streams` and `Lists` say what the frames of one request in a pipe add up to, by the
positions or prefixes between the frames; four lemmas say how they change when a frame is
read or written, and only `ListedNothing` needs induction. The actions are
taken in two steps. `ParentMoves` and `ServiceMoves` sort every action of each end, refusals
and failures included, into a few kinds of moves that keep only what the histories depend
on (a request starts, is cancelled, takes a frame, ends; the service begins, goes on, writes
a frame); `ParentKeeps...` and `WriteKeeps...` then show each part of `SessionInv` for each
kind of move.

**`NoOrderingFailures`** (`ImportSessionProofs`): between two conforming ends neither
validator ever reports an ordering failure, whatever crosses on the way; a session fails
for a budget, a quota, a refused result or a lost end. It is the hardest of the four: the
invariant has to say which frames are under way and that the validator at the other end
accepts each of them when it arrives. `Row` is the table of what can be: for each phase of
the parent, where the worker's validator stands, what is in the pipe to the worker and
what the worker has written that the parent has not read.

- `Resting`: no request is open; at most a cancel of the request that has just ended is
  under way, which the late window accepts;
- `Serving`: a request is open; either its begin is under way, or the worker works on it and
  at most a read and its reply are under way, or it has ended it and the end is under way;
- `Withdrawing`: the parent has sent a cancel that the worker has not seen, has crossed a
  completion with, has acknowledged, or that is ahead of a reply.

`OrderInv` says that the ends stand in a row (`Joint`). When an end is gone it no longer
stands anywhere, while the other still reads what it left: the row then keeps the last part
that end had (`Stands` speaks of the record of an end, which is the real one as long as it
lives). The other conjuncts are what the rows do not repeat: every frame in a pipe has a
clean header and fits (`Canonical`), the outstanding read is the one the reply on the way
answers (`ReadMatches`), either end's own record agrees with its validator. `OrderInv` is
inductive together with `SessionInv`. `OnlyBudgetsRefuse` and the `InOrder` lemmas of
`SessionProofs` say that a validator refuses a clean frame which is in order for its state
only if it would break a budget; each action is then a step from row to row. The worker's encoders refuse a payload above the frame
ceiling (`FitsFrame`), and the ceiling admits the fixed-size messages
(`MaxFramePayloadAssumption`): without the two, a frame could be refused for its size.

### The planners

**`LayoutsAreExtractable`, `RefusalsStayReal`, `PlansAreStable`** (`PathPlannerProofs`): both
planners, for every set of spellings over every alphabet, of which
`ArchivePathsAssumption` says only that a component contains no slash. `PlannerInv`: a
catalog holds what was reported, normalised, and its folded names (`CatalogInv`); the sets a
layout has collected are those of its own destinations (`PlanOf`), any two of which are apart
(`LayoutInv`); a refusal names a real conflict.

- A path is one string to the planner and a list of components to the disk. `BytesSpell` and
  `SpellingAt` say that the string determines the list; `ExtendsMeansAbove`, that a string which
  extends another by a slash is below it. The mutant that compares without
  the slash shows what this is about.
- `ClashIsReal`: what the scan over kept ancestors refuses is a pair of which one is above the
  other or folds to it; `PlansNext` and `PlansAll` carry the converse through
  the scan, one path after the other: what was accepted keeps clear of everything
  before it, in whichever order the paths came.
- Sorting: byte order is total on the spellings (`PrecedesIsTransitive`), each finite
  set of them has one arrangement in it (`LastExists`, `OrderExists`, `OrderIsPermutation`)
  and sorting keeps a set apart (`SortKeepsApart`), so planning the plan changes nothing.

The sort is the sequence that is in order (`InByteOrder`), and the loops are recursive
functions; a lemma shows that each computes something (`LoopExists`), and the inductions are
about sets of numbers, as in `SessionProofs`.

### The store and the channel

**`StageSafety`, `StageReports`, `StageStops`** (`PayloadStageProofs`): `PublishedIsWhole`,
`ReportIsTrue` and `StopPreventsPublication` for any importers, entries, sizes, runs and
outside steps. `PublishedIsWhole` is not inductive: the
rename publishes whatever the tree holds at that moment. `Inv` adds `StepsInv` (what
each step of `stage_payload` implies about the importer's tree: at the rename it
is sealed, marked and synced), `HolderInv` (who may own the name and in which step
its owner then is) and `NameInv` (what the name holds). One lemma per action; most
steps touch only the importer's own tree, and `LocalStep`, `TreeStep`, `PcStep` and
`QuietStep` deal with these once.

**`StageRefinesPublishedPayload`**: from `Inv`, every step that changes the name is
the publication, a removal, a sync or a loss `PublishedPayload` allows.

**`ChannelSafety`, `ChannelKeepsFrames`** (`FrameChannelProofs`): any number of threads.
`OneOperationPerDirection`, `FirstFailureWins` (one abort, by the thread whose failure is
kept, and the same failure reported by all) and `NoTornFrame` (in a usable stream or
buffer). The strengthening says which steps of a call need a direction or
a retained failure (`StepsAreJustified`), who has moved part of a frame while the
channel is usable (`FramesInHand`), and that a buffer is given up before its payload
arrives (`BuffersInHand`). No assumption on `Threads` is needed.

### The worker process

**`HandleKeepsAborts`, `ProcessEndsOnce`, `WorkerIsReaped`** (`ProcessSessionProofs`): any
number of threads that hold the handle, of which one owns the session. `HandleInv` adds
to `AbortIsKept` which steps belong to which operation and that an exit is known, to the
handle or a caller, only of a reaped child. `OwnerInv` says which states and tasks of
the owner go together and what a returned escalation left behind. The lemmas are about
kinds of steps (a thread's call advances, a call returns, the owner takes a result),
which the actions of both modules are shown to be.

### The import command

**`OutcomesAreTrue`, `EntriesAreWhole`, `ImportsAreFound`** (`ImportFlowProofs`): any
number of programs, recipes, restarts and cleared caches. `RunInv` says what a program's
place implies about its worker, its first failure and its tree; `EntryInv` and `FindInv`
hold while nobody clears the cache. `ImportIsFound` is an action property: `FindInv`,
that a program about to look has a record or another program is to blame, makes every
such step find one.

### The map game

A step is a chain of loops over the entities of the map and over the queue, with a handler
as the body. No lemma about an operator can be instantiated, so each loop has its own
induction, over the set of the indices up to which a fact holds (`Induction`); the lemmas
`...Run` name the values a loop goes through. Maps are any sequences of entities whose
keyvalues have their types (`MapsAssumption`), and every bound is any natural number.

**`OneShotsAreSpent`** (`MapGameProofs`): `OneShotsStaySpent`. `GameInv` says of the level
that is played (`Safe`) that its counters are counters and that a one-shot that has sent is
spent: used, consumed, started, broken, or counted to its threshold. The last part is why
`Required` is about all entities: one that dies lowers the threshold of a multisource, never
its count. `ActivateSafe` goes through the arms of `activate_with`; the loops carry `Safe`
along; a load restores each flag together with what it guards (`RestoreSafe`); a level that
is entered has sent nothing (`EnterSafe`).

**`LoadedGamesAgree`**: `LoadedGameAgrees`. That two levels look alike is not inductive: the
edges of a touch, the spawn flag and how late a due fire is differ after a load, and the
next step reads all three. `PairInv` says that the two are `Together`: the played one is
`Sound` (its movers, queue and trains have what the handlers read), they are `Alike` in all
the rest, a touch only one of them remembers is of a mover that is not at rest
(`EdgesOff`, which such a touch cannot start), and fires differ only in how long they have been
due. Every handler is shown to take alike levels to alike levels (`Moves` for what
activations keep, `Steps` for a whole step) and `StepTogether` puts a step together.
`RestoreSound` and `RestorePair` show what a load rebuilds, from `UnsavedMatters` alone.

**`ArrivalsDoNotBounce`**: `ArrivalDoesNotBounce`. `PairInv` adds that a level that is left
alone has never seen the player outside of a level change they stand in (`Outside`); a level
that is entered has seen them nowhere (`EnterArrives`), the step keeps it while nobody moves
(`Rests`) and a load restores it.

**`TravellersComeOnce`**: `TravellersArriveOnce`. That a step follows a change at all needs
the pair's invariant, from which no other step shortens the list (`OnlyChangesFollow`). The
rest is an induction over the travellers in the order they are placed: `Came` says of the
map made so far that it starts with the declared one, is longer by at most the travellers
that were missing, and answers to one who is alone in its name with what the map declares
or with the one entity made for it.

### Only model-checked

- every liveness property (`RequestsEnd`, `CancelsResolve`, `WorkerEnds`,
  `DirectionsAreReleased`, `AbortWakes`, `EscalationEnds`, `ProgramsExit`,
  `ComesToRest`): fairness is out of the prover's reach;
- `MoversNeverJump`, of the map game: it is about the places of trains on chains of nodes,
  which a search over the map builds, and what the search returns for every map is an
  induction over data.

## 5. What is not modelled

Of the import path:

- Byte encodings of frames, of messages and of paths: the rules by which a header or
  payload is refused are classes of frames.
- The launch of the worker (landlock, seccomp, resource limits, attestation): a
  straight run of system calls, whose effect is the kernel's.
- The macOS backend, which has the contract of the Linux one.
- Contents of files: the store compares names, sizes and a marker, never bytes, and
  so does the model.
- Calls the types of the parent rule out (a ticket of another broker, an output
  buffer that is too small), which `receive_one` cannot make.
- Reserved Windows names, path depth and the layout's quotas.
- The choice of the primary container and the merge of a patch, which are pure; the
  session id allocator, from which an import takes one id.

Of the map logic:

- Tanks, momentary buttons, pendulums, beams and lasers, the monsters a maker spawns,
  scripted sequences: they need aiming, angles, damage areas or monsters.
- Curves, pitch and yaw of trains; the seat of a rider and the settling of a player
  who arrives inside a solid; the visibility test that picks the travellers, which the
  model replaces by any choice.
- The sections of a save that hold the player, monsters, weapons and projectiles.

Of the rest: roughly nine tenths of the repository's lines are parsers of archive and
game formats, rendering, user interface, audio, collision, navigation, monsters and
weapons. The parsers are pure functions of bytes, whose properties are about the bytes;
the others compute in floating point, one frame after the other, and what could be
wrong in them (a trace, a blend, a schedule chosen by distance) is not visible in
small integer instances. A model of them would restate the code without the numbers
that decide it. Save slots (`ohl-save`) are one writer and one rename without a sync;
the documentation promises nothing about power failures. The share of the code that
is mapped stays small for these reasons.

## 6. Findings and remarks

Two runs show where a comment says something else than the code does.

- `catalog_alias`: `plan_catalog` looks for a file that is also a directory prefix
  among *neighbours* in the sorted folded set. `catalog.rs:380` says an alias is
  always an immediate neighbour, and `tests/catalog_properties.rs:66` that no
  promoted path is a directory prefix of another; but `-` and `.` sort below `/`,
  so `/a-` separates `/a` from `/a/b`. `plan_payload_layout` keeps every ancestor
  and refuses the pair (`LayoutIsExtractable`): nothing wrong reaches the disk.
- `spawn_reload`: `player_spawn_fired` is not saved, and a load starts a simulation in
  which it is false, so the first step fires every `game_playerspawn` again
  (`logic.rs:406`). The comment at `logic.rs:401` says that a loaded save fires neither
  it nor a `trigger_auto` again; that holds of the `trigger_auto`, whose flag is saved.

Remarks met while modelling, for which no run is stated. Of the import path:

- `terminate_once` records an outcome even if the platform call failed and the
  child is not reaped, where the docs at `process_session.rs:333` and `:351` speak of
  a reaped worker. `Drop` is the backstop, which `NoWorkerLeftBehind` checks.
- The documentation of `ProcessSession::open` says any failure escalates; an
  `InvalidState` returns without it.
- A transfer whose holder swapped `abort_pending` before an abort arrived still
  enters the poll loop, and ends at its first poll.
- `usable()` is true for `CacheHit`, although the winner's rename may not have
  been synced yet; the loss this allows is part of `PublishedPayload`.
- The removal of a stage by `Drop` after a failed `begin` is not reported.
- `ImportError::Provenance` (`pipeline.rs:855`) can follow a publication that
  succeeded (`OutcomeIsTrue` states it so).
- `pipeline.rs:103` says the transport token unblocks worker I/O. `gate`
  (`platform.rs:149`) tests it once, before the transfer; a transfer that already waits
  goes on until data, an abort or its deadline. The application signals neither token.
- `import_payload` (`main.rs:1410`) takes a record for an import without looking at
  the tree it names; `pipeline.rs:283` describes the record as what an earlier import
  published. The lookup that follows does look (`ImportIsFound`).
- The record is truncated and written in place, and after a cache was cleared under an
  import its `create_dir_all` leaves an entry without a manifest: every later
  preparation of that medium fails with `ManifestConflict` (`EntryIsWhole` excludes it).

Of the map logic:

- A train that runs backward around a loop is drawn elsewhere when a switch is thrown:
  `resplice_chain` keeps the nodes up to the train's own and cuts the part it is on
  (`track_train.rs:836`). `MoversNeverJump` leaves it out (`Claimed`), and also a ride
  taken backward through a level change (`OnSharedTrack`, `transition.rs:748`).
- `docs/FORMAT_SOURCES.md:4231` and the comment at `logic.rs:196` say that a use-typed
  fire which is queued when a save is taken comes back as a plain toggle. That is no
  longer so: the section of the map effects saves the activator and the use type of
  every queued fire, and `restore_pending_use_contexts` (`logic.rs:611`, called at
  `map_effects.rs:517`) puts them back; only a save without that section loads toggles.
  `LoadedGameAgrees` covers the case, and what the two texts describe is its mutant.
- Not saved, and therefore excluded from `LoadedGameAgrees` by `UnsavedMatters`: the
  busy time of a manager, the damage a button has taken, the touch edges of doors and
  rotating platforms, `dead_end_fired`, and a `func_trackchange` in motion or moved
  (`docs/FORMAT_SOURCES.md:3735`).
- `multisource_required` counts the entities alive at that moment
  (`logic.rs:1759`), so one that is broken or removed lowers the count, where
  `docs/FORMAT_SOURCES.md:3909` speaks of all of its inputs.
- A manager's busy time is counted down in the step that starts it and lapses one step
  early (`docs/FORMAT_SOURCES.md:1448`); fires of one step leave the queue by
  `swap_remove`, out of the order they were scheduled in.
- The comment of `quickload` in `game_run.rs` says ambient state is not saved; it is.
- No per-map state is kept: the doc at `transition.rs:508`, by which doors and buttons
  of the previous map are still open when the player walks back, holds only for the
  movers that the map in between declares too, since only those are captured again.
- `env_global` gives its variable a first value; nothing acts on it when it is
  activated (`registry.rs:843`).
- A traveller that is made in the new map keeps its names, its target and, for a
  monster, a relay or a message, its kind; a relay loses its master and its use type,
  and every other point entity arrives without behaviour, although the doc of
  `CarriedEntity::keyvalues` speaks of building it like one of the map's own. Such an
  entity's target still counts towards a multisource. Two travellers of one name
  without a counterpart arrive as one.
- Thrown track switches do not travel, so that a ride behind one is put on the
  default track; rotating buttons do not travel either; the queue is dropped.
- A second level change of one frame is followed from the map the first led to, with
  the landmark meant for the map it was raised in.

## 7. Plan

Done, in this order, the most important behaviour first: validator and its
lifecycle; both peers, composed and each against an arbitrary other; staging and
store; path planning; frame channel; worker handle and process session; proofs of
validator, store and channel; the import command; map logic, trains, saves and level
changes; proofs of process session, import command, of either end of a session
against every peer, of the two ends together, of the order of their frames, of the
planners, and of one-shots, loads, arrivals and travellers on every map.

Next: the part of `MoversNeverJump` that is about doors, buttons and platforms, which needs
no track: that every timer is within one travel, as one more part of `Sound`.
