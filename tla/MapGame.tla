------------------------------ MODULE MapGame ------------------------------
(***************************************************************************)
(* A level that is played, saved, loaded and left for another: the         *)
(* simulation of MapStep stepped with inputs, the loader that rebuilds it  *)
(* from a save, and the host that follows a level change.                  *)
(*                                                                         *)
(* A load builds the level from its map and lays the save over it, so what *)
(* was played between the save and the load leaves no trace: Reload stands *)
(* for both.  `twin' is the game that was never interrupted, stepped with  *)
(* the same inputs as the loaded one.                                      *)
(***************************************************************************)
EXTENDS LevelChange

CONSTANTS Maps,         \* the maps a game may be played on
          Spots,        \* where the player may walk; 0 is clear of everything
          MaxInputs,    \* steps of a game that have an input
          MaxReloads    \* loads of a game

VARIABLES sim,      \* the level being played
          twin,     \* the same level, had it never been reloaded
          inputs,   \* inputs given so far
          reloads,  \* loads so far
          still,    \* whether nothing was done since the level was entered
          party     \* who was taken along, right after a level change

vars == <<world, sim, twin, inputs, reloads, still, party>>

ASSUME MapsAssumption == /\ Maps \subseteq Seq(Declared)
                         /\ \A name \in DOMAIN Atlas : Atlas[name] \in Seq(Declared)
ASSUME MaxPendingAssumption == MaxPending \in Nat
ASSUME MaxEventsAssumption == MaxEvents \in Nat \ {0}
ASSUME MaxTransitionsAssumption == MaxTransitions \in Nat
ASSUME SentCapAssumption == SentCap \in Nat

-----------------------------------------------------------------------------
\* Saving and loading: `t' is the level built from its map, `s' the one that
\* was saved.  Each operator lays one section of the save over `t'.

Overlay(fresh, saved, kinds) ==
  [e \in DOMAIN fresh |-> IF world[e].kind \in kinds THEN saved[e] ELSE fresh[e]]
OverlayOn(t, s, kinds) ==
  [t EXCEPT !.on = (@ \ OfKind(kinds)) \cup (s.on \cap OfKind(kinds))]

\* EntitySnapshot: doors, buttons and platforms as whole components.
ApplySnapshots(t, s) ==
  [t EXCEPT !.mover = Overlay(@, s.mover, {"door", "button", "platform"})]

\* The queue without its use types: an overdue fire comes back as due now.
RestoreSimulation(t, s) ==
  [t EXCEPT !.pending = [i \in DOMAIN s.pending |->
                [s.pending[i] EXCEPT !.delay = Most(@, 0), !.use = "toggle"]],
            !.used = s.used, !.cooldown = s.cooldown, !.level = s.level]

\* An entity that was gone is despawned again.
RestoreEntityCombat(t, s) == [t EXCEPT !.alive = s.alive]

\* Switches and chains, before the trains that are measured along them.
RestorePathStates(t, s) ==
  [t EXCEPT !.thrown = s.thrown,
            !.train = [e \in DOMAIN @ |-> [@[e] EXCEPT !.chain = s.train[e].chain]]]

\* A train's progress; whether it fired its dead end and the platform under
\* it are not in the save.
RestoreDynamicState(fresh, saved) ==
  [saved EXCEPT !.chain = fresh.chain, !.deadEndFired = FALSE, !.carry = 0]
RestoreMovers(t, s) ==
  OverlayOn([t EXCEPT !.camera = s.camera, !.autoFired = s.autoFired, !.turned = s.turned,
                      !.train = [e \in DOMAIN @ |-> RestoreDynamicState(@[e], s.train[e])]],
            s, {"rotator"})
RestoreRotatingMovers(t, s) ==
  [t EXCEPT !.mover = Overlay(@, s.mover, {"rotbutton"}), !.rotTouch = s.rotTouch]
RestoreBreakables(t, s) == [t EXCEPT !.health = s.health, !.broken = s.broken]
RestoreTeleportState(t, s) == [t EXCEPT !.telTouch = s.telTouch, !.fires = s.fires]
RestorePlatrots(t, s) == [t EXCEPT !.mover = Overlay(@, s.mover, {"platrot"})]
RestoreAmbients(t, s) == OverlayOn(t, s, {"ambient"})
RestoreSwitches(t, s) == OverlayOn(t, s, {"conveyor", "wall"})

\* Mutant: the contexts are left out of the save.
RestoreUseContextsDropped(t, s) == t

\* The contexts of the queue: who set each fire off, and with which use.
RestoreUseContexts(t, s) ==
  [t EXCEPT !.pending = [i \in DOMAIN @ |->
     [@[i] EXCEPT !.who = s.pending[i].who, !.use = s.pending[i].use]]]
RestoreMapEffects(t, s) ==
  OverlayOn([RestoreUseContexts(t, s) EXCEPT !.captured = s.captured,
                                             !.consumed = s.consumed], s, {"effect"})

\* Game::restore, in its order; the travellers a level change made here are
\* made again before it, so `world' is the same.
Restore(s) ==
  LET fresh == [NewSimulation(s.pos, s.monster) EXCEPT !.sent = s.sent,
                                                       !.globals = s.globals]
      level == RestoreEntityCombat(RestoreSimulation(ApplySnapshots(fresh, s), s), s)
      movers == RestoreRotatingMovers(RestoreMovers(RestorePathStates(level, s), s), s)
      volumes == RestoreTeleportState(RestoreBreakables(movers, s), s)
      switches == RestoreSwitches(RestoreAmbients(RestorePlatrots(volumes, s), s), s)
  IN RestoreMapEffects(switches, s)

-----------------------------------------------------------------------------
\* What a step may be given.

Idle(s) == [pos |-> s.pos, monster |-> s.monster, use |-> FALSE, shot |-> {},
            blocked |-> {}]
Jammed(s) == {e \in OfKind({"door"}) : /\ s.mover[e].st \in Moving
                                       /\ Overlaps(e, s.pos) \/ Overlaps(e, s.monster)}
Walks(s) == {[Idle(s) EXCEPT !.pos = spot, !.use = use] :
               spot \in Spots, use \in BOOLEAN}
Stalks(s) == {[Idle(s) EXCEPT !.monster = spot] :
                spot \in IF OfKind({"monster"}) = {} THEN {} ELSE Spots}
Shots(s) == {[Idle(s) EXCEPT !.shot = {e}] : e \in Damageable}
Jams(s) == {[Idle(s) EXCEPT !.blocked = {e}] : e \in Jammed(s)}

Advance(input) ==
  \E after \in {[s \in {sim, twin} |-> FixedStep(s, input)]} :
     sim' = after[sim] /\ twin' = after[twin] /\ party' = {}

Init ==
  /\ world \in Maps
  /\ sim = NewSimulation(0, 0)
  /\ twin = sim
  /\ inputs = 0
  /\ reloads = 0
  /\ still = FALSE
  /\ party = {}

Wait == Advance(Idle(sim)) /\ UNCHANGED <<world, inputs, reloads, still>>
Act ==
  /\ inputs < MaxInputs
  /\ \E input \in (Walks(sim) \cup Stalks(sim) \cup Shots(sim) \cup Jams(sim)) \ {Idle(sim)} :
       Advance(input)
  /\ inputs' = inputs + 1
  /\ still' = FALSE
  /\ UNCHANGED <<world, reloads>>

\* What the save format does not hold and the next steps would miss.
UnsavedMatters(s) ==
  \/ \E e \in Entities : s.busy[e] > 0
  \/ \E e \in OfKind(Buttons) : s.buttonHealth[e] # world[e].health
  \/ \E e \in s.doorTouch \cup s.monsterTouch \cup s.platTouch : s.mover[e].st = "Closed"
  \/ Find(SpawnName) # {}
  \/ \E e \in DOMAIN s.change : s.change[e] # SpawnPlatform
  \/ \E e \in DOMAIN s.train : s.train[e].deadEndFired

\* A game is saved between frames, when every event has been handled.
Reload ==
  /\ reloads < MaxReloads
  /\ sim.changes = <<>>
  /\ sim' = Restore(sim)
  /\ twin' = IF UnsavedMatters(sim) THEN sim' ELSE twin
  /\ reloads' = reloads + 1
  /\ UNCHANGED <<world, inputs, still, party>>

\* The operators above, for the map that is entered.
In(there) == INSTANCE LevelChange WITH world <- there

\* change_level for the first change of the frame's events.  The frame may
\* have run on after it was raised, and raised others, which are then
\* followed from the map it led to.  A map that is not there is not entered.
FollowChange ==
  /\ sim.changes # <<>>
  /\ UNCHANGED <<inputs, reloads>>
  /\ LET change == Head(sim.changes)
         to == Atlas[change.map]
     IN IF change.map \notin DOMAIN Atlas
        THEN /\ sim' = [sim EXCEPT !.changes = Tail(@)]
             /\ twin' = [twin EXCEPT !.changes = Tail(@)]
             /\ UNCHANGED <<world, still, party>>
        ELSE \E near \in SUBSET Travellers(sim) :
               /\ Cardinality(near) <= MaxCarried
               /\ LET t == CaptureTransition(sim, near, to, change.landmark)
                      u == CaptureTransition(twin, near, to, change.landmark)
                      After(s, c, there) == [In(there)!Enter(c) EXCEPT !.changes = Tail(s.changes)]
                  IN \E there \in {Arriving(to, t)} :
                       /\ world' = there
                       /\ sim' = After(sim, t, there)
                       /\ twin' = IF twin = sim THEN sim' ELSE After(twin, u, there)
               /\ still' = TRUE
               /\ party' = near

Next == Wait \/ Act \/ Reload \/ FollowChange

\* The step loop runs while the game does, inputs or none, and every frame
\* ends with its events being handled: weak fairness of Wait and of
\* FollowChange, spelled out since TLC takes too long over the ENABLED of a
\* whole step.  Settled are the states Wait does not change; only Wait leaves
\* both counts alone without following a change.
Settled == /\ FixedStep(sim, Idle(sim)) = sim
           /\ twin = sim \/ FixedStep(twin, Idle(sim)) = twin
Follows == Len(sim'.changes) < Len(sim.changes)
Waits == inputs' = inputs /\ reloads' = reloads /\ ~Follows
WeakFairness == /\ []<>Settled \/ []<><<Waits>>_vars
                /\ []<>(sim.changes = <<>>) \/ []<><<Follows>>_vars

Spec == Init /\ [][Next]_vars /\ WeakFairness

-----------------------------------------------------------------------------
\* Properties.

\* What the player can tell two levels apart by, now or later: everything
\* but the edges that the next step reads again.  A fire that is due is due
\* however late it is.
DueNow(queue) == [i \in DOMAIN queue |-> [queue[i] EXCEPT !.delay = Most(@, 0)]]
View(s) ==
  [s EXCEPT !.doorTouch = {}, !.monsterTouch = {}, !.platTouch = {},
            !.spawnFired = TRUE,
            !.pending = DueNow(@)]

\* A loaded game goes on as the saved one would have (Game::restore): from a
\* save that leaves out nothing that matters, the same inputs lead to the
\* same level, step for step, whatever was in the queue, moving, captured,
\* half counted or half touched when it was saved.  A fire in the queue keeps
\* its use type and who caused it (restore_pending_use_contexts).
LoadedGameAgrees == View(sim) = View(twin)

\* What fires once fires once (Trigger::once, AutoTrigger::fired,
\* Breakable::broken, the consumed flag of an env_explosion, the fan-out of a
\* multisource): not again for a second activation in the same step, nor
\* after a load.
OneShots == {e \in Entities : \/ world[e].kind \in {"trigger", "explosion"} /\ world[e].once
                              \/ world[e].kind \in {"auto", "breakable"}
                              \/ world[e].kind = "multisource" /\ Required(Entities, e) < SentCap}
OneShotsStaySpent == \A e \in OneShots : sim.sent[e] <= 1

\* A load does not fire game_playerspawn again (Simulation's
\* player_spawn_fired).
SpawnFiresOnce == \A e \in Find(SpawnName) : sim.sent[e] <= 1

\* Nothing jumps (mover_fraction, TrackTrainState::position): in one step a
\* door, a platform or a rotating button is drawn at most one step's travel
\* from where it was, blocked and turned back or not, and a train at most as
\* far as its speed and its platform take it, whichever switches are thrown
\* under it; a load draws both where they were.  A platform that puts a train
\* down may set it right by the one unit it accepts it at.  Not claimed: a
\* train started while it is carried, one saved while it is carried, and one
\* that runs backward around a loop.
DrawnMovers == OfKind({"door", "rotbutton", "platform", "platrot"})
Carriers(s, e) == {c \in DOMAIN s.change : NamedTrain(c) = e /\ s.change[c].carrying}
Lift(s, e) == IF Carriers(s, e) = {} THEN 0
              ELSE LET c == CHOOSE c \in Carriers(s, e) : TRUE
                   IN Distance(s.change[c].to, s.change[c].from) \div Span(c) + 1
Reach(e) == Most(sim.train[e].speed, world[e].speed)
              + Most(Lift(sim, e), Lift(sim', e))
Claimed(e) == /\ Carriers(sim, e) # {} => ~sim.train[e].moving /\ reloads' = reloads
              /\ sim.train[e].dir < 0 => ~sim.train[e].chain.looped
NothingJumps ==
  /\ \A e \in DrawnMovers :
       Distance(Pose(world[e], sim.mover[e]), Pose(world[e], sim'.mover[e])) <= 1
  /\ \A e \in DOMAIN sim.train : Claimed(e) =>
       Distance(DrawnAt(sim.train[e]), DrawnAt(sim'.train[e])) <= Reach(e)

\* A level change draws what both maps declare where it was: a mover of the
\* same name in the same pose, and a ride of the same global name that was
\* taken along at the same place from the landmark, if the track there is the
\* same.  Not claimed: a ride behind a switch, which does not travel, one that
\* is carried, and one that runs backward, which has nothing behind it on a
\* track that is built from its own node (restore_track_train).
Crosses == Follows /\ Head(sim.changes).map \in DOMAIN Atlas
Twins(e) == {f \in DOMAIN world' : /\ world'[f].kind = world[e].kind
                                   /\ world'[f].travel = world[e].travel
                                   /\ world[e].name # "" /\ world'[f].name = world[e].name}
NodeThere(n, shift) == {f \in DOMAIN world' : /\ world'[f].kind = "path"
                                              /\ world'[f].name = world[n].name
                                              /\ world'[f].at = world[n].at + shift
                                              /\ world'[f].target = world[n].target}
OnSharedTrack(t, shift) ==
  /\ sim.thrown = {} /\ t.carry = 0 /\ t.dir >= 0
  /\ NodeThere(t.chain.nodes[t.node], shift) # {}
  /\ OtherIndex(t) # 0 => NodeThere(t.chain.nodes[OtherIndex(t)], shift) # {}
SharedMoversStay ==
  LET landmark == Head(sim.changes).landmark
      shift == Shift(world, world', landmark)
  IN NewUnit(world') \/
     /\ \A e \in DrawnMovers \ OfKind({"rotbutton"}) : \A f \in Twins(e) :
          Pose(world'[f], sim'.mover[f]) = Pose(world[e], sim.mover[e])
     /\ \A e \in party' \cap DOMAIN sim.train, f \in DOMAIN sim'.train :
          ( /\ world[e].global # "" /\ world'[f].global = world[e].global
            /\ Meets(world, world', landmark)
            /\ OnSharedTrack(sim.train[e], shift) )
          => DrawnAt(sim.train[f])' = DrawnAt(sim.train[e]) + shift

MoversNeverJump == [][IF Crosses THEN SharedMoversStay ELSE NothingJumps]_vars

\* The level comes to rest: once nobody does anything and the player is clear
\* of every volume, the queue runs empty, however many fires a step had to
\* leave to the next, and every mover that returns by itself is back
\* (advance_queue, advance_doors and the other movers), also after a load.
LeftAlone == inputs = MaxInputs /\ sim.pos = 0 /\ sim.monster = 0
AtPeace == /\ sim.pending = <<>>
           /\ \A e \in Live(sim, MoverKinds) :
                \/ sim.mover[e].st = "Closed"
                \/ sim.mover[e].st = "Open" /\ StaysOpen(world[e])
ComesToRest == LeftAlone ~> AtPeace

\* Whoever is taken along arrives, once (TransitionState::place,
\* materialise_carried): an entity that the new map declares is not made a
\* second time, one that it does not declare is made exactly once and a
\* monster arrives as a monster; nothing else is added to the map.  Not
\* claimed: two travellers of one name, who arrive as one.
Answers(d, map) == {i \in DOMAIN map : \/ d.global # "" /\ map[i].global = d.global
                                       \/ d.name # "" /\ map[i].name = d.name}
Alone(e) == \A f \in party' \ {e} : e \notin Answers(world[f], world)
PartyArrives ==
  LET to == Atlas[Head(sim.changes).map]
      made == {e \in party' : Answers(world[e], to) = {} /\ ~IsBrush(world[e])}
  IN \/ NewUnit(to) /\ world' = to
     \/ ~Meets(world, to, Head(sim.changes).landmark) /\ world' = to
     \/ /\ Len(world') <= Len(to) + Cardinality(made)
        /\ \A e \in party' : Alone(e) =>
             /\ Cardinality(Answers(world[e], world')) =
                  Cardinality(Answers(world[e], to)) + (IF e \in made THEN 1 ELSE 0)
             /\ (e \in made /\ world[e].kind = "monster") =>
                  \E f \in Answers(world[e], world') : world'[f].kind = "monster"
TravellersArriveOnce == [][Crosses => PartyArrives]_vars

\* No level change undoes itself (touch_changelevel_triggers): a player who
\* arrives inside a volume that leads back stays, and so does one who saves
\* there and loads, until they have left it.  Not claimed where the map moves
\* the player or fires a level change by name.
Uneventful == /\ OfKind({"teleport"}) = {}
              /\ \A e \in OfKind({"changelevel"}) : world[e].name = ""
ArrivalDoesNotBounce ==
  [][still /\ still' /\ Uneventful => Len(sim'.changes) <= Len(sim.changes)]_vars
============================================================================
