------------------------------ MODULE MapLogic ------------------------------
(***************************************************************************)
(* The map logic of one level: the queue of scheduled fires and the state  *)
(* machines they switch, as one fixed step of the engine drives them.  A   *)
(* handler is an operator from a simulation to a simulation; MapStep puts  *)
(* them together into the step.                                            *)
(*                                                                         *)
(* `sent' is not in the code: it counts what each entity has done for the  *)
(* rest of the game (fired its target, raised an event), up to SentCap,    *)
(* and is what the properties are about.                                   *)
(***************************************************************************)
EXTENDS TrackTrain

CONSTANTS MaxPending,   \* MAX_PENDING_EVENTS
          MaxEvents,    \* MAX_EVENTS_PER_TICK
          SentCap       \* where the counters of fires stop, above any Required

SpawnName == "game_playerspawn"
MoverKinds == {"door", "button", "rotbutton", "platform", "platrot"}
Buttons == {"button", "rotbutton"}
TriggerKinds == {"trigger", "teleport", "endsection"}
Switches == {"rotator", "conveyor", "wall"}
Events == {"message", "weaponstrip", "activation"}

AtRest == [st |-> "Closed", t |-> 0]

\* GlobalStateTable::seed_from: each env_global that asks for it gives its
\* variable a first value (`message' and `use' are its name and value).
Seed(globals) ==
  LET Start(acc, e) ==
        IF \E g \in acc : g[1] = world[e].message THEN acc
        ELSE acc \cup {<<world[e].message, world[e].use>>}
  IN ForEach(Start, {e \in OfKind({"global"}) : world[e].on /\ world[e].message # ""},
             globals)

\* A level as it is built from its map, with a simulation that has not run.
NewSimulation(spot, monster) ==
  [pos |-> spot, monster |-> monster, pending |-> <<>>,
   used |-> {}, cooldown |-> [e \in Entities |-> 0],
   level |-> [e \in Entities |-> "never"],
   telTouch |-> {}, rotTouch |-> {}, doorTouch |-> {}, monsterTouch |-> {},
   platTouch |-> {}, fires |-> [e \in Entities |-> 0],
   busy |-> [e \in Entities |-> 0], spawnFired |-> FALSE, autoFired |-> {},
   alive |-> Entities, mover |-> [e \in Entities |-> AtRest],
   captured |-> [e \in Entities |-> Nobody],
   buttonHealth |-> [e \in Entities |-> world[e].health],
   health |-> [e \in Entities |-> world[e].health], broken |-> {}, consumed |-> {},
   on |-> {e \in Entities : world[e].on}, camera |-> [e \in Entities |-> -1],
   thrown |-> {}, train |-> [e \in OfKind({"train"}) |-> SpawnTrain(e)],
   change |-> [e \in OfKind({"trackchange"}) |-> SpawnPlatform],
   arrived |-> 0, turned |-> {}, changes |-> <<>>, globals |-> Seed({}),
   sent |-> [e \in Entities |-> 0]]

Live(s, kinds) == OfKind(kinds) \cap s.alive
Overlaps(e, spot) == world[e].spot # 0 /\ world[e].spot = spot
Sends(s, e) == [s EXCEPT !.sent[e] = Least(@ + 1, SentCap)]

\* The LevelChange event, which the host follows when the frame is over.
RaiseChange(s, e) ==
  [Sends(s, e) EXCEPT !.changes =
     Append(@, [map |-> world[e].map, landmark |-> world[e].landmark])]

\* fire_typed: dropped when the queue is full.
Fire(s, name, who, delay, use) ==
  IF Len(s.pending) >= MaxPending THEN s
  ELSE [s EXCEPT !.pending =
          Append(@, [target |-> name, who |-> who, delay |-> Most(delay, 0),
                     use |-> use])]
FireTarget(s, e, who, delay, use) ==
  IF world[e].target = "" THEN s
  ELSE Fire(Sends(s, e), world[e].target, who, delay, use)

-----------------------------------------------------------------------------
\* Masters.

\* How many fires a multisource needs: how many of the live entities name it.
Required(alive, source) ==
  LET name == world[source].name
      byTarget == {e \in alive : name # "" /\ world[e].target = name}
      byFanOut == {e \in OfKind({"manager"}) \cap alive :
                     \E i \in DOMAIN world[e].fans : world[e].fans[i][1] = name}
  IN Most(Cardinality(byTarget) + Cardinality(byFanOut), 1)

IsActive(s, source) == s.fires[source] > 0 /\ s.fires[source] >= Required(s.alive, source)

MasterIsActive(s, e) ==
  LET sources == Find(world[e].master) \cap Live(s, {"multisource"})
  IN sources = {} \/ \E m \in sources : IsActive(s, m)

\* Mutant: every fire past the threshold fans out again.
ActivateMultisourceAgain(s, e, who, use) ==
  LET t == [s EXCEPT !.fires[e] = Least(@ + 1, SentCap)]
  IN IF IsActive(t, e) THEN FireTarget(t, e, who, world[e].delay, use) ELSE t

ActivateMultisource(s, e, who, use) ==
  LET t == [s EXCEPT !.fires[e] = Least(@ + 1, SentCap)]
  IN IF t.fires[e] = Required(s.alive, e)
     THEN FireTarget(t, e, who, world[e].delay, use) ELSE t

-----------------------------------------------------------------------------
\* What one activation does, by the kind of entity it reaches.

StartMover(s, e, st, t) == [s EXCEPT !.mover[e] = [st |-> st, t |-> t]]
Capture(s, e, who) == [s EXCEPT !.captured[e] = who]

ActivateMover(s, e, who) ==
  LET d == world[e]
      up == s.mover[e].st = "Closed"
      down == s.mover[e].st = "Open" /\ d.toggle
  IN CASE d.kind = "door" /\ up -> StartMover(s, e, "Opening", d.delay + d.travel)
       [] d.kind = "button" /\ up ->
            Capture(StartMover(s, e, "Opening", d.delay), e, who)
       [] d.kind = "rotbutton" /\ up ->
            Capture(StartMover(s, e, "Opening", d.delay + d.travel), e, who)
       [] d.kind = "rotbutton" /\ down ->
            Capture(StartMover(s, e, "Closing", d.travel), e, who)
       [] d.kind \in {"platform", "platrot"} /\ up -> StartMover(s, e, "Opening", 0)
       [] d.kind = "platrot" /\ down -> StartMover(s, e, "Closing", d.travel)
       [] OTHER -> s

BreakEntity(s, e, who) ==
  IF e \in s.broken THEN s
  ELSE FireTarget([s EXCEPT !.broken = @ \cup {e}, !.health[e] = 0], e,
                  IF who = Nobody THEN e ELSE who, world[e].delay, "toggle")

ActivateExplosion(s, e) ==
  IF e \in s.consumed THEN s
  ELSE Sends(IF world[e].once THEN [s EXCEPT !.consumed = @ \cup {e}] ELSE s, e)

\* EffectActive::activate; `toggle' is its toggleable flag.
ActivateEffect(s, e, use) ==
  LET active == CASE use = "on" -> TRUE
                  [] use = "off" -> ~world[e].toggle /\ e \in s.on
                  [] OTHER -> ~world[e].toggle \/ e \notin s.on
  IN [s EXCEPT !.on = IF active THEN @ \cup {e} ELSE @ \ {e}]

Flip(s, e) == [s EXCEPT !.on = IF e \in @ THEN @ \ {e} ELSE @ \cup {e}]

\* AmbientState::activate; `once' is its "is not looped" flag.
ActivateAmbient(s, e) ==
  IF world[e].once \/ e \notin s.on
  THEN [Sends(s, e) EXCEPT !.on = @ \cup {e}] ELSE Flip(s, e)

\* TriggerCameraState::trigger; -1 is a dormant camera.
TriggerCamera(s, e) ==
  [s EXCEPT !.camera[e] = IF @ >= 0 THEN -1 ELSE Most(world[e].wait, 0)]

\* A manager still working through its own schedule ignores the activation.
ActivateManager(s, e, who) ==
  LET d == world[e]
      Schedule(acc, i) == Fire(acc, d.fans[i][1], who, d.fans[i][2], "toggle")
      Longer(m, i) == Most(m, d.fans[i][2])
      longest == Loop(Longer, Len(d.fans), 0)
  IN IF ~d.multithreaded /\ s.busy[e] > 0 THEN s
     ELSE Loop(Schedule, Len(d.fans),
               [Sends(s, e) EXCEPT !.busy[e] = IF longest > 0 THEN longest ELSE @])

CanTrigger(s, e, who) ==
  /\ world[e].kind = "endsection" => who = Player
  /\ MasterIsActive(s, e)
  /\ e \notin s.used
  /\ s.cooldown[e] = 0
ActivateTrigger(s, e, who) ==
  LET d == world[e]
  IN IF ~CanTrigger(s, e, who) THEN s
     ELSE FireTarget([s EXCEPT !.used = IF d.once THEN @ \cup {e} ELSE @,
                               !.cooldown[e] = Most(d.wait, 0)],
                     e, IF d.kind = "teleport" THEN e ELSE who, d.delay, d.use)

-----------------------------------------------------------------------------
\* Trains and platforms.

ResplicedTrains(s, trains) ==
  [s EXCEPT !.train = [e \in DOMAIN @ |-> IF e \in trains THEN Resplice(@[e], s.thrown)
                                          ELSE @[e]]]

ThrowSwitch(s, e, use) ==
  LET t == [s EXCEPT !.thrown = CASE use = "on" -> @ \cup {e}
                                  [] use = "off" -> @ \ {e}
                                  [] OTHER -> IF e \in @ THEN @ \ {e} ELSE @ \cup {e}]
  IN ResplicedTrains(t, Live(t, {"train"}))

\* finish_track_change: the train carried over is handed the chain it
\* arrived at, parked at its far end or riding on from its head.
HandOver(t, parks, ending, onward) ==
  IF parks /\ ending.nodes # <<>> THEN RelinkAtEnd(t, ending, FALSE)
  ELSE IF onward.nodes # <<>> THEN Relink(t, onward, TRUE)
  ELSE [t EXCEPT !.carry = 0]
FinishTrackChange(s, e) ==
  LET landed == AtBottom(e, s.change[e])
      name == IF landed THEN world[e].bottom ELSE world[e].top
      t == [s EXCEPT !.change[e].carrying = FALSE]
  IN IF ~s.change[e].carrying THEN s
     ELSE IF NamedTrain(e) = 0 THEN t
     ELSE [t EXCEPT !.train[NamedTrain(e)] =
             HandOver(@, landed = world[e].atBottom, BuildEndingAt(s.thrown, name),
                      Build(s.thrown, name))]

\* The platform sets off, with the train if it stands where the platform is.
SetOff(c, d, dir, rides, from, to) ==
  [c EXCEPT !.dir = dir, !.moving = d.travel > 0, !.carrying = rides,
            !.from = IF rides THEN CHOOSE p \in from : TRUE ELSE 0,
            !.to = IF rides THEN CHOOSE p \in to : TRUE ELSE 0,
            !.displaced = IF d.travel > 0 THEN @ ELSE IF dir > 0 THEN 1 ELSE 0]
Rides(s, train, from, to) ==
  /\ train # 0 /\ from # {} /\ to # {}
  /\ Distance(PositionOf(s.train[train]), CHOOSE p \in from : TRUE) <= 1
StartTrackChange(s, e) ==
  LET c == s.change[e]
      d == world[e]
      from == StandsAt(IF AtBottom(e, c) THEN d.bottom ELSE d.top)
      to == StandsAt(IF AtBottom(e, c) THEN d.top ELSE d.bottom)
      t == [s EXCEPT !.change[e] =
              SetOff(@, d, IF 2 * c.displaced >= Span(e) THEN -1 ELSE 1,
                     Rides(s, NamedTrain(e), from, to), from, to)]
  IN IF c.moving THEN s
     ELSE IF d.travel > 0 THEN t ELSE FinishTrackChange(t, e)

\* A platform under way moves on and takes the train it carries along.
AdvanceTrackChange(s, e) ==
  LET c == s.change[e]
      displaced == Least(Most(c.displaced + c.dir, 0), Span(e))
      done == IF c.dir > 0 THEN displaced ELSE Span(e) - displaced
      t == [s EXCEPT !.change[e].displaced = displaced,
                     !.change[e].moving = displaced \notin {0, Span(e)}]
  IN IF c.carrying /\ NamedTrain(e) # 0
     THEN [t EXCEPT !.train[NamedTrain(e)].carry = ((c.to - c.from) * done) \div Span(e)]
     ELSE t

AdvanceTrains(s) ==
  LET trains == Live(s, {"train"})
      ride == [e \in trains |-> AdvanceFiring(s.train[e])]
      moved == [s EXCEPT !.train = [e \in DOMAIN @ |->
                  IF e \in trains THEN ride[e].train ELSE @[e]]]
      arrived == {e \in trains : ride[e].train.node # s.train[e].node}
      FirePassed(acc, e) ==
        Loop(LAMBDA a, i : IF ride[e].fired[i] = "" THEN a
                           ELSE Fire(Sends(a, e), ride[e].fired[i], e, 0, "toggle"),
             Len(ride[e].fired), acc)
  IN ForEach(FirePassed, trains, ResplicedTrains(moved, arrived))

-----------------------------------------------------------------------------
\* activate_with: the master, then the arm of the entity's kind.  Being
\* activated by a teleport volume means being its destination.

ActivateWith(s, e, who, use) ==
  LET d == world[e]
  IN IF e \notin s.alive \/ ~MasterIsActive(s, e) THEN s
     ELSE IF d.kind = "multisource" THEN ActivateMultisource(s, e, who, use)
     ELSE IF who > 0 /\ world[who].kind = "teleport" THEN [s EXCEPT !.arrived = e]
     ELSE
     CASE d.kind = "effect" -> ActivateEffect(s, e, use)
       [] d.kind = "explosion" -> ActivateExplosion(s, e)
       [] d.kind \in MoverKinds -> ActivateMover(s, e, who)
       [] d.kind = "breakable" -> BreakEntity(s, e, who)
       [] d.kind = "train" ->
            [s EXCEPT !.train[e] = UseTrain(@, d.speed, use)]
       [] d.kind = "trackchange" -> StartTrackChange(s, e)
       [] d.kind = "path" /\ d.branch # "" -> ThrowSwitch(s, e, use)
       [] d.kind \in Switches -> Flip(s, e)
       [] d.kind = "camera" -> TriggerCamera(s, e)
       [] d.kind = "manager" -> ActivateManager(s, e, who)
       [] d.kind = "ambient" -> ActivateAmbient(s, e)
       [] d.kind = "changelevel" -> RaiseChange(s, e)
       [] d.kind \in Events -> Sends(s, e)
       [] d.kind = "endsection" -> IF who = Player THEN Sends(s, e) ELSE s
       [] d.kind \in {"trigger", "teleport"} -> ActivateTrigger(s, e, who)
       [] OTHER -> s

Activate(s, e, who) == ActivateWith(s, e, who, "toggle")
============================================================================
