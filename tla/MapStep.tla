------------------------------ MODULE MapStep ------------------------------
(***************************************************************************)
(* A fixed step, from its damage to phase 12: what the player and a        *)
(* monster touch, press and block, then the tick that runs the queue and   *)
(* moves everything.                                                       *)
(*                                                                         *)
(* `input' is what the step is given: where the player and the monster     *)
(* stand, what the player shot, whether use was pressed, and the doors     *)
(* that could push neither of them clear (physics, not modelled).          *)
(***************************************************************************)
EXTENDS MapLogic

-----------------------------------------------------------------------------
\* Movers.

Moving == {"Opening", "Closing"}
MoverTo(st, t) == [st |-> st, t |-> t]

StaysOpen(d) ==
  \/ d.kind = "door" /\ d.wait < 0
  \/ d.kind = "rotbutton" /\ (d.toggle \/ d.wait < 0)
  \/ d.kind = "platrot" /\ d.toggle

\* The end of the opening travel, and one step of a platform's: a platform
\* loads its timer on the step it leaves.
OpenedWait(d) == IF d.kind = "platrot" /\ d.toggle THEN 0 ELSE d.wait
Rise(d, m) ==
  LET t == CASE d.kind \in {"platform", "platrot"} ->
                  (IF m.t <= 0 THEN d.travel ELSE m.t) - 1
             [] d.kind = "door" -> m.t - 1
             [] OTHER -> m.t
  IN IF t <= 0 THEN MoverTo("Open", OpenedWait(d))
     ELSE MoverTo("Opening", IF d.kind \in Buttons THEN t - 1 ELSE t)

CountDown(m) == [m EXCEPT !.t = @ - 1]
\* Mutant: a wait of zero is taken for none.
DwellIfTimed(d, m) ==
  IF StaysOpen(d) \/ d.wait <= 0 THEN m
  ELSE IF m.t > 0 THEN CountDown(m) ELSE MoverTo("Closing", d.travel)

Dwell(d, m) ==
  IF StaysOpen(d) THEN m
  ELSE IF m.t > 0 THEN CountDown(m) ELSE MoverTo("Closing", d.travel)

\* One step of advance_doors, advance_buttons, advance_rot_buttons,
\* advance_platforms or advance_platrots.
Cycle(d, m) ==
  CASE m.st = "Closed"  -> m
    [] m.st = "Opening" -> Rise(d, m)
    [] m.st = "Open"    -> Dwell(d, m)
    [] m.st = "Closing" -> IF m.t > 0 THEN CountDown(m) ELSE AtRest

\* mover_fraction, in steps of travel.
Pose(d, m) ==
  LET left == Least(Most(m.t, 0), d.travel)
  IN CASE m.st = "Closed"  -> 0
       [] m.st = "Open"    -> d.travel
       [] m.st = "Opening" -> d.travel - left
       [] m.st = "Closing" -> left

\* The movers of a kind that are left take their step; those whose travel
\* ended fire, as whoever pressed them.
Fires(d, before, after) ==
  \/ d.kind \in Buttons /\ before.st = "Opening" /\ after.st = "Open"
  \/ d.kind = "rotbutton" /\ d.toggle /\ before.st = "Closing" /\ after.st = "Closed"

Cycled(s, kind) ==
  [s EXCEPT !.mover = [e \in Entities |->
     IF e \in Live(s, {kind}) THEN Cycle(world[e], @[e]) ELSE @[e]]]
Firing(s, kind) ==
  {e \in Live(s, {kind}) : /\ Fires(world[e], s.mover[e], Cycled(s, kind).mover[e])
                           /\ world[e].target # ""}

AdvanceMovers(s, kind) ==
  LET Release(acc, e) ==
        FireTarget(Capture(acc, e, Nobody), e,
                   IF acc.captured[e] = Nobody THEN e ELSE acc.captured[e], 0, "toggle")
  IN ForEach(Release, Firing(s, kind), Cycled(s, kind))

\* Mutant: the turn keeps the time that was left.
TurnBackInPlace(d, m) ==
  [m EXCEPT !.st = IF m.st = "Opening" THEN "Closing" ELSE "Opening"]

\* block_mover, once for each blocked mover: only a door turns back.
TurnBack(d, m) == MoverTo(IF m.st = "Opening" THEN "Closing" ELSE "Opening",
                          d.travel - Least(m.t, d.travel))
BlockMovers(s, blocked) ==
  [s EXCEPT !.mover = [e \in Entities |->
     IF e \in blocked /\ world[e].kind = "door" /\ @[e].st \in Moving
     THEN TurnBack(world[e], @[e]) ELSE @[e]]]

-----------------------------------------------------------------------------
\* Touches.  Every one is a rising edge but a plain trigger's and a
\* breakable's, which have their own cooldown and broken flag.

\* The entities of a kind that a touch reaches at all: doors that are not use
\* only and have no name, rotating buttons and level changes that say so,
\* platforms that do not toggle.
Touchable(kind) ==
  {e \in OfKind({kind}) : CASE kind = "door" -> world[e].touch /\ world[e].name = ""
                            [] kind = "platrot" -> ~world[e].toggle
                            [] OTHER -> world[e].touch}
Touched(kind, spot) == {e \in Touchable(kind) : Overlaps(e, spot)}
ActivateEachWith(s, entities, who, use) ==
  ForEach(LAMBDA acc, e : ActivateWith(acc, e, who, use), entities, s)
ActivateEach(s, entities, who) == ActivateEachWith(s, entities, who, "toggle")

TouchDoors(s) ==
  LET now == Touched("door", s.pos)
  IN [ActivateEach(s, now \ s.doorTouch, Nobody) EXCEPT !.doorTouch = now]
MonsterTouchesDoors(s) ==
  LET now == Touched("door", s.monster)
      edge == now \ s.monsterTouch
  IN [ForEach(LAMBDA acc, m : ActivateEach(acc, edge, m), OfKind({"monster"}), s)
        EXCEPT !.monsterTouch = now]
TouchRotButtons(s) ==
  LET now == Touched("rotbutton", s.pos)
  IN [ActivateEach(s, now \ s.rotTouch, Player) EXCEPT !.rotTouch = now]
TouchPlatrots(s) ==
  LET now == Touched("platrot", s.pos)
  IN [ActivateEach(s, now \ s.platTouch, Nobody) EXCEPT !.platTouch = now]
TouchBreakables(s) ==
  ForEach(LAMBDA acc, e : BreakEntity(acc, e, Player),
          {e \in Touched("breakable", s.pos) : e \notin s.broken}, s)

\* Mutant: a volume not seen before counts as one the player was outside of.
EntersUnseen(s, e) == s.level[e] # "in"

\* A level change needs the player seen outside the volume first.
Enters(s, e) == s.level[e] = "out"
TouchChangelevel(s) ==
  LET inside == Touched("changelevel", s.pos)
      t == [s EXCEPT !.level = [e \in Entities |->
              CASE e \notin Touchable("changelevel") -> @[e]
                [] e \in inside -> "in"
                [] OTHER -> "out"]]
  IN ForEach(RaiseChange, {e \in inside : Enters(s, e)}, t)

\* A teleport is touched while its master allows it, and fires on the edge.
TouchTriggers(s) ==
  LET inside == {e \in OfKind(TriggerKinds) : Overlaps(e, s.pos)}
      teleports == {e \in inside : world[e].kind = "teleport" /\ MasterIsActive(s, e)}
      plain == {e \in inside : world[e].kind # "teleport"}
      touched == plain \cup (teleports \ s.telTouch)
      Touch(acc, e) ==
        IF world[e].kind = "endsection" /\ CanTrigger(acc, e, Player)
        THEN Sends(ActivateTrigger(acc, e, Player), e)
        ELSE ActivateTrigger(acc, e, Player)
      t == ForEach(Touch, touched, [s EXCEPT !.telTouch = teleports])
  IN TouchPlatrots(TouchBreakables(TouchRotButtons(TouchChangelevel(t))))

\* find_usable_within and use_entity.
Usable == OfKind({"door", "button", "platrot"})
            \cup {e \in OfKind({"rotbutton"}) : ~world[e].touch}
PressUse(s) ==
  LET near == {e \in Usable : Overlaps(e, s.pos)}
  IN IF near = {} THEN s
     ELSE Activate(s, FirstOf(near), Player)

-----------------------------------------------------------------------------
\* The tick.

FirePlayerSpawn(s) ==
  IF s.spawnFired THEN s
  ELSE ActivateEach([s EXCEPT !.spawnFired = TRUE], Find(SpawnName), Nobody)

FireAutoTriggers(s) ==
  LET Start(acc, e) ==
        LET t == FireTarget([acc EXCEPT !.autoFired = @ \cup {e}], e, e,
                            world[e].delay, world[e].use)
        IN IF world[e].remove THEN [t EXCEPT !.alive = @ \ {e}] ELSE t
  IN ForEach(Start, {e \in Live(s, {"auto"}) \ s.autoFired : world[e].target # ""}, s)

\* One due fire: the first in the queue, whose place the last one takes.
Due(s) == {i \in DOMAIN s.pending : s.pending[i].delay <= 0}
FireDue(s) ==
  LET i == FirstOf(Due(s))
      fire == s.pending[i]
      last == Len(s.pending)
      rest == [s EXCEPT !.pending =
                        SubSeq([@ EXCEPT ![i] = s.pending[last]], 1, last - 1)]
  IN IF Due(s) = {} THEN s
     ELSE ActivateEachWith(rest, Find(fire.target), fire.who, fire.use)
Nearer(queue) == [i \in DOMAIN queue |-> [queue[i] EXCEPT !.delay = @ - 1]]
AdvanceQueue(s) ==
  LET t == [s EXCEPT !.pending = Nearer(@)]
  IN Loop(LAMBDA acc, k : FireDue(acc), MaxEvents, t)

\* A rotator that has turned; one that came full circle is not told apart.
AdvanceRotators(s) ==
  [s EXCEPT !.turned = @ \cup {e \in Live(s, {"rotator"}) \cap s.on : world[e].speed # 0}]

\* advance_track_changes: every platform under way moves on with its train,
\* and then the ones that arrived put theirs down.
AdvanceTrackChanges(s) ==
  LET going == {e \in Live(s, {"trackchange"}) : s.change[e].moving}
      moved == ForEach(AdvanceTrackChange, going, s)
  IN ForEach(FinishTrackChange, {e \in going : ~moved.change[e].moving}, moved)

\* A camera whose hold runs out goes dormant and fires.
AdvanceCameras(s) ==
  LET over == {e \in Live(s, {"camera"}) : s.camera[e] \in {0, 1}}
      t == [s EXCEPT !.camera = [e \in Entities |->
              IF e \in over THEN -1 ELSE Most(@[e] - 1, -1)]]
  IN ForEach(LAMBDA acc, e : FireTarget(acc, e, e, 0, "toggle"), over, t)

\* Volumes the arriving player stands in count as touched already.
SeedTeleportArrival(s) ==
  IF s.arrived = 0 THEN s
  ELSE [s EXCEPT !.telTouch = @ \cup {e \in OfKind({"teleport"}) :
                                         Overlaps(e, world[s.arrived].spot)}]

Tick(s) ==
  LET fired == AdvanceQueue(FireAutoTriggers(FirePlayerSpawn(s)))
      pressed == AdvanceMovers(AdvanceMovers(AdvanceMovers(fired, "door"),
                                             "button"), "rotbutton")
      moved == AdvanceMovers(AdvanceMovers(pressed, "platform"), "platrot")
      rode == AdvanceCameras(AdvanceTrackChanges(AdvanceTrains(AdvanceRotators(moved))))
  IN [SeedTeleportArrival(rode)
        EXCEPT !.cooldown = [e \in Entities |-> Most(@[e] - 1, 0)],
               !.busy = [e \in Entities |-> Most(@[e] - 1, 0)]]

\* apply_teleports: the host moves the player to the destination the step
\* arrived at.
ApplyTeleports(s) ==
  IF s.arrived = 0 THEN s
  ELSE [s EXCEPT !.pos = world[s.arrived].spot, !.arrived = 0]

Phase12(s, input) ==
  LET here == [s EXCEPT !.pos = input.pos, !.monster = input.monster]
      used == IF input.use THEN PressUse(here) ELSE here
      touched == MonsterTouchesDoors(TouchDoors(used))
      blocked == BlockMovers(touched, input.blocked)
  IN ApplyTeleports(Tick(TouchTriggers(blocked)))

-----------------------------------------------------------------------------
\* Damage, dealt by the player's shot in phase 9 of the same step.

DamageButton(s, e) ==
  LET left == s.buttonHealth[e] - 1
  IN IF left > 0 THEN [s EXCEPT !.buttonHealth[e] = left]
     ELSE Activate([s EXCEPT !.buttonHealth[e] = world[e].health], e, Player)

\* A breakable that only a trigger breaks has no health here.
DamageBreakable(s, e) ==
  LET left == s.health[e] - 1
  IN IF e \in s.broken \/ s.health[e] <= 0 THEN s
     ELSE LET t == [s EXCEPT !.health[e] = left]
          IN IF left <= 0 THEN BreakEntity(t, e, Player) ELSE t
Damage(s, e) ==
  IF world[e].kind = "breakable" THEN DamageBreakable(s, e) ELSE DamageButton(s, e)
Damageable == {e \in OfKind(Buttons \cup {"breakable"}) : world[e].health > 0}

FixedStep(s, input) ==
  Phase12(ForEach(Damage, input.shot \cap Damageable, s), input)
============================================================================
