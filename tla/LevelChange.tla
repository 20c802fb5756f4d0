---------------------------- MODULE LevelChange ----------------------------
(***************************************************************************)
(* A level change: what is captured from the map that is left, and what is *)
(* laid over the map that is entered.                                      *)
(*                                                                         *)
(* Offsets are taken from the landmark the two maps share; `shift' is what *)
(* turns a place of the old map into the same place of the new one.  Which *)
(* entities are near enough to the landmark to travel (transition volumes, *)
(* visibility or distance) is geometry, and any choice.  A player who      *)
(* rides is placed as one who stands.                                      *)
(***************************************************************************)
EXTENDS MapStep

CONSTANTS Atlas,       \* the published maps, by name
          MaxCarried   \* MAX_CARRIED_ENTITIES

\* The markers every map declares for itself.
Structural == {"landmark", "worldspawn", "changelevel"}
BrushKinds == MoverKinds \cup Switches \cup {"breakable", "train", "trackchange"}
IsBrush(d) == d.kind \in BrushKinds \/ (d.kind \in TriggerKinds /\ d.spot # 0)

LandmarkOrigin(map, name) ==
  {map[i].at : i \in {j \in DOMAIN map : map[j].kind = "landmark" /\ map[j].name = name}}
NewUnit(map) == \E i \in DOMAIN map : map[i].newunit

\* Where two maps meet, when both declare the landmark.
Meets(from, to, landmark) ==
  LandmarkOrigin(from, landmark) # {} /\ LandmarkOrigin(to, landmark) # {}
Shift(from, to, landmark) ==
  (CHOOSE at \in LandmarkOrigin(to, landmark) : TRUE)
    - (CHOOSE at \in LandmarkOrigin(from, landmark) : TRUE)

-----------------------------------------------------------------------------
\* Leaving: TransitionState::capture.

\* A train's progress, and the name of the node it is at.
CaptureTrackTrain(t) ==
  LET other == OtherIndex(t)
      name == world[t.chain.nodes[t.node]].name
  IN IF t.chain.nodes = <<>> \/ name = "" THEN {}
     ELSE {[node |-> name, along |-> t.along, dir |-> t.dir, speed |-> t.speed,
            moving |-> t.moving, wait |-> t.wait,
            len |-> IF other = 0 THEN 0 ELSE SegmentLen(t, other)]}

Snapshot(s, e) ==
  [d |-> world[e], mover |-> s.mover[e], spinning |-> e \in s.on,
   turned |-> e \in s.turned,
   ride |-> IF world[e].kind = "train" THEN CaptureTrackTrain(s.train[e]) ELSE {}]

CarriedMovers == {"door", "button", "platform", "platrot"}
IsModifiedMover(s, e) ==
  \/ world[e].kind \in CarriedMovers /\ s.mover[e] # AtRest
  \/ world[e].kind = "rotator" /\ e \in s.on \cup s.turned

\* What can travel at all: it answers to a name here or across maps.
Travellers(s) ==
  {e \in s.alive : /\ world[e].kind \notin Structural
                   /\ world[e].name # "" \/ world[e].global # ""}

SnapshotsOf(s, entities) == [e \in entities |-> Snapshot(s, e)]

\* `near' are the travellers the landmark takes along.  The monster's place
\* and the player's travel as offsets.  The snapshots are listed in the order
\* of the ids, of which `last' is the last.
CaptureTransition(s, near, to, landmark) ==
  LET meets == Meets(world, to, landmark)
      shift == IF meets THEN Shift(world, to, landmark) ELSE 0
  IN [movers |-> SnapshotsOf(s, {e \in Travellers(s) : /\ world[e].name # ""
                                                       /\ IsModifiedMover(s, e)}),
      entities |-> SnapshotsOf(s, near), globals |-> s.globals,
      meets |-> meets, shift |-> shift, last |-> Len(world),
      pos |-> IF meets THEN s.pos + shift ELSE 0, monster |-> s.monster + shift]

-----------------------------------------------------------------------------
\* Arriving: TransitionState::apply.

\* Mutant: only a global name is looked up.
HasGlobalCounterpart(d, map) ==
  \E i \in DOMAIN map : d.global # "" /\ map[i].global = d.global

HasCounterpart(d, map) ==
  \E i \in DOMAIN map : \/ d.global # "" /\ map[i].global = d.global
                        \/ d.name # "" /\ map[i].name = d.name

\* materialise_carried: of what Registry::build would have made of the same
\* keyvalues, a monster, a relay and a message keep what they are; the
\* master and the use type are lost.
Remade(d, shift) ==
  [d EXCEPT !.kind = IF @ \in {"monster", "trigger", "message"} THEN @ ELSE "none",
            !.master = "", !.use = "toggle", !.on = FALSE,
            !.spot = IF @ = 0 THEN 0 ELSE @ + shift]

\* The map with the travellers it does not declare, in the order they come:
\* one that was just made counts as declared for the next.
Arriving(map, t) ==
  LET Place(made, i) ==
        IF i \notin DOMAIN t.entities THEN made
        ELSE LET d == t.entities[i].d
             IN IF HasCounterpart(d, made) \/ IsBrush(d) \/ ~t.meets THEN made
                ELSE Append(made, Remade(d, t.shift))
  IN IF NewUnit(map) THEN map ELSE Loop(Place, t.last, map)

\* apply_onto_existing and restore_platrot: the state of a mover, never its
\* keyvalues, onto an entity that is such a mover.
ApplyOntoExisting(s, e, c) ==
  IF world[e].kind # c.d.kind \/ (c.d.kind = "platrot" /\ c.mover = AtRest) THEN s
  ELSE
  CASE c.d.kind \in CarriedMovers -> [s EXCEPT !.mover[e] = c.mover]
    [] c.d.kind = "rotator" ->
         [s EXCEPT !.on = IF c.spinning THEN @ \cup {e} ELSE @ \ {e},
                   !.turned = IF c.turned THEN @ \cup {e} ELSE @ \ {e}]
    [] OTHER -> s

\* restore_track_train: seated on its node of the same name, else on a chain
\* built from that node, else left in place with the motion it had.
WithMotion(t, ride) ==
  [t EXCEPT !.dir = ride.dir, !.speed = ride.speed, !.moving = ride.moving,
            !.wait = ride.wait]
SeatedAt(t, ride, node) ==
  LET moved == WithMotion([t EXCEPT !.node = node], ride)
      other == OtherIndex(moved)
  IN [moved EXCEPT !.along = IF other = 0 \/ ride.len = 0 THEN ride.along
                             ELSE (ride.along * SegmentLen(moved, other)) \div ride.len]
RestoreOn(t, ride, seat, onward) ==
  CASE seat # 0 -> SeatedAt(t, ride, seat)
    [] seat = 0 /\ onward.nodes # <<>> -> SeatedAt([t EXCEPT !.chain = onward], ride, 1)
    [] OTHER -> IF t.chain.nodes = <<>> THEN t ELSE WithMotion(t, ride)
RestoreTrackTrain(t, ride) ==
  RestoreOn(t, ride, IndexOf(t.chain.nodes, Find(ride.node)), Build({}, ride.node))

ApplyMover(s, c) ==
  ForEach(LAMBDA acc, e : ApplyOntoExisting(acc, e, c), Find(c.d.name), s)

\* place: by global name with its ride, else by name without.
ApplyCarried(s, c) ==
  LET counterparts == {e \in Entities : c.d.global # "" /\ world[e].global = c.d.global}
      Seat(acc, e) ==
        LET put == ApplyOntoExisting(acc, e, c)
        IN IF world[e].kind # "train" \/ c.ride = {} THEN put
           ELSE [put EXCEPT !.train[e] =
                   RestoreTrackTrain(@, CHOOSE r \in c.ride : TRUE)]
  IN IF counterparts # {} THEN ForEach(Seat, counterparts, s) ELSE ApplyMover(s, c)

\* The level that is entered: its own state under the captured one, without
\* the entities whose global was retired.  A new unit takes the player only.
Enter(t) ==
  LET remade == \E i \in DOMAIN t.entities :
                  /\ t.entities[i].d.kind = "monster"
                  /\ \E e \in Entities : world[e] = Remade(t.entities[i].d, t.shift)
      fresh == NewSimulation(t.pos, IF remade /\ t.meets THEN t.monster ELSE 0)
      Move(s, i) == IF i \in DOMAIN t.movers THEN ApplyMover(s, t.movers[i]) ELSE s
      Carry(s, i) == IF i \in DOMAIN t.entities THEN ApplyCarried(s, t.entities[i]) ELSE s
      laid == Loop(Carry, t.last, Loop(Move, t.last, fresh))
      retired == {e \in Entities : <<world[e].global, "dead">> \in t.globals}
  IN IF NewUnit(world) THEN fresh
     ELSE [laid EXCEPT !.alive = @ \ retired, !.globals = Seed(t.globals)]
============================================================================
