----------------------------- MODULE MCMapGame -----------------------------
(***************************************************************************)
(* Small maps for MapGame, each around one way entities act on each other. *)
(***************************************************************************)
EXTENDS MapGame

Entity(kind, name, target) ==
  [Blank EXCEPT !.kind = kind, !.name = name, !.target = target]
Path(name, target, at) == [Entity("path", name, target) EXCEPT !.at = at]

\* Doors opened by touch, by a monster and by buttons; a button that is shot.
DoorMap ==
  <<[Entity("door", "", "") EXCEPT !.touch = TRUE, !.spot = 1, !.travel = 2, !.wait = 1],
    [Entity("button", "", "gate") EXCEPT !.spot = 2, !.delay = 1, !.wait = 1, !.health = 2],
    [Entity("door", "gate", "") EXCEPT !.delay = 1, !.travel = 2, !.wait = -1],
    Entity("monster", "", "")>>

\* Buttons and platforms that turn, rise and toggle; an auto trigger that
\* switches the lamp off and is gone.
LiftMap ==
  <<[Entity("rotbutton", "", "lift") EXCEPT !.touch = TRUE, !.toggle = TRUE,
                                            !.spot = 1, !.travel = 2],
    [Entity("platform", "lift", "") EXCEPT !.travel = 2, !.wait = 1],
    [Entity("platrot", "lift", "") EXCEPT !.toggle = TRUE, !.travel = 2],
    [Entity("platrot", "", "") EXCEPT !.spot = 2, !.travel = 2, !.wait = 1],
    [Entity("rotbutton", "", "lamp") EXCEPT !.spot = 1, !.wait = 1, !.delay = 1],
    [Entity("effect", "lamp", "") EXCEPT !.toggle = TRUE, !.on = TRUE],
    [Entity("auto", "", "lamp") EXCEPT !.delay = 2, !.use = "off", !.remove = TRUE]>>

\* A multisource that counts an auto trigger, a volume and a breakable, and
\* the manager it fans out to.
MasterMap ==
  <<[Entity("auto", "", "both") EXCEPT !.delay = 1],
    [Entity("trigger", "", "both") EXCEPT !.spot = 1, !.wait = 2],
    Entity("multisource", "both", "boom"),
    [Entity("manager", "boom", "") EXCEPT
       !.fans = <<<<"bomb", 0>>, <<"bomb", 2>>, <<"fan", 1>>>>],
    [Entity("explosion", "bomb", "") EXCEPT !.once = TRUE],
    Entity("rotator", "fan", ""),
    [Entity("trigger", "", "boom") EXCEPT !.spot = 2, !.once = TRUE, !.master = "both"],
    [Entity("breakable", "", "both") EXCEPT !.health = 2, !.spot = 2]>>

\* Two teleports, the second where the first arrives; a camera sequence.
TeleportMap ==
  <<[Entity("teleport", "", "mid") EXCEPT !.spot = 1],
    [Entity("none", "mid", "") EXCEPT !.spot = 2],
    [Entity("teleport", "", "far") EXCEPT !.spot = 2, !.master = "open"],
    [Entity("none", "far", "") EXCEPT !.spot = 3],
    [Entity("multisource", "open", "") EXCEPT !.delay = 0],
    [Entity("trigger", "", "open") EXCEPT !.spot = 3, !.once = TRUE],
    [Entity("changelevel", "", "") EXCEPT !.spot = 3, !.touch = TRUE],
    [Entity("endsection", "", "") EXCEPT !.spot = 3, !.wait = 1],
    [Entity("breakable", "", "look") EXCEPT !.spot = 2, !.touch = TRUE],
    [Entity("camera", "look", "hum") EXCEPT !.wait = 2],
    [Entity("ambient", "hum", "") EXCEPT !.on = TRUE]>>

\* A train around a loop with a switch to a dead end, and a door it opens.
TrainMap ==
  <<Path("a", "b", 0),
    [Path("b", "c", 2) EXCEPT !.branch = "d", !.wait = 1],
    [Path("c", "a", 4) EXCEPT !.message = "hatch"],
    [Path("d", "", 6) EXCEPT !.deadEnd = "hatch"],
    [Entity("train", "train", "a") EXCEPT !.speed = 1, !.start = 1],
    [Entity("door", "hatch", "") EXCEPT !.travel = 2, !.wait = 0],
    [Entity("button", "", "b") EXCEPT !.spot = 1],
    [Entity("button", "", "train") EXCEPT !.spot = 2, !.wait = 1]>>

\* A platform that takes the train from one track to another.
PlatformMap ==
  <<Path("a", "b", 0),
    [Path("b", "", 2) EXCEPT !.deadEnd = "platform"],
    Path("c", "d", 6),
    Path("d", "", 8),
    [Entity("train", "train", "a") EXCEPT !.speed = 1],
    [Entity("trackchange", "platform", "") EXCEPT
       !.travel = 2, !.train = "train", !.top = "b", !.bottom = "c"],
    [Entity("button", "", "train") EXCEPT !.spot = 1],
    [Entity("button", "", "platform") EXCEPT !.spot = 2]>>

\* Two maps that meet at a landmark, two units apart: a door, a relay, a fan
\* and a tram they share, a guard only the first declares.  The way back is
\* where the player arrives.
Exit(spot, map) ==
  [Entity("changelevel", "", "") EXCEPT !.spot = spot, !.touch = TRUE, !.map = map,
                                        !.landmark = "tunnel"]
Tram(path) == [Entity("train", "", path) EXCEPT !.speed = 1, !.start = 1, !.global = "tram"]
YardMap ==
  <<[Entity("landmark", "tunnel", "") EXCEPT !.at = 3],
    Exit(3, "shaft"),
    [Entity("door", "hatch", "") EXCEPT !.travel = 2, !.wait = 1],
    [Entity("button", "", "hatch") EXCEPT !.spot = 2],
    Entity("monster", "guard", ""),
    Entity("trigger", "relay", "hatch"),
    [Entity("rotator", "fan", "") EXCEPT !.speed = 1],
    [Entity("global", "", "") EXCEPT !.message = "pump", !.use = "dead", !.on = TRUE],
    Path("n1", "n2", 0), Path("n2", "n3", 2), Path("n3", "", 4), Tram("n1")>>
ShaftMap ==
  <<[Entity("landmark", "tunnel", "") EXCEPT !.at = 1],
    Exit(1, "yard"), Exit(2, "surface"),
    [Entity("door", "hatch", "") EXCEPT !.travel = 2, !.wait = 1],
    Entity("trigger", "relay", "fan"),
    [Entity("rotator", "fan", "") EXCEPT !.speed = 1, !.on = TRUE],
    [Entity("rotator", "", "") EXCEPT !.speed = 1, !.on = TRUE, !.global = "pump"],
    Path("n0", "n2", -2), Path("n2", "n3", 0), Path("n3", "", 2), Tram("n0")>>
\* The first map of a new unit.
SurfaceMap ==
  <<[Entity("worldspawn", "", "") EXCEPT !.newunit = TRUE],
    [Entity("landmark", "tunnel", "") EXCEPT !.at = 1],
    [Entity("door", "hatch", "") EXCEPT !.travel = 2]>>
Published == [yard |-> YardMap, shaft |-> ShaftMap, surface |-> SurfaceMap]

AllMaps == {DoorMap, LiftMap, MasterMap, TeleportMap, TrainMap, PlatformMap, YardMap}

\* A manager the engine fires when the player spawns.
SpawnMap ==
  <<[Entity("manager", SpawnName, "") EXCEPT !.fans = <<<<"fan", 1>>>>],
    Entity("rotator", "fan", ""),
    [Entity("button", "", "fan") EXCEPT !.spot = 1]>>
SpawnMaps == {SpawnMap}
============================================================================
