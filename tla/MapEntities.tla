---------------------------- MODULE MapEntities ----------------------------
(***************************************************************************)
(* What a loaded map declares, as the registry indexes it: the entities in *)
(* spawn order, the names they answer to and the names they fire.  A map   *)
(* is a sequence of entity records; an entity is its position in it, which *)
(* is also the ascending id order every handler visits.  `kind' is the     *)
(* component that decides what an activation does; the other fields are    *)
(* keyvalues, read only by the kinds that have them.                       *)
(*                                                                         *)
(* Lengths of time are whole fixed steps (dt = 1), and places the player   *)
(* or a monster can stand in are numbered spots: a volume, a door's reach  *)
(* or a button's reach is the spot it covers, 0 for none.                  *)
(***************************************************************************)
EXTENDS Integers, Sequences, FiniteSets

VARIABLE world

\* An entity with every keyvalue absent.
Blank ==
  [kind |-> "none", name |-> "", target |-> "", delay |-> 0, wait |-> 0,
   travel |-> 1, master |-> "", once |-> FALSE, toggle |-> FALSE,
   touch |-> FALSE, health |-> 0, spot |-> 0, fans |-> <<>>,
   multithreaded |-> FALSE, remove |-> FALSE, use |-> "toggle", on |-> FALSE,
   at |-> 0, speed |-> 0, start |-> 0, stop |-> FALSE, branch |-> "",
   message |-> "", deadEnd |-> "", train |-> "", top |-> "", bottom |-> "",
   atBottom |-> FALSE, global |-> "", map |-> "", landmark |-> "", newunit |-> FALSE]

\* What the registry can make of an entity's keyvalues.
Declared ==
  [kind : STRING, name : STRING, target : STRING, delay : Int, wait : Int,
   travel : Int, master : STRING, once : BOOLEAN, toggle : BOOLEAN,
   touch : BOOLEAN, health : Int, spot : Int, fans : Seq(STRING \X Int),
   multithreaded : BOOLEAN, remove : BOOLEAN, use : STRING, on : BOOLEAN,
   at : Int, speed : Int, start : Int, stop : BOOLEAN, branch : STRING,
   message : STRING, deadEnd : STRING, train : STRING, top : STRING, bottom : STRING,
   atBottom : BOOLEAN, global : STRING, map : STRING, landmark : STRING,
   newunit : BOOLEAN]

\* Activators: an entity, the player, or nobody.
Nobody == 0
Player == -1

Entities == DOMAIN world
OfKind(kinds) == {e \in Entities : world[e].kind \in kinds}

\* The least of a set of ids or positions, 0 for none.
FirstOf(set) == IF set = {} THEN 0 ELSE CHOOSE e \in set : \A f \in set : e <= f

\* Registry::find: every entity of that name, in spawn order.
Find(name) == {e \in Entities : name # "" /\ world[e].name = name}
FirstNamed(name) == FirstOf(Find(name))

\* `s' after `Body' was done to it with 1, 2 and so on up to `n'.
Loop(Body(_, _), n, s) ==
  LET after[i \in 0..n] == IF i = 0 THEN s ELSE Body(after[i - 1], i)
  IN after[n]

\* The entities of `set', visited in ascending id order by `Visit'.
ForEach(Visit(_, _), set, s) ==
  IF set = {} THEN s
  ELSE Loop(LAMBDA acc, e : IF e \in set THEN Visit(acc, e) ELSE acc, Len(world), s)

Least(a, b) == IF a < b THEN a ELSE b
Most(a, b) == IF a > b THEN a ELSE b
Distance(a, b) == IF a < b THEN b - a ELSE a - b
============================================================================
