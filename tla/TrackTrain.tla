----------------------------- MODULE TrackTrain -----------------------------
(***************************************************************************)
(* A train on a chain of path nodes: how the chain is read off the map and *)
(* its switches, how the train rides it, what it fires, and how a switch   *)
(* or a track change hands it another chain.                               *)
(*                                                                         *)
(* Node positions are integers on one line.  Progress along a segment is   *)
(* the distance `along' covered since `node', so the code's fraction t is  *)
(* along divided by the segment's length.  A node of a chain is the path   *)
(* entity itself: everything else a PathNode holds is copied from it.      *)
(***************************************************************************)
EXTENDS MapEntities

CONSTANTS MaxPathNodes,    \* MAX_PATH_NODES
          MaxTransitions   \* MAX_TRANSITIONS_PER_TICK

-----------------------------------------------------------------------------
\* Chains.  `thrown' is the set of switches standing on their branch.

NextName(thrown, e) ==
  IF e \in thrown /\ world[e].branch # "" THEN world[e].branch
  ELSE world[e].target

\* Where a chain first has one of `nodes', and its last node.
IndexOf(chain, nodes) == FirstOf({k \in DOMAIN chain : chain[k] \in nodes})
Last(chain) == chain[Len(chain)]

\* Appends the nodes reachable from `name' to `nodes'; `reentry' is the
\* index of the node the walk ran back into, 0 when it ended.
WalkFrom(thrown, name, nodes) ==
  LET Visit(w, i) ==
        LET e == FirstNamed(w.name)
        IN IF w.over \/ Len(w.nodes) >= MaxPathNodes THEN w
           ELSE IF \E k \in DOMAIN w.nodes : w.nodes[k] = e
           THEN [w EXCEPT !.over = TRUE, !.reentry = IndexOf(w.nodes, {e})]
           ELSE IF e = 0 \/ world[e].kind # "path" THEN [w EXCEPT !.over = TRUE]
           ELSE [w EXCEPT !.nodes = Append(@, e), !.name = NextName(thrown, e)]
  IN Loop(Visit, Len(world) + 1,
          [nodes |-> nodes, name |-> name, reentry |-> 0, over |-> FALSE])

ChainOf(walk) == [nodes |-> walk.nodes, looped |-> walk.reentry = 1]
Build(thrown, name) == ChainOf(WalkFrom(thrown, name, <<>>))

\* The lowest path entity whose selected next name leads to `node'.
PredecessorOf(thrown, node) ==
  FirstOf({e \in OfKind({"path"}) : /\ world[e].name # ""
                                    /\ FirstNamed(NextName(thrown, e)) = node})

\* The chain that ends at `name', or an empty one when the forward walk from
\* its head does not end there.
HeadOf(thrown, last) ==
  LET Back(w, i) ==
        LET p == PredecessorOf(thrown, w.head)
        IN IF p = 0 \/ p \in w.seen \/ Cardinality(w.seen) >= MaxPathNodes
           THEN w ELSE [head |-> p, seen |-> w.seen \cup {p}]
  IN Loop(Back, Len(world), [head |-> last, seen |-> {last}]).head
IfEndingAt(chain, last) ==
  IF chain.nodes # <<>> /\ ~chain.looped /\ Last(chain.nodes) = last
  THEN chain ELSE [nodes |-> <<>>, looped |-> FALSE]
BuildEndingAt(thrown, name) ==
  LET last == FirstNamed(name)
  IN IF last = 0 THEN [nodes |-> <<>>, looped |-> FALSE]
     ELSE IfEndingAt(Build(thrown, world[HeadOf(thrown, last)].name), last)

NextIndex(chain, i) ==
  IF i < Len(chain.nodes) THEN i + 1 ELSE IF chain.looped THEN 1 ELSE 0
PrevIndex(chain, i) ==
  IF i > 1 THEN i - 1 ELSE IF chain.looped THEN Len(chain.nodes) ELSE 0

-----------------------------------------------------------------------------
\* The train.

SpawnTrain(e) ==
  LET d == world[e]
  IN [chain |-> Build({}, d.target), node |-> 1, along |-> 0,
      dir |-> IF d.start < 0 THEN -1 ELSE 1,
      speed |-> IF d.start # 0 THEN Distance(d.start, 0) ELSE d.speed,
      moving |-> d.start # 0, wait |-> 0, deadEndFired |-> FALSE, carry |-> 0]

OtherIndex(t) ==
  IF t.dir >= 0 THEN NextIndex(t.chain, t.node) ELSE PrevIndex(t.chain, t.node)

NodeAt(t, i) == world[t.chain.nodes[i]].at
SegmentLen(t, i) == Distance(NodeAt(t, t.node), NodeAt(t, i))

\* Where the train is drawn: on its segment, moved along by its platform.
PositionOf(t) ==
  LET other == OtherIndex(t)
      base == NodeAt(t, t.node)
  IN IF other = 0 \/ SegmentLen(t, other) = 0 THEN base
     ELSE IF NodeAt(t, other) >= base THEN base + Least(t.along, SegmentLen(t, other))
     ELSE base - Least(t.along, SegmentLen(t, other))
DrawnAt(t) == PositionOf(t) + t.carry

TurnOn(t, cruise) ==
  [t EXCEPT !.moving = TRUE,
            !.speed = IF ~t.moving /\ cruise # 0 THEN cruise ELSE @]
TurnOff(t) == [t EXCEPT !.moving = FALSE, !.wait = 0]
UseTrain(t, cruise, use) ==
  CASE use = "on"  -> TurnOn(t, cruise)
    [] use = "off" -> TurnOff(t)
    [] OTHER       -> IF t.moving THEN TurnOff(t) ELSE TurnOn(t, cruise)

\* One pass of the loop of advance_firing: the train runs out of chain, ends
\* the step inside its segment, or passes a node.
RideOn(r, i) ==
  LET t == r.train
      other == OtherIndex(t)
      left == SegmentLen(t, other) - t.along
      n == world[t.chain.nodes[other]]
      stays == n.stop \/ n.wait > 0
  IN IF r.remaining <= 0 \/ ~t.moving THEN r
     ELSE IF other = 0
     THEN [train |-> [t EXCEPT !.moving = FALSE, !.deadEndFired = TRUE],
           remaining |-> 0,
           fired |-> IF t.deadEndFired THEN r.fired
                     ELSE Append(r.fired, world[t.chain.nodes[t.node]].deadEnd)]
     ELSE IF r.remaining >= left
     THEN [train |-> [t EXCEPT !.node = other, !.along = 0, !.deadEndFired = FALSE,
                               !.speed = IF n.speed # 0 THEN n.speed ELSE @,
                               !.moving = ~n.stop,
                               !.wait = IF ~n.stop /\ n.wait > 0 THEN n.wait ELSE @],
           remaining |-> IF stays THEN 0 ELSE r.remaining - left,
           fired |-> Append(r.fired, n.message)]
     ELSE [r EXCEPT !.train.along = @ + r.remaining, !.remaining = 0]

\* TrackTrainState::advance_firing: the train after a step, and the names it
\* fired in the order it passed them.
AdvanceFiring(t) ==
  LET wait == Most(t.wait - 1, 0)
      rest == [train |-> [t EXCEPT !.wait = wait], remaining |-> 0, fired |-> <<>>]
  IN IF ~t.moving THEN [rest EXCEPT !.train = t]
     ELSE IF wait > 0 THEN rest
     ELSE Loop(RideOn, MaxTransitions, [rest EXCEPT !.remaining = t.speed])

\* TrackTrainState::resplice_chain: the part of the chain the train is not
\* committed to, re-read against the switches.
CommittedTo(t) ==
  IF t.dir >= 0 /\ t.along > 0 THEN Most(t.node, NextIndex(t.chain, t.node))
  ELSE t.node
OnWrapSegment(t) ==
  t.dir >= 0 /\ t.along > 0 /\ NextIndex(t.chain, t.node) \in 1..t.node

\* The code keeps the fraction of the segment, so the distance along it
\* scales when the segment ahead is another one.
SameFraction(old, new) ==
  IF old.along = 0 \/ OtherIndex(new) = 0 THEN old.along
  ELSE (old.along * SegmentLen(new, OtherIndex(new)))
         \div SegmentLen(old, OtherIndex(old))

\* The committed part and the walk on from it.
WalkOn(thrown, kept) ==
  IF NextName(thrown, Last(kept)) = "" THEN [nodes |-> kept, reentry |-> 0]
  ELSE WalkFrom(thrown, NextName(thrown, Last(kept)), kept)

\* A walk that ran back into its own middle, behind the train, is a loop once
\* the nodes before it are dropped.
OntoWalk(t, w) ==
  LET reroots == w.reentry > 1 /\ t.dir >= 0 /\ w.reentry <= t.node
      dropped == IF reroots THEN w.reentry - 1 ELSE 0
  IN [t EXCEPT !.chain = [nodes |-> SubSeq(w.nodes, dropped + 1, Len(w.nodes)),
                          looped |-> w.reentry = 1 \/ reroots],
               !.node = @ - dropped, !.deadEndFired = FALSE]
TakeChain(t, new) ==
  IF new.chain = t.chain /\ new.node = t.node THEN t
  ELSE [new EXCEPT !.along = SameFraction(t, new)]

Resplice(t, thrown) ==
  IF OnWrapSegment(t) THEN t
  ELSE TakeChain(t, OntoWalk(t, WalkOn(thrown, SubSeq(t.chain.nodes, 1, CommittedTo(t)))))

Relink(t, chain, moving) ==
  [t EXCEPT !.chain = chain, !.node = 1, !.along = 0, !.dir = 1, !.wait = 0,
            !.deadEndFired = FALSE, !.carry = 0, !.moving = moving]
RelinkAtEnd(t, chain, moving) ==
  [Relink(t, chain, moving) EXCEPT !.node = Len(chain.nodes), !.dir = -1]

-----------------------------------------------------------------------------
\* The track change: a platform that joins two paths and carries the train
\* resting on it from one to the other.  `displaced' counts the steps of its
\* travel; an instant platform (travel 0) has one.

Span(e) == Most(world[e].travel, 1)
SpawnPlatform == [displaced |-> 0, dir |-> 1, moving |-> FALSE,
                  carrying |-> FALSE, from |-> 0, to |-> 0]
AtBottom(e, c) == world[e].atBottom # (2 * c.displaced >= Span(e))

\* The train a platform names, and where that train would stand on a node.
NamedTrain(e) ==
  FirstOf({t \in Find(world[e].train) : world[t].kind = "train"})
StandsAt(name) == LET n == FirstNamed(name)
                  IN IF n # 0 /\ world[n].kind = "path" THEN {world[n].at} ELSE {}
============================================================================
