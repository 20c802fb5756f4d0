--------------------------- MODULE MapGameProofs ----------------------------
(***************************************************************************)
(* Theorems about the game, for every map the registry can make and every  *)
(* length of play.  The operators of a step are loops over the entities,   *)
(* so a lemma about one is an induction over what the loop visits.         *)
(***************************************************************************)
EXTENDS MapGame, SequenceTheorems, FiniteSetTheorems, TLAPS

(* Induction over the natural numbers, about a set of them. *)
Below == {pair \in Nat \X Nat : pair[1] < pair[2]}

LEMMA Induction ==
    ASSUME NEW S, 0 \in S, \A n \in Nat : n \in S => n + 1 \in S
    PROVE  Nat \subseteq S
<1> SUFFICES ASSUME Nat \ S # {} PROVE FALSE
  OBVIOUS
<1>1. Below = OpToRel(<, Nat)
  BY DEF Below, OpToRel
<1>2. IsWellFoundedOn(Below, Nat)
  BY ZenonT(40), <1>1, NatLessThanWellFounded
<1>3. PICK n \in Nat \ S : \A m \in Nat \ S : <<m, n>> \notin Below
  BY <1>2, WFMin
<1>4. n # 0 /\ n - 1 \in Nat /\ n - 1 < n
  BY <1>3
<1>5. <<n - 1, n>> \in Below
  BY <1>3, <1>4 DEF Below
<1> QED BY <1>3, <1>4, <1>5

-----------------------------------------------------------------------------
(* The fields of a simulation. *)
Fields ==
  {"pos", "monster", "pending", "used", "cooldown", "level", "telTouch", "rotTouch",
   "doorTouch", "monsterTouch", "platTouch", "fires", "busy", "spawnFired",
   "autoFired", "alive", "mover", "captured", "buttonHealth", "health", "broken",
   "consumed", "on", "camera", "thrown", "train", "change", "arrived", "turned",
   "changes", "globals", "sent"}

\* What the proofs need of a map: its entities have their keyvalues.
Listed(d) == /\ "fans" \in DOMAIN d /\ "at" \in DOMAIN d /\ "name" \in DOMAIN d
             /\ "global" \in DOMAIN d /\ "kind" \in DOMAIN d
             /\ "delay" \in DOMAIN d /\ "travel" \in DOMAIN d
             /\ d.fans \in Seq(STRING \X Int) /\ d.at \in Int
             /\ d.delay \in Int /\ d.travel \in Int
IsMap(map) == \E S : map \in Seq(S) /\ \A d \in S : Listed(d)
World == IsMap(world)
Shape(s) == s = [x \in Fields |-> s[x]]

\* Whether a one-shot has nothing left to send.
IsSpent(s, e) ==
  CASE world[e].kind = "trigger" -> e \in s.used
    [] world[e].kind = "explosion" -> e \in s.consumed
    [] world[e].kind = "auto" -> e \in s.autoFired
    [] world[e].kind = "breakable" -> e \in s.broken
    [] world[e].kind = "multisource" -> s.fires[e] >= Required(s.alive, e)
    [] OTHER -> TRUE
Counted(s) ==
  s.sent \in [Entities -> Nat] /\ s.fires \in [Entities -> Nat] /\ s.alive \subseteq Entities
Spent(s) ==
  \A e \in OneShots : s.sent[e] <= 1 /\ (s.sent[e] = 1 => IsSpent(s, e))
Safe(s) == Shape(s) /\ Counted(s) /\ Spent(s)

\* The fields that say what was sent and what is spent, left as they were.
SameLedger(s, s1) ==
  /\ Shape(s1)
  /\ s1.sent = s.sent /\ s1.used = s.used /\ s1.consumed = s.consumed
  /\ s1.autoFired = s.autoFired /\ s1.broken = s.broken /\ s1.fires = s.fires
  /\ s1.alive = s.alive

LEMMA LedgerSafe ==
    ASSUME NEW s, NEW s1, Safe(s), SameLedger(s, s1)
    PROVE  Safe(s1)
BY DEF Safe, SameLedger, Counted, Spent, IsSpent

LEMMA WorldIsFinite ==
    ASSUME World
    PROVE  /\ Len(world) \in Nat /\ Entities = 1..Len(world) /\ IsFiniteSet(Entities)
           /\ \A e \in Entities : Listed(world[e])
<1>1. PICK S : world \in Seq(S) /\ \A d \in S : Listed(d)
  BY DEF World, IsMap
<1> QED BY <1>1, FS_Interval DEF Entities

LEMMA MapsAreMaps ==
    ASSUME NEW map \in Seq(Declared)
    PROVE  IsMap(map)
<1>1. ASSUME NEW d \in Declared PROVE Listed(d)
  BY DEF Listed, Declared
<1> QED BY <1>1 DEF IsMap

LEMMA RequiredShrinks ==
    ASSUME World, NEW e, NEW A, NEW B, A \subseteq B, B \subseteq Entities
    PROVE  /\ Required(A, e) \in Nat \ {0} /\ Required(B, e) \in Nat \ {0}
           /\ Required(A, e) <= Required(B, e)
<1> DEFINE name == world[e].name
           Aimed(S) == {d \in S : name # "" /\ world[d].target = name}
           Fanned(S) == {d \in OfKind({"manager"}) \cap S :
                     \E i \in DOMAIN world[d].fans : world[d].fans[i][1] = name}
<1>1. IsFiniteSet(Aimed(B)) /\ IsFiniteSet(Fanned(B))
  BY ZenonT(40), WorldIsFinite, FS_Subset
<1>2. Aimed(A) \subseteq Aimed(B) /\ Fanned(A) \subseteq Fanned(B)
  BY ZenonT(40)
<1>3. /\ IsFiniteSet(Aimed(A)) /\ IsFiniteSet(Fanned(A))
      /\ Cardinality(Aimed(A)) <= Cardinality(Aimed(B))
      /\ Cardinality(Fanned(A)) <= Cardinality(Fanned(B))
  BY ZenonT(40), <1>1, <1>2, FS_Subset
<1>4. /\ Cardinality(Aimed(A)) \in Nat /\ Cardinality(Aimed(B)) \in Nat
      /\ Cardinality(Fanned(A)) \in Nat /\ Cardinality(Fanned(B)) \in Nat
  BY ZenonT(40), <1>1, <1>3, FS_CardinalityType
<1>5. /\ Required(A, e) = Most(Cardinality(Aimed(A)) + Cardinality(Fanned(A)), 1)
      /\ Required(B, e) = Most(Cardinality(Aimed(B)) + Cardinality(Fanned(B)), 1)
  BY DEF Required
<1> HIDE DEF Aimed, Fanned
<1> QED BY <1>3, <1>4, <1>5 DEF Most

(* Entities that are gone stay spent. *)
LEMMA RemovalSafe ==
    ASSUME World, NEW s, Safe(s), NEW gone
    PROVE  Safe([s EXCEPT !.alive = @ \ gone])
<1> DEFINE s1 == [s EXCEPT !.alive = @ \ gone]
<1>1. /\ Shape(s1) /\ s1.alive = s.alive \ gone /\ s1.sent = s.sent /\ s1.used = s.used
      /\ s1.consumed = s.consumed /\ s1.autoFired = s.autoFired /\ s1.broken = s.broken
      /\ s1.fires = s.fires
  BY DEF Safe, Shape, Fields
<1> HIDE DEF s1
<1>2. Counted(s1)
  BY <1>1 DEF Safe, Counted
<1>3. ASSUME NEW e \in OneShots PROVE s1.sent[e] <= 1 /\ (s1.sent[e] = 1 => IsSpent(s1, e))
  <2>1. e \in Entities /\ s.fires[e] \in Nat
    BY DEF OneShots, Safe, Counted
  <2>2. Required(s1.alive, e) \in Nat /\ Required(s.alive, e) \in Nat
        /\ Required(s1.alive, e) <= Required(s.alive, e)
    BY <1>1, RequiredShrinks DEF Safe, Counted
  <2>3. s.sent[e] <= 1 /\ (s.sent[e] = 1 => IsSpent(s, e))
    BY DEF Safe, Spent
  <2>4. s.fires[e] >= Required(s.alive, e) => s1.fires[e] >= Required(s1.alive, e)
    BY <1>1, <2>1, <2>2
  <2>5. IsSpent(s, e) => IsSpent(s1, e)
    BY <1>1, <2>4, Zenon DEF IsSpent
  <2> QED BY <1>1, <2>3, <2>5
<1> QED BY <1>1, <1>2, <1>3 DEF Safe, Spent, s1

-----------------------------------------------------------------------------
(* Sending. *)

Fresh(s, e) == e \in OneShots => s.sent[e] = 0 /\ IsSpent(s, e)

LEMMA SendsSafe ==
    ASSUME World, NEW s, Safe(s), NEW e \in Entities, Fresh(s, e)
    PROVE  Safe(Sends(s, e)) /\ Sends(s, e) = [s EXCEPT !.sent = Sends(s, e).sent]
<1> DEFINE s1 == Sends(s, e)
<1>1. /\ Shape(s1) /\ s1.used = s.used /\ s1.consumed = s.consumed
      /\ s1.autoFired = s.autoFired /\ s1.broken = s.broken /\ s1.fires = s.fires
      /\ s1.alive = s.alive /\ s1.sent = [s.sent EXCEPT ![e] = Least(@ + 1, SentCap)]
      /\ s1 = [s EXCEPT !.sent = s1.sent]
  BY DEF Safe, Shape, Fields, Sends
<1> HIDE DEF s1
<1>2. s.sent \in [Entities -> Nat]
  BY DEF Safe, Counted
<1>3. s1.sent \in [Entities -> Nat]
      /\ \A d \in Entities : s1.sent[d] = IF d = e THEN Least(s.sent[e] + 1, SentCap) ELSE s.sent[d]
  BY <1>1, <1>2, SentCapAssumption DEF Least
<1>4. Counted(s1)
  BY <1>1, <1>3 DEF Safe, Counted
<1>5. ASSUME NEW d \in OneShots PROVE s1.sent[d] <= 1 /\ (s1.sent[d] = 1 => IsSpent(s1, d))
  <2>1. d \in Entities
    BY DEF OneShots
  <2>2. s.sent[d] <= 1 /\ (s.sent[d] = 1 => IsSpent(s, d))
    BY DEF Safe, Spent
  <2>3. IsSpent(s1, d) <=> IsSpent(s, d)
    BY <1>1, Zenon DEF IsSpent
  <2>4. CASE d = e
    <3>1. s1.sent[d] <= 1
      BY <1>3, <2>1, <2>4, SentCapAssumption DEF Least, Fresh
    <3> QED BY <2>3, <2>4, <3>1 DEF Fresh
  <2>5. CASE d # e
    BY <1>3, <2>1, <2>2, <2>3, <2>5
  <2> QED BY <2>4, <2>5
<1> QED BY <1>1, <1>4, <1>5 DEF Safe, Spent, s1

LEMMA FireLedger ==
    ASSUME NEW s, Shape(s), NEW name, NEW who, NEW delay, NEW use
    PROVE  SameLedger(s, Fire(s, name, who, delay, use))
BY ZenonT(40) DEF Shape, Fields, SameLedger, Fire

LEMMA FireTargetSafe ==
    ASSUME World, NEW s, Safe(s), NEW e \in Entities, Fresh(s, e), NEW who, NEW delay, NEW use
    PROVE  LET s1 == FireTarget(s, e, who, delay, use)
           IN Safe(s1) /\ s1.autoFired = s.autoFired
<1> DEFINE s1 == Sends(s, e)
           s2 == Fire(s1, world[e].target, who, delay, use)
<1>1. Safe(s1) /\ s1.autoFired = s.autoFired
  BY SendsSafe DEF Safe, Shape, Fields, Sends
<1>2. SameLedger(s1, s2)
  BY <1>1, FireLedger DEF Safe
<1>3. Safe(s2) /\ s2.autoFired = s.autoFired
  BY <1>1, <1>2, LedgerSafe DEF SameLedger
<1> QED BY ZenonT(40), <1>3 DEF FireTarget

LEMMA OneShotKinds ==
    ASSUME NEW e \in OneShots
    PROVE  /\ e \in Entities
           /\ world[e].kind \in {"trigger", "explosion", "auto", "breakable", "multisource"}
BY DEF OneShots

LEMMA SameLedgerTwice ==
    ASSUME NEW s, NEW s1, NEW s2, SameLedger(s, s1), SameLedger(s1, s2)
    PROVE  SameLedger(s, s2)
BY SMTT(40) DEF SameLedger

LEMMA ManagerSafe ==
    ASSUME World, NEW s, Safe(s), NEW e \in Entities, world[e].kind = "manager", NEW who
    PROVE  Safe(ActivateManager(s, e, who))
<1> DEFINE d == world[e]
           longest == Loop(LAMBDA m, i : Most(m, d.fans[i][2]), Len(d.fans), 0)
<1> DEFINE s0 == [Sends(s, e) EXCEPT !.busy[e] = IF longest > 0 THEN longest ELSE @]
           n == Len(d.fans)
           B(acc, i) == Fire(acc, d.fans[i][1], who, d.fans[i][2], "toggle")
           Run(k, f) == f = [i \in 0..k |-> IF i = 0 THEN s0 ELSE B(f[i - 1], i)]
           after == CHOOSE f : Run(n, f)
<1>1. n \in Nat
  <2>1. d.fans \in Seq(STRING \X Int)
    BY WorldIsFinite DEF Listed
  <2> QED BY <2>1
<1>2. Run(n, after)
  <2> HIDE DEF B, s0, n
  <2> DEFINE S == {k \in Nat : \E f : Run(k, f)}
  <2>1. 0 \in S
    <3>1. Run(0, [i \in 0..0 |-> s0])
      OBVIOUS
    <3> QED BY <3>1
  <2>2. ASSUME NEW k \in Nat, k \in S PROVE k + 1 \in S
    <3>1. PICK f : Run(k, f)
      BY <2>2
    <3> DEFINE g == [i \in 0..(k + 1) |-> IF i <= k THEN f[i] ELSE B(f[k], i)]
    <3>2. Run(k + 1, g)
      BY <3>1
    <3> HIDE DEF g, Run
    <3> QED BY <3>2
  <2> HIDE DEF S
  <2>3. n \in S
    BY <1>1, <2>1, <2>2, Induction
  <2> QED BY <2>3 DEF S
<1>3. Safe(s0)
  <2>1. e \notin OneShots
    BY OneShotKinds
  <2>2. Safe(Sends(s, e))
    BY SMTT(40), <2>1, SendsSafe DEF Fresh
  <2> HIDE DEF longest
  <2>3. SameLedger(Sends(s, e), s0)
    BY ZenonT(40), <2>2 DEF Safe, Shape, Fields, SameLedger
  <2> QED BY <2>2, <2>3, LedgerSafe
<1>4. SameLedger(s0, after[n])
  <2> HIDE DEF B, s0, n, after
  <2> DEFINE S == {i \in Nat : i <= n => SameLedger(s0, after[i])}
  <2>1. 0 \in S
    BY <1>1, <1>2, <1>3 DEF SameLedger, Safe
  <2>2. ASSUME NEW i \in Nat, i \in S PROVE i + 1 \in S
    <3> SUFFICES ASSUME i + 1 <= n PROVE SameLedger(s0, after[(i + 1)])
      OBVIOUS
    <3>1. after[i + 1] = B(after[i], i + 1)
      BY <1>1, <1>2
    <3>2. SameLedger(s0, after[i]) /\ i + 1 \in 1..n
      BY <1>1, <2>2
    <3>3. SameLedger(after[i], B(after[i], i + 1))
      BY <3>2, FireLedger DEF SameLedger, B
    <3> QED BY <3>1, <3>2, <3>3, SameLedgerTwice
  <2> HIDE DEF S
  <2>3. n \in S
    BY <1>1, <2>1, <2>2, Induction
  <2> QED BY <1>1, <2>3 DEF S
<1>5. after[n] = Loop(LAMBDA acc, i : Fire(acc, d.fans[i][1], who, d.fans[i][2], "toggle"), n, s0)
  BY DEF Loop
<1>6. Safe(after[n])
  <2> HIDE DEF s0, n, after
  <2> QED BY <1>3, <1>4, LedgerSafe
<1> QED BY ZenonT(40), <1>5, <1>6 DEF ActivateManager

(* What an activation does, arm by arm. *)

LEMMA MultisourceSafe ==
    ASSUME World, NEW s, Safe(s), NEW e \in Entities, world[e].kind = "multisource",
           NEW who, NEW use
    PROVE  Safe(ActivateMultisource(s, e, who, use))
<1> DEFINE t == [s EXCEPT !.fires[e] = Least(@ + 1, SentCap)]
           need == Required(s.alive, e)
<1>1. /\ Shape(t) /\ t.sent = s.sent /\ t.used = s.used /\ t.consumed = s.consumed
      /\ t.autoFired = s.autoFired /\ t.broken = s.broken /\ t.alive = s.alive
      /\ t.fires = [s.fires EXCEPT ![e] = Least(@ + 1, SentCap)]
  BY DEF Safe, Shape, Fields
<1>2. /\ need \in Nat \ {0}
      /\ e \in OneShots => need < SentCap
  <2>1. s.alive \subseteq Entities /\ Entities \subseteq Entities
    BY DEF Safe, Counted
  <2>2. need \in Nat \ {0} /\ Required(Entities, e) \in Nat /\ need <= Required(Entities, e)
    BY <2>1, RequiredShrinks
  <2>3. e \in OneShots => Required(Entities, e) < SentCap
    BY DEF OneShots
  <2> QED BY <2>2, <2>3, SentCapAssumption
<1> HIDE DEF t, need
<1>3. /\ t.fires \in [Entities -> Nat]
      /\ \A d \in Entities : t.fires[d] = IF d = e THEN Least(s.fires[e] + 1, SentCap) ELSE s.fires[d]
  <2>1. s.fires \in [Entities -> Nat]
    BY DEF Safe, Counted
  <2> QED BY <1>1, <2>1, SentCapAssumption DEF Least
<1>4. s.fires[e] \in Nat
  BY DEF Safe, Counted
<1>5. e \in OneShots /\ s.sent[e] = 1 => t.fires[e] > need
  <2>1. e \in OneShots /\ s.sent[e] = 1 => s.fires[e] >= need
    BY DEF Safe, Spent, IsSpent, need
  <2> QED BY <1>2, <1>3, <1>4, <2>1, SentCapAssumption DEF Least
<1>6. Safe(t)
  <2>1. Counted(t)
    BY <1>1, <1>3 DEF Safe, Counted
  <2>2. ASSUME NEW d \in OneShots PROVE t.sent[d] <= 1 /\ (t.sent[d] = 1 => IsSpent(t, d))
    <3>1. d \in Entities /\ s.sent[d] <= 1 /\ (s.sent[d] = 1 => IsSpent(s, d))
      BY DEF Safe, Spent, OneShots
    <3>2. CASE d = e
      <4>1. s.sent[e] = 1 => t.fires[e] >= Required(t.alive, e)
        BY <1>1, <1>2, <1>3, <1>4, <1>5, <3>2, SentCapAssumption DEF need, Least
      <4> QED BY <1>1, <3>1, <3>2, <4>1 DEF IsSpent
    <3>3. CASE d # e
      <4>1. t.fires[d] = s.fires[d]
        BY <1>3, <3>1, <3>3
      <4>2. IsSpent(s, d) => IsSpent(t, d)
        BY <1>1, <4>1, Zenon DEF IsSpent
      <4> QED BY <1>1, <3>1, <4>2
    <3> QED BY <3>2, <3>3
  <2> QED BY <1>1, <2>1, <2>2 DEF Safe, Spent
<1>7. CASE t.fires[e] = need
  <2>1. Fresh(t, e)
    <3> SUFFICES ASSUME e \in OneShots PROVE t.sent[e] = 0 /\ IsSpent(t, e)
      BY DEF Fresh
    <3>1. s.sent[e] <= 1 /\ s.sent[e] \in Nat
      BY DEF Safe, Spent, Counted
    <3>2. s.sent[e] # 1
      BY <1>2, <1>5, <1>7
    <3>3. t.fires[e] >= Required(t.alive, e)
      BY <1>1, <1>2, <1>7 DEF need
    <3> QED BY <1>1, <3>1, <3>2, <3>3 DEF IsSpent
  <2>2. Safe(FireTarget(t, e, who, world[e].delay, use))
    BY <1>6, <2>1, FireTargetSafe
  <2> QED BY <1>7, <2>2 DEF ActivateMultisource, t, need
<1>8. CASE t.fires[e] # need
  BY <1>6, <1>8 DEF ActivateMultisource, t, need
<1> QED BY <1>7, <1>8

(* What stays apart from the ledger: movers, effects, switches, cameras, *)
(* trains and platforms. *)
LEMMA QuietArms ==
    ASSUME NEW s, Shape(s), NEW e, NEW who, NEW use
    PROVE  /\ SameLedger(s, [s EXCEPT !.arrived = e])
           /\ SameLedger(s, ActivateEffect(s, e, use))
           /\ SameLedger(s, ActivateMover(s, e, who))
           /\ SameLedger(s, [s EXCEPT !.train[e] = UseTrain(@, world[e].speed, use)])
           /\ SameLedger(s, StartTrackChange(s, e))
           /\ SameLedger(s, ThrowSwitch(s, e, use))
           /\ SameLedger(s, Flip(s, e))
           /\ SameLedger(s, TriggerCamera(s, e))
<1>1. SameLedger(s, [s EXCEPT !.arrived = e])
  BY DEF Shape, Fields, SameLedger
<1>2. SameLedger(s, ActivateEffect(s, e, use))
  BY DEF Shape, Fields, SameLedger, ActivateEffect
<1>3. ASSUME NEW st, NEW t
      PROVE  SameLedger(s, StartMover(s, e, st, t))
             /\ SameLedger(s, Capture(StartMover(s, e, st, t), e, who))
  <2>1. SameLedger(s, StartMover(s, e, st, t))
    BY SMTT(40) DEF Shape, Fields, SameLedger, StartMover
  <2>2. SameLedger(StartMover(s, e, st, t), Capture(StartMover(s, e, st, t), e, who))
    BY ZenonT(40), <2>1 DEF Shape, Fields, SameLedger, Capture
  <2> QED BY <2>1, <2>2, SameLedgerTwice
<1>4. SameLedger(s, s)
  BY DEF SameLedger
<1>5. SameLedger(s, ActivateMover(s, e, who))
  BY <1>3, <1>4 DEF ActivateMover
<1>6. SameLedger(s, [s EXCEPT !.train[e] = UseTrain(@, world[e].speed, use)])
  BY SMTT(40) DEF Shape, Fields, SameLedger
<1>7. SameLedger(s, StartTrackChange(s, e))
  <2> DEFINE c == s.change[e]
             d == world[e]
             from == StandsAt(IF AtBottom(e, c) THEN d.bottom ELSE d.top)
             to == StandsAt(IF AtBottom(e, c) THEN d.top ELSE d.bottom)
             t == [s EXCEPT !.change[e] =
                    SetOff(@, d, IF 2 * c.displaced >= Span(e) THEN -1 ELSE 1,
                           Rides(s, NamedTrain(e), from, to), from, to)]
  <2>1. SameLedger(s, t)
    BY DEF Shape, Fields, SameLedger
  <2>2. SameLedger(t, FinishTrackChange(t, e))
    <3> HIDE DEF t
    <3> QED BY ZenonT(40), <2>1 DEF Shape, Fields, SameLedger, FinishTrackChange
  <2>3. SameLedger(s, FinishTrackChange(t, e))
    BY <2>1, <2>2, SameLedgerTwice
  <2> HIDE DEF t
  <2> QED BY SMTT(40), <1>4, <2>1, <2>3 DEF StartTrackChange, t
<1>8. SameLedger(s, ThrowSwitch(s, e, use))
  BY ZenonT(40) DEF Shape, Fields, SameLedger, ThrowSwitch, ResplicedTrains
<1>9. SameLedger(s, Flip(s, e))
  BY DEF Shape, Fields, SameLedger, Flip
<1>10. SameLedger(s, TriggerCamera(s, e))
  BY DEF Shape, Fields, SameLedger, TriggerCamera
<1> QED BY <1>1, <1>2, <1>5, <1>6, <1>7, <1>8, <1>9, <1>10

(* A breakable, an explosion and a trigger are spent before they send. *)
LEMMA BreakSafe ==
    ASSUME World, NEW s, Safe(s), NEW e \in Entities, world[e].kind = "breakable", NEW who
    PROVE  Safe(BreakEntity(s, e, who))
<1> SUFFICES ASSUME e \notin s.broken PROVE Safe(BreakEntity(s, e, who))
  BY DEF BreakEntity
<1> DEFINE t == [s EXCEPT !.broken = @ \cup {e}, !.health[e] = 0]
<1>1. /\ Shape(t) /\ t.sent = s.sent /\ t.used = s.used /\ t.consumed = s.consumed
      /\ t.autoFired = s.autoFired /\ t.broken = s.broken \cup {e} /\ t.alive = s.alive
      /\ t.fires = s.fires
  BY ZenonT(40) DEF Safe, Shape, Fields
<1> HIDE DEF t
<1>2. \A d \in OneShots : IsSpent(s, d) => IsSpent(t, d)
  BY <1>1, Zenon DEF IsSpent
<1>3. Safe(t)
  BY <1>1, <1>2 DEF Safe, Spent, Counted
<1>4. Fresh(t, e)
  <2>1. e \in OneShots => s.sent[e] <= 1 /\ s.sent[e] \in Nat /\ ~IsSpent(s, e)
    BY DEF Safe, Spent, Counted, IsSpent
  <2>2. e \in OneShots => s.sent[e] = 0
    BY <2>1 DEF Safe, Spent
  <2> QED BY <1>1, <2>2 DEF Fresh, IsSpent
<1>5. Safe(FireTarget(t, e, IF who = Nobody THEN e ELSE who, world[e].delay, "toggle"))
  BY <1>3, <1>4, FireTargetSafe
<1> QED BY <1>5 DEF BreakEntity, t

LEMMA ExplosionSafe ==
    ASSUME World, NEW s, Safe(s), NEW e \in Entities, world[e].kind = "explosion"
    PROVE  Safe(ActivateExplosion(s, e))
<1> SUFFICES ASSUME e \notin s.consumed PROVE Safe(ActivateExplosion(s, e))
  BY DEF ActivateExplosion
<1> DEFINE t == IF world[e].once THEN [s EXCEPT !.consumed = @ \cup {e}] ELSE s
<1>1. /\ Shape(t) /\ t.sent = s.sent /\ t.used = s.used
      /\ t.consumed = IF world[e].once THEN s.consumed \cup {e} ELSE s.consumed
      /\ t.autoFired = s.autoFired /\ t.broken = s.broken /\ t.alive = s.alive
      /\ t.fires = s.fires
  BY DEF Safe, Shape, Fields
<1> HIDE DEF t
<1>2. \A d \in OneShots : IsSpent(s, d) => IsSpent(t, d)
  BY <1>1, Zenon DEF IsSpent
<1>3. Safe(t)
  BY <1>1, <1>2 DEF Safe, Spent, Counted
<1>4. Fresh(t, e)
  <2>1. e \in OneShots => s.sent[e] <= 1 /\ s.sent[e] \in Nat /\ ~IsSpent(s, e) /\ world[e].once
    BY DEF Safe, Spent, Counted, IsSpent, OneShots
  <2>2. e \in OneShots => s.sent[e] = 0
    BY <2>1 DEF Safe, Spent
  <2> QED BY <1>1, <2>1, <2>2 DEF Fresh, IsSpent
<1>5. Safe(Sends(t, e))
  BY <1>3, <1>4, SendsSafe
<1> QED BY <1>5 DEF ActivateExplosion, t

LEMMA TriggerSafe ==
    ASSUME World, NEW s, Safe(s), NEW e \in Entities, world[e].kind \in TriggerKinds, NEW who
    PROVE  Safe(ActivateTrigger(s, e, who))
<1> SUFFICES ASSUME CanTrigger(s, e, who) PROVE Safe(ActivateTrigger(s, e, who))
  BY DEF ActivateTrigger
<1> DEFINE d == world[e]
           t == [s EXCEPT !.used = IF d.once THEN @ \cup {e} ELSE @,
                          !.cooldown[e] = Most(d.wait, 0)]
<1>1. /\ Shape(t) /\ t.sent = s.sent /\ t.used = IF d.once THEN s.used \cup {e} ELSE s.used
      /\ t.consumed = s.consumed
      /\ t.autoFired = s.autoFired /\ t.broken = s.broken /\ t.alive = s.alive
      /\ t.fires = s.fires
  BY ZenonT(40) DEF Safe, Shape, Fields
<1> HIDE DEF t
<1>2. \A f \in OneShots : IsSpent(s, f) => IsSpent(t, f)
  BY <1>1, Zenon DEF IsSpent
<1>3. Safe(t)
  BY <1>1, <1>2 DEF Safe, Spent, Counted
<1>4. Fresh(t, e)
  <2>0. e \notin s.used
    BY DEF CanTrigger
  <2>1. e \in OneShots => s.sent[e] <= 1 /\ s.sent[e] \in Nat /\ ~IsSpent(s, e)
                          /\ d.once /\ d.kind = "trigger"
    BY <2>0 DEF Safe, Spent, Counted, IsSpent, OneShots, TriggerKinds
  <2>2. e \in OneShots => s.sent[e] = 0
    BY <2>1 DEF Safe, Spent
  <2> QED BY <1>1, <2>1, <2>2 DEF Fresh, IsSpent
<1>5. Safe(FireTarget(t, e, IF d.kind = "teleport" THEN e ELSE who, d.delay, d.use))
  BY <1>3, <1>4, FireTargetSafe
<1> QED BY <1>5 DEF ActivateTrigger, t

(* Whatever an activation reaches, one-shots stay spent. *)
LEMMA ActivateSafe ==
    ASSUME World, NEW s, Safe(s), NEW e \in Entities, NEW who, NEW use
    PROVE  Safe(ActivateWith(s, e, who, use))
<1> DEFINE d == world[e]
<1>1. Shape(s)
  BY DEF Safe
<1>2. /\ Safe([s EXCEPT !.arrived = e]) /\ Safe(ActivateEffect(s, e, use))
      /\ Safe(ActivateMover(s, e, who))
      /\ Safe([s EXCEPT !.train[e] = UseTrain(@, d.speed, use)])
      /\ Safe(StartTrackChange(s, e)) /\ Safe(ThrowSwitch(s, e, use))
      /\ Safe(Flip(s, e)) /\ Safe(TriggerCamera(s, e))
  BY <1>1, QuietArms, LedgerSafe
<1>3. /\ d.kind = "multisource" => Safe(ActivateMultisource(s, e, who, use))
      /\ d.kind = "explosion" => Safe(ActivateExplosion(s, e))
      /\ d.kind = "breakable" => Safe(BreakEntity(s, e, who))
      /\ d.kind = "manager" => Safe(ActivateManager(s, e, who))
      /\ d.kind \in {"trigger", "teleport"} => Safe(ActivateTrigger(s, e, who))
  BY MultisourceSafe, ExplosionSafe, BreakSafe, ManagerSafe, TriggerSafe DEF TriggerKinds
<1>4. /\ d.kind = "ambient" => Safe(ActivateAmbient(s, e))
      /\ d.kind = "changelevel" => Safe(RaiseChange(s, e))
      /\ d.kind \in Events \cup {"endsection"} => Safe(Sends(s, e))
  <2>1. d.kind \in Events \cup {"endsection", "ambient", "changelevel"} => Safe(Sends(s, e))
    <3>1. d.kind \in Events \cup {"endsection", "ambient", "changelevel"} => e \notin OneShots
      BY OneShotKinds DEF Events
    <3> QED BY <3>1, SendsSafe DEF Fresh
  <2> DEFINE t == Sends(s, e)
  <2> HIDE DEF t
  <2>2. Safe(t) => SameLedger(t, [t EXCEPT !.on = @ \cup {e}])
    BY DEF Safe, Shape, Fields, SameLedger
  <2>3. Safe(t) => SameLedger(t, [t EXCEPT !.changes =
                          Append(@, [map |-> world[e].map, landmark |-> world[e].landmark])])
    BY DEF Safe, Shape, Fields, SameLedger
  <2>4. Safe(t) => Safe([t EXCEPT !.on = @ \cup {e}])
                   /\ Safe([t EXCEPT !.changes =
                          Append(@, [map |-> world[e].map, landmark |-> world[e].landmark])])
    BY <2>2, <2>3, LedgerSafe
  <2> QED BY <1>2, <2>1, <2>4 DEF ActivateAmbient, RaiseChange, t
<1> QED BY ZenonT(40), <1>2, <1>3, <1>4 DEF ActivateWith

LEMMA RaiseSafe ==
    ASSUME World, NEW s, Safe(s), NEW e \in Entities, world[e].kind = "changelevel"
    PROVE  Safe(RaiseChange(s, e))
<1> DEFINE t == Sends(s, e)
<1>1. Safe(t)
  BY SendsSafe, OneShotKinds DEF Fresh
<1> HIDE DEF t
<1>2. SameLedger(t, [t EXCEPT !.changes =
                      Append(@, [map |-> world[e].map, landmark |-> world[e].landmark])])
  BY <1>1 DEF Safe, Shape, Fields, SameLedger
<1> QED BY <1>1, <1>2, LedgerSafe DEF RaiseChange, t

LEMMA ActivateEachSafe ==
    ASSUME World, NEW s, Safe(s), NEW set, NEW who, NEW use
    PROVE  Safe(ActivateEachWith(s, set, who, use))
<1> SUFFICES ASSUME set # {} PROVE Safe(ActivateEachWith(s, set, who, use))
  BY ZenonT(40) DEF ActivateEachWith, ForEach
<1> DEFINE s0 == s
           n == Len(world)
           B(acc, i) == IF i \in set THEN ActivateWith(acc, i, who, use) ELSE acc
           Run(k, f) == f = [i \in 0..k |-> IF i = 0 THEN s0 ELSE B(f[i - 1], i)]
           after == CHOOSE f : Run(n, f)
<1>1. n \in Nat
  BY WorldIsFinite
<1>2. Run(n, after)
  <2> HIDE DEF B, s0, n
  <2> DEFINE S == {k \in Nat : \E f : Run(k, f)}
  <2>1. 0 \in S
    <3>1. Run(0, [i \in 0..0 |-> s0])
      OBVIOUS
    <3> QED BY <3>1
  <2>2. ASSUME NEW k \in Nat, k \in S PROVE k + 1 \in S
    <3>1. PICK f : Run(k, f)
      BY <2>2
    <3> DEFINE g == [i \in 0..(k + 1) |-> IF i <= k THEN f[i] ELSE B(f[k], i)]
    <3>2. Run(k + 1, g)
      BY <3>1
    <3> HIDE DEF g, Run
    <3> QED BY <3>2
  <2> HIDE DEF S
  <2>3. n \in S
    BY <1>1, <2>1, <2>2, Induction
  <2> QED BY <2>3 DEF S
<1>3. Safe(after[n])
  <2> HIDE DEF B, s0, n, after
  <2> DEFINE S == {i \in Nat : i <= n => Safe(after[i])}
  <2>1. 0 \in S
    BY <1>1, <1>2 DEF s0
  <2>2. ASSUME NEW i \in Nat, i \in S PROVE i + 1 \in S
    <3> SUFFICES ASSUME i + 1 <= n PROVE Safe(after[(i + 1)])
      OBVIOUS
    <3>1. after[i + 1] = B(after[i], i + 1)
      BY <1>1, <1>2
    <3>2. Safe(after[i]) /\ i + 1 \in 1..n
      BY <1>1, <2>2
    <3>3. i + 1 \in Entities
      BY <3>2, WorldIsFinite DEF n
    <3> QED BY <3>1, <3>2, <3>3, ActivateSafe DEF B
  <2> HIDE DEF S
  <2>3. n \in S
    BY <1>1, <2>1, <2>2, Induction
  <2> QED BY <1>1, <2>3 DEF S
<1> QED BY <1>3 DEF ActivateEachWith, ForEach, Loop

-----------------------------------------------------------------------------
(* The step, operator by operator. *)

LEMMA AdvanceMoversSafe ==
    ASSUME World, NEW s, Safe(s), NEW kind, kind \in MoverKinds
    PROVE  Safe(AdvanceMovers(s, kind))
<1> DEFINE moved == Cycled(s, kind)
           set == Firing(s, kind)
           Release(acc, e) ==
             FireTarget(Capture(acc, e, Nobody), e,
                   IF acc.captured[e] = Nobody THEN e ELSE acc.captured[e], 0, "toggle")
<1>0. Safe(moved)
  <2>1. SameLedger(s, moved)
    BY SMTT(40) DEF Cycled, Safe, Shape, Fields, SameLedger
  <2> HIDE DEF moved
  <2> QED BY <2>1, LedgerSafe
<1>a. AdvanceMovers(s, kind) = ForEach(Release, set, moved)
  BY DEF AdvanceMovers
<1>b. \A e \in set : world[e].kind = kind
  BY ZenonT(40) DEF Firing, Live, OfKind
<1> HIDE DEF set, moved, Release
<1> SUFFICES ASSUME set # {} PROVE Safe(ForEach(Release, set, moved))
  BY ZenonT(40), <1>0, <1>a DEF ForEach
<1> DEFINE s0 == moved
           n == Len(world)
           B(acc, i) == IF i \in set THEN Release(acc, i) ELSE acc
           Run(k, f) == f = [i \in 0..k |-> IF i = 0 THEN s0 ELSE B(f[i - 1], i)]
           after == CHOOSE f : Run(n, f)
<1>1. n \in Nat
  BY WorldIsFinite
<1>2. Run(n, after)
  <2> HIDE DEF B, s0, n
  <2> DEFINE S == {k \in Nat : \E f : Run(k, f)}
  <2>1. 0 \in S
    <3>1. Run(0, [i \in 0..0 |-> s0])
      OBVIOUS
    <3> QED BY <3>1
  <2>2. ASSUME NEW k \in Nat, k \in S PROVE k + 1 \in S
    <3>1. PICK f : Run(k, f)
      BY <2>2
    <3> DEFINE g == [i \in 0..(k + 1) |-> IF i <= k THEN f[i] ELSE B(f[k], i)]
    <3>2. Run(k + 1, g)
      BY <3>1
    <3> HIDE DEF g, Run
    <3> QED BY <3>2
  <2> HIDE DEF S
  <2>3. n \in S
    BY <1>1, <2>1, <2>2, Induction
  <2> QED BY <2>3 DEF S
<1>3. Safe(s0)
  BY <1>0
<1>4. Safe(after[n])
  <2> HIDE DEF B, s0, n, after
  <2> DEFINE S == {i \in Nat : i <= n => Safe(after[i])}
  <2>1. 0 \in S
    BY <1>1, <1>2, <1>3
  <2>2. ASSUME NEW i \in Nat, i \in S PROVE i + 1 \in S
    <3> SUFFICES ASSUME i + 1 <= n PROVE Safe(after[(i + 1)])
      OBVIOUS
    <3>1. after[i + 1] = B(after[i], i + 1)
      BY <1>1, <1>2
    <3>2. Safe(after[i]) /\ i + 1 \in 1..n
      BY <1>1, <2>2
    <3>3. i + 1 \in Entities
      BY <3>2, WorldIsFinite DEF n
    <3>4. i + 1 \in set => Safe(Release(after[i], i + 1))
      <4> DEFINE acc == Capture(after[i], i + 1, Nobody)
      <4>1. SameLedger(after[i], acc)
        BY <3>2 DEF Safe, Shape, Fields, SameLedger, Capture
      <4>2. Safe(acc)
        BY <3>2, <4>1, LedgerSafe
      <4>3. i + 1 \in set => Fresh(acc, i + 1)
        BY <1>b, OneShotKinds DEF Fresh, MoverKinds
      <4> HIDE DEF acc
      <4> QED BY <3>3, <4>2, <4>3, FireTargetSafe DEF acc, Release
    <3> QED BY <3>1, <3>2, <3>4 DEF B
  <2> HIDE DEF S
  <2>3. n \in S
    BY <1>1, <2>1, <2>2, Induction
  <2> QED BY <1>1, <2>3 DEF S
<1> QED BY <1>4 DEF ForEach, Loop

LEMMA MonsterTouchSafe ==
    ASSUME World, NEW s, Safe(s)
    PROVE  Safe(MonsterTouchesDoors(s))
<1> DEFINE now == Touched("door", s.monster)
           edge == now \ s.monsterTouch
           set == OfKind({"monster"})
           t == ForEach(LAMBDA acc, m : ActivateEach(acc, edge, m), set, s)
<1>0. Safe(t) => Safe([t EXCEPT !.monsterTouch = now])
  <2> HIDE DEF t
  <2>1. Safe(t) => SameLedger(t, [t EXCEPT !.monsterTouch = now])
    BY DEF Safe, Shape, Fields, SameLedger
  <2> QED BY <2>1, LedgerSafe
<1> HIDE DEF t, edge, set
<1> SUFFICES Safe(t)
  BY ZenonT(40), <1>0 DEF MonsterTouchesDoors, t, edge, set
<1> SUFFICES ASSUME set # {} PROVE Safe(t)
  BY ZenonT(40) DEF t, ForEach
<1> DEFINE s0 == s
           n == Len(world)
           B(acc, i) == IF i \in set THEN ActivateEach(acc, edge, i) ELSE acc
           Run(k, f) == f = [i \in 0..k |-> IF i = 0 THEN s0 ELSE B(f[i - 1], i)]
           after == CHOOSE f : Run(n, f)
<1>1. n \in Nat
  BY WorldIsFinite
<1>2. Run(n, after)
  <2> HIDE DEF B, s0, n
  <2> DEFINE S == {k \in Nat : \E f : Run(k, f)}
  <2>1. 0 \in S
    <3>1. Run(0, [i \in 0..0 |-> s0])
      OBVIOUS
    <3> QED BY <3>1
  <2>2. ASSUME NEW k \in Nat, k \in S PROVE k + 1 \in S
    <3>1. PICK f : Run(k, f)
      BY <2>2
    <3> DEFINE g == [i \in 0..(k + 1) |-> IF i <= k THEN f[i] ELSE B(f[k], i)]
    <3>2. Run(k + 1, g)
      BY <3>1
    <3> HIDE DEF g, Run
    <3> QED BY <3>2
  <2> HIDE DEF S
  <2>3. n \in S
    BY <1>1, <2>1, <2>2, Induction
  <2> QED BY <2>3 DEF S
<1>3. Safe(s0)
  OBVIOUS
<1>4. Safe(after[n])
  <2> HIDE DEF B, s0, n, after
  <2> DEFINE S == {i \in Nat : i <= n => Safe(after[i])}
  <2>1. 0 \in S
    BY <1>1, <1>2, <1>3
  <2>2. ASSUME NEW i \in Nat, i \in S PROVE i + 1 \in S
    <3> SUFFICES ASSUME i + 1 <= n PROVE Safe(after[(i + 1)])
      OBVIOUS
    <3>1. after[i + 1] = B(after[i], i + 1)
      BY <1>1, <1>2
    <3>2. Safe(after[i]) /\ i + 1 \in 1..n
      BY <1>1, <2>2
    <3> QED BY <3>1, <3>2, ActivateEachSafe DEF B, ActivateEach
  <2> HIDE DEF S
  <2>3. n \in S
    BY <1>1, <2>1, <2>2, Induction
  <2> QED BY <1>1, <2>3 DEF S
<1> QED BY <1>4 DEF t, ForEach, Loop

LEMMA TouchBreakablesSafe ==
    ASSUME World, NEW s, Safe(s)
    PROVE  Safe(TouchBreakables(s))
<1> DEFINE set == {e \in Touched("breakable", s.pos) : e \notin s.broken}
<1> SUFFICES ASSUME set # {} PROVE Safe(TouchBreakables(s))
  BY ZenonT(40) DEF TouchBreakables, ForEach
<1> DEFINE s0 == s
           n == Len(world)
           B(acc, i) == IF i \in set THEN BreakEntity(acc, i, Player) ELSE acc
           Run(k, f) == f = [i \in 0..k |-> IF i = 0 THEN s0 ELSE B(f[i - 1], i)]
           after == CHOOSE f : Run(n, f)
<1>1. n \in Nat
  BY WorldIsFinite
<1>2. Run(n, after)
  <2> HIDE DEF B, s0, n
  <2> DEFINE S == {k \in Nat : \E f : Run(k, f)}
  <2>1. 0 \in S
    <3>1. Run(0, [i \in 0..0 |-> s0])
      OBVIOUS
    <3> QED BY <3>1
  <2>2. ASSUME NEW k \in Nat, k \in S PROVE k + 1 \in S
    <3>1. PICK f : Run(k, f)
      BY <2>2
    <3> DEFINE g == [i \in 0..(k + 1) |-> IF i <= k THEN f[i] ELSE B(f[k], i)]
    <3>2. Run(k + 1, g)
      BY <3>1
    <3> HIDE DEF g, Run
    <3> QED BY <3>2
  <2> HIDE DEF S
  <2>3. n \in S
    BY <1>1, <2>1, <2>2, Induction
  <2> QED BY <2>3 DEF S
<1>3. Safe(s0)
  OBVIOUS
<1>4. Safe(after[n])
  <2> HIDE DEF B, s0, n, after
  <2> DEFINE S == {i \in Nat : i <= n => Safe(after[i])}
  <2>1. 0 \in S
    BY <1>1, <1>2, <1>3
  <2>2. ASSUME NEW i \in Nat, i \in S PROVE i + 1 \in S
    <3> SUFFICES ASSUME i + 1 <= n PROVE Safe(after[(i + 1)])
      OBVIOUS
    <3>1. after[i + 1] = B(after[i], i + 1)
      BY <1>1, <1>2
    <3>2. Safe(after[i]) /\ i + 1 \in 1..n
      BY <1>1, <2>2
    <3>3. i + 1 \in Entities
      BY <3>2, WorldIsFinite DEF n
    <3>4. i + 1 \in set => world[i + 1].kind = "breakable"
      BY DEF Touched, Touchable, OfKind
    <3> HIDE DEF set
    <3> QED BY <3>1, <3>2, <3>3, <3>4, BreakSafe DEF B
  <2> HIDE DEF S
  <2>3. n \in S
    BY <1>1, <2>1, <2>2, Induction
  <2> QED BY <1>1, <2>3 DEF S
<1> QED BY <1>4 DEF TouchBreakables, ForEach, Loop

LEMMA TouchChangelevelSafe ==
    ASSUME World, NEW s, Safe(s)
    PROVE  Safe(TouchChangelevel(s))
<1> DEFINE inside == Touched("changelevel", s.pos)
           t == [s EXCEPT !.level = [e \in Entities |->
              CASE e \notin Touchable("changelevel") -> @[e]
                [] e \in inside -> "in"
                [] OTHER -> "out"]]
           set == {e \in inside : Enters(s, e)}
<1>0. Safe(t)
  <2>1. SameLedger(s, t)
    BY DEF Safe, Shape, Fields, SameLedger
  <2> HIDE DEF t
  <2> QED BY <2>1, LedgerSafe
<1> SUFFICES ASSUME set # {} PROVE Safe(TouchChangelevel(s))
  BY ZenonT(40), <1>0 DEF TouchChangelevel, ForEach
<1> DEFINE s0 == t
           n == Len(world)
           B(acc, i) == IF i \in set THEN RaiseChange(acc, i) ELSE acc
           Run(k, f) == f = [i \in 0..k |-> IF i = 0 THEN s0 ELSE B(f[i - 1], i)]
           after == CHOOSE f : Run(n, f)
<1>1. n \in Nat
  BY WorldIsFinite
<1>2. Run(n, after)
  <2> HIDE DEF B, s0, n
  <2> DEFINE S == {k \in Nat : \E f : Run(k, f)}
  <2>1. 0 \in S
    <3>1. Run(0, [i \in 0..0 |-> s0])
      OBVIOUS
    <3> QED BY <3>1
  <2>2. ASSUME NEW k \in Nat, k \in S PROVE k + 1 \in S
    <3>1. PICK f : Run(k, f)
      BY <2>2
    <3> DEFINE g == [i \in 0..(k + 1) |-> IF i <= k THEN f[i] ELSE B(f[k], i)]
    <3>2. Run(k + 1, g)
      BY <3>1
    <3> HIDE DEF g, Run
    <3> QED BY <3>2
  <2> HIDE DEF S
  <2>3. n \in S
    BY <1>1, <2>1, <2>2, Induction
  <2> QED BY <2>3 DEF S
<1>3. Safe(s0)
  BY <1>0
<1>4. Safe(after[n])
  <2> HIDE DEF B, s0, n, after
  <2> DEFINE S == {i \in Nat : i <= n => Safe(after[i])}
  <2>1. 0 \in S
    BY <1>1, <1>2, <1>3
  <2>2. ASSUME NEW i \in Nat, i \in S PROVE i + 1 \in S
    <3> SUFFICES ASSUME i + 1 <= n PROVE Safe(after[(i + 1)])
      OBVIOUS
    <3>1. after[i + 1] = B(after[i], i + 1)
      BY <1>1, <1>2
    <3>2. Safe(after[i]) /\ i + 1 \in 1..n
      BY <1>1, <2>2
    <3>3. i + 1 \in Entities
      BY <3>2, WorldIsFinite DEF n
    <3>4. i + 1 \in set => world[i + 1].kind = "changelevel"
      BY DEF Touched, Touchable, OfKind
    <3> HIDE DEF set
    <3> QED BY <3>1, <3>2, <3>3, <3>4, RaiseSafe DEF B
  <2> HIDE DEF S
  <2>3. n \in S
    BY <1>1, <2>1, <2>2, Induction
  <2> QED BY <1>1, <2>3 DEF S
<1> QED BY <1>4 DEF TouchChangelevel, ForEach, Loop

LEMMA TouchTriggersSafe ==
    ASSUME World, NEW s, Safe(s)
    PROVE  Safe(TouchTriggers(s))
<1> DEFINE inside == {e \in OfKind(TriggerKinds) : Overlaps(e, s.pos)}
           teleports == {e \in inside : world[e].kind = "teleport" /\ MasterIsActive(s, e)}
           plain == {e \in inside : world[e].kind # "teleport"}
           set == plain \cup (teleports \ s.telTouch)
           Touch(acc, e) ==
             IF world[e].kind = "endsection" /\ CanTrigger(acc, e, Player)
             THEN Sends(ActivateTrigger(acc, e, Player), e)
             ELSE ActivateTrigger(acc, e, Player)
           r == [s EXCEPT !.telTouch = teleports]
           t == ForEach(Touch, set, r)
<1>0. Safe(r)
  <2>1. SameLedger(s, r)
    BY DEF Safe, Shape, Fields, SameLedger
  <2> HIDE DEF r
  <2> QED BY <2>1, LedgerSafe
<1>a. Safe(t)
  <2> SUFFICES ASSUME set # {} PROVE Safe(t)
    BY ZenonT(40), <1>0 DEF ForEach
<2> DEFINE s0 == r
             n == Len(world)
             B(acc, i) == IF i \in set THEN Touch(acc, i) ELSE acc
             Run(k, f) == f = [i \in 0..k |-> IF i = 0 THEN s0 ELSE B(f[i - 1], i)]
             after == CHOOSE f : Run(n, f)
  <2>1. n \in Nat
    BY WorldIsFinite
  <2>2. Run(n, after)
    <3> HIDE DEF B, s0, n
    <3> DEFINE S == {k \in Nat : \E f : Run(k, f)}
    <3>1. 0 \in S
      <4>1. Run(0, [i \in 0..0 |-> s0])
        OBVIOUS
      <4> QED BY <4>1
    <3>2. ASSUME NEW k \in Nat, k \in S PROVE k + 1 \in S
      <4>1. PICK f : Run(k, f)
        BY <3>2
      <4> DEFINE g == [i \in 0..(k + 1) |-> IF i <= k THEN f[i] ELSE B(f[k], i)]
      <4>2. Run(k + 1, g)
        BY <4>1
      <4> HIDE DEF g, Run
      <4> QED BY <4>2
    <3> HIDE DEF S
    <3>3. n \in S
      BY <2>1, <3>1, <3>2, Induction
    <3> QED BY <3>3 DEF S
  <2>3. Safe(s0)
    BY <1>0
  <2>4. Safe(after[n])
    <3> HIDE DEF B, s0, n, after
    <3> DEFINE S == {i \in Nat : i <= n => Safe(after[i])}
    <3>1. 0 \in S
      BY <2>1, <2>2, <2>3
    <3>2. ASSUME NEW i \in Nat, i \in S PROVE i + 1 \in S
      <4> SUFFICES ASSUME i + 1 <= n PROVE Safe(after[(i + 1)])
        OBVIOUS
      <4>1. after[i + 1] = B(after[i], i + 1)
        BY <2>1, <2>2
      <4>2. Safe(after[i]) /\ i + 1 \in 1..n
        BY <2>1, <3>2
      <4>3. i + 1 \in Entities
        BY <4>2, WorldIsFinite DEF n
      <4>4. ASSUME i + 1 \in set PROVE Safe(Touch(after[i], i + 1))
        <5>1. world[i + 1].kind \in TriggerKinds
          BY <4>4 DEF OfKind
        <5>2. Safe(ActivateTrigger(after[i], i + 1, Player))
          BY <4>2, <4>3, <5>1, TriggerSafe
        <5>3. world[i + 1].kind = "endsection" => i + 1 \notin OneShots
          BY OneShotKinds
        <5> QED BY <4>3, <5>2, <5>3, SendsSafe DEF Fresh
      <4> HIDE DEF set, Touch
      <4> QED BY <4>1, <4>2, <4>4 DEF B
    <3> HIDE DEF S
    <3>3. n \in S
      BY <2>1, <3>1, <3>2, Induction
    <3> QED BY <2>1, <3>3 DEF S
  <2> QED BY <2>4 DEF ForEach, Loop
<1>b. ASSUME NEW q, Safe(q) PROVE Safe(TouchRotButtons(q)) /\ Safe(TouchPlatrots(q))
  <2>1. ASSUME NEW set1, NEW who, NEW now
        PROVE LET p == ActivateEach(q, set1, who)
              IN Safe([p EXCEPT !.rotTouch = now]) /\ Safe([p EXCEPT !.platTouch = now])
    <3> DEFINE p == ActivateEach(q, set1, who)
    <3>1. Safe(p)
      BY <1>b, ActivateEachSafe DEF ActivateEach
    <3> HIDE DEF p
    <3>2. SameLedger(p, [p EXCEPT !.rotTouch = now]) /\ SameLedger(p, [p EXCEPT !.platTouch = now])
      BY <3>1 DEF Safe, Shape, Fields, SameLedger
    <3>3. Safe([p EXCEPT !.rotTouch = now]) /\ Safe([p EXCEPT !.platTouch = now])
      BY <3>1, <3>2, LedgerSafe
    <3> QED BY <3>3 DEF p
  <2> QED BY <2>1 DEF TouchRotButtons, TouchPlatrots
<1> HIDE DEF t
<1>c. Safe(TouchPlatrots(TouchBreakables(TouchRotButtons(TouchChangelevel(t)))))
  BY <1>a, <1>b, TouchChangelevelSafe, TouchBreakablesSafe
<1> QED BY ZenonT(40), <1>c DEF TouchTriggers, t

LEMMA FirstIsLeast ==
    ASSUME NEW set, set # {}, set \subseteq Nat
    PROVE  FirstOf(set) \in set /\ \A f \in set : FirstOf(set) <= f
<1>1. Below = OpToRel(<, Nat)
  BY DEF Below, OpToRel
<1>2. IsWellFoundedOn(Below, Nat)
  BY ZenonT(40), <1>1, NatLessThanWellFounded
<1>3. PICK e \in set : \A f \in set : <<f, e>> \notin Below
  BY <1>2, WFMin
<1>4. ASSUME NEW f \in set PROVE e <= f
  <2>1. f \in Nat /\ e \in Nat /\ (f < e => <<f, e>> \in Below)
    BY DEF Below
  <2> QED BY <1>3, <2>1
<1>5. \E m \in set : \A f \in set : m <= f
  BY <1>3, <1>4
<1> QED BY <1>5 DEF FirstOf

LEMMA PressUseSafe ==
    ASSUME World, NEW s, Safe(s)
    PROVE  Safe(PressUse(s))
<1> DEFINE near == {e \in Usable : Overlaps(e, s.pos)}
<1>1. near \subseteq Entities /\ near \subseteq Nat
  BY WorldIsFinite DEF Usable, OfKind
<1> HIDE DEF near
<1>2. near # {} => FirstOf(near) \in Entities
  BY <1>1, FirstIsLeast
<1> QED BY <1>2, ActivateSafe DEF PressUse, Activate, near

LEMMA FirePlayerSpawnSafe ==
    ASSUME World, NEW s, Safe(s)
    PROVE  Safe(FirePlayerSpawn(s))
<1>1. SameLedger(s, [s EXCEPT !.spawnFired = TRUE])
  BY DEF Safe, Shape, Fields, SameLedger
<1>2. Safe([s EXCEPT !.spawnFired = TRUE])
  BY <1>1, LedgerSafe
<1> QED BY <1>2, ActivateEachSafe DEF FirePlayerSpawn, ActivateEach

(* Each auto trigger is marked as fired when it fires, and visited once. *)
LEMMA FireAutoTriggersSafe ==
    ASSUME World, NEW s, Safe(s)
    PROVE  Safe(FireAutoTriggers(s))
<1> DEFINE set == {e \in Live(s, {"auto"}) \ s.autoFired : world[e].target # ""}
           Start(acc, e) ==
             LET t == FireTarget([acc EXCEPT !.autoFired = @ \cup {e}], e, e,
                                 world[e].delay, world[e].use)
             IN IF world[e].remove THEN [t EXCEPT !.alive = @ \ {e}] ELSE t
<1>a. FireAutoTriggers(s) = ForEach(Start, set, s)
  BY DEF FireAutoTriggers
<1>b. \A e \in set : world[e].kind = "auto" /\ e \notin s.autoFired
  BY ZenonT(40) DEF Firing, Live, OfKind
<1>c. set \subseteq Nat
  <2>1. set \subseteq Entities
    BY ZenonT(40) DEF Firing, Live, OfKind
  <2> HIDE DEF set
  <2> QED BY <2>1, WorldIsFinite
<1> HIDE DEF set, Start
<1> SUFFICES ASSUME set # {} PROVE Safe(ForEach(Start, set, s))
  BY ZenonT(40), <1>a DEF ForEach
<1> DEFINE s0 == s
           n == Len(world)
           B(acc, i) == IF i \in set THEN Start(acc, i) ELSE acc
           Run(k, f) == f = [i \in 0..k |-> IF i = 0 THEN s0 ELSE B(f[i - 1], i)]
           after == CHOOSE f : Run(n, f)
<1>1. n \in Nat
  BY WorldIsFinite
<1>2. Run(n, after)
  <2> HIDE DEF B, s0, n
  <2> DEFINE S == {k \in Nat : \E f : Run(k, f)}
  <2>1. 0 \in S
    <3>1. Run(0, [i \in 0..0 |-> s0])
      OBVIOUS
    <3> QED BY <3>1
  <2>2. ASSUME NEW k \in Nat, k \in S PROVE k + 1 \in S
    <3>1. PICK f : Run(k, f)
      BY <2>2
    <3> DEFINE g == [i \in 0..(k + 1) |-> IF i <= k THEN f[i] ELSE B(f[k], i)]
    <3>2. Run(k + 1, g)
      BY <3>1
    <3> HIDE DEF g, Run
    <3> QED BY <3>2
  <2> HIDE DEF S
  <2>3. n \in S
    BY <1>1, <2>1, <2>2, Induction
  <2> QED BY <2>3 DEF S
<1>3. Safe(s0)
  OBVIOUS
<1>4. (Safe(after[n]) /\ \A j \in set : j > n => j \notin after[n].autoFired)
  <2> HIDE DEF B, s0, n, after
  <2> DEFINE S == {i \in Nat : i <= n => (Safe(after[i]) /\ \A j \in set : j > i => j \notin after[i].autoFired)}
  <2>1. 0 \in S
    BY <1>1, <1>2, <1>3, <1>b DEF s0
  <2>2. ASSUME NEW i \in Nat, i \in S PROVE i + 1 \in S
    <3> SUFFICES ASSUME i + 1 <= n PROVE (Safe(after[(i + 1)]) /\ \A j \in set : j > (i + 1) => j \notin after[(i + 1)].autoFired)
      OBVIOUS
    <3>1. after[i + 1] = B(after[i], i + 1)
      BY <1>1, <1>2
    <3>2. (Safe(after[i]) /\ \A j \in set : j > i => j \notin after[i].autoFired) /\ i + 1 \in 1..n
      BY <1>1, <2>2
    <3>3. i + 1 \in Entities
      BY <3>2, WorldIsFinite DEF n
    <3> DEFINE e == i + 1
               acc == after[i]
    <3> HIDE DEF e, acc
    <3>4. ASSUME e \in set
          PROVE  /\ Safe(Start(acc, e))
                 /\ Start(acc, e).autoFired = acc.autoFired \cup {e}
      <4> DEFINE t == [acc EXCEPT !.autoFired = @ \cup {e}]
                 u == FireTarget(t, e, e, world[e].delay, world[e].use)
      <4>1. /\ Shape(t) /\ t.sent = acc.sent /\ t.used = acc.used /\ t.consumed = acc.consumed
            /\ t.autoFired = acc.autoFired \cup {e} /\ t.broken = acc.broken
            /\ t.alive = acc.alive /\ t.fires = acc.fires
        BY <3>2 DEF Safe, Shape, Fields, acc
      <4> HIDE DEF t
      <4>2. \A d \in OneShots : IsSpent(acc, d) => IsSpent(t, d)
        BY <4>1, Zenon DEF IsSpent
      <4>3. Safe(t)
        BY <3>2, <4>1, <4>2 DEF Safe, Spent, Counted, acc
      <4>4. e \notin acc.autoFired /\ e \in Entities /\ world[e].kind = "auto"
        BY <1>1, <1>b, <3>2, <3>3, <3>4 DEF acc, e
      <4>5. Fresh(t, e)
        <5>1. e \in OneShots => acc.sent[e] <= 1 /\ acc.sent[e] \in Nat /\ ~IsSpent(acc, e)
          BY <3>2, <4>4 DEF Safe, Spent, Counted, IsSpent, acc
        <5>2. e \in OneShots => acc.sent[e] = 0
          BY <3>2, <5>1 DEF Safe, Spent, acc
        <5> QED BY <4>1, <4>4, <5>2 DEF Fresh, IsSpent
      <4>6. Safe(u) /\ u.autoFired = acc.autoFired \cup {e}
        BY <4>1, <4>3, <4>4, <4>5, FireTargetSafe
      <4> HIDE DEF u
      <4>7. Safe([u EXCEPT !.alive = @ \ {e}])
            /\ [u EXCEPT !.alive = @ \ {e}].autoFired = u.autoFired
        BY <4>6, RemovalSafe DEF Safe, Shape, Fields
      <4> QED BY <4>6, <4>7 DEF Start, u, t
    <3>5. Safe(after[i + 1])
      BY <3>1, <3>2, <3>4 DEF B, e, acc
    <3>6. ASSUME NEW j \in set, j > i + 1 PROVE j \notin after[i + 1].autoFired
      <4>1. j \notin acc.autoFired /\ j # e
        BY <3>2, <3>6, WorldIsFinite, <1>c DEF acc, e
      <4> QED BY <3>1, <3>4, <4>1 DEF B, e, acc
    <3> QED BY <3>5, <3>6
  <2> HIDE DEF S
  <2>3. n \in S
    BY <1>1, <2>1, <2>2, Induction
  <2> QED BY <1>1, <2>3 DEF S
<1> QED BY <1>4 DEF ForEach, Loop

LEMMA FireDueSafe ==
    ASSUME World, NEW s, Safe(s)
    PROVE  Safe(FireDue(s))
<1> DEFINE q == SubSeq([s.pending EXCEPT ![FirstOf(Due(s))] = s.pending[Len(s.pending)]],
                       1, Len(s.pending) - 1)
           rest == [s EXCEPT !.pending = q]
<1>1. SameLedger(s, rest)
  <2> HIDE DEF q
  <2> QED BY DEF Safe, Shape, Fields, SameLedger
<1>2. Safe(rest)
  BY <1>1, LedgerSafe
<1>3. \A set, who, use : Safe(ActivateEachWith(rest, set, who, use))
  BY <1>2, ActivateEachSafe
<1> QED BY <1>3 DEF FireDue

LEMMA AdvanceQueueSafe ==
    ASSUME World, NEW s, Safe(s)
    PROVE  Safe(AdvanceQueue(s))
<1> DEFINE t == [s EXCEPT !.pending = Nearer(@)]
<1> DEFINE s0 == t
           n == MaxEvents
           B(acc, i) == FireDue(acc)
           Run(k, f) == f = [i \in 0..k |-> IF i = 0 THEN s0 ELSE B(f[i - 1], i)]
           after == CHOOSE f : Run(n, f)
<1>1. n \in Nat
  BY MaxEventsAssumption
<1>2. Run(n, after)
  <2> HIDE DEF B, s0, n
  <2> DEFINE S == {k \in Nat : \E f : Run(k, f)}
  <2>1. 0 \in S
    <3>1. Run(0, [i \in 0..0 |-> s0])
      OBVIOUS
    <3> QED BY <3>1
  <2>2. ASSUME NEW k \in Nat, k \in S PROVE k + 1 \in S
    <3>1. PICK f : Run(k, f)
      BY <2>2
    <3> DEFINE g == [i \in 0..(k + 1) |-> IF i <= k THEN f[i] ELSE B(f[k], i)]
    <3>2. Run(k + 1, g)
      BY <3>1
    <3> HIDE DEF g, Run
    <3> QED BY <3>2
  <2> HIDE DEF S
  <2>3. n \in S
    BY <1>1, <2>1, <2>2, Induction
  <2> QED BY <2>3 DEF S
<1>3. Safe(s0)
  <2>1. SameLedger(s, t)
    BY DEF Safe, Shape, Fields, SameLedger
  <2> HIDE DEF t
  <2> QED BY <2>1, LedgerSafe
<1>4. Safe(after[n])
  <2> HIDE DEF B, s0, n, after
  <2> DEFINE S == {i \in Nat : i <= n => Safe(after[i])}
  <2>1. 0 \in S
    BY <1>1, <1>2, <1>3
  <2>2. ASSUME NEW i \in Nat, i \in S PROVE i + 1 \in S
    <3> SUFFICES ASSUME i + 1 <= n PROVE Safe(after[(i + 1)])
      OBVIOUS
    <3>1. after[i + 1] = B(after[i], i + 1)
      BY <1>1, <1>2
    <3>2. Safe(after[i]) /\ i + 1 \in 1..n
      BY <1>1, <2>2
    <3> QED BY <3>1, <3>2, FireDueSafe DEF B
  <2> HIDE DEF S
  <2>3. n \in S
    BY <1>1, <2>1, <2>2, Induction
  <2> QED BY <1>1, <2>3 DEF S
<1> QED BY <1>4 DEF AdvanceQueue, Loop

LEMMA ChangeEachSafe ==
    ASSUME World, NEW s, Safe(s), NEW set
    PROVE  Safe(ForEach(AdvanceTrackChange, set, s))
<1> SUFFICES ASSUME set # {} PROVE Safe(ForEach(AdvanceTrackChange, set, s))
  BY ZenonT(40) DEF ForEach
<1> DEFINE s0 == s
           n == Len(world)
           B(acc, i) == IF i \in set THEN AdvanceTrackChange(acc, i) ELSE acc
           Run(k, f) == f = [i \in 0..k |-> IF i = 0 THEN s0 ELSE B(f[i - 1], i)]
           after == CHOOSE f : Run(n, f)
<1>1. n \in Nat
  BY WorldIsFinite
<1>2. Run(n, after)
  <2> HIDE DEF B, s0, n
  <2> DEFINE S == {k \in Nat : \E f : Run(k, f)}
  <2>1. 0 \in S
    <3>1. Run(0, [i \in 0..0 |-> s0])
      OBVIOUS
    <3> QED BY <3>1
  <2>2. ASSUME NEW k \in Nat, k \in S PROVE k + 1 \in S
    <3>1. PICK f : Run(k, f)
      BY <2>2
    <3> DEFINE g == [i \in 0..(k + 1) |-> IF i <= k THEN f[i] ELSE B(f[k], i)]
    <3>2. Run(k + 1, g)
      BY <3>1
    <3> HIDE DEF g, Run
    <3> QED BY <3>2
  <2> HIDE DEF S
  <2>3. n \in S
    BY <1>1, <2>1, <2>2, Induction
  <2> QED BY <2>3 DEF S
<1>3. Safe(s0)
  OBVIOUS
<1>4. Safe(after[n])
  <2> HIDE DEF B, s0, n, after
  <2> DEFINE S == {i \in Nat : i <= n => Safe(after[i])}
  <2>1. 0 \in S
    BY <1>1, <1>2, <1>3
  <2>2. ASSUME NEW i \in Nat, i \in S PROVE i + 1 \in S
    <3> SUFFICES ASSUME i + 1 <= n PROVE Safe(after[(i + 1)])
      OBVIOUS
    <3>1. after[i + 1] = B(after[i], i + 1)
      BY <1>1, <1>2
    <3>2. Safe(after[i]) /\ i + 1 \in 1..n
      BY SMTT(40), <1>1, <2>2
    <3>3. SameLedger(after[i], AdvanceTrackChange(after[i], i + 1))
      <4> DEFINE acc == after[i]
                 e == i + 1
                 c == acc.change[e]
                 displaced == Least(Most(c.displaced + c.dir, 0), Span(e))
                 done == IF c.dir > 0 THEN displaced ELSE Span(e) - displaced
                 ends == displaced \notin {0, Span(e)}
                 t == [acc EXCEPT !.change[e].displaced = displaced, !.change[e].moving = ends]
                 carried == IF c.carrying /\ NamedTrain(e) # 0
                            THEN [t EXCEPT !.train[NamedTrain(e)].carry =
                                    ((c.to - c.from) * done) \div Span(e)]
                            ELSE t
      <4> HIDE DEF acc, e, displaced, ends
      <4>0. Shape(acc)
        BY <3>2 DEF Safe, acc
      <4>1. SameLedger(acc, t)
        <5> DEFINE u == [acc EXCEPT !.change[e].displaced = displaced]
        <5>1. SameLedger(acc, u)
          BY <4>0 DEF Shape, Fields, SameLedger
        <5>2. t = [u EXCEPT !.change[e].moving = ends]
          OBVIOUS
        <5> HIDE DEF u, t
        <5>3. SameLedger(u, t)
          BY SMTT(40), <5>1, <5>2 DEF Shape, Fields, SameLedger
        <5> QED BY <5>1, <5>3, SameLedgerTwice
      <4>2. SameLedger(t, carried)
        <5> HIDE DEF t
        <5> QED BY SMTT(40), <4>1 DEF Shape, Fields, SameLedger
      <4>3. SameLedger(acc, carried)
        <5> HIDE DEF t, carried
        <5> QED BY <4>1, <4>2, SameLedgerTwice
      <4> QED BY ZenonT(40), <4>3 DEF AdvanceTrackChange, acc, e, displaced, ends
    <3> QED BY <3>1, <3>2, <3>3, LedgerSafe DEF B
  <2> HIDE DEF S
  <2>3. n \in S
    BY <1>1, <2>1, <2>2, Induction
  <2> QED BY <1>1, <2>3 DEF S
<1> QED BY <1>4 DEF ForEach, Loop

LEMMA FinishEachSafe ==
    ASSUME World, NEW s, Safe(s), NEW set
    PROVE  Safe(ForEach(FinishTrackChange, set, s))
<1> SUFFICES ASSUME set # {} PROVE Safe(ForEach(FinishTrackChange, set, s))
  BY ZenonT(40) DEF ForEach
<1> DEFINE s0 == s
           n == Len(world)
           B(acc, i) == IF i \in set THEN FinishTrackChange(acc, i) ELSE acc
           Run(k, f) == f = [i \in 0..k |-> IF i = 0 THEN s0 ELSE B(f[i - 1], i)]
           after == CHOOSE f : Run(n, f)
<1>1. n \in Nat
  BY WorldIsFinite
<1>2. Run(n, after)
  <2> HIDE DEF B, s0, n
  <2> DEFINE S == {k \in Nat : \E f : Run(k, f)}
  <2>1. 0 \in S
    <3>1. Run(0, [i \in 0..0 |-> s0])
      OBVIOUS
    <3> QED BY <3>1
  <2>2. ASSUME NEW k \in Nat, k \in S PROVE k + 1 \in S
    <3>1. PICK f : Run(k, f)
      BY <2>2
    <3> DEFINE g == [i \in 0..(k + 1) |-> IF i <= k THEN f[i] ELSE B(f[k], i)]
    <3>2. Run(k + 1, g)
      BY <3>1
    <3> HIDE DEF g, Run
    <3> QED BY <3>2
  <2> HIDE DEF S
  <2>3. n \in S
    BY <1>1, <2>1, <2>2, Induction
  <2> QED BY <2>3 DEF S
<1>3. Safe(s0)
  OBVIOUS
<1>4. Safe(after[n])
  <2> HIDE DEF B, s0, n, after
  <2> DEFINE S == {i \in Nat : i <= n => Safe(after[i])}
  <2>1. 0 \in S
    BY <1>1, <1>2, <1>3
  <2>2. ASSUME NEW i \in Nat, i \in S PROVE i + 1 \in S
    <3> SUFFICES ASSUME i + 1 <= n PROVE Safe(after[(i + 1)])
      OBVIOUS
    <3>1. after[i + 1] = B(after[i], i + 1)
      BY <1>1, <1>2
    <3>2. Safe(after[i]) /\ i + 1 \in 1..n
      BY SMTT(40), <1>1, <2>2
    <3>3. SameLedger(after[i], FinishTrackChange(after[i], i + 1))
      <4>1. SameLedger(after[i], after[i])
        BY <3>2 DEF SameLedger, Safe
      <4> QED BY ZenonT(40), <4>1 DEF Shape, Fields, SameLedger, FinishTrackChange
    <3> QED BY <3>1, <3>2, <3>3, LedgerSafe DEF B
  <2> HIDE DEF S
  <2>3. n \in S
    BY <1>1, <2>1, <2>2, Induction
  <2> QED BY <1>1, <2>3 DEF S
<1> QED BY <1>4 DEF ForEach, Loop

LEMMA AdvanceTrackChangesSafe ==
    ASSUME World, NEW s, Safe(s)
    PROVE  Safe(AdvanceTrackChanges(s))
<1> DEFINE going == {e \in Live(s, {"trackchange"}) : s.change[e].moving}
           moved == ForEach(AdvanceTrackChange, going, s)
           arrived == {e \in going : ~moved.change[e].moving}
<1>1. AdvanceTrackChanges(s) = ForEach(FinishTrackChange, arrived, moved)
  BY DEF AdvanceTrackChanges
<1> HIDE DEF going, arrived
<1>2. Safe(moved)
  BY ChangeEachSafe
<1> HIDE DEF moved
<1> QED BY <1>1, <1>2, FinishEachSafe

LEMMA AdvanceCamerasSafe ==
    ASSUME World, NEW s, Safe(s)
    PROVE  Safe(AdvanceCameras(s))
<1> DEFINE set == {e \in Live(s, {"camera"}) : s.camera[e] \in {0, 1}}
           t == [s EXCEPT !.camera = [e \in Entities |->
              IF e \in set THEN -1 ELSE Most(@[e] - 1, -1)]]
<1>0. Safe(t)
  <2>1. SameLedger(s, t)
    BY DEF Safe, Shape, Fields, SameLedger
  <2> HIDE DEF t
  <2> QED BY <2>1, LedgerSafe
<1>a. AdvanceCameras(s) = ForEach(LAMBDA acc, e : FireTarget(acc, e, e, 0, "toggle"), set, t)
  BY DEF AdvanceCameras
<1>b. \A e \in set : world[e].kind = "camera"
  BY DEF Live, OfKind
<1> HIDE DEF set, t
<1> SUFFICES ASSUME set # {}
             PROVE Safe(ForEach(LAMBDA acc, e : FireTarget(acc, e, e, 0, "toggle"), set, t))
  BY ZenonT(40), <1>0, <1>a DEF ForEach
<1> DEFINE s0 == t
           n == Len(world)
           B(acc, i) == IF i \in set THEN FireTarget(acc, i, i, 0, "toggle") ELSE acc
           Run(k, f) == f = [i \in 0..k |-> IF i = 0 THEN s0 ELSE B(f[i - 1], i)]
           after == CHOOSE f : Run(n, f)
<1>1. n \in Nat
  BY WorldIsFinite
<1>2. Run(n, after)
  <2> HIDE DEF B, s0, n
  <2> DEFINE S == {k \in Nat : \E f : Run(k, f)}
  <2>1. 0 \in S
    <3>1. Run(0, [i \in 0..0 |-> s0])
      OBVIOUS
    <3> QED BY <3>1
  <2>2. ASSUME NEW k \in Nat, k \in S PROVE k + 1 \in S
    <3>1. PICK f : Run(k, f)
      BY <2>2
    <3> DEFINE g == [i \in 0..(k + 1) |-> IF i <= k THEN f[i] ELSE B(f[k], i)]
    <3>2. Run(k + 1, g)
      BY <3>1
    <3> HIDE DEF g, Run
    <3> QED BY <3>2
  <2> HIDE DEF S
  <2>3. n \in S
    BY <1>1, <2>1, <2>2, Induction
  <2> QED BY <2>3 DEF S
<1>3. Safe(s0)
  BY <1>0
<1>4. Safe(after[n])
  <2> HIDE DEF B, s0, n, after
  <2> DEFINE S == {i \in Nat : i <= n => Safe(after[i])}
  <2>1. 0 \in S
    BY <1>1, <1>2, <1>3
  <2>2. ASSUME NEW i \in Nat, i \in S PROVE i + 1 \in S
    <3> SUFFICES ASSUME i + 1 <= n PROVE Safe(after[(i + 1)])
      OBVIOUS
    <3>1. after[i + 1] = B(after[i], i + 1)
      BY <1>1, <1>2
    <3>2. Safe(after[i]) /\ i + 1 \in 1..n
      BY <1>1, <2>2
    <3>3. i + 1 \in Entities
      BY <3>2, WorldIsFinite DEF n
    <3>4. i + 1 \in set => Fresh(after[i], i + 1)
      BY <1>b, OneShotKinds DEF Fresh
    <3> QED BY <3>1, <3>2, <3>3, <3>4, FireTargetSafe DEF B
  <2> HIDE DEF S
  <2>3. n \in S
    BY <1>1, <2>1, <2>2, Induction
  <2> QED BY <1>1, <2>3 DEF S
<1> QED BY <1>4 DEF ForEach, Loop

(* A ride: what a train passes, fired in order. *)
FirePassed(s, e, fired) ==
  Loop(LAMBDA a, i : IF fired[i] = "" THEN a
                     ELSE Fire(Sends(a, e), fired[i], e, 0, "toggle"),
       Len(fired), s)

LEMMA FirePassedSafe ==
    ASSUME World, NEW s, Safe(s), NEW e \in Entities, world[e].kind = "train",
           NEW fired, Len(fired) \in Nat
    PROVE  Safe(FirePassed(s, e, fired))
<1> DEFINE s0 == s
           n == Len(fired)
           B(acc, i) == IF fired[i] = "" THEN acc ELSE Fire(Sends(acc, e), fired[i], e, 0, "toggle")
           Run(k, f) == f = [i \in 0..k |-> IF i = 0 THEN s0 ELSE B(f[i - 1], i)]
           after == CHOOSE f : Run(n, f)
<1>1. n \in Nat
  OBVIOUS
<1>2. Run(n, after)
  <2> HIDE DEF B, s0, n
  <2> DEFINE S == {k \in Nat : \E f : Run(k, f)}
  <2>1. 0 \in S
    <3>1. Run(0, [i \in 0..0 |-> s0])
      OBVIOUS
    <3> QED BY <3>1
  <2>2. ASSUME NEW k \in Nat, k \in S PROVE k + 1 \in S
    <3>1. PICK f : Run(k, f)
      BY <2>2
    <3> DEFINE g == [i \in 0..(k + 1) |-> IF i <= k THEN f[i] ELSE B(f[k], i)]
    <3>2. Run(k + 1, g)
      BY <3>1
    <3> HIDE DEF g, Run
    <3> QED BY <3>2
  <2> HIDE DEF S
  <2>3. n \in S
    BY <1>1, <2>1, <2>2, Induction
  <2> QED BY <2>3 DEF S
<1>3. Safe(s0)
  OBVIOUS
<1>4. Safe(after[n])
  <2> HIDE DEF B, s0, n, after
  <2> DEFINE S == {i \in Nat : i <= n => Safe(after[i])}
  <2>1. 0 \in S
    BY <1>1, <1>2, <1>3
  <2>2. ASSUME NEW i \in Nat, i \in S PROVE i + 1 \in S
    <3> SUFFICES ASSUME i + 1 <= n PROVE Safe(after[(i + 1)])
      OBVIOUS
    <3>1. after[i + 1] = B(after[i], i + 1)
      BY <1>1, <1>2
    <3>2. Safe(after[i]) /\ i + 1 \in 1..n
      BY <1>1, <2>2
    <3>3. Safe(Sends(after[i], e))
      BY <3>2, OneShotKinds, SendsSafe DEF Fresh
    <3>4. SameLedger(Sends(after[i], e), Fire(Sends(after[i], e), fired[i + 1], e, 0, "toggle"))
      BY <3>3, FireLedger DEF Safe
    <3>5. Safe(Fire(Sends(after[i], e), fired[i + 1], e, 0, "toggle"))
      BY <3>3, <3>4, LedgerSafe
    <3> QED BY ZenonT(40), <3>1, <3>2, <3>5 DEF B
  <2> HIDE DEF S
  <2>3. n \in S
    BY <1>1, <2>1, <2>2, Induction
  <2> QED BY <1>1, <2>3 DEF S
<1> QED BY ZenonT(40), <1>4 DEF FirePassed, Loop

(* The names a train fires are a sequence. *)
LEMMA RidesFire ==
    ASSUME NEW t
    PROVE  Len(AdvanceFiring(t).fired) \in Nat
<1> DEFINE wait == Most(t.wait - 1, 0)
           rest == [train |-> [t EXCEPT !.wait = wait], remaining |-> 0, fired |-> <<>>]
<1> HIDE DEF wait
<1>a. rest.fired = <<>> /\ [rest EXCEPT !.train = t].fired = <<>>
      /\ [rest EXCEPT !.remaining = t.speed].fired = <<>>
      /\ DOMAIN [rest EXCEPT !.remaining = t.speed] = {"train", "remaining", "fired"}
  OBVIOUS
<1> DEFINE s0 == [rest EXCEPT !.remaining = t.speed]
           n == MaxTransitions
           B(acc, i) == RideOn(acc, i)
           Run(k, f) == f = [i \in 0..k |-> IF i = 0 THEN s0 ELSE B(f[i - 1], i)]
           after == CHOOSE f : Run(n, f)
<1>1. n \in Nat
  BY MaxTransitionsAssumption
<1>2. Run(n, after)
  <2> HIDE DEF B, s0, n
  <2> DEFINE S == {k \in Nat : \E f : Run(k, f)}
  <2>1. 0 \in S
    <3>1. Run(0, [i \in 0..0 |-> s0])
      OBVIOUS
    <3> QED BY <3>1
  <2>2. ASSUME NEW k \in Nat, k \in S PROVE k + 1 \in S
    <3>1. PICK f : Run(k, f)
      BY <2>2
    <3> DEFINE g == [i \in 0..(k + 1) |-> IF i <= k THEN f[i] ELSE B(f[k], i)]
    <3>2. Run(k + 1, g)
      BY <3>1
    <3> HIDE DEF g, Run
    <3> QED BY <3>2
  <2> HIDE DEF S
  <2>3. n \in S
    BY <1>1, <2>1, <2>2, Induction
  <2> QED BY <2>3 DEF S
<1> DEFINE Fired(r) == \E S : r.fired \in Seq(S)
<1>3. Fired(s0)
  <2>1. s0.fired \in Seq({})
    BY <1>a
  <2> QED BY <2>1
<1>4. (after[n] = [x \in {"train", "remaining", "fired"} |-> after[n][x]] /\ Fired(after[n]))
  <2> HIDE DEF B, s0, n, after
  <2> DEFINE S == {i \in Nat : i <= n => (after[i] = [x \in {"train", "remaining", "fired"} |-> after[i][x]] /\ Fired(after[i]))}
  <2>1. 0 \in S
    BY <1>1, <1>2, <1>3 DEF s0
  <2>2. ASSUME NEW i \in Nat, i \in S PROVE i + 1 \in S
    <3> SUFFICES ASSUME i + 1 <= n PROVE (after[(i + 1)] = [x \in {"train", "remaining", "fired"} |-> after[(i + 1)][x]] /\ Fired(after[(i + 1)]))
      OBVIOUS
    <3>1. after[i + 1] = B(after[i], i + 1)
      BY <1>1, <1>2
    <3>2. (after[i] = [x \in {"train", "remaining", "fired"} |-> after[i][x]] /\ Fired(after[i])) /\ i + 1 \in 1..n
      BY <1>1, <2>2
    <3> DEFINE r == after[i]
    <3>3. PICK F : r.fired \in Seq(F)
      BY <3>2
    <3>4. \A name : Append(r.fired, name) \in Seq(F \cup {name})
      BY <3>3
    <3>5. r.fired \in Seq(F) /\ r = [x \in {"train", "remaining", "fired"} |-> r[x]]
      BY <3>2, <3>3
    <3> HIDE DEF r
    <3> DEFINE q == RideOn(r, i + 1)
    <3>6. q = [x \in {"train", "remaining", "fired"} |-> q[x]]
          /\ (q.fired = r.fired \/ \E name : q.fired = Append(r.fired, name))
      <4> DEFINE u == r.train
                 other == OtherIndex(u)
                 left == SegmentLen(u, other) - u.along
                 node == world[u.chain.nodes[other]]
                 stays == node.stop \/ node.wait > 0
                 Over == r.remaining <= 0 \/ ~u.moving
                 Ends == [u EXCEPT !.moving = FALSE, !.deadEndFired = TRUE]
                 Passes == [u EXCEPT !.node = other, !.along = 0,
                                 !.deadEndFired = FALSE,
                                 !.speed = IF node.speed # 0 THEN node.speed ELSE @,
                                 !.moving = ~node.stop,
                                 !.wait = IF ~node.stop /\ node.wait > 0 THEN node.wait ELSE @]
      <4>1. q = IF Over THEN r
                ELSE IF other = 0
                THEN [train |-> Ends, remaining |-> 0,
                      fired |-> IF u.deadEndFired THEN r.fired
                                ELSE Append(r.fired, world[u.chain.nodes[u.node]].deadEnd)]
                ELSE IF r.remaining >= left
                THEN [train |-> Passes,
                      remaining |-> IF stays THEN 0 ELSE r.remaining - left,
                      fired |-> Append(r.fired, node.message)]
                ELSE [r EXCEPT !.train.along = @ + r.remaining, !.remaining = 0]
        BY DEF RideOn
      <4> HIDE DEF q, u, other, left, node, stays, Over, Ends, Passes
      <4>2. CASE Over
        BY <3>5, <4>1, <4>2
      <4>3. CASE ~Over /\ other = 0
        BY <3>5, <4>1, <4>3
      <4>4. CASE ~Over /\ other # 0 /\ r.remaining >= left
        BY <3>5, <4>1, <4>4
      <4>5. CASE ~Over /\ other # 0 /\ ~(r.remaining >= left)
        BY <3>5, <4>1, <4>5
      <4> QED BY <4>2, <4>3, <4>4, <4>5
    <3> HIDE DEF q
    <3>7. Fired(q)
      BY <3>3, <3>4, <3>6
    <3> QED BY <3>1, <3>6, <3>7 DEF B, q, r
  <2> HIDE DEF S
  <2>3. n \in S
    BY <1>1, <2>1, <2>2, Induction
  <2> QED BY <1>1, <2>3 DEF S
<1>5. Len(after[n].fired) \in Nat
  <2> HIDE DEF after, n
  <2>1. PICK F : after[n].fired \in Seq(F)
    BY <1>4
  <2> QED BY <2>1
<1>6. after[n] = Loop(RideOn, MaxTransitions, [rest EXCEPT !.remaining = t.speed])
  BY DEF Loop
<1>7. Len(rest.fired) \in Nat /\ Len([rest EXCEPT !.train = t].fired) \in Nat
  BY <1>a
<1> HIDE DEF after, rest
<1> QED BY <1>5, <1>6, <1>7 DEF AdvanceFiring, rest, wait

LEMMA AdvanceTrainsSafe ==
    ASSUME World, NEW s, Safe(s)
    PROVE  Safe(AdvanceTrains(s))
<1> DEFINE set == Live(s, {"train"})
           ride == [e \in set |-> AdvanceFiring(s.train[e])]
           moved == [s EXCEPT !.train = [e \in DOMAIN @ |->
                       IF e \in set THEN ride[e].train ELSE @[e]]]
           arrived == {e \in set : ride[e].train.node # s.train[e].node}
           spliced == ResplicedTrains(moved, arrived)
           Passed(acc, e) ==
             Loop(LAMBDA a, i : IF ride[e].fired[i] = "" THEN a
                                ELSE Fire(Sends(a, e), ride[e].fired[i], e, 0, "toggle"),
                  Len(ride[e].fired), acc)
<1>a. AdvanceTrains(s) = ForEach(Passed, set, spliced)
  BY DEF AdvanceTrains
<1>b. \A e \in set : e \in Entities /\ world[e].kind = "train" /\ Len(ride[e].fired) \in Nat
  BY RidesFire DEF Live, OfKind
<1>0. Safe(spliced)
  <2>1. SameLedger(s, moved)
    BY DEF Safe, Shape, Fields, SameLedger
  <2> HIDE DEF moved, arrived
  <2>2. SameLedger(moved, spliced)
    BY <2>1 DEF Shape, Fields, SameLedger, ResplicedTrains
  <2> HIDE DEF spliced
  <2> QED BY SMTT(40), <2>1, <2>2, LedgerSafe
<1>c. ASSUME NEW acc, Safe(acc), NEW e \in set PROVE Safe(Passed(acc, e))
  <2> DEFINE fired == ride[e].fired
  <2>1. e \in Entities /\ world[e].kind = "train" /\ Len(fired) \in Nat
    BY <1>b
  <2> HIDE DEF fired
  <2>2. Safe(FirePassed(acc, e, fired))
    BY <1>c, <2>1, FirePassedSafe
  <2> QED BY ZenonT(40), <2>2 DEF FirePassed, fired
<1> HIDE DEF set, ride, spliced, Passed
<1> SUFFICES ASSUME set # {} PROVE Safe(ForEach(Passed, set, spliced))
  BY ZenonT(40), <1>0, <1>a DEF ForEach
<1> DEFINE s0 == spliced
           n == Len(world)
           B(acc, i) == IF i \in set THEN Passed(acc, i) ELSE acc
           Run(k, f) == f = [i \in 0..k |-> IF i = 0 THEN s0 ELSE B(f[i - 1], i)]
           after == CHOOSE f : Run(n, f)
<1>1. n \in Nat
  BY WorldIsFinite
<1>2. Run(n, after)
  <2> HIDE DEF B, s0, n
  <2> DEFINE S == {k \in Nat : \E f : Run(k, f)}
  <2>1. 0 \in S
    <3>1. Run(0, [i \in 0..0 |-> s0])
      OBVIOUS
    <3> QED BY <3>1
  <2>2. ASSUME NEW k \in Nat, k \in S PROVE k + 1 \in S
    <3>1. PICK f : Run(k, f)
      BY <2>2
    <3> DEFINE g == [i \in 0..(k + 1) |-> IF i <= k THEN f[i] ELSE B(f[k], i)]
    <3>2. Run(k + 1, g)
      BY <3>1
    <3> HIDE DEF g, Run
    <3> QED BY <3>2
  <2> HIDE DEF S
  <2>3. n \in S
    BY <1>1, <2>1, <2>2, Induction
  <2> QED BY <2>3 DEF S
<1>3. Safe(s0)
  BY <1>0
<1>4. Safe(after[n])
  <2> HIDE DEF B, s0, n, after
  <2> DEFINE S == {i \in Nat : i <= n => Safe(after[i])}
  <2>1. 0 \in S
    BY <1>1, <1>2, <1>3
  <2>2. ASSUME NEW i \in Nat, i \in S PROVE i + 1 \in S
    <3> SUFFICES ASSUME i + 1 <= n PROVE Safe(after[(i + 1)])
      OBVIOUS
    <3>1. after[i + 1] = B(after[i], i + 1)
      BY <1>1, <1>2
    <3>2. Safe(after[i]) /\ i + 1 \in 1..n
      BY <1>1, <2>2
    <3> QED BY <3>1, <3>2, <1>c DEF B
  <2> HIDE DEF S
  <2>3. n \in S
    BY <1>1, <2>1, <2>2, Induction
  <2> QED BY <1>1, <2>3 DEF S
<1> QED BY <1>4 DEF ForEach, Loop

LEMMA TickSafe ==
    ASSUME World, NEW s, Safe(s)
    PROVE  Safe(Tick(s))
<1> DEFINE fired == AdvanceQueue(FireAutoTriggers(FirePlayerSpawn(s)))
           pressed == AdvanceMovers(AdvanceMovers(AdvanceMovers(fired, "door"),
                                             "button"), "rotbutton")
           moved == AdvanceMovers(AdvanceMovers(pressed, "platform"), "platrot")
           rode == AdvanceCameras(AdvanceTrackChanges(AdvanceTrains(AdvanceRotators(moved))))
           seeded == SeedTeleportArrival(rode)
<1>1. Safe(fired)
  BY FirePlayerSpawnSafe, FireAutoTriggersSafe, AdvanceQueueSafe
<1> HIDE DEF fired
<1>2. Safe(pressed)
  BY <1>1, AdvanceMoversSafe DEF MoverKinds
<1> HIDE DEF pressed
<1>3. Safe(moved)
  BY <1>2, AdvanceMoversSafe DEF MoverKinds
<1> HIDE DEF moved
<1>4. Safe(AdvanceRotators(moved))
  <2>1. SameLedger(moved, AdvanceRotators(moved))
    BY <1>3 DEF Safe, Shape, Fields, SameLedger, AdvanceRotators
  <2> QED BY SMTT(40), <1>3, <2>1, LedgerSafe
<1>5. Safe(rode)
  BY <1>4, AdvanceTrainsSafe, AdvanceTrackChangesSafe, AdvanceCamerasSafe
<1> HIDE DEF rode
<1>6. Safe(seeded)
  <2>1. SameLedger(rode, seeded)
    BY ZenonT(40), <1>5 DEF Safe, Shape, Fields, SameLedger, SeedTeleportArrival
  <2> HIDE DEF seeded
  <2> QED BY <1>5, <2>1, LedgerSafe
<1> HIDE DEF seeded
<1>7. Safe([seeded EXCEPT !.cooldown = [e \in Entities |-> Most(@[e] - 1, 0)],
                          !.busy = [e \in Entities |-> Most(@[e] - 1, 0)]])
  <2>1. SameLedger(seeded, [seeded EXCEPT !.cooldown = [e \in Entities |-> Most(@[e] - 1, 0)],
                          !.busy = [e \in Entities |-> Most(@[e] - 1, 0)]])
    BY ZenonT(40), <1>6 DEF Safe, Shape, Fields, SameLedger
  <2> QED BY <1>6, <2>1, LedgerSafe
<1> QED BY <1>7 DEF Tick, fired, pressed, moved, rode, seeded

LEMMA DamageSafe ==
    ASSUME World, NEW s, Safe(s), NEW e \in Entities
    PROVE  Safe(Damage(s, e))
<1>1. ASSUME NEW v PROVE /\ Safe([s EXCEPT !.buttonHealth[e] = v])
                         /\ Safe([s EXCEPT !.health[e] = v])
  <2>1. /\ SameLedger(s, [s EXCEPT !.buttonHealth[e] = v])
        /\ SameLedger(s, [s EXCEPT !.health[e] = v])
    BY DEF Safe, Shape, Fields, SameLedger
  <2> QED BY <2>1, LedgerSafe
<1>2. Safe(DamageButton(s, e))
  BY <1>1, ActivateSafe DEF DamageButton, Activate
<1>3. world[e].kind = "breakable" => Safe(DamageBreakable(s, e))
  BY <1>1, BreakSafe DEF DamageBreakable
<1> QED BY <1>2, <1>3 DEF Damage

LEMMA Phase12Safe ==
    ASSUME World, NEW s, Safe(s), NEW input
    PROVE  Safe(Phase12(s, input))
<1> DEFINE here == [s EXCEPT !.pos = input.pos, !.monster = input.monster]
           used == IF input.use THEN PressUse(here) ELSE here
           touched == MonsterTouchesDoors(TouchDoors(used))
           blocked == BlockMovers(touched, input.blocked)
           ticked == Tick(TouchTriggers(blocked))
<1>1. Safe(here)
  <2>1. SameLedger(s, here)
    BY ZenonT(40) DEF Safe, Shape, Fields, SameLedger
  <2> HIDE DEF here
  <2> QED BY <2>1, LedgerSafe
<1> HIDE DEF here
<1>2. Safe(used)
  BY <1>1, PressUseSafe
<1> HIDE DEF used
<1>3. Safe(TouchDoors(used))
  <2> DEFINE now == Touched("door", used.pos)
             t == ActivateEach(used, now \ used.doorTouch, Nobody)
  <2>1. Safe(t)
    BY <1>2, ActivateEachSafe DEF ActivateEach
  <2> HIDE DEF t, now
  <2>2. SameLedger(t, [t EXCEPT !.doorTouch = now])
    BY <2>1 DEF Safe, Shape, Fields, SameLedger
  <2>3. Safe([t EXCEPT !.doorTouch = now])
    BY <2>1, <2>2, LedgerSafe
  <2> QED BY <2>3 DEF TouchDoors, t, now
<1>4. Safe(touched)
  BY <1>3, MonsterTouchSafe
<1> HIDE DEF touched
<1>5. Safe(blocked)
  <2>1. SameLedger(touched, blocked)
    BY <1>4 DEF Safe, Shape, Fields, SameLedger, BlockMovers
  <2> HIDE DEF blocked
  <2> QED BY <1>4, <2>1, LedgerSafe
<1> HIDE DEF blocked
<1>6. Safe(ticked)
  BY <1>5, TouchTriggersSafe, TickSafe
<1> HIDE DEF ticked
<1>7. Safe(ApplyTeleports(ticked))
  <2>1. SameLedger(ticked, ApplyTeleports(ticked))
    BY ZenonT(40), <1>6 DEF Safe, Shape, Fields, SameLedger, ApplyTeleports
  <2> QED BY <1>6, <2>1, LedgerSafe
<1> QED BY <1>7 DEF Phase12, here, used, touched, blocked, ticked

LEMMA FixedStepSafe ==
    ASSUME World, NEW s, Safe(s), NEW input
    PROVE  Safe(FixedStep(s, input))
<1> DEFINE set == input.shot \cap Damageable
           shot == ForEach(Damage, set, s)
<1>a. Safe(shot) => Safe(FixedStep(s, input))
  <2> HIDE DEF shot
  <2>1. Safe(shot) => Safe(Phase12(shot, input))
    BY Phase12Safe
  <2> QED BY <2>1 DEF FixedStep, shot
<1> HIDE DEF set
<1> SUFFICES ASSUME set # {} PROVE Safe(shot)
  BY ZenonT(40), <1>a DEF ForEach
<1> DEFINE s0 == s
           n == Len(world)
           B(acc, i) == IF i \in set THEN Damage(acc, i) ELSE acc
           Run(k, f) == f = [i \in 0..k |-> IF i = 0 THEN s0 ELSE B(f[i - 1], i)]
           after == CHOOSE f : Run(n, f)
<1>1. n \in Nat
  BY WorldIsFinite
<1>2. Run(n, after)
  <2> HIDE DEF B, s0, n
  <2> DEFINE S == {k \in Nat : \E f : Run(k, f)}
  <2>1. 0 \in S
    <3>1. Run(0, [i \in 0..0 |-> s0])
      OBVIOUS
    <3> QED BY <3>1
  <2>2. ASSUME NEW k \in Nat, k \in S PROVE k + 1 \in S
    <3>1. PICK f : Run(k, f)
      BY <2>2
    <3> DEFINE g == [i \in 0..(k + 1) |-> IF i <= k THEN f[i] ELSE B(f[k], i)]
    <3>2. Run(k + 1, g)
      BY <3>1
    <3> HIDE DEF g, Run
    <3> QED BY <3>2
  <2> HIDE DEF S
  <2>3. n \in S
    BY <1>1, <2>1, <2>2, Induction
  <2> QED BY <2>3 DEF S
<1>3. Safe(s0)
  OBVIOUS
<1>4. Safe(after[n])
  <2> HIDE DEF B, s0, n, after
  <2> DEFINE S == {i \in Nat : i <= n => Safe(after[i])}
  <2>1. 0 \in S
    BY <1>1, <1>2, <1>3
  <2>2. ASSUME NEW i \in Nat, i \in S PROVE i + 1 \in S
    <3> SUFFICES ASSUME i + 1 <= n PROVE Safe(after[(i + 1)])
      OBVIOUS
    <3>1. after[i + 1] = B(after[i], i + 1)
      BY <1>1, <1>2
    <3>2. Safe(after[i]) /\ i + 1 \in 1..n
      BY <1>1, <2>2
    <3>3. i + 1 \in Entities
      BY <3>2, WorldIsFinite DEF n
    <3> QED BY <3>1, <3>2, <3>3, DamageSafe DEF B
  <2> HIDE DEF S
  <2>3. n \in S
    BY <1>1, <2>1, <2>2, Induction
  <2> QED BY <1>1, <2>3 DEF S
<1> QED BY <1>4 DEF ForEach, Loop

-----------------------------------------------------------------------------
(* Loading and leaving. *)

LEMMA NewSafe ==
    ASSUME World, NEW spot, NEW monster
    PROVE  Safe(NewSimulation(spot, monster))
<1> DEFINE s == NewSimulation(spot, monster)
<1>1. Shape(s)
  BY DEF NewSimulation, Shape, Fields
<1>2. s.sent = [e \in Entities |-> 0] /\ s.fires = [e \in Entities |-> 0] /\ s.alive = Entities
  BY DEF NewSimulation
<1> HIDE DEF s
<1> QED BY <1>1, <1>2 DEF Safe, Counted, Spent, OneShots, s

LEMMA RestoreSafe ==
    ASSUME World, NEW s, Safe(s)
    PROVE  Safe(Restore(s))
<1> DEFINE fresh == [NewSimulation(s.pos, s.monster) EXCEPT !.sent = s.sent,
                                                            !.globals = s.globals]
           level == RestoreEntityCombat(RestoreSimulation(ApplySnapshots(fresh, s), s), s)
           movers == RestoreRotatingMovers(RestoreMovers(RestorePathStates(level, s), s), s)
           volumes == RestoreTeleportState(RestoreBreakables(movers, s), s)
           switches == RestoreSwitches(RestoreAmbients(RestorePlatrots(volumes, s), s), s)
<1>1. Shape(fresh) /\ fresh.sent = s.sent
  <2>1. Shape(NewSimulation(s.pos, s.monster))
    BY NewSafe DEF Safe
  <2> QED BY ZenonT(40), <2>1 DEF Shape, Fields
<1> HIDE DEF fresh
<1>2. Shape(level) /\ level.sent = s.sent /\ level.used = s.used /\ level.alive = s.alive
  BY ZenonT(40), <1>1 DEF Shape, Fields, RestoreEntityCombat, RestoreSimulation, ApplySnapshots
<1> HIDE DEF level
<1>3. /\ Shape(movers) /\ movers.sent = s.sent /\ movers.used = s.used /\ movers.alive = s.alive
      /\ movers.autoFired = s.autoFired
  <2> DEFINE paths == RestorePathStates(level, s)
             m == RestoreMovers(paths, s)
  <2>1. /\ Shape(paths) /\ paths.sent = s.sent /\ paths.used = s.used /\ paths.alive = s.alive
    BY ZenonT(40), <1>2 DEF Shape, Fields, RestorePathStates
  <2> HIDE DEF paths
  <2>2. /\ Shape(m) /\ m.sent = s.sent /\ m.used = s.used /\ m.alive = s.alive
        /\ m.autoFired = s.autoFired
    BY ZenonT(40), <2>1 DEF Shape, Fields, RestoreMovers, OverlayOn
  <2> HIDE DEF m
  <2>3. /\ Shape(RestoreRotatingMovers(m, s)) /\ RestoreRotatingMovers(m, s).sent = s.sent
        /\ RestoreRotatingMovers(m, s).used = s.used /\ RestoreRotatingMovers(m, s).alive = s.alive
        /\ RestoreRotatingMovers(m, s).autoFired = s.autoFired
    BY ZenonT(40), <2>2 DEF Shape, Fields, RestoreRotatingMovers
  <2> QED BY <2>3 DEF m, paths
<1> HIDE DEF movers
<1>4. /\ Shape(volumes) /\ volumes.sent = s.sent /\ volumes.used = s.used
      /\ volumes.alive = s.alive /\ volumes.autoFired = s.autoFired
      /\ volumes.broken = s.broken /\ volumes.fires = s.fires
  BY ZenonT(40), <1>3 DEF Shape, Fields, RestoreTeleportState, RestoreBreakables
<1> HIDE DEF volumes
<1>5. /\ Shape(switches) /\ switches.sent = s.sent /\ switches.used = s.used
      /\ switches.alive = s.alive /\ switches.autoFired = s.autoFired
      /\ switches.broken = s.broken /\ switches.fires = s.fires
  <2> DEFINE p == RestorePlatrots(volumes, s)
  <2>1. SameLedger(volumes, p)
    BY <1>4 DEF Shape, Fields, RestorePlatrots, SameLedger
  <2> HIDE DEF p
  <2>2. SameLedger(p, RestoreAmbients(p, s))
    BY <2>1 DEF Shape, Fields, RestoreAmbients, OverlayOn, SameLedger
  <2> DEFINE a == RestoreAmbients(p, s)
  <2> HIDE DEF a
  <2>3. SameLedger(a, RestoreSwitches(a, s))
    BY SMTT(40), <2>2 DEF Shape, Fields, RestoreSwitches, OverlayOn, SameLedger, a
  <2> QED BY <1>4, <2>1, <2>2, <2>3 DEF SameLedger, a, p
<1> HIDE DEF switches
<1>6. SameLedger(s, RestoreMapEffects(switches, s))
  <2> DEFINE c == RestoreUseContexts(switches, s)
             f == [c EXCEPT !.captured = s.captured, !.consumed = s.consumed]
  <2>1. SameLedger(switches, c)
    BY ZenonT(40), <1>5 DEF Shape, Fields, RestoreUseContexts, SameLedger
  <2> HIDE DEF c
  <2>2. SameLedger(s, f)
    BY ZenonT(40), <1>5, <2>1 DEF Shape, Fields, SameLedger
  <2> HIDE DEF f
  <2>3. SameLedger(f, OverlayOn(f, s, {"effect"}))
    BY <2>2 DEF Shape, Fields, SameLedger, OverlayOn
  <2>4. SameLedger(s, OverlayOn(f, s, {"effect"}))
    BY <2>2, <2>3, SameLedgerTwice
  <2> QED BY <2>4 DEF RestoreMapEffects, f, c
<1>7. Safe(RestoreMapEffects(switches, s))
  BY <1>6, LedgerSafe
<1> QED BY <1>7 DEF Restore, fresh, level, movers, volumes, switches

LEMMA OntoExistingSafe ==
    ASSUME NEW s, Safe(s), NEW e, NEW c
    PROVE  Safe(ApplyOntoExisting(s, e, c))
<1>1. SameLedger(s, [s EXCEPT !.mover[e] = c.mover])
  BY DEF Safe, Shape, Fields, SameLedger
<1>2. SameLedger(s, [s EXCEPT !.on = IF c.spinning THEN @ \cup {e} ELSE @ \ {e},
                              !.turned = IF c.turned THEN @ \cup {e} ELSE @ \ {e}])
  BY ZenonT(40) DEF Safe, Shape, Fields, SameLedger
<1>3. /\ Safe([s EXCEPT !.mover[e] = c.mover])
      /\ Safe([s EXCEPT !.on = IF c.spinning THEN @ \cup {e} ELSE @ \ {e},
                        !.turned = IF c.turned THEN @ \cup {e} ELSE @ \ {e}])
  BY <1>1, <1>2, LedgerSafe
<1> QED BY <1>3 DEF ApplyOntoExisting

LEMMA ApplyMoverSafe ==
    ASSUME World, NEW s, Safe(s), NEW c
    PROVE  Safe(ApplyMover(s, c))
<1> DEFINE set == Find(c.d.name)
<1> SUFFICES ASSUME set # {} PROVE Safe(ApplyMover(s, c))
  BY ZenonT(40) DEF ApplyMover, ForEach
<1> DEFINE s0 == s
           n == Len(world)
           B(acc, i) == IF i \in set THEN ApplyOntoExisting(acc, i, c) ELSE acc
           Run(k, f) == f = [i \in 0..k |-> IF i = 0 THEN s0 ELSE B(f[i - 1], i)]
           after == CHOOSE f : Run(n, f)
<1>1. n \in Nat
  BY WorldIsFinite
<1>2. Run(n, after)
  <2> HIDE DEF B, s0, n
  <2> DEFINE S == {k \in Nat : \E f : Run(k, f)}
  <2>1. 0 \in S
    <3>1. Run(0, [i \in 0..0 |-> s0])
      OBVIOUS
    <3> QED BY <3>1
  <2>2. ASSUME NEW k \in Nat, k \in S PROVE k + 1 \in S
    <3>1. PICK f : Run(k, f)
      BY <2>2
    <3> DEFINE g == [i \in 0..(k + 1) |-> IF i <= k THEN f[i] ELSE B(f[k], i)]
    <3>2. Run(k + 1, g)
      BY <3>1
    <3> HIDE DEF g, Run
    <3> QED BY <3>2
  <2> HIDE DEF S
  <2>3. n \in S
    BY <1>1, <2>1, <2>2, Induction
  <2> QED BY <2>3 DEF S
<1>3. Safe(s0)
  OBVIOUS
<1>4. Safe(after[n])
  <2> HIDE DEF B, s0, n, after
  <2> DEFINE S == {i \in Nat : i <= n => Safe(after[i])}
  <2>1. 0 \in S
    BY <1>1, <1>2, <1>3
  <2>2. ASSUME NEW i \in Nat, i \in S PROVE i + 1 \in S
    <3> SUFFICES ASSUME i + 1 <= n PROVE Safe(after[(i + 1)])
      OBVIOUS
    <3>1. after[i + 1] = B(after[i], i + 1)
      BY <1>1, <1>2
    <3>2. Safe(after[i]) /\ i + 1 \in 1..n
      BY <1>1, <2>2
    <3> QED BY <3>1, <3>2, OntoExistingSafe DEF B
  <2> HIDE DEF S
  <2>3. n \in S
    BY <1>1, <2>1, <2>2, Induction
  <2> QED BY <1>1, <2>3 DEF S
<1> QED BY <1>4 DEF ApplyMover, ForEach, Loop

LEMMA ApplyCarriedSafe ==
    ASSUME World, NEW s, Safe(s), NEW c
    PROVE  Safe(ApplyCarried(s, c))
<1> DEFINE set == {e \in Entities : c.d.global # "" /\ world[e].global = c.d.global}
           Seat(acc, e) ==
             LET put == ApplyOntoExisting(acc, e, c)
             IN IF world[e].kind # "train" \/ c.ride = {} THEN put
                ELSE [put EXCEPT !.train[e] =
                        RestoreTrackTrain(@, CHOOSE r \in c.ride : TRUE)]
<1>a. ApplyCarried(s, c) = IF set # {} THEN ForEach(Seat, set, s) ELSE ApplyMover(s, c)
  BY DEF ApplyCarried
<1>b. ASSUME NEW acc, Safe(acc), NEW e PROVE Safe(Seat(acc, e))
  <2> DEFINE put == ApplyOntoExisting(acc, e, c)
             ride == CHOOSE r \in c.ride : TRUE
  <2>1. Safe(put)
    BY <1>b, OntoExistingSafe
  <2> HIDE DEF put, ride
  <2>2. SameLedger(put, [put EXCEPT !.train[e] = RestoreTrackTrain(@, ride)])
    BY <2>1 DEF Safe, Shape, Fields, SameLedger
  <2>3. Safe([put EXCEPT !.train[e] = RestoreTrackTrain(@, ride)])
    BY <2>1, <2>2, LedgerSafe
  <2> QED BY <2>1, <2>3 DEF put, ride
<1> HIDE DEF set, Seat
<1> SUFFICES ASSUME set # {} PROVE Safe(ForEach(Seat, set, s))
  BY <1>a, ApplyMoverSafe
<1> DEFINE s0 == s
           n == Len(world)
           B(acc, i) == IF i \in set THEN Seat(acc, i) ELSE acc
           Run(k, f) == f = [i \in 0..k |-> IF i = 0 THEN s0 ELSE B(f[i - 1], i)]
           after == CHOOSE f : Run(n, f)
<1>1. n \in Nat
  BY WorldIsFinite
<1>2. Run(n, after)
  <2> HIDE DEF B, s0, n
  <2> DEFINE S == {k \in Nat : \E f : Run(k, f)}
  <2>1. 0 \in S
    <3>1. Run(0, [i \in 0..0 |-> s0])
      OBVIOUS
    <3> QED BY <3>1
  <2>2. ASSUME NEW k \in Nat, k \in S PROVE k + 1 \in S
    <3>1. PICK f : Run(k, f)
      BY <2>2
    <3> DEFINE g == [i \in 0..(k + 1) |-> IF i <= k THEN f[i] ELSE B(f[k], i)]
    <3>2. Run(k + 1, g)
      BY <3>1
    <3> HIDE DEF g, Run
    <3> QED BY <3>2
  <2> HIDE DEF S
  <2>3. n \in S
    BY <1>1, <2>1, <2>2, Induction
  <2> QED BY <2>3 DEF S
<1>3. Safe(s0)
  OBVIOUS
<1>4. Safe(after[n])
  <2> HIDE DEF B, s0, n, after
  <2> DEFINE S == {i \in Nat : i <= n => Safe(after[i])}
  <2>1. 0 \in S
    BY <1>1, <1>2, <1>3
  <2>2. ASSUME NEW i \in Nat, i \in S PROVE i + 1 \in S
    <3> SUFFICES ASSUME i + 1 <= n PROVE Safe(after[(i + 1)])
      OBVIOUS
    <3>1. after[i + 1] = B(after[i], i + 1)
      BY <1>1, <1>2
    <3>2. Safe(after[i]) /\ i + 1 \in 1..n
      BY <1>1, <2>2
    <3> QED BY <3>1, <3>2, <1>b DEF B
  <2> HIDE DEF S
  <2>3. n \in S
    BY <1>1, <2>1, <2>2, Induction
  <2> QED BY <1>1, <2>3 DEF S
<1> QED BY <1>4 DEF ForEach, Loop

\* Enter's two loops.
MovesIn(t, s) ==
  Loop(LAMBDA acc, i : IF i \in DOMAIN t.movers THEN ApplyMover(acc, t.movers[i]) ELSE acc,
       t.last, s)
CarriesIn(t, s) ==
  Loop(LAMBDA acc, i : IF i \in DOMAIN t.entities THEN ApplyCarried(acc, t.entities[i]) ELSE acc,
       t.last, s)

LEMMA MovesInSafe ==
    ASSUME World, NEW t, t.last \in Nat, NEW s, Safe(s)
    PROVE  Safe(MovesIn(t, s))
<1> DEFINE s0 == s
           n == t.last
           B(acc, i) == IF i \in DOMAIN t.movers THEN ApplyMover(acc, t.movers[i]) ELSE acc
           Run(k, f) == f = [i \in 0..k |-> IF i = 0 THEN s0 ELSE B(f[i - 1], i)]
           after == CHOOSE f : Run(n, f)
<1>1. n \in Nat
  OBVIOUS
<1>2. Run(n, after)
  <2> HIDE DEF B, s0, n
  <2> DEFINE S == {k \in Nat : \E f : Run(k, f)}
  <2>1. 0 \in S
    <3>1. Run(0, [i \in 0..0 |-> s0])
      OBVIOUS
    <3> QED BY <3>1
  <2>2. ASSUME NEW k \in Nat, k \in S PROVE k + 1 \in S
    <3>1. PICK f : Run(k, f)
      BY <2>2
    <3> DEFINE g == [i \in 0..(k + 1) |-> IF i <= k THEN f[i] ELSE B(f[k], i)]
    <3>2. Run(k + 1, g)
      BY <3>1
    <3> HIDE DEF g, Run
    <3> QED BY <3>2
  <2> HIDE DEF S
  <2>3. n \in S
    BY <1>1, <2>1, <2>2, Induction
  <2> QED BY <2>3 DEF S
<1>3. Safe(s0)
  OBVIOUS
<1>4. Safe(after[n])
  <2> HIDE DEF B, s0, n, after
  <2> DEFINE S == {i \in Nat : i <= n => Safe(after[i])}
  <2>1. 0 \in S
    BY <1>1, <1>2, <1>3
  <2>2. ASSUME NEW i \in Nat, i \in S PROVE i + 1 \in S
    <3> SUFFICES ASSUME i + 1 <= n PROVE Safe(after[(i + 1)])
      OBVIOUS
    <3>1. after[i + 1] = B(after[i], i + 1)
      BY <1>1, <1>2
    <3>2. Safe(after[i]) /\ i + 1 \in 1..n
      BY <1>1, <2>2
    <3> QED BY <3>1, <3>2, ApplyMoverSafe DEF B
  <2> HIDE DEF S
  <2>3. n \in S
    BY <1>1, <2>1, <2>2, Induction
  <2> QED BY <1>1, <2>3 DEF S
<1> QED BY <1>4 DEF MovesIn, Loop

LEMMA CarriesInSafe ==
    ASSUME World, NEW t, t.last \in Nat, NEW s, Safe(s)
    PROVE  Safe(CarriesIn(t, s))
<1> DEFINE s0 == s
           n == t.last
           B(acc, i) == IF i \in DOMAIN t.entities THEN ApplyCarried(acc, t.entities[i]) ELSE acc
           Run(k, f) == f = [i \in 0..k |-> IF i = 0 THEN s0 ELSE B(f[i - 1], i)]
           after == CHOOSE f : Run(n, f)
<1>1. n \in Nat
  OBVIOUS
<1>2. Run(n, after)
  <2> HIDE DEF B, s0, n
  <2> DEFINE S == {k \in Nat : \E f : Run(k, f)}
  <2>1. 0 \in S
    <3>1. Run(0, [i \in 0..0 |-> s0])
      OBVIOUS
    <3> QED BY <3>1
  <2>2. ASSUME NEW k \in Nat, k \in S PROVE k + 1 \in S
    <3>1. PICK f : Run(k, f)
      BY <2>2
    <3> DEFINE g == [i \in 0..(k + 1) |-> IF i <= k THEN f[i] ELSE B(f[k], i)]
    <3>2. Run(k + 1, g)
      BY <3>1
    <3> HIDE DEF g, Run
    <3> QED BY <3>2
  <2> HIDE DEF S
  <2>3. n \in S
    BY <1>1, <2>1, <2>2, Induction
  <2> QED BY <2>3 DEF S
<1>3. Safe(s0)
  OBVIOUS
<1>4. Safe(after[n])
  <2> HIDE DEF B, s0, n, after
  <2> DEFINE S == {i \in Nat : i <= n => Safe(after[i])}
  <2>1. 0 \in S
    BY <1>1, <1>2, <1>3
  <2>2. ASSUME NEW i \in Nat, i \in S PROVE i + 1 \in S
    <3> SUFFICES ASSUME i + 1 <= n PROVE Safe(after[(i + 1)])
      OBVIOUS
    <3>1. after[i + 1] = B(after[i], i + 1)
      BY <1>1, <1>2
    <3>2. Safe(after[i]) /\ i + 1 \in 1..n
      BY <1>1, <2>2
    <3> QED BY <3>1, <3>2, ApplyCarriedSafe DEF B
  <2> HIDE DEF S
  <2>3. n \in S
    BY <1>1, <2>1, <2>2, Induction
  <2> QED BY <1>1, <2>3 DEF S
<1> QED BY <1>4 DEF CarriesIn, Loop

LEMMA EnterSafe == World => \A t : t.last \in Nat => Safe(Enter(t))
<1> SUFFICES ASSUME World, NEW t, t.last \in Nat PROVE Safe(Enter(t))
  OBVIOUS
<1> DEFINE remade == \E i \in DOMAIN t.entities :
                  /\ t.entities[i].d.kind = "monster"
                  /\ \E e \in Entities : world[e] = Remade(t.entities[i].d, t.shift)
           fresh == NewSimulation(t.pos, IF remade /\ t.meets THEN t.monster ELSE 0)
           laid == CarriesIn(t, MovesIn(t, fresh))
           retired == {e \in Entities : <<world[e].global, "dead">> \in t.globals}
           left == [laid EXCEPT !.alive = @ \ retired]
<1>1. Safe(fresh)
  BY NewSafe
<1> HIDE DEF fresh
<1>2. Safe(laid)
  BY <1>1, MovesInSafe, CarriesInSafe
<1> HIDE DEF laid
<1>3. Safe(left)
  BY <1>2, RemovalSafe
<1>4. Safe([left EXCEPT !.globals = Seed(t.globals)])
  <2> HIDE DEF left
  <2>1. SameLedger(left, [left EXCEPT !.globals = Seed(t.globals)])
    BY <1>3 DEF Safe, Shape, Fields, SameLedger
  <2> QED BY <1>3, <2>1, LedgerSafe
<1>5. Enter(t) = IF NewUnit(world) THEN fresh ELSE [left EXCEPT !.globals = Seed(t.globals)]
  BY DEF Enter, fresh, laid, MovesIn, CarriesIn
<1> QED BY <1>1, <1>4, <1>5

(* The map that is entered declares what it declares and who is taken along. *)
LEMMA RemadeIsListed ==
    ASSUME NEW d, Listed(d), NEW shift
    PROVE  Listed(Remade(d, shift))
BY DEF Remade, Listed

LEMMA ArrivingIsAMap ==
    ASSUME NEW map, IsMap(map), NEW t, t.last \in Nat,
           \A i \in DOMAIN t.entities : Listed(t.entities[i].d)
    PROVE  IsMap(Arriving(map, t))
<1> SUFFICES ASSUME ~NewUnit(map) PROVE IsMap(Arriving(map, t))
  BY ZenonT(40) DEF Arriving
<1> DEFINE Place(made, i) ==
        IF i \notin DOMAIN t.entities THEN made
        ELSE LET d == t.entities[i].d
             IN IF HasCounterpart(d, made) \/ IsBrush(d) \/ ~t.meets THEN made
                ELSE Append(made, Remade(d, t.shift))
<1>a. ASSUME NEW made, IsMap(made), NEW i PROVE IsMap(Place(made, i))
  <2>1. PICK S : made \in Seq(S) /\ \A d \in S : Listed(d)
    BY <1>a DEF IsMap
  <2>2. ASSUME i \in DOMAIN t.entities
        PROVE  IsMap(Append(made, Remade(t.entities[i].d, t.shift)))
    <3> DEFINE new == Remade(t.entities[i].d, t.shift)
    <3>1. Listed(new)
      BY <2>2, RemadeIsListed
    <3> HIDE DEF new
    <3>2. Append(made, new) \in Seq(S \cup {new})
      BY <2>1
    <3>3. \A d \in S \cup {new} : Listed(d)
      BY <2>1, <3>1
    <3>4. IsMap(Append(made, new))
      BY <3>2, <3>3 DEF IsMap
    <3> QED BY <3>4 DEF new
  <2> QED BY <1>a, <2>2
<1> HIDE DEF Place
<1> DEFINE s0 == map
           n == t.last
           B(acc, i) == Place(acc, i)
           Run(k, f) == f = [i \in 0..k |-> IF i = 0 THEN s0 ELSE B(f[i - 1], i)]
           after == CHOOSE f : Run(n, f)
<1>1. n \in Nat
  OBVIOUS
<1>2. Run(n, after)
  <2> HIDE DEF B, s0, n
  <2> DEFINE S == {k \in Nat : \E f : Run(k, f)}
  <2>1. 0 \in S
    <3>1. Run(0, [i \in 0..0 |-> s0])
      OBVIOUS
    <3> QED BY <3>1
  <2>2. ASSUME NEW k \in Nat, k \in S PROVE k + 1 \in S
    <3>1. PICK f : Run(k, f)
      BY <2>2
    <3> DEFINE g == [i \in 0..(k + 1) |-> IF i <= k THEN f[i] ELSE B(f[k], i)]
    <3>2. Run(k + 1, g)
      BY <3>1
    <3> HIDE DEF g, Run
    <3> QED BY <3>2
  <2> HIDE DEF S
  <2>3. n \in S
    BY <1>1, <2>1, <2>2, Induction
  <2> QED BY <2>3 DEF S
<1>3. IsMap(after[n])
  <2> HIDE DEF B, s0, n, after
  <2> DEFINE S == {i \in Nat : i <= n => IsMap(after[i])}
  <2>1. 0 \in S
    BY <1>1, <1>2 DEF s0
  <2>2. ASSUME NEW i \in Nat, i \in S PROVE i + 1 \in S
    <3> SUFFICES ASSUME i + 1 <= n PROVE IsMap(after[(i + 1)])
      OBVIOUS
    <3>1. after[i + 1] = B(after[i], i + 1)
      BY <1>1, <1>2
    <3>2. IsMap(after[i]) /\ i + 1 \in 1..n
      BY <1>1, <2>2
    <3> QED BY <3>1, <3>2, <1>a DEF B
  <2> HIDE DEF S
  <2>3. n \in S
    BY <1>1, <2>1, <2>2, Induction
  <2> QED BY <1>1, <2>3 DEF S
<1> QED BY <1>3 DEF Arriving, Loop, Place

LEMMA CaptureIsListed ==
    ASSUME World, NEW s, NEW near, near \subseteq Entities, NEW to, NEW landmark
    PROVE  LET t == CaptureTransition(s, near, to, landmark)
           IN t.last \in Nat /\ \A i \in DOMAIN t.entities : Listed(t.entities[i].d)
<1> DEFINE t == CaptureTransition(s, near, to, landmark)
<1>1. t.last = Len(world) /\ t.entities = SnapshotsOf(s, near)
  BY DEF CaptureTransition
<1>2. \A i \in near : SnapshotsOf(s, near)[i].d = world[i]
  BY DEF SnapshotsOf, Snapshot
<1>3. DOMAIN SnapshotsOf(s, near) = near
  BY DEF SnapshotsOf
<1> HIDE DEF t
<1> QED BY <1>1, <1>2, <1>3, WorldIsFinite DEF t

(* The operators of the map that is entered are these, a step later. *)
MovesThere(there, t, s) ==
  In(there)!Loop(LAMBDA acc, i : IF i \in DOMAIN t.movers THEN In(there)!ApplyMover(acc, t.movers[i])
                           ELSE acc, t.last, s)
CarriesThere(there, t, s) ==
  In(there)!Loop(LAMBDA acc, i : IF i \in DOMAIN t.entities
                           THEN In(there)!ApplyCarried(acc, t.entities[i]) ELSE acc, t.last, s)


LEMMA MovesThereAgrees ==
    ASSUME NEW CONSTANT t, NEW s
    PROVE  MovesThere(world, t, s) = MovesIn(t, s)
BY ZenonT(60) DEF MovesThere, MovesIn, ApplyMover, ApplyOntoExisting, AtRest,
       CarriedMovers, Find, Entities, ForEach, Loop, In!ApplyMover, In!ApplyOntoExisting,
       In!AtRest, In!CarriedMovers, In!Find, In!Entities, In!ForEach, In!Loop

LEMMA CarriesThereAgrees ==
    ASSUME NEW CONSTANT t, NEW s
    PROVE  CarriesThere(world, t, s) = CarriesIn(t, s)
BY ZenonT(60) DEF CarriesThere, CarriesIn, ApplyMover, ApplyOntoExisting, AtRest,
       CarriedMovers, Find, Entities, ForEach, Loop, ApplyCarried, RestoreTrackTrain,
       RestoreOn, WithMotion, SeatedAt, OtherIndex, NextIndex, PrevIndex, SegmentLen,
       Distance, NodeAt, Build, ChainOf, WalkFrom, FirstNamed, FirstOf, IndexOf, NextName,
       In!ApplyMover, In!ApplyOntoExisting, In!AtRest, In!CarriedMovers, In!Find,
       In!Entities, In!ForEach, In!Loop, In!ApplyCarried, In!RestoreTrackTrain,
       In!RestoreOn, In!WithMotion, In!SeatedAt, In!OtherIndex, In!NextIndex,
       In!PrevIndex, In!SegmentLen, In!Distance, In!NodeAt, In!Build, In!ChainOf,
       In!WalkFrom, In!FirstNamed, In!FirstOf, In!IndexOf, In!NextName

LEMMA NewSimulationThere ==
    ASSUME NEW a, NEW b
    PROVE  In(world)!NewSimulation(a, b) = NewSimulation(a, b)
BY ZenonT(60) DEF NewSimulation, Entities, AtRest, OfKind, SpawnTrain, Build, ChainOf,
       WalkFrom, FirstNamed, FirstOf, Find, IndexOf, NextName, Distance, Nobody,
       SpawnPlatform, Seed, ForEach, Loop, In!NewSimulation, In!Entities, In!AtRest,
       In!OfKind, In!SpawnTrain, In!Build, In!ChainOf, In!WalkFrom, In!FirstNamed,
       In!FirstOf, In!Find, In!IndexOf, In!NextName, In!Distance, In!Nobody,
       In!SpawnPlatform, In!Seed, In!ForEach, In!Loop

LEMMA SameOperators ==
    ASSUME NEW a, NEW b
    PROVE  /\ In(world)!NewUnit(a) = NewUnit(a) /\ In(world)!Entities = Entities
           /\ In(world)!Seed(a) = Seed(a) /\ In(world)!Remade(a, b) = Remade(a, b)
BY DEF NewUnit, Entities, Seed, Remade, ForEach, Loop, OfKind, In!NewUnit, In!Entities,
       In!Seed, In!Remade, In!ForEach, In!Loop, In!OfKind

LEMMA EnterHere ==
    ASSUME NEW CONSTANT t
    PROVE  In(world)!Enter(t) = Enter(t)
<1> DEFINE remade == \E i \in DOMAIN t.entities :
                       /\ t.entities[i].d.kind = "monster"
                       /\ \E e \in Entities : world[e] = Remade(t.entities[i].d, t.shift)
           fresh == NewSimulation(t.pos, IF remade /\ t.meets THEN t.monster ELSE 0)
           retired == {e \in Entities : <<world[e].global, "dead">> \in t.globals}
           Level(unit, level, laid, gone, seeded) ==
             IF unit THEN level ELSE [laid EXCEPT !.alive = @ \ gone, !.globals = seeded]
<1>1. Enter(t) = Level(NewUnit(world), fresh, CarriesIn(t, MovesIn(t, fresh)), retired,
                       Seed(t.globals))
  BY DEF Enter, CarriesIn, MovesIn
<1> DEFINE remadeThere ==
             \E i \in DOMAIN t.entities :
                /\ t.entities[i].d.kind = "monster"
                /\ \E e \in In(world)!Entities : world[e] = In(world)!Remade(t.entities[i].d, t.shift)
           freshThere == In(world)!NewSimulation(t.pos, IF remadeThere /\ t.meets THEN t.monster ELSE 0)
           retiredThere == {e \in In(world)!Entities : <<world[e].global, "dead">> \in t.globals}
<1>2. In(world)!Enter(t) =
        Level(In(world)!NewUnit(world), freshThere,
              CarriesThere(world, t, MovesThere(world, t, freshThere)), retiredThere,
              In(world)!Seed(t.globals))
  BY DEF In!Enter, CarriesThere, MovesThere
<1>3. freshThere = fresh /\ retiredThere = retired
  BY NewSimulationThere, SameOperators
<1> HIDE DEF fresh, freshThere, retired, retiredThere, Level
<1> QED BY <1>1, <1>2, <1>3, MovesThereAgrees, CarriesThereAgrees, SameOperators

LEMMA EnterWhere == \A there, t : there = world => In(there)!Enter(t) = Enter(t)
BY EnterHere

LEMMA EnterNext == (\A there, t : there = world => In(there)!Enter(t) = Enter(t))'
BY EnterWhere, PTL

LEMMA EnterThere ==
    ASSUME NEW CONSTANT there, there = world', NEW CONSTANT t
    PROVE  In(there)!Enter(t) = Enter(t)'
BY EnterNext

-----------------------------------------------------------------------------
(* The invariant: the map is one, and what is spent is marked as spent. *)
GameInv == World /\ Safe(sim)

LEMMA GameStarts == Init => GameInv
<1> SUFFICES ASSUME Init PROVE GameInv
  OBVIOUS
<1>1. World
  BY MapsAssumption, MapsAreMaps DEF Init, World
<1> QED BY <1>1, NewSafe DEF Init, GameInv

LEMMA SameMap ==
    ASSUME UNCHANGED world, NEW CONSTANT s
    PROVE  (Safe(s)' <=> Safe(s)) /\ (World' <=> World)
<1>1. (Safe(s)' <=> Safe(s))
  BY DEF Safe, Counted, Spent, IsSpent, Entities, OneShots, Required, OfKind
<1> QED BY <1>1 DEF World

LEMMA LedgerSafeAlways == \A s, s1 : Safe(s) /\ SameLedger(s, s1) => Safe(s1)
BY LedgerSafe

LEMMA LedgerSafeNext == (\A s, s1 : Safe(s) /\ SameLedger(s, s1) => Safe(s1))'
BY LedgerSafeAlways, PTL

LEMMA EnterSafeNext == (World => \A t : t.last \in Nat => Safe(Enter(t)))'
BY EnterSafe, PTL

LEMMA GameGoesOn == GameInv /\ [Next]_vars => GameInv'
<1> SUFFICES ASSUME GameInv, [Next]_vars PROVE GameInv'
  OBVIOUS
<1>0. World /\ Safe(sim)
  BY DEF GameInv
<1>a. ASSUME UNCHANGED world, Safe(sim') PROVE GameInv'
  BY <1>0, <1>a, SameMap DEF GameInv
<1>b. ASSUME NEW input, Advance(input), UNCHANGED world PROVE GameInv'
  <2>1. sim' = FixedStep(sim, input)
    BY <1>b DEF Advance
  <2>2. Safe(sim')
    BY <1>0, <2>1, FixedStepSafe
  <2> QED BY <1>a, <1>b, <2>2
<1>1. CASE Wait
  BY <1>1, <1>b DEF Wait
<1>2. CASE Act
  BY <1>2, <1>b DEF Act
<1>3. CASE Reload
  <2>1. Safe(sim')
    BY <1>0, <1>3, RestoreSafe DEF Reload
  <2> QED BY <1>3, <1>a, <2>1 DEF Reload
<1>4. CASE FollowChange
  <2> DEFINE change == Head(sim.changes)
             to == Atlas[change.map]
  <2>1. CASE change.map \notin DOMAIN Atlas
    <3>1. sim' = [sim EXCEPT !.changes = Tail(@)] /\ UNCHANGED world
      BY <1>4, <2>1 DEF FollowChange
    <3>2. SameLedger(sim, sim')
      BY <1>0, <3>1 DEF Safe, Shape, Fields, SameLedger
    <3>3. Safe(sim')
      BY <1>0, <3>2, LedgerSafe
    <3> QED BY <1>a, <3>1, <3>3
  <2>2. CASE change.map \in DOMAIN Atlas
    <3> DEFINE c(near) == CaptureTransition(sim, near, to, change.landmark)
    <3>a. PICK near \in SUBSET Travellers(sim) : \E there \in {Arriving(to, c(near))} :
            /\ world' = there
            /\ sim' = [In(there)!Enter(c(near)) EXCEPT !.changes = Tail(sim.changes)]
      BY <1>4, <2>2 DEF FollowChange
    <3>1. PICK there \in {Arriving(to, c(near))} :
            /\ world' = there
            /\ sim' = [In(there)!Enter(c(near)) EXCEPT !.changes = Tail(sim.changes)]
      BY <3>a
    <3> DEFINE t == c(near)
    <3>2. t.last \in Nat /\ \A i \in DOMAIN t.entities : Listed(t.entities[i].d)
      <4>1. near \subseteq Entities
        BY ZenonT(40), <1>0 DEF Travellers, Safe, Counted
      <4> QED BY <1>0, <4>1, CaptureIsListed
    <3>3. IsMap(to)
      BY <2>2, MapsAssumption, MapsAreMaps
    <3>4. IsMap(world') /\ World'
      <4> HIDE DEF t, to
      <4>1. world' = Arriving(to, t)
        BY <3>1 DEF t
      <4> QED BY <3>2, <3>3, <4>1, ArrivingIsAMap DEF World
    <3> HIDE DEF c
    <3>5. \A u : u.last \in Nat => Safe(Enter(u))'
      BY <3>4, EnterSafeNext
    <3>6. ASSUME NEW CONSTANT u, u.last \in Nat, NEW CONSTANT changes, NEW CONSTANT s,
                 s = [In(there)!Enter(u) EXCEPT !.changes = changes]
          PROVE  Safe(s)'
      <4> DEFINE level == In(there)!Enter(u)
      <4>1. level = Enter(u)'
        BY <3>1, EnterThere
      <4>2. Safe(Enter(u))'
        BY <3>5, <3>6
      <4> HIDE DEF level
      <4>3. Shape(level)
        BY SMTT(40), <4>1, <4>2 DEF Safe
      <4>4. SameLedger(level, s)
        BY ZenonT(40), <3>6, <4>3 DEF Shape, Fields, SameLedger, level
      <4> QED BY <4>1, <4>2, <4>4, LedgerSafeNext
    <3> HIDE DEF t
    <3>7. sim' = [In(there)!Enter(t) EXCEPT !.changes = Tail(sim.changes)]
      BY <3>1 DEF t
    <3>8. Safe(sim)'
      BY <3>2, <3>6, <3>7
    <3> QED BY <3>4, <3>8 DEF GameInv
  <2> QED BY <2>1, <2>2
<1>5. CASE UNCHANGED vars
  BY <1>0, <1>5, <1>a DEF vars
<1> QED BY <1>1, <1>2, <1>3, <1>4, <1>5 DEF Next

(* What fires once fires once (Trigger::once, AutoTrigger::fired, Breakable::broken, *)
(* the consumed flag of an env_explosion, the fan-out of a multisource), on every *)
(* map, for every input, through every load and every level change. *)
THEOREM OneShotsAreSpent == Spec => []OneShotsStaySpent
<1>1. GameInv => OneShotsStaySpent
  BY DEF GameInv, Safe, Spent, OneShotsStaySpent
<1> QED BY GameStarts, GameGoesOn, <1>1, PTL DEF Spec
-----------------------------------------------------------------------------
(* Two levels that are stepped with the same inputs: what a level is made of, *)
(* and when nobody can tell two of them apart.                                *)

\* A queue of fires; what they are called and how they are used is anything.
Who == Entities \cup {Nobody, Player}
IsFire(f) ==
  /\ f = [target |-> f.target, who |-> f.who, delay |-> f.delay, use |-> f.use]
  /\ f.delay \in Int /\ f.who \in Who
IsQueue(q) == \E F : q \in Seq(F) /\ \A f \in F : IsFire(f)

\* What a load takes from the map: the movers, the switches and the buttons
\* that are none.
OnKinds == {"rotator", "ambient", "conveyor", "wall", "effect"}
Placed(s) ==
  /\ s.mover = [e \in Entities |-> s.mover[e]]
  /\ \A e \in Entities : world[e].kind \notin MoverKinds => s.mover[e] = AtRest
  /\ s.buttonHealth = [e \in Entities |-> s.buttonHealth[e]]
  /\ \A e \in Entities :
       world[e].kind \notin Buttons => s.buttonHealth[e] = world[e].health
  /\ s.on \subseteq Entities
  /\ \A e \in Entities : world[e].kind \notin OnKinds => (e \in s.on <=> world[e].on)

\* Trains and platforms.  A train is only off its track while some platform
\* has been used, and a platform that was used does not look new again.
TrainFields == {"chain", "node", "along", "dir", "speed", "moving", "wait",
                "deadEndFired", "carry"}
IsTrain(t) == t = [x \in TrainFields |-> t[x]] /\ t.deadEndFired \in BOOLEAN
PlatformFields == {"displaced", "dir", "moving", "carrying", "from", "to"}
IsPlatform(c) == c = [x \in PlatformFields |-> c[x]] /\ c.displaced \in Nat /\ c.dir \in {-1, 1}
Trains == OfKind({"train"})
Platforms == OfKind({"trackchange"})
AllDocked(s) == \A c \in Platforms : s.change[c] = SpawnPlatform
OnTrack(s) ==
  /\ s.train = [e \in Trains |-> s.train[e]] /\ \A e \in Trains : IsTrain(s.train[e])
  /\ s.change = [e \in Platforms |-> s.change[e]]
  /\ \A e \in Platforms : IsPlatform(s.change[e])
  /\ AllDocked(s) => \A e \in Trains : s.train[e].carry = 0

IsSequence(q) == \E S : q \in Seq(S)
Sound(s) ==
  /\ Shape(s) /\ IsQueue(s.pending) /\ IsSequence(s.changes)
  /\ s.captured = [e \in Entities |-> s.captured[e]]
  /\ \A e \in Entities : s.captured[e] \in Who
  /\ Placed(s) /\ OnTrack(s)

\* Two levels alike: only what the next step reads again may differ, and by
\* how much a fire is overdue.
FiresAlike(f, g) ==
  /\ f.target = g.target /\ f.who = g.who /\ f.use = g.use
  /\ f.delay = g.delay \/ (f.delay <= 0 /\ g.delay <= 0)
QueuesAlike(p, q) == Len(p) = Len(q) /\ \A i \in 1..Len(p) : FiresAlike(p[i], q[i])
FreeAlike(s, t) ==
  /\ s.used = t.used /\ s.cooldown = t.cooldown /\ s.telTouch = t.telTouch
  /\ s.rotTouch = t.rotTouch /\ s.fires = t.fires /\ s.busy = t.busy
  /\ s.autoFired = t.autoFired /\ s.alive = t.alive /\ s.health = t.health
  /\ s.broken = t.broken /\ s.consumed = t.consumed /\ s.camera = t.camera
  /\ s.thrown = t.thrown /\ s.turned = t.turned /\ s.globals = t.globals
  /\ s.sent = t.sent
BodyAlike(s, t) ==
  /\ s.mover = t.mover /\ s.captured = t.captured /\ s.buttonHealth = t.buttonHealth
  /\ s.on = t.on /\ s.train = t.train /\ s.change = t.change /\ s.pos = t.pos
  /\ s.monster = t.monster /\ s.level = t.level /\ s.changes = t.changes
  /\ s.arrived = t.arrived
Alike(s, t) ==
  /\ Shape(t) /\ IsQueue(t.pending) /\ QueuesAlike(s.pending, t.pending)
  /\ FreeAlike(s, t) /\ BodyAlike(s, t)
Pair(s, t) == Sound(s) /\ Alike(s, t)

\* What a step of one level leaves alone.
SameTouch(s, s1) ==
  /\ s1.doorTouch = s.doorTouch /\ s1.monsterTouch = s.monsterTouch
  /\ s1.platTouch = s.platTouch /\ s1.spawnFired = s.spawnFired
Calm(s, s1) ==
  /\ s1.pos = s.pos /\ s1.monster = s.monster /\ s1.level = s.level
  /\ Len(s.changes) <= Len(s1.changes)
  /\ Uneventful => s1.changes = s.changes /\ s1.arrived = s.arrived
Steps(s, t, s1, t1) ==
  Pair(s1, t1) /\ SameTouch(s, s1) /\ SameTouch(t, t1) /\ Calm(s, s1)
StaysOff(s, s1) ==
  \A e \in Entities : s.mover[e].st # "Closed" => s1.mover[e].st # "Closed"
Moves(s, t, s1, t1) == Steps(s, t, s1, t1) /\ StaysOff(s, s1)

SameBody(s, s1) == Shape(s1) /\ BodyAlike(s, s1) /\ SameTouch(s, s1)
SameQueue(s, s1) == s1.pending = s.pending

LEMMA StaysPut ==
    ASSUME NEW s, NEW t, Pair(s, t)
    PROVE  Moves(s, t, s, t)
<1>1. Len(s.changes) <= Len(s.changes)
  BY DEF Pair, Sound, IsSequence
<1> QED BY <1>1 DEF Moves, Steps, SameTouch, Calm, StaysOff

LEMMA MovesTwice ==
    ASSUME NEW s, NEW t, NEW s1, NEW t1, NEW s2, NEW t2, Pair(s, t)
    PROVE  /\ Steps(s, t, s1, t1) /\ Steps(s1, t1, s2, t2) => Steps(s, t, s2, t2)
           /\ Moves(s, t, s1, t1) /\ Moves(s1, t1, s2, t2) => Moves(s, t, s2, t2)
<1>1. ASSUME Steps(s, t, s1, t1), Steps(s1, t1, s2, t2) PROVE Steps(s, t, s2, t2)
  <2>1. /\ Len(s.changes) \in Nat /\ Len(s1.changes) \in Nat /\ Len(s2.changes) \in Nat
    BY <1>1 DEF Steps, Pair, Sound, IsSequence
  <2>2. Calm(s, s1) /\ Calm(s1, s2)
    BY <1>1 DEF Steps
  <2>3. Calm(s, s2)
    BY <2>1, <2>2 DEF Calm
  <2> QED BY <1>1, <2>3 DEF Steps, SameTouch
<1> QED BY <1>1 DEF Moves, StaysOff

LEMMA BodyMoves ==
    ASSUME NEW s, NEW t, NEW s1, NEW t1, Pair(s, t), SameBody(s, s1), SameBody(t, t1),
           FreeAlike(s1, t1), IsQueue(s1.pending), IsQueue(t1.pending),
           QueuesAlike(s1.pending, t1.pending)
    PROVE  Moves(s, t, s1, t1)
<1>1. Sound(s1)
  BY DEF Pair, SameBody, Sound, Placed, OnTrack, AllDocked, BodyAlike
<1>2. Alike(s1, t1)
  BY DEF Pair, Alike, SameBody, BodyAlike
<1>3. Len(s.changes) <= Len(s1.changes)
  BY DEF Pair, Sound, IsSequence, SameBody, BodyAlike
<1>4. Calm(s, s1) /\ StaysOff(s, s1)
  BY <1>3 DEF Calm, StaysOff, SameBody, BodyAlike
<1> QED BY <1>1, <1>2, <1>4 DEF Moves, Steps, Pair, SameBody

LEMMA FreeMoves ==
    ASSUME NEW s, NEW t, NEW s1, NEW t1, Pair(s, t), SameBody(s, s1), SameBody(t, t1),
           FreeAlike(s1, t1), SameQueue(s, s1), SameQueue(t, t1)
    PROVE  Moves(s, t, s1, t1)
<1>1. /\ IsQueue(s1.pending) /\ IsQueue(t1.pending)
      /\ QueuesAlike(s1.pending, t1.pending)
  BY DEF Pair, Sound, Alike, SameQueue
<1> QED BY <1>1, BodyMoves

-----------------------------------------------------------------------------
(* Firing. *)

LEMMA SendsMoves ==
    ASSUME NEW s, NEW t, Pair(s, t), NEW e
    PROVE  Moves(s, t, Sends(s, e), Sends(t, e))
<1> DEFINE s1 == Sends(s, e)
           t1 == Sends(t, e)
<1>1. Shape(s) /\ Shape(t) /\ FreeAlike(s, t)
  BY DEF Pair, Sound, Alike
<1>2. SameBody(s, s1) /\ SameBody(t, t1) /\ SameQueue(s, s1) /\ SameQueue(t, t1)
  BY ZenonT(40), <1>1 DEF Shape, Fields, SameBody, BodyAlike, SameTouch, SameQueue, Sends
<1>3. FreeAlike(s1, t1)
  BY <1>1 DEF Shape, Fields, FreeAlike, Sends
<1> QED BY <1>2, <1>3, FreeMoves

LEMMA QueueAppends ==
    ASSUME NEW q, IsQueue(q), NEW f, IsFire(f)
    PROVE  IsQueue(Append(q, f))
<1>1. PICK F : q \in Seq(F) /\ \A g \in F : IsFire(g)
  BY DEF IsQueue
<1>2. Append(q, f) \in Seq(F \cup {f}) /\ \A g \in F \cup {f} : IsFire(g)
  BY <1>1
<1> QED BY <1>2 DEF IsQueue

LEMMA AppendsAlike ==
    ASSUME NEW p, NEW q, IsQueue(p), IsQueue(q), QueuesAlike(p, q), NEW f, IsFire(f)
    PROVE  QueuesAlike(Append(p, f), Append(q, f))
<1>1. PICK F : p \in Seq(F)
  BY DEF IsQueue
<1>2. PICK G : q \in Seq(G)
  BY DEF IsQueue
<1>3. p \in Seq(F \cup {f}) /\ q \in Seq(G \cup {f}) /\ FiresAlike(f, f)
  BY <1>1, <1>2 DEF FiresAlike
<1> QED BY <1>3 DEF QueuesAlike

LEMMA FireMoves ==
    ASSUME NEW s, NEW t, Pair(s, t), NEW name, NEW who \in Who, NEW delay \in Int, NEW use
    PROVE  Moves(s, t, Fire(s, name, who, delay, use), Fire(t, name, who, delay, use))
<1> DEFINE f == [target |-> name, who |-> who, delay |-> Most(delay, 0), use |-> use]
           s1 == [s EXCEPT !.pending = Append(@, f)]
           t1 == [t EXCEPT !.pending = Append(@, f)]
<1>1. IsFire(f)
  BY DEF IsFire, Most
<1>2. Shape(s) /\ Shape(t) /\ FreeAlike(s, t) /\ IsQueue(s.pending) /\ IsQueue(t.pending)
      /\ QueuesAlike(s.pending, t.pending)
  BY DEF Pair, Sound, Alike
<1>3. Fire(s, name, who, delay, use) = IF Len(s.pending) >= MaxPending THEN s ELSE s1
  BY DEF Fire
<1>4. Fire(t, name, who, delay, use) = IF Len(s.pending) >= MaxPending THEN t ELSE t1
  BY <1>2 DEF Fire, QueuesAlike
<1> HIDE DEF f
<1>5. SameBody(s, s1) /\ SameBody(t, t1) /\ FreeAlike(s1, t1)
      /\ s1.pending = Append(s.pending, f) /\ t1.pending = Append(t.pending, f)
  BY ZenonT(40), <1>2 DEF Shape, Fields, SameBody, BodyAlike, SameTouch, FreeAlike
<1> HIDE DEF s1, t1
<1>6. /\ IsQueue(s1.pending) /\ IsQueue(t1.pending)
      /\ QueuesAlike(s1.pending, t1.pending)
  BY <1>1, <1>2, <1>5, QueueAppends, AppendsAlike
<1>7. Moves(s, t, s1, t1)
  BY <1>5, <1>6, BodyMoves
<1> QED BY <1>3, <1>4, <1>7, StaysPut

LEMMA FireTargetMoves ==
    ASSUME NEW s, NEW t, Pair(s, t), NEW e, NEW who \in Who, NEW delay \in Int, NEW use
    PROVE  Moves(s, t, FireTarget(s, e, who, delay, use), FireTarget(t, e, who, delay, use))
<1> DEFINE s1 == Sends(s, e)
           t1 == Sends(t, e)
           s2 == Fire(s1, world[e].target, who, delay, use)
           t2 == Fire(t1, world[e].target, who, delay, use)
<1>1. Moves(s, t, s1, t1)
  BY SendsMoves
<1>2. Pair(s1, t1)
  BY <1>1 DEF Moves, Steps
<1>3. Moves(s1, t1, s2, t2)
  BY <1>2, FireMoves
<1>4. Moves(s, t, s2, t2)
  BY <1>1, <1>3, MovesTwice
<1> QED BY ZenonT(40), <1>4, StaysPut DEF FireTarget

----------\* What raising a level change leaves alone.
Raises(s, t, s1, t1) ==
  /\ Pair(s1, t1) /\ SameTouch(s, s1) /\ SameTouch(t, t1) /\ StaysOff(s, s1)
  /\ s1.pos = s.pos /\ s1.monster = s.monster /\ s1.level = s.level
  /\ s1.arrived = s.arrived /\ Len(s.changes) <= Len(s1.changes)

LEMMA ChangesRise ==
    ASSUME NEW s, NEW t, Pair(s, t), NEW v,
           IsSequence(v), Len(s.changes) <= Len(v)
    PROVE  Raises(s, t, [s EXCEPT !.changes = v], [t EXCEPT !.changes = v])
<1> DEFINE s1 == [s EXCEPT !.changes = v]
           t1 == [t EXCEPT !.changes = v]
<1>1. Sound(s) /\ Shape(s) /\ Shape(t) /\ FreeAlike(s, t) /\ BodyAlike(s, t)
  BY DEF Pair, Sound, Alike
<1>2. /\ Shape(s1) /\ Shape(t1) /\ SameTouch(s, s1) /\ SameTouch(t, t1)
      /\ FreeAlike(s1, t1) /\ BodyAlike(s1, t1)
      /\ s1.pending = s.pending /\ t1.pending = t.pending
  BY ZenonT(40), <1>1 DEF Shape, Fields, SameTouch, FreeAlike, BodyAlike
<1>3. /\ s1.mover = s.mover /\ s1.captured = s.captured /\ s1.buttonHealth = s.buttonHealth
      /\ s1.on = s.on /\ s1.train = s.train /\ s1.change = s.change /\ s1.pos = s.pos
      /\ s1.monster = s.monster /\ s1.level = s.level /\ s1.arrived = s.arrived
      /\ s1.changes = v
  BY <1>1 DEF Shape, Fields
<1> HIDE DEF s1, t1
<1>4. Sound(s1)
  BY <1>1, <1>2, <1>3 DEF Sound, Placed, OnTrack, AllDocked
<1>5. Alike(s1, t1)
  BY <1>2 DEF Pair, Alike
<1>6. StaysOff(s, s1)
  BY <1>3 DEF StaysOff
<1> QED BY <1>2, <1>3, <1>4, <1>5, <1>6 DEF Raises, Pair, s1, t1

-------------------------------------------------------------------
(* One field of both replaced by the same value. *)

LEMMA MoverSteps ==
    ASSUME NEW s, NEW t, Pair(s, t), NEW v,
           v = [f \in Entities |-> v[f]],
           \A f \in Entities : world[f].kind \notin MoverKinds => v[f] = AtRest
    PROVE  Steps(s, t, [s EXCEPT !.mover = v], [t EXCEPT !.mover = v])
<1> DEFINE s1 == [s EXCEPT !.mover = v]
           t1 == [t EXCEPT !.mover = v]
<1>1. Sound(s) /\ Shape(s) /\ Shape(t) /\ FreeAlike(s, t) /\ BodyAlike(s, t)
  BY SMTT(40) DEF Pair, Sound, Alike
<1>2. /\ Shape(s1) /\ Shape(t1) /\ SameTouch(s, s1) /\ SameTouch(t, t1)
      /\ FreeAlike(s1, t1) /\ BodyAlike(s1, t1)
      /\ s1.pending = s.pending /\ t1.pending = t.pending
  BY ZenonT(40), <1>1 DEF Shape, Fields, SameTouch, FreeAlike, BodyAlike
<1>3. /\ s1.captured = s.captured /\ s1.buttonHealth = s.buttonHealth /\ s1.on = s.on
      /\ s1.train = s.train /\ s1.change = s.change /\ s1.pos = s.pos
      /\ s1.monster = s.monster /\ s1.level = s.level /\ s1.changes = s.changes
      /\ s1.arrived = s.arrived
      /\ s1.mover = v
  BY <1>1 DEF Shape, Fields
<1> HIDE DEF s1, t1
<1>4. Sound(s1)
  BY <1>1, <1>2, <1>3 DEF Sound, Placed, OnTrack, AllDocked
<1>5. Alike(s1, t1)
  BY <1>2 DEF Pair, Alike
<1>6. Len(s.changes) <= Len(s.changes)
  BY <1>1 DEF Sound, IsSequence
<1>7. Calm(s, s1)
  BY <1>3, <1>6 DEF Calm
<1> QED BY <1>2, <1>4, <1>5, <1>7 DEF Moves, Steps, Pair, s1, t1

LEMMA MoverMoves ==
    ASSUME NEW s, NEW t, Pair(s, t), NEW v, v = [f \in Entities |-> v[f]],
           \A f \in Entities : world[f].kind \notin MoverKinds => v[f] = AtRest,
           \A f \in Entities : s.mover[f].st # "Closed" => v[f].st # "Closed"
    PROVE  Moves(s, t, [s EXCEPT !.mover = v], [t EXCEPT !.mover = v])
<1>1. [s EXCEPT !.mover = v].mover = v
  BY DEF Pair, Sound, Shape, Fields
<1> QED BY <1>1, MoverSteps DEF Moves, StaysOff

LEMMA CapturedMoves ==
    ASSUME NEW s, NEW t, Pair(s, t), NEW v,
           v = [f \in Entities |-> v[f]], \A f \in Entities : v[f] \in Who
    PROVE  Moves(s, t, [s EXCEPT !.captured = v], [t EXCEPT !.captured = v])
<1> DEFINE s1 == [s EXCEPT !.captured = v]
           t1 == [t EXCEPT !.captured = v]
<1>1. Sound(s) /\ Shape(s) /\ Shape(t) /\ FreeAlike(s, t) /\ BodyAlike(s, t)
  BY SMTT(40) DEF Pair, Sound, Alike
<1>2. /\ Shape(s1) /\ Shape(t1) /\ SameTouch(s, s1) /\ SameTouch(t, t1)
      /\ FreeAlike(s1, t1) /\ BodyAlike(s1, t1)
      /\ s1.pending = s.pending /\ t1.pending = t.pending
  BY ZenonT(40), <1>1 DEF Shape, Fields, SameTouch, FreeAlike, BodyAlike
<1>3. /\ s1.mover = s.mover /\ s1.buttonHealth = s.buttonHealth /\ s1.on = s.on
      /\ s1.train = s.train /\ s1.change = s.change /\ s1.pos = s.pos
      /\ s1.monster = s.monster /\ s1.level = s.level /\ s1.changes = s.changes
      /\ s1.arrived = s.arrived
      /\ s1.captured = v
  BY <1>1 DEF Shape, Fields
<1> HIDE DEF s1, t1
<1>4. Sound(s1)
  BY <1>1, <1>2, <1>3 DEF Sound, Placed, OnTrack, AllDocked
<1>5. Alike(s1, t1)
  BY <1>2 DEF Pair, Alike
<1>6. Len(s.changes) <= Len(s.changes)
  BY <1>1 DEF Sound, IsSequence
<1>7. Calm(s, s1) /\ StaysOff(s, s1)
  BY <1>3, <1>6 DEF Calm, StaysOff
<1> QED BY <1>2, <1>4, <1>5, <1>7 DEF Moves, Steps, Pair, s1, t1

LEMMA ButtonHealthMoves ==
    ASSUME NEW s, NEW t, Pair(s, t), NEW v,
           v = [f \in Entities |-> v[f]],
           \A f \in Entities : world[f].kind \notin Buttons => v[f] = world[f].health
    PROVE  Moves(s, t, [s EXCEPT !.buttonHealth = v], [t EXCEPT !.buttonHealth = v])
<1> DEFINE s1 == [s EXCEPT !.buttonHealth = v]
           t1 == [t EXCEPT !.buttonHealth = v]
<1>1. Sound(s) /\ Shape(s) /\ Shape(t) /\ FreeAlike(s, t) /\ BodyAlike(s, t)
  BY SMTT(40) DEF Pair, Sound, Alike
<1>2. /\ Shape(s1) /\ Shape(t1) /\ SameTouch(s, s1) /\ SameTouch(t, t1)
      /\ FreeAlike(s1, t1) /\ BodyAlike(s1, t1)
      /\ s1.pending = s.pending /\ t1.pending = t.pending
  BY ZenonT(40), <1>1 DEF Shape, Fields, SameTouch, FreeAlike, BodyAlike
<1>3. /\ s1.mover = s.mover /\ s1.captured = s.captured /\ s1.on = s.on /\ s1.train = s.train
      /\ s1.change = s.change /\ s1.pos = s.pos /\ s1.monster = s.monster
      /\ s1.level = s.level /\ s1.changes = s.changes /\ s1.arrived = s.arrived
      /\ s1.buttonHealth = v
  BY <1>1 DEF Shape, Fields
<1> HIDE DEF s1, t1
<1>4. Sound(s1)
  BY <1>1, <1>2, <1>3 DEF Sound, Placed, OnTrack, AllDocked
<1>5. Alike(s1, t1)
  BY <1>2 DEF Pair, Alike
<1>6. Len(s.changes) <= Len(s.changes)
  BY <1>1 DEF Sound, IsSequence
<1>7. Calm(s, s1) /\ StaysOff(s, s1)
  BY <1>3, <1>6 DEF Calm, StaysOff
<1> QED BY <1>2, <1>4, <1>5, <1>7 DEF Moves, Steps, Pair, s1, t1

LEMMA OnMoves ==
    ASSUME NEW s, NEW t, Pair(s, t), NEW v,
           v \subseteq Entities,
           \A f \in Entities : world[f].kind \notin OnKinds => (f \in v <=> world[f].on)
    PROVE  Moves(s, t, [s EXCEPT !.on = v], [t EXCEPT !.on = v])
<1> DEFINE s1 == [s EXCEPT !.on = v]
           t1 == [t EXCEPT !.on = v]
<1>1. Sound(s) /\ Shape(s) /\ Shape(t) /\ FreeAlike(s, t) /\ BodyAlike(s, t)
  BY DEF Pair, Sound, Alike
<1>2. /\ Shape(s1) /\ Shape(t1) /\ SameTouch(s, s1) /\ SameTouch(t, t1)
      /\ FreeAlike(s1, t1) /\ BodyAlike(s1, t1)
      /\ s1.pending = s.pending /\ t1.pending = t.pending
  BY ZenonT(40), <1>1 DEF Shape, Fields, SameTouch, FreeAlike, BodyAlike
<1>3. /\ s1.mover = s.mover /\ s1.captured = s.captured /\ s1.buttonHealth = s.buttonHealth
      /\ s1.train = s.train /\ s1.change = s.change /\ s1.pos = s.pos
      /\ s1.monster = s.monster /\ s1.level = s.level /\ s1.changes = s.changes
      /\ s1.arrived = s.arrived
      /\ s1.on = v
  BY <1>1 DEF Shape, Fields
<1> HIDE DEF s1, t1
<1>4. Sound(s1)
  BY <1>1, <1>2, <1>3 DEF Sound, Placed, OnTrack, AllDocked
<1>5. Alike(s1, t1)
  BY <1>2 DEF Pair, Alike
<1>6. Len(s.changes) <= Len(s.changes)
  BY <1>1 DEF Sound, IsSequence
<1>7. Calm(s, s1) /\ StaysOff(s, s1)
  BY <1>3, <1>6 DEF Calm, StaysOff
<1> QED BY <1>2, <1>4, <1>5, <1>7 DEF Moves, Steps, Pair, s1, t1

LEMMA ArrivedMoves ==
    ASSUME NEW s, NEW t, Pair(s, t), NEW v,
           ~Uneventful
    PROVE  Moves(s, t, [s EXCEPT !.arrived = v], [t EXCEPT !.arrived = v])
<1> DEFINE s1 == [s EXCEPT !.arrived = v]
           t1 == [t EXCEPT !.arrived = v]
<1>1. Sound(s) /\ Shape(s) /\ Shape(t) /\ FreeAlike(s, t) /\ BodyAlike(s, t)
  BY SMTT(40) DEF Pair, Sound, Alike
<1>2. /\ Shape(s1) /\ Shape(t1) /\ SameTouch(s, s1) /\ SameTouch(t, t1)
      /\ FreeAlike(s1, t1) /\ BodyAlike(s1, t1)
      /\ s1.pending = s.pending /\ t1.pending = t.pending
  BY ZenonT(40), <1>1 DEF Shape, Fields, SameTouch, FreeAlike, BodyAlike
<1>3. /\ s1.mover = s.mover /\ s1.captured = s.captured /\ s1.buttonHealth = s.buttonHealth
      /\ s1.on = s.on /\ s1.train = s.train /\ s1.change = s.change /\ s1.pos = s.pos
      /\ s1.monster = s.monster /\ s1.level = s.level /\ s1.changes = s.changes
      /\ s1.arrived = v
  BY <1>1 DEF Shape, Fields
<1> HIDE DEF s1, t1
<1>4. Sound(s1)
  BY <1>1, <1>2, <1>3 DEF Sound, Placed, OnTrack, AllDocked
<1>5. Alike(s1, t1)
  BY <1>2 DEF Pair, Alike
<1>6. Len(s.changes) <= Len(s.changes)
  BY <1>1 DEF Sound, IsSequence
<1>7. Calm(s, s1) /\ StaysOff(s, s1)
  BY <1>3, <1>6 DEF Calm, StaysOff
<1> QED BY <1>2, <1>4, <1>5, <1>7 DEF Moves, Steps, Pair, s1, t1

-----------------------------------------------------------------------------
(* What one activation does to both. *)

LEMMA SameGuards ==
    ASSUME NEW s, NEW t, Pair(s, t)
    PROVE  /\ \A kinds : Live(s, kinds) = Live(t, kinds)
           /\ \A e : MasterIsActive(s, e) <=> MasterIsActive(t, e)
           /\ \A e, who : CanTrigger(s, e, who) <=> CanTrigger(t, e, who)
<1>1. FreeAlike(s, t)
  BY DEF Pair, Alike
<1>2. \A kinds : Live(s, kinds) = Live(t, kinds)
  BY <1>1 DEF FreeAlike, Live
<1>3. \A e : MasterIsActive(s, e) <=> MasterIsActive(t, e)
  BY <1>1, <1>2 DEF FreeAlike, MasterIsActive, IsActive
<1>4. \A e, who : CanTrigger(s, e, who) <=> CanTrigger(t, e, who)
  BY <1>1, <1>3 DEF FreeAlike, CanTrigger
<1> QED BY <1>2, <1>3, <1>4

LEMMA MultisourceMoves ==
    ASSUME World, NEW s, NEW t, Pair(s, t), NEW e \in Entities, NEW who \in Who, NEW use
    PROVE  Moves(s, t, ActivateMultisource(s, e, who, use), ActivateMultisource(t, e, who, use))
<1> DEFINE s1 == [s EXCEPT !.fires[e] = Least(@ + 1, SentCap)]
           t1 == [t EXCEPT !.fires[e] = Least(@ + 1, SentCap)]
<1>1. Shape(s) /\ Shape(t) /\ FreeAlike(s, t)
  BY SMTT(40) DEF Pair, Sound, Alike
<1>2. SameBody(s, s1) /\ SameBody(t, t1) /\ SameQueue(s, s1) /\ SameQueue(t, t1)
  BY ZenonT(40), <1>1 DEF Shape, Fields, SameBody, BodyAlike, SameTouch, SameQueue
<1>3. FreeAlike(s1, t1)
  BY <1>1 DEF Shape, Fields, FreeAlike
<1>4. Moves(s, t, s1, t1)
  BY <1>2, <1>3, FreeMoves
<1>5. Pair(s1, t1) /\ s1.fires = t1.fires /\ s.alive = t.alive
  BY <1>1, <1>3, <1>4 DEF Moves, Steps, FreeAlike
<1>6. /\ ActivateMultisource(s, e, who, use) =
           IF s1.fires[e] = Required(s.alive, e) THEN FireTarget(s1, e, who, world[e].delay, use)
           ELSE s1
      /\ ActivateMultisource(t, e, who, use) =
           IF t1.fires[e] = Required(t.alive, e) THEN FireTarget(t1, e, who, world[e].delay, use)
           ELSE t1
  BY DEF ActivateMultisource
<1> HIDE DEF s1, t1
<1>7. world[e].delay \in Int
  BY WorldIsFinite DEF Listed
<1>8. Moves(s1, t1, FireTarget(s1, e, who, world[e].delay, use),
            FireTarget(t1, e, who, world[e].delay, use))
  BY <1>5, <1>7, FireTargetMoves
<1> QED BY <1>4, <1>5, <1>6, <1>8, MovesTwice

LEMMA StartMoves ==
    ASSUME NEW s, NEW t, Pair(s, t), NEW e \in Entities, world[e].kind \in MoverKinds,
           NEW st, st # "Closed", NEW time
    PROVE  Moves(s, t, StartMover(s, e, st, time), StartMover(t, e, st, time))
<1> DEFINE s1 == StartMover(s, e, st, time)
           t1 == StartMover(t, e, st, time)
           m == [s.mover EXCEPT ![e] = [st |-> st, t |-> time]]
<1>1. Sound(s) /\ Shape(s) /\ Shape(t) /\ FreeAlike(s, t) /\ BodyAlike(s, t)
  BY DEF Pair, Sound, Alike
<1>2. /\ s1 = [s EXCEPT !.mover = m] /\ t1 = [t EXCEPT !.mover = m]
  BY <1>1 DEF StartMover, BodyAlike
<1>3. /\ m = [f \in Entities |-> m[f]]
      /\ \A f \in Entities : world[f].kind \notin MoverKinds => m[f] = AtRest
      /\ \A f \in Entities : s.mover[f].st # "Closed" => m[f].st # "Closed"
  BY <1>1 DEF Sound, Placed
<1> HIDE DEF m
<1> QED BY <1>2, <1>3, MoverMoves

LEMMA CaptureMoves ==
    ASSUME NEW s, NEW t, Pair(s, t), NEW e \in Entities, NEW who \in Who
    PROVE  Moves(s, t, Capture(s, e, who), Capture(t, e, who))
<1> DEFINE s1 == Capture(s, e, who)
           t1 == Capture(t, e, who)
           c == [s.captured EXCEPT ![e] = who]
<1>1. Sound(s) /\ Shape(s) /\ Shape(t) /\ FreeAlike(s, t) /\ BodyAlike(s, t)
  BY DEF Pair, Sound, Alike
<1>2. /\ s1 = [s EXCEPT !.captured = c] /\ t1 = [t EXCEPT !.captured = c]
  BY <1>1 DEF Capture, BodyAlike
<1>3. c = [f \in Entities |-> c[f]] /\ \A f \in Entities : c[f] \in Who
  BY <1>1 DEF Sound
<1> HIDE DEF c
<1> QED BY <1>2, <1>3, CapturedMoves

LEMMA ActivateMoverMoves ==
    ASSUME NEW s, NEW t, Pair(s, t), NEW e \in Entities, world[e].kind \in MoverKinds,
           NEW who \in Who
    PROVE  Moves(s, t, ActivateMover(s, e, who), ActivateMover(t, e, who))
<1> DEFINE Start(st, time) == Moves(s, t, StartMover(s, e, st, time), StartMover(t, e, st, time))
           Press(st, time) == Moves(s, t, Capture(StartMover(s, e, st, time), e, who),
                                    Capture(StartMover(t, e, st, time), e, who))
<1>1. \A time : Start("Opening", time) /\ Start("Closing", time)
  BY StartMoves
<1>2. ASSUME NEW time, NEW st \in {"Opening", "Closing"} PROVE Press(st, time)
  <2> DEFINE s1 == StartMover(s, e, st, time)
             t1 == StartMover(t, e, st, time)
  <2>1. Moves(s, t, s1, t1)
    BY StartMoves
  <2>2. Pair(s1, t1)
    BY <2>1 DEF Moves, Steps
  <2> HIDE DEF s1, t1
  <2>3. Moves(s1, t1, Capture(s1, e, who), Capture(t1, e, who))
    BY <2>2, CaptureMoves
  <2>4. Moves(s, t, Capture(s1, e, who), Capture(t1, e, who))
    BY <2>1, <2>3, MovesTwice
  <2> QED BY <2>4 DEF s1, t1
<1>3. s.mover = t.mover
  BY DEF Pair, Alike, BodyAlike
<1> HIDE DEF Start, Press
<1> DEFINE d == world[e]
           up == s.mover[e].st = "Closed"
           down == s.mover[e].st = "Open" /\ d.toggle
           A(r) == CASE d.kind = "door" /\ up -> StartMover(r, e, "Opening", d.delay + d.travel)
       [] d.kind = "button" /\ up ->
            Capture(StartMover(r, e, "Opening", d.delay), e, who)
       [] d.kind = "rotbutton" /\ up ->
            Capture(StartMover(r, e, "Opening", d.delay + d.travel), e, who)
       [] d.kind = "rotbutton" /\ down ->
            Capture(StartMover(r, e, "Closing", d.travel), e, who)
       [] d.kind \in {"platform", "platrot"} /\ up -> StartMover(r, e, "Opening", 0)
       [] d.kind = "platrot" /\ down -> StartMover(r, e, "Closing", d.travel)
       [] OTHER -> r
<1>4. ActivateMover(s, e, who) = A(s) /\ ActivateMover(t, e, who) = A(t)
  BY <1>3 DEF ActivateMover
<1>5. ~(up /\ down)
  OBVIOUS
<1> HIDE DEF up, down
<1>6. CASE d.kind = "door" /\ up
  <2>1. A(s) = StartMover(s, e, "Opening", d.delay + d.travel)
        /\ A(t) = StartMover(t, e, "Opening", d.delay + d.travel)
    BY <1>5, <1>6
  <2> QED BY <1>1, <1>4, <2>1 DEF Start
<1>7. CASE d.kind = "button" /\ up
  <2>1. A(s) = Capture(StartMover(s, e, "Opening", d.delay), e, who)
        /\ A(t) = Capture(StartMover(t, e, "Opening", d.delay), e, who)
    BY <1>5, <1>7
  <2> QED BY <1>2, <1>4, <2>1 DEF Press
<1>8. CASE d.kind = "rotbutton" /\ up
  <2>1. A(s) = Capture(StartMover(s, e, "Opening", d.delay + d.travel), e, who)
        /\ A(t) = Capture(StartMover(t, e, "Opening", d.delay + d.travel), e, who)
    BY <1>5, <1>8
  <2> QED BY <1>2, <1>4, <2>1 DEF Press
<1>9. CASE d.kind = "rotbutton" /\ down
  <2>1. A(s) = Capture(StartMover(s, e, "Closing", d.travel), e, who)
        /\ A(t) = Capture(StartMover(t, e, "Closing", d.travel), e, who)
    BY <1>5, <1>9
  <2> QED BY <1>2, <1>4, <2>1 DEF Press
<1>10. CASE d.kind \in {"platform", "platrot"} /\ up
  <2>1. A(s) = StartMover(s, e, "Opening", 0) /\ A(t) = StartMover(t, e, "Opening", 0)
    BY <1>5, <1>10
  <2> QED BY <1>1, <1>4, <2>1 DEF Start
<1>11. CASE d.kind = "platrot" /\ down
  <2>1. A(s) = StartMover(s, e, "Closing", d.travel) /\ A(t) = StartMover(t, e, "Closing", d.travel)
    BY <1>5, <1>11
  <2> QED BY <1>1, <1>4, <2>1 DEF Start
<1>12. CASE /\ ~(d.kind = "door" /\ up) /\ ~(d.kind = "button" /\ up)
            /\ ~(d.kind = "rotbutton" /\ up) /\ ~(d.kind = "rotbutton" /\ down)
            /\ ~(d.kind \in {"platform", "platrot"} /\ up) /\ ~(d.kind = "platrot" /\ down)
  <2>1. A(s) = s /\ A(t) = t
    BY <1>12
  <2> QED BY <1>4, <2>1, StaysPut
<1> QED BY <1>6, <1>7, <1>8, <1>9, <1>10, <1>11, <1>12

LEMMA BreakMoves ==
    ASSUME World, NEW s, NEW t, Pair(s, t), NEW e \in Entities, NEW who \in Who
    PROVE  Moves(s, t, BreakEntity(s, e, who), BreakEntity(t, e, who))
<1> DEFINE s1 == [s EXCEPT !.broken = @ \cup {e}, !.health[e] = 0]
           t1 == [t EXCEPT !.broken = @ \cup {e}, !.health[e] = 0]
           by == IF who = Nobody THEN e ELSE who
<1>1. Shape(s) /\ Shape(t) /\ FreeAlike(s, t)
  BY DEF Pair, Sound, Alike
<1>2. SameBody(s, s1) /\ SameBody(t, t1) /\ SameQueue(s, s1) /\ SameQueue(t, t1)
  BY ZenonT(40), <1>1 DEF Shape, Fields, SameBody, BodyAlike, SameTouch, SameQueue
<1>3. FreeAlike(s1, t1)
  BY <1>1 DEF Shape, Fields, FreeAlike
<1>4. Moves(s, t, s1, t1) /\ Pair(s1, t1)
  BY <1>2, <1>3, FreeMoves DEF Moves, Steps
<1>5. /\ BreakEntity(s, e, who) =
           IF e \in s.broken THEN s ELSE FireTarget(s1, e, by, world[e].delay, "toggle")
      /\ BreakEntity(t, e, who) =
           IF e \in s.broken THEN t ELSE FireTarget(t1, e, by, world[e].delay, "toggle")
  BY <1>1 DEF BreakEntity, FreeAlike
<1> HIDE DEF s1, t1
<1>6. world[e].delay \in Int /\ by \in Who
  BY WorldIsFinite DEF Listed, Who
<1> HIDE DEF by
<1>7. Moves(s1, t1, FireTarget(s1, e, by, world[e].delay, "toggle"),
            FireTarget(t1, e, by, world[e].delay, "toggle"))
  BY <1>4, <1>6, FireTargetMoves
<1>8. Moves(s, t, FireTarget(s1, e, by, world[e].delay, "toggle"),
            FireTarget(t1, e, by, world[e].delay, "toggle"))
  BY <1>4, <1>7, MovesTwice
<1> QED BY <1>5, <1>8, StaysPut

LEMMA ExplosionMoves ==
    ASSUME NEW s, NEW t, Pair(s, t), NEW e
    PROVE  Moves(s, t, ActivateExplosion(s, e), ActivateExplosion(t, e))
<1> DEFINE s1 == IF world[e].once THEN [s EXCEPT !.consumed = @ \cup {e}] ELSE s
           t1 == IF world[e].once THEN [t EXCEPT !.consumed = @ \cup {e}] ELSE t
<1>1. Shape(s) /\ Shape(t) /\ FreeAlike(s, t)
  BY DEF Pair, Sound, Alike
<1>2. SameBody(s, s1) /\ SameBody(t, t1) /\ SameQueue(s, s1) /\ SameQueue(t, t1)
  BY ZenonT(40), <1>1 DEF Shape, Fields, SameBody, BodyAlike, SameTouch, SameQueue
<1>3. FreeAlike(s1, t1)
  BY <1>1 DEF Shape, Fields, FreeAlike
<1>4. Moves(s, t, s1, t1) /\ Pair(s1, t1)
  BY <1>2, <1>3, FreeMoves DEF Moves, Steps
<1>5. /\ ActivateExplosion(s, e) = IF e \in s.consumed THEN s ELSE Sends(s1, e)
      /\ ActivateExplosion(t, e) = IF e \in s.consumed THEN t ELSE Sends(t1, e)
  BY <1>1 DEF ActivateExplosion, FreeAlike
<1> HIDE DEF s1, t1
<1>6. Moves(s1, t1, Sends(s1, e), Sends(t1, e))
  BY <1>4, SendsMoves
<1>7. Moves(s, t, Sends(s1, e), Sends(t1, e))
  BY <1>4, <1>6, MovesTwice
<1> QED BY <1>5, <1>7, StaysPut

LEMMA SwitchMoves ==
    ASSUME NEW s, NEW t, Pair(s, t), NEW e \in Entities, world[e].kind \in OnKinds, NEW active
    PROVE  LET v == IF active THEN s.on \cup {e} ELSE s.on \ {e}
           IN Moves(s, t, [s EXCEPT !.on = v], [t EXCEPT !.on = v])
<1> DEFINE v == IF active THEN s.on \cup {e} ELSE s.on \ {e}
<1>1. v \subseteq Entities
      /\ \A f \in Entities : world[f].kind \notin OnKinds => (f \in v <=> world[f].on)
  BY DEF Pair, Sound, Placed
<1> HIDE DEF v
<1>2. Moves(s, t, [s EXCEPT !.on = v], [t EXCEPT !.on = v])
  BY <1>1, OnMoves
<1> QED BY <1>2 DEF v

LEMMA SwitchesMove ==
    ASSUME NEW s, NEW t, Pair(s, t), NEW e \in Entities, world[e].kind \in OnKinds, NEW use
    PROVE  /\ Moves(s, t, ActivateEffect(s, e, use), ActivateEffect(t, e, use))
           /\ Moves(s, t, Flip(s, e), Flip(t, e))
           /\ Moves(s, t, ActivateAmbient(s, e), ActivateAmbient(t, e))
<1> DEFINE New(active) == IF active THEN s.on \cup {e} ELSE s.on \ {e}
<1>1. s.on = t.on
  BY DEF Pair, Alike, BodyAlike
<1>2. ASSUME NEW active PROVE Moves(s, t, [s EXCEPT !.on = New(active)], [t EXCEPT !.on = New(active)])
  BY SwitchMoves
<1>3. Moves(s, t, ActivateEffect(s, e, use), ActivateEffect(t, e, use))
  <2> DEFINE active == CASE use = "on" -> TRUE
                         [] use = "off" -> ~world[e].toggle /\ e \in s.on
                         [] OTHER -> ~world[e].toggle \/ e \notin s.on
  <2>1. ActivateEffect(s, e, use) = [s EXCEPT !.on = New(active)]
    BY DEF ActivateEffect
  <2>2. ActivateEffect(t, e, use) = [t EXCEPT !.on = New(active)]
    BY <1>1 DEF ActivateEffect
  <2> HIDE DEF active, New
  <2> QED BY <1>2, <2>1, <2>2
<1>4. Moves(s, t, Flip(s, e), Flip(t, e))
  <2>1. /\ Flip(s, e) = [s EXCEPT !.on = New(e \notin s.on)]
        /\ Flip(t, e) = [t EXCEPT !.on = New(e \notin s.on)]
    BY <1>1 DEF Flip
  <2> HIDE DEF New
  <2> QED BY <1>2, <2>1
<1>5. Moves(s, t, ActivateAmbient(s, e), ActivateAmbient(t, e))
  <2> DEFINE s1 == Sends(s, e)
             t1 == Sends(t, e)
             s2 == [s1 EXCEPT !.on = @ \cup {e}]
             t2 == [t1 EXCEPT !.on = @ \cup {e}]
  <2>1. Moves(s, t, s1, t1)
    BY SendsMoves
  <2>2. Pair(s1, t1) /\ s1.on = t1.on
    BY <2>1 DEF Moves, Steps, Pair, Alike, BodyAlike
  <2> HIDE DEF s1, t1
  <2>3. /\ s2 = [s1 EXCEPT !.on = IF TRUE THEN s1.on \cup {e} ELSE s1.on \ {e}]
        /\ t2 = [t1 EXCEPT !.on = IF TRUE THEN s1.on \cup {e} ELSE s1.on \ {e}]
    BY <2>2
  <2>4. Moves(s1, t1, s2, t2)
    BY <2>2, <2>3, SwitchMoves
  <2>5. Moves(s, t, s2, t2)
    BY <2>1, <2>4, MovesTwice
  <2>6. /\ ActivateAmbient(s, e) = IF world[e].once \/ e \notin s.on THEN s2 ELSE Flip(s, e)
        /\ ActivateAmbient(t, e) = IF world[e].once \/ e \notin s.on THEN t2 ELSE Flip(t, e)
    BY <1>1 DEF ActivateAmbient, s1, t1
  <2> QED BY <1>4, <2>5, <2>6
<1> QED BY <1>3, <1>4, <1>5

LEMMA CameraMoves ==
    ASSUME NEW s, NEW t, Pair(s, t), NEW e
    PROVE  Moves(s, t, TriggerCamera(s, e), TriggerCamera(t, e))
<1> DEFINE s1 == TriggerCamera(s, e)
           t1 == TriggerCamera(t, e)
<1>1. Shape(s) /\ Shape(t) /\ FreeAlike(s, t)
  BY DEF Pair, Sound, Alike
<1>2. SameBody(s, s1) /\ SameBody(t, t1) /\ SameQueue(s, s1) /\ SameQueue(t, t1)
  BY ZenonT(40), <1>1 DEF Shape, Fields, SameBody, BodyAlike, SameTouch, SameQueue, TriggerCamera
<1>3. FreeAlike(s1, t1)
  BY <1>1 DEF Shape, Fields, FreeAlike, TriggerCamera
<1> QED BY SMTT(40), <1>2, <1>3, FreeMoves

LEMMA TriggerMoves ==
    ASSUME World, NEW s, NEW t, Pair(s, t), NEW e \in Entities, NEW who \in Who
    PROVE  Moves(s, t, ActivateTrigger(s, e, who), ActivateTrigger(t, e, who))
<1> DEFINE d == world[e]
           s1 == [s EXCEPT !.used = IF d.once THEN @ \cup {e} ELSE @,
                           !.cooldown[e] = Most(d.wait, 0)]
           t1 == [t EXCEPT !.used = IF d.once THEN @ \cup {e} ELSE @,
                           !.cooldown[e] = Most(d.wait, 0)]
           by == IF d.kind = "teleport" THEN e ELSE who
<1>1. Shape(s) /\ Shape(t) /\ FreeAlike(s, t)
  BY DEF Pair, Sound, Alike
<1>2. SameBody(s, s1) /\ SameBody(t, t1) /\ SameQueue(s, s1) /\ SameQueue(t, t1)
  BY ZenonT(40), <1>1 DEF Shape, Fields, SameBody, BodyAlike, SameTouch, SameQueue
<1>3. FreeAlike(s1, t1)
  BY <1>1 DEF Shape, Fields, FreeAlike
<1>4. Moves(s, t, s1, t1) /\ Pair(s1, t1)
  BY <1>2, <1>3, FreeMoves DEF Moves, Steps
<1>5. /\ ActivateTrigger(s, e, who) =
           IF ~CanTrigger(s, e, who) THEN s ELSE FireTarget(s1, e, by, d.delay, d.use)
      /\ ActivateTrigger(t, e, who) =
           IF ~CanTrigger(s, e, who) THEN t ELSE FireTarget(t1, e, by, d.delay, d.use)
  BY SameGuards DEF ActivateTrigger
<1>6. d.delay \in Int /\ by \in Who
  BY WorldIsFinite DEF Listed, Who
<1> HIDE DEF s1, t1, by
<1>7. Moves(s1, t1, FireTarget(s1, e, by, d.delay, d.use), FireTarget(t1, e, by, d.delay, d.use))
  BY <1>4, <1>6, FireTargetMoves
<1>8. Moves(s, t, FireTarget(s1, e, by, d.delay, d.use), FireTarget(t1, e, by, d.delay, d.use))
  BY <1>4, <1>7, MovesTwice
<1> QED BY <1>5, <1>8, StaysPut

LEMMA RaiseRises ==
    ASSUME NEW s, NEW t, Pair(s, t), NEW e
    PROVE  Raises(s, t, RaiseChange(s, e), RaiseChange(t, e))
<1> DEFINE s0 == Sends(s, e)
           t0 == Sends(t, e)
           c == [map |-> world[e].map, landmark |-> world[e].landmark]
           v == Append(s0.changes, c)
<1>1. Moves(s, t, s0, t0)
  BY SendsMoves
<1>2. Pair(s0, t0) /\ s0.changes = t0.changes /\ IsSequence(s0.changes)
      /\ s0.changes = s.changes /\ s0.arrived = s.arrived
  <2>1. Shape(s)
    BY DEF Pair, Sound
  <2>2. s0.changes = s.changes /\ s0.arrived = s.arrived
    BY <2>1 DEF Shape, Fields, Sends
  <2> QED BY <1>1, <2>2 DEF Moves, Steps, Pair, Alike, BodyAlike, Sound
<1>4. RaiseChange(s, e) = [s0 EXCEPT !.changes = v] /\ RaiseChange(t, e) = [t0 EXCEPT !.changes = v]
  BY <1>2 DEF RaiseChange
<1> HIDE DEF s0, t0, c
<1>3. IsSequence(v) /\ Len(s0.changes) <= Len(v)
  <2>1. PICK S : s0.changes \in Seq(S)
    BY <1>2 DEF IsSequence
  <2>2. s0.changes \in Seq(S \cup {c})
    BY <2>1
  <2>3. v \in Seq(S \cup {c}) /\ Len(v) = Len(s0.changes) + 1 /\ Len(s0.changes) \in Nat
    BY <2>2
  <2> QED BY <2>3 DEF IsSequence
<1> HIDE DEF v
<1>5. Raises(s0, t0, [s0 EXCEPT !.changes = v], [t0 EXCEPT !.changes = v])
  BY <1>2, <1>3, ChangesRise
<1> QED BY <1>1, <1>2, <1>4, <1>5 DEF Raises, Moves, Steps, SameTouch, Calm, StaysOff

LEMMA RaiseMoves ==
    ASSUME NEW s, NEW t, Pair(s, t), NEW e, ~Uneventful
    PROVE  Moves(s, t, RaiseChange(s, e), RaiseChange(t, e))
BY RaiseRises DEF Raises, Moves, Steps, Calm


-----------------------------------------------------------------------------
(* The loops of a step, each with the values it goes through. *)

LEMMA ActivateEachWithRun ==
    ASSUME World, NEW s, NEW set, NEW who, NEW use
    PROVE  \E f : /\ f[0] = s
                  /\ \A i \in 1..Len(world) : f[i] = IF i \in set THEN ActivateWith(f[i - 1], i, who, use) ELSE f[i - 1]
                  /\ f[Len(world)] = ActivateEachWith(s, set, who, use)
<1> DEFINE n == Len(world)
           B(acc, i) == IF i \in set THEN ActivateWith(acc, i, who, use) ELSE acc
           Run(k, f) == f = [i \in 0..k |-> IF i = 0 THEN s ELSE B(f[i - 1], i)]
           after == CHOOSE f : Run(n, f)
<1>1. n \in Nat
  BY WorldIsFinite
<1>2. Run(n, after)
  <2> HIDE DEF B, n
  <2> DEFINE S == {k \in Nat : \E f : Run(k, f)}
  <2>1. 0 \in S
    <3>1. Run(0, [i \in 0..0 |-> s])
      OBVIOUS
    <3> QED BY <3>1
  <2>2. ASSUME NEW k \in Nat, k \in S PROVE k + 1 \in S
    <3>1. PICK f : Run(k, f)
      BY <2>2
    <3> DEFINE g == [i \in 0..(k + 1) |-> IF i <= k THEN f[i] ELSE B(f[k], i)]
    <3>2. Run(k + 1, g)
      BY <3>1
    <3> HIDE DEF g, Run
    <3> QED BY <3>2
  <2> HIDE DEF S
  <2>3. n \in S
    BY <1>1, <2>1, <2>2, Induction
  <2> QED BY <2>3 DEF S
<1>3. after[0] = s /\ \A i \in 1..n : after[i] = B(after[i - 1], i)
  <2> HIDE DEF B, n, after
  <2> QED BY <1>1, <1>2
<1>4. CASE set = {}
  <2> DEFINE idle == [i \in 0..n |-> s]
  <2>1. idle[0] = s /\ (\A i \in 1..n : idle[i] = idle[i - 1]) /\ idle[n] = s
    BY <1>1
  <2>2. ActivateEachWith(s, set, who, use) = s
    BY <1>4 DEF ActivateEachWith, ForEach
  <2> HIDE DEF idle
  <2> QED BY <1>4, <2>1, <2>2
<1>5. CASE set # {}
  <2>1. after[n] = ActivateEachWith(s, set, who, use)
    BY <1>5 DEF ActivateEachWith, ForEach, Loop
  <2> QED BY <1>3, <2>1 DEF B
<1> QED BY <1>4, <1>5

ScheduleFans(s, e, who) ==
  Loop(LAMBDA acc, i : Fire(acc, world[e].fans[i][1], who, world[e].fans[i][2], "toggle"), Len(world[e].fans), s)

LEMMA ScheduleFansRun ==
    ASSUME World, NEW s, NEW e, NEW who, e \in Entities
    PROVE  \E f : /\ f[0] = s
                  /\ \A i \in 1..Len(world[e].fans) : f[i] = Fire(f[i - 1], world[e].fans[i][1], who, world[e].fans[i][2], "toggle")
                  /\ f[Len(world[e].fans)] = ScheduleFans(s, e, who)
<1> DEFINE n == Len(world[e].fans)
           B(acc, i) == Fire(acc, world[e].fans[i][1], who, world[e].fans[i][2], "toggle")
           Run(k, f) == f = [i \in 0..k |-> IF i = 0 THEN s ELSE B(f[i - 1], i)]
           after == CHOOSE f : Run(n, f)
<1>1. n \in Nat
  BY WorldIsFinite DEF Listed
<1>2. Run(n, after)
  <2> HIDE DEF B, n
  <2> DEFINE S == {k \in Nat : \E f : Run(k, f)}
  <2>1. 0 \in S
    <3>1. Run(0, [i \in 0..0 |-> s])
      OBVIOUS
    <3> QED BY <3>1
  <2>2. ASSUME NEW k \in Nat, k \in S PROVE k + 1 \in S
    <3>1. PICK f : Run(k, f)
      BY <2>2
    <3> DEFINE g == [i \in 0..(k + 1) |-> IF i <= k THEN f[i] ELSE B(f[k], i)]
    <3>2. Run(k + 1, g)
      BY <3>1
    <3> HIDE DEF g, Run
    <3> QED BY <3>2
  <2> HIDE DEF S
  <2>3. n \in S
    BY <1>1, <2>1, <2>2, Induction
  <2> QED BY <2>3 DEF S
<1>3. after[0] = s /\ \A i \in 1..n : after[i] = B(after[i - 1], i)
  <2> HIDE DEF B, n, after
  <2> QED BY <1>1, <1>2
<1>4. after[n] = ScheduleFans(s, e, who)
  BY DEF ScheduleFans, Loop
<1> QED BY <1>3, <1>4 DEF B

ReleaseEach(s, set) ==
  ForEach(LAMBDA acc, i : FireTarget(Capture(acc, i, Nobody), i, IF acc.captured[i] = Nobody THEN i ELSE acc.captured[i], 0, "toggle"), set, s)

LEMMA ReleaseEachRun ==
    ASSUME World, NEW s, NEW set
    PROVE  \E f : /\ f[0] = s
                  /\ \A i \in 1..Len(world) : f[i] = IF i \in set THEN FireTarget(Capture(f[i - 1], i, Nobody), i, IF f[i - 1].captured[i] = Nobody THEN i ELSE f[i - 1].captured[i], 0, "toggle") ELSE f[i - 1]
                  /\ f[Len(world)] = ReleaseEach(s, set)
<1> DEFINE n == Len(world)
           B(acc, i) == IF i \in set THEN FireTarget(Capture(acc, i, Nobody), i, IF acc.captured[i] = Nobody THEN i ELSE acc.captured[i], 0, "toggle") ELSE acc
           Run(k, f) == f = [i \in 0..k |-> IF i = 0 THEN s ELSE B(f[i - 1], i)]
           after == CHOOSE f : Run(n, f)
<1>1. n \in Nat
  BY WorldIsFinite
<1>2. Run(n, after)
  <2> HIDE DEF B, n
  <2> DEFINE S == {k \in Nat : \E f : Run(k, f)}
  <2>1. 0 \in S
    <3>1. Run(0, [i \in 0..0 |-> s])
      OBVIOUS
    <3> QED BY <3>1
  <2>2. ASSUME NEW k \in Nat, k \in S PROVE k + 1 \in S
    <3>1. PICK f : Run(k, f)
      BY <2>2
    <3> DEFINE g == [i \in 0..(k + 1) |-> IF i <= k THEN f[i] ELSE B(f[k], i)]
    <3>2. Run(k + 1, g)
      BY <3>1
    <3> HIDE DEF g, Run
    <3> QED BY <3>2
  <2> HIDE DEF S
  <2>3. n \in S
    BY <1>1, <2>1, <2>2, Induction
  <2> QED BY <2>3 DEF S
<1>3. after[0] = s /\ \A i \in 1..n : after[i] = B(after[i - 1], i)
  <2> HIDE DEF B, n, after
  <2> QED BY <1>1, <1>2
<1>4. CASE set = {}
  <2> DEFINE idle == [i \in 0..n |-> s]
  <2>1. idle[0] = s /\ (\A i \in 1..n : idle[i] = idle[i - 1]) /\ idle[n] = s
    BY <1>1
  <2>2. ReleaseEach(s, set) = s
    BY <1>4 DEF ReleaseEach, ForEach
  <2> HIDE DEF idle
  <2> QED BY <1>4, <2>1, <2>2
<1>5. CASE set # {}
  <2>1. after[n] = ReleaseEach(s, set)
    BY <1>5 DEF ReleaseEach, ForEach, Loop
  <2> QED BY <1>3, <2>1 DEF B
<1> QED BY <1>4, <1>5

MonsterTouchEach(s, set, edge) ==
  ForEach(LAMBDA acc, i : ActivateEach(acc, edge, i), set, s)

LEMMA MonsterTouchEachRun ==
    ASSUME World, NEW s, NEW set, NEW edge
    PROVE  \E f : /\ f[0] = s
                  /\ \A i \in 1..Len(world) : f[i] = IF i \in set THEN ActivateEach(f[i - 1], edge, i) ELSE f[i - 1]
                  /\ f[Len(world)] = MonsterTouchEach(s, set, edge)
<1> DEFINE n == Len(world)
           B(acc, i) == IF i \in set THEN ActivateEach(acc, edge, i) ELSE acc
           Run(k, f) == f = [i \in 0..k |-> IF i = 0 THEN s ELSE B(f[i - 1], i)]
           after == CHOOSE f : Run(n, f)
<1>1. n \in Nat
  BY WorldIsFinite
<1>2. Run(n, after)
  <2> HIDE DEF B, n
  <2> DEFINE S == {k \in Nat : \E f : Run(k, f)}
  <2>1. 0 \in S
    <3>1. Run(0, [i \in 0..0 |-> s])
      OBVIOUS
    <3> QED BY <3>1
  <2>2. ASSUME NEW k \in Nat, k \in S PROVE k + 1 \in S
    <3>1. PICK f : Run(k, f)
      BY <2>2
    <3> DEFINE g == [i \in 0..(k + 1) |-> IF i <= k THEN f[i] ELSE B(f[k], i)]
    <3>2. Run(k + 1, g)
      BY <3>1
    <3> HIDE DEF g, Run
    <3> QED BY <3>2
  <2> HIDE DEF S
  <2>3. n \in S
    BY <1>1, <2>1, <2>2, Induction
  <2> QED BY <2>3 DEF S
<1>3. after[0] = s /\ \A i \in 1..n : after[i] = B(after[i - 1], i)
  <2> HIDE DEF B, n, after
  <2> QED BY <1>1, <1>2
<1>4. CASE set = {}
  <2> DEFINE idle == [i \in 0..n |-> s]
  <2>1. idle[0] = s /\ (\A i \in 1..n : idle[i] = idle[i - 1]) /\ idle[n] = s
    BY <1>1
  <2>2. MonsterTouchEach(s, set, edge) = s
    BY <1>4 DEF MonsterTouchEach, ForEach
  <2> HIDE DEF idle
  <2> QED BY <1>4, <2>1, <2>2
<1>5. CASE set # {}
  <2>1. after[n] = MonsterTouchEach(s, set, edge)
    BY <1>5 DEF MonsterTouchEach, ForEach, Loop
  <2> QED BY <1>3, <2>1 DEF B
<1> QED BY <1>4, <1>5

BreakEach(s, set) ==
  ForEach(LAMBDA acc, i : BreakEntity(acc, i, Player), set, s)

LEMMA BreakEachRun ==
    ASSUME World, NEW s, NEW set
    PROVE  \E f : /\ f[0] = s
                  /\ \A i \in 1..Len(world) : f[i] = IF i \in set THEN BreakEntity(f[i - 1], i, Player) ELSE f[i - 1]
                  /\ f[Len(world)] = BreakEach(s, set)
<1> DEFINE n == Len(world)
           B(acc, i) == IF i \in set THEN BreakEntity(acc, i, Player) ELSE acc
           Run(k, f) == f = [i \in 0..k |-> IF i = 0 THEN s ELSE B(f[i - 1], i)]
           after == CHOOSE f : Run(n, f)
<1>1. n \in Nat
  BY WorldIsFinite
<1>2. Run(n, after)
  <2> HIDE DEF B, n
  <2> DEFINE S == {k \in Nat : \E f : Run(k, f)}
  <2>1. 0 \in S
    <3>1. Run(0, [i \in 0..0 |-> s])
      OBVIOUS
    <3> QED BY <3>1
  <2>2. ASSUME NEW k \in Nat, k \in S PROVE k + 1 \in S
    <3>1. PICK f : Run(k, f)
      BY <2>2
    <3> DEFINE g == [i \in 0..(k + 1) |-> IF i <= k THEN f[i] ELSE B(f[k], i)]
    <3>2. Run(k + 1, g)
      BY <3>1
    <3> HIDE DEF g, Run
    <3> QED BY <3>2
  <2> HIDE DEF S
  <2>3. n \in S
    BY <1>1, <2>1, <2>2, Induction
  <2> QED BY <2>3 DEF S
<1>3. after[0] = s /\ \A i \in 1..n : after[i] = B(after[i - 1], i)
  <2> HIDE DEF B, n, after
  <2> QED BY <1>1, <1>2
<1>4. CASE set = {}
  <2> DEFINE idle == [i \in 0..n |-> s]
  <2>1. idle[0] = s /\ (\A i \in 1..n : idle[i] = idle[i - 1]) /\ idle[n] = s
    BY <1>1
  <2>2. BreakEach(s, set) = s
    BY <1>4 DEF BreakEach, ForEach
  <2> HIDE DEF idle
  <2> QED BY <1>4, <2>1, <2>2
<1>5. CASE set # {}
  <2>1. after[n] = BreakEach(s, set)
    BY <1>5 DEF BreakEach, ForEach, Loop
  <2> QED BY <1>3, <2>1 DEF B
<1> QED BY <1>4, <1>5

RaiseEach(s, set) ==
  ForEach(RaiseChange, set, s)

LEMMA RaiseEachRun ==
    ASSUME World, NEW s, NEW set
    PROVE  \E f : /\ f[0] = s
                  /\ \A i \in 1..Len(world) : f[i] = IF i \in set THEN RaiseChange(f[i - 1], i) ELSE f[i - 1]
                  /\ f[Len(world)] = RaiseEach(s, set)
<1> DEFINE n == Len(world)
           B(acc, i) == IF i \in set THEN RaiseChange(acc, i) ELSE acc
           Run(k, f) == f = [i \in 0..k |-> IF i = 0 THEN s ELSE B(f[i - 1], i)]
           after == CHOOSE f : Run(n, f)
<1>1. n \in Nat
  BY WorldIsFinite
<1>2. Run(n, after)
  <2> HIDE DEF B, n
  <2> DEFINE S == {k \in Nat : \E f : Run(k, f)}
  <2>1. 0 \in S
    <3>1. Run(0, [i \in 0..0 |-> s])
      OBVIOUS
    <3> QED BY <3>1
  <2>2. ASSUME NEW k \in Nat, k \in S PROVE k + 1 \in S
    <3>1. PICK f : Run(k, f)
      BY <2>2
    <3> DEFINE g == [i \in 0..(k + 1) |-> IF i <= k THEN f[i] ELSE B(f[k], i)]
    <3>2. Run(k + 1, g)
      BY <3>1
    <3> HIDE DEF g, Run
    <3> QED BY <3>2
  <2> HIDE DEF S
  <2>3. n \in S
    BY <1>1, <2>1, <2>2, Induction
  <2> QED BY <2>3 DEF S
<1>3. after[0] = s /\ \A i \in 1..n : after[i] = B(after[i - 1], i)
  <2> HIDE DEF B, n, after
  <2> QED BY <1>1, <1>2
<1>4. CASE set = {}
  <2> DEFINE idle == [i \in 0..n |-> s]
  <2>1. idle[0] = s /\ (\A i \in 1..n : idle[i] = idle[i - 1]) /\ idle[n] = s
    BY <1>1
  <2>2. RaiseEach(s, set) = s
    BY <1>4 DEF RaiseEach, ForEach
  <2> HIDE DEF idle
  <2> QED BY <1>4, <2>1, <2>2
<1>5. CASE set # {}
  <2>1. after[n] = RaiseEach(s, set)
    BY <1>5 DEF RaiseEach, ForEach, Loop
  <2> QED BY <1>3, <2>1 DEF B
<1> QED BY <1>4, <1>5

TouchTrigger(acc, e) ==
  IF world[e].kind = "endsection" /\ CanTrigger(acc, e, Player)
  THEN Sends(ActivateTrigger(acc, e, Player), e)
  ELSE ActivateTrigger(acc, e, Player)
TouchEach(s, set) ==
  ForEach(LAMBDA acc, i : TouchTrigger(acc, i), set, s)

LEMMA TouchEachRun ==
    ASSUME World, NEW s, NEW set
    PROVE  \E f : /\ f[0] = s
                  /\ \A i \in 1..Len(world) : f[i] = IF i \in set THEN TouchTrigger(f[i - 1], i) ELSE f[i - 1]
                  /\ f[Len(world)] = TouchEach(s, set)
<1> DEFINE n == Len(world)
           B(acc, i) == IF i \in set THEN TouchTrigger(acc, i) ELSE acc
           Run(k, f) == f = [i \in 0..k |-> IF i = 0 THEN s ELSE B(f[i - 1], i)]
           after == CHOOSE f : Run(n, f)
<1>1. n \in Nat
  BY WorldIsFinite
<1>2. Run(n, after)
  <2> HIDE DEF B, n
  <2> DEFINE S == {k \in Nat : \E f : Run(k, f)}
  <2>1. 0 \in S
    <3>1. Run(0, [i \in 0..0 |-> s])
      OBVIOUS
    <3> QED BY <3>1
  <2>2. ASSUME NEW k \in Nat, k \in S PROVE k + 1 \in S
    <3>1. PICK f : Run(k, f)
      BY <2>2
    <3> DEFINE g == [i \in 0..(k + 1) |-> IF i <= k THEN f[i] ELSE B(f[k], i)]
    <3>2. Run(k + 1, g)
      BY <3>1
    <3> HIDE DEF g, Run
    <3> QED BY <3>2
  <2> HIDE DEF S
  <2>3. n \in S
    BY <1>1, <2>1, <2>2, Induction
  <2> QED BY <2>3 DEF S
<1>3. after[0] = s /\ \A i \in 1..n : after[i] = B(after[i - 1], i)
  <2> HIDE DEF B, n, after
  <2> QED BY <1>1, <1>2
<1>4. CASE set = {}
  <2> DEFINE idle == [i \in 0..n |-> s]
  <2>1. idle[0] = s /\ (\A i \in 1..n : idle[i] = idle[i - 1]) /\ idle[n] = s
    BY <1>1
  <2>2. TouchEach(s, set) = s
    BY <1>4 DEF TouchEach, ForEach
  <2> HIDE DEF idle
  <2> QED BY <1>4, <2>1, <2>2
<1>5. CASE set # {}
  <2>1. after[n] = TouchEach(s, set)
    BY <1>5 DEF TouchEach, ForEach, Loop
  <2> QED BY <1>3, <2>1 DEF B
<1> QED BY <1>4, <1>5

StartAuto(acc, e) ==
  LET t == FireTarget([acc EXCEPT !.autoFired = @ \cup {e}], e, e,
                      world[e].delay, world[e].use)
  IN IF world[e].remove THEN [t EXCEPT !.alive = @ \ {e}] ELSE t
StartEach(s, set) ==
  ForEach(LAMBDA acc, i : StartAuto(acc, i), set, s)

LEMMA StartEachRun ==
    ASSUME World, NEW s, NEW set
    PROVE  \E f : /\ f[0] = s
                  /\ \A i \in 1..Len(world) : f[i] = IF i \in set THEN StartAuto(f[i - 1], i) ELSE f[i - 1]
                  /\ f[Len(world)] = StartEach(s, set)
<1> DEFINE n == Len(world)
           B(acc, i) == IF i \in set THEN StartAuto(acc, i) ELSE acc
           Run(k, f) == f = [i \in 0..k |-> IF i = 0 THEN s ELSE B(f[i - 1], i)]
           after == CHOOSE f : Run(n, f)
<1>1. n \in Nat
  BY WorldIsFinite
<1>2. Run(n, after)
  <2> HIDE DEF B, n
  <2> DEFINE S == {k \in Nat : \E f : Run(k, f)}
  <2>1. 0 \in S
    <3>1. Run(0, [i \in 0..0 |-> s])
      OBVIOUS
    <3> QED BY <3>1
  <2>2. ASSUME NEW k \in Nat, k \in S PROVE k + 1 \in S
    <3>1. PICK f : Run(k, f)
      BY <2>2
    <3> DEFINE g == [i \in 0..(k + 1) |-> IF i <= k THEN f[i] ELSE B(f[k], i)]
    <3>2. Run(k + 1, g)
      BY <3>1
    <3> HIDE DEF g, Run
    <3> QED BY <3>2
  <2> HIDE DEF S
  <2>3. n \in S
    BY <1>1, <2>1, <2>2, Induction
  <2> QED BY <2>3 DEF S
<1>3. after[0] = s /\ \A i \in 1..n : after[i] = B(after[i - 1], i)
  <2> HIDE DEF B, n, after
  <2> QED BY <1>1, <1>2
<1>4. CASE set = {}
  <2> DEFINE idle == [i \in 0..n |-> s]
  <2>1. idle[0] = s /\ (\A i \in 1..n : idle[i] = idle[i - 1]) /\ idle[n] = s
    BY <1>1
  <2>2. StartEach(s, set) = s
    BY <1>4 DEF StartEach, ForEach
  <2> HIDE DEF idle
  <2> QED BY <1>4, <2>1, <2>2
<1>5. CASE set # {}
  <2>1. after[n] = StartEach(s, set)
    BY <1>5 DEF StartEach, ForEach, Loop
  <2> QED BY <1>3, <2>1 DEF B
<1> QED BY <1>4, <1>5

FireDueTimes(s) ==
  Loop(LAMBDA acc, i : FireDue(acc), MaxEvents, s)

LEMMA FireDueTimesRun ==
    ASSUME NEW s
    PROVE  \E f : /\ f[0] = s
                  /\ \A i \in 1..MaxEvents : f[i] = FireDue(f[i - 1])
                  /\ f[MaxEvents] = FireDueTimes(s)
<1> DEFINE n == MaxEvents
           B(acc, i) == FireDue(acc)
           Run(k, f) == f = [i \in 0..k |-> IF i = 0 THEN s ELSE B(f[i - 1], i)]
           after == CHOOSE f : Run(n, f)
<1>1. n \in Nat
  BY MaxEventsAssumption
<1>2. Run(n, after)
  <2> HIDE DEF B, n
  <2> DEFINE S == {k \in Nat : \E f : Run(k, f)}
  <2>1. 0 \in S
    <3>1. Run(0, [i \in 0..0 |-> s])
      OBVIOUS
    <3> QED BY <3>1
  <2>2. ASSUME NEW k \in Nat, k \in S PROVE k + 1 \in S
    <3>1. PICK f : Run(k, f)
      BY <2>2
    <3> DEFINE g == [i \in 0..(k + 1) |-> IF i <= k THEN f[i] ELSE B(f[k], i)]
    <3>2. Run(k + 1, g)
      BY <3>1
    <3> HIDE DEF g, Run
    <3> QED BY <3>2
  <2> HIDE DEF S
  <2>3. n \in S
    BY <1>1, <2>1, <2>2, Induction
  <2> QED BY <2>3 DEF S
<1>3. after[0] = s /\ \A i \in 1..n : after[i] = B(after[i - 1], i)
  <2> HIDE DEF B, n, after
  <2> QED BY <1>1, <1>2
<1>4. after[n] = FireDueTimes(s)
  BY DEF FireDueTimes, Loop
<1> QED BY <1>3, <1>4 DEF B

ChangeEach(s, set) ==
  ForEach(AdvanceTrackChange, set, s)

LEMMA ChangeEachRun ==
    ASSUME World, NEW s, NEW set
    PROVE  \E f : /\ f[0] = s
                  /\ \A i \in 1..Len(world) : f[i] = IF i \in set THEN AdvanceTrackChange(f[i - 1], i) ELSE f[i - 1]
                  /\ f[Len(world)] = ChangeEach(s, set)
<1> DEFINE n == Len(world)
           B(acc, i) == IF i \in set THEN AdvanceTrackChange(acc, i) ELSE acc
           Run(k, f) == f = [i \in 0..k |-> IF i = 0 THEN s ELSE B(f[i - 1], i)]
           after == CHOOSE f : Run(n, f)
<1>1. n \in Nat
  BY WorldIsFinite
<1>2. Run(n, after)
  <2> HIDE DEF B, n
  <2> DEFINE S == {k \in Nat : \E f : Run(k, f)}
  <2>1. 0 \in S
    <3>1. Run(0, [i \in 0..0 |-> s])
      OBVIOUS
    <3> QED BY <3>1
  <2>2. ASSUME NEW k \in Nat, k \in S PROVE k + 1 \in S
    <3>1. PICK f : Run(k, f)
      BY <2>2
    <3> DEFINE g == [i \in 0..(k + 1) |-> IF i <= k THEN f[i] ELSE B(f[k], i)]
    <3>2. Run(k + 1, g)
      BY <3>1
    <3> HIDE DEF g, Run
    <3> QED BY <3>2
  <2> HIDE DEF S
  <2>3. n \in S
    BY <1>1, <2>1, <2>2, Induction
  <2> QED BY <2>3 DEF S
<1>3. after[0] = s /\ \A i \in 1..n : after[i] = B(after[i - 1], i)
  <2> HIDE DEF B, n, after
  <2> QED BY <1>1, <1>2
<1>4. CASE set = {}
  <2> DEFINE idle == [i \in 0..n |-> s]
  <2>1. idle[0] = s /\ (\A i \in 1..n : idle[i] = idle[i - 1]) /\ idle[n] = s
    BY <1>1
  <2>2. ChangeEach(s, set) = s
    BY <1>4 DEF ChangeEach, ForEach
  <2> HIDE DEF idle
  <2> QED BY <1>4, <2>1, <2>2
<1>5. CASE set # {}
  <2>1. after[n] = ChangeEach(s, set)
    BY <1>5 DEF ChangeEach, ForEach, Loop
  <2> QED BY <1>3, <2>1 DEF B
<1> QED BY <1>4, <1>5

FinishEach(s, set) ==
  ForEach(FinishTrackChange, set, s)

LEMMA FinishEachRun ==
    ASSUME World, NEW s, NEW set
    PROVE  \E f : /\ f[0] = s
                  /\ \A i \in 1..Len(world) : f[i] = IF i \in set THEN FinishTrackChange(f[i - 1], i) ELSE f[i - 1]
                  /\ f[Len(world)] = FinishEach(s, set)
<1> DEFINE n == Len(world)
           B(acc, i) == IF i \in set THEN FinishTrackChange(acc, i) ELSE acc
           Run(k, f) == f = [i \in 0..k |-> IF i = 0 THEN s ELSE B(f[i - 1], i)]
           after == CHOOSE f : Run(n, f)
<1>1. n \in Nat
  BY WorldIsFinite
<1>2. Run(n, after)
  <2> HIDE DEF B, n
  <2> DEFINE S == {k \in Nat : \E f : Run(k, f)}
  <2>1. 0 \in S
    <3>1. Run(0, [i \in 0..0 |-> s])
      OBVIOUS
    <3> QED BY <3>1
  <2>2. ASSUME NEW k \in Nat, k \in S PROVE k + 1 \in S
    <3>1. PICK f : Run(k, f)
      BY <2>2
    <3> DEFINE g == [i \in 0..(k + 1) |-> IF i <= k THEN f[i] ELSE B(f[k], i)]
    <3>2. Run(k + 1, g)
      BY <3>1
    <3> HIDE DEF g, Run
    <3> QED BY <3>2
  <2> HIDE DEF S
  <2>3. n \in S
    BY <1>1, <2>1, <2>2, Induction
  <2> QED BY <2>3 DEF S
<1>3. after[0] = s /\ \A i \in 1..n : after[i] = B(after[i - 1], i)
  <2> HIDE DEF B, n, after
  <2> QED BY <1>1, <1>2
<1>4. CASE set = {}
  <2> DEFINE idle == [i \in 0..n |-> s]
  <2>1. idle[0] = s /\ (\A i \in 1..n : idle[i] = idle[i - 1]) /\ idle[n] = s
    BY <1>1
  <2>2. FinishEach(s, set) = s
    BY <1>4 DEF FinishEach, ForEach
  <2> HIDE DEF idle
  <2> QED BY <1>4, <2>1, <2>2
<1>5. CASE set # {}
  <2>1. after[n] = FinishEach(s, set)
    BY <1>5 DEF FinishEach, ForEach, Loop
  <2> QED BY <1>3, <2>1 DEF B
<1> QED BY <1>4, <1>5

CameraEach(s, set) ==
  ForEach(LAMBDA acc, i : FireTarget(acc, i, i, 0, "toggle"), set, s)

LEMMA CameraEachRun ==
    ASSUME World, NEW s, NEW set
    PROVE  \E f : /\ f[0] = s
                  /\ \A i \in 1..Len(world) : f[i] = IF i \in set THEN FireTarget(f[i - 1], i, i, 0, "toggle") ELSE f[i - 1]
                  /\ f[Len(world)] = CameraEach(s, set)
<1> DEFINE n == Len(world)
           B(acc, i) == IF i \in set THEN FireTarget(acc, i, i, 0, "toggle") ELSE acc
           Run(k, f) == f = [i \in 0..k |-> IF i = 0 THEN s ELSE B(f[i - 1], i)]
           after == CHOOSE f : Run(n, f)
<1>1. n \in Nat
  BY WorldIsFinite
<1>2. Run(n, after)
  <2> HIDE DEF B, n
  <2> DEFINE S == {k \in Nat : \E f : Run(k, f)}
  <2>1. 0 \in S
    <3>1. Run(0, [i \in 0..0 |-> s])
      OBVIOUS
    <3> QED BY <3>1
  <2>2. ASSUME NEW k \in Nat, k \in S PROVE k + 1 \in S
    <3>1. PICK f : Run(k, f)
      BY <2>2
    <3> DEFINE g == [i \in 0..(k + 1) |-> IF i <= k THEN f[i] ELSE B(f[k], i)]
    <3>2. Run(k + 1, g)
      BY <3>1
    <3> HIDE DEF g, Run
    <3> QED BY <3>2
  <2> HIDE DEF S
  <2>3. n \in S
    BY <1>1, <2>1, <2>2, Induction
  <2> QED BY <2>3 DEF S
<1>3. after[0] = s /\ \A i \in 1..n : after[i] = B(after[i - 1], i)
  <2> HIDE DEF B, n, after
  <2> QED BY <1>1, <1>2
<1>4. CASE set = {}
  <2> DEFINE idle == [i \in 0..n |-> s]
  <2>1. idle[0] = s /\ (\A i \in 1..n : idle[i] = idle[i - 1]) /\ idle[n] = s
    BY <1>1
  <2>2. CameraEach(s, set) = s
    BY <1>4 DEF CameraEach, ForEach
  <2> HIDE DEF idle
  <2> QED BY <1>4, <2>1, <2>2
<1>5. CASE set # {}
  <2>1. after[n] = CameraEach(s, set)
    BY <1>5 DEF CameraEach, ForEach, Loop
  <2> QED BY <1>3, <2>1 DEF B
<1> QED BY <1>4, <1>5

PassOn(acc, e, name) == IF name = "" THEN acc ELSE Fire(Sends(acc, e), name, e, 0, "toggle")

LEMMA FirePassedRun ==
    ASSUME NEW s, NEW e, NEW fired, Len(fired) \in Nat
    PROVE  \E f : /\ f[0] = s
                  /\ \A i \in 1..Len(fired) : f[i] = PassOn(f[i - 1], e, fired[i])
                  /\ f[Len(fired)] = FirePassed(s, e, fired)
<1> DEFINE n == Len(fired)
           B(acc, i) == PassOn(acc, e, fired[i])
           Run(k, f) == f = [i \in 0..k |-> IF i = 0 THEN s ELSE B(f[i - 1], i)]
           after == CHOOSE f : Run(n, f)
<1>1. n \in Nat
  OBVIOUS
<1>2. Run(n, after)
  <2> HIDE DEF B, n
  <2> DEFINE S == {k \in Nat : \E f : Run(k, f)}
  <2>1. 0 \in S
    <3>1. Run(0, [i \in 0..0 |-> s])
      OBVIOUS
    <3> QED BY <3>1
  <2>2. ASSUME NEW k \in Nat, k \in S PROVE k + 1 \in S
    <3>1. PICK f : Run(k, f)
      BY <2>2
    <3> DEFINE g == [i \in 0..(k + 1) |-> IF i <= k THEN f[i] ELSE B(f[k], i)]
    <3>2. Run(k + 1, g)
      BY <3>1
    <3> HIDE DEF g, Run
    <3> QED BY <3>2
  <2> HIDE DEF S
  <2>3. n \in S
    BY <1>1, <2>1, <2>2, Induction
  <2> QED BY <2>3 DEF S
<1>3. after[0] = s /\ \A i \in 1..n : after[i] = B(after[i - 1], i)
  <2> HIDE DEF B, n, after
  <2> QED BY <1>1, <1>2
<1>4. after[n] = FirePassed(s, e, fired)
  BY DEF FirePassed, Loop, PassOn
<1> QED BY <1>3, <1>4 DEF B

PassEach(s, set, ride) ==
  ForEach(LAMBDA acc, i : FirePassed(acc, i, ride[i].fired), set, s)

LEMMA PassEachRun ==
    ASSUME World, NEW s, NEW set, NEW ride
    PROVE  \E f : /\ f[0] = s
                  /\ \A i \in 1..Len(world) : f[i] = IF i \in set THEN FirePassed(f[i - 1], i, ride[i].fired) ELSE f[i - 1]
                  /\ f[Len(world)] = PassEach(s, set, ride)
<1> DEFINE n == Len(world)
           B(acc, i) == IF i \in set THEN FirePassed(acc, i, ride[i].fired) ELSE acc
           Run(k, f) == f = [i \in 0..k |-> IF i = 0 THEN s ELSE B(f[i - 1], i)]
           after == CHOOSE f : Run(n, f)
<1>1. n \in Nat
  BY WorldIsFinite
<1>2. Run(n, after)
  <2> HIDE DEF B, n
  <2> DEFINE S == {k \in Nat : \E f : Run(k, f)}
  <2>1. 0 \in S
    <3>1. Run(0, [i \in 0..0 |-> s])
      OBVIOUS
    <3> QED BY <3>1
  <2>2. ASSUME NEW k \in Nat, k \in S PROVE k + 1 \in S
    <3>1. PICK f : Run(k, f)
      BY <2>2
    <3> DEFINE g == [i \in 0..(k + 1) |-> IF i <= k THEN f[i] ELSE B(f[k], i)]
    <3>2. Run(k + 1, g)
      BY <3>1
    <3> HIDE DEF g, Run
    <3> QED BY <3>2
  <2> HIDE DEF S
  <2>3. n \in S
    BY <1>1, <2>1, <2>2, Induction
  <2> QED BY <2>3 DEF S
<1>3. after[0] = s /\ \A i \in 1..n : after[i] = B(after[i - 1], i)
  <2> HIDE DEF B, n, after
  <2> QED BY <1>1, <1>2
<1>4. CASE set = {}
  <2> DEFINE idle == [i \in 0..n |-> s]
  <2>1. idle[0] = s /\ (\A i \in 1..n : idle[i] = idle[i - 1]) /\ idle[n] = s
    BY <1>1
  <2>2. PassEach(s, set, ride) = s
    BY <1>4 DEF PassEach, ForEach
  <2> HIDE DEF idle
  <2> QED BY <1>4, <2>1, <2>2
<1>5. CASE set # {}
  <2>1. after[n] = PassEach(s, set, ride)
    BY <1>5 DEF PassEach, ForEach, Loop
  <2> QED BY <1>3, <2>1 DEF B
<1> QED BY <1>4, <1>5

DamageEach(s, set) ==
  ForEach(Damage, set, s)

LEMMA DamageEachRun ==
    ASSUME World, NEW s, NEW set
    PROVE  \E f : /\ f[0] = s
                  /\ \A i \in 1..Len(world) : f[i] = IF i \in set THEN Damage(f[i - 1], i) ELSE f[i - 1]
                  /\ f[Len(world)] = DamageEach(s, set)
<1> DEFINE n == Len(world)
           B(acc, i) == IF i \in set THEN Damage(acc, i) ELSE acc
           Run(k, f) == f = [i \in 0..k |-> IF i = 0 THEN s ELSE B(f[i - 1], i)]
           after == CHOOSE f : Run(n, f)
<1>1. n \in Nat
  BY WorldIsFinite
<1>2. Run(n, after)
  <2> HIDE DEF B, n
  <2> DEFINE S == {k \in Nat : \E f : Run(k, f)}
  <2>1. 0 \in S
    <3>1. Run(0, [i \in 0..0 |-> s])
      OBVIOUS
    <3> QED BY <3>1
  <2>2. ASSUME NEW k \in Nat, k \in S PROVE k + 1 \in S
    <3>1. PICK f : Run(k, f)
      BY <2>2
    <3> DEFINE g == [i \in 0..(k + 1) |-> IF i <= k THEN f[i] ELSE B(f[k], i)]
    <3>2. Run(k + 1, g)
      BY <3>1
    <3> HIDE DEF g, Run
    <3> QED BY <3>2
  <2> HIDE DEF S
  <2>3. n \in S
    BY <1>1, <2>1, <2>2, Induction
  <2> QED BY <2>3 DEF S
<1>3. after[0] = s /\ \A i \in 1..n : after[i] = B(after[i - 1], i)
  <2> HIDE DEF B, n, after
  <2> QED BY <1>1, <1>2
<1>4. CASE set = {}
  <2> DEFINE idle == [i \in 0..n |-> s]
  <2>1. idle[0] = s /\ (\A i \in 1..n : idle[i] = idle[i - 1]) /\ idle[n] = s
    BY <1>1
  <2>2. DamageEach(s, set) = s
    BY <1>4 DEF DamageEach, ForEach
  <2> HIDE DEF idle
  <2> QED BY <1>4, <2>1, <2>2
<1>5. CASE set # {}
  <2>1. after[n] = DamageEach(s, set)
    BY <1>5 DEF DamageEach, ForEach, Loop
  <2> QED BY <1>3, <2>1 DEF B
<1> QED BY <1>4, <1>5

LayOnto(acc, e, c) == ApplyOntoExisting(acc, e, c)

OntoEach(s, set, c) ==
  ForEach(LAMBDA acc, i : LayOnto(acc, i, c), set, s)

OntoGoes(f, s, set, c) ==
  /\ f[0] = s
  /\ \A i \in 1..Len(world) : f[i] = IF i \in set THEN LayOnto(f[i - 1], i, c) ELSE f[i - 1]
  /\ f[Len(world)] = OntoEach(s, set, c)

LEMMA OntoEachRun ==
    ASSUME World, NEW s, NEW set, NEW c
    PROVE  \E f : OntoGoes(f, s, set, c)
<1> DEFINE n == Len(world)
           B(acc, i) == IF i \in set THEN LayOnto(acc, i, c) ELSE acc
           Run(k, f) == f = [i \in 0..k |-> IF i = 0 THEN s ELSE B(f[i - 1], i)]
           after == CHOOSE f : Run(n, f)
<1>1. n \in Nat
  BY WorldIsFinite
<1>2. Run(n, after)
  <2> HIDE DEF B, n
  <2> DEFINE S == {k \in Nat : \E f : Run(k, f)}
  <2>1. 0 \in S
    <3>1. Run(0, [i \in 0..0 |-> s])
      OBVIOUS
    <3> QED BY <3>1
  <2>2. ASSUME NEW k \in Nat, k \in S PROVE k + 1 \in S
    <3>1. PICK f : Run(k, f)
      BY <2>2
    <3> DEFINE g == [i \in 0..(k + 1) |-> IF i <= k THEN f[i] ELSE B(f[k], i)]
    <3>2. Run(k + 1, g)
      BY <3>1
    <3> HIDE DEF g, Run
    <3> QED BY <3>2
  <2> HIDE DEF S
  <2>3. n \in S
    BY <1>1, <2>1, <2>2, Induction
  <2> QED BY <2>3 DEF S
<1>3. after[0] = s /\ \A i \in 1..n : after[i] = B(after[i - 1], i)
  <2> HIDE DEF B, n, after
  <2> QED BY <1>1, <1>2
<1>4. CASE set = {}
  <2> DEFINE idle == [i \in 0..n |-> s]
  <2>1. idle[0] = s /\ (\A i \in 1..n : idle[i] = idle[i - 1]) /\ idle[n] = s
    BY <1>1
  <2>2. OntoEach(s, set, c) = s
    BY <1>4 DEF OntoEach, ForEach
  <2> HIDE DEF idle
  <2> QED BY <1>4, <2>1, <2>2 DEF OntoGoes
<1>5. CASE set # {}
  <2>1. after[n] = OntoEach(s, set, c)
    BY <1>5 DEF OntoEach, ForEach, Loop
  <2> QED BY <1>3, <2>1 DEF B, OntoGoes
<1> QED BY <1>4, <1>5

SeatCarried(acc, e, c) ==
  LET put == ApplyOntoExisting(acc, e, c)
  IN IF world[e].kind # "train" \/ c.ride = {} THEN put
     ELSE [put EXCEPT !.train[e] = RestoreTrackTrain(@, CHOOSE r \in c.ride : TRUE)]
SeatEach(s, set, c) ==
  ForEach(LAMBDA acc, i : SeatCarried(acc, i, c), set, s)

SeatGoes(f, s, set, c) ==
  /\ f[0] = s
  /\ \A i \in 1..Len(world) : f[i] = IF i \in set THEN SeatCarried(f[i - 1], i, c) ELSE f[i - 1]
  /\ f[Len(world)] = SeatEach(s, set, c)

LEMMA SeatEachRun ==
    ASSUME World, NEW s, NEW set, NEW c
    PROVE  \E f : SeatGoes(f, s, set, c)
<1> DEFINE n == Len(world)
           B(acc, i) == IF i \in set THEN SeatCarried(acc, i, c) ELSE acc
           Run(k, f) == f = [i \in 0..k |-> IF i = 0 THEN s ELSE B(f[i - 1], i)]
           after == CHOOSE f : Run(n, f)
<1>1. n \in Nat
  BY WorldIsFinite
<1>2. Run(n, after)
  <2> HIDE DEF B, n
  <2> DEFINE S == {k \in Nat : \E f : Run(k, f)}
  <2>1. 0 \in S
    <3>1. Run(0, [i \in 0..0 |-> s])
      OBVIOUS
    <3> QED BY <3>1
  <2>2. ASSUME NEW k \in Nat, k \in S PROVE k + 1 \in S
    <3>1. PICK f : Run(k, f)
      BY <2>2
    <3> DEFINE g == [i \in 0..(k + 1) |-> IF i <= k THEN f[i] ELSE B(f[k], i)]
    <3>2. Run(k + 1, g)
      BY <3>1
    <3> HIDE DEF g, Run
    <3> QED BY <3>2
  <2> HIDE DEF S
  <2>3. n \in S
    BY <1>1, <2>1, <2>2, Induction
  <2> QED BY <2>3 DEF S
<1>3. after[0] = s /\ \A i \in 1..n : after[i] = B(after[i - 1], i)
  <2> HIDE DEF B, n, after
  <2> QED BY <1>1, <1>2
<1>4. CASE set = {}
  <2> DEFINE idle == [i \in 0..n |-> s]
  <2>1. idle[0] = s /\ (\A i \in 1..n : idle[i] = idle[i - 1]) /\ idle[n] = s
    BY <1>1
  <2>2. SeatEach(s, set, c) = s
    BY <1>4 DEF SeatEach, ForEach
  <2> HIDE DEF idle
  <2> QED BY <1>4, <2>1, <2>2 DEF SeatGoes
<1>5. CASE set # {}
  <2>1. after[n] = SeatEach(s, set, c)
    BY <1>5 DEF SeatEach, ForEach, Loop
  <2> QED BY <1>3, <2>1 DEF B, SeatGoes
<1> QED BY <1>4, <1>5

LEMMA MovesInRun ==
    ASSUME NEW t, NEW s, t.last \in Nat
    PROVE  \E f : /\ f[0] = s
                  /\ \A i \in 1..t.last : f[i] = IF i \in DOMAIN t.movers THEN ApplyMover(f[i - 1], t.movers[i]) ELSE f[i - 1]
                  /\ f[t.last] = MovesIn(t, s)
<1> DEFINE n == t.last
           B(acc, i) == IF i \in DOMAIN t.movers THEN ApplyMover(acc, t.movers[i]) ELSE acc
           Run(k, f) == f = [i \in 0..k |-> IF i = 0 THEN s ELSE B(f[i - 1], i)]
           after == CHOOSE f : Run(n, f)
<1>1. n \in Nat
  OBVIOUS
<1>2. Run(n, after)
  <2> HIDE DEF B, n
  <2> DEFINE S == {k \in Nat : \E f : Run(k, f)}
  <2>1. 0 \in S
    <3>1. Run(0, [i \in 0..0 |-> s])
      OBVIOUS
    <3> QED BY <3>1
  <2>2. ASSUME NEW k \in Nat, k \in S PROVE k + 1 \in S
    <3>1. PICK f : Run(k, f)
      BY <2>2
    <3> DEFINE g == [i \in 0..(k + 1) |-> IF i <= k THEN f[i] ELSE B(f[k], i)]
    <3>2. Run(k + 1, g)
      BY <3>1
    <3> HIDE DEF g, Run
    <3> QED BY <3>2
  <2> HIDE DEF S
  <2>3. n \in S
    BY <1>1, <2>1, <2>2, Induction
  <2> QED BY <2>3 DEF S
<1>3. after[0] = s /\ \A i \in 1..n : after[i] = B(after[i - 1], i)
  <2> HIDE DEF B, n, after
  <2> QED BY <1>1, <1>2
<1>4. after[n] = MovesIn(t, s)
  BY DEF MovesIn, Loop
<1> QED BY <1>3, <1>4 DEF B

LEMMA CarriesInRun ==
    ASSUME NEW t, NEW s, t.last \in Nat
    PROVE  \E f : /\ f[0] = s
                  /\ \A i \in 1..t.last : f[i] = IF i \in DOMAIN t.entities THEN ApplyCarried(f[i - 1], t.entities[i]) ELSE f[i - 1]
                  /\ f[t.last] = CarriesIn(t, s)
<1> DEFINE n == t.last
           B(acc, i) == IF i \in DOMAIN t.entities THEN ApplyCarried(acc, t.entities[i]) ELSE acc
           Run(k, f) == f = [i \in 0..k |-> IF i = 0 THEN s ELSE B(f[i - 1], i)]
           after == CHOOSE f : Run(n, f)
<1>1. n \in Nat
  OBVIOUS
<1>2. Run(n, after)
  <2> HIDE DEF B, n
  <2> DEFINE S == {k \in Nat : \E f : Run(k, f)}
  <2>1. 0 \in S
    <3>1. Run(0, [i \in 0..0 |-> s])
      OBVIOUS
    <3> QED BY <3>1
  <2>2. ASSUME NEW k \in Nat, k \in S PROVE k + 1 \in S
    <3>1. PICK f : Run(k, f)
      BY <2>2
    <3> DEFINE g == [i \in 0..(k + 1) |-> IF i <= k THEN f[i] ELSE B(f[k], i)]
    <3>2. Run(k + 1, g)
      BY <3>1
    <3> HIDE DEF g, Run
    <3> QED BY <3>2
  <2> HIDE DEF S
  <2>3. n \in S
    BY <1>1, <2>1, <2>2, Induction
  <2> QED BY <2>3 DEF S
<1>3. after[0] = s /\ \A i \in 1..n : after[i] = B(after[i - 1], i)
  <2> HIDE DEF B, n, after
  <2> QED BY <1>1, <1>2
<1>4. after[n] = CarriesIn(t, s)
  BY DEF CarriesIn, Loop
<1> QED BY <1>3, <1>4 DEF B

RideTimes(s) ==
  Loop(RideOn, MaxTransitions, s)

LEMMA RideTimesRun ==
    ASSUME NEW s
    PROVE  \E f : /\ f[0] = s
                  /\ \A i \in 1..MaxTransitions : f[i] = RideOn(f[i - 1], i)
                  /\ f[MaxTransitions] = RideTimes(s)
<1> DEFINE n == MaxTransitions
           B(acc, i) == RideOn(acc, i)
           Run(k, f) == f = [i \in 0..k |-> IF i = 0 THEN s ELSE B(f[i - 1], i)]
           after == CHOOSE f : Run(n, f)
<1>1. n \in Nat
  BY MaxTransitionsAssumption
<1>2. Run(n, after)
  <2> HIDE DEF B, n
  <2> DEFINE S == {k \in Nat : \E f : Run(k, f)}
  <2>1. 0 \in S
    <3>1. Run(0, [i \in 0..0 |-> s])
      OBVIOUS
    <3> QED BY <3>1
  <2>2. ASSUME NEW k \in Nat, k \in S PROVE k + 1 \in S
    <3>1. PICK f : Run(k, f)
      BY <2>2
    <3> DEFINE g == [i \in 0..(k + 1) |-> IF i <= k THEN f[i] ELSE B(f[k], i)]
    <3>2. Run(k + 1, g)
      BY <3>1
    <3> HIDE DEF g, Run
    <3> QED BY <3>2
  <2> HIDE DEF S
  <2>3. n \in S
    BY <1>1, <2>1, <2>2, Induction
  <2> QED BY <2>3 DEF S
<1>3. after[0] = s /\ \A i \in 1..n : after[i] = B(after[i - 1], i)
  <2> HIDE DEF B, n, after
  <2> QED BY <1>1, <1>2
<1>4. after[n] = RideTimes(s)
  BY DEF RideTimes, Loop
<1> QED BY <1>3, <1>4 DEF B

-----------------------------------------------------------------------------
(* The operators of a step, in terms of their loops. *)

ManagerStart(s, e) ==
  LET longest == Loop(LAMBDA m, i : Most(m, world[e].fans[i][2]), Len(world[e].fans), 0)
  IN [Sends(s, e) EXCEPT !.busy[e] = IF longest > 0 THEN longest ELSE @]

Noticed(s) ==
  [s EXCEPT !.level = [e \in Entities |->
     CASE e \notin Touchable("changelevel") -> @[e]
       [] e \in Touched("changelevel", s.pos) -> "in"
       [] OTHER -> "out"]]
Entered(s) == {e \in Touched("changelevel", s.pos) : Enters(s, e)}

Inside(s) == {e \in OfKind(TriggerKinds) : Overlaps(e, s.pos)}
Beams(s) == {e \in Inside(s) : world[e].kind = "teleport" /\ MasterIsActive(s, e)}
Stepped(s) == {e \in Inside(s) : world[e].kind # "teleport"} \cup (Beams(s) \ s.telTouch)

Autos(s) == {e \in Live(s, {"auto"}) \ s.autoFired : world[e].target # ""}
Sooner(s) ==
  [s EXCEPT !.pending = Nearer(@)]

Going(s) == {e \in Live(s, {"trackchange"}) : s.change[e].moving}
Arrived(s) == {e \in Going(s) : ~ChangeEach(s, Going(s)).change[e].moving}

Over(s) == {e \in Live(s, {"camera"}) : s.camera[e] \in {0, 1}}
Held(s) ==
  [s EXCEPT !.camera = [e \in Entities |-> IF e \in Over(s) THEN -1 ELSE Most(@[e] - 1, -1)]]

Riding(s) == [e \in Live(s, {"train"}) |-> AdvanceFiring(s.train[e])]
Ridden(s) ==
  [s EXCEPT !.train = [e \in DOMAIN @ |->
     IF e \in Live(s, {"train"}) THEN Riding(s)[e].train ELSE @[e]]]
Passing(s) == {e \in Live(s, {"train"}) : Riding(s)[e].train.node # s.train[e].node}

LEMMA StepLoops ==
    ASSUME NEW s, NEW e, NEW who, NEW kind, NEW input
    PROVE  /\ ActivateManager(s, e, who) =
                IF ~world[e].multithreaded /\ s.busy[e] > 0 THEN s
                ELSE ScheduleFans(ManagerStart(s, e), e, who)
           /\ AdvanceMovers(s, kind) = ReleaseEach(Cycled(s, kind), Firing(s, kind))
           /\ TouchChangelevel(s) = RaiseEach(Noticed(s), Entered(s))
           /\ TouchTriggers(s) =
                TouchPlatrots(TouchBreakables(TouchRotButtons(TouchChangelevel(
                  TouchEach([s EXCEPT !.telTouch = Beams(s)], Stepped(s))))))
           /\ TouchBreakables(s) =
                BreakEach(s, {b \in Touched("breakable", s.pos) : b \notin s.broken})
           /\ MonsterTouchesDoors(s) =
                [MonsterTouchEach(s, OfKind({"monster"}), Touched("door", s.monster) \ s.monsterTouch)
                   EXCEPT !.monsterTouch = Touched("door", s.monster)]
           /\ FireAutoTriggers(s) = StartEach(s, Autos(s))
           /\ AdvanceQueue(s) = FireDueTimes(Sooner(s))
           /\ AdvanceTrackChanges(s) = FinishEach(ChangeEach(s, Going(s)), Arrived(s))
           /\ AdvanceCameras(s) = CameraEach(Held(s), Over(s))
           /\ AdvanceTrains(s) =
                PassEach(ResplicedTrains(Ridden(s), Passing(s)), Live(s, {"train"}), Riding(s))
           /\ FixedStep(s, input) = Phase12(DamageEach(s, input.shot \cap Damageable), input)
<1>1. ActivateManager(s, e, who) =
        IF ~world[e].multithreaded /\ s.busy[e] > 0 THEN s
        ELSE ScheduleFans(ManagerStart(s, e), e, who)
  BY SMTT(40) DEF ActivateManager, ScheduleFans, ManagerStart
<1>2. AdvanceMovers(s, kind) = ReleaseEach(Cycled(s, kind), Firing(s, kind))
  BY DEF AdvanceMovers, ReleaseEach
<1>3. TouchChangelevel(s) = RaiseEach(Noticed(s), Entered(s))
  BY DEF TouchChangelevel, RaiseEach, Noticed, Entered
<1>4. TouchTriggers(s) =
        TouchPlatrots(TouchBreakables(TouchRotButtons(TouchChangelevel(
          TouchEach([s EXCEPT !.telTouch = Beams(s)], Stepped(s))))))
  BY DEF TouchTriggers, TouchEach, TouchTrigger, Beams, Stepped, Inside
<1>5. TouchBreakables(s) =
        BreakEach(s, {b \in Touched("breakable", s.pos) : b \notin s.broken})
  BY DEF TouchBreakables, BreakEach
<1>6. MonsterTouchesDoors(s) =
        [MonsterTouchEach(s, OfKind({"monster"}), Touched("door", s.monster) \ s.monsterTouch)
           EXCEPT !.monsterTouch = Touched("door", s.monster)]
  BY DEF MonsterTouchesDoors, MonsterTouchEach
<1>7. FireAutoTriggers(s) = StartEach(s, Autos(s))
  BY DEF FireAutoTriggers, StartEach, StartAuto, Autos
<1>8. AdvanceQueue(s) = FireDueTimes(Sooner(s))
  BY DEF AdvanceQueue, FireDueTimes, Sooner
<1>9. AdvanceTrackChanges(s) = FinishEach(ChangeEach(s, Going(s)), Arrived(s))
  BY DEF AdvanceTrackChanges, ChangeEach, FinishEach, Going, Arrived
<1>10. AdvanceCameras(s) = CameraEach(Held(s), Over(s))
  BY DEF AdvanceCameras, CameraEach, Held, Over
<1>11. AdvanceTrains(s) =
         PassEach(ResplicedTrains(Ridden(s), Passing(s)), Live(s, {"train"}), Riding(s))
  BY DEF AdvanceTrains, PassEach, FirePassed, Ridden, Passing, Riding
<1>12. FixedStep(s, input) = Phase12(DamageEach(s, input.shot \cap Damageable), input)
  BY DEF FixedStep, DamageEach
<1> QED BY <1>1, <1>2, <1>3, <1>4, <1>5, <1>6, <1>7, <1>8, <1>9, <1>10, <1>11, <1>12

-----------------------------------------------------------------------------
(* Trains and platforms. *)

LEMMA TrainOrNone ==
    ASSUME World, NEW e
    PROVE  NamedTrain(e) \in Trains \cup {0}
<1> DEFINE set == {f \in Find(world[e].train) : world[f].kind = "train"}
<1>1. set \subseteq Nat /\ set \subseteq Trains
  <2>1. set \subseteq Trains /\ set \subseteq Entities
    BY ZenonT(40) DEF Find, Trains, OfKind
  <2>2. Entities \subseteq Nat
    BY WorldIsFinite
  <2> QED BY <2>1, <2>2
<1>2. CASE set = {}
  BY <1>2 DEF NamedTrain, FirstOf
<1>3. CASE set # {}
  BY <1>1, <1>3, FirstIsLeast DEF NamedTrain
<1> QED BY <1>2, <1>3

\* Everything but the trains and the platforms, and what these are.
OnlyTrack(s, s1) ==
  /\ Shape(s1) /\ FreeAlike(s, s1) /\ SameTouch(s, s1) /\ SameQueue(s, s1)
  /\ s1.mover = s.mover /\ s1.captured = s.captured /\ s1.buttonHealth = s.buttonHealth
  /\ s1.on = s.on /\ s1.pos = s.pos /\ s1.monster = s.monster /\ s1.level = s.level
  /\ s1.changes = s.changes /\ s1.arrived = s.arrived
Tracked(s) ==
  /\ s.train = [e \in Trains |-> s.train[e]] /\ \A e \in Trains : IsTrain(s.train[e])
  /\ s.change = [e \in Platforms |-> s.change[e]]
  /\ \A e \in Platforms : IsPlatform(s.change[e])
TrackAlike(s, t) == s.train = t.train /\ s.change = t.change /\ s.thrown = t.thrown

LEMMA TrackMoves ==
    ASSUME NEW s, NEW t, Pair(s, t), NEW s1, NEW t1, OnlyTrack(s, s1), OnlyTrack(t, t1),
           s1.train = t1.train, s1.change = t1.change, OnTrack(s1)
    PROVE  Moves(s, t, s1, t1)
<1>1. Sound(s) /\ Shape(s) /\ Shape(t) /\ FreeAlike(s, t) /\ BodyAlike(s, t)
  BY DEF Pair, Sound, Alike
<1>2. FreeAlike(s1, t1) /\ BodyAlike(s1, t1)
  BY <1>1 DEF OnlyTrack, FreeAlike, BodyAlike
<1>5. Sound(s1)
  BY <1>1 DEF Sound, Placed, OnlyTrack, SameQueue
<1>6. Alike(s1, t1)
  BY <1>2 DEF Pair, Alike, OnlyTrack, SameQueue
<1>7. Len(s.changes) <= Len(s.changes)
  BY <1>1 DEF Sound, IsSequence
<1>8. Calm(s, s1) /\ StaysOff(s, s1)
  BY <1>7 DEF Calm, StaysOff, OnlyTrack
<1> QED BY <1>5, <1>6, <1>8 DEF Moves, Steps, Pair, OnlyTrack

LEMMA TrainOperators ==
    ASSUME NEW t, IsTrain(t)
    PROVE  /\ \A cruise, use : IsTrain(UseTrain(t, cruise, use))
                               /\ UseTrain(t, cruise, use).carry = t.carry
           /\ \A thrown : IsTrain(Resplice(t, thrown)) /\ Resplice(t, thrown).carry = t.carry
           /\ \A parks, ending, onward : IsTrain(HandOver(t, parks, ending, onward))
           /\ \A v : IsTrain([t EXCEPT !.carry = v])
<1>1. ASSUME NEW cruise, NEW use
      PROVE  IsTrain(UseTrain(t, cruise, use)) /\ UseTrain(t, cruise, use).carry = t.carry
  <2>1. IsTrain(TurnOn(t, cruise)) /\ TurnOn(t, cruise).carry = t.carry
    BY DEF IsTrain, TrainFields, TurnOn
  <2>2. IsTrain(TurnOff(t)) /\ TurnOff(t).carry = t.carry
    BY DEF IsTrain, TrainFields, TurnOff
  <2>3. UseTrain(t, cruise, use) \in {TurnOn(t, cruise), TurnOff(t)}
    BY DEF UseTrain
  <2> QED BY <2>1, <2>2, <2>3
<1>2. ASSUME NEW thrown PROVE IsTrain(Resplice(t, thrown)) /\ Resplice(t, thrown).carry = t.carry
  <2> DEFINE w == WalkOn(thrown, SubSeq(t.chain.nodes, 1, CommittedTo(t)))
             new == OntoWalk(t, w)
  <2>1. IsTrain(new) /\ new.carry = t.carry
    BY ZenonT(40) DEF IsTrain, TrainFields, OntoWalk
  <2>2. Resplice(t, thrown) = IF OnWrapSegment(t) THEN t ELSE TakeChain(t, new)
    BY DEF Resplice
  <2> HIDE DEF new
  <2>3. TakeChain(t, new) = t \/ TakeChain(t, new) = [new EXCEPT !.along = SameFraction(t, new)]
    BY DEF TakeChain
  <2>4. IsTrain(TakeChain(t, new)) /\ TakeChain(t, new).carry = t.carry
    BY <2>1, <2>3 DEF IsTrain, TrainFields
  <2> QED BY SMTT(40), <2>2, <2>4
<1>3. ASSUME NEW parks, NEW ending, NEW onward
      PROVE  IsTrain(HandOver(t, parks, ending, onward))
  <2>1. IsTrain(Relink(t, onward, TRUE)) /\ IsTrain(Relink(t, ending, FALSE))
    BY ZenonT(40) DEF IsTrain, TrainFields, Relink
  <2>2. IsTrain(RelinkAtEnd(t, ending, FALSE))
    BY <2>1 DEF IsTrain, TrainFields, RelinkAtEnd
  <2>3. IsTrain([t EXCEPT !.carry = 0])
    BY DEF IsTrain, TrainFields
  <2> QED BY <2>1, <2>2, <2>3 DEF HandOver
<1>4. \A v : IsTrain([t EXCEPT !.carry = v])
  BY DEF IsTrain, TrainFields
<1> QED BY <1>1, <1>2, <1>3, <1>4

LEMMA ResplicedMoves ==
    ASSUME NEW s, NEW t, Pair(s, t), NEW trains
    PROVE  Moves(s, t, ResplicedTrains(s, trains), ResplicedTrains(t, trains))
<1> DEFINE v == [e \in Trains |-> IF e \in trains THEN Resplice(s.train[e], s.thrown) ELSE s.train[e]]
           s1 == ResplicedTrains(s, trains)
           t1 == ResplicedTrains(t, trains)
<1>1. OnTrack(s) /\ Shape(s) /\ Shape(t) /\ s.train = t.train /\ s.thrown = t.thrown
      /\ s.change = t.change /\ DOMAIN s.train = Trains
  BY DEF Pair, Sound, Alike, BodyAlike, FreeAlike, OnTrack
<1>2. s1 = [s EXCEPT !.train = v] /\ t1 = [t EXCEPT !.train = v]
  BY <1>1 DEF ResplicedTrains
<1>3. \A e \in Trains : IsTrain(v[e]) /\ v[e].carry = s.train[e].carry
  BY <1>1, TrainOperators DEF OnTrack
<1>4. v = [e \in Trains |-> v[e]]
  OBVIOUS
<1> HIDE DEF v, s1, t1
<1>5. /\ OnlyTrack(s, s1) /\ OnlyTrack(t, t1) /\ s1.train = v /\ t1.train = v
      /\ s1.change = s.change /\ t1.change = s.change
  BY SMTT(40), <1>1, <1>2 DEF Shape, Fields, OnlyTrack, FreeAlike, SameTouch, SameQueue
<1>6. OnTrack(s1)
  BY <1>1, <1>3, <1>4, <1>5 DEF OnTrack, AllDocked
<1>7. Moves(s, t, s1, t1)
  BY <1>5, <1>6, TrackMoves
<1> QED BY <1>7 DEF s1, t1

LEMMA ThrowMoves ==
    ASSUME NEW s, NEW t, Pair(s, t), NEW e, NEW use
    PROVE  Moves(s, t, ThrowSwitch(s, e, use), ThrowSwitch(t, e, use))
<1> DEFINE v == CASE use = "on" -> s.thrown \cup {e}
                  [] use = "off" -> s.thrown \ {e}
                  [] OTHER -> IF e \in s.thrown THEN s.thrown \ {e} ELSE s.thrown \cup {e}
           s1 == [s EXCEPT !.thrown = v]
           t1 == [t EXCEPT !.thrown = v]
<1>1. Shape(s) /\ Shape(t) /\ FreeAlike(s, t) /\ s.thrown = t.thrown
  BY DEF Pair, Sound, Alike, FreeAlike
<1>2. /\ ThrowSwitch(s, e, use) = ResplicedTrains(s1, Live(s1, {"train"}))
      /\ ThrowSwitch(t, e, use) = ResplicedTrains(t1, Live(t1, {"train"}))
  BY <1>1 DEF ThrowSwitch
<1> HIDE DEF v
<1>3. SameBody(s, s1) /\ SameBody(t, t1) /\ SameQueue(s, s1) /\ SameQueue(t, t1)
  BY ZenonT(40), <1>1 DEF Shape, Fields, SameBody, BodyAlike, SameTouch, SameQueue
<1>4. FreeAlike(s1, t1)
  BY <1>1 DEF Shape, Fields, FreeAlike
<1> HIDE DEF s1, t1
<1>5. Moves(s, t, s1, t1) /\ Pair(s1, t1)
  BY <1>3, <1>4, FreeMoves DEF Moves, Steps
<1>6. Live(s1, {"train"}) = Live(t1, {"train"})
  BY <1>5, SameGuards
<1>7. Moves(s1, t1, ThrowSwitch(s, e, use), ThrowSwitch(t, e, use))
  BY <1>2, <1>5, <1>6, ResplicedMoves
<1> QED BY <1>5, <1>7, MovesTwice

LEMMA UseTrainMoves ==
    ASSUME NEW s, NEW t, Pair(s, t), NEW e \in Trains, NEW speed, NEW use
    PROVE  Moves(s, t, [s EXCEPT !.train[e] = UseTrain(@, speed, use)],
                       [t EXCEPT !.train[e] = UseTrain(@, speed, use)])
<1> DEFINE v == [s.train EXCEPT ![e] = UseTrain(@, speed, use)]
           s1 == [s EXCEPT !.train[e] = UseTrain(@, speed, use)]
           t1 == [t EXCEPT !.train[e] = UseTrain(@, speed, use)]
<1>1. OnTrack(s) /\ Shape(s) /\ Shape(t) /\ s.train = t.train /\ s.change = t.change
  BY DEF Pair, Sound, Alike, BodyAlike
<1>2. s1 = [s EXCEPT !.train = v] /\ t1 = [t EXCEPT !.train = v]
  BY <1>1
<1>3. /\ v = [f \in Trains |-> v[f]]
      /\ \A f \in Trains : IsTrain(v[f]) /\ v[f].carry = s.train[f].carry
  BY SMTT(40), <1>1, TrainOperators DEF OnTrack
<1> HIDE DEF v, s1, t1
<1>5. /\ OnlyTrack(s, s1) /\ OnlyTrack(t, t1) /\ s1.train = v /\ t1.train = v
      /\ s1.change = s.change /\ t1.change = s.change
  BY SMTT(40), <1>1, <1>2 DEF Shape, Fields, OnlyTrack, FreeAlike, SameTouch, SameQueue
<1>6. OnTrack(s1)
  BY <1>1, <1>3, <1>5 DEF OnTrack, AllDocked
<1>7. Moves(s, t, s1, t1)
  BY <1>5, <1>6, TrackMoves
<1> QED BY <1>7 DEF s1, t1

LEMMA FinishTracks ==
    ASSUME World, NEW s, Shape(s), Tracked(s), NEW e \in Platforms
    PROVE  LET s1 == FinishTrackChange(s, e)
           IN /\ OnlyTrack(s, s1) /\ Tracked(s1)
              /\ \A f \in Platforms : /\ s1.change[f].displaced = s.change[f].displaced
                                     /\ s1.change[f].dir = s.change[f].dir
              /\ \A t : Shape(t) /\ TrackAlike(s, t) =>
                   /\ FinishTrackChange(t, e).train = s1.train
                   /\ FinishTrackChange(t, e).change = s1.change
                   /\ OnlyTrack(t, FinishTrackChange(t, e))
<1> DEFINE landed == AtBottom(e, s.change[e])
           name == IF landed THEN world[e].bottom ELSE world[e].top
           train == NamedTrain(e)
           C == [s.change EXCEPT ![e] = [@ EXCEPT !.carrying = FALSE]]
           T == [s.train EXCEPT ![train] =
             HandOver(@, landed = world[e].atBottom, BuildEndingAt(s.thrown, name),
                      Build(s.thrown, name))]
           F(r) == IF ~s.change[e].carrying THEN r
                   ELSE IF train = 0 THEN [r EXCEPT !.change = C]
                   ELSE [r EXCEPT !.change = C, !.train = T]
<1>1. ASSUME NEW r, Shape(r), TrackAlike(s, r) PROVE FinishTrackChange(r, e) = F(r)
  <2>1. r.change = s.change /\ r.train = s.train /\ r.thrown = s.thrown
    BY <1>1 DEF TrackAlike
  <2>2. [[r EXCEPT !.change = C] EXCEPT !.train = T] = [r EXCEPT !.change = C, !.train = T]
    BY <1>1 DEF Shape, Fields
  <2>3. [r EXCEPT !.change[e].carrying = FALSE] = [r EXCEPT !.change = C]
    BY <1>1, <2>1 DEF Shape, Fields
  <2>4. [r EXCEPT !.change = C].train = s.train
    BY <1>1, <2>1 DEF Shape, Fields
  <2> QED BY <2>1, <2>2, <2>3, <2>4 DEF FinishTrackChange
<1>2. /\ C = [f \in Platforms |-> C[f]] /\ \A f \in Platforms : IsPlatform(C[f])
      /\ \A f \in Platforms : /\ C[f].displaced = s.change[f].displaced
                             /\ C[f].dir = s.change[f].dir
  BY ZenonT(40) DEF Tracked, IsPlatform, PlatformFields
<1>3. train # 0 => T = [f \in Trains |-> T[f]] /\ \A f \in Trains : IsTrain(T[f])
  <2>1. SUFFICES ASSUME train # 0 PROVE T = [f \in Trains |-> T[f]] /\ \A f \in Trains : IsTrain(T[f])
    OBVIOUS
  <2>2. train \in Trains
    BY <2>1, TrainOrNone
  <2>3. s.train = [f \in Trains |-> s.train[f]] /\ \A f \in Trains : IsTrain(s.train[f])
    BY DEF Tracked
  <2> HIDE DEF train, landed, name
  <2> QED BY <2>2, <2>3, TrainOperators
<1> HIDE DEF C, T, train
<1>4. ASSUME NEW r, Shape(r), TrackAlike(s, r)
      PROVE  /\ F(r).train = F(s).train /\ F(r).change = F(s).change /\ OnlyTrack(r, F(r))
  BY ZenonT(40), <1>4 DEF Shape, Fields, OnlyTrack, TrackAlike, FreeAlike, SameTouch, SameQueue
<1>5. TrackAlike(s, s)
  BY DEF TrackAlike
<1>6. /\ Tracked(F(s))
      /\ \A f \in Platforms : /\ F(s).change[f].displaced = s.change[f].displaced
                             /\ F(s).change[f].dir = s.change[f].dir
  BY <1>2, <1>3 DEF Tracked, Shape, Fields
<1> HIDE DEF F
<1> QED BY <1>1, <1>4, <1>5, <1>6

LEMMA TrackChanged ==
    ASSUME NEW s, NEW t, Pair(s, t), NEW s1, NEW t1, OnlyTrack(s, s1), OnlyTrack(t, t1),
           s1.train = t1.train, s1.change = t1.change, Tracked(s1),
           NEW e \in Platforms, s1.change[e] # SpawnPlatform
    PROVE  Moves(s, t, s1, t1)
<1>1. OnTrack(s1)
  BY DEF OnTrack, Tracked, AllDocked
<1> QED BY <1>1, TrackMoves

LEMMA OnlyTrackTwice ==
    ASSUME NEW s, NEW s1, NEW s2, OnlyTrack(s, s1), OnlyTrack(s1, s2)
    PROVE  OnlyTrack(s, s2)
BY DEF OnlyTrack, FreeAlike, SameTouch, SameQueue

LEMMA FinishMoves ==
    ASSUME World, NEW s, NEW t, Pair(s, t), NEW u, NEW v, OnlyTrack(s, u), OnlyTrack(t, v),
           u.train = v.train, u.change = v.change, Tracked(u), NEW e \in Platforms,
           u.change[e].displaced # 0 \/ u.change[e].dir # 1
    PROVE  Moves(s, t, FinishTrackChange(u, e), FinishTrackChange(v, e))
<1> DEFINE u1 == FinishTrackChange(u, e)
           v1 == FinishTrackChange(v, e)
<1>1. Shape(u) /\ Shape(v) /\ TrackAlike(u, v)
  BY DEF OnlyTrack, TrackAlike, Pair, Alike, FreeAlike
<1>2. /\ OnlyTrack(u, u1) /\ Tracked(u1) /\ OnlyTrack(v, v1)
      /\ u1.train = v1.train /\ u1.change = v1.change
      /\ u1.change[e].displaced = u.change[e].displaced /\ u1.change[e].dir = u.change[e].dir
  BY <1>1, FinishTracks
<1> HIDE DEF u1, v1
<1>3. OnlyTrack(s, u1) /\ OnlyTrack(t, v1)
  BY <1>2, OnlyTrackTwice
<1>4. u1.change[e] # SpawnPlatform
  BY <1>2 DEF SpawnPlatform
<1>5. Moves(s, t, u1, v1)
  BY <1>2, <1>3, <1>4, TrackChanged
<1> QED BY <1>5 DEF u1, v1

LEMMA StartTrackMoves ==
    ASSUME World, NEW s, NEW t, Pair(s, t), NEW e \in Platforms
    PROVE  Moves(s, t, StartTrackChange(s, e), StartTrackChange(t, e))
<1> DEFINE c == s.change[e]
           d == world[e]
           from == StandsAt(IF AtBottom(e, c) THEN d.bottom ELSE d.top)
           to == StandsAt(IF AtBottom(e, c) THEN d.top ELSE d.bottom)
           dir == IF 2 * c.displaced >= Span(e) THEN -1 ELSE 1
           rides == Rides(s, NamedTrain(e), from, to)
           new == SetOff(c, d, dir, rides, from, to)
           N == [s.change EXCEPT ![e] = new]
           u == [s EXCEPT !.change = N]
           v == [t EXCEPT !.change = N]
<1>1. Shape(s) /\ Shape(t) /\ Tracked(s) /\ s.train = t.train /\ s.change = t.change
  BY DEF Pair, Sound, Alike, BodyAlike, OnTrack, Tracked
<1>2. rides <=> Rides(t, NamedTrain(e), from, to)
  BY <1>1 DEF Rides
<1>3. rides = Rides(t, NamedTrain(e), from, to)
  BY <1>2 DEF Rides
<1>4. /\ StartTrackChange(s, e) = IF c.moving THEN s ELSE IF d.travel > 0 THEN u
                                  ELSE FinishTrackChange(u, e)
      /\ StartTrackChange(t, e) = IF c.moving THEN t ELSE IF d.travel > 0 THEN v
                                  ELSE FinishTrackChange(v, e)
  BY <1>1, <1>3 DEF StartTrackChange
<1>5. dir \in {-1, 1}
  OBVIOUS
<1> HIDE DEF dir, rides, from, to
<1>6. d.travel \in Int
  BY WorldIsFinite DEF Listed, Platforms, OfKind
<1>7. /\ IsPlatform(new) /\ new.dir = dir /\ (d.travel > 0 => new.moving)
      /\ ~(d.travel > 0) => new.displaced = IF dir > 0 THEN 1 ELSE 0
  <2>1. IsPlatform(c)
    BY <1>1 DEF Tracked
  <2> DEFINE far == IF d.travel > 0 THEN c.displaced ELSE IF dir > 0 THEN 1 ELSE 0
             a == IF rides THEN CHOOSE p \in from : TRUE ELSE 0
             b == IF rides THEN CHOOSE p \in to : TRUE ELSE 0
  <2>2. new = [c EXCEPT !.dir = dir, !.moving = d.travel > 0, !.carrying = rides,
                        !.from = a, !.to = b, !.displaced = far]
    BY DEF SetOff
  <2>3. far \in Nat /\ (~(d.travel > 0) => far = IF dir > 0 THEN 1 ELSE 0)
    BY <2>1 DEF IsPlatform
  <2> HIDE DEF c, d, far, a, b, new
  <2>4. /\ new = [x \in PlatformFields |-> new[x]] /\ new.dir = dir /\ new.displaced = far
        /\ new.moving = (d.travel > 0)
    BY <2>1, <2>2 DEF IsPlatform, PlatformFields
  <2> QED BY <1>5, <2>3, <2>4 DEF IsPlatform
<1>8. new # SpawnPlatform /\ (~(d.travel > 0) => new.displaced # 0 \/ new.dir # 1)
  BY <1>5, <1>7 DEF SpawnPlatform
<1> HIDE DEF new
<1>9. N = [f \in Platforms |-> N[f]] /\ (\A f \in Platforms : IsPlatform(N[f])) /\ N[e] = new
  BY <1>1, <1>7 DEF Tracked
<1> HIDE DEF N
<1>10. /\ OnlyTrack(s, u) /\ OnlyTrack(t, v) /\ u.train = s.train /\ v.train = s.train
       /\ u.change = N /\ v.change = N
  BY ZenonT(40), <1>1 DEF Shape, Fields, OnlyTrack, FreeAlike, SameTouch, SameQueue
<1> HIDE DEF u, v
<1>11. Tracked(u)
  BY <1>1, <1>9, <1>10 DEF Tracked
<1>12. Moves(s, t, u, v)
  BY <1>8, <1>9, <1>10, <1>11, TrackChanged
<1>13. ~(d.travel > 0) => Moves(s, t, FinishTrackChange(u, e), FinishTrackChange(v, e))
  BY <1>8, <1>9, <1>10, <1>11, FinishMoves
<1> QED BY <1>4, <1>12, <1>13, StaysPut

\* A platform that has left the end it starts at.
OffStart(s, e) == s.change[e].displaced # 0 \/ s.change[e].dir # 1

LEMMA AdvanceTrackMoves ==
    ASSUME World, NEW s, NEW t, Pair(s, t), NEW e \in Platforms
    PROVE  LET s1 == AdvanceTrackChange(s, e)
           IN /\ Moves(s, t, s1, AdvanceTrackChange(t, e))
              /\ OffStart(s1, e)
              /\ \A f \in Platforms : f # e => s1.change[f] = s.change[f]
<1> DEFINE c == s.change[e]
           displaced == Least(Most(c.displaced + c.dir, 0), Span(e))
           done == IF c.dir > 0 THEN displaced ELSE Span(e) - displaced
           ends == displaced \notin {0, Span(e)}
           train == NamedTrain(e)
           carry == ((c.to - c.from) * done) \div Span(e)
           taken == c.carrying /\ train # 0
           N == [s.change EXCEPT ![e] = [@ EXCEPT !.displaced = displaced, !.moving = ends]]
           R == IF taken THEN [s.train EXCEPT ![train] = [@ EXCEPT !.carry = carry]] ELSE s.train
           u == [s EXCEPT !.change = N, !.train = R]
           v == [t EXCEPT !.change = N, !.train = R]
<1>1. Shape(s) /\ Shape(t) /\ Tracked(s) /\ s.train = t.train /\ s.change = t.change
  BY DEF Pair, Sound, Alike, BodyAlike, OnTrack, Tracked
<1>2. ASSUME NEW r, Shape(r), r.train = s.train, r.change = s.change
      PROVE  AdvanceTrackChange(r, e) =
               [r EXCEPT !.change = N, !.train = R]
  <2> DEFINE k == [r EXCEPT !.change[e].displaced = displaced, !.change[e].moving = ends]
             carried == IF taken THEN [k EXCEPT !.train[train].carry = carry] ELSE k
  <2>1. AdvanceTrackChange(r, e) = carried
    BY <1>2 DEF AdvanceTrackChange
  <2>2. k = [r EXCEPT !.change = N]
    <3> HIDE DEF displaced, ends
    <3>1. Platforms = DOMAIN s.change /\ IsPlatform(s.change[e])
      BY <1>1 DEF Tracked
    <3> QED BY <1>2, <3>1 DEF Shape, Fields, IsPlatform, PlatformFields
  <2> HIDE DEF k, N, ends, displaced, taken, carry, train
  <2>3. k.train = s.train
    BY <1>2, <2>2 DEF Shape, Fields
  <2>4. carried = [r EXCEPT !.change = N, !.train = R]
    BY ZenonT(40), <1>2, <2>2, <2>3 DEF Shape, Fields
  <2> QED BY <2>1, <2>4
<1>3. AdvanceTrackChange(s, e) = u /\ AdvanceTrackChange(t, e) = v
  BY ZenonT(40), <1>1, <1>2
<1>4. IsPlatform(c) /\ Span(e) \in Nat \ {0}
  <2>1. world[e].travel \in Int
    BY WorldIsFinite DEF Listed, Platforms, OfKind
  <2> QED BY <1>1, <2>1 DEF Tracked, Span, Most
<1>5. displaced \in Nat /\ (c.dir # 1 \/ displaced # 0)
  <2>1. c.displaced \in Nat /\ c.dir \in {-1, 1}
    BY <1>4 DEF IsPlatform
  <2> HIDE DEF c
  <2> QED BY <1>4, <2>1 DEF Least, Most
<1> HIDE DEF displaced, ends, carry
<1>6. /\ N = [f \in Platforms |-> N[f]] /\ \A f \in Platforms : IsPlatform(N[f])
      /\ N[e].displaced = displaced /\ N[e].dir = c.dir
      /\ \A f \in Platforms : f # e => N[f] = s.change[f]
  BY <1>1, <1>4, <1>5 DEF Tracked, IsPlatform, PlatformFields
<1>7. R = [f \in Trains |-> R[f]] /\ \A f \in Trains : IsTrain(R[f])
  <2>1. s.train = [f \in Trains |-> s.train[f]] /\ \A f \in Trains : IsTrain(s.train[f])
    BY <1>1 DEF Tracked
  <2>2. taken => train \in Trains
    BY SMTT(40), TrainOrNone
  <2> HIDE DEF taken, train
  <2> QED BY <2>1, <2>2, TrainOperators
<1> HIDE DEF N, R
<1>8. /\ OnlyTrack(s, u) /\ OnlyTrack(t, v) /\ u.train = R /\ v.train = R
      /\ u.change = N /\ v.change = N
  BY ZenonT(40), <1>1 DEF Shape, Fields, OnlyTrack, FreeAlike, SameTouch, SameQueue
<1> HIDE DEF u, v
<1>9. Tracked(u) /\ u.change[e] # SpawnPlatform /\ OffStart(u, e)
  <2>1. Tracked(u)
    BY <1>6, <1>7, <1>8 DEF Tracked
  <2> QED BY <1>5, <1>6, <1>8, <2>1 DEF SpawnPlatform, OffStart
<1>10. Moves(s, t, u, v)
  BY <1>8, <1>9, TrackChanged
<1> QED BY <1>3, <1>6, <1>8, <1>9, <1>10

LEMMA FinishTrackMoves ==
    ASSUME World, NEW s, NEW t, Pair(s, t), NEW e \in Platforms, OffStart(s, e)
    PROVE  /\ Moves(s, t, FinishTrackChange(s, e), FinishTrackChange(t, e))
           /\ \A f \in Platforms : OffStart(s, f) => OffStart(FinishTrackChange(s, e), f)
<1>1. Shape(s) /\ Shape(t) /\ Tracked(s) /\ s.train = t.train /\ s.change = t.change
  BY DEF Pair, Sound, Alike, BodyAlike, OnTrack, Tracked
<1>2. OnlyTrack(s, s) /\ OnlyTrack(t, t)
  BY <1>1 DEF OnlyTrack, FreeAlike, SameTouch, SameQueue
<1>3. Moves(s, t, FinishTrackChange(s, e), FinishTrackChange(t, e))
  BY <1>1, <1>2, FinishMoves DEF OffStart
<1>4. \A f \in Platforms :
        /\ FinishTrackChange(s, e).change[f].displaced = s.change[f].displaced
        /\ FinishTrackChange(s, e).change[f].dir = s.change[f].dir
  BY <1>1, FinishTracks
<1> QED BY <1>3, <1>4 DEF OffStart

LEMMA ManagerMoves ==
    ASSUME World, NEW s, NEW t, Pair(s, t), NEW e \in Entities, NEW who \in Who
    PROVE  Moves(s, t, ActivateManager(s, e, who), ActivateManager(t, e, who))
<1> DEFINE s1 == ManagerStart(s, e)
           t1 == ManagerStart(t, e)
           longest == Loop(LAMBDA m, i : Most(m, world[e].fans[i][2]), Len(world[e].fans), 0)
<1>a. Shape(s) /\ Shape(t) /\ FreeAlike(s, t)
  BY DEF Pair, Sound, Alike
<1>b. /\ s1 = [Sends(s, e) EXCEPT !.busy[e] = IF longest > 0 THEN longest ELSE @]
      /\ t1 = [Sends(t, e) EXCEPT !.busy[e] = IF longest > 0 THEN longest ELSE @]
  BY DEF ManagerStart
<1> HIDE DEF longest, s1, t1
<1>c. SameBody(s, s1) /\ SameBody(t, t1) /\ SameQueue(s, s1) /\ SameQueue(t, t1)
  BY ZenonT(40), <1>a, <1>b DEF Shape, Fields, SameBody, BodyAlike, SameTouch, SameQueue, Sends
<1>d. FreeAlike(s1, t1)
  BY <1>a, <1>b DEF Shape, Fields, FreeAlike, Sends
<1>e. Moves(s, t, s1, t1) /\ Pair(s1, t1)
  BY <1>c, <1>d, FreeMoves DEF Moves, Steps
<1> DEFINE n == Len(world[e].fans)
           B(acc, i) == Fire(acc, world[e].fans[i][1], who, world[e].fans[i][2], "toggle")
<1>1. n \in Nat
  BY WorldIsFinite DEF Listed
<1>2. PICK f : /\ f[0] = s1 /\ \A i \in 1..n : f[i] = B(f[i - 1], i)
               /\ f[n] = ScheduleFans(s1, e, who)
  BY ScheduleFansRun
<1>3. PICK g : /\ g[0] = t1 /\ \A i \in 1..n : g[i] = B(g[i - 1], i)
               /\ g[n] = ScheduleFans(t1, e, who)
  BY ScheduleFansRun
<1>4. Moves(s1, t1, f[n], g[n])
  <2> HIDE DEF B, n
  <2> DEFINE S == {i \in Nat : i <= n => Moves(s1, t1, f[i], g[i])}
  <2>1. 0 \in S
    BY <1>1, <1>2, <1>3, <1>e, StaysPut
  <2>2. ASSUME NEW i \in Nat, i \in S PROVE i + 1 \in S
    <3> SUFFICES ASSUME i + 1 <= n PROVE Moves(s1, t1, f[i + 1], g[i + 1])
      OBVIOUS
    <3>1. f[i + 1] = B(f[i], i + 1) /\ g[i + 1] = B(g[i], i + 1)
      BY <1>1, <1>2, <1>3
    <3>2. Moves(s1, t1, f[i], g[i]) /\ i + 1 \in 1..n
      BY <1>1, <2>2
    <3>3. Pair(f[i], g[i])
      BY <3>2 DEF Moves, Steps
    <3>5. Moves(f[i], g[i], B(f[i], i + 1), B(g[i], i + 1))
      <4>1. world[e].fans[i + 1][2] \in Int
        BY SMTT(40), <3>2, WorldIsFinite DEF Listed, n
      <4> QED BY <3>3, <4>1, FireMoves DEF B
    <3> QED BY <3>1, <3>2, <3>5, <1>e, MovesTwice
  <2> HIDE DEF S
  <2>3. n \in S
    BY <1>1, <2>1, <2>2, Induction
  <2> QED BY <1>1, <2>3 DEF S
<1>5. Moves(s, t, ScheduleFans(s1, e, who), ScheduleFans(t1, e, who))
  BY <1>2, <1>3, <1>4, <1>e, MovesTwice
<1>6. s.busy = t.busy
  BY <1>a DEF FreeAlike
<1>7. /\ ActivateManager(s, e, who) =
           IF ~world[e].multithreaded /\ s.busy[e] > 0 THEN s ELSE ScheduleFans(s1, e, who)
      /\ ActivateManager(t, e, who) =
           IF ~world[e].multithreaded /\ s.busy[e] > 0 THEN t ELSE ScheduleFans(t1, e, who)
  BY <1>6, StepLoops DEF s1, t1
<1> QED BY <1>5, <1>7, StaysPut

(* An entity that is activated; without a teleport nobody arrives, and a level *)
(* change without a name is not activated. *)
LEMMA ActivateMoves ==
    ASSUME World, NEW s, NEW t, Pair(s, t), NEW e \in Entities, NEW who \in Who, NEW use,
           Uneventful => world[e].kind # "changelevel"
    PROVE  Moves(s, t, ActivateWith(s, e, who, use), ActivateWith(t, e, who, use))
<1> DEFINE d == world[e]
           Arm(r) == CASE d.kind = "effect" -> ActivateEffect(r, e, use)
       [] d.kind = "explosion" -> ActivateExplosion(r, e)
       [] d.kind \in MoverKinds -> ActivateMover(r, e, who)
       [] d.kind = "breakable" -> BreakEntity(r, e, who)
       [] d.kind = "train" ->
            [r EXCEPT !.train[e] = UseTrain(@, d.speed, use)]
       [] d.kind = "trackchange" -> StartTrackChange(r, e)
       [] d.kind = "path" /\ d.branch # "" -> ThrowSwitch(r, e, use)
       [] d.kind \in Switches -> Flip(r, e)
       [] d.kind = "camera" -> TriggerCamera(r, e)
       [] d.kind = "manager" -> ActivateManager(r, e, who)
       [] d.kind = "ambient" -> ActivateAmbient(r, e)
       [] d.kind = "changelevel" -> RaiseChange(r, e)
       [] d.kind \in Events -> Sends(r, e)
       [] d.kind = "endsection" -> IF who = Player THEN Sends(r, e) ELSE r
       [] d.kind \in {"trigger", "teleport"} -> ActivateTrigger(r, e, who)
       [] OTHER -> r
           off == e \notin s.alive \/ ~MasterIsActive(s, e)
           beamed == who > 0 /\ world[who].kind = "teleport"
<1>1. s.alive = t.alive /\ (MasterIsActive(s, e) <=> MasterIsActive(t, e))
  BY SameGuards DEF Pair, Alike, FreeAlike
<1>2. /\ ActivateWith(s, e, who, use) =
           IF off THEN s ELSE IF d.kind = "multisource" THEN ActivateMultisource(s, e, who, use)
           ELSE IF beamed THEN [s EXCEPT !.arrived = e] ELSE Arm(s)
      /\ ActivateWith(t, e, who, use) =
           IF off THEN t ELSE IF d.kind = "multisource" THEN ActivateMultisource(t, e, who, use)
           ELSE IF beamed THEN [t EXCEPT !.arrived = e] ELSE Arm(t)
  <2>1. ASSUME NEW r
        PROVE  ActivateWith(r, e, who, use) =
           IF e \notin r.alive \/ ~MasterIsActive(r, e) THEN r
           ELSE IF d.kind = "multisource" THEN ActivateMultisource(r, e, who, use)
           ELSE IF beamed THEN [r EXCEPT !.arrived = e] ELSE Arm(r)
    BY Zenon DEF ActivateWith
  <2> HIDE DEF Arm
  <2> QED BY <1>1, <2>1
<1>3. beamed => ~Uneventful
  <2>1. beamed => who \in Entities
    BY DEF Who, Nobody, Player
  <2> QED BY ZenonT(40), <2>1 DEF Uneventful, OfKind
<1>4. beamed => Moves(s, t, [s EXCEPT !.arrived = e], [t EXCEPT !.arrived = e])
  BY <1>3, ArrivedMoves
<1>5. Moves(s, t, ActivateMultisource(s, e, who, use), ActivateMultisource(t, e, who, use))
  BY MultisourceMoves
<1>6. Moves(s, t, Arm(s), Arm(t))
  <2>1. CASE d.kind = "effect"
    <3>1. Arm(s) = ActivateEffect(s, e, use) /\ Arm(t) = ActivateEffect(t, e, use)
      BY <2>1 DEF MoverKinds, Switches, Events
    <3> HIDE DEF Arm
    <3> QED BY <2>1, <3>1, SwitchesMove DEF OnKinds
  <2>2. CASE d.kind = "explosion"
    <3>1. Arm(s) = ActivateExplosion(s, e) /\ Arm(t) = ActivateExplosion(t, e)
      BY <2>2 DEF MoverKinds, Switches, Events
    <3> HIDE DEF Arm
    <3> QED BY <2>2, <3>1, ExplosionMoves
  <2>3. CASE d.kind \in MoverKinds
    <3>1. Arm(s) = ActivateMover(s, e, who) /\ Arm(t) = ActivateMover(t, e, who)
      BY ZenonT(40), <2>3 DEF MoverKinds, Switches, Events
    <3> HIDE DEF Arm
    <3> QED BY <2>3, <3>1, ActivateMoverMoves
  <2>4. CASE d.kind = "breakable"
    <3>1. Arm(s) = BreakEntity(s, e, who) /\ Arm(t) = BreakEntity(t, e, who)
      BY <2>4 DEF MoverKinds, Switches, Events
    <3> HIDE DEF Arm
    <3> QED BY <2>4, <3>1, BreakMoves
  <2>5. CASE d.kind = "train"
    <3>1. Arm(s) = [s EXCEPT !.train[e] = UseTrain(@, d.speed, use)] /\ Arm(t) = [t EXCEPT !.train[e] = UseTrain(@, d.speed, use)]
      BY <2>5 DEF MoverKinds, Switches, Events
    <3> HIDE DEF Arm
    <3> QED BY SMTT(40), <2>5, <3>1, UseTrainMoves DEF Trains, OfKind
  <2>6. CASE d.kind = "trackchange"
    <3>1. Arm(s) = StartTrackChange(s, e) /\ Arm(t) = StartTrackChange(t, e)
      BY <2>6 DEF MoverKinds, Switches, Events
    <3> HIDE DEF Arm
    <3> QED BY <2>6, <3>1, StartTrackMoves DEF Platforms, OfKind
  <2>7. CASE d.kind = "path" /\ d.branch # ""
    <3>1. Arm(s) = ThrowSwitch(s, e, use) /\ Arm(t) = ThrowSwitch(t, e, use)
      BY ZenonT(40), <2>7 DEF MoverKinds, Switches, Events
    <3> HIDE DEF Arm
    <3> QED BY ZenonT(40), <2>7, <3>1, ThrowMoves
  <2>8. CASE d.kind \in Switches
    <3>1. Arm(s) = Flip(s, e) /\ Arm(t) = Flip(t, e)
      BY <2>8 DEF MoverKinds, Switches, Events
    <3> HIDE DEF Arm
    <3> QED BY <2>8, <3>1, SwitchesMove DEF OnKinds, Switches
  <2>9. CASE d.kind = "camera"
    <3>1. Arm(s) = TriggerCamera(s, e) /\ Arm(t) = TriggerCamera(t, e)
      BY <2>9 DEF MoverKinds, Switches, Events
    <3> HIDE DEF Arm
    <3> QED BY <2>9, <3>1, CameraMoves
  <2>10. CASE d.kind = "manager"
    <3>1. Arm(s) = ActivateManager(s, e, who) /\ Arm(t) = ActivateManager(t, e, who)
      BY <2>10 DEF MoverKinds, Switches, Events
    <3> HIDE DEF Arm
    <3> QED BY <2>10, <3>1, ManagerMoves
  <2>11. CASE d.kind = "ambient"
    <3>1. Arm(s) = ActivateAmbient(s, e) /\ Arm(t) = ActivateAmbient(t, e)
      BY <2>11 DEF MoverKinds, Switches, Events
    <3> HIDE DEF Arm
    <3> QED BY <2>11, <3>1, SwitchesMove DEF OnKinds
  <2>12. CASE d.kind = "changelevel"
    <3>1. Arm(s) = RaiseChange(s, e) /\ Arm(t) = RaiseChange(t, e)
      BY <2>12 DEF MoverKinds, Switches, Events
    <3> HIDE DEF Arm
    <3> QED BY <2>12, <3>1, RaiseMoves
  <2>13. CASE d.kind \in Events
    <3>1. Arm(s) = Sends(s, e) /\ Arm(t) = Sends(t, e)
      BY <2>13 DEF MoverKinds, Switches, Events
    <3> HIDE DEF Arm
    <3> QED BY <2>13, <3>1, SendsMoves
  <2>14. CASE d.kind = "endsection"
    <3>1. /\ Arm(s) = IF who = Player THEN Sends(s, e) ELSE s
          /\ Arm(t) = IF who = Player THEN Sends(t, e) ELSE t
      BY <2>14 DEF MoverKinds, Switches, Events
    <3> HIDE DEF Arm
    <3> QED BY <2>14, <3>1, SendsMoves, StaysPut
  <2>15. CASE d.kind \in {"trigger", "teleport"}
    <3>1. Arm(s) = ActivateTrigger(s, e, who) /\ Arm(t) = ActivateTrigger(t, e, who)
      BY <2>15 DEF MoverKinds, Switches, Events
    <3> HIDE DEF Arm
    <3> QED BY <2>15, <3>1, TriggerMoves
  <2>16. CASE /\ ~(d.kind = "effect")
               /\ ~(d.kind = "explosion")
               /\ ~(d.kind \in MoverKinds)
               /\ ~(d.kind = "breakable")
               /\ ~(d.kind = "train")
               /\ ~(d.kind = "trackchange")
               /\ ~(d.kind = "path" /\ d.branch # "")
               /\ ~(d.kind \in Switches)
               /\ ~(d.kind = "camera")
               /\ ~(d.kind = "manager")
               /\ ~(d.kind = "ambient")
               /\ ~(d.kind = "changelevel")
               /\ ~(d.kind \in Events)
               /\ ~(d.kind = "endsection")
               /\ ~(d.kind \in {"trigger", "teleport"})
    <3>1. Arm(s) = s /\ Arm(t) = t
      BY ZenonT(40), <2>16
    <3> HIDE DEF Arm
    <3> QED BY <3>1, StaysPut
  <2> HIDE DEF Arm
  <2> QED BY ZenonT(40), <2>1, <2>2, <2>3, <2>4, <2>5, <2>6, <2>7, <2>8, <2>9, <2>10, <2>11, <2>12, <2>13, <2>14, <2>15, <2>16
<1> HIDE DEF Arm, off, beamed
<1> QED BY <1>2, <1>4, <1>5, <1>6, StaysPut

-----------------------------------------------------------------------------
(* Many entities activated, the same ones in both levels or not. *)

LEMMA EachMoves ==
    ASSUME World, NEW s, NEW t, Pair(s, t), NEW set, NEW who \in Who, NEW use,
           Uneventful => \A e \in set : world[e].kind # "changelevel"
    PROVE  Moves(s, t, ActivateEachWith(s, set, who, use), ActivateEachWith(t, set, who, use))
<1> DEFINE n == Len(world)
           B(acc, i) == IF i \in set THEN ActivateWith(acc, i, who, use) ELSE acc
<1>1. n \in Nat
  BY WorldIsFinite
<1>2. PICK f : /\ f[0] = s /\ \A i \in 1..n : f[i] = B(f[i - 1], i)
               /\ f[n] = ActivateEachWith(s, set, who, use)
  BY ActivateEachWithRun
<1>3. PICK g : /\ g[0] = t /\ \A i \in 1..n : g[i] = B(g[i - 1], i)
               /\ g[n] = ActivateEachWith(t, set, who, use)
  BY ActivateEachWithRun
<1>4. Moves(s, t, f[n], g[n])
  <2> HIDE DEF B, n
  <2> DEFINE S == {i \in Nat : i <= n => Moves(s, t, f[i], g[i])}
  <2>1. 0 \in S
    BY <1>1, <1>2, <1>3, StaysPut
  <2>2. ASSUME NEW i \in Nat, i \in S PROVE i + 1 \in S
    <3> SUFFICES ASSUME i + 1 <= n PROVE Moves(s, t, f[i + 1], g[i + 1])
      OBVIOUS
    <3>1. f[i + 1] = B(f[i], i + 1) /\ g[i + 1] = B(g[i], i + 1)
      BY <1>1, <1>2, <1>3
    <3>2. Moves(s, t, f[i], g[i]) /\ i + 1 \in 1..n
      BY <1>1, <2>2
    <3>3. Pair(f[i], g[i])
      BY <3>2 DEF Moves, Steps
    <3>4. i + 1 \in Entities
      BY <3>2, WorldIsFinite DEF n
    <3>5. Moves(f[i], g[i], B(f[i], i + 1), B(g[i], i + 1))
      <4>1. CASE i + 1 \in set
        BY <3>3, <3>4, <4>1, ActivateMoves DEF B
      <4>2. CASE i + 1 \notin set
        BY <3>3, <4>2, StaysPut DEF B, Moves
      <4> QED BY <4>1, <4>2
    <3> QED BY <3>1, <3>2, <3>5, MovesTwice
  <2> HIDE DEF S
  <2>3. n \in S
    BY <1>1, <2>1, <2>2, Induction
  <2> QED BY <1>1, <2>3 DEF S
<1> QED BY <1>2, <1>3, <1>4

(* A door, or a rotating platform that does not toggle, is not started again *)
(* while it is not closed. *)
TouchesOnce(e) == \/ world[e].kind = "door"
                  \/ world[e].kind = "platrot" /\ ~world[e].toggle
LEMMA ActivateOpen ==
    ASSUME NEW s, NEW e \in Entities, TouchesOnce(e), s.mover[e].st # "Closed", NEW who, NEW use,
           ~(who > 0 /\ world[who].kind = "teleport")
    PROVE  ActivateWith(s, e, who, use) = s
<1>1. ActivateMover(s, e, who) = s
  BY DEF ActivateMover, TouchesOnce
<1>2. world[e].kind \in {"door", "platrot"}
  BY DEF TouchesOnce
<1>3. ActivateWith(s, e, who, use) \in {s, ActivateMover(s, e, who)}
  BY ZenonT(40), <1>2 DEF ActivateWith, MoverKinds, Switches, Events
<1> QED BY <1>1, <1>3

Differ(a, b) == (a \ b) \cup (b \ a)
LEMMA EdgesMove ==
    ASSUME World, NEW s, NEW t, Pair(s, t), NEW mine, NEW yours, NEW who \in Who,
           ~(who > 0 /\ world[who].kind = "teleport"),
           \A e \in mine \cup yours : e \in Entities /\ TouchesOnce(e),
           \A e \in Differ(mine, yours) : s.mover[e].st # "Closed"
    PROVE  Moves(s, t, ActivateEach(s, mine, who), ActivateEach(t, yours, who))
<1> DEFINE n == Len(world)
           B(acc, i) == IF i \in mine THEN ActivateWith(acc, i, who, "toggle") ELSE acc
           C(acc, i) == IF i \in yours THEN ActivateWith(acc, i, who, "toggle") ELSE acc
<1>1. n \in Nat
  BY WorldIsFinite
<1>2. PICK f : /\ f[0] = s /\ \A i \in 1..n : f[i] = B(f[i - 1], i)
               /\ f[n] = ActivateEachWith(s, mine, who, "toggle")
  BY ActivateEachWithRun
<1>3. PICK g : /\ g[0] = t /\ \A i \in 1..n : g[i] = C(g[i - 1], i)
               /\ g[n] = ActivateEachWith(t, yours, who, "toggle")
  BY ActivateEachWithRun
<1>4. Moves(s, t, f[n], g[n])
  <2> HIDE DEF B, C, n
  <2> DEFINE S == {i \in Nat : i <= n => Moves(s, t, f[i], g[i])}
  <2>1. 0 \in S
    BY <1>1, <1>2, <1>3, StaysPut
  <2>2. ASSUME NEW i \in Nat, i \in S PROVE i + 1 \in S
    <3> SUFFICES ASSUME i + 1 <= n PROVE Moves(s, t, f[i + 1], g[i + 1])
      OBVIOUS
    <3>1. f[i + 1] = B(f[i], i + 1) /\ g[i + 1] = C(g[i], i + 1)
      BY <1>1, <1>2, <1>3
    <3>2. Moves(s, t, f[i], g[i]) /\ i + 1 \in 1..n
      BY <1>1, <2>2
    <3>3. Pair(f[i], g[i])
      BY <3>2 DEF Moves, Steps
    <3>4. i + 1 \in Entities
      BY <3>2, WorldIsFinite DEF n
    <3>5. Moves(f[i], g[i], B(f[i], i + 1), C(g[i], i + 1))
      <4>1. CASE i + 1 \in mine /\ i + 1 \in yours
        <5>1. world[i + 1].kind # "changelevel"
          BY <4>1 DEF TouchesOnce
        <5> QED BY <3>3, <3>4, <4>1, <5>1, ActivateMoves DEF B, C
      <4>2. CASE i + 1 \in Differ(mine, yours)
        <5>1. /\ s.mover[i + 1].st # "Closed" /\ TouchesOnce(i + 1)
              /\ i + 1 \in mine <=> i + 1 \notin yours
          BY <4>2 DEF Differ
        <5>2. f[i].mover[i + 1].st # "Closed" /\ g[i].mover = f[i].mover
          BY <3>2, <3>4, <5>1 DEF Moves, Steps, StaysOff, Pair, Alike, BodyAlike
        <5>3. /\ ActivateWith(f[i], i + 1, who, "toggle") = f[i]
              /\ ActivateWith(g[i], i + 1, who, "toggle") = g[i]
          BY <3>4, <5>1, <5>2, ActivateOpen
        <5>4. B(f[i], i + 1) = f[i] /\ C(g[i], i + 1) = g[i]
          BY <5>1, <5>3 DEF B, C
        <5> QED BY <3>3, <5>4, StaysPut
      <4>3. CASE i + 1 \notin mine /\ i + 1 \notin yours
        BY <3>3, <4>3, StaysPut DEF B, C
      <4> QED BY <4>1, <4>2, <4>3 DEF Differ
    <3> QED BY <3>1, <3>2, <3>5, MovesTwice
  <2> HIDE DEF S
  <2>3. n \in S
    BY <1>1, <2>1, <2>2, Induction
  <2> QED BY <1>1, <2>3 DEF S
<1> QED BY <1>2, <1>3, <1>4 DEF ActivateEach

-----------------------------------------------------------------------------
(* Movers. *)

LEMMA ReleaseMoves ==
    ASSUME World, NEW s, NEW t, Pair(s, t), NEW set
    PROVE  Moves(s, t, ReleaseEach(s, set), ReleaseEach(t, set))
<1> DEFINE n == Len(world)
           B(acc, i) == IF i \in set THEN FireTarget(Capture(acc, i, Nobody), i, IF acc.captured[i] = Nobody THEN i ELSE acc.captured[i], 0, "toggle") ELSE acc
<1>1. n \in Nat
  BY WorldIsFinite
<1>2. PICK f : /\ f[0] = s /\ \A i \in 1..n : f[i] = B(f[i - 1], i)
               /\ f[n] = ReleaseEach(s, set)
  BY ReleaseEachRun
<1>3. PICK g : /\ g[0] = t /\ \A i \in 1..n : g[i] = B(g[i - 1], i)
               /\ g[n] = ReleaseEach(t, set)
  BY ReleaseEachRun
<1>4. Moves(s, t, f[n], g[n])
  <2> HIDE DEF B, n
  <2> DEFINE S == {i \in Nat : i <= n => Moves(s, t, f[i], g[i])}
  <2>1. 0 \in S
    BY <1>1, <1>2, <1>3, StaysPut
  <2>2. ASSUME NEW i \in Nat, i \in S PROVE i + 1 \in S
    <3> SUFFICES ASSUME i + 1 <= n PROVE Moves(s, t, f[i + 1], g[i + 1])
      OBVIOUS
    <3>1. f[i + 1] = B(f[i], i + 1) /\ g[i + 1] = B(g[i], i + 1)
      BY <1>1, <1>2, <1>3
    <3>2. Moves(s, t, f[i], g[i]) /\ i + 1 \in 1..n
      BY <1>1, <2>2
    <3>3. Pair(f[i], g[i])
      BY <3>2 DEF Moves, Steps
    <3>4. i + 1 \in Entities
      BY <3>2, WorldIsFinite DEF n
    <3>5. Moves(f[i], g[i], B(f[i], i + 1), B(g[i], i + 1))
      <4>1. CASE i + 1 \in set
        <5> DEFINE by == IF f[i].captured[i + 1] = Nobody THEN i + 1 ELSE f[i].captured[i + 1]
                   u == Capture(f[i], i + 1, Nobody)
                   v == Capture(g[i], i + 1, Nobody)
        <5>1. by \in Who /\ f[i].captured = g[i].captured
          BY <3>3, <3>4 DEF Pair, Sound, Who, Alike, BodyAlike
        <5>2. Nobody \in Who
          BY DEF Who
        <5>3. Moves(f[i], g[i], u, v)
          BY <3>3, <3>4, <5>2, CaptureMoves
        <5>4. Pair(u, v)
          BY <5>3 DEF Moves, Steps
        <5>5. /\ B(f[i], i + 1) = FireTarget(u, i + 1, by, 0, "toggle")
              /\ B(g[i], i + 1) = FireTarget(v, i + 1, by, 0, "toggle")
          BY <4>1, <5>1 DEF B
        <5> HIDE DEF u, v, by
        <5>6. Moves(u, v, B(f[i], i + 1), B(g[i], i + 1))
          BY <5>1, <5>4, <5>5, FireTargetMoves
        <5> QED BY <3>3, <5>3, <5>6, MovesTwice
      <4>2. CASE i + 1 \notin set
        BY <3>3, <4>2, StaysPut DEF B, Moves
      <4> QED BY <4>1, <4>2
    <3> QED BY <3>1, <3>2, <3>5, MovesTwice
  <2> HIDE DEF S
  <2>3. n \in S
    BY <1>1, <2>1, <2>2, Induction
  <2> QED BY <1>1, <2>3 DEF S
<1> QED BY <1>2, <1>3, <1>4

LEMMA AdvanceMoversSteps ==
    ASSUME World, NEW s, NEW t, Pair(s, t), NEW kind \in MoverKinds
    PROVE  Steps(s, t, AdvanceMovers(s, kind), AdvanceMovers(t, kind))
<1> DEFINE going == Live(s, {kind})
           v == [e \in Entities |->
                   IF e \in going THEN Cycle(world[e], s.mover[e]) ELSE s.mover[e]]
           s1 == Cycled(s, kind)
           t1 == Cycled(t, kind)
<1>0. going = Live(t, {kind}) /\ \A e \in going : world[e].kind \in MoverKinds
  BY SameGuards DEF Live, OfKind
<1>1. Shape(s) /\ Shape(t) /\ Placed(s) /\ s.mover = t.mover
  BY DEF Pair, Sound, Alike, BodyAlike
<1>2. s1 = [s EXCEPT !.mover = v] /\ t1 = [t EXCEPT !.mover = v]
  BY <1>0, <1>1 DEF Cycled
<1>3. \A e \in Entities : world[e].kind \notin MoverKinds => v[e] = AtRest
  <2> HIDE DEF going
  <2> QED BY <1>0, <1>1 DEF Placed
<1>4. v = [e \in Entities |-> v[e]]
  OBVIOUS
<1> HIDE DEF v
<1>5. Steps(s, t, s1, t1)
  BY <1>2, <1>3, <1>4, MoverSteps
<1>6. Pair(s1, t1)
  BY <1>5 DEF Steps
<1>7. Firing(s, kind) = Firing(t, kind)
  <2>1. s1.mover = t1.mover
    BY <1>6 DEF Pair, Alike, BodyAlike
  <2> HIDE DEF s1, t1
  <2> QED BY <1>0, <1>1, <2>1 DEF Firing, s1, t1
<1> HIDE DEF s1, t1
<1>8. Steps(s1, t1, ReleaseEach(s1, Firing(s, kind)), ReleaseEach(t1, Firing(s, kind)))
  BY <1>6, ReleaseMoves DEF Moves
<1>9. /\ AdvanceMovers(s, kind) = ReleaseEach(s1, Firing(s, kind))
      /\ AdvanceMovers(t, kind) = ReleaseEach(t1, Firing(s, kind))
  BY <1>7, StepLoops DEF s1, t1
<1> QED BY <1>5, <1>8, <1>9, MovesTwice

LEMMA BlockMoves ==
    ASSUME NEW s, NEW t, Pair(s, t), NEW blocked
    PROVE  Moves(s, t, BlockMovers(s, blocked), BlockMovers(t, blocked))
<1> DEFINE v == [e \in Entities |->
                  IF e \in blocked /\ world[e].kind = "door" /\ s.mover[e].st \in Moving
                  THEN TurnBack(world[e], s.mover[e]) ELSE s.mover[e]]
<1>1. Shape(s) /\ Shape(t) /\ Placed(s) /\ s.mover = t.mover
  BY DEF Pair, Sound, Alike, BodyAlike
<1>2. /\ BlockMovers(s, blocked) = [s EXCEPT !.mover = v]
      /\ BlockMovers(t, blocked) = [t EXCEPT !.mover = v]
  BY <1>1 DEF BlockMovers
<1>3. \A e \in Entities : world[e].kind \notin MoverKinds => v[e] = AtRest
  BY <1>1 DEF Placed, MoverKinds
<1>4. \A e \in Entities : s.mover[e].st # "Closed" => v[e].st # "Closed"
  BY DEF TurnBack, MoverTo
<1>5. v = [e \in Entities |-> v[e]]
  OBVIOUS
<1> HIDE DEF v
<1> QED BY <1>2, <1>3, <1>4, <1>5, MoverMoves

-----------------------------------------------------------------------------
(* Touches. *)

\* The edges the two levels do not share are of movers that are not closed.
EdgesOff(s, t) ==
  \A e \in Differ(s.doorTouch, t.doorTouch) \cup Differ(s.monsterTouch, t.monsterTouch)
             \cup Differ(s.platTouch, t.platTouch) : e \in Entities => s.mover[e].st # "Closed"
SameSpawn(s, s1) == s1.spawnFired = s.spawnFired

LEMMA MovesEdges ==
    ASSUME NEW s, NEW t, NEW s1, NEW t1, EdgesOff(s, t), Moves(s, t, s1, t1)
    PROVE  EdgesOff(s1, t1) /\ Pair(s1, t1) /\ Calm(s, s1) /\ SameTouch(s, s1) /\ SameTouch(t, t1)
BY DEF EdgesOff, Moves, Steps, StaysOff, SameTouch

LEMMA TouchPuts ==
    ASSUME NEW s, NEW t, NEW s1, NEW t1, Pair(s, t), Shape(s1), Shape(t1),
           FreeAlike(s, s1), BodyAlike(s, s1), SameQueue(s, s1),
           FreeAlike(t, t1), BodyAlike(t, t1), SameQueue(t, t1)
    PROVE  Pair(s1, t1) /\ Calm(s, s1)
<1>1. Sound(s1)
  BY DEF Pair, SameQueue, Sound, Placed, OnTrack, AllDocked, BodyAlike
<1>2. Alike(s1, t1)
  BY DEF Pair, Alike, SameQueue, BodyAlike, FreeAlike
<1>3. Len(s.changes) <= Len(s1.changes)
  BY DEF Pair, Sound, IsSequence, BodyAlike
<1> QED BY <1>1, <1>2, <1>3 DEF Calm, BodyAlike, Pair

LEMMA CalmTwice ==
    ASSUME NEW s, NEW s1, NEW s2, Sound(s), Sound(s1), Sound(s2), Calm(s, s1), Calm(s1, s2)
    PROVE  Calm(s, s2)
<1>1. /\ Len(s.changes) \in Nat /\ Len(s1.changes) \in Nat /\ Len(s2.changes) \in Nat
  BY DEF Sound, IsSequence
<1> QED BY <1>1 DEF Calm

LEMMA TouchedTouchesOnce ==
    ASSUME NEW spot
    PROVE  /\ \A e \in Touched("door", spot) : e \in Entities /\ TouchesOnce(e)
           /\ \A e \in Touched("platrot", spot) : e \in Entities /\ TouchesOnce(e)
BY ZenonT(40) DEF Touched, Touchable, OfKind, TouchesOnce

LEMMA TouchDoorsPair ==
    ASSUME World, NEW s, NEW t, Pair(s, t), EdgesOff(s, t)
    PROVE  LET s1 == TouchDoors(s)
               t1 == TouchDoors(t)
           IN /\ Pair(s1, t1) /\ EdgesOff(s1, t1) /\ Calm(s, s1)
              /\ s1.doorTouch = t1.doorTouch /\ SameSpawn(s, s1) /\ SameSpawn(t, t1)
<1> DEFINE now == Touched("door", s.pos)
           s0 == ActivateEach(s, now \ s.doorTouch, Nobody)
           t0 == ActivateEach(t, now \ t.doorTouch, Nobody)
           s1 == [s0 EXCEPT !.doorTouch = now]
           t1 == [t0 EXCEPT !.doorTouch = now]
<1>1. s.pos = t.pos
  BY DEF Pair, Alike, BodyAlike
<1>2. TouchDoors(s) = s1 /\ TouchDoors(t) = t1
  BY <1>1 DEF TouchDoors
<1>3. Moves(s, t, s0, t0)
  <2> HIDE DEF now
  <2>1. \A e \in (now \ s.doorTouch) \cup (now \ t.doorTouch) : e \in Entities /\ TouchesOnce(e)
    BY TouchedTouchesOnce DEF now
  <2>2. \A e \in Differ(now \ s.doorTouch, now \ t.doorTouch) : s.mover[e].st # "Closed"
    BY <2>1 DEF EdgesOff, Differ
  <2>3. Nobody \in Who /\ ~(Nobody > 0)
    BY DEF Who, Nobody
  <2> QED BY <2>1, <2>2, <2>3, EdgesMove
<1> HIDE DEF s0, t0, now
<1>4. /\ EdgesOff(s0, t0) /\ Pair(s0, t0) /\ Calm(s, s0)
      /\ SameTouch(s, s0) /\ SameTouch(t, t0)
  BY <1>3, MovesEdges
<1>5. Shape(s0) /\ Shape(t0)
  BY <1>4 DEF Pair, Sound, Alike
<1>6. /\ Shape(s1) /\ FreeAlike(s0, s1) /\ BodyAlike(s0, s1) /\ SameQueue(s0, s1)
      /\ Shape(t1) /\ FreeAlike(t0, t1) /\ BodyAlike(t0, t1) /\ SameQueue(t0, t1)
      /\ s1.doorTouch = now /\ t1.doorTouch = now /\ SameSpawn(s0, s1) /\ SameSpawn(t0, t1)
      /\ s1.monsterTouch = s0.monsterTouch /\ t1.monsterTouch = t0.monsterTouch
      /\ s1.platTouch = s0.platTouch /\ t1.platTouch = t0.platTouch /\ s1.mover = s0.mover
  BY SMTT(40), <1>5 DEF Shape, Fields, FreeAlike, BodyAlike, SameQueue, SameSpawn
<1> HIDE DEF s1, t1
<1>7. Pair(s1, t1) /\ Calm(s0, s1)
  BY <1>4, <1>6, TouchPuts
<1>8. EdgesOff(s1, t1)
  BY <1>4, <1>6 DEF EdgesOff, Differ
<1>9. Calm(s, s1)
  BY <1>4, <1>7, CalmTwice DEF Pair
<1> QED BY <1>2, <1>4, <1>6, <1>7, <1>8, <1>9 DEF SameSpawn, SameTouch

LEMMA MonsterEachMoves ==
    ASSUME World, NEW s, NEW t, Pair(s, t), NEW mine, NEW yours,
           \A e \in mine \cup yours : e \in Entities /\ TouchesOnce(e),
           \A e \in Differ(mine, yours) : s.mover[e].st # "Closed"
    PROVE  Moves(s, t, MonsterTouchEach(s, OfKind({"monster"}), mine),
                       MonsterTouchEach(t, OfKind({"monster"}), yours))
<1> DEFINE set == OfKind({"monster"})
<1> DEFINE n == Len(world)
           B(acc, i) == IF i \in set THEN ActivateEach(acc, mine, i) ELSE acc
           C(acc, i) == IF i \in set THEN ActivateEach(acc, yours, i) ELSE acc
<1>1. n \in Nat
  BY WorldIsFinite
<1>2. PICK f : /\ f[0] = s /\ \A i \in 1..n : f[i] = B(f[i - 1], i)
               /\ f[n] = MonsterTouchEach(s, set, mine)
  BY MonsterTouchEachRun
<1>3. PICK g : /\ g[0] = t /\ \A i \in 1..n : g[i] = C(g[i - 1], i)
               /\ g[n] = MonsterTouchEach(t, set, yours)
  BY MonsterTouchEachRun
<1>4. Moves(s, t, f[n], g[n])
  <2> HIDE DEF B, C, n
  <2> DEFINE S == {i \in Nat : i <= n => Moves(s, t, f[i], g[i])}
  <2>1. 0 \in S
    BY <1>1, <1>2, <1>3, StaysPut
  <2>2. ASSUME NEW i \in Nat, i \in S PROVE i + 1 \in S
    <3> SUFFICES ASSUME i + 1 <= n PROVE Moves(s, t, f[i + 1], g[i + 1])
      OBVIOUS
    <3>1. f[i + 1] = B(f[i], i + 1) /\ g[i + 1] = C(g[i], i + 1)
      BY <1>1, <1>2, <1>3
    <3>2. Moves(s, t, f[i], g[i]) /\ i + 1 \in 1..n
      BY <1>1, <2>2
    <3>3. Pair(f[i], g[i])
      BY <3>2 DEF Moves, Steps
    <3>4. i + 1 \in Entities
      BY <3>2, WorldIsFinite DEF n
    <3>5. Moves(f[i], g[i], B(f[i], i + 1), C(g[i], i + 1))
      <4>1. CASE i + 1 \in set
        <5>1. \A e \in Differ(mine, yours) : f[i].mover[e].st # "Closed"
          BY <3>2 DEF Moves, StaysOff, Differ
        <5>2. i + 1 \in Who /\ world[i + 1].kind # "teleport"
          BY <3>4, <4>1 DEF OfKind, Who
        <5>3. Moves(f[i], g[i], ActivateEach(f[i], mine, i + 1), ActivateEach(g[i], yours, i + 1))
          BY <3>3, <5>1, <5>2, EdgesMove
        <5> QED BY <4>1, <5>3 DEF B, C
      <4>2. CASE i + 1 \notin set
        BY <3>3, <4>2, StaysPut DEF B, C, Moves
      <4> QED BY <4>1, <4>2
    <3> QED BY <3>1, <3>2, <3>5, MovesTwice
  <2> HIDE DEF S
  <2>3. n \in S
    BY <1>1, <2>1, <2>2, Induction
  <2> QED BY <1>1, <2>3 DEF S
<1> QED BY <1>2, <1>3, <1>4

LEMMA MonsterTouchesPair ==
    ASSUME World, NEW s, NEW t, Pair(s, t), EdgesOff(s, t)
    PROVE  LET s1 == MonsterTouchesDoors(s)
               t1 == MonsterTouchesDoors(t)
           IN /\ Pair(s1, t1) /\ EdgesOff(s1, t1) /\ Calm(s, s1)
              /\ s1.monsterTouch = t1.monsterTouch /\ SameSpawn(s, s1) /\ SameSpawn(t, t1)
              /\ s1.doorTouch = s.doorTouch /\ t1.doorTouch = t.doorTouch
<1> DEFINE now == Touched("door", s.monster)
           s0 == MonsterTouchEach(s, OfKind({"monster"}), now \ s.monsterTouch)
           t0 == MonsterTouchEach(t, OfKind({"monster"}), now \ t.monsterTouch)
           s1 == [s0 EXCEPT !.monsterTouch = now]
           t1 == [t0 EXCEPT !.monsterTouch = now]
<1>1. s.monster = t.monster
  BY DEF Pair, Alike, BodyAlike
<1>2. MonsterTouchesDoors(s) = s1 /\ MonsterTouchesDoors(t) = t1
  BY <1>1, StepLoops
<1>3. Moves(s, t, s0, t0)
  <2> HIDE DEF now
  <2>1. \A e \in (now \ s.monsterTouch) \cup (now \ t.monsterTouch) : e \in Entities /\ TouchesOnce(e)
    BY TouchedTouchesOnce DEF now
  <2>2. \A e \in Differ(now \ s.monsterTouch, now \ t.monsterTouch) : s.mover[e].st # "Closed"
    BY SMTT(40), <2>1 DEF EdgesOff, Differ
  <2> QED BY <2>1, <2>2, MonsterEachMoves
<1> HIDE DEF s0, t0, now
<1>4. /\ EdgesOff(s0, t0) /\ Pair(s0, t0) /\ Calm(s, s0)
      /\ SameTouch(s, s0) /\ SameTouch(t, t0)
  BY <1>3, MovesEdges
<1>5. Shape(s0) /\ Shape(t0)
  BY <1>4 DEF Pair, Sound, Alike
<1>6. /\ Shape(s1) /\ FreeAlike(s0, s1) /\ BodyAlike(s0, s1) /\ SameQueue(s0, s1)
      /\ Shape(t1) /\ FreeAlike(t0, t1) /\ BodyAlike(t0, t1) /\ SameQueue(t0, t1)
      /\ s1.monsterTouch = now /\ t1.monsterTouch = now /\ SameSpawn(s0, s1) /\ SameSpawn(t0, t1)
      /\ s1.doorTouch = s0.doorTouch /\ t1.doorTouch = t0.doorTouch
      /\ s1.platTouch = s0.platTouch /\ t1.platTouch = t0.platTouch /\ s1.mover = s0.mover
  BY SMTT(40), <1>5 DEF Shape, Fields, FreeAlike, BodyAlike, SameQueue, SameSpawn
<1> HIDE DEF s1, t1
<1>7. Pair(s1, t1) /\ Calm(s0, s1)
  BY <1>4, <1>6, TouchPuts
<1>8. EdgesOff(s1, t1)
  BY <1>4, <1>6 DEF EdgesOff, Differ
<1>9. Calm(s, s1)
  BY <1>4, <1>7, CalmTwice DEF Pair
<1> QED BY <1>2, <1>4, <1>6, <1>7, <1>8, <1>9 DEF SameSpawn, SameTouch

LEMMA TouchPlatrotsPair ==
    ASSUME World, NEW s, NEW t, Pair(s, t), EdgesOff(s, t)
    PROVE  LET s1 == TouchPlatrots(s)
               t1 == TouchPlatrots(t)
           IN /\ Pair(s1, t1) /\ EdgesOff(s1, t1) /\ Calm(s, s1)
              /\ s1.platTouch = t1.platTouch /\ SameSpawn(s, s1) /\ SameSpawn(t, t1)
              /\ s1.doorTouch = s.doorTouch /\ t1.doorTouch = t.doorTouch
              /\ s1.monsterTouch = s.monsterTouch /\ t1.monsterTouch = t.monsterTouch
<1> DEFINE now == Touched("platrot", s.pos)
           s0 == ActivateEach(s, now \ s.platTouch, Nobody)
           t0 == ActivateEach(t, now \ t.platTouch, Nobody)
           s1 == [s0 EXCEPT !.platTouch = now]
           t1 == [t0 EXCEPT !.platTouch = now]
<1>1. s.pos = t.pos
  BY DEF Pair, Alike, BodyAlike
<1>2. TouchPlatrots(s) = s1 /\ TouchPlatrots(t) = t1
  BY <1>1 DEF TouchPlatrots
<1>3. Moves(s, t, s0, t0)
  <2> HIDE DEF now
  <2>1. \A e \in (now \ s.platTouch) \cup (now \ t.platTouch) : e \in Entities /\ TouchesOnce(e)
    BY TouchedTouchesOnce DEF now
  <2>2. \A e \in Differ(now \ s.platTouch, now \ t.platTouch) : s.mover[e].st # "Closed"
    BY <2>1 DEF EdgesOff, Differ
  <2>3. Nobody \in Who /\ ~(Nobody > 0)
    BY DEF Who, Nobody
  <2> QED BY <2>1, <2>2, <2>3, EdgesMove
<1> HIDE DEF s0, t0, now
<1>4. /\ EdgesOff(s0, t0) /\ Pair(s0, t0) /\ Calm(s, s0)
      /\ SameTouch(s, s0) /\ SameTouch(t, t0)
  BY <1>3, MovesEdges
<1>5. Shape(s0) /\ Shape(t0)
  BY <1>4 DEF Pair, Sound, Alike
<1>6. /\ Shape(s1) /\ FreeAlike(s0, s1) /\ BodyAlike(s0, s1) /\ SameQueue(s0, s1)
      /\ Shape(t1) /\ FreeAlike(t0, t1) /\ BodyAlike(t0, t1) /\ SameQueue(t0, t1)
      /\ s1.platTouch = now /\ t1.platTouch = now /\ SameSpawn(s0, s1) /\ SameSpawn(t0, t1)
      /\ s1.doorTouch = s0.doorTouch /\ t1.doorTouch = t0.doorTouch
      /\ s1.monsterTouch = s0.monsterTouch /\ t1.monsterTouch = t0.monsterTouch
      /\ s1.mover = s0.mover
  BY <1>5 DEF Shape, Fields, FreeAlike, BodyAlike, SameQueue, SameSpawn
<1> HIDE DEF s1, t1
<1>7. Pair(s1, t1) /\ Calm(s0, s1)
  BY <1>4, <1>6, TouchPuts
<1>8. EdgesOff(s1, t1)
  BY <1>4, <1>6 DEF EdgesOff, Differ
<1>9. Calm(s, s1)
  BY <1>4, <1>7, CalmTwice DEF Pair
<1> QED BY <1>2, <1>4, <1>6, <1>7, <1>8, <1>9 DEF SameSpawn, SameTouch

LEMMA TouchRotButtonsMoves ==
    ASSUME World, NEW s, NEW t, Pair(s, t)
    PROVE  Moves(s, t, TouchRotButtons(s), TouchRotButtons(t))
<1> DEFINE now == Touched("rotbutton", s.pos)
           s0 == ActivateEach(s, now \ s.rotTouch, Player)
           t0 == ActivateEach(t, now \ s.rotTouch, Player)
           s1 == [s0 EXCEPT !.rotTouch = now]
           t1 == [t0 EXCEPT !.rotTouch = now]
<1>1. s.pos = t.pos /\ s.rotTouch = t.rotTouch
  BY DEF Pair, Alike, BodyAlike, FreeAlike
<1>2. TouchRotButtons(s) = s1 /\ TouchRotButtons(t) = t1
  BY <1>1 DEF TouchRotButtons
<1>3. Moves(s, t, s0, t0)
  <2>1. \A e \in now : world[e].kind = "rotbutton"
    BY DEF Touched, Touchable, OfKind
  <2>2. Player \in Who
    BY DEF Who
  <2> HIDE DEF now
  <2> QED BY <2>1, <2>2, EachMoves DEF ActivateEach
<1> HIDE DEF s0, t0, now
<1>4. Pair(s0, t0) /\ Shape(s0) /\ Shape(t0) /\ FreeAlike(s0, t0)
  BY <1>3 DEF Moves, Steps, Pair, Sound, Alike
<1>5. SameBody(s0, s1) /\ SameBody(t0, t1) /\ SameQueue(s0, s1) /\ SameQueue(t0, t1)
  BY ZenonT(40), <1>4 DEF Shape, Fields, SameBody, BodyAlike, SameTouch, SameQueue
<1>6. FreeAlike(s1, t1)
  BY <1>4 DEF Shape, Fields, FreeAlike
<1> HIDE DEF s1, t1
<1>7. Moves(s0, t0, s1, t1)
  BY <1>4, <1>5, <1>6, FreeMoves
<1> QED BY <1>2, <1>3, <1>7, MovesTwice

LEMMA BreakEachMoves ==
    ASSUME World, NEW s, NEW t, Pair(s, t), NEW set
    PROVE  Moves(s, t, BreakEach(s, set), BreakEach(t, set))
<1>a. Player \in Who
  BY DEF Who
<1> DEFINE n == Len(world)
           B(acc, i) == IF i \in set THEN BreakEntity(acc, i, Player) ELSE acc
<1>1. n \in Nat
  BY WorldIsFinite
<1>2. PICK f : /\ f[0] = s /\ \A i \in 1..n : f[i] = B(f[i - 1], i)
               /\ f[n] = BreakEach(s, set)
  BY BreakEachRun
<1>3. PICK g : /\ g[0] = t /\ \A i \in 1..n : g[i] = B(g[i - 1], i)
               /\ g[n] = BreakEach(t, set)
  BY BreakEachRun
<1>4. Moves(s, t, f[n], g[n])
  <2> HIDE DEF B, n
  <2> DEFINE S == {i \in Nat : i <= n => Moves(s, t, f[i], g[i])}
  <2>1. 0 \in S
    BY <1>1, <1>2, <1>3, StaysPut
  <2>2. ASSUME NEW i \in Nat, i \in S PROVE i + 1 \in S
    <3> SUFFICES ASSUME i + 1 <= n PROVE Moves(s, t, f[i + 1], g[i + 1])
      OBVIOUS
    <3>1. f[i + 1] = B(f[i], i + 1) /\ g[i + 1] = B(g[i], i + 1)
      BY <1>1, <1>2, <1>3
    <3>2. Moves(s, t, f[i], g[i]) /\ i + 1 \in 1..n
      BY <1>1, <2>2
    <3>3. Pair(f[i], g[i])
      BY <3>2 DEF Moves, Steps
    <3>4. i + 1 \in Entities
      BY <3>2, WorldIsFinite DEF n
    <3>5. Moves(f[i], g[i], B(f[i], i + 1), B(g[i], i + 1))
      <4>1. CASE i + 1 \in set
        BY <1>a, <3>3, <3>4, <4>1, BreakMoves DEF B
      <4>2. CASE i + 1 \notin set
        BY <3>3, <4>2, StaysPut DEF B, Moves
      <4> QED BY <4>1, <4>2
    <3> QED BY <3>1, <3>2, <3>5, MovesTwice
  <2> HIDE DEF S
  <2>3. n \in S
    BY <1>1, <2>1, <2>2, Induction
  <2> QED BY <1>1, <2>3 DEF S
<1> QED BY <1>2, <1>3, <1>4

LEMMA TouchBreakablesMoves ==
    ASSUME World, NEW s, NEW t, Pair(s, t)
    PROVE  Moves(s, t, TouchBreakables(s), TouchBreakables(t))
<1> DEFINE set == {b \in Touched("breakable", s.pos) : b \notin s.broken}
<1>1. s.pos = t.pos /\ s.broken = t.broken
  BY DEF Pair, Alike, BodyAlike, FreeAlike
<1>2. TouchBreakables(s) = BreakEach(s, set) /\ TouchBreakables(t) = BreakEach(t, set)
  BY <1>1, StepLoops
<1> HIDE DEF set
<1> QED BY <1>2, BreakEachMoves

LEMMA TouchEachMoves ==
    ASSUME World, NEW s, NEW t, Pair(s, t), NEW set
    PROVE  Moves(s, t, TouchEach(s, set), TouchEach(t, set))
<1>a. Player \in Who
  BY DEF Who
<1> DEFINE n == Len(world)
           B(acc, i) == IF i \in set THEN TouchTrigger(acc, i) ELSE acc
<1>1. n \in Nat
  BY WorldIsFinite
<1>2. PICK f : /\ f[0] = s /\ \A i \in 1..n : f[i] = B(f[i - 1], i)
               /\ f[n] = TouchEach(s, set)
  BY TouchEachRun
<1>3. PICK g : /\ g[0] = t /\ \A i \in 1..n : g[i] = B(g[i - 1], i)
               /\ g[n] = TouchEach(t, set)
  BY TouchEachRun
<1>4. Moves(s, t, f[n], g[n])
  <2> HIDE DEF B, n
  <2> DEFINE S == {i \in Nat : i <= n => Moves(s, t, f[i], g[i])}
  <2>1. 0 \in S
    BY <1>1, <1>2, <1>3, StaysPut
  <2>2. ASSUME NEW i \in Nat, i \in S PROVE i + 1 \in S
    <3> SUFFICES ASSUME i + 1 <= n PROVE Moves(s, t, f[i + 1], g[i + 1])
      OBVIOUS
    <3>1. f[i + 1] = B(f[i], i + 1) /\ g[i + 1] = B(g[i], i + 1)
      BY <1>1, <1>2, <1>3
    <3>2. Moves(s, t, f[i], g[i]) /\ i + 1 \in 1..n
      BY <1>1, <2>2
    <3>3. Pair(f[i], g[i])
      BY <3>2 DEF Moves, Steps
    <3>4. i + 1 \in Entities
      BY <3>2, WorldIsFinite DEF n
    <3>5. Moves(f[i], g[i], B(f[i], i + 1), B(g[i], i + 1))
      <4>1. CASE i + 1 \in set
        <5> DEFINE e == i + 1
                   u == ActivateTrigger(f[i], e, Player)
                   v == ActivateTrigger(g[i], e, Player)
        <5>1. Moves(f[i], g[i], u, v)
          BY <1>a, <3>3, <3>4, TriggerMoves
        <5>2. Pair(u, v)
          BY <5>1 DEF Moves, Steps
        <5>3. CanTrigger(f[i], e, Player) <=> CanTrigger(g[i], e, Player)
          BY <3>3, SameGuards
        <5>4. /\ B(f[i], e) \in {u, Sends(u, e)} /\ (B(f[i], e) = u => B(g[i], e) \in {v, Sends(v, e)})
              /\ \/ B(f[i], e) = u /\ B(g[i], e) = v
                 \/ B(f[i], e) = Sends(u, e) /\ B(g[i], e) = Sends(v, e)
          BY <4>1, <5>3 DEF B, TouchTrigger
        <5> HIDE DEF u, v, e
        <5>5. Moves(u, v, Sends(u, e), Sends(v, e))
          BY <5>2, SendsMoves
        <5>6. Moves(f[i], g[i], Sends(u, e), Sends(v, e))
          BY <3>3, <5>1, <5>5, MovesTwice
        <5> QED BY <5>1, <5>4, <5>6 DEF e
      <4>2. CASE i + 1 \notin set
        BY <3>3, <4>2, StaysPut DEF B, Moves
      <4> QED BY <4>1, <4>2
    <3> QED BY <3>1, <3>2, <3>5, MovesTwice
  <2> HIDE DEF S
  <2>3. n \in S
    BY <1>1, <2>1, <2>2, Induction
  <2> QED BY <1>1, <2>3 DEF S
<1> QED BY <1>2, <1>3, <1>4

LEMMA PressUseMoves ==
    ASSUME World, NEW s, NEW t, Pair(s, t)
    PROVE  Moves(s, t, PressUse(s), PressUse(t))
<1> DEFINE near == {e \in Usable : Overlaps(e, s.pos)}
           e == FirstOf(near)
<1>1. s.pos = t.pos
  BY DEF Pair, Alike, BodyAlike
<1>2. /\ PressUse(s) = IF near = {} THEN s ELSE Activate(s, e, Player)
      /\ PressUse(t) = IF near = {} THEN t ELSE Activate(t, e, Player)
  BY <1>1 DEF PressUse
<1>3. near # {} => e \in Entities /\ world[e].kind # "changelevel"
  <2>1. \A d \in near : d \in Entities /\ world[d].kind # "changelevel"
    BY DEF Usable, OfKind
  <2>2. near \subseteq Nat
    BY <2>1, WorldIsFinite
  <2>3. near # {} => e \in near
    <3> HIDE DEF near
    <3> QED BY <2>2, FirstIsLeast
  <2> QED BY <2>1, <2>3
<1>4. Player \in Who
  BY DEF Who
<1> HIDE DEF near, e
<1>5. near # {} => Moves(s, t, Activate(s, e, Player), Activate(t, e, Player))
  BY <1>3, <1>4, ActivateMoves DEF Activate
<1> QED BY <1>2, <1>5, StaysPut

-----------------------------------------------------------------------------
(* Level changes that are touched, and with them all the player touches. *)

LEMMA RaisesStaysPut ==
    ASSUME NEW s, NEW t, Pair(s, t)
    PROVE  Raises(s, t, s, t)
<1>1. Len(s.changes) <= Len(s.changes)
  BY DEF Pair, Sound, IsSequence
<1> QED BY <1>1 DEF Raises, SameTouch, StaysOff

LEMMA RaisesMovesTwice ==
    ASSUME NEW s, NEW t, NEW s1, NEW t1, NEW s2, NEW t2, Pair(s, t),
           Raises(s, t, s1, t1), Raises(s1, t1, s2, t2)
    PROVE  Raises(s, t, s2, t2)
<1>1. /\ Len(s.changes) \in Nat /\ Len(s1.changes) \in Nat /\ Len(s2.changes) \in Nat
  BY DEF Raises, Pair, Sound, IsSequence
<1> QED BY <1>1 DEF Raises, SameTouch, StaysOff

LEMMA RaiseEachRises ==
    ASSUME World, NEW s, NEW t, Pair(s, t), NEW set
    PROVE  Raises(s, t, RaiseEach(s, set), RaiseEach(t, set))
<1> DEFINE n == Len(world)
           B(acc, i) == IF i \in set THEN RaiseChange(acc, i) ELSE acc
<1>1. n \in Nat
  BY WorldIsFinite
<1>2. PICK f : /\ f[0] = s /\ \A i \in 1..n : f[i] = B(f[i - 1], i)
               /\ f[n] = RaiseEach(s, set)
  BY RaiseEachRun
<1>3. PICK g : /\ g[0] = t /\ \A i \in 1..n : g[i] = B(g[i - 1], i)
               /\ g[n] = RaiseEach(t, set)
  BY RaiseEachRun
<1>4. Raises(s, t, f[n], g[n])
  <2> HIDE DEF B, n
  <2> DEFINE S == {i \in Nat : i <= n => Raises(s, t, f[i], g[i])}
  <2>1. 0 \in S
    BY <1>1, <1>2, <1>3, RaisesStaysPut
  <2>2. ASSUME NEW i \in Nat, i \in S PROVE i + 1 \in S
    <3> SUFFICES ASSUME i + 1 <= n PROVE Raises(s, t, f[i + 1], g[i + 1])
      OBVIOUS
    <3>1. f[i + 1] = B(f[i], i + 1) /\ g[i + 1] = B(g[i], i + 1)
      BY <1>1, <1>2, <1>3
    <3>2. Raises(s, t, f[i], g[i]) /\ i + 1 \in 1..n
      BY <1>1, <2>2
    <3>3. Pair(f[i], g[i])
      BY <3>2 DEF Raises
    <3>4. i + 1 \in Entities
      BY <3>2, WorldIsFinite DEF n
    <3>5. Raises(f[i], g[i], B(f[i], i + 1), B(g[i], i + 1))
      <4>1. CASE i + 1 \in set
        BY <3>3, <4>1, RaiseRises DEF B
      <4>2. CASE i + 1 \notin set
        BY <3>3, <4>2, RaisesStaysPut DEF B
      <4> QED BY <4>1, <4>2
    <3> QED BY <3>1, <3>2, <3>5, RaisesMovesTwice
  <2> HIDE DEF S
  <2>3. n \in S
    BY <1>1, <2>1, <2>2, Induction
  <2> QED BY <1>1, <2>3 DEF S
<1> QED BY <1>2, <1>3, <1>4

\* What the change of the volumes' record and the changes it raises leave alone.
Notices(s, t, s1, t1) ==
  /\ Pair(s1, t1) /\ SameTouch(s, s1) /\ SameTouch(t, t1) /\ StaysOff(s, s1)
  /\ s1.pos = s.pos /\ s1.monster = s.monster /\ s1.arrived = s.arrived
  /\ s1.level = Noticed(s).level
  /\ Len(s.changes) <= Len(s1.changes)
  /\ Entered(s) = {} => s1.changes = s.changes

LEMMA TouchChangelevelNotices ==
    ASSUME World, NEW s, NEW t, Pair(s, t)
    PROVE  Notices(s, t, TouchChangelevel(s), TouchChangelevel(t))
<1> DEFINE v == Noticed(s).level
           s1 == [s EXCEPT !.level = v]
           t1 == [t EXCEPT !.level = v]
<1>1. Sound(s) /\ Shape(s) /\ Shape(t) /\ FreeAlike(s, t) /\ BodyAlike(s, t)
  BY DEF Pair, Sound, Alike
<1>2. Noticed(s) = s1 /\ Noticed(t) = t1 /\ Entered(t) = Entered(s)
  <2>1. s.pos = t.pos /\ s.level = t.level
    BY <1>1 DEF BodyAlike
  <2> DEFINE w == [e \in Entities |->
                     CASE e \notin Touchable("changelevel") -> s.level[e]
                       [] e \in Touched("changelevel", s.pos) -> "in"
                       [] OTHER -> "out"]
  <2>2. Noticed(s) = [s EXCEPT !.level = w] /\ Noticed(t) = [t EXCEPT !.level = w]
    BY <2>1 DEF Noticed
  <2> HIDE DEF w
  <2>3. v = w
    BY <1>1, <2>2 DEF Shape, Fields
  <2> QED BY <2>1, <2>2, <2>3 DEF Entered, Enters
<1> HIDE DEF v
<1>3. /\ Shape(s1) /\ Shape(t1) /\ SameTouch(s, s1) /\ SameTouch(t, t1)
      /\ FreeAlike(s1, t1) /\ BodyAlike(s1, t1)
      /\ s1.pending = s.pending /\ t1.pending = t.pending
  BY ZenonT(40), <1>1 DEF Shape, Fields, SameTouch, FreeAlike, BodyAlike
<1>4. /\ s1.mover = s.mover /\ s1.captured = s.captured /\ s1.buttonHealth = s.buttonHealth
      /\ s1.on = s.on /\ s1.train = s.train /\ s1.change = s.change /\ s1.pos = s.pos
      /\ s1.monster = s.monster /\ s1.arrived = s.arrived /\ s1.changes = s.changes
      /\ s1.level = v
  BY <1>1 DEF Shape, Fields
<1> HIDE DEF s1, t1
<1>5. Sound(s1)
  BY <1>1, <1>3, <1>4 DEF Sound, Placed, OnTrack, AllDocked
<1>6. Alike(s1, t1)
  BY <1>3 DEF Pair, Alike
<1>7. Pair(s1, t1)
  BY <1>5, <1>6 DEF Pair
<1> DEFINE s2 == RaiseEach(s1, Entered(s))
           t2 == RaiseEach(t1, Entered(s))
<1>8. Raises(s1, t1, s2, t2)
  BY <1>7, RaiseEachRises
<1>9. TouchChangelevel(s) = s2 /\ TouchChangelevel(t) = t2
  BY <1>2, StepLoops
<1>10. Entered(s) = {} => s2 = s1
  BY DEF RaiseEach, ForEach
<1> HIDE DEF s2, t2
<1>11. StaysOff(s, s2)
  BY <1>4, <1>8 DEF Raises, StaysOff
<1>12. SameTouch(s, s2) /\ SameTouch(t, t2)
  BY <1>3, <1>8 DEF Raises, SameTouch
<1>13. s2.level = Noticed(s).level
  BY <1>4, <1>8 DEF Raises, v
<1> QED BY <1>4, <1>8, <1>9, <1>10, <1>11, <1>12, <1>13 DEF Notices, Raises

\* What the touches of one step do to a level.
Touching(s, s1) ==
  /\ s1.pos = s.pos /\ s1.monster = s.monster
  /\ Len(s.changes) <= Len(s1.changes)
  /\ \A e \in Touched("changelevel", s.pos) : s1.level[e] = "in"
  /\ Uneventful => s1.arrived = s.arrived
  /\ Uneventful /\ Entered(s) = {} => s1.changes = s.changes

LEMMA TouchTriggersPair ==
    ASSUME World, NEW s, NEW t, Pair(s, t), EdgesOff(s, t)
    PROVE  LET s1 == TouchTriggers(s)
               t1 == TouchTriggers(t)
           IN /\ Pair(s1, t1) /\ Touching(s, s1)
              /\ s1.platTouch = t1.platTouch /\ SameSpawn(s, s1) /\ SameSpawn(t, t1)
              /\ s1.doorTouch = s.doorTouch /\ t1.doorTouch = t.doorTouch
              /\ s1.monsterTouch = s.monsterTouch /\ t1.monsterTouch = t.monsterTouch
<1> DEFINE a0 == [s EXCEPT !.telTouch = Beams(s)]
           b0 == [t EXCEPT !.telTouch = Beams(s)]
           a1 == TouchEach(a0, Stepped(s))
           b1 == TouchEach(b0, Stepped(s))
           a2 == TouchChangelevel(a1)
           b2 == TouchChangelevel(b1)
           a3 == TouchRotButtons(a2)
           b3 == TouchRotButtons(b2)
           a4 == TouchBreakables(a3)
           b4 == TouchBreakables(b3)
           a5 == TouchPlatrots(a4)
           b5 == TouchPlatrots(b4)
<1>1. Shape(s) /\ Shape(t) /\ FreeAlike(s, t) /\ BodyAlike(s, t)
  BY DEF Pair, Sound, Alike
<1>2. Beams(t) = Beams(s) /\ Stepped(t) = Stepped(s)
  <2>1. \A e : MasterIsActive(s, e) <=> MasterIsActive(t, e)
    BY SameGuards
  <2> QED BY <1>1, <2>1 DEF Beams, Stepped, Inside, BodyAlike, FreeAlike
<1>3. TouchTriggers(s) = a5 /\ TouchTriggers(t) = b5
  BY ZenonT(40), <1>2, StepLoops
<1>4. Moves(s, t, a0, b0)
  <2>1. SameBody(s, a0) /\ SameBody(t, b0) /\ SameQueue(s, a0) /\ SameQueue(t, b0)
    BY ZenonT(40), <1>1 DEF Shape, Fields, SameBody, BodyAlike, SameTouch, SameQueue
  <2>2. FreeAlike(a0, b0)
    BY <1>1 DEF Shape, Fields, FreeAlike
  <2> HIDE DEF a0, b0
  <2> QED BY <2>1, <2>2, FreeMoves
<1> HIDE DEF a0, b0
<1>5. Pair(a0, b0)
  BY <1>4 DEF Moves, Steps
<1>6. Moves(a0, b0, a1, b1)
  BY <1>5, TouchEachMoves
<1> HIDE DEF a1, b1
<1>7. Moves(s, t, a1, b1)
  BY <1>4, <1>6, MovesTwice
<1>8. /\ EdgesOff(a1, b1) /\ Pair(a1, b1) /\ Calm(s, a1)
      /\ SameTouch(s, a1) /\ SameTouch(t, b1)
  BY <1>7, MovesEdges
<1>9. Notices(a1, b1, a2, b2)
  BY <1>8, TouchChangelevelNotices
<1> HIDE DEF a2, b2
<1>10. EdgesOff(a2, b2) /\ Pair(a2, b2)
  BY <1>8, <1>9 DEF Notices, EdgesOff, SameTouch, StaysOff
<1>11. Moves(a2, b2, a3, b3)
  BY <1>10, TouchRotButtonsMoves
<1> HIDE DEF a3, b3
<1>12. Pair(a3, b3)
  BY <1>11 DEF Moves, Steps
<1>13. Moves(a3, b3, a4, b4)
  BY <1>12, TouchBreakablesMoves
<1> HIDE DEF a4, b4
<1>14. Moves(a2, b2, a4, b4)
  BY <1>10, <1>11, <1>13, MovesTwice
<1>15. /\ EdgesOff(a4, b4) /\ Pair(a4, b4) /\ Calm(a2, a4)
       /\ SameTouch(a2, a4) /\ SameTouch(b2, b4)
  BY <1>10, <1>14, MovesEdges
<1>16. /\ Pair(a5, b5) /\ Calm(a4, a5)
       /\ a5.platTouch = b5.platTouch /\ SameSpawn(a4, a5) /\ SameSpawn(b4, b5)
       /\ a5.doorTouch = a4.doorTouch /\ b5.doorTouch = b4.doorTouch
       /\ a5.monsterTouch = a4.monsterTouch /\ b5.monsterTouch = b4.monsterTouch
  BY <1>15, TouchPlatrotsPair
<1> HIDE DEF a5, b5
<1>17. Calm(a2, a5)
  BY <1>10, <1>15, <1>16, CalmTwice DEF Pair
<1>18. Touching(s, a5)
  <2>1. /\ Len(s.changes) \in Nat /\ Len(a1.changes) \in Nat
        /\ Len(a2.changes) \in Nat /\ Len(a5.changes) \in Nat
    BY <1>8, <1>10, <1>16 DEF Pair, Sound, IsSequence
  <2>2. /\ a5.pos = s.pos /\ a5.monster = s.monster
        /\ Len(s.changes) <= Len(a5.changes)
    BY <1>8, <1>9, <1>17, <2>1 DEF Calm, Notices
  <2>3. /\ Uneventful => a5.arrived = s.arrived
        /\ Uneventful /\ Entered(a1) = {} => a5.changes = s.changes
    BY <1>8, <1>9, <1>17 DEF Calm, Notices
  <2>4. Entered(a1) = Entered(s)
    BY <1>8 DEF Calm, Entered, Enters
  <2>5. a5.level = Noticed(a1).level /\ a1.pos = s.pos /\ Shape(a1)
    BY <1>8, <1>9, <1>17 DEF Calm, Notices, Pair, Sound
  <2>6. \A e \in Touched("changelevel", s.pos) : a5.level[e] = "in"
    BY <2>5 DEF Noticed, Shape, Fields, Touched, Touchable, OfKind
  <2> QED BY <2>2, <2>3, <2>4, <2>6 DEF Touching
<1> QED BY <1>3, <1>8, <1>9, <1>15, <1>16, <1>18 DEF Notices, SameTouch, SameSpawn

-----------------------------------------------------------------------------
(* The tick, up to its queue. *)

LEMMA NotNamed ==
    ASSUME NEW name, Uneventful
    PROVE  \A e \in Find(name) : world[e].kind # "changelevel"
BY ZenonT(40) DEF Find, Uneventful, OfKind

\* Whether both levels have fired game_playerspawn, if there is one.
SpawnsAlike(s, t) == (s.spawnFired <=> t.spawnFired) \/ Find(SpawnName) = {}
SameEdges(s, s1) ==
  /\ s1.doorTouch = s.doorTouch /\ s1.monsterTouch = s.monsterTouch
  /\ s1.platTouch = s.platTouch

LEMMA FirePlayerSpawnPair ==
    ASSUME World, NEW s, NEW t, Pair(s, t), SpawnsAlike(s, t)
    PROVE  LET s1 == FirePlayerSpawn(s)
               t1 == FirePlayerSpawn(t)
           IN /\ Pair(s1, t1) /\ Calm(s, s1) /\ SameEdges(s, s1) /\ SameEdges(t, t1)
              /\ s1.spawnFired <=> t1.spawnFired
<1> DEFINE s0 == IF s.spawnFired THEN s ELSE [s EXCEPT !.spawnFired = TRUE]
           t0 == IF t.spawnFired THEN t ELSE [t EXCEPT !.spawnFired = TRUE]
           s1 == FirePlayerSpawn(s)
           t1 == FirePlayerSpawn(t)
<1>1. Shape(s) /\ Shape(t)
  BY DEF Pair, Sound, Alike
<1>2. /\ Shape(s0) /\ FreeAlike(s, s0) /\ BodyAlike(s, s0) /\ SameQueue(s, s0)
      /\ SameEdges(s, s0) /\ s0.spawnFired
  BY ZenonT(40), <1>1 DEF Shape, Fields, FreeAlike, BodyAlike, SameQueue, SameEdges
<1>3. /\ Shape(t0) /\ FreeAlike(t, t0) /\ BodyAlike(t, t0) /\ SameQueue(t, t0)
      /\ SameEdges(t, t0) /\ t0.spawnFired
  BY ZenonT(40), <1>1 DEF Shape, Fields, FreeAlike, BodyAlike, SameQueue, SameEdges
<1> DEFINE s2 == ActivateEach(s0, Find(SpawnName), Nobody)
           t2 == ActivateEach(t0, Find(SpawnName), Nobody)
<1>4. /\ s1 = IF s.spawnFired THEN s0 ELSE s2
      /\ t1 = IF t.spawnFired THEN t0 ELSE t2
  BY DEF FirePlayerSpawn
<1>5. Find(SpawnName) = {} => s2 = s0 /\ t2 = t0
  BY DEF ActivateEach, ActivateEachWith, ForEach
<1> HIDE DEF s0, t0, s1, t1
<1>6. Pair(s0, t0) /\ Calm(s, s0)
  BY <1>2, <1>3, TouchPuts
<1>7. Moves(s0, t0, s2, t2)
  BY <1>6, NotNamed, EachMoves DEF ActivateEach, Who
<1> HIDE DEF s2, t2
<1>8. Moves(s0, t0, s1, t1)
  <2>1. CASE s.spawnFired <=> t.spawnFired
    BY <1>4, <1>6, <1>7, <2>1, StaysPut
  <2>2. CASE Find(SpawnName) = {}
    BY <1>4, <1>5, <1>6, <2>2, StaysPut
  <2> QED BY <2>1, <2>2 DEF SpawnsAlike
<1>9. Calm(s, s1)
  BY <1>6, <1>8, CalmTwice DEF Moves, Steps, Pair
<1> QED BY <1>2, <1>3, <1>8, <1>9 DEF Moves, Steps, SameTouch, SameEdges, s1, t1

LEMMA StartAutoMoves ==
    ASSUME World, NEW s, NEW t, Pair(s, t), NEW e \in Entities
    PROVE  Moves(s, t, StartAuto(s, e), StartAuto(t, e))
<1> DEFINE s0 == [s EXCEPT !.autoFired = @ \cup {e}]
           t0 == [t EXCEPT !.autoFired = @ \cup {e}]
           s1 == FireTarget(s0, e, e, world[e].delay, world[e].use)
           t1 == FireTarget(t0, e, e, world[e].delay, world[e].use)
           s2 == [s1 EXCEPT !.alive = @ \ {e}]
           t2 == [t1 EXCEPT !.alive = @ \ {e}]
<1>1. Shape(s) /\ Shape(t) /\ FreeAlike(s, t)
  BY SMTT(40) DEF Pair, Sound, Alike
<1>2. /\ SameBody(s, s0) /\ SameBody(t, t0) /\ SameQueue(s, s0) /\ SameQueue(t, t0)
      /\ FreeAlike(s0, t0)
  BY ZenonT(40), <1>1 DEF Shape, Fields, SameBody, BodyAlike, SameTouch, SameQueue, FreeAlike
<1>3. /\ StartAuto(s, e) = IF world[e].remove THEN s2 ELSE s1
      /\ StartAuto(t, e) = IF world[e].remove THEN t2 ELSE t1
  BY DEF StartAuto
<1> HIDE DEF s0, t0
<1>4. Moves(s, t, s0, t0)
  BY <1>2, FreeMoves
<1>5. Moves(s0, t0, s1, t1)
  <2>1. Pair(s0, t0) /\ e \in Who /\ world[e].delay \in Int
    BY <1>4, WorldIsFinite DEF Moves, Steps, Who, Listed
  <2> QED BY <2>1, FireTargetMoves
<1> HIDE DEF s1, t1
<1>6. Pair(s1, t1) /\ Shape(s1) /\ Shape(t1) /\ FreeAlike(s1, t1)
  BY SMTT(40), <1>5 DEF Moves, Steps, Pair, Sound, Alike
<1>7. /\ SameBody(s1, s2) /\ SameBody(t1, t2) /\ SameQueue(s1, s2) /\ SameQueue(t1, t2)
      /\ FreeAlike(s2, t2)
  BY ZenonT(40), <1>6 DEF Shape, Fields, SameBody, BodyAlike, SameTouch, SameQueue, FreeAlike
<1> HIDE DEF s2, t2
<1>8. Moves(s1, t1, s2, t2)
  BY <1>6, <1>7, FreeMoves
<1>9. Moves(s, t, s1, t1)
  BY <1>4, <1>5, MovesTwice
<1>10. Moves(s, t, s2, t2)
  BY <1>8, <1>9, MovesTwice
<1> QED BY <1>3, <1>9, <1>10

LEMMA StartEachMoves ==
    ASSUME World, NEW s, NEW t, Pair(s, t), NEW set
    PROVE  Moves(s, t, StartEach(s, set), StartEach(t, set))
<1> DEFINE n == Len(world)
           B(acc, i) == IF i \in set THEN StartAuto(acc, i) ELSE acc
<1>1. n \in Nat
  BY WorldIsFinite
<1>2. PICK f : /\ f[0] = s /\ \A i \in 1..n : f[i] = B(f[i - 1], i)
               /\ f[n] = StartEach(s, set)
  BY StartEachRun
<1>3. PICK g : /\ g[0] = t /\ \A i \in 1..n : g[i] = B(g[i - 1], i)
               /\ g[n] = StartEach(t, set)
  BY StartEachRun
<1>4. Moves(s, t, f[n], g[n])
  <2> HIDE DEF B, n
  <2> DEFINE S == {i \in Nat : i <= n => Moves(s, t, f[i], g[i])}
  <2>1. 0 \in S
    BY <1>1, <1>2, <1>3, StaysPut
  <2>2. ASSUME NEW i \in Nat, i \in S PROVE i + 1 \in S
    <3> SUFFICES ASSUME i + 1 <= n PROVE Moves(s, t, f[i + 1], g[i + 1])
      OBVIOUS
    <3>1. f[i + 1] = B(f[i], i + 1) /\ g[i + 1] = B(g[i], i + 1)
      BY <1>1, <1>2, <1>3
    <3>2. Moves(s, t, f[i], g[i]) /\ i + 1 \in 1..n
      BY <1>1, <2>2
    <3>3. Pair(f[i], g[i])
      BY <3>2 DEF Moves, Steps
    <3>4. i + 1 \in Entities
      BY <3>2, WorldIsFinite DEF n
    <3>5. Moves(f[i], g[i], B(f[i], i + 1), B(g[i], i + 1))
      <4>1. CASE i + 1 \in set
        BY <3>3, <3>4, <4>1, StartAutoMoves DEF B
      <4>2. CASE i + 1 \notin set
        BY <3>3, <4>2, StaysPut DEF B, Moves
      <4> QED BY <4>1, <4>2
    <3> QED BY <3>1, <3>2, <3>5, MovesTwice
  <2> HIDE DEF S
  <2>3. n \in S
    BY <1>1, <2>1, <2>2, Induction
  <2> QED BY <1>1, <2>3 DEF S
<1> QED BY <1>2, <1>3, <1>4

LEMMA FireAutoTriggersMoves ==
    ASSUME World, NEW s, NEW t, Pair(s, t)
    PROVE  Moves(s, t, FireAutoTriggers(s), FireAutoTriggers(t))
<1>1. Autos(s) = Autos(t)
  <2>1. Live(s, {"auto"}) = Live(t, {"auto"}) /\ s.autoFired = t.autoFired
    BY SameGuards DEF Pair, Alike, FreeAlike
  <2> QED BY <2>1 DEF Autos
<1>2. FireAutoTriggers(s) = StartEach(s, Autos(s)) /\ FireAutoTriggers(t) = StartEach(t, Autos(s))
  BY <1>1, StepLoops
<1> QED BY <1>2, StartEachMoves

LEMMA QueueHasFires ==
    ASSUME NEW q, IsQueue(q)
    PROVE  Len(q) \in Nat /\ DOMAIN q = 1..Len(q) /\ \A i \in 1..Len(q) : IsFire(q[i])
<1>1. PICK F : q \in Seq(F) /\ \A f \in F : IsFire(f)
  BY DEF IsQueue
<1> QED BY <1>1

LEMMA QueueMade ==
    ASSUME NEW q, NEW n \in Nat, q = [i \in 1..n |-> q[i]], \A i \in 1..n : IsFire(q[i])
    PROVE  IsQueue(q) /\ Len(q) = n
<1> DEFINE F == {q[i] : i \in 1..n}
<1>1. q \in Seq(F) /\ Len(q) = n
  <2>1. \A i \in 1..n : q[i] \in F
    OBVIOUS
  <2> HIDE DEF F
  <2>2. q \in [1..n -> F]
    BY <2>1
  <2> QED BY <2>2
<1>2. \A f \in F : IsFire(f)
  OBVIOUS
<1> QED BY <1>1, <1>2 DEF IsQueue

LEMMA SoonerMoves ==
    ASSUME NEW s, NEW t, Pair(s, t)
    PROVE  Moves(s, t, Sooner(s), Sooner(t))
<1> DEFINE s1 == Sooner(s)
           t1 == Sooner(t)
           p == s.pending
           q == t.pending
<1>1. Shape(s) /\ Shape(t) /\ FreeAlike(s, t) /\ IsQueue(p) /\ IsQueue(q)
      /\ QueuesAlike(p, q)
  BY DEF Pair, Sound, Alike
<1>a. s1 = [s EXCEPT !.pending = Nearer(p)] /\ t1 = [t EXCEPT !.pending = Nearer(q)]
  BY SMTT(40) DEF Sooner
<1>2. /\ SameBody(s, s1) /\ SameBody(t, t1) /\ FreeAlike(s1, t1)
      /\ s1.pending = Nearer(p) /\ t1.pending = Nearer(q)
  <2> HIDE DEF s1, t1
  <2> QED BY SMTT(40), <1>1, <1>a DEF Shape, Fields, SameBody, BodyAlike, SameTouch, FreeAlike
<1> HIDE DEF p, q, s1, t1
<1>3. ASSUME NEW u, IsQueue(u)
      PROVE  /\ IsQueue(Nearer(u)) /\ Len(Nearer(u)) = Len(u)
             /\ \A i \in 1..Len(u) : Nearer(u)[i] = [u[i] EXCEPT !.delay = @ - 1]
  <2>1. Len(u) \in Nat /\ DOMAIN u = 1..Len(u) /\ \A i \in 1..Len(u) : IsFire(u[i])
    BY <1>3, QueueHasFires
  <2>2. \A i \in 1..Len(u) : Nearer(u)[i] = [u[i] EXCEPT !.delay = @ - 1]
    BY <2>1 DEF Nearer
  <2>3. \A i \in 1..Len(u) : IsFire(Nearer(u)[i])
    <3>1. ASSUME NEW f, IsFire(f) PROVE IsFire([f EXCEPT !.delay = @ - 1])
      BY <3>1 DEF IsFire
    <3> QED BY <2>1, <2>2, <3>1
  <2>4. Nearer(u) = [i \in 1..Len(u) |-> Nearer(u)[i]]
    BY <2>1 DEF Nearer
  <2> QED BY <2>1, <2>2, <2>3, <2>4, QueueMade
<1>4. IsQueue(s1.pending) /\ IsQueue(t1.pending)
  BY <1>1, <1>2, <1>3
<1>5. QueuesAlike(s1.pending, t1.pending)
  <2>1. Len(p) = Len(q) /\ Len(p) \in Nat
    BY <1>1, QueueHasFires DEF QueuesAlike
  <2>2. ASSUME NEW i \in 1..Len(p) PROVE FiresAlike(Nearer(p)[i], Nearer(q)[i])
    <3>1. FiresAlike(p[i], q[i]) /\ IsFire(p[i]) /\ IsFire(q[i])
      BY <1>1, <2>1, <2>2, QueueHasFires DEF QueuesAlike
    <3>2. /\ Nearer(p)[i] = [p[i] EXCEPT !.delay = @ - 1]
          /\ Nearer(q)[i] = [q[i] EXCEPT !.delay = @ - 1]
      BY <1>1, <1>3, <2>1, <2>2
    <3> QED BY <3>1, <3>2 DEF FiresAlike, IsFire
  <2> QED BY <1>1, <1>2, <1>3, <2>1, <2>2 DEF QueuesAlike
<1>6. Moves(s, t, s1, t1)
  BY <1>2, <1>4, <1>5, BodyMoves
<1> QED BY <1>6 DEF s1, t1

\* A queue without the fire at `i', whose place the last one takes.
Without(q, i) == SubSeq([q EXCEPT ![i] = q[Len(q)]], 1, Len(q) - 1)

LEMMA WithoutIsQueue ==
    ASSUME NEW q, IsQueue(q), NEW i \in 1..Len(q)
    PROVE  /\ IsQueue(Without(q, i)) /\ Len(Without(q, i)) = Len(q) - 1
           /\ \A k \in 1..(Len(q) - 1) : Without(q, i)[k] = q[IF k = i THEN Len(q) ELSE k]
<1>1. PICK F : q \in Seq(F) /\ \A f \in F : IsFire(f)
  BY DEF IsQueue
<1> DEFINE n == Len(q)
           r == [q EXCEPT ![i] = q[n]]
<1>2. n \in Nat /\ n >= 1 /\ q[n] \in F /\ r \in Seq(F) /\ Len(r) = n
  BY <1>1
<1>3. \A k \in 1..n : r[k] = q[IF k = i THEN n ELSE k]
  BY <1>1
<1> HIDE DEF r
<1>4. /\ SubSeq(r, 1, n - 1) \in Seq(F) /\ Len(SubSeq(r, 1, n - 1)) = n - 1
      /\ \A k \in 1..(n - 1) : SubSeq(r, 1, n - 1)[k] = r[k]
  BY <1>2
<1> QED BY <1>1, <1>2, <1>3, <1>4 DEF Without, IsQueue, r

LEMMA FireDueMoves ==
    ASSUME World, NEW s, NEW t, Pair(s, t)
    PROVE  Moves(s, t, FireDue(s), FireDue(t))
<1> DEFINE i == FirstOf(Due(s))
           p == s.pending
           q == t.pending
           s1 == [s EXCEPT !.pending = Without(p, i)]
           t1 == [t EXCEPT !.pending = Without(q, i)]
<1>1. Shape(s) /\ Shape(t) /\ FreeAlike(s, t) /\ IsQueue(p) /\ IsQueue(q)
      /\ QueuesAlike(p, q)
  BY DEF Pair, Sound, Alike
<1>2. /\ Len(p) \in Nat /\ DOMAIN p = 1..Len(p) /\ DOMAIN q = 1..Len(p) /\ Len(q) = Len(p)
      /\ \A k \in 1..Len(p) : IsFire(p[k]) /\ IsFire(q[k]) /\ FiresAlike(p[k], q[k])
  BY <1>1, QueueHasFires DEF QueuesAlike
<1>3. Due(s) = Due(t) /\ Due(s) \subseteq 1..Len(p)
  <2>1. \A k \in 1..Len(p) : p[k].delay <= 0 <=> q[k].delay <= 0
    BY <1>2 DEF FiresAlike, IsFire
  <2> QED BY <1>2, <2>1 DEF Due
<1>4. CASE Due(s) = {}
  <2>1. FireDue(s) = s /\ FireDue(t) = t
    BY <1>3, <1>4 DEF FireDue
  <2> QED BY <2>1, StaysPut
<1>5. CASE Due(s) # {}
  <2>1. i \in 1..Len(p)
    <3>1. Due(s) \subseteq Nat
      BY <1>3, <1>2
    <3>2. i \in Due(s)
      BY <1>5, <3>1, FirstIsLeast
    <3> QED BY <1>3, <3>2
  <2>2. /\ FireDue(s) = ActivateEachWith(s1, Find(p[i].target), p[i].who, p[i].use)
        /\ FireDue(t) = ActivateEachWith(t1, Find(q[i].target), q[i].who, q[i].use)
    BY <1>3, <1>5, Zenon DEF FireDue, Without
  <2>3. p[i].target = q[i].target /\ p[i].who = q[i].who /\ p[i].use = q[i].use /\ p[i].who \in Who
    BY <1>2, <2>1 DEF FiresAlike, IsFire
  <2> HIDE DEF i
  <2>4. /\ SameBody(s, s1) /\ SameBody(t, t1) /\ FreeAlike(s1, t1)
        /\ s1.pending = Without(p, i) /\ t1.pending = Without(q, i)
    BY ZenonT(40), <1>1 DEF Shape, Fields, SameBody, BodyAlike, SameTouch, FreeAlike
  <2> HIDE DEF p, q, s1, t1
  <2>5. IsQueue(s1.pending) /\ IsQueue(t1.pending)
    BY <1>1, <1>2, <2>1, <2>4, WithoutIsQueue
  <2>6. QueuesAlike(s1.pending, t1.pending)
    <3>1. /\ Len(Without(p, i)) = Len(p) - 1 /\ Len(Without(q, i)) = Len(p) - 1
          /\ \A k \in 1..(Len(p) - 1) :
               /\ Without(p, i)[k] = p[IF k = i THEN Len(p) ELSE k]
               /\ Without(q, i)[k] = q[IF k = i THEN Len(p) ELSE k]
      <4>1. i \in 1..Len(q)
        BY <1>2, <2>1
      <4>2. /\ Len(Without(p, i)) = Len(p) - 1
            /\ \A k \in 1..(Len(p) - 1) : Without(p, i)[k] = p[IF k = i THEN Len(p) ELSE k]
        BY <1>1, <2>1, WithoutIsQueue
      <4>3. /\ Len(Without(q, i)) = Len(q) - 1
            /\ \A k \in 1..(Len(q) - 1) : Without(q, i)[k] = q[IF k = i THEN Len(q) ELSE k]
        BY <1>1, <4>1, WithoutIsQueue
      <4> QED BY <1>2, <4>2, <4>3
    <3>2. \A k \in 1..(Len(p) - 1) : (IF k = i THEN Len(p) ELSE k) \in 1..Len(p)
      BY <1>2, <2>1
    <3> QED BY <1>2, <2>4, <3>1, <3>2 DEF QueuesAlike
  <2>7. Moves(s, t, s1, t1)
    BY <2>4, <2>5, <2>6, BodyMoves
  <2>8. Pair(s1, t1)
    BY <2>7 DEF Moves, Steps
  <2>9. Moves(s1, t1, FireDue(s), FireDue(t))
    BY <2>2, <2>3, <2>8, NotNamed, EachMoves
  <2> QED BY <2>7, <2>9, MovesTwice
<1> QED BY <1>4, <1>5

LEMMA FireDueTimesMoves ==
    ASSUME World, NEW s, NEW t, Pair(s, t)
    PROVE  Moves(s, t, FireDueTimes(s), FireDueTimes(t))
<1> DEFINE n == MaxEvents
           B(acc, i) == FireDue(acc)
<1>1. n \in Nat
  BY MaxEventsAssumption
<1>2. PICK f : /\ f[0] = s /\ \A i \in 1..n : f[i] = B(f[i - 1], i)
               /\ f[n] = FireDueTimes(s)
  BY FireDueTimesRun
<1>3. PICK g : /\ g[0] = t /\ \A i \in 1..n : g[i] = B(g[i - 1], i)
               /\ g[n] = FireDueTimes(t)
  BY FireDueTimesRun
<1>4. Moves(s, t, f[n], g[n])
  <2> HIDE DEF B, n
  <2> DEFINE S == {i \in Nat : i <= n => Moves(s, t, f[i], g[i])}
  <2>1. 0 \in S
    BY <1>1, <1>2, <1>3, StaysPut
  <2>2. ASSUME NEW i \in Nat, i \in S PROVE i + 1 \in S
    <3> SUFFICES ASSUME i + 1 <= n PROVE Moves(s, t, f[i + 1], g[i + 1])
      OBVIOUS
    <3>1. f[i + 1] = B(f[i], i + 1) /\ g[i + 1] = B(g[i], i + 1)
      BY <1>1, <1>2, <1>3
    <3>2. Moves(s, t, f[i], g[i]) /\ i + 1 \in 1..n
      BY <1>1, <2>2
    <3>3. Pair(f[i], g[i])
      BY <3>2 DEF Moves, Steps
    <3>5. Moves(f[i], g[i], B(f[i], i + 1), B(g[i], i + 1))
      BY <3>3, FireDueMoves DEF B
    <3> QED BY <3>1, <3>2, <3>5, MovesTwice
  <2> HIDE DEF S
  <2>3. n \in S
    BY <1>1, <2>1, <2>2, Induction
  <2> QED BY <1>1, <2>3 DEF S
<1> QED BY <1>2, <1>3, <1>4

LEMMA AdvanceQueueMoves ==
    ASSUME World, NEW s, NEW t, Pair(s, t)
    PROVE  Moves(s, t, AdvanceQueue(s), AdvanceQueue(t))
<1>1. Moves(s, t, Sooner(s), Sooner(t))
  BY SoonerMoves
<1>2. Pair(Sooner(s), Sooner(t))
  BY <1>1 DEF Moves, Steps
<1>a. AdvanceQueue(s) = FireDueTimes(Sooner(s)) /\ AdvanceQueue(t) = FireDueTimes(Sooner(t))
  BY StepLoops
<1>3. Moves(Sooner(s), Sooner(t), AdvanceQueue(s), AdvanceQueue(t))
  BY <1>2, <1>a, FireDueTimesMoves
<1> QED BY <1>1, <1>3, MovesTwice

-----------------------------------------------------------------------------
(* The tick: rotators, trains, platforms and cameras. *)

IsRide(r, carry) ==
  /\ r = [x \in {"train", "remaining", "fired"} |-> r[x]]
  /\ IsTrain(r.train) /\ r.train.carry = carry

LEMMA RideOnKeeps ==
    ASSUME NEW r, NEW carry, IsRide(r, carry), NEW i
    PROVE  IsRide(RideOn(r, i), carry)
<1> DEFINE u == r.train
           other == OtherIndex(u)
           left == SegmentLen(u, other) - u.along
           node == world[u.chain.nodes[other]]
           stays == node.stop \/ node.wait > 0
           Halted == r.remaining <= 0 \/ ~u.moving
           Stops == [u EXCEPT !.moving = FALSE, !.deadEndFired = TRUE]
           Passes == [u EXCEPT !.node = other, !.along = 0,
                           !.deadEndFired = FALSE,
                           !.speed = IF node.speed # 0 THEN node.speed ELSE @,
                           !.moving = ~node.stop,
                           !.wait = IF ~node.stop /\ node.wait > 0 THEN node.wait ELSE @]
           Goes == [u EXCEPT !.along = @ + r.remaining]
           q == RideOn(r, i)
<1>1. /\ IsTrain(u) /\ u.carry = carry
      /\ r = [x \in {"train", "remaining", "fired"} |-> r[x]]
  BY DEF IsRide
<1>2. IsTrain(Stops) /\ Stops.carry = carry
  BY <1>1 DEF IsTrain, TrainFields
<1>3. IsTrain(Passes) /\ Passes.carry = carry
  <2> HIDE DEF u, other, node
  <2> QED BY <1>1 DEF IsTrain, TrainFields
<1>4. IsTrain(Goes) /\ Goes.carry = carry
  BY <1>1 DEF IsTrain, TrainFields
<1>5. q = IF Halted THEN r
          ELSE IF other = 0
          THEN [train |-> Stops, remaining |-> 0,
                fired |-> IF u.deadEndFired THEN r.fired
                          ELSE Append(r.fired, world[u.chain.nodes[u.node]].deadEnd)]
          ELSE IF r.remaining >= left
          THEN [train |-> Passes,
                remaining |-> IF stays THEN 0 ELSE r.remaining - left,
                fired |-> Append(r.fired, node.message)]
          ELSE [r EXCEPT !.train.along = @ + r.remaining, !.remaining = 0]
  BY DEF RideOn
<1>6. LET w == [r EXCEPT !.train.along = @ + r.remaining, !.remaining = 0]
      IN w.train = Goes /\ w = [x \in {"train", "remaining", "fired"} |-> w[x]]
  BY <1>1
<1> HIDE DEF q, u, other, left, node, stays, Halted, Stops, Passes, Goes
<1>7. CASE Halted
  BY <1>5, <1>7 DEF q
<1>8. CASE ~Halted /\ other = 0
  BY <1>2, <1>5, <1>8 DEF q, IsRide
<1>9. CASE ~Halted /\ other # 0 /\ r.remaining >= left
  BY <1>3, <1>5, <1>9 DEF q, IsRide
<1>10. CASE ~Halted /\ other # 0 /\ ~(r.remaining >= left)
  BY <1>4, <1>5, <1>6, <1>10 DEF q, IsRide
<1> QED BY <1>7, <1>8, <1>9, <1>10

LEMMA RideTimesKeeps ==
    ASSUME NEW r, NEW carry, IsRide(r, carry)
    PROVE  IsRide(RideTimes(r), carry)
<1> DEFINE s0 == r
           n == MaxTransitions
           B(acc, i) == RideOn(acc, i)
<1>1. n \in Nat
  BY MaxTransitionsAssumption
<1>2. PICK after : /\ after[0] = s0
                   /\ \A i \in 1..n : after[i] = B(after[i - 1], i)
                   /\ after[n] = RideTimes(r)
  BY RideTimesRun
<1>4. IsRide(after[n], carry)
  <2> HIDE DEF B, s0, n
  <2> DEFINE S == {i \in Nat : i <= n => IsRide(after[i], carry)}
  <2>1. 0 \in S
    BY <1>1, <1>2 DEF s0
  <2>2. ASSUME NEW i \in Nat, i \in S PROVE i + 1 \in S
    <3> SUFFICES ASSUME i + 1 <= n PROVE IsRide(after[(i + 1)], carry)
      OBVIOUS
    <3>1. after[i + 1] = B(after[i], i + 1)
      BY <1>1, <1>2
    <3>2. IsRide(after[i], carry) /\ i + 1 \in 1..n
      BY <1>1, <2>2
    <3>3. IsRide(B(after[i], i + 1), carry)
      BY <3>2, RideOnKeeps DEF B
    <3> QED BY <3>1, <3>3
  <2> HIDE DEF S
  <2>3. n \in S
    BY <1>1, <2>1, <2>2, Induction
  <2> QED BY <1>1, <2>3 DEF S
<1> QED BY <1>2, <1>4

LEMMA AdvanceFiringKeeps ==
    ASSUME NEW t, IsTrain(t)
    PROVE  IsTrain(AdvanceFiring(t).train) /\ AdvanceFiring(t).train.carry = t.carry
<1> DEFINE wait == Most(t.wait - 1, 0)
           u == [t EXCEPT !.wait = wait]
           r == [train |-> u, remaining |-> t.speed, fired |-> <<>>]
<1> HIDE DEF wait
<1>1. IsTrain(u) /\ u.carry = t.carry
  BY DEF IsTrain, TrainFields
<1>2. AdvanceFiring(t).train = t \/ AdvanceFiring(t).train = u \/ AdvanceFiring(t) = RideTimes(r)
  BY DEF AdvanceFiring, wait, RideTimes
<1> HIDE DEF u
<1>3. IsRide(r, t.carry)
  BY <1>1 DEF IsRide
<1> HIDE DEF r
<1>4. IsRide(RideTimes(r), t.carry)
  BY <1>3, RideTimesKeeps
<1> QED BY <1>1, <1>2, <1>4 DEF IsRide

LEMMA RiddenMoves ==
    ASSUME NEW s, NEW t, Pair(s, t)
    PROVE  Moves(s, t, Ridden(s), Ridden(t)) /\ Riding(s) = Riding(t) /\ Passing(s) = Passing(t)
<1> DEFINE v == [e \in Trains |-> IF e \in Live(s, {"train"}) THEN Riding(s)[e].train ELSE s.train[e]]
           s1 == Ridden(s)
           t1 == Ridden(t)
<1>1. OnTrack(s) /\ Shape(s) /\ Shape(t) /\ s.train = t.train /\ s.change = t.change
      /\ DOMAIN s.train = Trains /\ Live(s, {"train"}) = Live(t, {"train"})
  BY SameGuards DEF Pair, Sound, Alike, BodyAlike, FreeAlike, OnTrack
<1>2. Riding(s) = Riding(t)
  BY <1>1 DEF Riding
<1>3. Passing(s) = Passing(t)
  BY <1>1, <1>2 DEF Passing
<1>4. s1 = [s EXCEPT !.train = v] /\ t1 = [t EXCEPT !.train = v]
  BY <1>1, <1>2 DEF Ridden
<1>5. \A e \in Trains : IsTrain(v[e]) /\ v[e].carry = s.train[e].carry
  <2>1. \A e \in Live(s, {"train"}) : Riding(s)[e] = AdvanceFiring(s.train[e])
    BY DEF Riding
  <2> SUFFICES ASSUME NEW e \in Trains PROVE IsTrain(v[e]) /\ v[e].carry = s.train[e].carry
    OBVIOUS
  <2>2. IsTrain(s.train[e])
    BY <1>1 DEF OnTrack
  <2>3. v[e] = s.train[e] \/ v[e] = AdvanceFiring(s.train[e]).train
    BY <2>1
  <2> HIDE DEF v
  <2> QED BY <2>2, <2>3, AdvanceFiringKeeps
<1>6. v = [e \in Trains |-> v[e]]
  BY SMTT(40)
<1> HIDE DEF v, s1, t1
<1>7. /\ OnlyTrack(s, s1) /\ OnlyTrack(t, t1) /\ s1.train = v /\ t1.train = v
      /\ s1.change = s.change /\ t1.change = s.change
  BY SMTT(40), <1>1, <1>4 DEF Shape, Fields, OnlyTrack, FreeAlike, SameTouch, SameQueue
<1>8. OnTrack(s1)
  BY <1>1, <1>5, <1>6, <1>7 DEF OnTrack, AllDocked
<1>9. Moves(s, t, s1, t1)
  BY <1>7, <1>8, TrackMoves
<1> QED BY <1>2, <1>3, <1>9 DEF s1, t1

LEMMA FirePassedMoves ==
    ASSUME NEW s, NEW t, Pair(s, t), NEW e \in Entities, NEW fired, Len(fired) \in Nat
    PROVE  Moves(s, t, FirePassed(s, e, fired), FirePassed(t, e, fired))
<1> DEFINE n == Len(fired)
           B(acc, i) == PassOn(acc, e, fired[i])
<1>1. n \in Nat
  OBVIOUS
<1>2. PICK f : /\ f[0] = s /\ \A i \in 1..n : f[i] = B(f[i - 1], i)
               /\ f[n] = FirePassed(s, e, fired)
  BY FirePassedRun
<1>3. PICK g : /\ g[0] = t /\ \A i \in 1..n : g[i] = B(g[i - 1], i)
               /\ g[n] = FirePassed(t, e, fired)
  BY FirePassedRun
<1>4. Moves(s, t, f[n], g[n])
  <2> HIDE DEF B, n
  <2> DEFINE S == {i \in Nat : i <= n => Moves(s, t, f[i], g[i])}
  <2>1. 0 \in S
    BY <1>1, <1>2, <1>3, StaysPut
  <2>2. ASSUME NEW i \in Nat, i \in S PROVE i + 1 \in S
    <3> SUFFICES ASSUME i + 1 <= n PROVE Moves(s, t, f[i + 1], g[i + 1])
      OBVIOUS
    <3>1. f[i + 1] = B(f[i], i + 1) /\ g[i + 1] = B(g[i], i + 1)
      BY <1>1, <1>2, <1>3
    <3>2. Moves(s, t, f[i], g[i]) /\ i + 1 \in 1..n
      BY <1>1, <2>2
    <3>3. Pair(f[i], g[i])
      BY <3>2 DEF Moves, Steps
    <3>5. Moves(f[i], g[i], B(f[i], i + 1), B(g[i], i + 1))
      <4> DEFINE u == Sends(f[i], e)
                 v == Sends(g[i], e)
      <4>1. Moves(f[i], g[i], u, v)
        BY <3>3, SendsMoves
      <4>2. Pair(u, v) /\ e \in Who /\ 0 \in Int
        BY <4>1 DEF Moves, Steps, Who
      <4>3. /\ B(f[i], i + 1) = IF fired[i + 1] = "" THEN f[i] ELSE Fire(u, fired[i + 1], e, 0, "toggle")
            /\ B(g[i], i + 1) = IF fired[i + 1] = "" THEN g[i] ELSE Fire(v, fired[i + 1], e, 0, "toggle")
        BY DEF B, PassOn
      <4> HIDE DEF u, v
      <4>4. Moves(u, v, Fire(u, fired[i + 1], e, 0, "toggle"), Fire(v, fired[i + 1], e, 0, "toggle"))
        BY <4>2, FireMoves
      <4>5. Moves(f[i], g[i], Fire(u, fired[i + 1], e, 0, "toggle"), Fire(v, fired[i + 1], e, 0, "toggle"))
        BY <3>3, <4>1, <4>4, MovesTwice
      <4> QED BY ZenonT(40), <3>3, <4>3, <4>5, StaysPut
    <3> QED BY <3>1, <3>2, <3>5, MovesTwice
  <2> HIDE DEF S
  <2>3. n \in S
    BY <1>1, <2>1, <2>2, Induction
  <2> QED BY <1>1, <2>3 DEF S
<1> QED BY <1>2, <1>3, <1>4

LEMMA PassEachMoves ==
    ASSUME World, NEW s, NEW t, Pair(s, t), NEW set, NEW ride,
           \A e \in set : Len(ride[e].fired) \in Nat
    PROVE  Moves(s, t, PassEach(s, set, ride), PassEach(t, set, ride))
<1> DEFINE n == Len(world)
           B(acc, i) == IF i \in set THEN FirePassed(acc, i, ride[i].fired) ELSE acc
<1>1. n \in Nat
  BY WorldIsFinite
<1>2. PICK f : /\ f[0] = s /\ \A i \in 1..n : f[i] = B(f[i - 1], i)
               /\ f[n] = PassEach(s, set, ride)
  BY PassEachRun
<1>3. PICK g : /\ g[0] = t /\ \A i \in 1..n : g[i] = B(g[i - 1], i)
               /\ g[n] = PassEach(t, set, ride)
  BY PassEachRun
<1>4. Moves(s, t, f[n], g[n])
  <2> HIDE DEF B, n
  <2> DEFINE S == {i \in Nat : i <= n => Moves(s, t, f[i], g[i])}
  <2>1. 0 \in S
    BY <1>1, <1>2, <1>3, StaysPut
  <2>2. ASSUME NEW i \in Nat, i \in S PROVE i + 1 \in S
    <3> SUFFICES ASSUME i + 1 <= n PROVE Moves(s, t, f[i + 1], g[i + 1])
      OBVIOUS
    <3>1. f[i + 1] = B(f[i], i + 1) /\ g[i + 1] = B(g[i], i + 1)
      BY <1>1, <1>2, <1>3
    <3>2. Moves(s, t, f[i], g[i]) /\ i + 1 \in 1..n
      BY <1>1, <2>2
    <3>3. Pair(f[i], g[i])
      BY <3>2 DEF Moves, Steps
    <3>4. i + 1 \in Entities
      BY <3>2, WorldIsFinite DEF n
    <3>5. Moves(f[i], g[i], B(f[i], i + 1), B(g[i], i + 1))
      <4>1. CASE i + 1 \in set
        BY <3>3, <3>4, <4>1, FirePassedMoves DEF B
      <4>2. CASE i + 1 \notin set
        BY <3>3, <4>2, StaysPut DEF B, Moves
      <4> QED BY <4>1, <4>2
    <3> QED BY <3>1, <3>2, <3>5, MovesTwice
  <2> HIDE DEF S
  <2>3. n \in S
    BY <1>1, <2>1, <2>2, Induction
  <2> QED BY <1>1, <2>3 DEF S
<1> QED BY <1>2, <1>3, <1>4

LEMMA AdvanceTrainsMoves ==
    ASSUME World, NEW s, NEW t, Pair(s, t)
    PROVE  Moves(s, t, AdvanceTrains(s), AdvanceTrains(t))
<1> DEFINE s1 == Ridden(s)
           t1 == Ridden(t)
           s2 == ResplicedTrains(s1, Passing(s))
           t2 == ResplicedTrains(t1, Passing(s))
           set == Live(s, {"train"})
           ride == Riding(s)
<1>1. /\ Moves(s, t, s1, t1) /\ Riding(t) = ride /\ Passing(t) = Passing(s)
      /\ Live(t, {"train"}) = set
  BY RiddenMoves, SameGuards
<1>2. AdvanceTrains(s) = PassEach(s2, set, ride) /\ AdvanceTrains(t) = PassEach(t2, set, ride)
  BY <1>1, StepLoops
<1>3. \A e \in set : Len(ride[e].fired) \in Nat
  BY RidesFire DEF Riding
<1> HIDE DEF s1, t1, set, ride
<1>4. Pair(s1, t1)
  BY <1>1 DEF Moves, Steps
<1>5. Moves(s1, t1, s2, t2)
  BY <1>4, ResplicedMoves
<1> HIDE DEF s2, t2
<1>6. Pair(s2, t2)
  BY <1>5 DEF Moves, Steps
<1>7. Moves(s2, t2, AdvanceTrains(s), AdvanceTrains(t))
  BY <1>2, <1>3, <1>6, PassEachMoves
<1>8. Moves(s, t, s2, t2)
  BY <1>1, <1>5, MovesTwice
<1> QED BY <1>7, <1>8, MovesTwice

LEMMA ChangeEachMoves ==
    ASSUME World, NEW s, NEW t, Pair(s, t), NEW set, set \subseteq Platforms
    PROVE  /\ Moves(s, t, ChangeEach(s, set), ChangeEach(t, set))
           /\ \A e \in set : OffStart(ChangeEach(s, set), e)
<1> DEFINE n == Len(world)
           B(acc, i) == IF i \in set THEN AdvanceTrackChange(acc, i) ELSE acc
<1>1. n \in Nat
  BY WorldIsFinite
<1>2. PICK f : /\ f[0] = s /\ \A i \in 1..n : f[i] = B(f[i - 1], i)
               /\ f[n] = ChangeEach(s, set)
  BY ChangeEachRun
<1>3. PICK g : /\ g[0] = t /\ \A i \in 1..n : g[i] = B(g[i - 1], i)
               /\ g[n] = ChangeEach(t, set)
  BY ChangeEachRun
<1>0. set \subseteq 1..n
  BY WorldIsFinite DEF Platforms, OfKind
<1>4. Moves(s, t, f[n], g[n]) /\ \A e \in set : OffStart(f[n], e)
  <2> HIDE DEF B, n
  <2> DEFINE S == {i \in Nat : i <= n => /\ Moves(s, t, f[i], g[i])
                                     /\ \A e \in set : e <= i => OffStart(f[i], e)}
  <2>1. 0 \in S
    BY <1>0, <1>1, <1>2, <1>3, StaysPut
  <2>2. ASSUME NEW i \in Nat, i \in S PROVE i + 1 \in S
    <3> SUFFICES ASSUME i + 1 <= n
                 PROVE  /\ Moves(s, t, f[i + 1], g[i + 1])
                        /\ \A e \in set : e <= i + 1 => OffStart(f[i + 1], e)
      OBVIOUS
    <3>1. f[i + 1] = B(f[i], i + 1) /\ g[i + 1] = B(g[i], i + 1)
      BY <1>1, <1>2, <1>3
    <3>2. /\ Moves(s, t, f[i], g[i]) /\ i + 1 \in 1..n
          /\ \A e \in set : e <= i => OffStart(f[i], e)
      BY <1>1, <2>2
    <3>3. Pair(f[i], g[i])
      BY <3>2 DEF Moves, Steps
    <3>4. i + 1 \in Entities
      BY <3>2, WorldIsFinite DEF n
    <3>5. Moves(f[i], g[i], B(f[i], i + 1), B(g[i], i + 1))
      <4>1. CASE i + 1 \in set
        BY <3>3, <4>1, AdvanceTrackMoves DEF B
      <4>2. CASE i + 1 \notin set
        BY <3>3, <4>2, StaysPut DEF B, Moves
      <4> QED BY <4>1, <4>2
    <3>6. ASSUME NEW e \in set, e <= i + 1 PROVE OffStart(f[i + 1], e)
      <4>1. CASE e = i + 1
        BY <3>1, <3>3, <4>1, AdvanceTrackMoves DEF B
      <4>2. CASE e # i + 1
        <5>1. e <= i
          BY <1>0, <1>1, <3>6, <4>2
        <5>2. OffStart(f[i], e) /\ e \in Platforms
          BY <3>2, <5>1
        <5>3. f[i + 1].change[e] = f[i].change[e]
          BY <3>1, <3>3, <4>2, <5>2, AdvanceTrackMoves DEF B
        <5> QED BY <5>2, <5>3 DEF OffStart
      <4> QED BY <4>1, <4>2
    <3>7. Moves(s, t, f[i + 1], g[i + 1])
      BY <3>1, <3>2, <3>5, MovesTwice
    <3> QED BY <3>6, <3>7
  <2> HIDE DEF S
  <2>3. n \in S
    BY <1>1, <2>1, <2>2, Induction
  <2> QED BY <1>0, <1>1, <2>3 DEF S
<1> QED BY <1>2, <1>3, <1>4

LEMMA FinishEachMoves ==
    ASSUME World, NEW s, NEW t, Pair(s, t), NEW set, set \subseteq Platforms,
           \A e \in set : OffStart(s, e)
    PROVE  Moves(s, t, FinishEach(s, set), FinishEach(t, set))
<1> DEFINE n == Len(world)
           B(acc, i) == IF i \in set THEN FinishTrackChange(acc, i) ELSE acc
<1>1. n \in Nat
  BY WorldIsFinite
<1>2. PICK f : /\ f[0] = s /\ \A i \in 1..n : f[i] = B(f[i - 1], i)
               /\ f[n] = FinishEach(s, set)
  BY FinishEachRun
<1>3. PICK g : /\ g[0] = t /\ \A i \in 1..n : g[i] = B(g[i - 1], i)
               /\ g[n] = FinishEach(t, set)
  BY FinishEachRun
<1>4. Moves(s, t, f[n], g[n])
  <2> HIDE DEF B, n
  <2> DEFINE S == {i \in Nat : i <= n => /\ Moves(s, t, f[i], g[i])
                                     /\ \A e \in set : OffStart(f[i], e)}
  <2>1. 0 \in S
    BY <1>1, <1>2, <1>3, StaysPut
  <2>2. ASSUME NEW i \in Nat, i \in S PROVE i + 1 \in S
    <3> SUFFICES ASSUME i + 1 <= n
                 PROVE  /\ Moves(s, t, f[i + 1], g[i + 1])
                        /\ \A e \in set : OffStart(f[i + 1], e)
      OBVIOUS
    <3>1. f[i + 1] = B(f[i], i + 1) /\ g[i + 1] = B(g[i], i + 1)
      BY <1>1, <1>2, <1>3
    <3>2. /\ Moves(s, t, f[i], g[i]) /\ i + 1 \in 1..n
          /\ \A e \in set : OffStart(f[i], e)
      BY <1>1, <2>2
    <3>3. Pair(f[i], g[i])
      BY <3>2 DEF Moves, Steps
    <3>4. i + 1 \in Entities
      BY <3>2, WorldIsFinite DEF n
    <3>5. Moves(f[i], g[i], B(f[i], i + 1), B(g[i], i + 1))
      <4>1. CASE i + 1 \in set
        BY <3>2, <3>3, <4>1, FinishTrackMoves DEF B
      <4>2. CASE i + 1 \notin set
        BY <3>3, <4>2, StaysPut DEF B, Moves
      <4> QED BY <4>1, <4>2
    <3>6. \A e \in set : OffStart(f[i + 1], e)
      <4>1. CASE i + 1 \in set
        BY <3>1, <3>2, <3>3, <4>1, FinishTrackMoves DEF B
      <4>2. CASE i + 1 \notin set
        BY <3>1, <3>2, <4>2 DEF B
      <4> QED BY <4>1, <4>2
    <3>7. Moves(s, t, f[i + 1], g[i + 1])
      BY <3>1, <3>2, <3>5, MovesTwice
    <3> QED BY <3>6, <3>7
  <2> HIDE DEF S
  <2>3. n \in S
    BY <1>1, <2>1, <2>2, Induction
  <2> QED BY <1>1, <2>3 DEF S
<1> QED BY <1>2, <1>3, <1>4

LEMMA AdvanceTrackChangesMoves ==
    ASSUME World, NEW s, NEW t, Pair(s, t)
    PROVE  Moves(s, t, AdvanceTrackChanges(s), AdvanceTrackChanges(t))
<1> DEFINE going == Going(s)
           s1 == ChangeEach(s, going)
           t1 == ChangeEach(t, going)
           arrived == Arrived(s)
<1>1. going = Going(t) /\ going \subseteq Platforms
  <2>1. s.change = t.change
    BY DEF Pair, Alike, BodyAlike
  <2> QED BY <2>1, SameGuards DEF Going, Live, Platforms
<1>2. AdvanceTrackChanges(s) = FinishEach(s1, arrived)
  BY StepLoops
<1>3. AdvanceTrackChanges(t) = FinishEach(t1, Arrived(t))
  BY <1>1, StepLoops
<1>4. arrived \subseteq going /\ arrived = {e \in going : ~s1.change[e].moving}
      /\ Arrived(t) = {e \in going : ~t1.change[e].moving}
  BY <1>1 DEF Arrived
<1> HIDE DEF going, arrived
<1>5. Moves(s, t, s1, t1) /\ \A e \in going : OffStart(s1, e)
  BY <1>1, ChangeEachMoves
<1> HIDE DEF s1, t1
<1>6. Pair(s1, t1) /\ s1.change = t1.change
  BY <1>5 DEF Moves, Steps, Pair, Alike, BodyAlike
<1>7. Moves(s1, t1, FinishEach(s1, arrived), FinishEach(t1, arrived))
  BY <1>1, <1>4, <1>5, <1>6, FinishEachMoves
<1> QED BY <1>2, <1>3, <1>4, <1>5, <1>6, <1>7, MovesTwice

LEMMA CameraEachMoves ==
    ASSUME World, NEW s, NEW t, Pair(s, t), NEW set
    PROVE  Moves(s, t, CameraEach(s, set), CameraEach(t, set))
<1> DEFINE n == Len(world)
           B(acc, i) == IF i \in set THEN FireTarget(acc, i, i, 0, "toggle") ELSE acc
<1>1. n \in Nat
  BY WorldIsFinite
<1>2. PICK f : /\ f[0] = s /\ \A i \in 1..n : f[i] = B(f[i - 1], i)
               /\ f[n] = CameraEach(s, set)
  BY CameraEachRun
<1>3. PICK g : /\ g[0] = t /\ \A i \in 1..n : g[i] = B(g[i - 1], i)
               /\ g[n] = CameraEach(t, set)
  BY CameraEachRun
<1>4. Moves(s, t, f[n], g[n])
  <2> HIDE DEF B, n
  <2> DEFINE S == {i \in Nat : i <= n => Moves(s, t, f[i], g[i])}
  <2>1. 0 \in S
    BY <1>1, <1>2, <1>3, StaysPut
  <2>2. ASSUME NEW i \in Nat, i \in S PROVE i + 1 \in S
    <3> SUFFICES ASSUME i + 1 <= n PROVE Moves(s, t, f[i + 1], g[i + 1])
      OBVIOUS
    <3>1. f[i + 1] = B(f[i], i + 1) /\ g[i + 1] = B(g[i], i + 1)
      BY <1>1, <1>2, <1>3
    <3>2. Moves(s, t, f[i], g[i]) /\ i + 1 \in 1..n
      BY <1>1, <2>2
    <3>3. Pair(f[i], g[i])
      BY <3>2 DEF Moves, Steps
    <3>4. i + 1 \in Entities
      BY <3>2, WorldIsFinite DEF n
    <3>5. Moves(f[i], g[i], B(f[i], i + 1), B(g[i], i + 1))
      <4>1. CASE i + 1 \in set
        <5>1. i + 1 \in Who /\ 0 \in Int
          BY <3>4 DEF Who
        <5> QED BY <3>3, <4>1, <5>1, FireTargetMoves DEF B
      <4>2. CASE i + 1 \notin set
        BY <3>3, <4>2, StaysPut DEF B, Moves
      <4> QED BY <4>1, <4>2
    <3> QED BY <3>1, <3>2, <3>5, MovesTwice
  <2> HIDE DEF S
  <2>3. n \in S
    BY <1>1, <2>1, <2>2, Induction
  <2> QED BY <1>1, <2>3 DEF S
<1> QED BY <1>2, <1>3, <1>4

LEMMA AdvanceCamerasMoves ==
    ASSUME World, NEW s, NEW t, Pair(s, t)
    PROVE  Moves(s, t, AdvanceCameras(s), AdvanceCameras(t))
<1> DEFINE v == [e \in Entities |-> IF e \in Over(s) THEN -1 ELSE Most(s.camera[e] - 1, -1)]
           s1 == Held(s)
           t1 == Held(t)
<1>1. Shape(s) /\ Shape(t) /\ FreeAlike(s, t) /\ s.camera = t.camera
  BY DEF Pair, Sound, Alike, FreeAlike
<1>2. Over(s) = Over(t)
  <2>1. Live(s, {"camera"}) = Live(t, {"camera"})
    BY SameGuards
  <2> QED BY <1>1, <2>1 DEF Over
<1>3. s1 = [s EXCEPT !.camera = v] /\ t1 = [t EXCEPT !.camera = v]
  BY <1>1, <1>2 DEF Held
<1>4. AdvanceCameras(s) = CameraEach(s1, Over(s)) /\ AdvanceCameras(t) = CameraEach(t1, Over(s))
  BY <1>2, StepLoops
<1> HIDE DEF v, s1, t1
<1>5. /\ SameBody(s, s1) /\ SameBody(t, t1) /\ SameQueue(s, s1) /\ SameQueue(t, t1)
      /\ FreeAlike(s1, t1)
  BY SMTT(40), <1>1, <1>3 DEF Shape, Fields, SameBody, BodyAlike, SameTouch, SameQueue, FreeAlike
<1>6. Moves(s, t, s1, t1)
  BY <1>5, FreeMoves
<1>7. Pair(s1, t1)
  BY <1>6 DEF Moves, Steps
<1>8. Moves(s1, t1, AdvanceCameras(s), AdvanceCameras(t))
  BY <1>4, <1>7, CameraEachMoves
<1> QED BY <1>6, <1>8, MovesTwice

LEMMA AdvanceRotatorsMoves ==
    ASSUME NEW s, NEW t, Pair(s, t)
    PROVE  Moves(s, t, AdvanceRotators(s), AdvanceRotators(t))
<1> DEFINE v == s.turned \cup {e \in Live(s, {"rotator"}) \cap s.on : world[e].speed # 0}
           s1 == [s EXCEPT !.turned = v]
           t1 == [t EXCEPT !.turned = v]
<1>1. /\ Shape(s) /\ Shape(t) /\ FreeAlike(s, t) /\ s.turned = t.turned /\ s.on = t.on
      /\ Live(s, {"rotator"}) = Live(t, {"rotator"})
  BY SameGuards DEF Pair, Sound, Alike, FreeAlike, BodyAlike
<1>2. AdvanceRotators(s) = s1 /\ AdvanceRotators(t) = t1
  BY <1>1 DEF AdvanceRotators
<1> HIDE DEF v
<1>3. /\ SameBody(s, s1) /\ SameBody(t, t1) /\ SameQueue(s, s1) /\ SameQueue(t, t1)
      /\ FreeAlike(s1, t1)
  BY ZenonT(40), <1>1 DEF Shape, Fields, SameBody, BodyAlike, SameTouch, SameQueue, FreeAlike
<1> HIDE DEF s1, t1
<1> QED BY <1>2, <1>3, FreeMoves

-----------------------------------------------------------------------------
(* The tick, and the step it is the end of. *)

\* All that moves in a tick, between the spawn target and the timers.
Moved(s) ==
  AdvanceCameras(AdvanceTrackChanges(AdvanceTrains(AdvanceRotators(
    AdvanceMovers(AdvanceMovers(AdvanceMovers(AdvanceMovers(AdvanceMovers(
      AdvanceQueue(FireAutoTriggers(s)), "door"), "button"), "rotbutton"), "platform"), "platrot")))))

LEMMA MovedSteps ==
    ASSUME World, NEW s, NEW t, Pair(s, t)
    PROVE  Steps(s, t, Moved(s), Moved(t))
<1> DEFINE s1 == FireAutoTriggers(s)
           t1 == FireAutoTriggers(t)
           s2 == AdvanceQueue(s1)
           t2 == AdvanceQueue(t1)
           s3 == AdvanceMovers(s2, "door")
           t3 == AdvanceMovers(t2, "door")
           s4 == AdvanceMovers(s3, "button")
           t4 == AdvanceMovers(t3, "button")
           s5 == AdvanceMovers(s4, "rotbutton")
           t5 == AdvanceMovers(t4, "rotbutton")
           s6 == AdvanceMovers(s5, "platform")
           t6 == AdvanceMovers(t5, "platform")
           s7 == AdvanceMovers(s6, "platrot")
           t7 == AdvanceMovers(t6, "platrot")
           s8 == AdvanceRotators(s7)
           t8 == AdvanceRotators(t7)
           s9 == AdvanceTrains(s8)
           t9 == AdvanceTrains(t8)
           s10 == AdvanceTrackChanges(s9)
           t10 == AdvanceTrackChanges(t9)
           s11 == AdvanceCameras(s10)
           t11 == AdvanceCameras(t10)
<1>0. {"door", "button", "rotbutton", "platform", "platrot"} \subseteq MoverKinds
  BY DEF MoverKinds
<1>e. Moved(s) = s11 /\ Moved(t) = t11
  BY DEF Moved
<1>m1. Steps(s, t, s1, t1)
  BY FireAutoTriggersMoves DEF Moves
<1> HIDE DEF s1, t1
<1>p1. Pair(s1, t1) /\ Steps(s, t, s1, t1)
  BY <1>m1 DEF Steps
<1>m2. Steps(s1, t1, s2, t2)
  BY <1>p1, AdvanceQueueMoves DEF Moves
<1> HIDE DEF s2, t2
<1>p2. Pair(s2, t2) /\ Steps(s, t, s2, t2)
  BY <1>m2, <1>p1, MovesTwice DEF Steps
<1>m3. Steps(s2, t2, s3, t3)
  BY <1>p2, <1>0, AdvanceMoversSteps DEF Moves
<1> HIDE DEF s3, t3
<1>p3. Pair(s3, t3) /\ Steps(s, t, s3, t3)
  BY <1>m3, <1>p2, MovesTwice DEF Steps
<1>m4. Steps(s3, t3, s4, t4)
  BY <1>p3, <1>0, AdvanceMoversSteps DEF Moves
<1> HIDE DEF s4, t4
<1>p4. Pair(s4, t4) /\ Steps(s, t, s4, t4)
  BY <1>m4, <1>p3, MovesTwice DEF Steps
<1>m5. Steps(s4, t4, s5, t5)
  BY <1>p4, <1>0, AdvanceMoversSteps DEF Moves
<1> HIDE DEF s5, t5
<1>p5. Pair(s5, t5) /\ Steps(s, t, s5, t5)
  BY <1>m5, <1>p4, MovesTwice DEF Steps
<1>m6. Steps(s5, t5, s6, t6)
  BY <1>p5, <1>0, AdvanceMoversSteps DEF Moves
<1> HIDE DEF s6, t6
<1>p6. Pair(s6, t6) /\ Steps(s, t, s6, t6)
  BY <1>m6, <1>p5, MovesTwice DEF Steps
<1>m7. Steps(s6, t6, s7, t7)
  BY <1>p6, <1>0, AdvanceMoversSteps DEF Moves
<1> HIDE DEF s7, t7
<1>p7. Pair(s7, t7) /\ Steps(s, t, s7, t7)
  BY <1>m7, <1>p6, MovesTwice DEF Steps
<1>m8. Steps(s7, t7, s8, t8)
  BY <1>p7, AdvanceRotatorsMoves DEF Moves
<1> HIDE DEF s8, t8
<1>p8. Pair(s8, t8) /\ Steps(s, t, s8, t8)
  BY <1>m8, <1>p7, MovesTwice DEF Steps
<1>m9. Steps(s8, t8, s9, t9)
  BY <1>p8, AdvanceTrainsMoves DEF Moves
<1> HIDE DEF s9, t9
<1>p9. Pair(s9, t9) /\ Steps(s, t, s9, t9)
  BY <1>m9, <1>p8, MovesTwice DEF Steps
<1>m10. Steps(s9, t9, s10, t10)
  BY <1>p9, AdvanceTrackChangesMoves DEF Moves
<1> HIDE DEF s10, t10
<1>p10. Pair(s10, t10) /\ Steps(s, t, s10, t10)
  BY <1>m10, <1>p9, MovesTwice DEF Steps
<1>m11. Steps(s10, t10, s11, t11)
  BY <1>p10, AdvanceCamerasMoves DEF Moves
<1> HIDE DEF s11, t11
<1>p11. Pair(s11, t11) /\ Steps(s, t, s11, t11)
  BY <1>m11, <1>p10, MovesTwice DEF Steps
<1> QED BY <1>e, <1>p11

LEMMA SeedMoves ==
    ASSUME NEW s, NEW t, Pair(s, t)
    PROVE  Moves(s, t, SeedTeleportArrival(s), SeedTeleportArrival(t))
<1> DEFINE v == s.telTouch \cup {e \in OfKind({"teleport"}) : Overlaps(e, world[s.arrived].spot)}
           s1 == [s EXCEPT !.telTouch = v]
           t1 == [t EXCEPT !.telTouch = v]
<1>1. /\ Shape(s) /\ Shape(t) /\ FreeAlike(s, t) /\ s.telTouch = t.telTouch
      /\ s.arrived = t.arrived
  BY DEF Pair, Sound, Alike, FreeAlike, BodyAlike
<1>2. /\ SeedTeleportArrival(s) = IF s.arrived = 0 THEN s ELSE s1
      /\ SeedTeleportArrival(t) = IF s.arrived = 0 THEN t ELSE t1
  BY <1>1 DEF SeedTeleportArrival
<1> HIDE DEF v
<1>3. /\ SameBody(s, s1) /\ SameBody(t, t1) /\ SameQueue(s, s1) /\ SameQueue(t, t1)
      /\ FreeAlike(s1, t1)
  BY ZenonT(40), <1>1 DEF Shape, Fields, SameBody, BodyAlike, SameTouch, SameQueue, FreeAlike
<1> HIDE DEF s1, t1
<1> QED BY <1>2, <1>3, FreeMoves, StaysPut

\* A manager's schedule is over or it is not.
Quiet(s) ==
  /\ s.busy = [e \in Entities |-> s.busy[e]]
  /\ \A e \in Entities : s.busy[e] = 0 \/ s.busy[e] > 0

Timed(s) ==
  [s EXCEPT !.cooldown = [e \in Entities |-> Most(@[e] - 1, 0)],
            !.busy = [e \in Entities |-> Most(@[e] - 1, 0)]]

LEMMA TimedMoves ==
    ASSUME NEW s, NEW t, Pair(s, t)
    PROVE  Moves(s, t, Timed(s), Timed(t)) /\ Quiet(Timed(s))
<1> DEFINE v == [e \in Entities |-> Most(s.cooldown[e] - 1, 0)]
           w == [e \in Entities |-> Most(s.busy[e] - 1, 0)]
           s1 == [s EXCEPT !.cooldown = v, !.busy = w]
           t1 == [t EXCEPT !.cooldown = v, !.busy = w]
<1>1. /\ Shape(s) /\ Shape(t) /\ FreeAlike(s, t) /\ s.cooldown = t.cooldown
      /\ s.busy = t.busy
  BY DEF Pair, Sound, Alike, FreeAlike
<1>2. Timed(s) = s1 /\ Timed(t) = t1
  BY <1>1 DEF Timed
<1>3. \A e \in Entities : w[e] = 0 \/ w[e] > 0
  <2> SUFFICES ASSUME NEW e \in Entities PROVE w[e] = 0 \/ w[e] > 0
    OBVIOUS
  <2>1. w[e] = Most(s.busy[e] - 1, 0)
    OBVIOUS
  <2> QED BY <2>1 DEF Most
<1>4. w = [e \in Entities |-> w[e]]
  OBVIOUS
<1> HIDE DEF v, w
<1>5. /\ SameBody(s, s1) /\ SameBody(t, t1) /\ SameQueue(s, s1) /\ SameQueue(t, t1)
      /\ FreeAlike(s1, t1) /\ s1.busy = w
  BY ZenonT(40), <1>1 DEF Shape, Fields, SameBody, BodyAlike, SameTouch, SameQueue, FreeAlike
<1> HIDE DEF s1, t1
<1> QED BY <1>2, <1>3, <1>4, <1>5, FreeMoves DEF Quiet

LEMMA TickPair ==
    ASSUME World, NEW s, NEW t, Pair(s, t), SpawnsAlike(s, t)
    PROVE  LET s1 == Tick(s)
               t1 == Tick(t)
           IN /\ Pair(s1, t1) /\ Calm(s, s1) /\ SameEdges(s, s1) /\ SameEdges(t, t1)
              /\ s1.spawnFired <=> t1.spawnFired
              /\ Quiet(s1)
<1> DEFINE s1 == FirePlayerSpawn(s)
           t1 == FirePlayerSpawn(t)
           s2 == Moved(s1)
           t2 == Moved(t1)
           s3 == SeedTeleportArrival(s2)
           t3 == SeedTeleportArrival(t2)
           s4 == Timed(s3)
           t4 == Timed(t3)
<1>0. Tick(s) = s4 /\ Tick(t) = t4
  BY DEF Tick, Moved, Timed
<1>1. /\ Pair(s1, t1) /\ Calm(s, s1) /\ SameEdges(s, s1) /\ SameEdges(t, t1)
      /\ s1.spawnFired <=> t1.spawnFired
  BY FirePlayerSpawnPair
<1> HIDE DEF s1, t1
<1>2. Steps(s1, t1, s2, t2)
  BY <1>1, MovedSteps
<1> HIDE DEF s2, t2
<1>3. Pair(s2, t2)
  BY <1>2 DEF Steps
<1>4. Steps(s2, t2, s3, t3)
  BY <1>3, SeedMoves DEF Moves
<1> HIDE DEF s3, t3
<1>5. Pair(s3, t3)
  BY <1>4 DEF Steps
<1>6. Steps(s3, t3, s4, t4) /\ Quiet(s4)
  BY <1>5, TimedMoves DEF Moves
<1> HIDE DEF s4, t4
<1>7. Steps(s1, t1, s3, t3)
  BY <1>1, <1>2, <1>4, MovesTwice
<1>8. Steps(s1, t1, s4, t4)
  BY <1>1, <1>6, <1>7, MovesTwice
<1>9. Pair(s4, t4) /\ Calm(s1, s4) /\ SameTouch(s1, s4) /\ SameTouch(t1, t4)
  BY <1>8 DEF Steps
<1>10. Calm(s, s4)
  BY <1>1, <1>9, CalmTwice DEF Pair
<1> QED BY <1>0, <1>1, <1>6, <1>9, <1>10 DEF SameEdges, SameTouch

LEMMA ApplyTeleportsPair ==
    ASSUME NEW s, NEW t, Pair(s, t)
    PROVE  LET s1 == ApplyTeleports(s)
               t1 == ApplyTeleports(t)
           IN /\ Pair(s1, t1) /\ SameTouch(s, s1) /\ SameTouch(t, t1)
              /\ s1.arrived = 0 /\ s1.busy = s.busy /\ s1.changes = s.changes
              /\ s1.level = s.level /\ (s.arrived = 0 => s1.pos = s.pos)
<1> DEFINE v == world[s.arrived].spot
           s1 == [s EXCEPT !.pos = v, !.arrived = 0]
           t1 == [t EXCEPT !.pos = v, !.arrived = 0]
<1>1. /\ Sound(s) /\ Shape(s) /\ Shape(t) /\ FreeAlike(s, t) /\ BodyAlike(s, t)
      /\ s.arrived = t.arrived
  BY DEF Pair, Sound, Alike, BodyAlike
<1>2. /\ ApplyTeleports(s) = IF s.arrived = 0 THEN s ELSE s1
      /\ ApplyTeleports(t) = IF s.arrived = 0 THEN t ELSE t1
  BY <1>1 DEF ApplyTeleports
<1> HIDE DEF v
<1>3. /\ Shape(s1) /\ Shape(t1) /\ SameTouch(s, s1) /\ SameTouch(t, t1)
      /\ FreeAlike(s1, t1) /\ BodyAlike(s1, t1)
      /\ s1.pending = s.pending /\ t1.pending = t.pending
  BY ZenonT(40), <1>1 DEF Shape, Fields, SameTouch, FreeAlike, BodyAlike
<1>4. /\ s1.mover = s.mover /\ s1.captured = s.captured /\ s1.buttonHealth = s.buttonHealth
      /\ s1.on = s.on /\ s1.train = s.train /\ s1.change = s.change /\ s1.changes = s.changes
      /\ s1.arrived = 0 /\ s1.busy = s.busy /\ s1.level = s.level
  BY <1>1 DEF Shape, Fields
<1> HIDE DEF s1, t1
<1>5. Sound(s1)
  BY <1>1, <1>3, <1>4 DEF Sound, Placed, OnTrack, AllDocked
<1>6. Pair(s1, t1)
  BY <1>3, <1>5 DEF Pair, Alike
<1>7. CASE s.arrived = 0
  BY <1>2, <1>7 DEF SameTouch
<1>8. CASE s.arrived # 0
  BY <1>2, <1>3, <1>4, <1>6, <1>8
<1> QED BY <1>7, <1>8

-----------------------------------------------------------------------------
(* A whole step. *)

LEMMA DamageMoves ==
    ASSUME World, NEW s, NEW t, Pair(s, t), NEW e \in Damageable
    PROVE  Moves(s, t, Damage(s, e), Damage(t, e))
<1>0. /\ Shape(s) /\ Shape(t) /\ FreeAlike(s, t) /\ s.broken = t.broken /\ s.health = t.health
      /\ s.buttonHealth = t.buttonHealth /\ Placed(s)
      /\ e \in Entities /\ Player \in Who
  BY DEF Pair, Sound, Alike, FreeAlike, BodyAlike, Damageable, OfKind, Who
<1>1. CASE world[e].kind = "breakable"
  <2> DEFINE left == s.health[e] - 1
             v == [s.health EXCEPT ![e] = left]
             s1 == [s EXCEPT !.health = v]
             t1 == [t EXCEPT !.health = v]
  <2>1. /\ Damage(s, e) = IF e \in s.broken \/ s.health[e] <= 0 THEN s
                          ELSE IF left <= 0 THEN BreakEntity(s1, e, Player) ELSE s1
        /\ Damage(t, e) = IF e \in s.broken \/ s.health[e] <= 0 THEN t
                          ELSE IF left <= 0 THEN BreakEntity(t1, e, Player) ELSE t1
    BY <1>0, <1>1 DEF Damage, DamageBreakable
  <2> HIDE DEF v, left
  <2>2. /\ SameBody(s, s1) /\ SameBody(t, t1) /\ SameQueue(s, s1) /\ SameQueue(t, t1)
        /\ FreeAlike(s1, t1)
    BY ZenonT(40), <1>0 DEF Shape, Fields, SameBody, BodyAlike, SameTouch, SameQueue, FreeAlike
  <2> HIDE DEF s1, t1
  <2>3. Moves(s, t, s1, t1)
    BY <2>2, FreeMoves
  <2>4. Pair(s1, t1)
    BY <2>3 DEF Moves, Steps
  <2>5. Moves(s1, t1, BreakEntity(s1, e, Player), BreakEntity(t1, e, Player))
    BY <1>0, <2>4, BreakMoves
  <2>6. Moves(s, t, BreakEntity(s1, e, Player), BreakEntity(t1, e, Player))
    BY <2>3, <2>5, MovesTwice
  <2> QED BY <2>1, <2>3, <2>6, StaysPut
<1>2. CASE world[e].kind # "breakable"
  <2> DEFINE left == s.buttonHealth[e] - 1
             v == [s.buttonHealth EXCEPT ![e] = left]
             w == [s.buttonHealth EXCEPT ![e] = world[e].health]
             s1 == [s EXCEPT !.buttonHealth = v]
             t1 == [t EXCEPT !.buttonHealth = v]
             s2 == [s EXCEPT !.buttonHealth = w]
             t2 == [t EXCEPT !.buttonHealth = w]
             s3 == ActivateWith(s2, e, Player, "toggle")
             t3 == ActivateWith(t2, e, Player, "toggle")
  <2>1. /\ Damage(s, e) = IF left > 0 THEN s1 ELSE s3
        /\ Damage(t, e) = IF left > 0 THEN t1 ELSE t3
    BY <1>0, <1>2 DEF Damage, DamageButton, Activate
  <2>2. world[e].kind \in Buttons
    BY <1>2 DEF Damageable, OfKind
  <2> HIDE DEF left
  <2>3. /\ v = [f \in Entities |-> v[f]] /\ w = [f \in Entities |-> w[f]]
        /\ \A f \in Entities : world[f].kind \notin Buttons =>
             v[f] = world[f].health /\ w[f] = world[f].health
    BY <1>0, <2>2 DEF Placed
  <2> HIDE DEF v, w
  <2>4. Moves(s, t, s1, t1) /\ Moves(s, t, s2, t2)
    BY <2>3, ButtonHealthMoves
  <2> HIDE DEF s1, t1, s2, t2
  <2>5. Pair(s2, t2)
    BY <2>4 DEF Moves, Steps
  <2>6. world[e].kind # "changelevel"
    BY <2>2 DEF Buttons
  <2>7. Moves(s2, t2, s3, t3)
    BY <1>0, <2>5, <2>6, ActivateMoves
  <2>8. Moves(s, t, s3, t3)
    BY <2>4, <2>7, MovesTwice
  <2> QED BY <2>1, <2>4, <2>8
<1> QED BY <1>1, <1>2

LEMMA DamageEachMoves ==
    ASSUME World, NEW s, NEW t, Pair(s, t), NEW set, set \subseteq Damageable
    PROVE  Moves(s, t, DamageEach(s, set), DamageEach(t, set))
<1> DEFINE n == Len(world)
           B(acc, i) == IF i \in set THEN Damage(acc, i) ELSE acc
<1>1. n \in Nat
  BY WorldIsFinite
<1>2. PICK f : /\ f[0] = s /\ \A i \in 1..n : f[i] = B(f[i - 1], i)
               /\ f[n] = DamageEach(s, set)
  BY DamageEachRun
<1>3. PICK g : /\ g[0] = t /\ \A i \in 1..n : g[i] = B(g[i - 1], i)
               /\ g[n] = DamageEach(t, set)
  BY DamageEachRun
<1>4. Moves(s, t, f[n], g[n])
  <2> HIDE DEF B, n
  <2> DEFINE S == {i \in Nat : i <= n => Moves(s, t, f[i], g[i])}
  <2>1. 0 \in S
    BY <1>1, <1>2, <1>3, StaysPut
  <2>2. ASSUME NEW i \in Nat, i \in S PROVE i + 1 \in S
    <3> SUFFICES ASSUME i + 1 <= n PROVE Moves(s, t, f[i + 1], g[i + 1])
      OBVIOUS
    <3>1. f[i + 1] = B(f[i], i + 1) /\ g[i + 1] = B(g[i], i + 1)
      BY <1>1, <1>2, <1>3
    <3>2. Moves(s, t, f[i], g[i]) /\ i + 1 \in 1..n
      BY <1>1, <2>2
    <3>3. Pair(f[i], g[i])
      BY <3>2 DEF Moves, Steps
    <3>4. i + 1 \in Entities
      BY <3>2, WorldIsFinite DEF n
    <3>5. Moves(f[i], g[i], B(f[i], i + 1), B(g[i], i + 1))
      <4>1. CASE i + 1 \in set
        BY <3>3, <4>1, DamageMoves DEF B
      <4>2. CASE i + 1 \notin set
        BY <3>3, <4>2, StaysPut DEF B, Moves
      <4> QED BY <4>1, <4>2
    <3> QED BY <3>1, <3>2, <3>5, MovesTwice
  <2> HIDE DEF S
  <2>3. n \in S
    BY <1>1, <2>1, <2>2, Induction
  <2> QED BY <1>1, <2>3 DEF S
<1> QED BY <1>2, <1>3, <1>4

\* What a step leaves the two levels with, and what it does to one of them.
Ends(s1, t1) ==
  /\ Pair(s1, t1) /\ SameEdges(s1, t1) /\ (s1.spawnFired <=> t1.spawnFired)
  /\ s1.arrived = 0 /\ Quiet(s1)
Outside(s) == \A e \in Touched("changelevel", s.pos) : s.level[e] # "out"
Rests(s, s1) ==
  /\ Len(s.changes) <= Len(s1.changes)
  /\ Uneventful /\ s.arrived = 0 /\ Outside(s) =>
       s1.changes = s.changes /\ s1.pos = s.pos /\ Outside(s1)

LEMMA PhasePair ==
    ASSUME World, NEW s, NEW t, Pair(s, t), EdgesOff(s, t), SpawnsAlike(s, t), NEW input
    PROVE  LET s1 == Phase12(s, input)
               t1 == Phase12(t, input)
           IN /\ Ends(s1, t1) /\ Len(s.changes) <= Len(s1.changes)
              /\ input.pos = s.pos => Rests(s, s1)
<1> DEFINE s1 == [s EXCEPT !.pos = input.pos, !.monster = input.monster]
           t1 == [t EXCEPT !.pos = input.pos, !.monster = input.monster]
           s2 == IF input.use THEN PressUse(s1) ELSE s1
           t2 == IF input.use THEN PressUse(t1) ELSE t1
           s3 == TouchDoors(s2)
           t3 == TouchDoors(t2)
           s4 == MonsterTouchesDoors(s3)
           t4 == MonsterTouchesDoors(t3)
           s5 == BlockMovers(s4, input.blocked)
           t5 == BlockMovers(t4, input.blocked)
           s6 == TouchTriggers(s5)
           t6 == TouchTriggers(t5)
           s7 == Tick(s6)
           t7 == Tick(t6)
           s8 == ApplyTeleports(s7)
           t8 == ApplyTeleports(t7)
<1>0. Phase12(s, input) = s8 /\ Phase12(t, input) = t8
  BY DEF Phase12
<1>1. /\ Sound(s) /\ Shape(s) /\ Shape(t) /\ FreeAlike(s, t) /\ BodyAlike(s, t)
  BY SMTT(40) DEF Pair, Sound, Alike
<1>2. /\ Shape(s1) /\ Shape(t1) /\ SameTouch(s, s1) /\ SameTouch(t, t1)
      /\ FreeAlike(s1, t1) /\ BodyAlike(s1, t1)
      /\ s1.pending = s.pending /\ t1.pending = t.pending
  BY ZenonT(40), <1>1 DEF Shape, Fields, SameTouch, FreeAlike, BodyAlike
<1>3. /\ s1.mover = s.mover /\ s1.captured = s.captured /\ s1.buttonHealth = s.buttonHealth
      /\ s1.on = s.on /\ s1.train = s.train /\ s1.change = s.change /\ s1.changes = s.changes
      /\ s1.arrived = s.arrived /\ s1.level = s.level /\ s1.pos = input.pos
  BY <1>1 DEF Shape, Fields
<1> HIDE DEF s1, t1
<1>4. Sound(s1)
  BY <1>1, <1>2, <1>3 DEF Sound, Placed, OnTrack, AllDocked
<1>5. Pair(s1, t1) /\ EdgesOff(s1, t1) /\ SpawnsAlike(s1, t1)
  BY <1>2, <1>3, <1>4 DEF Pair, Alike, EdgesOff, SameTouch, SpawnsAlike
<1>6. Moves(s1, t1, s2, t2)
  BY <1>5, PressUseMoves, StaysPut
<1> HIDE DEF s2, t2
<1>7. /\ Pair(s2, t2) /\ EdgesOff(s2, t2) /\ Calm(s1, s2) /\ SpawnsAlike(s2, t2)
  BY <1>5, <1>6, MovesEdges DEF SameTouch, SpawnsAlike
<1>8. /\ Pair(s3, t3) /\ EdgesOff(s3, t3) /\ Calm(s2, s3) /\ SpawnsAlike(s3, t3)
      /\ s3.doorTouch = t3.doorTouch
  BY <1>7, TouchDoorsPair DEF SameSpawn, SpawnsAlike
<1> HIDE DEF s3, t3
<1>9. /\ Pair(s4, t4) /\ EdgesOff(s4, t4) /\ Calm(s3, s4) /\ SpawnsAlike(s4, t4)
      /\ s4.doorTouch = t4.doorTouch /\ s4.monsterTouch = t4.monsterTouch
  BY <1>8, MonsterTouchesPair DEF SameSpawn, SpawnsAlike
<1> HIDE DEF s4, t4
<1>10. Moves(s4, t4, s5, t5)
  BY <1>9, BlockMoves
<1> HIDE DEF s5, t5
<1>11. /\ Pair(s5, t5) /\ EdgesOff(s5, t5) /\ Calm(s4, s5) /\ SpawnsAlike(s5, t5)
       /\ s5.doorTouch = t5.doorTouch /\ s5.monsterTouch = t5.monsterTouch
  BY <1>9, <1>10, MovesEdges DEF SameTouch, SpawnsAlike
<1>12. /\ Pair(s6, t6) /\ Touching(s5, s6) /\ SpawnsAlike(s6, t6) /\ SameEdges(s6, t6)
  BY <1>11, TouchTriggersPair DEF SameSpawn, SpawnsAlike, SameEdges
<1> HIDE DEF s6, t6
<1>13. /\ Pair(s7, t7) /\ Calm(s6, s7) /\ SameEdges(s7, t7) /\ Quiet(s7)
       /\ s7.spawnFired <=> t7.spawnFired
  BY <1>12, TickPair DEF SameEdges
<1> HIDE DEF s7, t7
<1>14. /\ Ends(s8, t8) /\ s8.changes = s7.changes /\ s8.level = s7.level
       /\ s7.arrived = 0 => s8.pos = s7.pos
  BY <1>13, ApplyTeleportsPair DEF Ends, SameEdges, SameTouch, Quiet
<1> HIDE DEF s8, t8
<1>15. Calm(s1, s5)
  BY <1>4, <1>7, <1>8, <1>9, <1>11, CalmTwice DEF Pair
<1>16. Len(s.changes) <= Len(s8.changes)
  <2>1. /\ Len(s.changes) \in Nat /\ Len(s5.changes) \in Nat /\ Len(s6.changes) \in Nat
        /\ Len(s7.changes) \in Nat
    BY <1>1, <1>11, <1>12, <1>13 DEF Pair, Sound, IsSequence
  <2>2. Len(s.changes) <= Len(s5.changes)
    BY <1>3, <1>15 DEF Calm
  <2>3. Len(s5.changes) <= Len(s6.changes)
    BY <1>12 DEF Touching
  <2>4. Len(s6.changes) <= Len(s7.changes)
    BY <1>13 DEF Calm
  <2> QED BY SMTT(40), <1>14, <2>1, <2>2, <2>3, <2>4
<1>17. ASSUME input.pos = s.pos, Uneventful, s.arrived = 0, Outside(s)
       PROVE  s8.changes = s.changes /\ s8.pos = s.pos /\ Outside(s8)
  <2>1. /\ s5.pos = s.pos /\ s5.level = s.level /\ s5.changes = s.changes /\ s5.arrived = 0
    BY <1>3, <1>15, <1>17 DEF Calm
  <2>2. Entered(s5) = {}
    BY <1>17, <2>1 DEF Entered, Outside, Enters
  <2>3. /\ s6.pos = s.pos /\ s6.changes = s.changes /\ s6.arrived = 0
        /\ \A e \in Touched("changelevel", s.pos) : s6.level[e] = "in"
    BY <1>12, <1>17, <2>1, <2>2 DEF Touching
  <2>4. s7.pos = s.pos /\ s7.changes = s.changes /\ s7.arrived = 0 /\ s7.level = s6.level
    BY <1>13, <1>17, <2>3 DEF Calm
  <2> QED BY <1>14, <2>3, <2>4 DEF Outside
<1> QED BY <1>0, <1>14, <1>16, <1>17 DEF Rests

LEMMA StepPair ==
    ASSUME World, NEW s, NEW t, Pair(s, t), EdgesOff(s, t), SpawnsAlike(s, t), NEW input
    PROVE  LET s1 == FixedStep(s, input)
               t1 == FixedStep(t, input)
           IN /\ Ends(s1, t1) /\ Len(s.changes) <= Len(s1.changes)
              /\ input.pos = s.pos => Rests(s, s1)
<1> DEFINE set == input.shot \cap Damageable
           s0 == DamageEach(s, set)
           t0 == DamageEach(t, set)
           s1 == Phase12(s0, input)
           t1 == Phase12(t0, input)
<1>0. FixedStep(s, input) = s1 /\ FixedStep(t, input) = t1
  BY StepLoops
<1>1. Moves(s, t, s0, t0)
  BY DamageEachMoves
<1> HIDE DEF s0, t0
<1>2. Pair(s0, t0) /\ EdgesOff(s0, t0) /\ Calm(s, s0) /\ SpawnsAlike(s0, t0)
  BY <1>1, MovesEdges DEF SameTouch, SpawnsAlike
<1>3. /\ Ends(s1, t1) /\ Len(s0.changes) <= Len(s1.changes)
      /\ input.pos = s0.pos => Rests(s0, s1)
  BY <1>2, PhasePair
<1> HIDE DEF s1, t1
<1>4. Len(s.changes) <= Len(s1.changes)
  <2>1. /\ Len(s.changes) \in Nat /\ Len(s0.changes) \in Nat /\ Len(s1.changes) \in Nat
    BY <1>2, <1>3 DEF Pair, Sound, IsSequence, Ends
  <2> QED BY <1>2, <1>3, <2>1 DEF Calm
<1>5. ASSUME input.pos = s.pos PROVE Rests(s, s1)
  BY <1>2, <1>3, <1>4, <1>5 DEF Calm, Rests, Outside
<1> QED BY <1>0, <1>3, <1>4, <1>5

-----------------------------------------------------------------------------
(* A level that is built, and one that is entered. *)

Arrives(s) ==
  /\ Sound(s) /\ s.arrived = 0 /\ s.level = [e \in Entities |-> "never"]
  /\ s.busy = [e \in Entities |-> 0]

LEMMA NewArrives ==
    ASSUME NEW spot, NEW monster
    PROVE  Arrives(NewSimulation(spot, monster))
<1> DEFINE s == NewSimulation(spot, monster)
<1>1. Shape(s)
  BY DEF NewSimulation, Shape, Fields
<1>2. /\ s.pending = <<>> /\ s.changes = <<>> /\ s.captured = [e \in Entities |-> Nobody]
      /\ s.mover = [e \in Entities |-> AtRest] /\ s.on = {e \in Entities : world[e].on}
      /\ s.buttonHealth = [e \in Entities |-> world[e].health]
      /\ s.train = [e \in Trains |-> SpawnTrain(e)]
      /\ s.change = [e \in Platforms |-> SpawnPlatform]
      /\ s.arrived = 0 /\ s.level = [e \in Entities |-> "never"]
      /\ s.busy = [e \in Entities |-> 0]
  BY DEF NewSimulation, Trains, Platforms
<1> HIDE DEF s
<1>3. IsQueue(s.pending) /\ IsSequence(s.changes)
  <2>1. <<>> \in Seq({}) /\ \A f \in {} : IsFire(f)
    OBVIOUS
  <2>2. IsQueue(<<>>)
    <3> DEFINE none == {}
    <3>1. <<>> \in Seq(none) /\ \A f \in none : IsFire(f)
      BY <2>1
    <3> HIDE DEF none
    <3> QED BY <3>1 DEF IsQueue
  <2>3. IsSequence(<<>>)
    BY <2>1 DEF IsSequence
  <2> QED BY <1>2, <2>2, <2>3
<1>4. s.captured = [e \in Entities |-> s.captured[e]] /\ \A e \in Entities : s.captured[e] \in Who
  BY <1>2 DEF Who
<1>5. Placed(s)
  BY <1>2 DEF Placed
<1>6. IsPlatform(SpawnPlatform)
  BY DEF IsPlatform, SpawnPlatform, PlatformFields
<1>7. ASSUME NEW e PROVE IsTrain(SpawnTrain(e)) /\ SpawnTrain(e).carry = 0
  BY DEF IsTrain, SpawnTrain, TrainFields
<1>8. OnTrack(s)
  BY <1>2, <1>6, <1>7 DEF OnTrack
<1> QED BY <1>1, <1>2, <1>3, <1>4, <1>5, <1>8 DEF Arrives, Sound, s

LEMMA OntoArrives ==
    ASSUME NEW s, Arrives(s), NEW e \in Entities, NEW c
    PROVE  Arrives(ApplyOntoExisting(s, e, c))
<1> DEFINE v == [s.mover EXCEPT ![e] = c.mover]
           s1 == [s EXCEPT !.mover = v]
           on == IF c.spinning THEN s.on \cup {e} ELSE s.on \ {e}
           turned == IF c.turned THEN s.turned \cup {e} ELSE s.turned \ {e}
           s2 == [s EXCEPT !.on = on, !.turned = turned]
<1>1. Sound(s) /\ Shape(s) /\ Placed(s) /\ OnTrack(s)
  BY DEF Arrives, Sound
<1>2. ApplyOntoExisting(s, e, c) \in {s, s1, s2}
      /\ (ApplyOntoExisting(s, e, c) # s =>
            \/ world[e].kind \in CarriedMovers /\ ApplyOntoExisting(s, e, c) = s1
            \/ world[e].kind = "rotator" /\ ApplyOntoExisting(s, e, c) = s2)
  BY DEF ApplyOntoExisting, CarriedMovers
<1>3. CASE world[e].kind \in CarriedMovers
  <2>1. /\ v = [f \in Entities |-> v[f]]
        /\ \A f \in Entities : world[f].kind \notin MoverKinds => v[f] = AtRest
    BY <1>1, <1>3 DEF Placed, CarriedMovers, MoverKinds
  <2> HIDE DEF v
  <2>2. /\ Shape(s1) /\ s1.pending = s.pending /\ s1.changes = s.changes
        /\ s1.captured = s.captured /\ s1.mover = v /\ s1.buttonHealth = s.buttonHealth
        /\ s1.on = s.on /\ s1.train = s.train /\ s1.change = s.change
        /\ s1.arrived = s.arrived /\ s1.level = s.level /\ s1.busy = s.busy
    BY <1>1 DEF Shape, Fields
  <2> HIDE DEF s1
  <2>3. Placed(s1) /\ OnTrack(s1)
    BY <1>1, <2>1, <2>2 DEF Placed, OnTrack, AllDocked
  <2> HIDE DEF s2
  <2>4. Arrives(s1)
    BY <2>2, <2>3 DEF Arrives, Sound
  <2>5. world[e].kind # "rotator"
    BY <1>3 DEF CarriedMovers
  <2> QED BY <1>2, <2>4, <2>5
<1>4. CASE world[e].kind = "rotator"
  <2>1. /\ on \subseteq Entities
        /\ \A f \in Entities : world[f].kind \notin OnKinds => (f \in on <=> world[f].on)
    BY <1>1, <1>4 DEF Placed, OnKinds
  <2> HIDE DEF on, turned
  <2>2. /\ Shape(s2) /\ s2.pending = s.pending /\ s2.changes = s.changes
        /\ s2.captured = s.captured /\ s2.mover = s.mover /\ s2.buttonHealth = s.buttonHealth
        /\ s2.on = on /\ s2.train = s.train /\ s2.change = s.change
        /\ s2.arrived = s.arrived /\ s2.level = s.level /\ s2.busy = s.busy
    BY ZenonT(40), <1>1 DEF Shape, Fields
  <2> HIDE DEF s1, s2
  <2>3. Placed(s2) /\ OnTrack(s2)
    BY <1>1, <2>1, <2>2 DEF Placed, OnTrack, AllDocked
  <2>4. Arrives(s2)
    BY <2>2, <2>3 DEF Arrives, Sound
  <2>5. world[e].kind \notin CarriedMovers
    BY <1>4 DEF CarriedMovers
  <2> QED BY <1>2, <2>4, <2>5
<1> HIDE DEF s1, s2
<1>5. CASE world[e].kind \notin CarriedMovers /\ world[e].kind # "rotator"
  BY <1>2, <1>5
<1> QED BY <1>3, <1>4, <1>5

LEMMA RestoreTrackTrainKeeps ==
    ASSUME NEW t, IsTrain(t), NEW ride
    PROVE  IsTrain(RestoreTrackTrain(t, ride)) /\ RestoreTrackTrain(t, ride).carry = t.carry
<1>1. ASSUME NEW u, IsTrain(u)
      PROVE  IsTrain(WithMotion(u, ride)) /\ WithMotion(u, ride).carry = u.carry
  BY <1>1 DEF IsTrain, TrainFields, WithMotion
<1>2. ASSUME NEW u, IsTrain(u), NEW node
      PROVE  IsTrain(SeatedAt(u, ride, node)) /\ SeatedAt(u, ride, node).carry = u.carry
  <2> DEFINE u1 == [u EXCEPT !.node = node]
             u2 == WithMotion(u1, ride)
             along == IF OtherIndex(u2) = 0 \/ ride.len = 0 THEN ride.along
                      ELSE (ride.along * SegmentLen(u2, OtherIndex(u2))) \div ride.len
             u3 == [u2 EXCEPT !.along = along]
  <2>1. IsTrain(u1) /\ u1.carry = u.carry
    BY <1>2 DEF IsTrain, TrainFields
  <2>2. SeatedAt(u, ride, node) = u3
    BY DEF SeatedAt
  <2> HIDE DEF u1
  <2>3. IsTrain(u2) /\ u2.carry = u.carry
    BY <1>1, <2>1
  <2> HIDE DEF u2, along
  <2>4. IsTrain(u3) /\ u3.carry = u.carry
    BY <2>3 DEF IsTrain, TrainFields
  <2> HIDE DEF u3
  <2> QED BY <2>2, <2>4
<1> DEFINE seat == IndexOf(t.chain.nodes, Find(ride.node))
           onward == Build({}, ride.node)
           t1 == [t EXCEPT !.chain = onward]
<1>3. RestoreTrackTrain(t, ride) \in
        {SeatedAt(t, ride, seat), SeatedAt(t1, ride, 1), t, WithMotion(t, ride)}
  BY DEF RestoreTrackTrain, RestoreOn
<1> HIDE DEF seat, onward
<1>4. IsTrain(t1) /\ t1.carry = t.carry
  BY DEF IsTrain, TrainFields
<1> HIDE DEF t1
<1> QED BY <1>1, <1>2, <1>3, <1>4

LEMMA SeatArrives ==
    ASSUME NEW s, Arrives(s), NEW e \in Entities, NEW c
    PROVE  Arrives(SeatCarried(s, e, c))
<1> DEFINE put == ApplyOntoExisting(s, e, c)
           ride == CHOOSE r \in c.ride : TRUE
           v == [put.train EXCEPT ![e] = RestoreTrackTrain(put.train[e], ride)]
           s1 == [put EXCEPT !.train = v]
<1>1. Arrives(put)
  BY OntoArrives
<1>2. SeatCarried(s, e, c) = IF world[e].kind # "train" \/ c.ride = {} THEN put ELSE s1
  BY DEF SeatCarried
<1> HIDE DEF put, ride
<1>3. Sound(put) /\ Shape(put) /\ Placed(put) /\ OnTrack(put)
  BY <1>1 DEF Arrives, Sound
<1>4. CASE world[e].kind = "train"
  <2>1. e \in Trains
    BY <1>4 DEF Trains, OfKind
  <2>2. v = [f \in Trains |-> v[f]]
    BY <1>3, <2>1 DEF OnTrack
  <2>3. IsTrain(put.train[e])
    BY <1>3, <2>1 DEF OnTrack
  <2>4. LET u == RestoreTrackTrain(put.train[e], ride)
        IN IsTrain(u) /\ u.carry = put.train[e].carry
    BY <2>3, RestoreTrackTrainKeeps
  <2>5. \A f \in Trains : IsTrain(v[f]) /\ v[f].carry = put.train[f].carry
    <3> SUFFICES ASSUME NEW f \in Trains PROVE IsTrain(v[f]) /\ v[f].carry = put.train[f].carry
      OBVIOUS
    <3>1. v[f] = IF f = e THEN RestoreTrackTrain(put.train[e], ride) ELSE put.train[f]
      BY <1>3 DEF OnTrack
    <3>2. IsTrain(put.train[f])
      BY <1>3 DEF OnTrack
    <3> HIDE DEF v
    <3> QED BY <2>4, <3>1, <3>2
  <2> HIDE DEF v
  <2>6. /\ Shape(s1) /\ s1.pending = put.pending /\ s1.changes = put.changes
        /\ s1.captured = put.captured /\ s1.mover = put.mover
        /\ s1.buttonHealth = put.buttonHealth
        /\ s1.on = put.on /\ s1.train = v /\ s1.change = put.change
        /\ s1.arrived = put.arrived /\ s1.level = put.level /\ s1.busy = put.busy
    BY <1>3 DEF Shape, Fields
  <2> HIDE DEF s1
  <2>7. Placed(s1) /\ OnTrack(s1)
    BY <1>3, <2>2, <2>5, <2>6 DEF Placed, OnTrack, AllDocked
  <2>8. Arrives(s1)
    BY <1>1, <2>6, <2>7 DEF Arrives, Sound
  <2> QED BY <1>1, <1>2, <2>8
<1> HIDE DEF s1
<1> QED BY <1>1, <1>2, <1>4

LEMMA OntoEachArrives ==
    ASSUME World, NEW s, Arrives(s), NEW set, NEW c
    PROVE  Arrives(OntoEach(s, set, c))
<1> DEFINE s0 == s
           n == Len(world)
           B(acc, i) == IF i \in set THEN LayOnto(acc, i, c) ELSE acc
<1>1. n \in Nat
  BY WorldIsFinite
<1>a. PICK after : OntoGoes(after, s, set, c)
  BY OntoEachRun
<1>2. /\ after[0] = s0
      /\ \A i \in 1..n : after[i] = B(after[i - 1], i)
      /\ after[n] = OntoEach(s, set, c)
  BY <1>a DEF OntoGoes
<1>4. Arrives(after[n])
  <2> HIDE DEF B, s0, n
  <2> DEFINE S == {i \in Nat : i <= n => Arrives(after[i])}
  <2>1. 0 \in S
    BY <1>1, <1>2 DEF s0
  <2>2. ASSUME NEW i \in Nat, i \in S PROVE i + 1 \in S
    <3> SUFFICES ASSUME i + 1 <= n PROVE Arrives(after[(i + 1)])
      OBVIOUS
    <3>1. after[i + 1] = B(after[i], i + 1)
      BY <1>1, <1>2
    <3>2. Arrives(after[i]) /\ i + 1 \in 1..n
      BY <1>1, <2>2
    <3>3. i + 1 \in Entities
      BY <3>2, WorldIsFinite DEF n
    <3>4. Arrives(B(after[i], i + 1))
      <4>1. CASE i + 1 \in set
        BY <3>2, <3>3, <4>1, OntoArrives DEF B, LayOnto
      <4>2. CASE i + 1 \notin set
        BY <3>2, <4>2 DEF B
      <4> QED BY <4>1, <4>2
    <3> QED BY <3>1, <3>4
  <2> HIDE DEF S
  <2>3. n \in S
    BY <1>1, <2>1, <2>2, Induction
  <2> QED BY <1>1, <2>3 DEF S
<1> QED BY <1>2, <1>4

LEMMA SeatEachArrives ==
    ASSUME World, NEW s, Arrives(s), NEW set, NEW c
    PROVE  Arrives(SeatEach(s, set, c))
<1> DEFINE s0 == s
           n == Len(world)
           B(acc, i) == IF i \in set THEN SeatCarried(acc, i, c) ELSE acc
<1>1. n \in Nat
  BY WorldIsFinite
<1>a. PICK after : SeatGoes(after, s, set, c)
  BY SeatEachRun
<1>2. /\ after[0] = s0
      /\ \A i \in 1..n : after[i] = B(after[i - 1], i)
      /\ after[n] = SeatEach(s, set, c)
  BY <1>a DEF SeatGoes
<1>4. Arrives(after[n])
  <2> HIDE DEF B, s0, n
  <2> DEFINE S == {i \in Nat : i <= n => Arrives(after[i])}
  <2>1. 0 \in S
    BY <1>1, <1>2 DEF s0
  <2>2. ASSUME NEW i \in Nat, i \in S PROVE i + 1 \in S
    <3> SUFFICES ASSUME i + 1 <= n PROVE Arrives(after[(i + 1)])
      OBVIOUS
    <3>1. after[i + 1] = B(after[i], i + 1)
      BY <1>1, <1>2
    <3>2. Arrives(after[i]) /\ i + 1 \in 1..n
      BY <1>1, <2>2
    <3>3. i + 1 \in Entities
      BY <3>2, WorldIsFinite DEF n
    <3>4. Arrives(B(after[i], i + 1))
      <4>1. CASE i + 1 \in set
        BY <3>2, <3>3, <4>1, SeatArrives DEF B
      <4>2. CASE i + 1 \notin set
        BY <3>2, <4>2 DEF B
      <4> QED BY <4>1, <4>2
    <3> QED BY <3>1, <3>4
  <2> HIDE DEF S
  <2>3. n \in S
    BY <1>1, <2>1, <2>2, Induction
  <2> QED BY <1>1, <2>3 DEF S
<1> QED BY <1>2, <1>4

LEMMA CarriedLoops ==
    ASSUME NEW s, NEW c
    PROVE  /\ ApplyMover(s, c) = OntoEach(s, Find(c.d.name), c)
           /\ \/ ApplyCarried(s, c) = ApplyMover(s, c)
              \/ \E set : ApplyCarried(s, c) = SeatEach(s, set, c)
<1>1. ApplyMover(s, c) = OntoEach(s, Find(c.d.name), c)
  BY DEF ApplyMover, OntoEach, LayOnto
<1> DEFINE counterparts == {e \in Entities : c.d.global # "" /\ world[e].global = c.d.global}
<1>2. counterparts # {} => ApplyCarried(s, c) = SeatEach(s, counterparts, c)
  BY ZenonT(40) DEF ApplyCarried, SeatEach, SeatCarried
<1>3. counterparts = {} => ApplyCarried(s, c) = ApplyMover(s, c)
  BY ZenonT(40) DEF ApplyCarried
<1> HIDE DEF counterparts
<1> QED BY <1>1, <1>2, <1>3

LEMMA CarriedArrives ==
    ASSUME World, NEW s, Arrives(s), NEW c
    PROVE  Arrives(ApplyMover(s, c)) /\ Arrives(ApplyCarried(s, c))
BY CarriedLoops, OntoEachArrives, SeatEachArrives

LEMMA MovesInArrives ==
    ASSUME World, NEW t, t.last \in Nat, NEW s, Arrives(s)
    PROVE  Arrives(MovesIn(t, s))
<1> DEFINE s0 == s
           n == t.last
           B(acc, i) == IF i \in DOMAIN t.movers THEN ApplyMover(acc, t.movers[i]) ELSE acc
<1>1. n \in Nat
  OBVIOUS
<1>2. PICK after : /\ after[0] = s0
                   /\ \A i \in 1..n : after[i] = B(after[i - 1], i)
                   /\ after[n] = MovesIn(t, s)
  BY MovesInRun
<1>4. Arrives(after[n])
  <2> HIDE DEF B, s0, n
  <2> DEFINE S == {i \in Nat : i <= n => Arrives(after[i])}
  <2>1. 0 \in S
    BY <1>1, <1>2 DEF s0
  <2>2. ASSUME NEW i \in Nat, i \in S PROVE i + 1 \in S
    <3> SUFFICES ASSUME i + 1 <= n PROVE Arrives(after[(i + 1)])
      OBVIOUS
    <3>1. after[i + 1] = B(after[i], i + 1)
      BY <1>1, <1>2
    <3>2. Arrives(after[i]) /\ i + 1 \in 1..n
      BY <1>1, <2>2
    <3>3. Arrives(B(after[i], i + 1))
      BY <3>2, CarriedArrives DEF B
    <3> QED BY <3>1, <3>3
  <2> HIDE DEF S
  <2>3. n \in S
    BY <1>1, <2>1, <2>2, Induction
  <2> QED BY <1>1, <2>3 DEF S
<1> QED BY <1>2, <1>4

LEMMA CarriesInArrives ==
    ASSUME World, NEW t, t.last \in Nat, NEW s, Arrives(s)
    PROVE  Arrives(CarriesIn(t, s))
<1> DEFINE s0 == s
           n == t.last
           B(acc, i) == IF i \in DOMAIN t.entities THEN ApplyCarried(acc, t.entities[i]) ELSE acc
<1>1. n \in Nat
  OBVIOUS
<1>2. PICK after : /\ after[0] = s0
                   /\ \A i \in 1..n : after[i] = B(after[i - 1], i)
                   /\ after[n] = CarriesIn(t, s)
  BY CarriesInRun
<1>4. Arrives(after[n])
  <2> HIDE DEF B, s0, n
  <2> DEFINE S == {i \in Nat : i <= n => Arrives(after[i])}
  <2>1. 0 \in S
    BY <1>1, <1>2 DEF s0
  <2>2. ASSUME NEW i \in Nat, i \in S PROVE i + 1 \in S
    <3> SUFFICES ASSUME i + 1 <= n PROVE Arrives(after[(i + 1)])
      OBVIOUS
    <3>1. after[i + 1] = B(after[i], i + 1)
      BY <1>1, <1>2
    <3>2. Arrives(after[i]) /\ i + 1 \in 1..n
      BY <1>1, <2>2
    <3>3. Arrives(B(after[i], i + 1))
      BY <3>2, CarriedArrives DEF B
    <3> QED BY <3>1, <3>3
  <2> HIDE DEF S
  <2>3. n \in S
    BY <1>1, <2>1, <2>2, Induction
  <2> QED BY <1>1, <2>3 DEF S
<1> QED BY <1>2, <1>4

LEMMA EnterArrives == World => \A t : t.last \in Nat => Arrives(Enter(t))
<1> SUFFICES ASSUME World, NEW t, t.last \in Nat PROVE Arrives(Enter(t))
  OBVIOUS
<1> DEFINE remade == \E i \in DOMAIN t.entities :
                  /\ t.entities[i].d.kind = "monster"
                  /\ \E e \in Entities : world[e] = Remade(t.entities[i].d, t.shift)
           fresh == NewSimulation(t.pos, IF remade /\ t.meets THEN t.monster ELSE 0)
           laid == CarriesIn(t, MovesIn(t, fresh))
           retired == {e \in Entities : <<world[e].global, "dead">> \in t.globals}
           s1 == [laid EXCEPT !.alive = @ \ retired, !.globals = Seed(t.globals)]
<1>1. Enter(t) = IF NewUnit(world) THEN fresh ELSE s1
  BY DEF Enter, MovesIn, CarriesIn
<1>2. Arrives(fresh)
  BY NewArrives
<1> HIDE DEF fresh
<1>3. Arrives(laid)
  BY <1>2, MovesInArrives, CarriesInArrives
<1> HIDE DEF laid, retired
<1>4. Sound(laid) /\ Shape(laid) /\ Placed(laid) /\ OnTrack(laid)
  BY <1>3 DEF Arrives, Sound
<1>5. /\ Shape(s1) /\ s1.pending = laid.pending /\ s1.changes = laid.changes
      /\ s1.captured = laid.captured /\ s1.mover = laid.mover
      /\ s1.buttonHealth = laid.buttonHealth
      /\ s1.on = laid.on /\ s1.train = laid.train /\ s1.change = laid.change
      /\ s1.arrived = laid.arrived /\ s1.level = laid.level /\ s1.busy = laid.busy
  BY ZenonT(40), <1>4 DEF Shape, Fields
<1> HIDE DEF s1
<1>6. Placed(s1) /\ OnTrack(s1)
  BY <1>4, <1>5 DEF Placed, OnTrack, AllDocked
<1>7. Arrives(s1)
  BY <1>3, <1>5, <1>6 DEF Arrives, Sound
<1> QED BY <1>1, <1>2, <1>7

-----------------------------------------------------------------------------
(* A level that is loaded. *)

\* What a load takes from the new simulation, and what it takes from the save.
Rebuilt(s, t) ==
  /\ t.pos = s.pos /\ t.monster = s.monster /\ t.sent = s.sent /\ t.globals = s.globals
  /\ t.doorTouch = {} /\ t.monsterTouch = {} /\ t.platTouch = {} /\ t.spawnFired = FALSE
  /\ t.busy = [e \in Entities |-> 0]
  /\ t.buttonHealth = [e \in Entities |-> world[e].health]
  /\ t.change = [e \in Platforms |-> SpawnPlatform] /\ t.arrived = 0 /\ t.changes = <<>>
Returned(s, t) ==
  /\ t.used = s.used /\ t.cooldown = s.cooldown /\ t.level = s.level /\ t.alive = s.alive
Recalled(s, t) ==
  /\ t.thrown = s.thrown /\ t.camera = s.camera /\ t.autoFired = s.autoFired
  /\ t.turned = s.turned /\ t.rotTouch = s.rotTouch
SavedQueue(q) ==
  [i \in DOMAIN q |-> [q[i] EXCEPT !.delay = Most(q[i].delay, 0), !.use = "toggle"]]
Requeued(p, q) == [i \in DOMAIN p |-> [p[i] EXCEPT !.who = q[i].who, !.use = q[i].use]]
Rechained(trains, saved) ==
  [e \in DOMAIN trains |-> [trains[e] EXCEPT !.chain = saved[e].chain]]
Reseated(trains, saved) == [e \in DOMAIN trains |-> RestoreDynamicState(trains[e], saved[e])]
OnAgain(on, saved, kinds) == (on \ OfKind(kinds)) \cup (saved \cap OfKind(kinds))

LEMMA RestoreIs ==
    ASSUME NEW s, Shape(s)
    PROVE  LET r == Restore(s)
               spawned == [e \in Trains |-> SpawnTrain(e)]
               m1 == Overlay([e \in Entities |-> AtRest], s.mover, {"door", "button", "platform"})
               m2 == Overlay(m1, s.mover, {"rotbutton"})
               on1 == OnAgain({e \in Entities : world[e].on}, s.on, {"rotator"})
               on2 == OnAgain(OnAgain(on1, s.on, {"ambient"}), s.on, {"conveyor", "wall"})
           IN /\ Shape(r) /\ Rebuilt(s, r) /\ Returned(s, r) /\ Recalled(s, r)
              /\ r.health = s.health /\ r.broken = s.broken /\ r.telTouch = s.telTouch
              /\ r.fires = s.fires /\ r.captured = s.captured /\ r.consumed = s.consumed
              /\ r.pending = Requeued(SavedQueue(s.pending), s.pending)
              /\ r.train = Reseated(Rechained(spawned, s.train), s.train)
              /\ r.mover = Overlay(m2, s.mover, {"platrot"})
              /\ r.on = OnAgain(on2, s.on, {"effect"})
<1> DEFINE new == NewSimulation(s.pos, s.monster)
           fresh == [new EXCEPT !.sent = s.sent, !.globals = s.globals]
           doors == ApplySnapshots(fresh, s)
           queue == RestoreSimulation(doors, s)
           level == RestoreEntityCombat(queue, s)
           paths == RestorePathStates(level, s)
           riding == RestoreMovers(paths, s)
           movers == RestoreRotatingMovers(riding, s)
           broken == RestoreBreakables(movers, s)
           volumes == RestoreTeleportState(broken, s)
           plats == RestorePlatrots(volumes, s)
           ambients == RestoreAmbients(plats, s)
           switches == RestoreSwitches(ambients, s)
           contexts == RestoreUseContexts(switches, s)
           effects == RestoreMapEffects(switches, s)
           spawned == [e \in Trains |-> SpawnTrain(e)]
           m0 == [e \in Entities |-> AtRest]
           m1 == Overlay(m0, s.mover, {"door", "button", "platform"})
           m2 == Overlay(m1, s.mover, {"rotbutton"})
           on0 == {e \in Entities : world[e].on}
           on1 == OnAgain(on0, s.on, {"rotator"})
           on2 == OnAgain(on1, s.on, {"ambient"})
           on3 == OnAgain(on2, s.on, {"conveyor", "wall"})
           chained == Rechained(spawned, s.train)
           q1 == SavedQueue(s.pending)
<1>0. Restore(s) = effects
  BY DEF Restore
<1>1. Shape(fresh) /\ Rebuilt(s, fresh) /\ fresh.mover = m0 /\ fresh.on = on0 /\ fresh.train = spawned
  <2>1. /\ Shape(new) /\ new.pos = s.pos /\ new.monster = s.monster
        /\ new.doorTouch = {} /\ new.monsterTouch = {} /\ new.platTouch = {}
        /\ new.spawnFired = FALSE /\ new.busy = [e \in Entities |-> 0]
        /\ new.buttonHealth = [e \in Entities |-> world[e].health]
        /\ new.change = [e \in Platforms |-> SpawnPlatform] /\ new.arrived = 0 /\ new.changes = <<>>
        /\ new.mover = m0 /\ new.on = on0 /\ new.train = spawned
    BY DEF NewSimulation, Shape, Fields, Trains, Platforms
  <2> HIDE DEF new, m0, on0, spawned
  <2> QED BY ZenonT(40), <2>1 DEF Shape, Fields, Rebuilt
<1> HIDE DEF fresh, m0, on0, spawned
<1>2. Shape(doors) /\ Rebuilt(s, doors) /\ doors.mover = m1 /\ doors.on = on0 /\ doors.train = spawned
  BY SMTT(40), <1>1 DEF Shape, Fields, Rebuilt, ApplySnapshots
<1> HIDE DEF doors, m1
<1>3. /\ Shape(queue) /\ Rebuilt(s, queue) /\ queue.mover = m1 /\ queue.on = on0
      /\ queue.train = spawned /\ queue.pending = q1
      /\ queue.used = s.used /\ queue.cooldown = s.cooldown /\ queue.level = s.level
  BY ZenonT(40), <1>2 DEF Shape, Fields, Rebuilt, RestoreSimulation, SavedQueue
<1> HIDE DEF queue, q1
<1>4. /\ Shape(level) /\ Rebuilt(s, level) /\ level.mover = m1 /\ level.on = on0
      /\ level.train = spawned /\ level.pending = q1 /\ Returned(s, level)
  BY <1>3 DEF Shape, Fields, Rebuilt, RestoreEntityCombat, Returned
<1> HIDE DEF level
<1>5. /\ Shape(paths) /\ Rebuilt(s, paths) /\ paths.mover = m1 /\ paths.on = on0
      /\ paths.train = chained /\ paths.pending = q1 /\ Returned(s, paths)
      /\ paths.thrown = s.thrown
  BY ZenonT(40), <1>4 DEF Shape, Fields, Rebuilt, RestorePathStates, Returned, Rechained
<1> HIDE DEF paths, chained
<1> DEFINE seats == Reseated(chained, s.train)
           aboard == [paths EXCEPT !.camera = s.camera, !.autoFired = s.autoFired,
                                   !.turned = s.turned, !.train = seats]
<1>a. riding = OverlayOn(aboard, s, {"rotator"})
  <2>1. [e \in DOMAIN paths.train |-> RestoreDynamicState(paths.train[e], s.train[e])] = seats
    BY <1>5 DEF Reseated
  <2> QED BY <2>1 DEF RestoreMovers
<1> HIDE DEF seats
<1>b. /\ Shape(aboard) /\ Rebuilt(s, aboard) /\ aboard.mover = m1 /\ aboard.on = on0
      /\ aboard.train = seats /\ aboard.pending = q1 /\ Returned(s, aboard)
      /\ aboard.thrown = s.thrown /\ aboard.camera = s.camera
      /\ aboard.autoFired = s.autoFired /\ aboard.turned = s.turned
  BY ZenonT(40), <1>5 DEF Shape, Fields, Rebuilt, Returned
<1> HIDE DEF aboard, riding
<1>c. /\ Shape(riding) /\ Rebuilt(s, riding) /\ riding.mover = m1 /\ riding.on = on1
      /\ riding.train = seats /\ riding.pending = q1 /\ Returned(s, riding)
      /\ riding.thrown = s.thrown /\ riding.camera = s.camera
      /\ riding.autoFired = s.autoFired /\ riding.turned = s.turned
  BY ZenonT(40), <1>a, <1>b DEF Shape, Fields, Rebuilt, OverlayOn, OnAgain, Returned
<1>6. /\ Shape(riding) /\ Rebuilt(s, riding) /\ riding.mover = m1 /\ riding.on = on1
      /\ riding.train = Reseated(chained, s.train) /\ riding.pending = q1 /\ Returned(s, riding)
      /\ riding.thrown = s.thrown /\ riding.camera = s.camera
      /\ riding.autoFired = s.autoFired /\ riding.turned = s.turned
  BY <1>c DEF seats
<1> HIDE DEF on1
<1> DEFINE seated == Reseated(chained, s.train)
<1> HIDE DEF seated
<1>7. /\ Shape(movers) /\ Rebuilt(s, movers) /\ movers.mover = m2 /\ movers.on = on1
      /\ movers.train = seated /\ movers.pending = q1 /\ Returned(s, movers)
      /\ Recalled(s, movers)
  BY ZenonT(40), <1>6 DEF Shape, Fields, Rebuilt, RestoreRotatingMovers, Returned, Recalled, seated
<1> HIDE DEF movers, m2
<1>8. /\ Shape(broken) /\ Rebuilt(s, broken) /\ broken.mover = m2 /\ broken.on = on1
      /\ broken.train = seated /\ broken.pending = q1 /\ Returned(s, broken)
      /\ Recalled(s, broken) /\ broken.health = s.health /\ broken.broken = s.broken
  BY ZenonT(40), <1>7 DEF Shape, Fields, Rebuilt, RestoreBreakables, Returned, Recalled
<1> HIDE DEF broken
<1> DEFINE Volumes(t) == /\ t.health = s.health /\ t.broken = s.broken
                         /\ t.telTouch = s.telTouch /\ t.fires = s.fires
<1>9. /\ Shape(volumes) /\ Rebuilt(s, volumes) /\ volumes.mover = m2 /\ volumes.on = on1
      /\ volumes.train = seated /\ volumes.pending = q1 /\ Returned(s, volumes)
      /\ Recalled(s, volumes) /\ Volumes(volumes)
  BY ZenonT(40), <1>8 DEF Shape, Fields, Rebuilt, RestoreTeleportState, Returned, Recalled
<1> HIDE DEF volumes
<1> DEFINE m3 == Overlay(m2, s.mover, {"platrot"})
<1>10. /\ Shape(plats) /\ Rebuilt(s, plats) /\ plats.mover = m3 /\ plats.on = on1
       /\ plats.train = seated /\ plats.pending = q1 /\ Returned(s, plats)
       /\ Recalled(s, plats) /\ Volumes(plats)
  BY ZenonT(40), <1>9 DEF Shape, Fields, Rebuilt, RestorePlatrots, Returned, Recalled
<1> HIDE DEF plats, m3
<1>11. /\ Shape(ambients) /\ Rebuilt(s, ambients) /\ ambients.mover = m3 /\ ambients.on = on2
       /\ ambients.train = seated /\ ambients.pending = q1 /\ Returned(s, ambients)
       /\ Recalled(s, ambients) /\ Volumes(ambients)
  BY ZenonT(40), <1>10 DEF Shape, Fields, Rebuilt, RestoreAmbients, OverlayOn, OnAgain, Returned, Recalled
<1> HIDE DEF ambients, on2
<1>12. /\ Shape(switches) /\ Rebuilt(s, switches) /\ switches.mover = m3 /\ switches.on = on3
       /\ switches.train = seated /\ switches.pending = q1 /\ Returned(s, switches)
       /\ Recalled(s, switches) /\ Volumes(switches)
  BY ZenonT(40), <1>11 DEF Shape, Fields, Rebuilt, RestoreSwitches, OverlayOn, OnAgain, Returned, Recalled
<1> HIDE DEF switches, on3
<1> DEFINE q2 == Requeued(q1, s.pending)
<1>13. /\ Shape(contexts) /\ Rebuilt(s, contexts) /\ contexts.mover = m3 /\ contexts.on = on3
       /\ contexts.train = seated /\ contexts.pending = q2 /\ Returned(s, contexts)
       /\ Recalled(s, contexts) /\ Volumes(contexts)
  BY ZenonT(40), <1>12 DEF Shape, Fields, Rebuilt, RestoreUseContexts, Requeued, Returned, Recalled
<1> DEFINE f == [contexts EXCEPT !.captured = s.captured, !.consumed = s.consumed]
<1>14. effects = OverlayOn(f, s, {"effect"})
  BY DEF RestoreMapEffects
<1> HIDE DEF contexts, q2, effects
<1>15. /\ Shape(f) /\ Rebuilt(s, f) /\ f.mover = m3 /\ f.on = on3
       /\ f.train = seated /\ f.pending = q2 /\ Returned(s, f)
       /\ Recalled(s, f) /\ Volumes(f) /\ f.captured = s.captured /\ f.consumed = s.consumed
  BY ZenonT(40), <1>13 DEF Shape, Fields, Rebuilt, Returned, Recalled
<1> HIDE DEF f
<1>16. /\ Shape(effects) /\ Rebuilt(s, effects) /\ effects.mover = m3
       /\ effects.on = OnAgain(on3, s.on, {"effect"})
       /\ effects.train = seated /\ effects.pending = q2 /\ Returned(s, effects)
       /\ Recalled(s, effects) /\ Volumes(effects)
       /\ effects.captured = s.captured /\ effects.consumed = s.consumed
  BY ZenonT(40), <1>14, <1>15 DEF Shape, Fields, Rebuilt, OverlayOn, OnAgain, Returned, Recalled
<1> HIDE DEF Volumes
<1>17. effects.health = s.health /\ effects.broken = s.broken
       /\ effects.telTouch = s.telTouch /\ effects.fires = s.fires
  BY <1>16 DEF Volumes
<1> QED BY <1>0, <1>16, <1>17 DEF m3, m2, m1, m0, on3, on2, on1, on0, seated, chained, spawned, q2, q1

LEMMA RestoredQueue ==
    ASSUME NEW q, IsQueue(q)
    PROVE  LET p == Requeued(SavedQueue(q), q) IN IsQueue(p) /\ QueuesAlike(p, q)
<1> DEFINE n == Len(q)
           p == Requeued(SavedQueue(q), q)
<1>1. n \in Nat /\ DOMAIN q = 1..n /\ \A i \in 1..n : IsFire(q[i])
  BY QueueHasFires
<1>2. DOMAIN SavedQueue(q) = 1..n
  BY <1>1 DEF SavedQueue
<1>3. p = [i \in 1..n |-> p[i]]
  BY <1>2 DEF Requeued
<1>4. ASSUME NEW i \in 1..n PROVE IsFire(p[i]) /\ FiresAlike(p[i], q[i])
  <2> DEFINE f == q[i]
             g == [f EXCEPT !.delay = Most(f.delay, 0), !.use = "toggle"]
             h == [g EXCEPT !.who = f.who, !.use = f.use]
  <2>1. IsFire(f)
    BY <1>1, <1>4
  <2>2. SavedQueue(q)[i] = g
    BY <1>1, <1>4 DEF SavedQueue
  <2>3. p[i] = h
    BY <1>2, <1>4, <2>2 DEF Requeued
  <2> HIDE DEF p, f
  <2>4. f = [target |-> f.target, who |-> f.who, delay |-> f.delay, use |-> f.use]
        /\ f.delay \in Int /\ f.who \in Who
    BY <2>1 DEF IsFire
  <2>5. h = [target |-> f.target, who |-> f.who, delay |-> Most(f.delay, 0), use |-> f.use]
    <3> DEFINE late == Most(f.delay, 0)
               m == [f EXCEPT !.delay = late]
               w == [g EXCEPT !.who = f.who]
    <3>1. m = [target |-> f.target, who |-> f.who, delay |-> late, use |-> f.use]
      <4> HIDE DEF late
      <4> QED BY <2>4
    <3>2. g = [m EXCEPT !.use = "toggle"]
      OBVIOUS
    <3> HIDE DEF m, late
    <3>3. g = [target |-> f.target, who |-> f.who, delay |-> late, use |-> "toggle"]
      BY <3>1, <3>2
    <3>4. h = [w EXCEPT !.use = f.use]
      OBVIOUS
    <3> HIDE DEF g
    <3>5. w = [target |-> f.target, who |-> f.who, delay |-> late, use |-> "toggle"]
      BY <3>3
    <3> HIDE DEF w
    <3>6. h = [target |-> f.target, who |-> f.who, delay |-> late, use |-> f.use]
      BY <3>4, <3>5
    <3> QED BY <3>6 DEF late
  <2>6. Most(f.delay, 0) \in Int /\ (Most(f.delay, 0) = f.delay \/ (Most(f.delay, 0) <= 0 /\ f.delay <= 0))
    BY <2>4 DEF Most
  <2> HIDE DEF h
  <2> QED BY <2>3, <2>4, <2>5, <2>6 DEF IsFire, FiresAlike, f
<1> HIDE DEF p
<1>5. IsQueue(p) /\ Len(p) = n
  BY <1>1, <1>3, <1>4, QueueMade
<1> QED BY <1>4, <1>5 DEF QueuesAlike, p

LEMMA RestoredPlaces ==
    ASSUME NEW s, Sound(s)
    PROVE  LET r == Restore(s) IN r.mover = s.mover /\ r.on = s.on
<1> DEFINE r == Restore(s)
           m0 == [e \in Entities |-> AtRest]
           m1 == Overlay(m0, s.mover, {"door", "button", "platform"})
           m2 == Overlay(m1, s.mover, {"rotbutton"})
           m3 == Overlay(m2, s.mover, {"platrot"})
           on0 == {e \in Entities : world[e].on}
           on1 == OnAgain(on0, s.on, {"rotator"})
           on2 == OnAgain(OnAgain(on1, s.on, {"ambient"}), s.on, {"conveyor", "wall"})
<1>1. r.mover = m3 /\ r.on = OnAgain(on2, s.on, {"effect"})
  BY RestoreIs DEF Sound
<1>2. Placed(s)
  BY DEF Sound
<1>3. m3 = [e \in Entities |-> IF world[e].kind \in MoverKinds THEN s.mover[e] ELSE AtRest]
  BY DEF Overlay, MoverKinds
<1>4. m3 = s.mover
  BY <1>2, <1>3 DEF Placed
<1>5. OnAgain(on2, s.on, {"effect"}) = s.on
  BY <1>2 DEF OnAgain, OfKind, Placed, OnKinds
<1> QED BY <1>1, <1>4, <1>5

LEMMA RestoredTrains ==
    ASSUME NEW s, Sound(s)
    PROVE  LET r == Restore(s)
           IN /\ r.train = [e \in Trains |-> r.train[e]]
              /\ \A e \in Trains : /\ IsTrain(r.train[e]) /\ r.train[e].carry = 0
                                   /\ (~s.train[e].deadEndFired /\ s.train[e].carry = 0) =>
                                        r.train[e] = s.train[e]
<1> DEFINE r == Restore(s)
           spawned == [e \in Trains |-> SpawnTrain(e)]
           chained == Rechained(spawned, s.train)
<1>1. r.train = Reseated(chained, s.train)
  BY RestoreIs DEF Sound
<1> HIDE DEF r
<1>2. DOMAIN chained = Trains
  BY DEF Rechained
<1>3. \A e \in Trains : chained[e] = [SpawnTrain(e) EXCEPT !.chain = s.train[e].chain]
  BY DEF Rechained
<1>4. \A e \in Trains : chained[e].chain = s.train[e].chain
  BY ZenonT(40), <1>3 DEF SpawnTrain
<1> HIDE DEF chained
<1>5. r.train = [e \in Trains |-> r.train[e]]
      /\ \A e \in Trains : r.train[e] = RestoreDynamicState(chained[e], s.train[e])
  BY <1>1, <1>2 DEF Reseated
<1>6. ASSUME NEW e \in Trains
      PROVE  /\ IsTrain(r.train[e]) /\ r.train[e].carry = 0
             /\ (~s.train[e].deadEndFired /\ s.train[e].carry = 0) => r.train[e] = s.train[e]
  <2> DEFINE u == s.train[e]
             v == [u EXCEPT !.chain = u.chain, !.deadEndFired = FALSE, !.carry = 0]
  <2>1. r.train[e] = v
    BY ZenonT(40), <1>4, <1>5 DEF RestoreDynamicState
  <2>2. IsTrain(u)
    BY DEF Sound, OnTrack
  <2> HIDE DEF u
  <2>3. IsTrain(v) /\ v.carry = 0 /\ (~u.deadEndFired /\ u.carry = 0 => v = u)
    BY <2>2 DEF IsTrain, TrainFields
  <2> HIDE DEF v
  <2> QED BY <2>1, <2>3 DEF u
<1> QED BY <1>5, <1>6 DEF r

LEMMA RestoreSound ==
    ASSUME NEW s, Sound(s)
    PROVE  LET r == Restore(s)
           IN /\ Sound(r) /\ r.arrived = 0 /\ Quiet(r) /\ r.changes = <<>>
              /\ r.pos = s.pos /\ r.level = s.level
<1> DEFINE r == Restore(s)
<1>1. /\ Shape(r) /\ Rebuilt(s, r) /\ Returned(s, r) /\ r.captured = s.captured
      /\ r.pending = Requeued(SavedQueue(s.pending), s.pending)
  BY RestoreIs DEF Sound
<1>2. r.mover = s.mover /\ r.on = s.on
  BY RestoredPlaces
<1>3. /\ r.train = [e \in Trains |-> r.train[e]]
      /\ \A e \in Trains : IsTrain(r.train[e]) /\ r.train[e].carry = 0
  BY RestoredTrains
<1> HIDE DEF r
<1>4. IsQueue(r.pending)
  BY <1>1, RestoredQueue DEF Sound
<1>5. IsSequence(r.changes)
  <2>1. <<>> \in Seq({})
    OBVIOUS
  <2> QED BY <1>1, <2>1 DEF Rebuilt, IsSequence
<1>6. r.buttonHealth = [e \in Entities |-> world[e].health]
  BY <1>1 DEF Rebuilt
<1>7. Placed(r)
  BY <1>2, <1>6 DEF Sound, Placed
<1>8. IsPlatform(SpawnPlatform)
  BY DEF IsPlatform, SpawnPlatform, PlatformFields
<1>9. OnTrack(r)
  BY <1>1, <1>3, <1>8 DEF OnTrack, Rebuilt
<1>10. Quiet(r)
  BY <1>1 DEF Rebuilt, Quiet
<1>11. Sound(r)
  BY <1>1, <1>4, <1>5, <1>7, <1>9 DEF Sound
<1> QED BY <1>1, <1>10, <1>11 DEF Rebuilt, Returned, r

LEMMA RestorePair ==
    ASSUME NEW s, NEW t, Pair(s, t), EdgesOff(s, t), SpawnsAlike(s, t), Quiet(s),
           s.arrived = 0, s.changes = <<>>, ~UnsavedMatters(s)
    PROVE  LET r == Restore(s) IN Pair(r, t) /\ EdgesOff(r, t) /\ SpawnsAlike(r, t)
<1> DEFINE r == Restore(s)
<1>0. Sound(s) /\ Shape(s) /\ Placed(s) /\ OnTrack(s)
  BY DEF Pair, Sound
<1>1. /\ Shape(r) /\ Rebuilt(s, r) /\ Returned(s, r) /\ Recalled(s, r)
      /\ r.health = s.health /\ r.broken = s.broken /\ r.telTouch = s.telTouch
      /\ r.fires = s.fires /\ r.captured = s.captured /\ r.consumed = s.consumed
      /\ r.pending = Requeued(SavedQueue(s.pending), s.pending)
  BY <1>0, RestoreIs
<1>2. r.mover = s.mover /\ r.on = s.on
  BY <1>0, RestoredPlaces
<1>3. Sound(r)
  BY <1>0, RestoreSound
<1>4. s.buttonHealth = [e \in Entities |-> world[e].health]
  <2>1. \A e \in Entities : s.buttonHealth[e] = world[e].health
    BY <1>0 DEF Placed, UnsavedMatters, OfKind
  <2> QED BY <1>0, <2>1 DEF Placed
<1>5. s.change = [e \in Platforms |-> SpawnPlatform] /\ AllDocked(s)
  <2>1. DOMAIN s.change = Platforms
    BY <1>0 DEF OnTrack
  <2>2. \A e \in Platforms : s.change[e] = SpawnPlatform
    BY <2>1 DEF UnsavedMatters
  <2> QED BY <1>0, <2>2 DEF OnTrack, AllDocked
<1>6. r.train = s.train
  <2>1. DOMAIN s.train = Trains
    BY <1>0 DEF OnTrack
  <2>2. \A e \in Trains : ~s.train[e].deadEndFired /\ s.train[e].carry = 0
    BY <1>0, <1>5, <2>1 DEF UnsavedMatters, OnTrack
  <2>3. r.train = [e \in Trains |-> r.train[e]] /\ \A e \in Trains : r.train[e] = s.train[e]
    BY <1>0, <2>2, RestoredTrains
  <2>4. s.train = [e \in Trains |-> s.train[e]]
    BY <1>0 DEF OnTrack
  <2> HIDE DEF r
  <2> QED BY <2>3, <2>4
<1>7. s.busy = [e \in Entities |-> 0]
  BY DEF Quiet, UnsavedMatters
<1> HIDE DEF r
<1>8. FreeAlike(r, t)
  <2>1. FreeAlike(s, t)
    BY DEF Pair, Alike
  <2> QED BY <1>1, <1>7, <2>1 DEF FreeAlike, Rebuilt, Returned, Recalled
<1>9. BodyAlike(r, t)
  <2>1. BodyAlike(s, t)
    BY DEF Pair, Alike
  <2> QED BY <1>1, <1>2, <1>4, <1>5, <1>6, <2>1 DEF BodyAlike, Rebuilt, Returned
<1>10. QueuesAlike(r.pending, t.pending)
  <2>1. IsQueue(s.pending) /\ IsQueue(t.pending) /\ QueuesAlike(s.pending, t.pending)
    BY DEF Pair, Sound, Alike
  <2>2. QueuesAlike(r.pending, s.pending)
    BY <1>1, <2>1, RestoredQueue
  <2>3. \A i \in 1..Len(s.pending) : s.pending[i].delay \in Int
    BY <2>1, QueueHasFires DEF IsFire
  <2> QED BY <2>1, <2>2, <2>3 DEF QueuesAlike, FiresAlike
<1>11. Pair(r, t)
  BY <1>3, <1>8, <1>9, <1>10 DEF Pair, Alike
<1>12. EdgesOff(r, t)
  <2>1. \A e \in s.doorTouch \cup s.monsterTouch \cup s.platTouch : s.mover[e].st # "Closed"
    BY DEF UnsavedMatters
  <2>2. r.doorTouch = {} /\ r.monsterTouch = {} /\ r.platTouch = {}
    BY <1>1 DEF Rebuilt
  <2> QED BY <1>2, <2>1, <2>2 DEF EdgesOff, Differ
<1>13. SpawnsAlike(r, t)
  BY DEF SpawnsAlike, UnsavedMatters
<1> QED BY <1>11, <1>12, <1>13 DEF r

-----------------------------------------------------------------------------
(* The loaded game and the one that was never interrupted. *)

Together(s, t) ==
  Pair(s, t) /\ EdgesOff(s, t) /\ SpawnsAlike(s, t) /\ s.arrived = 0 /\ Quiet(s)

LEMMA TogetherAlone ==
    ASSUME NEW s, Sound(s), s.arrived = 0, Quiet(s)
    PROVE  Together(s, s)
<1>1. QueuesAlike(s.pending, s.pending)
  BY DEF QueuesAlike, FiresAlike
<1>2. Alike(s, s)
  BY <1>1 DEF Alike, Sound, FreeAlike, BodyAlike
<1> QED BY <1>2 DEF Together, Pair, EdgesOff, Differ, SpawnsAlike

LEMMA EndsTogether ==
    ASSUME NEW s, NEW t, Ends(s, t)
    PROVE  Together(s, t)
BY DEF Ends, Together, SameEdges, EdgesOff, Differ, SpawnsAlike

LEMMA StepTogether ==
    ASSUME World, NEW s, NEW t, Together(s, t), NEW input
    PROVE  LET s1 == FixedStep(s, input)
               t1 == FixedStep(t, input)
           IN /\ Together(s1, t1) /\ Len(s.changes) <= Len(s1.changes)
              /\ input.pos = s.pos => Rests(s, s1)
<1>1. Pair(s, t) /\ EdgesOff(s, t) /\ SpawnsAlike(s, t)
  BY DEF Together
<1> QED BY <1>1, StepPair, EndsTogether

\* The fields of a level with other changes to follow.
LEMMA ChangesTogether ==
    ASSUME NEW s, NEW t, Together(s, t), NEW c, IsSequence(c)
    PROVE  LET s1 == [s EXCEPT !.changes = c]
               t1 == [t EXCEPT !.changes = c]
           IN /\ Together(s1, t1) /\ s1.changes = c
              /\ s1.pos = s.pos /\ s1.level = s.level
<1> DEFINE s1 == [s EXCEPT !.changes = c]
           t1 == [t EXCEPT !.changes = c]
<1>1. Sound(s) /\ Shape(s) /\ Shape(t) /\ FreeAlike(s, t) /\ BodyAlike(s, t)
  BY SMTT(40) DEF Together, Pair, Sound, Alike
<1>2. /\ Shape(s1) /\ Shape(t1) /\ SameTouch(s, s1) /\ SameTouch(t, t1)
      /\ FreeAlike(s1, t1) /\ BodyAlike(s1, t1)
      /\ s1.pending = s.pending /\ t1.pending = t.pending
  BY ZenonT(40), <1>1 DEF Shape, Fields, SameTouch, FreeAlike, BodyAlike
<1>3. /\ s1.mover = s.mover /\ s1.captured = s.captured /\ s1.buttonHealth = s.buttonHealth
      /\ s1.on = s.on /\ s1.train = s.train /\ s1.change = s.change /\ s1.changes = c
      /\ s1.arrived = s.arrived /\ s1.level = s.level /\ s1.pos = s.pos /\ s1.busy = s.busy
  BY <1>1 DEF Shape, Fields
<1> HIDE DEF s1, t1
<1>4. Sound(s1)
  BY <1>1, <1>2, <1>3 DEF Sound, Placed, OnTrack, AllDocked
<1>5. Pair(s1, t1)
  BY <1>2, <1>4 DEF Together, Pair, Alike
<1>6. EdgesOff(s1, t1) /\ SpawnsAlike(s1, t1)
  BY <1>2, <1>3 DEF Together, EdgesOff, SameTouch, SpawnsAlike
<1>7. Together(s1, t1)
  BY <1>3, <1>5, <1>6 DEF Together, Quiet
<1> QED BY <1>3, <1>7 DEF s1, t1

LEMMA TailIsASequence ==
    ASSUME NEW c, IsSequence(c), c # <<>>
    PROVE  IsSequence(Tail(c)) /\ Len(Tail(c)) <= Len(c)
<1>1. PICK S : c \in Seq(S)
  BY DEF IsSequence
<1>2. Tail(c) \in Seq(S) /\ Len(Tail(c)) = Len(c) - 1 /\ Len(c) \in Nat
  BY <1>1
<1> QED BY <1>2 DEF IsSequence

LEMMA RestoreTogether ==
    ASSUME NEW s, NEW t, Together(s, t), s.changes = <<>>
    PROVE  LET r == Restore(s)
           IN /\ Together(r, r) /\ (~UnsavedMatters(s) => Together(r, t))
              /\ r.changes = <<>> /\ r.pos = s.pos /\ r.level = s.level
<1> DEFINE r == Restore(s)
<1>1. /\ Sound(r) /\ r.arrived = 0 /\ Quiet(r) /\ r.changes = <<>>
      /\ r.pos = s.pos /\ r.level = s.level
  BY RestoreSound DEF Together, Pair
<1>2. ASSUME ~UnsavedMatters(s) PROVE Pair(r, t) /\ EdgesOff(r, t) /\ SpawnsAlike(r, t)
  BY <1>2, RestorePair DEF Together
<1> HIDE DEF r
<1>3. Together(r, r)
  BY <1>1, TogetherAlone
<1>4. ~UnsavedMatters(s) => Together(r, t)
  BY <1>1, <1>2 DEF Together
<1> QED BY <1>1, <1>3, <1>4 DEF r

LEMMA CaptureAlike ==
    ASSUME NEW s, NEW t, Pair(s, t), NEW near, NEW to, NEW landmark
    PROVE  CaptureTransition(s, near, to, landmark) = CaptureTransition(t, near, to, landmark)
<1>1. /\ s.mover = t.mover /\ s.on = t.on /\ s.turned = t.turned /\ s.train = t.train
      /\ s.alive = t.alive /\ s.globals = t.globals /\ s.pos = t.pos /\ s.monster = t.monster
  BY DEF Pair, Alike, FreeAlike, BodyAlike
<1>2. Travellers(s) = Travellers(t)
  BY <1>1 DEF Travellers
<1>3. \A e : Snapshot(s, e) = Snapshot(t, e)
  BY <1>1 DEF Snapshot
<1>4. \A set : SnapshotsOf(s, set) = SnapshotsOf(t, set)
  BY <1>3 DEF SnapshotsOf
<1>5. \A e : IsModifiedMover(s, e) <=> IsModifiedMover(t, e)
  BY <1>1 DEF IsModifiedMover
<1>6. {e \in Travellers(s) : world[e].name # "" /\ IsModifiedMover(s, e)}
        = {e \in Travellers(t) : world[e].name # "" /\ IsModifiedMover(t, e)}
  BY ZenonT(40), <1>2, <1>5
<1> QED BY ZenonT(40), <1>1, <1>4, <1>6 DEF CaptureTransition

LEMMA EnterTogether ==
    World => \A t, c : t.last \in Nat /\ IsSequence(c) =>
      LET s == [Enter(t) EXCEPT !.changes = c]
      IN Together(s, s) /\ Outside(s) /\ s.changes = c
<1> SUFFICES ASSUME World, NEW t, NEW c, t.last \in Nat, IsSequence(c)
             PROVE  LET s == [Enter(t) EXCEPT !.changes = c]
                    IN Together(s, s) /\ Outside(s) /\ s.changes = c
  OBVIOUS
<1> DEFINE x == Enter(t)
           s == [x EXCEPT !.changes = c]
<1>1. Arrives(x)
  BY EnterArrives
<1> HIDE DEF x
<1>2. Together(x, x)
  BY <1>1, TogetherAlone DEF Arrives, Quiet
<1>3. Together(s, s) /\ s.level = x.level /\ s.changes = c
  BY <1>2, ChangesTogether
<1> HIDE DEF s
<1>4. Outside(s)
  BY <1>1, <1>3 DEF Arrives, Outside, Touched, Touchable, OfKind
<1> QED BY <1>3, <1>4 DEF s, x

LEMMA EnterTogetherNext ==
    (World => \A t, c : t.last \in Nat /\ IsSequence(c) =>
      LET s == [Enter(t) EXCEPT !.changes = c]
      IN Together(s, s) /\ Outside(s) /\ s.changes = c)'
BY EnterTogether, PTL

LEMMA SameMapTogether ==
    ASSUME UNCHANGED world, NEW CONSTANT s, NEW CONSTANT t
    PROVE  /\ Together(s, t)' <=> Together(s, t)
           /\ Outside(s)' <=> Outside(s)
           /\ Uneventful' <=> Uneventful
<1>1. /\ Entities' = Entities /\ \A kinds : OfKind(kinds)' = OfKind(kinds)
  BY DEF Entities, OfKind
<1>2. /\ Who' = Who /\ Trains' = Trains /\ Platforms' = Platforms
      /\ \A name : Find(name)' = Find(name)
      /\ \A spot : Touched("changelevel", spot)' = Touched("changelevel", spot)
  BY <1>1 DEF Who, Trains, Platforms, Find, Touched, Touchable, Overlaps
<1>3. \A f : IsFire(f)' <=> IsFire(f)
  BY <1>2 DEF IsFire
<1>4. \A q : IsQueue(q)' <=> IsQueue(q)
  BY <1>3 DEF IsQueue
<1>5. Placed(s)' <=> Placed(s)
  BY <1>1 DEF Placed
<1>6. OnTrack(s)' <=> OnTrack(s)
  BY <1>2 DEF OnTrack, AllDocked, IsTrain, IsPlatform, SpawnPlatform
<1>7. Sound(s)' <=> Sound(s)
  BY <1>1, <1>2, <1>4, <1>5, <1>6 DEF Sound, Shape, IsSequence
<1>8. Alike(s, t)' <=> Alike(s, t)
  BY <1>4 DEF Alike, Shape, FreeAlike, BodyAlike, QueuesAlike, FiresAlike
<1>9. (EdgesOff(s, t)' <=> EdgesOff(s, t)) /\ (SpawnsAlike(s, t)' <=> SpawnsAlike(s, t))
      /\ (Quiet(s)' <=> Quiet(s))
  BY <1>1, <1>2 DEF EdgesOff, Differ, SpawnsAlike, SpawnName, Quiet
<1>10. Outside(s)' <=> Outside(s)
  BY <1>2 DEF Outside
<1>11. Uneventful' <=> Uneventful
  BY ZenonT(40), <1>1 DEF Uneventful
<1> QED BY <1>7, <1>8, <1>9, <1>10, <1>11 DEF Together, Pair

-----------------------------------------------------------------------------
(* The invariant of the two games. *)

PairInv ==
  /\ World /\ Together(sim, twin)
  /\ still /\ Uneventful => Outside(sim)

\* A level that is left alone after it was entered raises no change.
StaysThere == still /\ still' /\ Uneventful => Len(sim'.changes) <= Len(sim.changes)

LEMMA PairStarts == Init => PairInv
<1> SUFFICES ASSUME Init PROVE PairInv
  OBVIOUS
<1>1. World
  BY MapsAssumption, MapsAreMaps DEF Init, World
<1>2. Arrives(NewSimulation(0, 0))
  BY NewArrives
<1>3. Together(sim, twin)
  <2>1. Arrives(sim) /\ twin = sim
    BY <1>2 DEF Init
  <2>2. Together(sim, sim)
    BY <2>1, TogetherAlone DEF Arrives, Quiet
  <2> QED BY <2>1, <2>2
<1>4. still = FALSE
  BY DEF Init
<1> QED BY <1>1, <1>3, <1>4 DEF PairInv

LEMMA PairGoesOn == GameInv /\ PairInv /\ [Next]_vars => PairInv' /\ StaysThere
<1> SUFFICES ASSUME GameInv, PairInv, [Next]_vars PROVE PairInv' /\ StaysThere
  OBVIOUS
<1>0. World /\ Safe(sim) /\ Together(sim, twin) /\ (still /\ Uneventful => Outside(sim))
  BY DEF GameInv, PairInv
<1>n. Len(sim.changes) \in Nat /\ IsSequence(sim.changes) /\ sim.changes = twin.changes
  BY <1>0 DEF Together, Pair, Sound, IsSequence, Alike, BodyAlike
<1>a. ASSUME UNCHANGED world, Together(sim', twin'),
             still' /\ Uneventful => Outside(sim')
      PROVE  PairInv'
  <2>1. World'
    BY <1>0, <1>a, SameMap
  <2>2. Together(sim', twin') <=> Together(sim, twin)'
    BY <1>a, SameMapTogether
  <2>3. (Outside(sim') <=> Outside(sim)') /\ (Uneventful' <=> Uneventful)
    BY <1>a, SameMapTogether
  <2> QED BY <1>a, <2>1, <2>2, <2>3 DEF PairInv
<1>b. ASSUME NEW input, Advance(input), UNCHANGED world, still' = FALSE \/ (input.pos = sim.pos /\ still' = still)
      PROVE  PairInv' /\ StaysThere
  <2>1. sim' = FixedStep(sim, input) /\ twin' = FixedStep(twin, input)
    BY <1>b DEF Advance
  <2>2. /\ Together(sim', twin')
        /\ input.pos = sim.pos => Rests(sim, sim')
    BY <1>0, <2>1, StepTogether
  <2>3. CASE still' = FALSE
    BY <1>a, <1>b, <2>2, <2>3 DEF StaysThere
  <2>4. CASE still' = still /\ input.pos = sim.pos
    <3>1. Rests(sim, sim')
      BY <2>2, <2>4
    <3>2. still /\ Uneventful => sim'.changes = sim.changes /\ Outside(sim')
      BY <1>0, <3>1 DEF Rests, Together
    <3>3. StaysThere
      BY <1>n, <3>2 DEF StaysThere
    <3> QED BY <1>a, <1>b, <2>2, <2>4, <3>2, <3>3
  <2> QED BY <1>b, <2>3, <2>4
<1>1. CASE Wait
  <2>1. Idle(sim).pos = sim.pos
    BY DEF Idle
  <2>2. Advance(Idle(sim)) /\ UNCHANGED world /\ still' = still
    BY <1>1 DEF Wait
  <2> QED BY <1>b, <2>1, <2>2
<1>2. CASE Act
  <2>1. PICK input : Advance(input)
    BY <1>2 DEF Act
  <2>2. UNCHANGED world /\ still' = FALSE
    BY <1>2 DEF Act
  <2> QED BY <1>b, <2>1, <2>2
<1>3. CASE Reload
  <2>1. /\ sim' = Restore(sim) /\ sim.changes = <<>> /\ UNCHANGED world /\ still' = still
        /\ twin' = IF UnsavedMatters(sim) THEN sim' ELSE twin
    BY <1>3 DEF Reload
  <2>2. /\ Together(sim', sim') /\ (~UnsavedMatters(sim) => Together(sim', twin))
        /\ sim'.changes = <<>> /\ sim'.pos = sim.pos /\ sim'.level = sim.level
    BY <1>0, <2>1, RestoreTogether
  <2>3. Together(sim', twin')
    BY <2>1, <2>2
  <2>4. Outside(sim) => Outside(sim')
    BY <2>2 DEF Outside
  <2>5. StaysThere
    BY <1>n, <2>1, <2>2 DEF StaysThere
  <2> QED BY <1>0, <1>a, <2>1, <2>3, <2>4, <2>5
<1>4. CASE FollowChange
  <2> DEFINE change == Head(sim.changes)
             to == Atlas[change.map]
             rest == Tail(sim.changes)
  <2>0. sim.changes # <<>> /\ IsSequence(rest) /\ Len(rest) <= Len(sim.changes)
    <3>1. sim.changes # <<>>
      BY <1>4 DEF FollowChange
    <3> QED BY <1>n, <3>1, TailIsASequence
  <2>1. CASE change.map \notin DOMAIN Atlas
    <3>1. /\ sim' = [sim EXCEPT !.changes = rest] /\ twin' = [twin EXCEPT !.changes = rest]
          /\ UNCHANGED world /\ still' = still
      BY <1>4, <1>n, <2>1 DEF FollowChange
    <3> HIDE DEF rest
    <3>2. /\ Together(sim', twin') /\ sim'.changes = rest
          /\ sim'.pos = sim.pos /\ sim'.level = sim.level
      BY <1>0, <2>0, <3>1, ChangesTogether
    <3>3. Outside(sim) => Outside(sim')
      BY <3>2 DEF Outside
    <3> QED BY <1>0, <1>a, <2>0, <3>1, <3>2, <3>3 DEF StaysThere
  <2>2. CASE change.map \in DOMAIN Atlas
    <3> DEFINE c(near) == CaptureTransition(sim, near, to, change.landmark)
               d(near) == CaptureTransition(twin, near, to, change.landmark)
    <3>a. PICK near \in SUBSET Travellers(sim) : \E there \in {Arriving(to, c(near))} :
            /\ world' = there
            /\ sim' = [In(there)!Enter(c(near)) EXCEPT !.changes = Tail(sim.changes)]
            /\ twin' = IF twin = sim THEN sim'
                       ELSE [In(there)!Enter(d(near)) EXCEPT !.changes = Tail(twin.changes)]
      BY SMTT(40), <1>4, <2>2 DEF FollowChange
    <3>1. PICK there \in {Arriving(to, c(near))} :
            /\ world' = there
            /\ sim' = [In(there)!Enter(c(near)) EXCEPT !.changes = Tail(sim.changes)]
            /\ twin' = IF twin = sim THEN sim'
                       ELSE [In(there)!Enter(d(near)) EXCEPT !.changes = Tail(twin.changes)]
      BY ZenonT(40), <3>a
    <3>b. c(near) = d(near)
      BY <1>0, CaptureAlike DEF Together
    <3> DEFINE t == c(near)
    <3>2. t.last \in Nat /\ \A i \in DOMAIN t.entities : Listed(t.entities[i].d)
      <4>1. near \subseteq Entities
        BY ZenonT(40), <1>0 DEF Travellers, Safe, Counted
      <4> QED BY <1>0, <4>1, CaptureIsListed
    <3>3. IsMap(to)
      BY <2>2, MapsAssumption, MapsAreMaps
    <3>4. IsMap(world') /\ World'
      <4> HIDE DEF t, to
      <4>1. world' = Arriving(to, t)
        BY <3>1 DEF t
      <4> QED BY <3>2, <3>3, <4>1, ArrivingIsAMap DEF World
    <3> HIDE DEF c, d
    <3>5. sim' = [In(there)!Enter(t) EXCEPT !.changes = rest]
      BY <3>1
    <3>6. twin' = sim'
      BY <1>n, <3>1, <3>b, <3>5
    <3> HIDE DEF t, rest
    <3>7. ASSUME NEW CONSTANT u, u.last \in Nat, NEW CONSTANT c1, IsSequence(c1), NEW CONSTANT s,
                 s = [In(there)!Enter(u) EXCEPT !.changes = c1]
          PROVE  Together(s, s)' /\ Outside(s)' /\ s.changes = c1
      <4>1. In(there)!Enter(u) = Enter(u)'
        BY <3>1, EnterThere
      <4>2. s = [(Enter(u)') EXCEPT !.changes = c1]
        BY <3>7, <4>1
      <4> QED BY <3>4, <3>7, <4>2, EnterTogetherNext
    <3>9. Together(sim, sim)' /\ Outside(sim)' /\ sim'.changes = rest
      BY <2>0, <3>2, <3>5, <3>7
    <3>10. Together(sim, twin)'
      BY <3>6, <3>9
    <3> QED BY <2>0, <3>4, <3>9, <3>10 DEF PairInv, StaysThere
  <2> QED BY <2>1, <2>2
<1>5. CASE UNCHANGED vars
  <2>1. /\ UNCHANGED world /\ sim' = sim /\ twin' = twin /\ still' = still
    BY <1>5 DEF vars
  <2>2. Together(sim', twin') /\ (still' /\ Uneventful => Outside(sim'))
    BY <1>0, <2>1
  <2>3. StaysThere
    BY <1>n, <2>1 DEF StaysThere
  <2> QED BY <1>a, <2>1, <2>2, <2>3
<1> QED BY <1>1, <1>2, <1>3, <1>4, <1>5 DEF Next

\* What a view hides, and what it leaves.
Hidden == {"doorTouch", "monsterTouch", "platTouch", "spawnFired", "pending"}
LEMMA ViewIs ==
    ASSUME NEW s, Shape(s)
    PROVE  /\ Shape(View(s)) /\ \A x \in Fields \ Hidden : View(s)[x] = s[x]
           /\ View(s).doorTouch = {} /\ View(s).monsterTouch = {} /\ View(s).platTouch = {}
           /\ View(s).spawnFired = TRUE /\ View(s).pending = DueNow(s.pending)
<1> DEFINE due == DueNow(s.pending)
           v == [s EXCEPT !.doorTouch = {}, !.monsterTouch = {}, !.platTouch = {},
                          !.spawnFired = TRUE, !.pending = due]
<1>1. View(s) = v
  BY DEF View
<1> HIDE DEF due
<1>2. v = [x \in Fields |-> IF x = "pending" THEN due ELSE IF x = "spawnFired" THEN TRUE
                            ELSE IF x \in Hidden THEN {} ELSE s[x]]
  BY ZenonT(40) DEF Shape, Fields, Hidden
<1> HIDE DEF v
<1>3. Shape(v)
  BY <1>2 DEF Shape
<1>4. \A x \in Fields \ Hidden : v[x] = s[x]
  BY <1>2 DEF Hidden
<1>5. /\ v.doorTouch = {} /\ v.monsterTouch = {} /\ v.platTouch = {}
      /\ v.spawnFired = TRUE /\ v.pending = due
  BY <1>2 DEF Fields, Hidden
<1> QED BY <1>1, <1>3, <1>4, <1>5 DEF due

LEMMA ViewsAgree ==
    ASSUME NEW s, NEW t, Pair(s, t)
    PROVE  View(s) = View(t)
<1> DEFINE p == s.pending
           q == t.pending
           v == View(s)
           w == View(t)
<1>1. /\ Shape(s) /\ Shape(t) /\ FreeAlike(s, t) /\ BodyAlike(s, t)
      /\ IsQueue(p) /\ IsQueue(q) /\ QueuesAlike(p, q)
  BY DEF Pair, Sound, Alike
<1>2. DueNow(p) = DueNow(q)
  <2> HIDE DEF p, q
  <2>1. Len(p) = Len(q) /\ DOMAIN p = 1..Len(p) /\ DOMAIN q = 1..Len(p)
    BY <1>1, QueueHasFires DEF QueuesAlike
  <2>2. ASSUME NEW i \in 1..Len(p)
        PROVE  [p[i] EXCEPT !.delay = Most(@, 0)] = [q[i] EXCEPT !.delay = Most(@, 0)]
    <3> DEFINE f == p[i]
               g == q[i]
               x == Most(f.delay, 0)
               y == Most(g.delay, 0)
    <3>1. IsFire(f) /\ IsFire(g) /\ FiresAlike(f, g)
      BY <1>1, <2>1, <2>2, QueueHasFires DEF QueuesAlike
    <3> HIDE DEF f, g
    <3>2. x = y
      BY <3>1 DEF Most, FiresAlike, IsFire
    <3> HIDE DEF x, y
    <3>3. /\ [f EXCEPT !.delay = x] = [target |-> f.target, who |-> f.who, delay |-> x, use |-> f.use]
          /\ [g EXCEPT !.delay = y] = [target |-> g.target, who |-> g.who, delay |-> y, use |-> g.use]
      BY <3>1 DEF IsFire
    <3>4. [f EXCEPT !.delay = x] = [g EXCEPT !.delay = y]
      BY <3>1, <3>2, <3>3 DEF FiresAlike
    <3> QED BY <3>4 DEF f, g, x, y
  <2> QED BY <2>1, <2>2 DEF DueNow
<1>3. /\ Shape(v) /\ Shape(w) /\ \A x \in Fields \ Hidden : v[x] = s[x] /\ w[x] = t[x]
      /\ v.doorTouch = w.doorTouch /\ v.monsterTouch = w.monsterTouch
      /\ v.platTouch = w.platTouch /\ v.spawnFired = w.spawnFired /\ v.pending = w.pending
  BY <1>1, <1>2, ViewIs
<1> HIDE DEF p, q, v, w
<1>4. \A x \in Fields \ Hidden : s[x] = t[x]
  BY <1>1 DEF Fields, Hidden, FreeAlike, BodyAlike
<1>5. \A x \in Hidden : v[x] = w[x]
  BY <1>3 DEF Hidden
<1>6. \A x \in Fields : v[x] = w[x]
  BY <1>3, <1>4, <1>5
<1>7. v = w
  BY <1>3, <1>6 DEF Shape
<1> QED BY <1>7 DEF v, w

(* A loaded game goes on as the saved one would have (Game::restore): on every map *)
(* and for every input, a level that was loaded from a save that leaves out nothing *)
(* that matters stays the level that was never interrupted, step for step. *)
THEOREM LoadedGamesAgree == Spec => []LoadedGameAgrees
<1>1. PairInv => LoadedGameAgrees
  BY ViewsAgree DEF PairInv, Together, LoadedGameAgrees
<1> QED BY GameStarts, GameGoesOn, PairStarts, PairGoesOn, <1>1, PTL DEF Spec

(* No level change undoes itself (touch_changelevel_triggers): a player who arrives *)
(* inside a volume that leads back stays, through every load, until they act. *)
THEOREM ArrivalsDoNotBounce == Spec => ArrivalDoesNotBounce
<1>1. GameInv /\ PairInv /\ [Next]_vars
        => [still /\ still' /\ Uneventful => Len(sim'.changes) <= Len(sim.changes)]_vars
  BY PairGoesOn DEF StaysThere
<1> QED BY GameStarts, GameGoesOn, PairStarts, PairGoesOn, <1>1, PTL DEF Spec, ArrivalDoesNotBounce

-----------------------------------------------------------------------------
(* Who is taken along. *)

\* The map after the first travellers were placed, and all of them.
PlaceOn(made, i, t) ==
  IF i \notin DOMAIN t.entities THEN made
  ELSE LET d == t.entities[i].d
       IN IF HasCounterpart(d, made) \/ IsBrush(d) \/ ~t.meets THEN made
          ELSE Append(made, Remade(d, t.shift))
PlaceAll(t, s) ==
  Loop(LAMBDA acc, i : PlaceOn(acc, i, t), t.last, s)

PlaceGoes(f, t, s) ==
  /\ f[0] = s
  /\ \A i \in 1..t.last : f[i] = PlaceOn(f[i - 1], i, t)
  /\ f[t.last] = PlaceAll(t, s)

LEMMA PlaceAllRun ==
    ASSUME NEW t, NEW s, t.last \in Nat
    PROVE  \E f : PlaceGoes(f, t, s)
<1> DEFINE n == t.last
           B(acc, i) == PlaceOn(acc, i, t)
           Run(k, f) == f = [i \in 0..k |-> IF i = 0 THEN s ELSE B(f[i - 1], i)]
           after == CHOOSE f : Run(n, f)
<1>1. n \in Nat
  OBVIOUS
<1>2. Run(n, after)
  <2> HIDE DEF B, n
  <2> DEFINE S == {k \in Nat : \E f : Run(k, f)}
  <2>1. 0 \in S
    <3>1. Run(0, [i \in 0..0 |-> s])
      OBVIOUS
    <3> QED BY <3>1
  <2>2. ASSUME NEW k \in Nat, k \in S PROVE k + 1 \in S
    <3>1. PICK f : Run(k, f)
      BY <2>2
    <3> DEFINE g == [i \in 0..(k + 1) |-> IF i <= k THEN f[i] ELSE B(f[k], i)]
    <3>2. Run(k + 1, g)
      BY <3>1
    <3> HIDE DEF g, Run
    <3> QED BY <3>2
  <2> HIDE DEF S
  <2>3. n \in S
    BY <1>1, <2>1, <2>2, Induction
  <2> QED BY <2>3 DEF S
<1>3. after[0] = s /\ \A i \in 1..n : after[i] = B(after[i - 1], i)
  <2> HIDE DEF B, n, after
  <2> QED BY <1>1, <1>2
<1>4. after[n] = PlaceAll(t, s)
  BY DEF PlaceAll, Loop
<1> QED BY <1>3, <1>4 DEF B, PlaceGoes

LEMMA ArrivingPlaces ==
    ASSUME NEW map, ~NewUnit(map), NEW t
    PROVE  Arriving(map, t) = PlaceAll(t, map)
BY ZenonT(40) DEF Arriving, PlaceAll, PlaceOn

\* What a traveller keeps when it is made again.
LEMMA RemadeKeeps ==
    ASSUME NEW d, Listed(d), NEW shift
    PROVE  /\ Remade(d, shift).name = d.name /\ Remade(d, shift).global = d.global
           /\ d.kind = "monster" => Remade(d, shift).kind = "monster"
BY DEF Remade, Listed

\* Those who answer to a name, those the new map does not declare, and those of whom it has no other.
Named(e) == world[e].name # "" \/ world[e].global # ""
Missing(to, near) == {e \in near : Answers(world[e], to) = {} /\ ~IsBrush(world[e])}
Lone(e, near) == \A f \in near \ {e} : e \notin Answers(world[f], world)

AnswersTo(d, m) == \/ d.global # "" /\ m.global = d.global
                   \/ d.name # "" /\ m.name = d.name
LEMMA AnswersAre ==
    ASSUME NEW d, NEW map
    PROVE  /\ Answers(d, map) = {i \in DOMAIN map : AnswersTo(d, map[i])}
           /\ HasCounterpart(d, map) <=> Answers(d, map) # {}
<1>1. Answers(d, map) = {i \in DOMAIN map : AnswersTo(d, map[i])}
  BY DEF Answers, AnswersTo
<1>2. HasCounterpart(d, map) <=> \E i \in DOMAIN map : AnswersTo(d, map[i])
  BY DEF HasCounterpart, AnswersTo
<1> QED BY <1>1, <1>2

\* The map there when the travellers up to i have been placed.
Came(to, there, near, i) ==
  /\ IsSequence(there) /\ Len(to) <= Len(there) /\ \A k \in DOMAIN to : there[k] = to[k]
  /\ Len(there) <= Len(to) + Cardinality({e \in Missing(to, near) : e <= i})
  /\ \A e \in near : Lone(e, near) =>
       IF e \in Missing(to, near) /\ e <= i
       THEN \E k \in DOMAIN there : /\ Answers(world[e], there) = {k}
                                    /\ world[e].kind = "monster" => there[k].kind = "monster"
       ELSE Answers(world[e], there) = Answers(world[e], to)

LEMMA CameFirst ==
    ASSUME World, NEW to, IsSequence(to), NEW near \in SUBSET Entities
    PROVE  Came(to, to, near, 0)
<1>1. PICK S : to \in Seq(S)
  BY DEF IsSequence
<1>2. \A e \in near : e \in Nat /\ e >= 1
  BY WorldIsFinite
<1>3. {e \in Missing(to, near) : e <= 0} = {}
  BY <1>2 DEF Missing
<1>4. Cardinality({e \in Missing(to, near) : e <= 0}) = 0
  BY <1>3, FS_EmptySet
<1>5. Len(to) \in Nat
  BY <1>1
<1> QED BY <1>2, <1>4, <1>5 DEF Came

LEMMA CameFinite ==
    ASSUME World, NEW to, NEW near \in SUBSET Entities, NEW i
    PROVE  /\ IsFiniteSet({e \in Missing(to, near) : e <= i})
           /\ Cardinality({e \in Missing(to, near) : e <= i}) \in Nat
<1>1. {e \in Missing(to, near) : e <= i} \in SUBSET Entities
  BY DEF Missing
<1> QED BY <1>1, WorldIsFinite, FS_Subset, FS_CardinalityType

\* A traveller that is not made, and one that is.
LEMMA CameBy ==
    ASSUME World, NEW to, IsSequence(to), NEW near \in SUBSET Entities, NEW there,
           NEW i \in Nat, Came(to, there, near, i),
           i + 1 \in near => HasCounterpart(world[i + 1], there) \/ IsBrush(world[i + 1])
    PROVE  Came(to, there, near, i + 1)
<1> DEFINE A == {e \in Missing(to, near) : e <= i}
           B == {e \in Missing(to, near) : e <= i + 1}
<1>0. \A e \in near : e \in Nat
  BY WorldIsFinite
<1>1. A \in SUBSET B
  BY <1>0 DEF Missing
<1>2. Cardinality(A) <= Cardinality(B) /\ Cardinality(A) \in Nat /\ Cardinality(B) \in Nat
  <2>1. /\ IsFiniteSet(A) /\ Cardinality(A) \in Nat
        /\ IsFiniteSet(B) /\ Cardinality(B) \in Nat
    BY CameFinite
  <2> HIDE DEF A, B
  <2> QED BY <1>1, <2>1, FS_Subset
<1>3. IsSequence(there) /\ Len(to) <= Len(there) /\ (\A k \in DOMAIN to : there[k] = to[k])
      /\ Len(there) <= Len(to) + Cardinality(A)
  BY DEF Came
<1>4. Len(to) \in Nat /\ Len(there) \in Nat
  BY <1>3 DEF IsSequence
<1>5. Len(there) <= Len(to) + Cardinality(B)
  BY <1>2, <1>3, <1>4
<1>6. ASSUME NEW e \in near, Lone(e, near)
      PROVE  IF e \in Missing(to, near) /\ e <= i + 1
             THEN \E k \in DOMAIN there : /\ Answers(world[e], there) = {k}
                                          /\ world[e].kind = "monster" => there[k].kind = "monster"
             ELSE Answers(world[e], there) = Answers(world[e], to)
  <2>1. IF e \in Missing(to, near) /\ e <= i
        THEN \E k \in DOMAIN there : /\ Answers(world[e], there) = {k}
                                     /\ world[e].kind = "monster" => there[k].kind = "monster"
        ELSE Answers(world[e], there) = Answers(world[e], to)
    BY <1>6 DEF Came
  <2>2. CASE e # i + 1
    <3>1. e <= i + 1 <=> e <= i
      BY <1>0, <2>2
    <3> QED BY <2>1, <3>1
  <2>3. CASE e = i + 1
    <3>1. ~(e <= i)
      BY <2>3
    <3>2. Answers(world[e], there) = Answers(world[e], to)
      BY <2>1, <3>1
    <3>3. e \notin Missing(to, near)
      BY ZenonT(40), <2>3, <3>2 DEF Missing, HasCounterpart, Answers
    <3> QED BY <3>2, <3>3
  <2> QED BY <2>2, <2>3
<1> HIDE DEF A, B
<1> QED BY <1>3, <1>5, <1>6 DEF Came, B

LEMMA CameNew ==
    ASSUME World, NEW to, IsSequence(to), NEW near \in SUBSET Entities, NEW there, NEW shift,
           NEW i \in Nat, Came(to, there, near, i), i + 1 \in near,
           ~HasCounterpart(world[i + 1], there), ~IsBrush(world[i + 1]),
           Named(i + 1)
    PROVE  Came(to, Append(there, Remade(world[i + 1], shift)), near, i + 1)
<1> DEFINE A == {e \in Missing(to, near) : e <= i}
           B == {e \in Missing(to, near) : e <= i + 1}
           d == world[i + 1]
           new == Remade(d, shift)
           next == Append(there, new)
           last == Len(there) + 1
<1>0. /\ \A e \in near : e \in Nat /\ Listed(world[e])
      /\ Listed(d)
  BY WorldIsFinite
<1>1. /\ new.name = d.name /\ new.global = d.global
      /\ d.kind = "monster" => new.kind = "monster"
  BY <1>0, RemadeKeeps
<1> HIDE DEF new
<1>2. IsSequence(there) /\ Len(to) <= Len(there) /\ (\A k \in DOMAIN to : there[k] = to[k])
      /\ Len(there) <= Len(to) + Cardinality(A)
  BY DEF Came
<1>3. PICK S : there \in Seq(S)
  BY <1>2 DEF IsSequence
<1>4. PICK R : to \in Seq(R)
  BY DEF IsSequence
<1>5. /\ next \in Seq(S \cup {new}) /\ Len(next) = last /\ DOMAIN next = 1..last
      /\ DOMAIN there = 1..Len(there) /\ next[last] = new
      /\ \A k \in DOMAIN there : next[k] = there[k]
      /\ Len(there) \in Nat /\ Len(to) \in Nat /\ DOMAIN to = 1..Len(to)
  BY <1>3, <1>4
<1> HIDE DEF next
<1>6. IsSequence(next) /\ Len(to) <= Len(next) /\ \A k \in DOMAIN to : next[k] = to[k]
  BY <1>2, <1>5 DEF IsSequence
<1>7. Answers(d, to) = {}
  BY <1>2, <1>5, AnswersAre
<1>8. i + 1 \in Missing(to, near)
  BY <1>7 DEF Missing
<1>9. Len(next) <= Len(to) + Cardinality(B)
  <2>1. B = A \cup {i + 1} /\ i + 1 \notin A
    BY <1>0, <1>8 DEF Missing
  <2>2. IsFiniteSet(A) /\ Cardinality(A) \in Nat
    BY CameFinite
  <2> HIDE DEF A, B
  <2>3. Cardinality(B) = Cardinality(A) + 1
    BY <2>1, <2>2, FS_AddElement
  <2> QED BY <1>2, <1>5, <2>2, <2>3
<1>10. ASSUME NEW e \in near, Lone(e, near)
       PROVE  IF e \in Missing(to, near) /\ e <= i + 1
              THEN \E k \in DOMAIN next : /\ Answers(world[e], next) = {k}
                                          /\ world[e].kind = "monster" => next[k].kind = "monster"
              ELSE Answers(world[e], next) = Answers(world[e], to)
  <2>1. CASE e # i + 1
    <3>1. IF e \in Missing(to, near) /\ e <= i
          THEN \E k \in DOMAIN there : /\ Answers(world[e], there) = {k}
                                       /\ world[e].kind = "monster" => there[k].kind = "monster"
          ELSE Answers(world[e], there) = Answers(world[e], to)
      BY <1>10 DEF Came
    <3>2. e <= i + 1 <=> e <= i
      BY <1>0, <2>1
    <3>3. e \notin Answers(d, world) /\ e \in DOMAIN world
      BY <1>10, <2>1 DEF Lone, Entities
    <3>4. last \notin Answers(world[e], next)
      BY ZenonT(40), <1>1, <1>5, <3>3 DEF Answers
    <3>5. Answers(world[e], next) = Answers(world[e], there)
      <4> DEFINE y == world[e]
      <4>1. /\ Answers(y, next) = {k \in DOMAIN next : AnswersTo(y, next[k])}
            /\ Answers(y, there) = {k \in DOMAIN there : AnswersTo(y, there[k])}
        BY AnswersAre
      <4>2. \A k : k \in DOMAIN next <=> k \in DOMAIN there \/ k = last
        BY <1>5
      <4>3. last \notin Answers(y, next) /\ \A k \in DOMAIN there : next[k] = there[k]
        BY <1>5, <3>4
      <4> HIDE DEF y
      <4>4. Answers(y, next) = Answers(y, there)
        BY <4>1, <4>2, <4>3
      <4> QED BY <4>4 DEF y
    <3>6. \A k \in DOMAIN there : k \in DOMAIN next /\ next[k] = there[k]
      BY <1>5
    <3> QED BY <3>1, <3>2, <3>5, <3>6
  <2>2. CASE e = i + 1
    <3>1. Answers(d, next) = {last}
      <4>1. AnswersTo(d, next[last])
        BY ZenonT(40), <1>1, <1>5 DEF AnswersTo, Named
      <4>2. \A k \in DOMAIN there : ~AnswersTo(d, next[k])
        BY <1>5, AnswersAre
      <4> QED BY SMTT(40), <1>5, <4>1, <4>2, AnswersAre
    <3>2. last \in DOMAIN next
      BY <1>5
    <3> QED BY <1>1, <1>5, <1>8, <2>2, <3>1, <3>2
  <2> QED BY <2>1, <2>2
<1> HIDE DEF B
<1>11. Came(to, next, near, i + 1)
  BY <1>6, <1>9, <1>10 DEF Came, B
<1> QED BY <1>11 DEF next, new

\* The travellers have all been placed.
LEMMA AllCame ==
    ASSUME World, NEW to, IsSequence(to), NEW near \in SUBSET Entities, NEW t,
           \A e \in near : Named(e),
           DOMAIN t.entities = near, \A e \in near : t.entities[e].d = world[e],
           t.last = Len(world), t.meets, ~NewUnit(to)
    PROVE  Came(to, Arriving(to, t), near, Len(world))
<1> DEFINE n == Len(world)
<1>1. n \in Nat
  BY WorldIsFinite
<1>2. PICK f : PlaceGoes(f, t, to)
  BY <1>1, PlaceAllRun
<1>3. /\ f[0] = to /\ \A i \in 1..n : f[i] = PlaceOn(f[i - 1], i, t)
      /\ f[n] = Arriving(to, t)
  BY <1>2, ArrivingPlaces DEF PlaceGoes
<1>4. Came(to, f[n], near, n)
  <2> HIDE DEF n
  <2> DEFINE S == {i \in Nat : i <= n => Came(to, f[i], near, i)}
  <2>1. 0 \in S
    BY <1>3, CameFirst
  <2>2. ASSUME NEW i \in Nat, i \in S PROVE i + 1 \in S
    <3> SUFFICES ASSUME i + 1 <= n PROVE Came(to, f[i + 1], near, i + 1)
      OBVIOUS
    <3>1. f[i + 1] = PlaceOn(f[i], i + 1, t)
      BY <1>1, <1>3
    <3>2. Came(to, f[i], near, i)
      BY <1>1, <2>2
    <3> DEFINE there == f[i]
               d == world[i + 1]
               stays == i + 1 \in near => HasCounterpart(d, there) \/ IsBrush(d)
    <3>3. f[i + 1] = IF stays THEN there ELSE Append(there, Remade(d, t.shift))
      BY <3>1 DEF PlaceOn
    <3>4. CASE stays
      BY <3>2, <3>3, <3>4, CameBy
    <3>5. CASE ~stays
      BY <3>2, <3>3, <3>5, CameNew
    <3> QED BY <3>4, <3>5
  <2> HIDE DEF S
  <2>3. n \in S
    BY <1>1, <2>1, <2>2, Induction
  <2> QED BY <1>1, <2>3 DEF S
<1> QED BY <1>3, <1>4

\* Without a landmark nobody is placed.
LEMMA NobodyCame ==
    ASSUME NEW to, NEW t, t.last \in Nat, ~t.meets
    PROVE  Arriving(to, t) = to
<1> SUFFICES ASSUME ~NewUnit(to) PROVE Arriving(to, t) = to
  BY ZenonT(40) DEF Arriving
<1> DEFINE n == t.last
<1>1. n \in Nat
  OBVIOUS
<1>2. PICK f : PlaceGoes(f, t, to)
  BY PlaceAllRun
<1>3. /\ f[0] = to /\ \A i \in 1..n : f[i] = f[i - 1]
      /\ f[n] = Arriving(to, t)
  BY <1>2, ArrivingPlaces DEF PlaceGoes, PlaceOn
<1>4. f[n] = to
  <2> HIDE DEF n
  <2> DEFINE S == {i \in Nat : i <= n => f[i] = to}
  <2>1. 0 \in S
    BY <1>3
  <2>2. ASSUME NEW i \in Nat, i \in S PROVE i + 1 \in S
    <3> SUFFICES ASSUME i + 1 <= n PROVE f[i + 1] = to
      OBVIOUS
    <3>1. i <= n /\ i + 1 \in 1..n
      BY <1>1
    <3>2. f[i + 1] = f[(i + 1) - 1] /\ f[i] = to
      BY <1>3, <2>2, <3>1
    <3> QED BY <3>2
  <2> HIDE DEF S
  <2>3. n \in S
    BY <2>1, <2>2, Induction DEF n
  <2> QED BY <2>3 DEF S, n
<1> QED BY <1>3, <1>4

LEMMA OnlyChangesFollow ==
    ASSUME GameInv, PairInv, [Next]_vars, Follows
    PROVE  FollowChange
<1>0. World /\ Together(sim, twin)
  BY DEF PairInv
<1>n. Len(sim.changes) \in Nat
  BY <1>0 DEF Together, Pair, Sound, IsSequence
<1>a. ASSUME NEW input, Advance(input) PROVE FALSE
  <2>1. sim' = FixedStep(sim, input) /\ twin' = FixedStep(twin, input)
    BY <1>a DEF Advance
  <2>2. Together(sim', twin') /\ Len(sim.changes) <= Len(sim'.changes)
    BY <1>0, <2>1, StepTogether
  <2>3. Len(sim'.changes) \in Nat
    BY <2>2 DEF Together, Pair, Sound, IsSequence
  <2> QED BY <1>n, <2>2, <2>3 DEF Follows
<1>1. CASE Wait
  BY <1>1, <1>a DEF Wait
<1>2. CASE Act
  BY <1>2, <1>a DEF Act
<1>3. CASE Reload
  <2>1. sim' = Restore(sim) /\ sim.changes = <<>>
    BY <1>3 DEF Reload
  <2>2. sim'.changes = <<>>
    BY <1>0, <2>1, RestoreTogether
  <2> QED BY <1>n, <2>1, <2>2 DEF Follows
<1>4. CASE UNCHANGED vars
  <2>1. sim' = sim
    BY <1>4 DEF vars
  <2> QED BY <1>n, <2>1 DEF Follows
<1> QED BY <1>1, <1>2, <1>3, <1>4 DEF Next

\* What the party of a level change is.
LEMMA PartyLeaves ==
    ASSUME World, Safe(sim), NEW near \in SUBSET Travellers(sim), NEW to, NEW landmark
    PROVE  LET t == CaptureTransition(sim, near, to, landmark)
           IN /\ near \in SUBSET Entities /\ \A e \in near : Named(e)
              /\ DOMAIN t.entities = near /\ \A e \in near : t.entities[e].d = world[e]
              /\ t.last = Len(world) /\ t.last \in Nat /\ t.meets = Meets(world, to, landmark)
<1> DEFINE t == CaptureTransition(sim, near, to, landmark)
<1>1. t.last = Len(world) /\ t.entities = SnapshotsOf(sim, near) /\ t.meets = Meets(world, to, landmark)
  BY DEF CaptureTransition
<1>2. DOMAIN SnapshotsOf(sim, near) = near /\ \A e \in near : SnapshotsOf(sim, near)[e].d = world[e]
  BY DEF SnapshotsOf, Snapshot
<1>3. near \in SUBSET Entities
  BY ZenonT(40) DEF Travellers, Safe, Counted
<1>4. \A e \in near : Named(e)
  BY ZenonT(40) DEF Travellers, Named
<1> HIDE DEF t
<1>5. Len(world) \in Nat
  BY WorldIsFinite
<1>6. /\ near \in SUBSET Entities /\ \A e \in near : Named(e)
      /\ DOMAIN t.entities = near /\ \A e \in near : t.entities[e].d = world[e]
      /\ t.last = Len(world) /\ t.last \in Nat /\ t.meets = Meets(world, to, landmark)
  BY <1>1, <1>2, <1>3, <1>4, <1>5
<1> QED BY <1>6 DEF t

\* Everybody who came is counted.
LEMMA CameCounts ==
    ASSUME World, NEW to, IsSequence(to), NEW near \in SUBSET Entities, NEW there,
           Came(to, there, near, Len(world))
    PROVE  LET made == Missing(to, near)
           IN /\ Len(there) <= Len(to) + Cardinality(made)
              /\ \A e \in near : Lone(e, near) =>
                   /\ Cardinality(Answers(world[e], there)) =
                        Cardinality(Answers(world[e], to)) + (IF e \in made THEN 1 ELSE 0)
                   /\ (e \in made /\ world[e].kind = "monster") =>
                        \E f \in Answers(world[e], there) : there[f].kind = "monster"
<1> DEFINE made == Missing(to, near)
<1>1. \A e \in near : e <= Len(world)
  BY WorldIsFinite
<1>2. {e \in made : e <= Len(world)} = made
  BY <1>1 DEF Missing
<1>3. Len(there) <= Len(to) + Cardinality(made)
  BY <1>2 DEF Came
<1>4. ASSUME NEW e \in near, Lone(e, near)
      PROVE  /\ Cardinality(Answers(world[e], there)) =
                  Cardinality(Answers(world[e], to)) + (IF e \in made THEN 1 ELSE 0)
             /\ (e \in made /\ world[e].kind = "monster") =>
                  \E f \in Answers(world[e], there) : there[f].kind = "monster"
  <2>1. CASE e \in made
    <3>1. PICK k \in DOMAIN there : /\ Answers(world[e], there) = {k}
                                    /\ world[e].kind = "monster" => there[k].kind = "monster"
      BY <1>1, <1>4, <2>1 DEF Came
    <3>2. Answers(world[e], to) = {}
      BY <2>1 DEF Missing
    <3>3. Cardinality(Answers(world[e], there)) = 1 /\ Cardinality(Answers(world[e], to)) = 0
      BY <3>1, <3>2, FS_Singleton, FS_EmptySet
    <3> QED BY <2>1, <3>1, <3>3
  <2>2. CASE e \notin made
    <3>1. Answers(world[e], there) = Answers(world[e], to)
      BY <1>4, <2>2 DEF Came
    <3>2. IsFiniteSet(DOMAIN to)
      <4>1. PICK S : to \in Seq(S)
        BY DEF IsSequence
      <4>2. DOMAIN to = 1..Len(to) /\ Len(to) \in Nat
        BY <4>1
      <4> QED BY <4>2, FS_Interval
    <3>3. Answers(world[e], to) \in SUBSET DOMAIN to
      BY AnswersAre
    <3>4. Cardinality(Answers(world[e], to)) \in Nat
      BY <3>2, <3>3, FS_Subset, FS_CardinalityType
    <3> QED BY <2>2, <3>1, <3>4
  <2> QED BY <2>1, <2>2
<1> QED BY <1>3, <1>4

(* Whoever is taken along arrives, once (TransitionState::place, *)
(* materialise_carried), for every map, every landmark and every party: what the new *)
(* map declares is not made a second time, what it does not declare is made exactly *)
(* once, and nothing else is added to it. *)
THEOREM TravellersComeOnce == Spec => TravellersArriveOnce
<1>1. ASSUME GameInv, PairInv, [Next]_vars, Crosses PROVE PartyArrives
  <2> DEFINE change == Head(sim.changes)
             to == Atlas[change.map]
             landmark == change.landmark
             c(near) == CaptureTransition(sim, near, to, landmark)
  <2>1. FollowChange /\ change.map \in DOMAIN Atlas
    BY <1>1, OnlyChangesFollow DEF Crosses
  <2>2. PICK near \in SUBSET Travellers(sim) : world' = Arriving(to, c(near)) /\ party' = near
    BY <2>1 DEF FollowChange
  <2> DEFINE t == c(near)
             made == Missing(to, near)
  <2>3. World /\ Safe(sim) /\ IsSequence(to)
    <3>1. to \in Seq(Declared)
      BY <2>1, MapsAssumption
    <3> QED BY <1>1, <3>1 DEF GameInv, IsSequence
  <2> HIDE DEF to, landmark
  <2>4. /\ near \in SUBSET Entities /\ \A e \in near : Named(e)
        /\ DOMAIN t.entities = near /\ \A e \in near : t.entities[e].d = world[e]
        /\ t.last = Len(world) /\ t.last \in Nat /\ t.meets = Meets(world, to, landmark)
    BY <2>3, PartyLeaves
  <2> HIDE DEF c
  <2>5. CASE NewUnit(to)
    <3>1. world' = to
      BY ZenonT(40), <2>2, <2>5 DEF Arriving
    <3> QED BY <2>5, <3>1 DEF PartyArrives, to
  <2>6. CASE ~Meets(world, to, landmark)
    <3>1. world' = to
      BY SMTT(40), <2>2, <2>4, <2>6, NobodyCame
    <3> QED BY <2>6, <3>1 DEF PartyArrives, to, landmark
  <2>7. CASE ~NewUnit(to) /\ Meets(world, to, landmark)
    <3>1. Came(to, world', near, Len(world))
      BY <2>2, <2>3, <2>4, <2>7, AllCame
    <3>2. /\ Len(world') <= Len(to) + Cardinality(made)
          /\ \A e \in near : Lone(e, near) =>
               /\ Cardinality(Answers(world[e], world')) =
                    Cardinality(Answers(world[e], to)) + (IF e \in made THEN 1 ELSE 0)
               /\ (e \in made /\ world[e].kind = "monster") =>
                    \E f \in Answers(world[e], world') : world'[f].kind = "monster"
      BY <2>3, <2>4, <3>1, CameCounts
    <3>3. made = {e \in party' : Answers(world[e], to) = {} /\ ~IsBrush(world[e])}
      BY <2>2 DEF Missing
    <3>4. \A e : Lone(e, near) <=> Alone(e)
      BY <2>2 DEF Lone, Alone
    <3> QED BY <2>2, <3>2, <3>3, <3>4 DEF PartyArrives, to
  <2> QED BY <2>5, <2>6, <2>7
<1>2. GameInv /\ PairInv /\ [Next]_vars => [Crosses => PartyArrives]_vars
  BY <1>1
<1> QED BY GameStarts, GameGoesOn, PairStarts, PairGoesOn, <1>2, PTL DEF Spec, TravellersArriveOnce
=============================================================================
