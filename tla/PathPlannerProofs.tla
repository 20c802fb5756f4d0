------------------------- MODULE PathPlannerProofs --------------------------
(***************************************************************************)
(* The planners proved for every set of spellings and every length of an   *)
(* enumeration: a planned layout is extractable, every conflict they       *)
(* report is real, and a plan is its own plan.                             *)
(***************************************************************************)
EXTENDS PathPlanner, SequenceTheorems, FiniteSetTheorems, TLAPS

(* Induction over the natural numbers, about a set of them. *)
Below == {pair \in Nat \X Nat : pair[1] < pair[2]}

LEMMA Induction ==
    ASSUME NEW S, 0 \in S, \A n \in Nat : n \in S => n + 1 \in S
    PROVE  Nat \subseteq S
<1> SUFFICES ASSUME Nat \ S # {} PROVE FALSE
  OBVIOUS
<1>1. Below = OpToRel(<, Nat)
  BY DEF Below, OpToRel
<1>2. IsWellFoundedOn(Below, Nat)
  BY <1>1, NatLessThanWellFounded
<1>3. PICK n \in Nat \ S : \A m \in Nat \ S : <<m, n>> \notin Below
  BY <1>2, WFMin
<1>4. n # 0 /\ n - 1 \in Nat /\ n - 1 < n
  BY <1>3
<1>5. <<n - 1, n>> \in Below
  BY <1>3, <1>4 DEF Below
<1> QED BY <1>3, <1>4, <1>5

(* A loop over the first N numbers whose body is G computes a value after    *)
(* each of them.                                                             *)
LEMMA LoopExists ==
    ASSUME NEW X, NEW start \in X, NEW N \in Nat, NEW G \in [1..N -> [X -> X]]
    PROVE  \E f \in [0..N -> X] : f[0] = start /\ \A n \in 1..N : f[n] = G[n][f[n - 1]]
<1> DEFINE P(k, f) == f[0] = start /\ \A n \in 1..k : f[n] = G[n][f[n - 1]]
           S == {k \in Nat : k <= N => \E f \in [0..k -> X] : P(k, f)}
<1>1. 0 \in S
  <2> DEFINE f == [i \in 0..0 |-> start]
  <2>1. f \in [0..0 -> X] /\ P(0, f)
    OBVIOUS
  <2> HIDE DEF f, P
  <2> QED BY <2>1
<1>2. ASSUME NEW k \in Nat, k \in S PROVE k + 1 \in S
  <2> SUFFICES ASSUME k + 1 <= N PROVE \E f \in [0..(k + 1) -> X] : P(k + 1, f)
    BY DEF S
  <2>1. PICK f \in [0..k -> X] : P(k, f)
    BY <1>2 DEF S
  <2> DEFINE g == [i \in 0..(k + 1) |-> IF i = k + 1 THEN G[k + 1][f[k]] ELSE f[i]]
  <2>2. G[k + 1][f[k]] \in X
    <3>1. k + 1 \in 1..N /\ f[k] \in X
      OBVIOUS
    <3> QED BY <3>1
  <2>3. g \in [0..(k + 1) -> X]
    BY <2>2
  <2>4. g[0] = start
    BY <2>1
  <2>5. ASSUME NEW n \in 1..(k + 1) PROVE g[n] = G[n][g[n - 1]]
    <3>1. CASE n = k + 1
      <4>1. g[n] = G[k + 1][f[k]] /\ g[n - 1] = f[k]
        BY <3>1
      <4> QED BY <3>1, <4>1
    <3>2. CASE n # k + 1
      <4>1. n \in 1..k /\ g[n] = f[n] /\ g[n - 1] = f[n - 1]
        BY <3>2
      <4> QED BY <2>1, <4>1
    <3> QED BY <3>1, <3>2
  <2>6. P(k + 1, g)
    <3> HIDE DEF g
    <3> QED BY <2>4, <2>5
  <2> HIDE DEF g, P
  <2> QED BY <2>3, <2>6
<1>3. Nat \subseteq S
  <2> HIDE DEF S
  <2> QED BY <1>1, <1>2, Induction
<1> QED BY <1>3

-----------------------------------------------------------------------------
(* A spelling grows component by component. *)
Paths == Seq(Seq(Nat \ {Slash}))

SpellingLoop(path, text) ==
    text = [n \in 0..Len(path) |->
              IF n = 0 THEN << >> ELSE text[n - 1] \o <<Slash>> \o path[n]]

Spells(path, text) ==
    /\ text[0] = << >> /\ \A n \in 0..Len(path) : text[n] \in Seq(Nat)
    /\ \A n \in 1..Len(path) : text[n] = text[n - 1] \o <<Slash>> \o path[n]

LEMMA BytesSpell ==
    ASSUME NEW path \in Paths
    PROVE  \E text : Bytes(path) = text[Len(path)] /\ Spells(path, text)
<1> DEFINE N == Len(path)
           G == [n \in 1..N |-> [t \in Seq(Nat) |-> t \o <<Slash>> \o path[n]]]
           text == CHOOSE f : SpellingLoop(path, f)
           S == {n \in Nat : n <= N => text[n] \in Seq(Nat)}
<1>1. N \in Nat /\ Slash \in Nat /\ << >> \in Seq(Nat)
  BY DEF Paths, Slash
<1>2. \A n \in 1..N : path[n] \in Seq(Nat)
  BY SeqMonotonic DEF Paths
<1>3. \A n \in 1..N, t \in Seq(Nat) : t \o <<Slash>> \o path[n] \in Seq(Nat)
  BY <1>1, <1>2
<1>4. G \in [1..N -> [Seq(Nat) -> Seq(Nat)]]
  BY <1>3
<1>5. PICK f \in [0..N -> Seq(Nat)] : f[0] = << >> /\ \A n \in 1..N : f[n] = G[n][f[n - 1]]
  <2> DEFINE X == Seq(Nat)
             start == << >>
  <2>1. start \in X /\ G \in [1..N -> [X -> X]] /\ N \in Nat
    BY <1>1, <1>4
  <2> HIDE DEF G, N, X, start
  <2>2. \E f \in [0..N -> X] : f[0] = start /\ \A n \in 1..N : f[n] = G[n][f[n - 1]]
    BY <2>1, LoopExists
  <2> QED BY <2>2 DEF X, start
<1>6. ASSUME NEW n \in 1..N PROVE f[n] = f[n - 1] \o <<Slash>> \o path[n]
  <2>1. f[n] = G[n][f[n - 1]]
    BY <1>5
  <2>2. f[n - 1] \in Seq(Nat)
    <3>1. n - 1 \in 0..N
      BY <1>1
    <3> QED BY <3>1
  <2> QED BY <2>1, <2>2
<1>7. SpellingLoop(path, f)
  <2>1. f = [n \in 0..N |-> f[n]]
    OBVIOUS
  <2>2. \A n \in 0..N : n = 0 \/ n \in 1..N
    BY <1>1
  <2>3. \A n \in 0..N : f[n] = IF n = 0 THEN << >> ELSE f[n - 1] \o <<Slash>> \o path[n]
    <3> HIDE DEF N, G
    <3> QED BY <1>5, <1>6, <2>2
  <2> QED BY <2>1, <2>3 DEF SpellingLoop
<1>8. SpellingLoop(path, text)
  BY <1>7
<1>9. Bytes(path) = text[N]
  BY DEF Bytes, SpellingLoop
<1> HIDE DEF text, G
<1>10. text[0] = << >> /\ \A n \in 1..N : text[n] = text[n - 1] \o <<Slash>> \o path[n]
  <2>1. \A n \in 0..N : text[n] = IF n = 0 THEN << >> ELSE text[n - 1] \o <<Slash>> \o path[n]
    BY <1>8 DEF SpellingLoop
  <2>2. 0 \in 0..N /\ \A n \in 1..N : n \in 0..N /\ n # 0
    BY <1>1
  <2> HIDE DEF N
  <2> QED BY <2>1, <2>2
<1>11. 0 \in S
  BY <1>1, <1>10
<1>12. ASSUME NEW n \in Nat, n \in S PROVE n + 1 \in S
  <2> SUFFICES ASSUME n + 1 <= N PROVE text[n + 1] \in Seq(Nat)
    OBVIOUS
  <2>1. n + 1 \in 1..N /\ (n + 1) - 1 = n /\ text[n] \in Seq(Nat)
    BY <1>1, <1>12
  <2>2. text[n + 1] = text[n] \o <<Slash>> \o path[n + 1]
    BY <1>10, <2>1
  <2> QED BY <1>3, <2>1, <2>2
<1>13. Nat \subseteq S
  <2> HIDE DEF S
  <2> QED BY <1>11, <1>12, Induction
<1>14. \A n \in 0..N : text[n] \in Seq(Nat)
  BY <1>1, <1>13
<1> QED BY <1>9, <1>10, <1>14 DEF Spells

LEMMA BytesType == \A path \in Paths : Bytes(path) \in Seq(Nat)
<1> SUFFICES ASSUME NEW path \in Paths PROVE Bytes(path) \in Seq(Nat)
  OBVIOUS
<1>1. Len(path) \in 0..Len(path)
  BY DEF Paths
<1> QED BY <1>1, BytesSpell DEF Spells

(* Folding the letter case of a path keeps its shape. *)
LEMMA FoldCaseType ==
    ASSUME NEW path \in Paths
    PROVE  /\ FoldCase(path) \in Paths /\ Len(FoldCase(path)) = Len(path)
<1>1. \A byte \in Nat \ {Slash} : Lowercase(byte) \in Nat \ {Slash}
  BY DEF Lowercase, Slash
<1>2. ASSUME NEW k \in DOMAIN path
      PROVE  [j \in DOMAIN path[k] |-> Lowercase(path[k][j])] \in Seq(Nat \ {Slash})
  <2>1. path[k] \in Seq(Nat \ {Slash})
    BY DEF Paths
  <2>2. \A j \in DOMAIN path[k] : path[k][j] \in Nat \ {Slash}
    BY <2>1
  <2>3. Len(path[k]) \in Nat /\ DOMAIN path[k] = 1..Len(path[k])
    BY <2>1
  <2>4. [j \in 1..Len(path[k]) |-> Lowercase(path[k][j])] \in [1..Len(path[k]) -> Nat \ {Slash}]
    BY <1>1, <2>2, <2>3
  <2> QED BY <2>3, <2>4
<1>3. Len(path) \in Nat /\ DOMAIN path = 1..Len(path)
  BY DEF Paths
<1>4. FoldCase(path) \in [1..Len(path) -> Seq(Nat \ {Slash})]
  BY <1>2, <1>3 DEF FoldCase
<1> DEFINE f == FoldCase(path)
           T == Seq(Nat \ {Slash})
           N == Len(path)
<1> HIDE DEF f, T, N
<1>5. f \in [1..N -> T] /\ N \in Nat
  BY <1>3, <1>4 DEF f, T, N
<1>6. f \in Seq(T) /\ Len(f) = N
  BY <1>5
<1> QED BY <1>6 DEF Paths, f, T, N

(* The components that normalize_path keeps form a path. *)
KeepingLoop(path, kept) ==
    kept = [n \in 0..Len(path) |->
              IF n = 0 THEN << >>
              ELSE IF path[n] = << >> THEN kept[n - 1] ELSE Append(kept[n - 1], path[n])]

LEMMA NormalizePathType ==
    ASSUME NEW path \in Paths
    PROVE  NormalizePath(path) \in Paths
<1> DEFINE N == Len(path)
           Keep(n, t) == IF path[n] = << >> THEN t ELSE Append(t, path[n])
           G == [n \in 1..N |-> [t \in Paths |-> Keep(n, t)]]
           kept == CHOOSE f : KeepingLoop(path, f)
           S == {n \in Nat : n <= N => kept[n] \in Paths}
<1>1. N \in Nat /\ << >> \in Paths
  BY DEF Paths
<1>2. \A n \in 1..N, t \in Paths : Keep(n, t) \in Paths
  BY DEF Paths
<1>3. G \in [1..N -> [Paths -> Paths]]
  BY <1>2
<1>4. PICK f \in [0..N -> Paths] : f[0] = << >> /\ \A n \in 1..N : f[n] = G[n][f[n - 1]]
  <2> DEFINE X == Paths
             start == << >>
  <2>1. start \in X /\ G \in [1..N -> [X -> X]] /\ N \in Nat
    BY <1>1, <1>3
  <2> HIDE DEF G, N, X, start
  <2>2. \E f \in [0..N -> X] : f[0] = start /\ \A n \in 1..N : f[n] = G[n][f[n - 1]]
    BY <2>1, LoopExists
  <2> QED BY <2>2 DEF X, start
<1>5. ASSUME NEW n \in 1..N PROVE f[n] = Keep(n, f[n - 1])
  <2>1. f[n] = G[n][f[n - 1]]
    BY <1>4
  <2>2. f[n - 1] \in Paths
    <3>1. n - 1 \in 0..N
      BY <1>1
    <3> QED BY <3>1
  <2> QED BY <2>1, <2>2
<1>6. KeepingLoop(path, f)
  <2>1. f = [n \in 0..N |-> f[n]]
    OBVIOUS
  <2>2. \A n \in 0..N : n = 0 \/ n \in 1..N
    BY <1>1
  <2>3. \A n \in 0..N : f[n] = IF n = 0 THEN << >> ELSE Keep(n, f[n - 1])
    <3> HIDE DEF N, G, Keep
    <3> QED BY <1>4, <1>5, <2>2
  <2> QED BY <2>1, <2>3 DEF KeepingLoop
<1>7. KeepingLoop(path, kept)
  BY <1>6
<1>8. NormalizePath(path) = kept[N]
  BY DEF NormalizePath, KeepingLoop
<1> HIDE DEF kept, G
<1>9. \A n \in 0..N : kept[n] = IF n = 0 THEN << >> ELSE Keep(n, kept[n - 1])
  BY <1>7 DEF KeepingLoop
<1>10. 0 \in S
  BY <1>1, <1>9
<1>11. ASSUME NEW n \in Nat, n \in S PROVE n + 1 \in S
  <2> SUFFICES ASSUME n + 1 <= N PROVE kept[n + 1] \in Paths
    OBVIOUS
  <2>1. n + 1 \in 1..N /\ (n + 1) - 1 = n /\ kept[n] \in Paths
    BY <1>1, <1>11
  <2>2. kept[n + 1] = Keep(n + 1, kept[n])
    BY <1>9, <2>1
  <2> HIDE DEF Keep
  <2> QED BY <1>2, <2>1, <2>2
<1>12. Nat \subseteq S
  <2> HIDE DEF S
  <2> QED BY <1>10, <1>11, Induction
<1> QED BY <1>1, <1>8, <1>12

-----------------------------------------------------------------------------
(* The byte-wise order is a strict order of texts. *)
LEMMA PrefixMeans ==
    ASSUME NEW T, NEW s \in Seq(T), NEW t \in Seq(T)
    PROVE  /\ IsPrefix(s, t) <=> Len(s) <= Len(t) /\ \A k \in 1..Len(s) : s[k] = t[k]
           /\ IsStrictPrefix(s, t) <=> Len(s) < Len(t) /\ \A k \in 1..Len(s) : s[k] = t[k]
<1>1. Len(s) \in Nat /\ Len(t) \in Nat
  OBVIOUS
<1>2. SubSeq(s, 1, Len(s)) = s
  BY SubSeqFull
<1>3. ASSUME Len(s) <= Len(t)
      PROVE  s = SubSeq(t, 1, Len(s)) <=> \A k \in 1..Len(s) : s[k] = t[k]
  <2> DEFINE u == SubSeq(t, 1, Len(s))
  <2>1. u \in Seq(T) /\ Len(u) = Len(s) /\ \A k \in 1..Len(s) : u[k] = t[k]
    BY <1>1, <1>3
  <2> HIDE DEF u
  <2>2. (\A k \in 1..Len(s) : s[k] = t[k]) => s = u
    BY <2>1, SeqEqual
  <2>3. s = u => \A k \in 1..Len(s) : s[k] = t[k]
    BY <2>1
  <2> QED BY <2>2, <2>3 DEF u
<1>4. IsPrefix(s, t) <=> Len(s) <= Len(t) /\ \A k \in 1..Len(s) : s[k] = t[k]
  BY <1>2, <1>3 DEF IsPrefix
<1>5. Len(s) = Len(t) /\ (\A k \in 1..Len(s) : s[k] = t[k]) => s = t
  BY SeqEqual
<1>6. Len(s) < Len(t) => s # t
  BY <1>1
<1> QED BY <1>1, <1>4, <1>5, <1>6 DEF IsStrictPrefix

LEMMA PrecedesIsStrict ==
    \A s \in Seq(Nat) : ~Precedes(s, s)
<1> SUFFICES ASSUME NEW s \in Seq(Nat) PROVE ~Precedes(s, s)
  OBVIOUS
<1>1. \A n \in 1..Len(s) : ~(s[n] < s[n])
  <2>1. \A n \in 1..Len(s) : s[n] \in Nat
    OBVIOUS
  <2> QED BY <2>1
<1> QED BY <1>1 DEF Precedes, IsStrictPrefix

LEMMA PrecedesIsTransitive ==
    ASSUME NEW s \in Seq(Nat), NEW t \in Seq(Nat), NEW u \in Seq(Nat),
           Precedes(s, t), Precedes(t, u)
    PROVE  Precedes(s, u)
<1> DEFINE Differs(x, y, n) ==
               /\ n \in 1..Len(x) /\ n <= Len(y) /\ x[n] < y[n]
               /\ \A m \in 1..(n - 1) : x[m] = y[m]
           Starts(x, y) == Len(x) < Len(y) /\ \A k \in 1..Len(x) : x[k] = y[k]
<1>1. /\ Len(s) \in Nat /\ Len(t) \in Nat /\ Len(u) \in Nat
      /\ \A k \in 1..Len(s) : s[k] \in Nat
      /\ \A k \in 1..Len(t) : t[k] \in Nat
      /\ \A k \in 1..Len(u) : u[k] \in Nat
  OBVIOUS
<1>2. ASSUME NEW x \in Seq(Nat), NEW y \in Seq(Nat)
      PROVE  Precedes(x, y) <=> (\E n : Differs(x, y, n)) \/ Starts(x, y)
  <2>1. IsStrictPrefix(x, y) <=> Starts(x, y)
    BY PrefixMeans
  <2> QED BY <2>1 DEF Precedes
<1>3. ((\E n : Differs(s, t, n)) \/ Starts(s, t)) /\ ((\E n : Differs(t, u, n)) \/ Starts(t, u))
  BY <1>2
<1>4. ASSUME NEW n, Differs(s, t, n), NEW m, Differs(t, u, m)
      PROVE  Differs(s, u, n) \/ Differs(s, u, m)
  <2>1. CASE n < m
    <3>1. t[n] = u[n] /\ n <= Len(u)
      BY <1>1, <1>4, <2>1
    <3> QED BY <1>1, <1>4, <2>1, <3>1
  <2>2. CASE n = m
    <3>1. s[n] \in Nat /\ t[n] \in Nat /\ u[n] \in Nat /\ s[n] < t[n] /\ t[n] < u[n]
      BY <1>1, <1>4, <2>2
    <3>2. s[n] < u[n]
      BY <3>1
    <3> QED BY <1>1, <1>4, <2>2, <3>2
  <2>3. CASE n > m
    <3>1. s[m] = t[m] /\ m \in 1..Len(s)
      BY <1>1, <1>4, <2>3
    <3> QED BY <1>1, <1>4, <2>3, <3>1
  <2>4. n \in Nat /\ m \in Nat
    BY <1>1, <1>4
  <2> QED BY <2>1, <2>2, <2>3, <2>4
<1>5. ASSUME NEW n, Differs(s, t, n), Starts(t, u) PROVE Differs(s, u, n)
  <2>1. t[n] = u[n] /\ n <= Len(u)
    BY <1>1, <1>5
  <2> QED BY <1>1, <1>5, <2>1
<1>6. ASSUME NEW m, Starts(s, t), Differs(t, u, m) PROVE Differs(s, u, m) \/ Starts(s, u)
  BY <1>1, <1>6
<1>7. ASSUME Starts(s, t), Starts(t, u) PROVE Starts(s, u)
  BY <1>1, <1>7
<1> HIDE DEF Differs, Starts
<1> QED BY <1>2, <1>3, <1>4, <1>5, <1>6, <1>7

(* A non-empty finite set of paths has one that no other follows. *)
Key(path) == Bytes(FoldCase(path))

LEMMA KeyType == \A path \in Paths : Key(path) \in Seq(Nat)
BY BytesType, FoldCaseType DEF Key

LatestOf(S, x) == x \in S /\ \A y \in S : ~Precedes(Key(x), Key(y))

LEMMA LastExists ==
    ASSUME NEW S, IsFiniteSet(S), S # {}, S \subseteq Paths
    PROVE  \E x : LatestOf(S, x)
<1> DEFINE Goal(U) == IsFiniteSet(U) /\ U # {} /\ U \subseteq Paths => \E x : LatestOf(U, x)
           N == {n \in Nat : \A U : Cardinality(U) = n => Goal(U)}
<1>1. 0 \in N
  <2>1. \A U : IsFiniteSet(U) /\ Cardinality(U) = 0 => U = {}
    BY FS_EmptySet
  <2> QED BY <2>1
<1>2. ASSUME NEW n \in Nat, n \in N PROVE n + 1 \in N
  <2> SUFFICES ASSUME NEW U, Cardinality(U) = n + 1, IsFiniteSet(U), U # {}, U \subseteq Paths
               PROVE  \E x : LatestOf(U, x)
    OBVIOUS
  <2>1. PICK z : z \in U
    OBVIOUS
  <2> DEFINE V == U \ {z}
  <2>2. IsFiniteSet(V) /\ Cardinality(V) = n /\ V \subseteq Paths
    <3>1. IsFiniteSet(V) /\ Cardinality(V) = Cardinality(U) - 1
      BY <2>1, FS_RemoveElement
    <3>2. (n + 1) - 1 = n
      OBVIOUS
    <3> QED BY <3>1, <3>2
  <2>3. \A x \in U : Key(x) \in Seq(Nat)
    BY KeyType
  <2>4. CASE V = {}
    <3>1. \A y \in U : y = z
      BY <2>4
    <3>2. LatestOf(U, z)
      BY <2>1, <2>3, <3>1, PrecedesIsStrict DEF LatestOf
    <3> QED BY <3>2
  <2>5. CASE V # {}
    <3>1. PICK x : LatestOf(V, x)
      <4>1. Cardinality(V) = n => Goal(V)
        BY <1>2
      <4> QED BY <2>2, <2>5, <4>1
    <3>2. CASE Precedes(Key(x), Key(z))
      <4>1. ASSUME NEW y \in U, Precedes(Key(z), Key(y)) PROVE FALSE
        <5>1. y # z
          BY <2>1, <2>3, <4>1, PrecedesIsStrict
        <5>2. Precedes(Key(x), Key(y))
          BY <2>1, <2>3, <3>1, <3>2, <4>1, PrecedesIsTransitive DEF LatestOf
        <5> QED BY <3>1, <5>1, <5>2 DEF LatestOf
      <4>2. LatestOf(U, z)
        BY <2>1, <4>1 DEF LatestOf
      <4> QED BY <4>2
    <3>3. CASE ~Precedes(Key(x), Key(z))
      <4>1. LatestOf(U, x)
        BY <3>1, <3>3 DEF LatestOf
      <4> QED BY <4>1
    <3> QED BY <3>2, <3>3
  <2> QED BY <2>4, <2>5
<1>3. Nat \subseteq N
  <2> HIDE DEF N
  <2> QED BY <1>1, <1>2, Induction
<1>4. Cardinality(S) \in N
  BY <1>3, FS_CardinalityType
<1> QED BY <1>4

(* Every finite set of paths can be sorted, and the sorted sequence has each *)
(* of its paths once.                                                        *)
Sorts(S, s) ==
    /\ s \in [1..Cardinality(S) -> S]
    /\ \A m, n \in DOMAIN s : m < n => s[m] # s[n] /\ ~Precedes(Key(s[n]), Key(s[m]))

LEMMA OrderExists ==
    ASSUME NEW S, IsFiniteSet(S), S \subseteq Paths
    PROVE  Sorts(S, InByteOrder(S))
<1> DEFINE Goal(U) == IsFiniteSet(U) /\ U \subseteq Paths => \E s : Sorts(U, s)
           N == {n \in Nat : \A U : Cardinality(U) = n => Goal(U)}
<1>1. 0 \in N
  <2> SUFFICES ASSUME NEW U, Cardinality(U) = 0 PROVE \E s : Sorts(U, s)
    OBVIOUS
  <2>1. Sorts(U, [i \in 1..0 |-> 0])
    BY DEF Sorts
  <2> QED BY <2>1
<1>2. ASSUME NEW n \in Nat, n \in N PROVE n + 1 \in N
  <2> SUFFICES ASSUME NEW U, Cardinality(U) = n + 1, IsFiniteSet(U), U \subseteq Paths
               PROVE  \E s : Sorts(U, s)
    OBVIOUS
  <2>1. PICK z : LatestOf(U, z)
    <3>1. U # {}
      BY FS_EmptySet
    <3> QED BY <3>1, LastExists
  <2> DEFINE V == U \ {z}
  <2>2. IsFiniteSet(V) /\ Cardinality(V) = n /\ V \subseteq Paths
    <3>1. IsFiniteSet(V) /\ Cardinality(V) = Cardinality(U) - 1
      BY <2>1, FS_RemoveElement DEF LatestOf
    <3>2. (n + 1) - 1 = n
      OBVIOUS
    <3> QED BY <3>1, <3>2
  <2>3. PICK s : Sorts(V, s)
    <3>1. Cardinality(V) = n => Goal(V)
      BY <1>2
    <3> QED BY <2>2, <3>1
  <2>4. s \in [1..n -> V]
    BY <2>2, <2>3 DEF Sorts
  <2> DEFINE t == [k \in 1..(n + 1) |-> IF k = n + 1 THEN z ELSE s[k]]
  <2>5. t \in [1..(n + 1) -> U]
    <3>1. z \in U /\ \A k \in 1..(n + 1) : k # n + 1 => s[k] \in U
      BY <2>1, <2>4 DEF LatestOf
    <3> QED BY <3>1
  <2>6. ASSUME NEW i \in 1..(n + 1), NEW j \in 1..(n + 1), i < j
        PROVE  t[i] # t[j] /\ ~Precedes(Key(t[j]), Key(t[i]))
    <3>1. i \in 1..n /\ t[i] = s[i] /\ s[i] \in V
      BY <2>4, <2>6
    <3>2. CASE j = n + 1
      <4>1. t[j] = z
        BY <3>2
      <4> QED BY <2>1, <3>1, <4>1 DEF LatestOf
    <3>3. CASE j # n + 1
      <4>1. j \in 1..n /\ t[j] = s[j]
        BY <3>3
      <4> QED BY <2>3, <2>4, <2>6, <3>1, <4>1 DEF Sorts
    <3> QED BY <3>2, <3>3
  <2>7. DOMAIN t = 1..(n + 1)
    OBVIOUS
  <2>8. Sorts(U, t)
    <3> HIDE DEF t
    <3> QED BY <2>5, <2>6, <2>7 DEF Sorts
  <2> HIDE DEF t
  <2> QED BY <2>8
<1>3. Nat \subseteq N
  <2> HIDE DEF N
  <2> QED BY <1>1, <1>2, Induction
<1>4. Cardinality(S) \in N
  BY <1>3, FS_CardinalityType
<1>5. PICK s : Sorts(S, s)
  BY <1>4
<1> DEFINE F == [1..Cardinality(S) -> S]
           P(f) == \A m, n \in DOMAIN f :
                       m < n => f[m] # f[n] /\ ~Precedes(Key(f[n]), Key(f[m]))
<1> HIDE DEF N, F, Goal
<1>6. InByteOrder(S) = CHOOSE f \in F : P(f)
  BY DEF InByteOrder, Key, F
<1>7. \A f : Sorts(S, f) <=> f \in F /\ P(f)
  BY DEF Sorts, F
<1> HIDE DEF P
<1>8. \E f \in F : P(f)
  BY <1>5, <1>7
<1> QED BY <1>6, <1>7, <1>8

LEMMA OrderIsPermutation ==
    ASSUME NEW S, IsFiniteSet(S), S \subseteq Paths
    PROVE  /\ InByteOrder(S) \in Seq(Paths) /\ Len(InByteOrder(S)) = Cardinality(S)
           /\ Range(InByteOrder(S)) = S
<1> DEFINE s == InByteOrder(S)
           N == Cardinality(S)
<1>1. N \in Nat
  BY FS_CardinalityType
<1>2. Sorts(S, s)
  BY OrderExists
<1> HIDE DEF s
<1>3. s \in [1..N -> S] /\ s \in [1..N -> Paths]
  BY <1>2 DEF Sorts
<1>4. s \in Injection(1..N, S)
  <2>1. ASSUME NEW i \in 1..N, NEW j \in 1..N, s[i] = s[j] PROVE i = j
    <3>1. i < j \/ j < i \/ i = j
      BY <1>1
    <3> QED BY <1>2, <1>3, <2>1, <3>1 DEF Sorts
  <2> QED BY <1>3, <2>1 DEF Injection, IsInjective
<1>5. Cardinality(1..N) = N
  BY <1>1, FS_Interval
<1>6. s \in Surjection(1..N, S)
  BY <1>4, <1>5, FS_Injection
<1>7. Range(s) = S
  BY <1>3, <1>6 DEF Surjection, Range
<1>8. s \in Seq(Paths) /\ Len(s) = N
  <2> HIDE DEF N
  <2> QED BY <1>1, <1>3
<1> QED BY <1>7, <1>8 DEF s

-----------------------------------------------------------------------------
(* The paths the planners let through. *)
Names == Paths \ {<< >>}

LEMMA FoldCaseStart ==
    ASSUME NEW path \in Paths, NEW n \in 0..Len(path)
    PROVE  /\ SubSeq(path, 1, n) \in Paths /\ Len(SubSeq(path, 1, n)) = n
           /\ \A k \in 1..n : /\ SubSeq(path, 1, n)[k] = path[k]
                              /\ FoldCase(SubSeq(path, 1, n))[k] = FoldCase(path)[k]
<1> DEFINE a == SubSeq(path, 1, n)
<1>1. Len(path) \in Nat /\ n \in Nat /\ DOMAIN path = 1..Len(path)
  BY DEF Paths
<1>2. a \in Paths /\ Len(a) = n /\ DOMAIN a = 1..n /\ \A k \in 1..n : a[k] = path[k]
  BY <1>1 DEF Paths
<1> HIDE DEF a
<1>3. ASSUME NEW k \in 1..n PROVE FoldCase(a)[k] = FoldCase(path)[k]
  <2>1. k \in DOMAIN a /\ k \in DOMAIN path /\ a[k] = path[k]
    BY <1>1, <1>2
  <2> QED BY <2>1 DEF FoldCase
<1> QED BY <1>2, <1>3 DEF a

(* A path is above another when it is an ancestor of it, letter case apart. *)
LEMMA AboveIsAncestor ==
    ASSUME NEW p \in Names, NEW q \in Names
    PROVE  IsAbove(p, q) <=> \E a \in Ancestors(q) : SameName(a, p)
<1> DEFINE fp == FoldCase(p)
           fq == FoldCase(q)
<1>1. /\ p \in Paths /\ q \in Paths /\ Len(p) \in Nat /\ Len(q) \in Nat /\ Len(p) # 0
      /\ fp \in Paths /\ fq \in Paths /\ Len(fp) = Len(p) /\ Len(fq) = Len(q)
  <2>1. p \in Paths /\ q \in Paths /\ p # << >>
    BY DEF Names
  <2>2. Len(p) \in Nat /\ Len(q) \in Nat /\ Len(p) # 0
    BY <2>1, EmptySeq DEF Paths
  <2> QED BY <2>1, <2>2, FoldCaseType
<1> HIDE DEF fp, fq
<1>2. IsAbove(p, q) <=> Len(p) < Len(q) /\ \A k \in 1..Len(p) : fp[k] = fq[k]
  <2>1. IsStrictPrefix(fp, fq) <=> Len(fp) < Len(fq) /\ \A k \in 1..Len(fp) : fp[k] = fq[k]
    BY <1>1, PrefixMeans DEF Paths
  <2> QED BY <1>1, <2>1 DEF IsAbove, fp, fq
<1>3. ASSUME IsAbove(p, q) PROVE \E a \in Ancestors(q) : SameName(a, p)
  <2> DEFINE a == SubSeq(q, 1, Len(p))
  <2>1. Len(p) \in 1..(Len(q) - 1) /\ Len(p) \in 0..Len(q)
    BY <1>1, <1>2, <1>3
  <2>2. a \in Ancestors(q)
    BY <2>1 DEF Ancestors
  <2>3. /\ a \in Paths /\ Len(a) = Len(p)
        /\ \A k \in 1..Len(p) : FoldCase(a)[k] = fq[k]
    BY <1>1, <2>1, FoldCaseStart DEF fq
  <2> HIDE DEF a
  <2>4. FoldCase(a) \in Paths /\ Len(FoldCase(a)) = Len(p)
    BY <2>3, FoldCaseType
  <2>5. \A k \in 1..Len(p) : FoldCase(a)[k] = fp[k]
    BY <1>2, <1>3, <2>3
  <2>6. FoldCase(a) = fp
    BY <1>1, <2>4, <2>5, SeqEqual DEF Paths
  <2> QED BY <2>2, <2>6 DEF SameName, fp
<1>4. ASSUME NEW a \in Ancestors(q), SameName(a, p) PROVE IsAbove(p, q)
  <2>1. PICK n \in 1..(Len(q) - 1) : a = SubSeq(q, 1, n)
    BY <1>4 DEF Ancestors
  <2>2. n \in 0..Len(q) /\ n < Len(q) /\ n \in Nat
    BY <1>1
  <2>3. a \in Paths /\ Len(a) = n /\ \A k \in 1..n : FoldCase(a)[k] = fq[k]
    BY <1>1, <2>1, <2>2, FoldCaseStart DEF fq
  <2>4. FoldCase(a) = fp /\ Len(FoldCase(a)) = n
    BY <1>4, <2>3, FoldCaseType DEF SameName, fp
  <2> QED BY <1>1, <1>2, <2>2, <2>3, <2>4
<1> QED BY <1>3, <1>4

(* What the loop of plan_payload_layout holds after the destinations s, and  *)
(* when two destinations cannot both be planned.                             *)
PlanOf(s) ==
    [planned |-> s, files |-> {FoldCase(p) : p \in Range(s)},
     directories |-> UNION {Ancestors(p) : p \in Range(s)}, error |-> "None"]

Clashing(p, q) ==
    \/ SameName(p, q) \/ IsAbove(p, q) \/ IsAbove(q, p)
    \/ \E a \in Ancestors(p), d \in Ancestors(q) : SameName(a, d) /\ a # d

LEMMA ClashIsReal ==
    ASSUME NEW s \in Seq(Names), NEW p \in Names
    PROVE  Clashes(PlanOf(s), p) <=> \E q \in Range(s) : Clashing(p, q)
<1> DEFINE plan == PlanOf(s)
<1>1. \A q \in Range(s) : q \in Names
  BY RangeOfSeq
<1>2. /\ plan.files = {FoldCase(q) : q \in Range(s)}
      /\ plan.directories = UNION {Ancestors(q) : q \in Range(s)}
  BY DEF PlanOf
<1> HIDE DEF plan
<1>3. FoldCase(p) \in plan.files <=> \E q \in Range(s) : SameName(p, q)
  BY <1>2 DEF SameName
<1>4. (\E d \in plan.directories : FoldCase(d) = FoldCase(p)) <=>
          \E q \in Range(s) : IsAbove(p, q)
  <2>1. (\E d \in plan.directories : FoldCase(d) = FoldCase(p)) <=>
            \E q \in Range(s) : \E d \in Ancestors(q) : SameName(d, p)
    BY <1>2 DEF SameName
  <2> QED BY <1>1, <2>1, AboveIsAncestor
<1>5. (\E a \in Ancestors(p) : FoldCase(a) \in plan.files) <=>
          \E q \in Range(s) : IsAbove(q, p)
  <2>1. (\E a \in Ancestors(p) : FoldCase(a) \in plan.files) <=>
            \E q \in Range(s) : \E a \in Ancestors(p) : SameName(a, q)
    BY <1>2 DEF SameName
  <2> QED BY <1>1, <2>1, AboveIsAncestor
<1>6. (\E a \in Ancestors(p), d \in plan.directories : FoldCase(a) = FoldCase(d) /\ a # d) <=>
          \E q \in Range(s) : \E a \in Ancestors(p), d \in Ancestors(q) : SameName(a, d) /\ a # d
  BY <1>2 DEF SameName
<1> QED BY <1>3, <1>4, <1>5, <1>6 DEF Clashes, Clashing, plan

(* Two spellings of one ancestor of one path are the same, and no path is    *)
(* above itself.                                                             *)
LEMMA SelfIsFree ==
    ASSUME NEW p \in Paths
    PROVE  ~IsAbove(p, p) /\ \A a, d \in Ancestors(p) : SameName(a, d) => a = d
<1>1. ASSUME NEW a \in Ancestors(p), NEW d \in Ancestors(p), SameName(a, d) PROVE a = d
  <2>1. PICK m \in 1..(Len(p) - 1) : a = SubSeq(p, 1, m)
    BY DEF Ancestors
  <2>2. PICK n \in 1..(Len(p) - 1) : d = SubSeq(p, 1, n)
    BY DEF Ancestors
  <2>3. m \in 0..Len(p) /\ n \in 0..Len(p)
    BY DEF Paths
  <2>4. a \in Paths /\ Len(a) = m /\ d \in Paths /\ Len(d) = n
    BY <2>1, <2>2, <2>3, FoldCaseStart
  <2>5. m = n
    BY <1>1, <2>4, FoldCaseType DEF SameName
  <2> QED BY <2>1, <2>2, <2>5
<1> QED BY <1>1 DEF IsAbove, IsStrictPrefix

LEMMA RangeAppend ==
    ASSUME NEW T, NEW s \in Seq(T), NEW p \in T
    PROVE  Range(Append(s, p)) = Range(s) \cup {p}
<1>1. /\ Append(s, p) \in Seq(T) /\ Len(Append(s, p)) = Len(s) + 1
      /\ \A k \in 1..Len(s) : Append(s, p)[k] = s[k]
      /\ Append(s, p)[Len(s) + 1] = p /\ Len(s) \in Nat
  OBVIOUS
<1>2. DOMAIN s = 1..Len(s) /\ DOMAIN Append(s, p) = 1..(Len(s) + 1)
  BY <1>1
<1>3. 1..(Len(s) + 1) = 1..Len(s) \cup {Len(s) + 1}
  BY <1>1
<1> DEFINE t == Append(s, p)
<1> HIDE DEF t
<1>4. Range(t) \subseteq Range(s) \cup {p}
  BY <1>1, <1>2, <1>3 DEF Range, t
<1>5. Range(s) \subseteq Range(t) /\ p \in Range(t)
  BY <1>1, <1>2, <1>3 DEF Range, t
<1> QED BY <1>4, <1>5 DEF t

(* A destination that clashes with nothing joins the plan. *)
LEMMA PlansNext ==
    ASSUME NEW s \in Seq(Names), NEW p \in Names
    PROVE  IF \E q \in Range(s) : Clashing(p, q)
           THEN PlanDestination(PlanOf(s), p) = [PlanOf(s) EXCEPT !.error = "PathConflict"]
           ELSE PlanDestination(PlanOf(s), p) = PlanOf(Append(s, p))
<1>1. Range(Append(s, p)) = Range(s) \cup {p}
  BY RangeAppend
<1> DEFINE plan == PlanOf(s)
<1>2. plan.error = "None"
  BY DEF PlanOf
<1>3. [plan EXCEPT !.planned = Append(@, p), !.files = @ \cup {FoldCase(p)},
                   !.directories = @ \cup Ancestors(p)] = PlanOf(Append(s, p))
  <2>1. {FoldCase(q) : q \in Range(s) \cup {p}} = {FoldCase(q) : q \in Range(s)} \cup {FoldCase(p)}
    OBVIOUS
  <2>2. UNION {Ancestors(q) : q \in Range(s) \cup {p}} =
            (UNION {Ancestors(q) : q \in Range(s)}) \cup Ancestors(p)
    OBVIOUS
  <2> DEFINE files == {FoldCase(q) : q \in Range(s)}
             directories == UNION {Ancestors(q) : q \in Range(s)}
  <2>3. PlanOf(Append(s, p)) =
            [planned |-> Append(s, p), files |-> files \cup {FoldCase(p)},
             directories |-> directories \cup Ancestors(p), error |-> "None"]
    BY <1>1, <2>1, <2>2, Zenon DEF PlanOf
  <2>4. plan = [planned |-> s, files |-> files, directories |-> directories, error |-> "None"]
    BY DEF PlanOf
  <2> HIDE DEF files, directories, plan
  <2> DEFINE next == [plan EXCEPT !.planned = Append(@, p), !.files = @ \cup {FoldCase(p)},
                                  !.directories = @ \cup Ancestors(p)]
  <2>5. /\ next.planned = Append(s, p) /\ next.files = files \cup {FoldCase(p)}
        /\ next.directories = directories \cup Ancestors(p) /\ next.error = "None"
    BY <2>4
  <2>6. next = [field \in {"planned", "files", "directories", "error"} |-> next[field]]
    BY <2>4
  <2> HIDE DEF next
  <2>7. next = PlanOf(Append(s, p))
    BY <2>3, <2>5, <2>6
  <2> QED BY <2>7 DEF next
<1> QED BY <1>2, <1>3, ClashIsReal DEF PlanDestination

(* Destinations that can all be planned, each once. *)
Apart(s) == \A m, n \in 1..Len(s) : m # n => ~Clashing(s[m], s[n])

LEMMA ApartJoins ==
    ASSUME NEW s \in Seq(Names), Apart(s), NEW p \in Names,
           ~\E q \in Range(s) : Clashing(p, q)
    PROVE  Apart(Append(s, p))
<1> DEFINE t == Append(s, p)
<1>1. /\ Len(t) = Len(s) + 1 /\ \A k \in 1..Len(s) : t[k] = s[k]
      /\ t[Len(s) + 1] = p /\ Len(s) \in Nat
  OBVIOUS
<1>2. \A k \in 1..Len(s) : ~Clashing(p, s[k])
  BY DEF Range
<1>3. \A q : Clashing(q, p) <=> Clashing(p, q)
  BY DEF Clashing, SameName
<1> HIDE DEF t
<1>4. ASSUME NEW m \in 1..Len(t), NEW n \in 1..Len(t), m # n
      PROVE  ~Clashing(t[m], t[n])
  <2>1. (m \in 1..Len(s) /\ t[m] = s[m]) \/ (m = Len(s) + 1 /\ t[m] = p)
    BY <1>1
  <2>2. (n \in 1..Len(s) /\ t[n] = s[n]) \/ (n = Len(s) + 1 /\ t[n] = p)
    BY <1>1
  <2> QED BY <1>2, <1>3, <1>4, <2>1, <2>2 DEF Apart
<1> QED BY <1>4 DEF Apart, t

LEMMA ApartIsFitting ==
    ASSUME NEW s \in Seq(Names), Apart(s)
    PROVE  /\ IsFiniteSet(Range(s)) /\ Cardinality(Range(s)) = Len(s)
           /\ \A p, q \in Range(s) : p # q => ~Clashing(p, q)
<1>1. Len(s) \in Nat /\ DOMAIN s = 1..Len(s) /\ s \in [1..Len(s) -> Range(s)]
  BY DEF Range
<1>2. ASSUME NEW m \in 1..Len(s), NEW n \in 1..Len(s), s[m] = s[n] PROVE m = n
  <2>1. Clashing(s[m], s[n])
    BY <1>2 DEF Clashing, SameName
  <2> QED BY <2>1 DEF Apart
<1>3. s \in Bijection(1..Len(s), Range(s))
  BY <1>1, <1>2 DEF Bijection, Injection, IsInjective, Surjection, Range
<1>4. ExistsBijection(1..Len(s), Range(s))
  BY <1>3 DEF ExistsBijection
<1>5. IsFiniteSet(Range(s)) /\ Cardinality(Range(s)) = Len(s)
  BY <1>1, <1>4, FS_NatBijection, FS_CountingElements
<1>6. \A p, q \in Range(s) : p # q => ~Clashing(p, q)
  BY <1>1 DEF Range, Apart
<1> QED BY <1>5, <1>6

(* Sorting the destinations keeps them apart. *)
LEMMA SortKeepsApart ==
    ASSUME NEW s \in Seq(Names), Apart(s)
    PROVE  /\ SortByKey(s) \in Seq(Names) /\ Apart(SortByKey(s))
           /\ Range(SortByKey(s)) = Range(s) /\ SortByKey(SortByKey(s)) = SortByKey(s)
<1> DEFINE S == Range(s)
           t == SortByKey(s)
<1>1. IsFiniteSet(S) /\ \A p, q \in S : p # q => ~Clashing(p, q)
  BY ApartIsFitting
<1>2. S \subseteq Names /\ S \subseteq Paths
  BY RangeOfSeq DEF Names
<1>3. t = InByteOrder(S)
  BY DEF SortByKey
<1> HIDE DEF S, t
<1>4. t \in Seq(Paths) /\ Len(t) = Cardinality(S) /\ Range(t) = S
  BY <1>1, <1>2, <1>3, OrderIsPermutation
<1>5. t \in Seq(Names)
  <2>1. t \in Seq(Range(t))
    BY <1>4, SeqOfRange
  <2> QED BY <1>2, <1>4, <2>1, SeqMonotonic
<1>6. Apart(t)
  <2> SUFFICES ASSUME NEW m \in 1..Len(t), NEW n \in 1..Len(t), m # n
               PROVE  ~Clashing(t[m], t[n])
    BY DEF Apart
  <2>1. t[m] \in S /\ t[n] \in S /\ DOMAIN t = 1..Len(t) /\ Len(t) \in Nat
    BY <1>4 DEF Range
  <2>2. m < n \/ n < m
    BY <2>1
  <2>3. t[m] # t[n]
    BY <1>1, <1>2, <1>3, <2>1, <2>2, OrderExists DEF Sorts
  <2> QED BY <1>1, <2>1, <2>3
<1>7. SortByKey(t) = t
  BY <1>3, <1>4 DEF SortByKey
<1> QED BY <1>4, <1>5, <1>6, <1>7 DEF S, t

(* Planning destinations that are apart plans all of them. *)
PlanningLoop(s, plan) ==
    plan = [n \in 0..Len(s) |->
              IF n = 0 THEN EmptyLayout ELSE PlanDestination(plan[n - 1], s[n])]

LEMMA StartGrows ==
    ASSUME NEW s \in Seq(Names), NEW n \in 1..Len(s)
    PROVE  /\ SubSeq(s, 1, n - 1) \in Seq(Names) /\ s[n] \in Names
           /\ SubSeq(s, 1, n) = Append(SubSeq(s, 1, n - 1), s[n])
           /\ Apart(s) => ~\E q \in Range(SubSeq(s, 1, n - 1)) : Clashing(s[n], q)
<1> DEFINE t == SubSeq(s, 1, n - 1)
           u == SubSeq(s, 1, n)
<1>1. Len(s) \in Nat /\ n - 1 \in Nat /\ s[n] \in Names
  OBVIOUS
<1>2. t \in Seq(Names) /\ Len(t) = n - 1 /\ \A k \in 1..(n - 1) : t[k] = s[k]
  BY <1>1
<1>3. u \in Seq(Names) /\ Len(u) = n /\ \A k \in 1..n : u[k] = s[k]
  BY <1>1
<1> HIDE DEF t, u
<1>4. u = Append(t, s[n])
  <2> DEFINE v == Append(t, s[n])
  <2>1. v \in Seq(Names) /\ Len(v) = n /\ (\A k \in 1..(n - 1) : v[k] = t[k]) /\ v[n] = s[n]
    BY <1>1, <1>2, AppendProperties
  <2> HIDE DEF v
  <2>2. ASSUME NEW k \in 1..n PROVE v[k] = u[k]
    <3>1. u[k] = s[k]
      BY <1>3
    <3>2. CASE k = n
      BY <2>1, <3>1, <3>2
    <3>3. CASE k # n
      <4>1. k \in 1..(n - 1)
        BY <1>1, <3>3
      <4>2. v[k] = t[k] /\ t[k] = s[k]
        BY <1>2, <2>1, <4>1
      <4> QED BY <3>1, <4>2
    <3> QED BY <3>2, <3>3
  <2> QED BY <1>3, <2>1, <2>2, SeqEqual DEF v
<1>5. ASSUME Apart(s), NEW q \in Range(t) PROVE ~Clashing(s[n], q)
  <2>1. PICK k \in 1..(n - 1) : q = s[k]
    BY <1>2 DEF Range
  <2>2. k \in 1..Len(s) /\ k # n
    BY <1>1
  <2> QED BY <1>5, <2>1, <2>2 DEF Apart
<1> QED BY <1>1, <1>2, <1>4, <1>5 DEF t, u

LEMMA EmptyPlan == PlanOf(<< >>) = EmptyLayout
<1>1. Range(<< >>) = {}
  BY DEF Range
<1> QED BY <1>1 DEF PlanOf, EmptyLayout

LEMMA PlansAll ==
    ASSUME NEW s \in Seq(Names), Apart(s)
    PROVE  PlanPayloadLayout(s) = PlanOf(SortByKey(s))
<1> DEFINE N == Len(s)
           Part(n) == PlanOf(SubSeq(s, 1, n))
           plan == CHOOSE f : PlanningLoop(s, f)
           S == {n \in Nat : n <= N => plan[n] = Part(n)}
<1>1. N \in Nat /\ SubSeq(s, 1, 0) = << >> /\ SubSeq(s, 1, N) = s
  BY SubSeqEmpty, SubSeqFull
<1>2. Part(0) = EmptyLayout
  BY <1>1, EmptyPlan
<1>3. ASSUME NEW n \in 1..N PROVE Part(n) = PlanDestination(Part(n - 1), s[n])
  BY StartGrows, PlansNext
<1>4. PlanningLoop(s, plan)
  <2> DEFINE f == [n \in 0..N |-> Part(n)]
  <2>1. \A n \in 0..N : n = 0 \/ (n \in 1..N /\ n - 1 \in 0..N)
    BY <1>1
  <2> HIDE DEF Part, N
  <2>2. \A n \in 0..N : f[n] = IF n = 0 THEN EmptyLayout ELSE PlanDestination(f[n - 1], s[n])
    BY <1>2, <1>3, <2>1
  <2>3. f = [n \in 0..N |-> f[n]]
    OBVIOUS
  <2> HIDE DEF f
  <2>4. PlanningLoop(s, f)
    BY <2>2, <2>3 DEF PlanningLoop, N
  <2> QED BY <2>4
<1>5. PlanPayloadLayout(s) =
          IF plan[N].error = "None" THEN [plan[N] EXCEPT !.planned = SortByKey(@)] ELSE plan[N]
  BY DEF PlanPayloadLayout, PlanningLoop
<1> HIDE DEF plan, Part
<1>6. \A n \in 0..N : plan[n] = IF n = 0 THEN EmptyLayout ELSE PlanDestination(plan[n - 1], s[n])
  BY <1>4 DEF PlanningLoop
<1> HIDE DEF N
<1>7. 0 \in S
  BY <1>1, <1>2, <1>6
<1>8. ASSUME NEW n \in Nat, n \in S PROVE n + 1 \in S
  <2> SUFFICES ASSUME n + 1 <= N PROVE plan[n + 1] = Part(n + 1)
    OBVIOUS
  <2>1. n + 1 \in 0..N /\ n + 1 \in 1..N /\ n + 1 # 0 /\ (n + 1) - 1 = n /\ plan[n] = Part(n)
    BY <1>1, <1>8
  <2>2. plan[n + 1] = PlanDestination(plan[n], s[n + 1])
    BY <1>6, <2>1
  <2>3. Part(n + 1) = PlanDestination(Part(n), s[n + 1])
    BY <1>3, <2>1
  <2> QED BY <2>1, <2>2, <2>3
<1>9. Nat \subseteq S
  <2> HIDE DEF S
  <2> QED BY <1>7, <1>8, Induction
<1>10. plan[N] = PlanOf(s)
  <2>1. plan[N] = Part(N)
    BY <1>1, <1>9
  <2> QED BY <1>1, <2>1 DEF Part
<1>11. PlanPayloadLayout(s) = [PlanOf(s) EXCEPT !.planned = SortByKey(@)]
  <2>1. PlanOf(s).error = "None"
    BY DEF PlanOf
  <2> QED BY <1>5, <1>10, <2>1
<1>12. Range(SortByKey(s)) = Range(s)
  BY SortKeepsApart
<1> QED BY <1>11, <1>12 DEF PlanOf

-----------------------------------------------------------------------------
(* Where the components of a path stand in its spelling. *)
Grown(x, y, z) ==
    /\ Len(x) \in Nat /\ Len(y) \in Nat /\ Len(z) = Len(x) + 1 + Len(y)
    /\ \A k \in 1..Len(x) : z[k] = x[k]
    /\ z[Len(x) + 1] = Slash
    /\ \A j \in 1..Len(y) : z[Len(x) + 1 + j] = y[j]

LEMMA SpellingGrows ==
    ASSUME NEW path \in Paths, NEW f, Spells(path, f), NEW n \in 1..Len(path)
    PROVE  Grown(f[n - 1], path[n], f[n])
<1> DEFINE x == f[n - 1]
           y == path[n]
<1>1. x \in Seq(Nat) /\ f[n] = x \o <<Slash>> \o y
  <2>1. n - 1 \in 0..Len(path)
    BY DEF Paths
  <2> QED BY <2>1 DEF Spells
<1>2. y \in Seq(Nat) /\ Slash \in Nat
  BY SeqMonotonic DEF Paths, Slash
<1> HIDE DEF x, y
<1> DEFINE z == x \o <<Slash>>
<1>3. /\ z \in Seq(Nat) /\ Len(z) = Len(x) + 1 /\ z[Len(x) + 1] = Slash
      /\ \A k \in 1..Len(x) : z[k] = x[k]
  BY <1>1, <1>2
<1>4. Len(x) \in Nat /\ Len(y) \in Nat /\ Len(z) \in Nat
  BY <1>1, <1>2, <1>3
<1>5. f[n] = z \o y
  BY <1>1
<1> HIDE DEF z
<1>6. /\ Len(f[n]) = Len(z) + Len(y)
      /\ \A i \in 1..(Len(z) + Len(y)) : f[n][i] = IF i <= Len(z) THEN z[i] ELSE y[i - Len(z)]
  <2>1. ASSUME NEW u \in Seq(Nat), NEW v \in Seq(Nat)
        PROVE  /\ Len(u \o v) = Len(u) + Len(v)
               /\ \A i \in 1..(Len(u) + Len(v)) :
                      (u \o v)[i] = IF i <= Len(u) THEN u[i] ELSE v[i - Len(u)]
    BY ConcatProperties
  <2> QED BY <1>2, <1>3, <1>5, <2>1, Zenon
<1>7. ASSUME NEW j \in 1..Len(y) PROVE f[n][Len(x) + 1 + j] = y[j]
  <2>1. /\ Len(z) + j \in 1..(Len(z) + Len(y)) /\ ~(Len(z) + j <= Len(z))
        /\ (Len(z) + j) - Len(z) = j /\ Len(x) + 1 + j = Len(z) + j
    BY <1>3, <1>4
  <2> QED BY <1>6, <2>1
<1>8. ASSUME NEW k \in 1..(Len(x) + 1) PROVE f[n][k] = z[k]
  <2>1. k \in 1..(Len(z) + Len(y)) /\ k <= Len(z)
    BY <1>3, <1>4
  <2> QED BY <1>6, <2>1
<1>9. (\A k \in 1..Len(x) : k \in 1..(Len(x) + 1)) /\ Len(x) + 1 \in 1..(Len(x) + 1)
  BY <1>4
<1>10. Len(f[n]) = Len(x) + 1 + Len(y)
  BY <1>3, <1>4, <1>6
<1> QED BY <1>3, <1>4, <1>7, <1>8, <1>9, <1>10 DEF Grown, x, y

LEMMA SpellingStarts ==
    ASSUME NEW path \in Paths, NEW f, Spells(path, f), NEW n \in 0..Len(path)
    PROVE  /\ Len(f[n]) \in Nat /\ Len(f[n]) <= Len(f[Len(path)])
           /\ \A k \in 1..Len(f[n]) : f[Len(path)][k] = f[n][k]
<1> DEFINE N == Len(path)
           Within(m) == Len(f[n]) <= Len(f[m]) /\ \A k \in 1..Len(f[n]) : f[m][k] = f[n][k]
           S == {d \in Nat : n + d <= N => Within(n + d)}
<1>1. N \in Nat /\ n \in Nat
  BY DEF Paths
<1>2. \A m \in 0..N : Len(f[m]) \in Nat
  BY DEF Spells
<1>3. 0 \in S
  BY <1>1, <1>2
<1>4. ASSUME NEW d \in Nat, d \in S PROVE d + 1 \in S
  <2> SUFFICES ASSUME n + (d + 1) <= N PROVE Within(n + (d + 1))
    OBVIOUS
  <2> DEFINE m == n + (d + 1)
  <2>1. m \in 1..N /\ m - 1 = n + d /\ n + d <= N /\ m - 1 \in 0..N
    BY <1>1
  <2>2. Within(m - 1)
    BY <1>4, <2>1
  <2> HIDE DEF m, S
  <2>3. Grown(f[m - 1], path[m], f[m])
    BY <2>1, SpellingGrows
  <2>4. /\ Len(f[m - 1]) \in Nat /\ Len(f[m - 1]) <= Len(f[m])
        /\ \A k \in 1..Len(f[m - 1]) : f[m][k] = f[m - 1][k]
    <3>1. ASSUME NEW x, NEW y, NEW z, Grown(x, y, z)
          PROVE  Len(x) \in Nat /\ Len(x) <= Len(z) /\ \A k \in 1..Len(x) : z[k] = x[k]
      BY <3>1 DEF Grown
    <3> QED BY <2>3, <3>1, Zenon
  <2>5. Len(f[n]) \in Nat /\ Len(f[m]) \in Nat
    BY <1>2, <2>1
  <2>6. Len(f[n]) <= Len(f[m])
    BY <2>2, <2>4, <2>5
  <2>7. \A k \in 1..Len(f[n]) : k \in 1..Len(f[m - 1])
    BY <2>2, <2>4, <2>5
  <2>8. Within(m)
    BY <2>2, <2>4, <2>6, <2>7
  <2> QED BY <2>8 DEF m
<1>5. Nat \subseteq S
  <2> HIDE DEF S
  <2> QED BY <1>3, <1>4, Induction
<1>6. N - n \in S /\ n + (N - n) = N
  BY <1>1, <1>5
<1> QED BY <1>1, <1>2, <1>6

\* The component y stands in the text after o bytes and a slash.
Stands(y, o, text) ==
    /\ o \in Nat /\ Len(y) \in Nat /\ Len(text) \in Nat /\ o + 1 + Len(y) <= Len(text)
    /\ text[o + 1] = Slash
    /\ \A j \in 1..Len(y) : text[o + 1 + j] = y[j] /\ y[j] # Slash

LEMMA SpellingAt ==
    ASSUME NEW path \in Paths, NEW f, Spells(path, f), NEW n \in 1..Len(path)
    PROVE  /\ Len(f[n]) = Len(f[n - 1]) + 1 + Len(path[n])
           /\ Stands(path[n], Len(f[n - 1]), f[Len(path)])
<1> DEFINE o == Len(f[n - 1])
           a == Len(path[n])
           text == f[Len(path)]
<1>1. n \in 0..Len(path) /\ Len(path) \in 0..Len(path)
  BY DEF Paths
<1>2. /\ o \in Nat /\ a \in Nat /\ Len(f[n]) = o + 1 + a /\ f[n][o + 1] = Slash
      /\ \A j \in 1..a : f[n][o + 1 + j] = path[n][j]
  <2>1. Grown(f[n - 1], path[n], f[n])
    BY SpellingGrows
  <2> QED BY <2>1 DEF Grown
<1>3. Len(f[n]) <= Len(text) /\ \A k \in 1..Len(f[n]) : text[k] = f[n][k]
  BY <1>1, SpellingStarts
<1>4. Len(text) \in Nat
  BY <1>1 DEF Spells
<1>5. \A j \in 1..a : path[n][j] # Slash
  BY DEF Paths
<1> HIDE DEF o, a, text
<1>6. (\A j \in 1..a : o + 1 + j \in 1..(o + 1 + a)) /\ o + 1 \in 1..(o + 1 + a)
  BY <1>2
<1>7. Len(f[n]) = o + 1 + a /\ Stands(path[n], o, text)
  BY <1>2, <1>3, <1>4, <1>5, <1>6 DEF Stands, a
<1> QED BY <1>7 DEF o, a, text

(* A spelling that starts with another one and a slash names a path below    *)
(* the other: the components can be told apart because none has a slash.     *)
LEMMA ExtendsMeansAbove ==
    ASSUME NEW p \in Paths, NEW q \in Paths, ExtendsDirectory(q, p)
    PROVE  IsStrictPrefix(p, q)
<1> DEFINE M == Len(p)
           N == Len(q)
           A == Bytes(p)
           B == Bytes(q)
<1>1. PICK f : A = f[M] /\ Spells(p, f)
  BY BytesSpell
<1>2. PICK g : B = g[N] /\ Spells(q, g)
  BY BytesSpell
<1>3. M \in Nat /\ N \in Nat /\ A \in Seq(Nat) /\ B \in Seq(Nat) /\ Slash \in Nat
  BY BytesType DEF Paths, Slash
<1>4. Len(A) \in Nat /\ Len(B) \in Nat
  BY <1>3
<1> HIDE DEF A, B
<1>5. Len(A) < Len(B) /\ B[Len(A) + 1] = Slash /\ \A k \in 1..Len(A) : A[k] = B[k]
  <2> DEFINE C == A \o <<Slash>>
  <2>1. /\ C \in Seq(Nat) /\ Len(C) = Len(A) + 1 /\ C[Len(A) + 1] = Slash
        /\ \A k \in 1..Len(A) : C[k] = A[k]
    BY <1>3
  <2>2. IsPrefix(C, B)
    BY DEF ExtendsDirectory, A, B
  <2> HIDE DEF C
  <2>3. Len(C) <= Len(B) /\ \A k \in 1..Len(C) : C[k] = B[k]
    BY <1>3, <2>1, <2>2, PrefixMeans
  <2>4. (\A k \in 1..Len(A) : k \in 1..(Len(A) + 1)) /\ Len(A) + 1 \in 1..(Len(A) + 1)
    BY <1>4
  <2> QED BY <1>4, <2>1, <2>3, <2>4
<1> DEFINE Same(k) == k < N /\ Len(f[k]) = Len(g[k]) /\ \A i \in 1..k : p[i] = q[i]
           S == {k \in Nat : k <= M => Same(k)}
<1> HIDE DEF M, N
<1>6. 0 \in S
  <2>1. f[0] = << >> /\ g[0] = << >> /\ Len(<< >>) = 0
    BY <1>1, <1>2 DEF Spells
  <2>2. N # 0
    BY <1>2, <1>4, <1>5, <2>1
  <2> QED BY <1>3, <2>1, <2>2
<1>7. ASSUME NEW k \in Nat, k \in S PROVE k + 1 \in S
  <2> SUFFICES ASSUME k + 1 <= M PROVE Same(k + 1)
    OBVIOUS
  <2> DEFINE o == Len(f[k])
             x == p[k + 1]
             y == q[k + 1]
             a == Len(x)
             b == Len(y)
  <2>1. Same(k) /\ k + 1 \in 1..M /\ k + 1 \in 1..N /\ (k + 1) - 1 = k
    BY <1>3, <1>7
  <2>2. /\ o \in Nat /\ a \in Nat /\ Len(f[k + 1]) = o + 1 + a /\ o + 1 + a <= Len(A)
        /\ \A j \in 1..a : A[o + 1 + j] = x[j] /\ x[j] # Slash
    <3>1. Len(f[k + 1]) = Len(f[k]) + 1 + Len(p[k + 1]) /\ Stands(p[k + 1], Len(f[k]), A)
      BY <1>1, <2>1, SpellingAt DEF M
    <3> QED BY <3>1 DEF Stands
  <2>3. /\ b \in Nat /\ Len(g[k + 1]) = o + 1 + b /\ o + 1 + b <= Len(B)
        /\ \A j \in 1..b : B[o + 1 + j] = y[j] /\ y[j] # Slash
    <3>1. Len(g[k + 1]) = Len(g[k]) + 1 + Len(q[k + 1]) /\ Stands(q[k + 1], Len(g[k]), B)
      BY <1>2, <2>1, SpellingAt DEF N
    <3> QED BY <2>1, <3>1 DEF Stands
  <2>4. x \in Seq(Nat \ {Slash}) /\ y \in Seq(Nat \ {Slash})
    BY <2>1 DEF Paths, M, N
  <2> HIDE DEF o, a, b
  <2>5. B[o + 1 + (a + 1)] = Slash
    <3>1. CASE k + 1 = M
      <4>1. Len(A) = o + 1 + a
        BY <1>1, <2>2, <3>1
      <4> QED BY <1>5, <2>2, <4>1
    <3>2. CASE k + 1 # M
      <4>1. (k + 1) + 1 \in 1..M /\ ((k + 1) + 1) - 1 = k + 1
        BY <1>3, <2>1, <3>2
      <4> DEFINE z == p[(k + 1) + 1]
      <4> HIDE DEF z
      <4>2. /\ A[(o + 1 + a) + 1] = Slash /\ Len(z) \in Nat
            /\ (o + 1 + a) + 1 + Len(z) <= Len(A)
        <5>1. Stands(p[(k + 1) + 1], Len(f[k + 1]), A)
          BY <1>1, <4>1, SpellingAt DEF M
        <5> QED BY <2>2, <5>1 DEF Stands, z
      <4>3. o + 1 + (a + 1) \in 1..Len(A) /\ o + 1 + (a + 1) = (o + 1 + a) + 1
        BY <1>4, <2>2, <4>2
      <4> QED BY <1>5, <4>2, <4>3
    <3> QED BY <3>1, <3>2
  <2>6. ~(a < b)
    <3>1. a < b => a + 1 \in 1..b
      BY <2>2, <2>3
    <3> QED BY <2>3, <2>5, <3>1
  <2>7. ~(b < a) /\ k + 1 < N
    <3>1. CASE k + 1 = N
      <4>1. Len(B) = o + 1 + b
        BY <1>2, <2>3, <3>1
      <4> QED BY <1>4, <1>5, <2>2, <2>3, <2>6, <4>1
    <3>2. CASE k + 1 # N
      <4>1. (k + 1) + 1 \in 1..N /\ ((k + 1) + 1) - 1 = k + 1 /\ k + 1 < N
        BY <1>3, <2>1, <3>2
      <4>2. B[(o + 1 + b) + 1] = Slash
        <5>1. Stands(q[(k + 1) + 1], Len(g[k + 1]), B)
          BY <1>2, <4>1, SpellingAt DEF N
        <5> QED BY <2>3, <5>1 DEF Stands
      <4>3. b < a => /\ b + 1 \in 1..a /\ o + 1 + (b + 1) \in 1..Len(A)
                     /\ o + 1 + (b + 1) = (o + 1 + b) + 1
        BY <1>4, <2>2, <2>3
      <4>4. ~(b < a)
        BY <1>5, <2>2, <4>2, <4>3
      <4> QED BY <4>1, <4>4
    <3> QED BY <3>1, <3>2
  <2>8. a = b
    BY <2>2, <2>3, <2>6, <2>7
  <2>9. x = y
    <3>1. ASSUME NEW j \in 1..a PROVE x[j] = y[j]
      <4>1. o + 1 + j \in 1..Len(A)
        BY <1>4, <2>2
      <4> QED BY <1>5, <2>2, <2>3, <2>8, <4>1
    <3> QED BY <2>4, <2>8, <3>1, SeqEqual DEF a, b
  <2>10. \A i \in 1..(k + 1) : i \in 1..k \/ i = k + 1
    OBVIOUS
  <2>11. Len(f[k + 1]) = Len(g[k + 1])
    BY <2>2, <2>3, <2>8
  <2> QED BY <2>1, <2>7, <2>9, <2>10, <2>11
<1>8. Nat \subseteq S
  <2> HIDE DEF S
  <2> QED BY <1>6, <1>7, Induction
<1>9. M < N /\ \A i \in 1..M : p[i] = q[i]
  BY <1>3, <1>8
<1> QED BY <1>9, PrefixMeans DEF Paths, M, N

-----------------------------------------------------------------------------
(* The inductive invariant: the catalog loop has planned what was reported,  *)
(* the layout loop holds a plan of destinations that are apart, and what     *)
(* either of them refused was a real clash.                                  *)
CatalogInv ==
    /\ reported \in Seq(ArchivePaths)
    /\ catalog \in [planned : Seq(Names), folded : SUBSET Paths,
                    error : {"None", "InvalidPath", "PathConflict"}]
    /\ catalog.folded = {FoldCase(p) : p \in Range(catalog.planned)}
    /\ catalog.error = "None" =>
           /\ Len(catalog.planned) = Len(reported)
           /\ \A k \in 1..Len(reported) : catalog.planned[k] = NormalizePath(reported[k])
    /\ stage # "Catalog" => catalog.error = "None"

LayoutInv ==
    /\ layout.planned \in Seq(Names) /\ Apart(layout.planned)
    /\ layout.error \in {"None", "PathConflict"}
    /\ layout = [PlanOf(layout.planned) EXCEPT !.error = layout.error]
    /\ cursor \in Nat /\ (stage = "Layout" => cursor # 0)
    /\ stage # "Layout" => layout.error = "None"
    /\ stage = "Planned" => SortByKey(layout.planned) = layout.planned

PlannerInv == CatalogInv /\ LayoutInv /\ RefusalsAreReal

LEMMA PlannerInitInv == Init => PlannerInv
<1> SUFFICES ASSUME Init PROVE PlannerInv
  OBVIOUS
<1>1. Range(<< >>) = {}
  BY DEF Range
<1>2. CatalogInv
  BY <1>1 DEF Init, CatalogInv
<1>3. layout = PlanOf(<< >>) /\ layout.planned = << >> /\ layout.error = "None"
  BY EmptyPlan DEF Init, EmptyLayout
<1>4. layout = [PlanOf(<< >>) EXCEPT !.error = "None"]
  BY <1>3 DEF PlanOf
<1>5. << >> \in Seq(Names) /\ Apart(<< >>)
  BY DEF Apart
<1>6. layout = [PlanOf(layout.planned) EXCEPT !.error = layout.error]
  BY <1>3, <1>4
<1>7. LayoutInv
  BY <1>3, <1>5, <1>6 DEF Init, LayoutInv
<1> QED BY <1>2, <1>3, <1>7 DEF PlannerInv, RefusalsAreReal, Init

LEMMA PlanEntryInv ==
    ASSUME PlannerInv, NEW path \in ArchivePaths, PlanEntry(path)
    PROVE  PlannerInv'
<1> DEFINE normalized == NormalizePath(path)
           folded == FoldCase(normalized)
           N == Len(reported)
<1>1. path \in Paths /\ normalized \in Paths /\ folded \in Paths
  <2>1. path \in Paths
    BY ArchivePathsAssumption DEF Paths
  <2> QED BY <2>1, NormalizePathType, FoldCaseType
<1>2. /\ stage = "Catalog" /\ catalog.error = "None" /\ layout.error = "None"
      /\ reported' = Append(reported, path) /\ UNCHANGED <<stage, layout, cursor>>
      /\ catalog' = IF ~Normalizes(path) \/ normalized = << >>
                    THEN [catalog EXCEPT !.error = "InvalidPath"]
                    ELSE IF folded \in catalog.folded
                    THEN [catalog EXCEPT !.error = "PathConflict"]
                    ELSE [catalog EXCEPT !.planned = Append(@, normalized),
                                         !.folded = @ \cup {folded}]
  BY DEF PlanEntry, PlannerInv, LayoutInv
<1> HIDE DEF normalized, folded
<1>3. /\ reported \in Seq(ArchivePaths) /\ N \in Nat
      /\ reported' \in Seq(ArchivePaths) /\ Len(reported') = N + 1
      /\ (\A k \in 1..N : reported'[k] = reported[k]) /\ reported'[N + 1] = path
  BY <1>2 DEF PlannerInv, CatalogInv
<1>4. /\ Len(catalog.planned) = N /\ catalog.planned \in Seq(Names)
      /\ \A k \in 1..N : catalog.planned[k] = NormalizePath(reported[k])
      /\ catalog.folded = {FoldCase(p) : p \in Range(catalog.planned)}
  BY <1>2 DEF PlannerInv, CatalogInv
<1>5. LayoutInv'
  BY <1>2 DEF PlannerInv, LayoutInv
<1>6. CASE ~Normalizes(path) \/ normalized = << >>
  <2>1. /\ catalog'.error = "InvalidPath" /\ catalog'.planned = catalog.planned
        /\ catalog'.folded = catalog.folded
        /\ catalog' \in [planned : Seq(Names), folded : SUBSET Paths,
                         error : {"None", "InvalidPath", "PathConflict"}]
    BY <1>2, <1>6 DEF PlannerInv, CatalogInv
  <2>2. CatalogInv'
    BY <1>2, <1>3, <1>4, <2>1 DEF CatalogInv
  <2> QED BY <1>2, <1>5, <2>1, <2>2 DEF PlannerInv, RefusalsAreReal
<1>7. CASE Normalizes(path) /\ normalized # << >> /\ folded \in catalog.folded
  <2>1. /\ catalog'.error = "PathConflict" /\ catalog'.planned = catalog.planned
        /\ catalog'.folded = catalog.folded
        /\ catalog' \in [planned : Seq(Names), folded : SUBSET Paths,
                         error : {"None", "InvalidPath", "PathConflict"}]
    BY <1>2, <1>7 DEF PlannerInv, CatalogInv
  <2>2. CatalogInv'
    BY <1>2, <1>3, <1>4, <2>1 DEF CatalogInv
  <2>3. PICK k \in 1..N : folded = FoldCase(catalog.planned[k])
    BY <1>4, <1>7 DEF Range
  <2>4. SameName(NormalizePath(reported'[k]), NormalizePath(reported'[N + 1]))
    BY <1>3, <1>4, <2>3 DEF SameName, folded, normalized
  <2>5. k # N + 1 /\ k \in DOMAIN reported' /\ N + 1 \in DOMAIN reported'
    BY <1>3
  <2>6. RefusalsAreReal'
    BY <1>2, <2>4, <2>5 DEF RefusalsAreReal
  <2> QED BY <1>5, <2>2, <2>6 DEF PlannerInv
<1>8. CASE Normalizes(path) /\ normalized # << >> /\ folded \notin catalog.folded
  <2>1. normalized \in Names
    BY <1>1, <1>8 DEF Names
  <2>2. /\ catalog'.error = "None" /\ catalog'.planned = Append(catalog.planned, normalized)
        /\ catalog'.folded = catalog.folded \cup {folded}
        /\ catalog' \in [planned : Seq(Names), folded : SUBSET Paths,
                         error : {"None", "InvalidPath", "PathConflict"}]
    <3>1. /\ catalog \in [planned : Seq(Names), folded : SUBSET Paths,
                          error : {"None", "InvalidPath", "PathConflict"}]
          /\ Append(catalog.planned, normalized) \in Seq(Names)
          /\ catalog.folded \cup {folded} \in SUBSET Paths
      BY <1>1, <1>4, <2>1 DEF PlannerInv, CatalogInv
    <3>2. catalog' = [catalog EXCEPT !.planned = Append(catalog.planned, normalized),
                                     !.folded = catalog.folded \cup {folded}]
      BY <1>2, <1>8
    <3> QED BY <1>2, <3>1, <3>2
  <2>3. Range(catalog'.planned) = Range(catalog.planned) \cup {normalized}
    BY <1>4, <2>1, <2>2, RangeAppend
  <2>4. catalog'.folded = {FoldCase(p) : p \in Range(catalog'.planned)}
    BY <1>4, <2>2, <2>3 DEF folded
  <2>5. Len(catalog'.planned) = Len(reported')
    BY <1>3, <1>4, <2>1, <2>2
  <2>6. \A k \in 1..Len(reported') : catalog'.planned[k] = NormalizePath(reported'[k])
    <3>1. /\ \A k \in 1..N : catalog'.planned[k] = catalog.planned[k]
          /\ catalog'.planned[N + 1] = normalized
      BY <1>4, <2>1, <2>2
    <3>2. \A k \in 1..(N + 1) : k \in 1..N \/ k = N + 1
      BY <1>3
    <3> QED BY <1>3, <1>4, <3>1, <3>2 DEF normalized
  <2>7. CatalogInv'
    BY <1>2, <1>3, <2>2, <2>4, <2>5, <2>6 DEF CatalogInv
  <2> QED BY <1>2, <1>5, <2>2, <2>7 DEF PlannerInv, RefusalsAreReal
<1> QED BY <1>6, <1>7, <1>8

LEMMA ScanNeighboursInv ==
    ASSUME PlannerInv, ScanNeighbours
    PROVE  PlannerInv'
<1> DEFINE S == catalog.folded
           N == Len(catalog.planned)
           sorted == InByteOrder(S)
           alias == \E n \in 2..Len(sorted) : ExtendsDirectory(sorted[n], sorted[n - 1])
<1>1. /\ stage = "Catalog" /\ catalog.error = "None" /\ layout.error = "None"
      /\ catalog' = IF alias THEN [catalog EXCEPT !.error = "PathConflict"] ELSE catalog
      /\ stage' = IF alias THEN "Catalog" ELSE "Layout"
      /\ cursor' = IF alias THEN 0 ELSE 1
      /\ UNCHANGED <<reported, layout>>
  BY DEF ScanNeighbours, PlannerInv, LayoutInv
<1>2. /\ catalog.planned \in Seq(Names) /\ N \in Nat /\ N = Len(reported)
      /\ \A k \in 1..N : catalog.planned[k] = NormalizePath(reported[k])
      /\ S = {FoldCase(p) : p \in Range(catalog.planned)} /\ S \subseteq Paths
      /\ reported \in Seq(ArchivePaths)
  BY <1>1 DEF PlannerInv, CatalogInv
<1> HIDE DEF alias
<1>3. LayoutInv'
  BY <1>1 DEF PlannerInv, LayoutInv
<1>4. CASE ~alias
  <2>1. CatalogInv'
    BY <1>1, <1>4 DEF PlannerInv, CatalogInv
  <2> QED BY <1>1, <1>3, <1>4, <2>1 DEF PlannerInv, RefusalsAreReal
<1>5. CASE alias
  <2>1. /\ catalog'.error = "PathConflict" /\ catalog'.planned = catalog.planned
        /\ catalog'.folded = catalog.folded
        /\ catalog' \in [planned : Seq(Names), folded : SUBSET Paths,
                         error : {"None", "InvalidPath", "PathConflict"}]
    BY <1>1, <1>5 DEF PlannerInv, CatalogInv
  <2>2. CatalogInv'
    BY <1>1, <1>2, <1>5, <2>1 DEF CatalogInv
  <2>3. \A x \in S : \E k \in 1..N : x = FoldCase(catalog.planned[k])
    BY <1>2 DEF Range
  <2>4. IsFiniteSet(S)
    <3> DEFINE h == [k \in 1..N |-> FoldCase(catalog.planned[k])]
    <3>1. h \in [1..N -> S]
      BY <1>2 DEF Range
    <3>2. h \in Surjection(1..N, S)
      BY <2>3, <3>1 DEF Surjection
    <3> QED BY <1>2, <3>2, FS_NatSurjection DEF ExistsSurjection
  <2>5. sorted \in Seq(Paths) /\ Range(sorted) = S
    BY <1>2, <2>4, OrderIsPermutation
  <2> HIDE DEF sorted, S, N
  <2>6. PICK n \in 2..Len(sorted) : ExtendsDirectory(sorted[n], sorted[n - 1])
    BY <1>5 DEF alias
  <2>7. sorted[n] \in S /\ sorted[n - 1] \in S
    <3>1. n \in DOMAIN sorted /\ n - 1 \in DOMAIN sorted
      BY <2>5
    <3> QED BY <2>5, <3>1 DEF Range
  <2>8. PICK i \in 1..N : sorted[n - 1] = FoldCase(catalog.planned[i])
    BY <2>3, <2>7
  <2>9. PICK j \in 1..N : sorted[n] = FoldCase(catalog.planned[j])
    BY <2>3, <2>7
  <2>10. IsStrictPrefix(sorted[n - 1], sorted[n])
    BY <1>2, <2>6, <2>7, ExtendsMeansAbove
  <2>11. i # j /\ i \in DOMAIN reported' /\ j \in DOMAIN reported'
    BY <1>1, <1>2, <2>8, <2>9, <2>10 DEF IsStrictPrefix
  <2>12. IsAbove(NormalizePath(reported'[i]), NormalizePath(reported'[j]))
    BY <1>1, <1>2, <2>8, <2>9, <2>10 DEF IsAbove
  <2>13. RefusalsAreReal'
    BY <1>1, <2>11, <2>12 DEF RefusalsAreReal
  <2> QED BY <1>3, <2>2, <2>13 DEF PlannerInv
<1> QED BY <1>4, <1>5

(* While no conflict was met, the layout is the plan of what it holds. *)
LEMMA LayoutIsPlan ==
    ASSUME LayoutInv, layout.error = "None"
    PROVE  layout = PlanOf(layout.planned)
<1>1. \A s : [PlanOf(s) EXCEPT !.error = "None"] = PlanOf(s)
  BY DEF PlanOf
<1> QED BY <1>1 DEF LayoutInv

LEMMA PlanNextInv ==
    ASSUME PlannerInv, PlanNext
    PROVE  PlannerInv'
<1> DEFINE s == layout.planned
           p == catalog.planned[cursor]
<1>1. /\ stage = "Layout" /\ layout.error = "None" /\ cursor <= Len(catalog.planned)
      /\ layout' = PlanDestination(layout, p) /\ cursor' = cursor + 1
      /\ UNCHANGED <<stage, reported, catalog>>
  BY DEF PlanNext, AtEntry
<1>2. /\ s \in Seq(Names) /\ Apart(s) /\ cursor \in Nat /\ cursor # 0
      /\ catalog.planned \in Seq(Names) /\ catalog.error = "None"
  BY <1>1 DEF PlannerInv, LayoutInv, CatalogInv
<1>3. p \in Names
  <2>1. cursor \in 1..Len(catalog.planned)
    BY <1>1, <1>2
  <2> QED BY <1>2, <2>1
<1>4. layout = PlanOf(s)
  BY <1>1, LayoutIsPlan DEF PlannerInv
<1>5. CatalogInv'
  BY <1>1 DEF PlannerInv, CatalogInv
<1>6. cursor' \in Nat /\ cursor' # 0 /\ cursor' - 1 = cursor
  BY <1>1, <1>2
<1> HIDE DEF s, p
<1>7. CASE \E q \in Range(s) : Clashing(p, q)
  <2>1. layout' = [PlanOf(s) EXCEPT !.error = "PathConflict"]
    BY <1>1, <1>2, <1>3, <1>4, <1>7, PlansNext
  <2>2. layout'.planned = s /\ layout'.error = "PathConflict"
    BY <2>1 DEF PlanOf
  <2>3. LayoutInv'
    BY <1>1, <1>2, <1>6, <2>1, <2>2 DEF LayoutInv
  <2>4. catalog'.planned[cursor' - 1] = p
    BY <1>1, <1>6 DEF p
  <2>5. RefusalsAreReal'
    BY <1>1, <1>2, <1>7, <2>2, <2>4 DEF RefusalsAreReal, Clashing
  <2> QED BY <1>5, <2>3, <2>5 DEF PlannerInv
<1>8. CASE ~\E q \in Range(s) : Clashing(p, q)
  <2>1. layout' = PlanOf(Append(s, p))
    BY <1>1, <1>2, <1>3, <1>4, <1>8, PlansNext
  <2>2. /\ layout'.planned = Append(s, p) /\ layout'.error = "None"
        /\ layout' = [PlanOf(Append(s, p)) EXCEPT !.error = "None"]
    BY <2>1 DEF PlanOf
  <2>3. Append(s, p) \in Seq(Names) /\ Apart(Append(s, p))
    BY <1>2, <1>3, <1>8, ApartJoins
  <2>4. LayoutInv'
    BY <1>1, <1>6, <2>2, <2>3 DEF LayoutInv
  <2> QED BY <1>1, <1>2, <1>5, <2>2, <2>4 DEF PlannerInv, RefusalsAreReal
<1> QED BY <1>7, <1>8

LEMMA SealLayoutInv ==
    ASSUME PlannerInv, SealLayout
    PROVE  PlannerInv'
<1> DEFINE s == layout.planned
           t == SortByKey(s)
<1>1. /\ stage = "Layout" /\ layout.error = "None" /\ stage' = "Planned"
      /\ layout' = [layout EXCEPT !.planned = SortByKey(s)]
      /\ UNCHANGED <<reported, catalog, cursor>>
  BY DEF SealLayout
<1>2. s \in Seq(Names) /\ Apart(s) /\ layout = PlanOf(s) /\ catalog.error = "None"
  BY <1>1, LayoutIsPlan DEF PlannerInv, LayoutInv, CatalogInv
<1>3. t \in Seq(Names) /\ Apart(t) /\ Range(t) = Range(s) /\ SortByKey(t) = t
  BY <1>2, SortKeepsApart
<1> HIDE DEF s, t
<1>4. layout' = PlanOf(t)
  BY <1>1, <1>2, <1>3 DEF PlanOf, t
<1>5. /\ layout'.planned = t /\ layout'.error = "None"
      /\ layout' = [PlanOf(t) EXCEPT !.error = "None"]
  BY <1>4 DEF PlanOf
<1>6. LayoutInv'
  BY <1>1, <1>3, <1>5 DEF PlannerInv, LayoutInv
<1>7. CatalogInv'
  BY <1>1, <1>2 DEF PlannerInv, CatalogInv
<1> QED BY <1>1, <1>2, <1>5, <1>6, <1>7 DEF PlannerInv, RefusalsAreReal

LEMMA PlannerStepInv == PlannerInv /\ [Next]_vars => PlannerInv'
<1> SUFFICES ASSUME PlannerInv, [Next]_vars PROVE PlannerInv'
  OBVIOUS
<1>1. CASE \E path \in ArchivePaths : PlanEntry(path)
  BY <1>1, PlanEntryInv
<1>2. CASE ScanNeighbours
  BY <1>2, ScanNeighboursInv
<1>3. CASE PlanNext
  BY <1>3, PlanNextInv
<1>4. CASE SkipNext
  <2>1. /\ stage = "Layout" /\ layout.error = "None" /\ cursor' = cursor + 1
        /\ UNCHANGED <<stage, reported, catalog, layout>>
    BY <1>4 DEF SkipNext, AtEntry
  <2>2. catalog.error = "None" /\ cursor \in Nat
    BY <2>1 DEF PlannerInv, CatalogInv, LayoutInv
  <2>3. cursor' \in Nat /\ cursor' # 0
    BY <2>1, <2>2
  <2>4. LayoutInv' /\ CatalogInv'
    BY <2>1, <2>3 DEF PlannerInv, LayoutInv, CatalogInv
  <2> QED BY <2>1, <2>2, <2>4 DEF PlannerInv, RefusalsAreReal
<1>5. CASE SealLayout
  BY <1>5, SealLayoutInv
<1>6. CASE UNCHANGED vars
  BY <1>6 DEF vars, PlannerInv, CatalogInv, LayoutInv, RefusalsAreReal
<1> QED BY <1>1, <1>2, <1>3, <1>4, <1>5, <1>6 DEF Next

LEMMA PlannerIsInductive == Spec => []PlannerInv
BY PlannerInitInv, PlannerStepInv, PTL DEF Spec

(* Whatever spellings a worker reports, the layout that plan_payload_layout  *)
(* seals can be written to a disk that ignores letter case: the files have   *)
(* different names, none is also a directory and a directory has one         *)
(* spelling.                                                                 *)
THEOREM LayoutsAreExtractable == Spec => []LayoutIsExtractable
<1>1. PlannerInv => LayoutIsExtractable
  <2> SUFFICES ASSUME PlannerInv, stage = "Planned" PROVE LayoutIsExtractable
    BY DEF LayoutIsExtractable
  <2> DEFINE s == layout.planned
  <2>1. s \in Seq(Names) /\ Apart(s)
    BY DEF PlannerInv, LayoutInv
  <2> HIDE DEF s
  <2>2. Len(s) = Cardinality(Range(s)) /\ \A p, q \in Range(s) : p # q => ~Clashing(p, q)
    BY <2>1, ApartIsFitting
  <2>3. \A p \in Range(s) : p \in Paths
    BY <2>1, RangeOfSeq DEF Names
  <2>4. ASSUME NEW p \in Range(s), NEW q \in Range(s)
        PROVE  /\ SameName(p, q) => p = q
               /\ ~IsAbove(p, q)
               /\ \A a \in Ancestors(p), d \in Ancestors(q) : SameName(a, d) => a = d
    <3>1. CASE p = q
      BY <2>3, <3>1, SelfIsFree
    <3>2. CASE p # q
      BY <2>2, <3>2 DEF Clashing
    <3> QED BY <3>1, <3>2
  <2> QED BY <2>2, <2>4 DEF LayoutIsExtractable, s
<1> QED BY <1>1, PlannerIsInductive, PTL

(* plan_catalog and plan_payload_layout report a path conflict only for two  *)
(* entries that clash.                                                       *)
THEOREM RefusalsStayReal == Spec => []RefusalsAreReal
<1>1. PlannerInv => RefusalsAreReal
  BY DEF PlannerInv
<1> QED BY <1>1, PlannerIsInductive, PTL

(* The plan of a plan is the plan itself: prepare in stage.rs never refuses  *)
(* what plan_payload_layout returned.                                        *)
THEOREM PlansAreStable == Spec => []ReplanningAgrees
<1>1. PlannerInv => ReplanningAgrees
  <2> SUFFICES ASSUME PlannerInv, stage = "Planned"
               PROVE  PlanPayloadLayout(layout.planned) = layout
    BY DEF ReplanningAgrees
  <2>1. /\ layout.planned \in Seq(Names) /\ Apart(layout.planned) /\ layout.error = "None"
        /\ SortByKey(layout.planned) = layout.planned
    BY DEF PlannerInv, LayoutInv
  <2>2. layout = PlanOf(layout.planned)
    BY <2>1, LayoutIsPlan DEF PlannerInv
  <2> QED BY <2>1, <2>2, PlansAll
<1> QED BY <1>1, PlannerIsInductive, PTL
=============================================================================
