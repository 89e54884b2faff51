------------------------------ MODULE UndoProofs ------------------------------
(***************************************************************************)
(* For every set of paths, content, trees to start from, refused prefixes  *)
(* and bounds: what an undo promises.                                      *)
(***************************************************************************)
EXTENDS UndoProps, FiniteSetTheorems, WellFoundedInduction, TLAPS

-----------------------------------------------------------------------------
(* Paths.                                                                  *)

(* The directories above p are its own directory and those above that. *)
LEMMA UpStep ==
    ASSUME NEW p \in Path
    PROVE  /\ Above[p] = None => Up[p] = {}
           /\ Above[p] # None => /\ Above[p] \in Path
                                 /\ Up[p] = {Above[p]} \cup Up[Above[p]]
<1> DEFINE a == Above[p]
<1>1. a \in Path \cup {None} /\ None \notin Path
  BY AboveAssumption
<1>2. ASSUME a = None PROVE Up[p] = {}
  <2>1. Climbs(p, {})
    BY <1>2 DEF Climbs, Option
  <2> QED
    BY <2>1 DEF Up
<1>3. ASSUME a # None PROVE Up[p] = {a} \cup Up[a]
  <2>1. a \in Path
    BY <1>1, <1>3
  <2>2. a \in Up[p]
    BY <1>3, <2>1 DEF Up, Climbs, Option
  <2>3. ASSUME NEW d \in Up[a] PROVE d \in Up[p]
    <3>1. d \in Path /\ \A S \in SUBSET Path : Climbs(a, S) => d \in S
      BY <2>1, <2>3 DEF Up
    <3>2. ASSUME NEW S \in SUBSET Path, Climbs(p, S) PROVE Climbs(a, S)
      BY <1>3, <3>2 DEF Climbs, Option
    <3> QED
      BY <3>1, <3>2 DEF Up
  <2>4. ASSUME NEW d \in Up[p] PROVE d \in {a} \cup Up[a]
    <3>1. Up[a] \in SUBSET Path
      BY <2>1 DEF Up
    <3>2. ASSUME NEW x \in Up[a] \cup {a} PROVE Above[x] \in Option(Up[a])
      <4>1. x \in Path
        BY <2>1, <3>1
      <4>2. CASE Above[x] = None
        BY <4>2 DEF Option
      <4>3. CASE Above[x] # None
        <5>1. Above[x] \in Path
          BY <4>1, <4>3, AboveAssumption
        <5>2. ASSUME NEW S \in SUBSET Path, Climbs(a, S) PROVE Above[x] \in S
          <6>1. x \in S \cup {a}
            BY <2>1, <3>2, <5>2 DEF Up
          <6> QED
            BY <4>3, <5>2, <6>1 DEF Climbs, Option
        <5> QED
          BY <2>1, <5>1, <5>2 DEF Up, Option
      <4> QED
        BY <4>2, <4>3
    <3>3. Climbs(p, {a} \cup Up[a])
      BY <2>1, <3>2 DEF Climbs, Option
    <3> QED
      BY <2>1, <2>4, <3>1, <3>3 DEF Up
  <2> QED
    BY <2>2, <2>3, <2>4
<1> QED
  BY <1>1, <1>2, <1>3

LEMMA UpType == ASSUME NEW p \in Path PROVE Up[p] \in SUBSET Path
  BY DEF Up

(* What lies above a directory lies above what is in it. *)
LEMMA UpTransitive ==
    ASSUME NEW p \in Path, NEW d \in Up[p]
    PROVE  Up[d] \subseteq Up[p]
<1>1. d \in Path /\ \A S \in SUBSET Path : Climbs(p, S) => d \in S
  BY DEF Up
<1>2. ASSUME NEW S \in SUBSET Path, Climbs(p, S) PROVE Climbs(d, S)
  BY <1>1, <1>2 DEF Climbs
<1> QED
  BY <1>1, <1>2 DEF Up

(* No path lies above itself. *)
LEMMA NotAboveItself == ASSUME NEW p \in Path PROVE p \notin Up[p]
<1> DEFINE C == {x \in Path : x \in Up[x]}
<1>1. ASSUME NEW x \in C PROVE Above[x] \in C
  <2>1. x \in Path /\ x \in Up[x]
    OBVIOUS
  <2>2. Above[x] \in Path /\ Up[x] = {Above[x]} \cup Up[Above[x]]
    BY <2>1, UpStep
  <2>3. CASE x = Above[x]
    BY <1>1, <2>3
  <2>4. CASE x # Above[x]
    <3>1. x \in Up[Above[x]]
      BY <2>1, <2>2, <2>4
    <3>2. Up[x] \subseteq Up[Above[x]]
      BY <2>2, <3>1, UpTransitive
    <3> QED
      BY <2>2, <3>2
  <2> QED
    BY <2>3, <2>4
<1>2. C \in SUBSET Path
  OBVIOUS
<1>3. C = {}
  <2> HIDE DEF C
  <2> QED
    BY <1>1, <1>2, PathAssumption
<1> QED
  BY <1>3

(* What is in a directory is deeper than the directory is. *)
LEMMA DepthType ==
    ASSUME NEW p \in Path
    PROVE  Depth(p) \in Nat /\ Depth(p) >= 1 /\ Depth(p) <= Cardinality(Path)
<1>1. IsFiniteSet(Path) /\ Cardinality(Path) \in Nat
  BY PathAssumption, FS_CardinalityType
<1>2. Up[p] \in SUBSET (Path \ {p})
  BY UpType, NotAboveItself
<1>3. IsFiniteSet(Path \ {p}) /\ Cardinality(Path \ {p}) = Cardinality(Path) - 1
  BY <1>1, FS_RemoveElement
<1>4. IsFiniteSet(Up[p]) /\ Cardinality(Up[p]) <= Cardinality(Path) - 1
  BY <1>2, <1>3, FS_Subset
<1>5. Cardinality(Up[p]) \in Nat
  BY <1>4, FS_CardinalityType
<1> QED
  BY <1>1, <1>4, <1>5 DEF Depth

LEMMA ChildDeeper ==
    ASSUME NEW p \in Path, NEW q \in Path, Above[q] = p
    PROVE  Depth(q) = Depth(p) + 1
<1>1. Up[q] = Up[p] \cup {p} /\ p \notin Up[p]
  <2>1. p # None
    BY AboveAssumption
  <2> QED
    BY <2>1, UpStep, NotAboveItself
<1>2. IsFiniteSet(Up[p])
  BY UpType, PathAssumption, FS_Subset
<1>3. Cardinality(Up[q]) = Cardinality(Up[p]) + 1
  BY <1>1, <1>2, FS_AddElement
<1>4. Cardinality(Up[p]) \in Nat
  BY <1>2, FS_CardinalityType
<1> QED
  BY <1>3, <1>4 DEF Depth

(* In a tree, whatever is there has directories all the way up. *)
LEMMA TreeAbove ==
    ASSUME NEW T, IsTree(T), NEW p \in Path, T[p] # None, NEW d \in Up[p]
    PROVE  IsDir(T, d)
<1> DEFINE S == {x \in Path : IsDir(T, x)}
<1>1. ASSUME NEW x \in S \cup {p} PROVE Above[x] \in Option(S)
  <2>1. x \in Path /\ T[x] # None
    BY DEF IsDir
  <2>2. Above[x] # None => IsDir(T, Above[x])
    BY <2>1 DEF IsTree, Reachable
  <2>3. Above[x] # None => Above[x] \in Path
    BY <2>1, AboveAssumption
  <2> QED
    BY <2>2, <2>3 DEF Option
<1>2. Climbs(p, S)
  BY <1>1 DEF Climbs
<1>3. S \in SUBSET Path
  OBVIOUS
<1>4. d \in S
  <2> HIDE DEF S
  <2> QED
    BY <1>2, <1>3 DEF Up
<1> QED
  BY <1>4

-----------------------------------------------------------------------------
(* Numbers.                                                                *)

LEMMA LeastOf ==
    ASSUME NEW S \in SUBSET Nat, S # {}
    PROVE  /\ Min(S) \in S /\ \A x \in S : Min(S) <= x
           /\ \A m \in S : (\A x \in S : m <= x) => m = Min(S)
<1>1. PICK m \in S : \A x \in S : m <= x
  <2>1. PICK m \in S : \A x \in S : <<x, m>> \notin OpToRel(<, Nat)
    BY NatLessThanWellFounded, WFMin, Zenon
  <2>2. \A x \in S : ~(x < m)
    BY <2>1 DEF OpToRel
  <2> QED
    BY <2>2
<1>2. Min(S) \in S /\ \A x \in S : Min(S) =< x
  BY <1>1 DEF Min
<1>3. ASSUME NEW n \in S, \A x \in S : n <= x PROVE n = Min(S)
  <2>1. n <= Min(S) /\ Min(S) <= n /\ n \in Nat /\ Min(S) \in Nat
    BY <1>2, <1>3
  <2> QED
    BY <2>1
<1> QED
  BY <1>2, <1>3

LEMMA GreatestOf ==
    ASSUME NEW S \in SUBSET Nat, S # {}, NEW b \in Nat, \A x \in S : x <= b
    PROVE  Max(S) \in S
<1> DEFINE U == {n \in Nat : \A x \in S : x <= n}
<1>1. U \in SUBSET Nat /\ b \in U
  OBVIOUS
<1>2. Min(U) \in U /\ \A n \in U : Min(U) <= n
  <2> HIDE DEF U
  <2> QED
    BY <1>1, LeastOf
<1>3. Min(U) \in Nat /\ \A x \in S : x \in Nat /\ x <= Min(U)
  BY <1>2
<1>4. Min(U) \in S
  <2>1. SUFFICES ASSUME Min(U) \notin S PROVE FALSE
    OBVIOUS
  <2> HIDE DEF U
  <2>2. \A x \in S : x \in Nat /\ x < Min(U)
    BY <1>3, <2>1
  <2>3. PICK z \in S : z \in Nat /\ z < Min(U)
    BY <2>2
  <2>4. Min(U) - 1 \in Nat /\ \A x \in S : x <= Min(U) - 1
    BY <1>3, <2>2, <2>3
  <2>5. Min(U) - 1 \in U
    BY <2>4 DEF U
  <2> QED
    BY <1>2, <1>3, <2>5
<1>5. \E x \in S : \A y \in S : x >= y
  <2> HIDE DEF U
  <2> QED
    BY <1>3, <1>4
<1> QED
  BY <1>5 DEF Max

-----------------------------------------------------------------------------
(* Plans: a set of numbers, put in order by the turn each one has.         *)

Before(K, turn, k) == {j \in K : turn[j] < turn[k] \/ (turn[j] = turn[k] /\ j <= k)}

Rank(K, turn, k) == Cardinality(Before(K, turn, k))

At(K, turn, i) == CHOOSE k \in K : Rank(K, turn, k) = i

(* Who comes later has the greater rank. *)
LEMMA LaterRanksHigher ==
    ASSUME NEW K \in SUBSET Nat, IsFiniteSet(K), NEW turn \in [K -> Nat],
           NEW j \in K, NEW k \in K, turn[j] < turn[k] \/ (turn[j] = turn[k] /\ j < k)
    PROVE  Rank(K, turn, j) < Rank(K, turn, k)
<1>1. \A x \in K : x \in Nat /\ turn[x] \in Nat
  OBVIOUS
<1>2. Before(K, turn, j) \subseteq Before(K, turn, k)
  <2>1. ASSUME NEW x \in K, turn[x] < turn[j] \/ (turn[x] = turn[j] /\ x <= j)
        PROVE  turn[x] < turn[k] \/ (turn[x] = turn[k] /\ x <= k)
    <3>1. x \in Nat /\ turn[x] \in Nat /\ j \in Nat /\ k \in Nat
      BY <1>1
    <3>2. turn[j] \in Nat /\ turn[k] \in Nat
      BY <1>1
    <3> QED
      BY <2>1, <3>1, <3>2
  <2> QED
    BY <2>1 DEF Before
<1>3. k \in Before(K, turn, k) /\ k \notin Before(K, turn, j)
  BY <1>1 DEF Before
<1>4. IsFiniteSet(Before(K, turn, k))
  <2>1. Before(K, turn, k) \in SUBSET K
    BY DEF Before
  <2> QED
    BY <2>1, FS_Subset
<1>5. /\ Cardinality(Before(K, turn, j)) <= Cardinality(Before(K, turn, k))
      /\ Cardinality(Before(K, turn, j)) # Cardinality(Before(K, turn, k))
  BY <1>2, <1>3, <1>4, FS_Subset
<1>6. Cardinality(Before(K, turn, j)) \in Nat /\ Cardinality(Before(K, turn, k)) \in Nat
  BY <1>2, <1>4, FS_Subset, FS_CardinalityType
<1> QED
  BY <1>5, <1>6 DEF Rank

LEMMA RankType ==
    ASSUME NEW K \in SUBSET Nat, IsFiniteSet(K), NEW turn \in [K -> Nat], NEW k \in K
    PROVE  Rank(K, turn, k) \in 1 .. Cardinality(K)
<1>1. Before(K, turn, k) \in SUBSET K /\ k \in Before(K, turn, k)
  BY DEF Before
<1>2. /\ IsFiniteSet(Before(K, turn, k))
      /\ Cardinality(Before(K, turn, k)) <= Cardinality(K)
  BY <1>1, FS_Subset
<1>3. Cardinality(Before(K, turn, k)) \in Nat /\ Cardinality(K) \in Nat
  BY <1>2, FS_CardinalityType
<1>4. Cardinality(Before(K, turn, k)) # 0
  BY <1>1, <1>2, FS_EmptySet
<1> QED
  BY <1>2, <1>3, <1>4 DEF Rank

(* Every rank is had by one, and all in the order of their turns. *)
LEMMA InOrder ==
    ASSUME NEW K \in SUBSET Nat, IsFiniteSet(K), NEW turn \in [K -> Nat]
    PROVE  /\ Cardinality(K) \in Nat
           /\ \A i \in 1 .. Cardinality(K) : At(K, turn, i) \in K
           /\ \A k \in K : \E i \in 1 .. Cardinality(K) : At(K, turn, i) = k
           /\ \A i, j \in 1 .. Cardinality(K) : i < j =>
                  /\ At(K, turn, i) # At(K, turn, j)
                  /\ turn[At(K, turn, i)] <= turn[At(K, turn, j)]
<1> DEFINE n == Cardinality(K)
           rank == [k \in K |-> Rank(K, turn, k)]
<1>1. n \in Nat
  BY FS_CardinalityType
<1>2. \A k \in K : rank[k] \in 1 .. n /\ rank[k] = Rank(K, turn, k)
  BY RankType
<1>3. ASSUME NEW j \in K, NEW k \in K, j # k PROVE rank[j] # rank[k]
  <2>1. j \in Nat /\ k \in Nat /\ turn[j] \in Nat /\ turn[k] \in Nat
    OBVIOUS
  <2>2. rank[j] \in Nat /\ rank[k] \in Nat
    BY <1>1, <1>2
  <2>3. \/ turn[j] < turn[k] \/ (turn[j] = turn[k] /\ j < k)
        \/ turn[k] < turn[j] \/ (turn[k] = turn[j] /\ k < j)
    BY <1>3, <2>1
  <2>4. rank[j] < rank[k] \/ rank[k] < rank[j]
    BY <2>3, LaterRanksHigher
  <2> QED
    BY <2>2, <2>4
<1>4. rank \in Surjection(K, 1 .. n)
  <2>1. rank \in [K -> 1 .. n]
    BY <1>2
  <2>2. rank \in Injection(K, 1 .. n)
    BY <1>3, <2>1 DEF Injection, IsInjective
  <2>3. IsFiniteSet(1 .. n) /\ Cardinality(1 .. n) = n
    <3>1. 1 \in Int /\ n \in Int
      BY <1>1
    <3>2. IsFiniteSet(1 .. n) /\ Cardinality(1 .. n) = IF 1 > n THEN 0 ELSE n - 1 + 1
      BY <3>1, FS_Interval
    <3> QED
      BY <1>1, <3>2
  <2> HIDE DEF rank, n
  <2> QED
    BY <2>2, <2>3, FS_Injection DEF n
<1>5. \A i \in 1 .. n : \E k \in K : rank[k] = i
  BY <1>4 DEF Surjection
<1>6. ASSUME NEW i \in 1 .. n PROVE At(K, turn, i) \in K /\ rank[At(K, turn, i)] = i
  BY <1>2, <1>5 DEF At
<1>7. ASSUME NEW k \in K PROVE \E i \in 1 .. n : At(K, turn, i) = k
  <2>1. rank[k] \in 1 .. n
    BY <1>2
  <2>2. At(K, turn, rank[k]) \in K /\ rank[At(K, turn, rank[k])] = rank[k]
    BY <1>6, <2>1
  <2> QED
    BY <1>3, <2>1, <2>2
<1>8. ASSUME NEW i \in 1 .. n, NEW j \in 1 .. n, i < j
      PROVE  /\ At(K, turn, i) # At(K, turn, j)
             /\ turn[At(K, turn, i)] <= turn[At(K, turn, j)]
  <2> DEFINE x == At(K, turn, i)  y == At(K, turn, j)
  <2>1. x \in K /\ y \in K /\ rank[x] = i /\ rank[y] = j
    BY <1>6
  <2>2. i \in Int /\ j \in Int /\ turn[x] \in Nat /\ turn[y] \in Nat
    <3>1. i \in Int /\ j \in Int
      BY <1>1
    <3> HIDE DEF x, y
    <3> QED
      BY <2>1, <3>1
  <2>3. ASSUME turn[y] < turn[x] PROVE FALSE
    <3>1. Rank(K, turn, y) < Rank(K, turn, x)
      BY <2>1, <2>3, LaterRanksHigher
    <3> QED
      BY <1>2, <1>8, <2>1, <2>2, <3>1
  <2>4. x # y
    BY <1>8, <2>1, <2>2
  <2> QED
    BY <2>2, <2>3, <2>4
<1> QED
  BY <1>1, <1>6, <1>7, <1>8

-----------------------------------------------------------------------------
(* What a plan does about a path.                                          *)

Snapshots == [0 .. MaxTime -> Option([Path -> Option(Kept)])]

ATouch == [path: Path, ts: Nat]

LEMMA SnapshotBeforeType ==
    ASSUME NEW S \in Snapshots, NEW ts \in Nat, SnapshotBefore(S, ts) # None
    PROVE  SnapshotBefore(S, ts) \in 0 .. MaxTime /\ S[SnapshotBefore(S, ts)] # None
<1> DEFINE older == {s \in DOMAIN S : S[s] # None /\ s <= ts}
<1>1. older # {} /\ SnapshotBefore(S, ts) = Max(older)
  BY DEF SnapshotBefore
<1>2. older \in SUBSET Nat /\ \A s \in older : s <= ts
  BY BoundAssumption DEF Snapshots
<1>3. Max(older) \in older
  <2> HIDE DEF older
  <2> QED
    BY <1>1, <1>2, GreatestOf
<1> QED
  BY <1>1, <1>3 DEF Snapshots

(* Which step it is: what it is left alone for, restored from, removed for. *)
LEMMA StepForIs ==
    ASSUME NEW S \in Snapshots, NEW t \in ATouch
    PROVE  LET st == StepFor(S, t)
               s == SnapshotBefore(S, t.ts)
           IN  /\ st \in Step /\ st.path = t.path
               /\ st.do # "skip" <=> t.path \notin Refused \cup Outside /\ s # None
               /\ st.do = "restore" =>
                      /\ st.from = s /\ s \in 0 .. MaxTime
                      /\ S[s] # None /\ S[s][t.path] # None
               /\ st.do = "remove" => S[s][t.path] = None
<1> DEFINE st == StepFor(S, t)
           s == SnapshotBefore(S, t.ts)
<1>1. t.path \in Path /\ t.ts \in Nat
  BY DEF ATouch
<1>2. s # None => s \in 0 .. MaxTime /\ S[s] # None
  BY <1>1, SnapshotBeforeType
<1>3. s # None => s \in Nat
  BY <1>2, BoundAssumption
<1> HIDE DEF s
<1>4. CASE t.path \in Refused \cup Outside \/ s = None
  <2>1. st = [do |-> "skip", path |-> t.path, from |-> None]
    BY <1>4 DEF StepFor, s
  <2> HIDE DEF st
  <2> QED
    BY <1>1, <1>4, <2>1 DEF Step, Option, s, st
<1>5. CASE ~(t.path \in Refused \cup Outside \/ s = None) /\ S[s][t.path] # None
  <2>1. st = [do |-> "restore", path |-> t.path, from |-> s]
    BY <1>5 DEF StepFor, s
  <2> HIDE DEF st
  <2>2. st \in Step /\ st.path = t.path /\ st.do = "restore" /\ st.from = s
    BY <1>1, <1>3, <1>5, <2>1 DEF Step, Option
  <2> QED
    BY <1>2, <1>5, <2>2 DEF s, st
<1>6. CASE ~(t.path \in Refused \cup Outside \/ s = None) /\ ~(S[s][t.path] # None)
  <2>1. st = [do |-> "remove", path |-> t.path, from |-> None]
    BY <1>6 DEF StepFor, s
  <2> HIDE DEF st
  <2>2. st \in Step /\ st.path = t.path /\ st.do = "remove"
    BY <1>1, <2>1 DEF Step, Option
  <2> QED
    BY <1>6, <2>2 DEF s, st
<1> QED
  BY <1>4, <1>5, <1>6

LEMMA TurnType ==
    ASSUME NEW st \in Step
    PROVE  /\ Turn(st) \in Nat
           /\ st.do = "restore" => Turn(st) = 0
           /\ st.do = "remove" => /\ Turn(st) = Cardinality(Path) + 1 - Depth(st.path)
                                  /\ Turn(st) >= 1 /\ Turn(st) <= Cardinality(Path)
           /\ st.do = "skip" => Turn(st) = Cardinality(Path) + 1
<1>1. st.path \in Path /\ st.do \in {"restore", "remove", "skip"}
  BY DEF Step
<1>2. Cardinality(Path) \in Nat
  BY PathAssumption, FS_CardinalityType
<1>3. Depth(st.path) \in Nat /\ Depth(st.path) >= 1 /\ Depth(st.path) <= Cardinality(Path)
  BY <1>1, DepthType
<1> QED
  BY <1>1, <1>2, <1>3 DEF Turn

-----------------------------------------------------------------------------
(* What a manifest touches.                                                *)

(* An event and its ends, of a touch. *)
LEMMA TouchIs ==
    ASSUME NEW events \in Seq(FileEvent), NEW k \in 1 .. 2 * Len(events)
    PROVE  \E i \in DOMAIN events :
               /\ i = (k + 1) \div 2
               /\ Touch(events, k).ts = events[i].ts
               /\ events[i] \in FileEvent
               /\ \/ Touch(events, k).path = events[i].path
                  \/ Touch(events, k).path = events[i].other
<1>1. Len(events) \in Nat /\ DOMAIN events = 1 .. Len(events)
  OBVIOUS
<1>2. (k + 1) \div 2 \in 1 .. Len(events)
  BY <1>1
<1>3. events[(k + 1) \div 2] \in FileEvent
  BY <1>1, <1>2
<1> QED
  BY <1>1, <1>2, <1>3 DEF Touch

LEMMA TouchedAt ==
    ASSUME NEW events \in Seq(FileEvent), NEW i \in DOMAIN events
    PROVE  /\ 2 * i - 1 \in 1 .. 2 * Len(events) /\ 2 * i \in 1 .. 2 * Len(events)
           /\ Touch(events, 2 * i - 1).path = events[i].path
           /\ Touch(events, 2 * i).path = events[i].other
<1>1. i \in 1 .. Len(events) /\ Len(events) \in Nat
  OBVIOUS
<1>2. (2 * i - 1 + 1) \div 2 = i /\ (2 * i + 1) \div 2 = i
  BY <1>1
<1>3. (2 * i - 1) % 2 = 1 /\ (2 * i) % 2 = 0
  BY <1>1
<1>4. Touch(events, 2 * i - 1).path = events[i].path
  BY <1>2, <1>3 DEF Touch
<1>5. Touch(events, 2 * i).path = events[i].other
  BY <1>2, <1>3 DEF Touch
<1> QED
  BY <1>1, <1>4, <1>5

LEMMA FirstTouchType ==
    ASSUME NEW events \in Seq(FileEvent), NEW k \in FirstTouches(events)
    PROVE  /\ k \in 1 .. 2 * Len(events)
           /\ Touch(events, k) \in ATouch
           /\ Touch(events, k).path # None
<1>1. k \in 1 .. 2 * Len(events) /\ Touch(events, k).path # None
  BY DEF FirstTouches
<1>2. PICK i \in DOMAIN events : /\ Touch(events, k).ts = events[i].ts
                                 /\ events[i] \in FileEvent
                                 /\ \/ Touch(events, k).path = events[i].path
                                    \/ Touch(events, k).path = events[i].other
  BY <1>1, TouchIs
<1>3. Touch(events, k).path \in Path /\ Touch(events, k).ts \in Nat
  BY <1>1, <1>2 DEF FileEvent, Option
<1>4. Touch(events, k) = [path |-> Touch(events, k).path, ts |-> Touch(events, k).ts]
  BY DEF Touch
<1> QED
  BY <1>1, <1>3, <1>4 DEF ATouch

LEMMA FirstTouchesFinite ==
    ASSUME NEW events \in Seq(FileEvent)
    PROVE  FirstTouches(events) \in SUBSET Nat /\ IsFiniteSet(FirstTouches(events))
<1>1. 2 * Len(events) \in Nat
  OBVIOUS
<1>2. FirstTouches(events) \in SUBSET (1 .. 2 * Len(events))
  BY DEF FirstTouches
<1>3. IsFiniteSet(1 .. 2 * Len(events))
  <2>1. 1 \in Int /\ 2 * Len(events) \in Int
    BY <1>1
  <2> QED
    BY <2>1, FS_Interval
<1> QED
  BY <1>1, <1>2, <1>3, FS_Subset

(* Each path has one first touch. *)
LEMMA OneFirstTouch ==
    ASSUME NEW events \in Seq(FileEvent),
           NEW j \in FirstTouches(events), NEW k \in FirstTouches(events), j # k
    PROVE  Touch(events, j).path # Touch(events, k).path
<1>1. j \in Nat /\ k \in Nat
  BY FirstTouchesFinite
<1>2. CASE j < k
  BY <1>1, <1>2 DEF FirstTouches
<1>3. CASE k < j
  BY <1>1, <1>3 DEF FirstTouches
<1> QED
  BY <1>1, <1>2, <1>3

LEMMA FirstTouchExists ==
    ASSUME NEW events \in Seq(FileEvent), NEW p \in Path,
           NEW n \in 1 .. 2 * Len(events), Touch(events, n).path = p
    PROVE  \E k \in FirstTouches(events) : Touch(events, k).path = p
<1> DEFINE K == {k \in 1 .. 2 * Len(events) : Touch(events, k).path = p}
<1>1. K \in SUBSET Nat /\ n \in K
  OBVIOUS
<1>2. Min(K) \in K /\ \A k \in K : Min(K) <= k
  <2> HIDE DEF K
  <2> QED
    BY <1>1, LeastOf
<1> DEFINE m == Min(K)
<1>3. m \in 1 .. 2 * Len(events) /\ Touch(events, m).path = p
  BY <1>2
<1>4. p # None
  BY AboveAssumption
<1>5. ASSUME NEW j \in 1 .. m - 1 PROVE Touch(events, j).path # p
  <2>1. j \in 1 .. 2 * Len(events) /\ ~(m <= j)
    BY <1>3
  <2> QED
    BY <1>2, <2>1
<1> HIDE DEF m, K
<1>6. m \in FirstTouches(events)
  BY <1>3, <1>4, <1>5 DEF FirstTouches
<1> QED
  BY <1>3, <1>6

(* The steps of a plan are the steps for the first touches, each path once *)
(* and in the order of the turns.                                          *)
LEMMA PlanIs ==
    ASSUME NEW events \in Seq(FileEvent), NEW S \in Snapshots
    PROVE  LET plan == Plan(events, S)
           IN  /\ plan \in Seq(Step)
               /\ \A i \in DOMAIN plan : \E k \in FirstTouches(events) :
                      plan[i] = StepFor(S, Touch(events, k))
               /\ \A k \in FirstTouches(events) : \E i \in DOMAIN plan :
                      plan[i] = StepFor(S, Touch(events, k))
               /\ \A i, j \in DOMAIN plan : i < j =>
                      plan[i].path # plan[j].path /\ Turn(plan[i]) <= Turn(plan[j])
<1> DEFINE K == FirstTouches(events)
           step(k) == StepFor(S, Touch(events, k))
           turn == [k \in K |-> Turn(step(k))]
           plan == Plan(events, S)
           n == Cardinality(K)
<1>1. K \in SUBSET Nat /\ IsFiniteSet(K)
  BY FirstTouchesFinite
<1>2. ASSUME NEW k \in K
      PROVE  step(k) \in Step /\ step(k).path = Touch(events, k).path /\ turn[k] \in Nat
  <2>1. Touch(events, k) \in ATouch
    BY FirstTouchType
  <2>2. step(k) \in Step /\ step(k).path = Touch(events, k).path
    BY <2>1, StepForIs
  <2>3. turn[k] = Turn(step(k))
    OBVIOUS
  <2> QED
    BY <2>2, <2>3, TurnType
<1>3. turn \in [K -> Nat]
  BY <1>2
<1>4. plan = [i \in 1 .. n |-> step(At(K, turn, i))]
  <2> DEFINE upTo(k) == {j \in K : \/ Turn(step(j)) < Turn(step(k))
                                   \/ Turn(step(j)) = Turn(step(k)) /\ j <= k}
  <2>1. ASSUME NEW k \in K PROVE upTo(k) = Before(K, turn, k)
    BY DEF Before
  <2>2. \A k \in K : Cardinality(upTo(k)) = Rank(K, turn, k)
    BY <2>1 DEF Rank
  <2>3. ASSUME NEW i PROVE (CHOOSE k \in K : Cardinality(upTo(k)) = i) = At(K, turn, i)
    <3> HIDE DEF upTo, turn, step, K
    <3> QED
      BY <2>2 DEF At
  <2>4. plan = [i \in 1 .. n |-> step(CHOOSE k \in K : Cardinality(upTo(k)) = i)]
    BY DEF Plan
  <2> HIDE DEF upTo, turn, step, K, plan
  <2> QED
    BY <2>3, <2>4
<1>5. /\ n \in Nat
      /\ \A i \in 1 .. n : At(K, turn, i) \in K
      /\ \A k \in K : \E i \in 1 .. n : At(K, turn, i) = k
      /\ \A i, j \in 1 .. n : i < j => /\ At(K, turn, i) # At(K, turn, j)
                                       /\ turn[At(K, turn, i)] <= turn[At(K, turn, j)]
  <2> HIDE DEF turn, K
  <2> QED
    BY <1>1, <1>3, InOrder
<1>6. \A k \in K : turn[k] = Turn(step(k))
  OBVIOUS
<1>7. ASSUME NEW j \in K, NEW k \in K, j # k PROVE step(j).path # step(k).path
  BY <1>2, <1>7, OneFirstTouch
<1> HIDE DEF turn, step, K, plan, n
<1>8. DOMAIN plan = 1 .. n /\ \A i \in 1 .. n : plan[i] = step(At(K, turn, i))
  BY <1>4
<1>9. plan \in Seq(Step)
  BY <1>2, <1>4, <1>5
<1>10. /\ \A i \in DOMAIN plan : \E k \in K : plan[i] = step(k)
       /\ \A k \in K : \E i \in DOMAIN plan : plan[i] = step(k)
  BY <1>5, <1>8
<1>11. ASSUME NEW i \in DOMAIN plan, NEW j \in DOMAIN plan, i < j
       PROVE  plan[i].path # plan[j].path /\ Turn(plan[i]) <= Turn(plan[j])
  <2>1. /\ At(K, turn, i) \in K /\ At(K, turn, j) \in K /\ At(K, turn, i) # At(K, turn, j)
        /\ turn[At(K, turn, i)] <= turn[At(K, turn, j)]
    BY <1>5, <1>8, <1>11
  <2> QED
    BY <1>6, <1>7, <1>8, <2>1
<1> QED
  BY <1>9, <1>10, <1>11 DEF K, step, plan

-----------------------------------------------------------------------------
(* The invariant behind the types, and behind what an undo may change: the *)
(* taker copies what it has not, the file open is there, and each step is  *)
(* for a path the command touched.                                         *)

TakerInv ==
    /\ taker.name = None => taker.todo = {}
    /\ taker.name # None => snaps[taker.name] # None
    /\ \A p \in taker.todo : snaps[taker.name][p] = None
    /\ \A p \in taker.todo, q \in Path :
           p \in Up[q] => q \notin taker.todo /\ snaps[taker.name][q] = None

HandleInv ==
    /\ phase # "copy" => handle = None
    /\ handle # None => IsFile(live, handle)

StepsInv ==
    \A i \in DOMAIN steps :
        /\ steps[i].do # "skip" => steps[i].path \in Touched \ (Refused \cup Outside)
        /\ steps[i].do = "restore" =>
               /\ steps[i].from \in 0 .. MaxTime /\ snaps[steps[i].from] # None
               /\ snaps[steps[i].from][steps[i].path] # None

UndoInv == TypeOK /\ TakerInv /\ HandleInv /\ StepsInv

-----------------------------------------------------------------------------
(* Nodes and trees.                                                        *)

Trees == [Path -> Option(Node)]

LEMMA DirIsNode == Dir \in Node /\ Dir # None /\ Dir.kind = "dir" /\ Dir.data = Blank
<1>1. Dir \in Node
  BY DEF Dir, Node, Data
<1> QED
  BY <1>1, NoneAssumption DEF Dir

LEMMA FileIsNode ==
    ASSUME NEW v \in Data
    PROVE  /\ File(v) \in Node /\ File(v) # None
           /\ File(v).kind = "file" /\ File(v).data = v /\ File(v).links = {}
<1>1. File(v) \in Node
  BY DEF File, Node
<1> QED
  BY <1>1, NoneAssumption DEF File

LEMMA NodeParts ==
    ASSUME NEW n \in Node
    PROVE  /\ n # None /\ n.kind \in {"dir", "file"} /\ n.data \in Data
           /\ n.links \in SUBSET (Nat \X Path)
  BY NoneAssumption DEF Node

LEMMA CopyType ==
    ASSUME NEW n \in Option(Node)
    PROVE  /\ Copy(n) \in Option(Kept)
           /\ n # None => Copy(n) \in Kept /\ Copy(n) # None
  BY NoneAssumption DEF Copy, Option, Node, Kept

(* What a tree becomes when nothing but the content and the links change. *)
SameShape(T, U) ==
    \A p \in Path : (T[p] = None <=> U[p] = None) /\ (T[p] # None => T[p].kind = U[p].kind)

LEMMA SameShapeTree ==
    ASSUME NEW T, NEW U, IsTree(T), SameShape(T, U)
    PROVE  /\ IsTree(U)
           /\ \A p \in Path : IsFile(T, p) <=> IsFile(U, p)
           /\ \A p \in Path : IsDir(T, p) <=> IsDir(U, p)
<1>1. /\ \A p \in Path : IsFile(T, p) <=> IsFile(U, p)
      /\ \A p \in Path : IsDir(T, p) <=> IsDir(U, p)
  BY DEF SameShape, IsFile, IsDir
<1>2. ASSUME NEW p \in Path, U[p] # None PROVE Reachable(U, p)
  <2>1. Reachable(T, p)
    BY <1>2 DEF SameShape, IsTree
  <2>2. Above[p] # None => Above[p] \in Path
    BY AboveAssumption
  <2> QED
    BY <1>1, <2>1, <2>2 DEF Reachable
<1> QED
  BY <1>1, <1>2 DEF IsTree

(* A write in place: the file is there, or its directory is. *)
LEMMA InPlaceTree ==
    ASSUME NEW T \in Trees, IsTree(T), NEW p \in Path, NEW v \in Data,
           Reachable(T, p), ~IsDir(T, p)
    PROVE  /\ InPlace(T, p, v) \in Trees /\ IsTree(InPlace(T, p, v))
           /\ IsFile(InPlace(T, p, v), p) /\ InPlace(T, p, v)[p].data = v
           /\ T[p] = None => InPlace(T, p, v)[p].links = {}
           /\ T[p] # None => InPlace(T, p, v)[p].links = T[p].links
           /\ \A q \in Path : q # p => InPlace(T, p, v)[q] = T[q]
<1> DEFINE U == InPlace(T, p, v)
           m == IF T[p] = None THEN File(v) ELSE [T[p] EXCEPT !.data = v]
<1>1. /\ m \in Node /\ m # None /\ m.kind = "file" /\ m.data = v
      /\ T[p] = None => m.links = {}
      /\ T[p] # None => m.links = T[p].links
  <2>1. CASE T[p] = None
    BY <2>1, FileIsNode
  <2>2. CASE T[p] # None
    <3>1. T[p] \in Node /\ T[p].kind = "file"
      BY <2>2 DEF Trees, Option, IsDir, Node
    <3>2. m = [T[p] EXCEPT !.data = v]
      BY <2>2
    <3>3. m \in Node /\ m.kind = "file" /\ m.data = v /\ m.links = T[p].links
      BY <3>1, <3>2 DEF Node
    <3> QED
      BY <2>2, <3>3, NoneAssumption
  <2> QED
    BY <2>1, <2>2
<1>2. U = [T EXCEPT ![p] = m]
  BY DEF InPlace
<1> HIDE DEF m, U
<1>3. U \in Trees /\ U[p] = m /\ \A q \in Path : q # p => U[q] = T[q]
  BY <1>1, <1>2 DEF Trees, Option
<1>4. ASSUME NEW d \in Path, IsDir(T, d) PROVE IsDir(U, d)
  BY <1>3, <1>4 DEF IsDir
<1>5. ASSUME NEW q \in Path, U[q] # None PROVE Reachable(U, q)
  <2>1. Reachable(T, q)
    BY <1>3, <1>5 DEF IsTree
  <2>2. Above[q] # None => Above[q] \in Path
    BY AboveAssumption
  <2> QED
    BY <1>4, <2>1, <2>2 DEF Reachable
<1>6. IsTree(U)
  BY <1>5 DEF IsTree
<1>7. IsFile(U, p)
  BY <1>1, <1>3 DEF IsFile
<1> QED
  BY <1>1, <1>3, <1>6, <1>7 DEF U

(* All the directories on the way, where no file is. *)
LEMMA MakeDirsTree ==
    ASSUME NEW T \in Trees, IsTree(T), NEW p \in Path, CanMakeDirs(T, p)
    PROVE  /\ MakeDirs(T, p) \in Trees /\ IsTree(MakeDirs(T, p))
           /\ Reachable(MakeDirs(T, p), p)
           /\ MakeDirs(T, p)[p] = T[p]
           /\ \A q \in Path : T[q] # None => MakeDirs(T, p)[q] = T[q]
           /\ \A q \in Path : MakeDirs(T, p)[q] # T[q] =>
                  T[q] = None /\ q \in Up[p] /\ MakeDirs(T, p)[q] = Dir
           /\ \A q \in Up[p] : IsDir(MakeDirs(T, p), q)
<1> DEFINE U == MakeDirs(T, p)
<1>1. U \in Trees
  BY DirIsNode DEF MakeDirs, Trees, Option
<1>2. \A q \in Path : U[q] = IF q \in Up[p] /\ T[q] = None THEN Dir ELSE T[q]
  BY DEF MakeDirs
<1>3. ASSUME NEW q \in Up[p] PROVE IsDir(U, q)
  <2>1. q \in Path /\ ~IsFile(T, q)
    BY UpType DEF CanMakeDirs
  <2>2. CASE T[q] = None
    BY <1>2, <2>1, <2>2, DirIsNode DEF IsDir
  <2>3. CASE T[q] # None
    <3>1. T[q] \in Node
      BY <2>1, <2>3 DEF Trees, Option
    <3>2. T[q].kind = "dir"
      BY <2>1, <2>3, <3>1, NodeParts DEF IsFile
    <3> QED
      BY <1>2, <2>1, <2>3, <3>2 DEF IsDir
  <2> QED
    BY <2>2, <2>3
<1>4. ASSUME NEW q \in Path, U[q] # None PROVE Reachable(U, q)
  <2>1. Above[q] # None => Above[q] \in Path /\ Above[q] \in Up[q]
    BY UpStep
  <2>2. CASE q \in Up[p]
    <3>1. Up[q] \subseteq Up[p]
      BY <2>2, UpTransitive
    <3> QED
      BY <1>3, <2>1, <3>1 DEF Reachable
  <2>3. CASE q \notin Up[p]
    <3>1. T[q] # None /\ Reachable(T, q)
      BY <1>2, <1>4, <2>3 DEF IsTree
    <3>2. ASSUME Above[q] # None PROVE IsDir(U, Above[q])
      <4>1. IsDir(T, Above[q])
        BY <3>1, <3>2 DEF Reachable
      <4> QED
        BY <1>2, <2>1, <3>2, <4>1 DEF IsDir
    <3> QED
      BY <3>2 DEF Reachable
  <2> QED
    BY <2>2, <2>3
<1>5. Reachable(U, p)
  BY <1>3, UpStep DEF Reachable
<1>6. p \notin Up[p]
  BY NotAboveItself
<1> HIDE DEF U
<1>7. IsTree(U)
  BY <1>4 DEF IsTree
<1>8. U[p] = T[p] /\ \A q \in Path : T[q] # None => U[q] = T[q]
  BY <1>2, <1>6
<1>9. \A q \in Path : U[q] # T[q] => T[q] = None /\ q \in Up[p] /\ U[q] = Dir
  BY <1>2
<1> QED
  BY <1>1, <1>3, <1>5, <1>7, <1>8, <1>9 DEF U

(* A file, or a directory with nothing in it, goes. *)
LEMMA WithoutTree ==
    ASSUME NEW T \in Trees, IsTree(T), NEW p \in Path, IsDir(T, p) => Inside(T, p) = {}
    PROVE  [T EXCEPT ![p] = None] \in Trees /\ IsTree([T EXCEPT ![p] = None])
<1> DEFINE U == [T EXCEPT ![p] = None]
<1>1. U \in Trees /\ \A q \in Path : U[q] = IF q = p THEN None ELSE T[q]
  BY DEF Trees, Option
<1>2. ASSUME NEW q \in Path, U[q] # None PROVE Reachable(U, q)
  <2>1. q # p /\ T[q] # None /\ Reachable(T, q)
    BY <1>1, <1>2 DEF IsTree
  <2>2. Above[q] # None => Above[q] \in Path /\ IsDir(T, Above[q])
    BY <2>1, AboveAssumption DEF Reachable
  <2>3. Above[q] = p => q \in Inside(T, p)
    BY <2>1 DEF Inside
  <2>4. Above[q] # None => Above[q] # p
    BY <2>2, <2>3
  <2> QED
    BY <1>1, <2>2, <2>4 DEF Reachable, IsDir
<1> QED
  BY <1>1, <1>2 DEF IsTree

-----------------------------------------------------------------------------
(* Snapshots, and what a step does to the parts of the invariant.          *)

SameHoles(S, R) ==
    \A s \in 0 .. MaxTime :
        /\ S[s] = None <=> R[s] = None
        /\ \A p \in Path : S[s] # None => (S[s][p] = None <=> R[s][p] = None)

(* What is there stays there. *)
Fills(S, R) ==
    \A s \in 0 .. MaxTime : S[s] # None =>
        R[s] # None /\ \A p \in Path : S[s][p] # None => R[s][p] # None

LEMMA ThroughIs ==
    ASSUME NEW S \in Snapshots, NEW n \in Option(Node), NEW v \in Data
    PROVE  /\ Through(S, n, v) \in Snapshots /\ SameHoles(S, Through(S, n, v))
           /\ n = None \/ n.links = {} => Through(S, n, v) = S
<1> DEFINE R == Through(S, n, v)
<1>1. R = [s \in 0 .. MaxTime |-> R[s]] /\ S = [s \in 0 .. MaxTime |-> S[s]]
  BY DEF Through, Snapshots
<1>2. ASSUME NEW s \in 0 .. MaxTime, S[s] = None \/ n = None PROVE R[s] = S[s]
  BY <1>2 DEF Through, Snapshots
<1>3. ASSUME NEW s \in 0 .. MaxTime, S[s] # None, n # None
      PROVE  /\ R[s] = [p \in Path |-> IF <<s, p>> \in n.links /\ S[s][p] # None
                                       THEN [S[s][p] EXCEPT !.data = v] ELSE S[s][p]]
             /\ S[s] \in [Path -> Option(Kept)]
  BY <1>3 DEF Through, Snapshots, Option
<1>4. ASSUME NEW k \in Kept PROVE [k EXCEPT !.data = v] \in Kept
  BY DEF Kept
<1> HIDE DEF R
<1>5. ASSUME NEW s \in 0 .. MaxTime, S[s] # None, n # None
      PROVE  /\ R[s] \in [Path -> Option(Kept)] /\ R[s] # None
             /\ \A p \in Path : S[s][p] = None <=> R[s][p] = None
             /\ n.links = {} => R[s] = S[s]
  <2>1. ASSUME NEW p \in Path
        PROVE  R[s][p] \in Option(Kept) /\ (S[s][p] = None <=> R[s][p] = None)
    <3>1. S[s][p] \in Option(Kept)
      BY <1>3, <1>5
    <3>2. S[s][p] # None => S[s][p] \in Kept /\ [S[s][p] EXCEPT !.data = v] \in Kept
      BY <1>4, <3>1 DEF Option
    <3>3. R[s][p] = IF <<s, p>> \in n.links /\ S[s][p] # None
                    THEN [S[s][p] EXCEPT !.data = v] ELSE S[s][p]
      BY <1>3, <1>5
    <3>4. CASE <<s, p>> \in n.links /\ S[s][p] # None
      BY <3>2, <3>3, <3>4, NoneAssumption DEF Option
    <3>5. CASE ~(<<s, p>> \in n.links /\ S[s][p] # None)
      BY <3>1, <3>3, <3>5
    <3> QED
      BY <3>4, <3>5
  <2>2. R[s] \in [Path -> Option(Kept)]
    BY <1>3, <1>5, <2>1
  <2>3. n.links = {} => R[s] = S[s]
    BY <1>3, <1>5
  <2> QED
    BY <2>1, <2>2, <2>3, NoneAssumption
<1>6. \A s \in 0 .. MaxTime : R[s] \in Option([Path -> Option(Kept)])
  BY <1>2, <1>5 DEF Snapshots, Option
<1>7. R \in Snapshots
  BY <1>1, <1>6 DEF Snapshots
<1>8. SameHoles(S, R)
  BY <1>2, <1>5 DEF SameHoles
<1>9. n = None \/ n.links = {} => R = S
  BY <1>1, <1>2, <1>5
<1> QED
  BY <1>7, <1>8, <1>9 DEF R

LEMMA SameHolesFills ==
    ASSUME NEW S, NEW R, SameHoles(S, R) PROVE Fills(S, R)
  BY DEF SameHoles, Fills

LEMMA SameHolesRefl == ASSUME NEW S PROVE SameHoles(S, S)
  BY DEF SameHoles

(* Nothing else comes between the taker and its copy. *)
LEMMA TakerKept ==
    ASSUME UndoInv, taker' = taker, SameHoles(snaps, snaps')
    PROVE  TakerInv'
<1>1. taker.name \in Option(0 .. MaxTime) /\ taker.todo \in SUBSET Path
  BY DEF UndoInv, TypeOK
<1>2. TakerInv
  BY DEF UndoInv
<1>3. CASE taker.name = None
  BY <1>2, <1>3 DEF TakerInv
<1>4. CASE taker.name # None
  <2>1. taker.name \in 0 .. MaxTime /\ snaps[taker.name] # None
    BY <1>1, <1>2, <1>4 DEF TakerInv, Option
  <2>2. \A p \in Path : snaps'[taker.name][p] = None <=> snaps[taker.name][p] = None
    BY <2>1 DEF SameHoles
  <2>3. snaps'[taker.name] # None
    BY <2>1 DEF SameHoles
  <2> QED
    BY <1>1, <1>2, <1>4, <2>2, <2>3 DEF TakerInv
<1> QED
  BY <1>3, <1>4

(* What a manifest touches stays touched. *)
LEMMA TouchedGrows ==
    ASSUME UndoInv,
           manifest' = manifest \/ \E e \in FileEvent : manifest' = Append(manifest, e)
    PROVE  Touched \subseteq Touched'
<1>1. manifest \in Seq(FileEvent)
  BY DEF UndoInv, TypeOK
<1>2. ASSUME NEW e \in FileEvent, manifest' = Append(manifest, e)
      PROVE  \A i \in DOMAIN manifest : i \in DOMAIN manifest' /\ manifest'[i] = manifest[i]
  BY <1>1, <1>2
<1>3. \A i \in DOMAIN manifest : i \in DOMAIN manifest' /\ manifest'[i] = manifest[i]
  BY <1>2
<1> QED
  BY <1>3 DEF Touched

LEMMA StepsKept ==
    ASSUME UndoInv, Touched \subseteq Touched', Fills(snaps, snaps'),
           \A i \in DOMAIN steps' : \E j \in DOMAIN steps : steps'[i] = steps[j]
    PROVE  StepsInv'
<1>1. ASSUME NEW i \in DOMAIN steps'
      PROVE  /\ steps'[i].do # "skip" =>
                    steps'[i].path \in Touched' \ (Refused \cup Outside)
             /\ steps'[i].do = "restore" =>
                    /\ steps'[i].from \in 0 .. MaxTime /\ snaps'[steps'[i].from] # None
                    /\ snaps'[steps'[i].from][steps'[i].path] # None
  <2>1. PICK j \in DOMAIN steps : steps'[i] = steps[j]
    BY <1>1
  <2>2. steps[j] \in Step
    BY DEF UndoInv, TypeOK
  <2>3. steps[j].path \in Path
    BY <2>2 DEF Step
  <2> QED
    BY <2>1, <2>3 DEF UndoInv, StepsInv, Fills
<1> QED
  BY <1>1 DEF StepsInv

(* One step of a plan fewer. *)
LEMMA TailSteps ==
    ASSUME UndoInv, steps # <<>>, steps' = Tail(steps)
    PROVE  /\ steps' \in Seq(Step)
           /\ Head(steps) = steps[1] /\ 1 \in DOMAIN steps /\ Head(steps) \in Step
           /\ \A i \in DOMAIN steps' : i + 1 \in DOMAIN steps /\ steps'[i] = steps[i + 1]
           /\ \A i \in DOMAIN steps : i = 1 \/ (i - 1 \in DOMAIN steps' /\ steps'[i - 1] = steps[i])
<1>1. steps \in Seq(Step)
  BY DEF UndoInv, TypeOK
<1> QED
  BY <1>1

LEMMA SameSteps ==
    ASSUME steps' = steps
    PROVE  \A i \in DOMAIN steps' : \E j \in DOMAIN steps : steps'[i] = steps[j]
  OBVIOUS

LEMMA MishapType ==
    ASSUME TypeOK, Mishap \/ Succeeds
    PROVE  mishaps' \in Nat /\ settled' \in Option([Path -> Option(Kept)])
  BY DEF TypeOK, Mishap, Succeeds, Option

LEMMA InitUndo == ASSUME Init PROVE UndoInv
<1>1. live \in Trees /\ IsTree(live)
  BY StartAssumption DEF Init, Trees
<1>2. snaps \in Snapshots /\ planned \in Snapshots
  BY DEF Init, Snapshots, Option
<1>3. taker = [name |-> None, todo |-> {}]
  BY DEF Init, NoTaker
<1>4. taker \in [name: Option(0 .. MaxTime), todo: SUBSET Path]
  BY <1>3 DEF Option
<1>5. before \in [Path -> {<<>>} \cup {<<x>> : x \in Option(Kept)}]
  BY DEF Init
<1>6. /\ now \in 0 .. MaxTime /\ ops \in Nat /\ mishaps \in Nat
      /\ failed \in Nat /\ kept \in Nat /\ runs \in Nat
  BY BoundAssumption DEF Init
<1>7. pending \in Seq(Event) /\ manifest \in Seq(FileEvent) /\ steps \in Seq(Step)
  BY DEF Init
<1>8. /\ phase = "idle" /\ handle \in Option(Path) /\ calm \in BOOLEAN
      /\ settled \in Option([Path -> Option(Kept)])
  BY DEF Init, Option
<1>9. TypeOK
  BY <1>1, <1>2, <1>4, <1>5, <1>6, <1>7, <1>8 DEF TypeOK, Trees, Snapshots
<1>10. TakerInv /\ StepsInv /\ HandleInv
  BY <1>3 DEF TakerInv, StepsInv, HandleInv, Init
<1> QED
  BY <1>9, <1>10 DEF UndoInv

(* The types in four parts, as the actions leave them alone. *)
TreeOK ==
    /\ live \in Trees /\ IsTree(live) /\ snaps \in Snapshots
    /\ taker \in [name: Option(0 .. MaxTime), todo: SUBSET Path] /\ now \in 0 .. MaxTime

CommandOK ==
    /\ ops \in Nat /\ pending \in Seq(Event) /\ manifest \in Seq(FileEvent)
    /\ before \in [Path -> {<<>>} \cup {<<x>> : x \in Option(Kept)}]

ChronicleOK ==
    /\ phase \in {"idle", "apply", "copy", "done"}
    /\ steps \in Seq(Step) /\ handle \in Option(Path)
    /\ phase = "copy" => steps # <<>> /\ Head(steps).do = "restore"
    /\ failed \in Nat /\ kept \in Nat /\ runs \in Nat /\ planned \in Snapshots

MarksOK ==
    mishaps \in Nat /\ calm \in BOOLEAN /\ settled \in Option([Path -> Option(Kept)])

LEMMA TypeParts == TypeOK <=> TreeOK /\ CommandOK /\ ChronicleOK /\ MarksOK
  BY DEF TypeOK, TreeOK, CommandOK, ChronicleOK, MarksOK, Trees, Snapshots

LEMMA AllParts ==
    ASSUME TreeOK', CommandOK', ChronicleOK', MarksOK', TakerInv', HandleInv', StepsInv'
    PROVE  UndoInv'
  BY DEF UndoInv, TypeOK, TreeOK, CommandOK, ChronicleOK, MarksOK, Trees, Snapshots

LEMMA SameTree == ASSUME TreeOK, UNCHANGED treeVars PROVE TreeOK'
  BY DEF TreeOK, treeVars

LEMMA SameCommand == ASSUME CommandOK, UNCHANGED commandVars PROVE CommandOK'
  BY DEF CommandOK, commandVars

LEMMA SameChronicle == ASSUME ChronicleOK, UNCHANGED chronicleVars PROVE ChronicleOK'
  BY DEF ChronicleOK, chronicleVars

LEMMA SameMarks ==
    ASSUME MarksOK, mishaps' = mishaps, calm' = calm, settled' = settled \/ settled' = None
    PROVE  MarksOK'
  BY DEF MarksOK, Option

(* The taker's steps, and time. *)
LEMMA TickInv == ASSUME UndoInv, Tick PROVE UndoInv'
<1>1. TreeOK /\ CommandOK /\ ChronicleOK /\ MarksOK
  BY TypeParts DEF UndoInv
<1>2. TreeOK'
  BY <1>1, BoundAssumption DEF Tick, TreeOK
<1>3. CommandOK' /\ ChronicleOK' /\ MarksOK'
  BY <1>1, SameCommand, SameChronicle, SameMarks DEF Tick
<1>4. TakerInv'
  BY TakerKept, SameHolesRefl DEF Tick
<1>5. HandleInv' /\ StepsInv'
  <2>1. UNCHANGED <<phase, handle, live, steps, snaps, manifest>>
    BY DEF Tick, chronicleVars, commandVars
  <2> QED
    BY <2>1 DEF UndoInv, HandleInv, StepsInv, Touched
<1> QED
  BY <1>2, <1>3, <1>4, <1>5, AllParts

LEMMA FilledSnapshots ==
    ASSUME NEW S \in Snapshots, NEW s \in 0 .. MaxTime,
           NEW f \in [Path -> Option(Kept)],
           S[s] # None => \A p \in Path : S[s][p] # None => f[p] # None
    PROVE  /\ [S EXCEPT ![s] = f] \in Snapshots /\ Fills(S, [S EXCEPT ![s] = f])
           /\ [S EXCEPT ![s] = f][s] = f
<1> DEFINE R == [S EXCEPT ![s] = f]
<1>1. R \in Snapshots /\ R[s] = f /\ \A r \in 0 .. MaxTime : r # s => R[r] = S[r]
  BY DEF Snapshots, Option
<1>2. f # None
  BY NoneAssumption
<1> HIDE DEF R
<1>3. Fills(S, R)
  BY <1>1, <1>2 DEF Fills
<1> QED
  BY <1>1, <1>3 DEF R

LEMMA TakeSnapshotInv == ASSUME UndoInv, TakeSnapshot PROVE UndoInv'
<1> DEFINE none == [p \in Path |-> None]
           all == [p \in Path |-> Copy(live[p])]
           top == {p \in Path : Above[p] = None /\ live[p] # None}
<1>1. TreeOK /\ CommandOK /\ ChronicleOK /\ MarksOK
  BY TypeParts DEF UndoInv
<1>2. now \in 0 .. MaxTime /\ now \in Nat /\ now # None /\ snaps \in Snapshots
  BY <1>1, BoundAssumption, NoneAssumption DEF TreeOK
<1>3. all \in [Path -> Option(Kept)] /\ none \in [Path -> Option(Kept)]
  <2>1. \A p \in Path : live[p] \in Option(Node)
    BY <1>1 DEF TreeOK, Trees
  <2>2. \A p \in Path : Copy(live[p]) \in Option(Kept)
    BY <2>1, CopyType
  <2> QED
    BY <2>2 DEF Option
<1>4. snaps[now] = None
  BY DEF TakeSnapshot
<1>5. \/ /\ snaps' = [snaps EXCEPT ![now] = all] /\ taker' = taker
      \/ /\ snaps' = [snaps EXCEPT ![now] = none] /\ taker' = [name |-> now, todo |-> top]
  BY DEF TakeSnapshot
<1>6. taker = [name |-> None, todo |-> {}]
  BY DEF TakeSnapshot, NoTaker
<1> HIDE DEF none, all
<1>7. snaps' \in Snapshots /\ Fills(snaps, snaps')
  BY <1>2, <1>3, <1>4, <1>5, FilledSnapshots
<1>8. taker' \in [name: Option(0 .. MaxTime), todo: SUBSET Path]
  <2>1. CASE taker' = taker
    BY <2>1, <1>1 DEF TreeOK
  <2>2. CASE taker' = [name |-> now, todo |-> top]
    BY <2>2, <1>2 DEF Option
  <2> QED
    BY <1>5, <2>1, <2>2
<1>9. TreeOK'
  <2>1. live' = live /\ now' = now
    BY DEF TakeSnapshot
  <2> QED
    BY <1>1, <1>7, <1>8, <2>1 DEF TreeOK
<1>10. CommandOK' /\ ChronicleOK' /\ MarksOK'
  BY <1>1, SameCommand, SameChronicle, SameMarks DEF TakeSnapshot
<1>11. TakerInv'
  <2>1. CASE taker' = taker
    BY <1>6, <2>1 DEF TakerInv
  <2>2. CASE snaps' = [snaps EXCEPT ![now] = none] /\ taker' = [name |-> now, todo |-> top]
    <3>1. snaps'[now] = none /\ none # None
      BY <1>2, <1>3, <2>2, NoneAssumption DEF Snapshots
    <3>2. \A p \in Path : snaps'[now][p] = None
      BY <3>1 DEF none
    <3>3. ASSUME NEW p \in top, NEW q \in Path, p \in Up[q] PROVE q \notin top
      <4>1. Above[q] # None
        BY <3>3, UpStep
      <4> QED
        BY <4>1
    <3>4. taker'.name = now /\ taker'.todo = top /\ top \subseteq Path
      BY <2>2
    <3> HIDE DEF top
    <3> QED
      BY <1>2, <3>1, <3>2, <3>3, <3>4 DEF TakerInv
  <2> QED
    BY <1>5, <2>1, <2>2
<1>12. UNCHANGED <<phase, handle, live, steps, manifest>>
  BY DEF TakeSnapshot, chronicleVars, commandVars
<1>13. HandleInv'
  BY <1>12 DEF UndoInv, HandleInv
<1>14. StepsInv'
  <2>1. Touched' = Touched
    BY <1>12 DEF Touched
  <2> QED
    BY <1>7, <1>12, <2>1, SameSteps, StepsKept
<1> QED
  BY <1>9, <1>10, <1>11, <1>13, <1>14, AllParts

LEMMA CopyEntryInv == ASSUME UndoInv, NEW p \in Path, CopyEntry(p) PROVE UndoInv'
<1> DEFINE s == taker.name
           f == [snaps[s] EXCEPT ![p] = Copy(live[p])]
           more == (taker.todo \ {p}) \cup Inside(live, p)
<1>1. TreeOK /\ CommandOK /\ ChronicleOK /\ MarksOK
  BY TypeParts DEF UndoInv
<1>2. p \in taker.todo /\ taker.todo \in SUBSET Path /\ s \in Option(0 .. MaxTime)
  BY <1>1 DEF TreeOK, CopyEntry
<1>3. /\ s \in 0 .. MaxTime /\ s # None /\ snaps[s] # None
      /\ \A q \in taker.todo : snaps[s][q] = None
      /\ \A q \in taker.todo, r \in Path :
             q \in Up[r] => r \notin taker.todo /\ snaps[s][r] = None
  BY <1>2 DEF UndoInv, TakerInv, Option
<1>4. snaps \in Snapshots /\ snaps[s] \in [Path -> Option(Kept)]
  BY <1>1, <1>3 DEF TreeOK, Snapshots, Option
<1>5. live[p] \in Option(Node) /\ Copy(live[p]) \in Option(Kept)
  BY <1>1, CopyType DEF TreeOK, Trees
<1>6. /\ f \in [Path -> Option(Kept)]
      /\ f[p] = Copy(live[p]) /\ \A q \in Path : q # p => f[q] = snaps[s][q]
  BY <1>4, <1>5
<1>7. snaps' = [snaps EXCEPT ![s] = f]
  BY DEF CopyEntry
<1> HIDE DEF f
<1>8. snaps' \in Snapshots /\ Fills(snaps, snaps') /\ snaps'[s] = f
  <2>1. \A q \in Path : snaps[s][q] # None => f[q] # None
    BY <1>2, <1>3, <1>6
  <2>2. /\ [snaps EXCEPT ![s] = f] \in Snapshots /\ Fills(snaps, [snaps EXCEPT ![s] = f])
        /\ [snaps EXCEPT ![s] = f][s] = f
    <3> HIDE DEF s
    <3> QED
      BY <1>3, <1>4, <1>6, <2>1, FilledSnapshots
  <2> QED
    BY <1>7, <2>2
<1>9. taker' = [taker EXCEPT !.todo = more]
  BY DEF CopyEntry
<1>10. more \in SUBSET Path
  BY <1>2 DEF Inside
<1> HIDE DEF more
<1>11. /\ taker' \in [name: Option(0 .. MaxTime), todo: SUBSET Path]
       /\ taker'.name = s /\ taker'.todo = more
  <2>1. taker \in [name: Option(0 .. MaxTime), todo: SUBSET Path]
    BY <1>1 DEF TreeOK
  <2> QED
    BY <1>9, <1>10, <2>1
<1>12. live' \in Trees /\ SameShape(live, live')
  <2>1. CASE Mode = "hardlink" /\ IsFile(live, p)
    <3> DEFINE n == [live[p] EXCEPT !.links = @ \cup {<<s, p>>}]
    <3>1. live[p] # None /\ live[p] \in Node /\ s \in Nat
      BY <1>3, <1>5, <2>1, BoundAssumption DEF Option, IsFile
    <3>2. n \in Node /\ n.kind = live[p].kind
      BY <3>1 DEF Node
    <3>3. live' = [live EXCEPT ![p] = n]
      BY <2>1 DEF CopyEntry
    <3> HIDE DEF n
    <3>4. n # None
      BY <3>2, NoneAssumption
    <3>5. live' \in Trees /\ live'[p] = n /\ \A q \in Path : q # p => live'[q] = live[q]
      BY <1>1, <3>2, <3>3 DEF TreeOK, Trees, Option
    <3> QED
      BY <3>1, <3>2, <3>4, <3>5 DEF SameShape
  <2>2. CASE ~(Mode = "hardlink" /\ IsFile(live, p))
    <3>1. live' = live
      BY <2>2 DEF CopyEntry
    <3> QED
      BY <1>1, <3>1 DEF TreeOK, SameShape
  <2> QED
    BY <2>1, <2>2
<1>13. IsTree(live') /\ \A q \in Path : IsFile(live, q) => IsFile(live', q)
  BY <1>1, <1>12, SameShapeTree DEF TreeOK
<1>14. TreeOK'
  <2>1. now' = now
    BY DEF CopyEntry
  <2> QED
    BY <1>1, <1>8, <1>11, <1>12, <1>13, <2>1 DEF TreeOK
<1>15. CommandOK' /\ ChronicleOK' /\ MarksOK'
  BY <1>1, SameCommand, SameChronicle, SameMarks DEF CopyEntry
<1>16. TakerInv'
  <2>1. ASSUME NEW q \in more
        PROVE  /\ f[q] = None /\ q \in Path /\ q # p
               /\ q \in taker.todo \/ Above[q] = p
    <3>1. CASE q \in taker.todo /\ q # p
      BY <1>2, <1>3, <1>6, <3>1
    <3>2. CASE q \in Inside(live, p)
      <4>1. q \in Path /\ Above[q] = p
        BY <3>2 DEF Inside
      <4>2. p \in Up[q] /\ q # p
        <5>1. p # None
          BY AboveAssumption
        <5> QED
          BY <4>1, <5>1, UpStep, NotAboveItself
      <4> QED
        BY <1>2, <1>3, <1>6, <4>1, <4>2
    <3> QED
      BY <3>1, <3>2 DEF more
  <2>2. ASSUME NEW q \in more, NEW r \in Path, q \in Up[r]
        PROVE  r \notin more /\ f[r] = None
    <3>1. q \in Path /\ q # p /\ (q \in taker.todo \/ Above[q] = p)
      BY <2>1
    <3>2. Above[q] = p => p \in Up[q] /\ p # None
      BY <3>1, AboveAssumption, UpStep
    <3>3. Above[q] = p => p \in Up[r]
      BY <2>2, <3>1, <3>2, UpTransitive
    <3>4. r \notin taker.todo /\ snaps[s][r] = None
      BY <1>2, <1>3, <2>2, <3>1, <3>3
    <3>5. r # p
      BY <1>2, <3>4
    <3>6. Above[r] # p
      <4>1. ASSUME Above[r] = p PROVE FALSE
        <5>1. p # None /\ Up[r] = {p} \cup Up[p]
          BY <4>1, AboveAssumption, UpStep
        <5>2. q \in Up[p]
          BY <2>2, <3>1, <5>1
        <5>3. q \in taker.todo => p \notin taker.todo
          BY <1>3, <5>2
        <5>4. Above[q] = p => p \in Up[p]
          BY <3>2, <5>2, UpTransitive
        <5> QED
          BY <1>2, <3>1, <5>3, <5>4, NotAboveItself
      <4> QED
        BY <4>1
    <3> QED
      BY <1>6, <3>4, <3>5, <3>6 DEF more, Inside
  <2>3. f # None
    BY <1>6, NoneAssumption
  <2> QED
    BY <1>3, <1>8, <1>11, <2>1, <2>2, <2>3 DEF TakerInv
<1>17. UNCHANGED <<phase, handle, steps, manifest>>
  BY DEF CopyEntry, chronicleVars, commandVars
<1>18. HandleInv'
  <2>1. handle \in Option(Path)
    BY <1>1 DEF ChronicleOK
  <2> QED
    BY <1>13, <1>17, <2>1 DEF UndoInv, HandleInv, Option
<1>19. StepsInv'
  <2>1. Touched' = Touched
    BY <1>17 DEF Touched
  <2> QED
    BY <1>8, <1>17, <2>1, SameSteps, StepsKept
<1> QED
  BY <1>14, <1>15, <1>16, <1>18, <1>19, AllParts

LEMMA SnapshotEndsInv == ASSUME UndoInv, SnapshotEnds PROVE UndoInv'
<1>1. TreeOK /\ CommandOK /\ ChronicleOK /\ MarksOK /\ TypeOK
  BY TypeParts DEF UndoInv
<1>2. taker' = [name |-> None, todo |-> {}]
  BY DEF SnapshotEnds, NoTaker
<1>3. UNCHANGED <<live, snaps, now, phase, handle, steps, manifest, calm>>
  BY DEF SnapshotEnds, chronicleVars, commandVars
<1>4. TreeOK'
  BY <1>1, <1>2, <1>3 DEF TreeOK, Option
<1>5. CommandOK' /\ ChronicleOK'
  BY <1>1, SameCommand, SameChronicle DEF SnapshotEnds
<1>6. MarksOK'
  <2>1. Mishap \/ Succeeds
    BY DEF SnapshotEnds
  <2> QED
    BY <1>1, <1>3, <2>1, MishapType DEF MarksOK
<1>7. TakerInv'
  BY <1>2 DEF TakerInv
<1>8. HandleInv' /\ StepsInv'
  BY <1>3 DEF UndoInv, HandleInv, StepsInv, Touched
<1> QED
  BY <1>4, <1>5, <1>6, <1>7, <1>8, AllParts

(* The command and bystanders: their events, and the tree. *)
LEMMA EventsStay ==
    ASSUME NEW Q \in Seq(Event), NEW path \in [Path -> Option(Path)], NEW d
    PROVE  Relocated(Q, path) \in Seq(Event) /\ Orphaned(Q, d) \in Seq(Event)
<1>1. Len(Q) \in Nat /\ DOMAIN Q = 1 .. Len(Q)
  OBVIOUS
<1>2. ASSUME NEW i \in DOMAIN Q PROVE Relocated(Q, path)[i] \in Event
  <2>1. Q[i] \in Event
    OBVIOUS
  <2>2. EndAt(Q[i], Q[i].path, path) \in Option(Path)
    BY <2>1 DEF EndAt, Event, Option
  <2>3. Relocated(Q, path)[i] = [Q[i] EXCEPT !.path = EndAt(Q[i], Q[i].path, path)]
    BY DEF Relocated
  <2> QED
    BY <2>1, <2>2, <2>3 DEF Event
<1>3. ASSUME NEW i \in DOMAIN Q PROVE Orphaned(Q, d)[i] \in Event
  <2>1. Q[i] \in Event
    OBVIOUS
  <2>2. EndIn(Q[i].path, d) \in Option(Path) /\ EndIn(Q[i].other, d) \in Option(Path)
    BY <2>1 DEF EndIn, Event, Option
  <2>3. CASE Q[i].sort = "fid"
    <3>1. Orphaned(Q, d)[i] = [Q[i] EXCEPT !.path = EndIn(Q[i].path, d),
                                           !.other = EndIn(Q[i].other, d)]
      BY <2>3 DEF Orphaned
    <3> QED
      BY <2>1, <2>2, <3>1 DEF Event
  <2>4. CASE Q[i].sort # "fid"
    <3>1. Orphaned(Q, d)[i] = Q[i]
      BY <2>4 DEF Orphaned
    <3> QED
      BY <2>1, <3>1
  <2> QED
    BY <2>3, <2>4
<1>4. DOMAIN Relocated(Q, path) = 1 .. Len(Q) /\ DOMAIN Orphaned(Q, d) = 1 .. Len(Q)
  BY <1>1 DEF Relocated, Orphaned
<1>5. /\ Relocated(Q, path) = [i \in 1 .. Len(Q) |-> Relocated(Q, path)[i]]
      /\ Orphaned(Q, d) = [i \in 1 .. Len(Q) |-> Orphaned(Q, d)[i]]
  BY <1>1 DEF Relocated, Orphaned
<1>6. Relocated(Q, path) \in Seq(Event)
  BY <1>1, <1>2, <1>5
<1>7. Orphaned(Q, d) \in Seq(Event)
  BY <1>1, <1>3, <1>5
<1> QED
  BY <1>6, <1>7

LEMMA UnlinkedType == ASSUME NEW p \in Path PROVE Unlinked(p) \in [Path -> Option(Path)]
  BY DEF Unlinked, Option

LEMMA MovedType ==
    ASSUME NEW p \in Path, NEW q \in Path PROVE Moved(p, q) \in [Path -> Option(Path)]
  BY DEF Moved, Option

LEMMA DoesType ==
    ASSUME UndoInv, NEW who, NEW Q \in Seq(Event), NEW sort \in {"legacy", "fid"},
           NEW p \in Path, NEW other \in Option(Path), Does(who, Q, sort, p, other)
    PROVE  /\ CommandOK' /\ MarksOK' /\ calm' = FALSE /\ settled' = None
           /\ UNCHANGED <<taker, now, manifest, phase, steps, failed, kept, runs, planned>>
<1>1. TreeOK /\ CommandOK /\ ChronicleOK /\ MarksOK /\ TypeOK
  BY TypeParts DEF UndoInv
<1>2. UNCHANGED <<taker, now, manifest, phase, steps, failed, kept, runs, planned>>
  BY DEF Does
<1>3. [sort |-> sort, path |-> p, other |-> other] \in Event
  BY DEF Event, Option
<1>4. pending' \in Seq(Event)
  BY <1>3 DEF Does
<1>5. ops' \in Nat
  BY <1>1 DEF Does, CommandOK
<1>6. before' \in [Path -> {<<>>} \cup {<<x>> : x \in Option(Kept)}]
  <2> DEFINE B == {<<>>} \cup {<<x>> : x \in Option(Kept)}
  <2>1. before \in [Path -> B]
    BY <1>1 DEF CommandOK
  <2>2. ASSUME NEW q \in Path PROVE <<Copy(live[q])>> \in B
    <3>1. live[q] \in Option(Node)
      BY <1>1 DEF TreeOK, Trees
    <3>2. Copy(live[q]) \in Option(Kept)
      BY <3>1, CopyType
    <3> QED
      BY <3>2
  <2> DEFINE asked == [q \in Path |-> IF q \in {p, other} /\ before[q] = <<>>
                                      THEN <<Copy(live[q])>> ELSE before[q]]
  <2>3. before' = before \/ before' = asked
    BY DEF Does
  <2>4. asked \in [Path -> B]
    <3> HIDE DEF B
    <3> QED
      BY <2>1, <2>2
  <2> HIDE DEF B, asked
  <2>5. before' \in [Path -> B]
    BY <2>1, <2>3, <2>4
  <2> QED
    BY <2>5 DEF B
<1>7. CommandOK'
  BY <1>1, <1>2, <1>4, <1>5, <1>6 DEF CommandOK
<1>8. mishaps' \in Nat /\ settled' = None /\ calm' = FALSE
  BY <1>1 DEF Does, Mishap, MarksOK
<1>9. MarksOK'
  BY <1>8 DEF MarksOK, Option
<1> QED
  BY <1>2, <1>7, <1>8, <1>9

LEMMA ActedInv ==
    ASSUME UndoInv, CommandOK', MarksOK',
           UNCHANGED <<taker, now, manifest, phase, steps, failed, kept, runs, planned>>,
           live' \in Trees, IsTree(live'), snaps' \in Snapshots, SameHoles(snaps, snaps'),
           handle' = None \/ (handle # None /\ handle' \in Path /\ IsFile(live', handle'))
    PROVE  UndoInv'
<1>1. TreeOK /\ CommandOK /\ ChronicleOK /\ MarksOK
  BY TypeParts DEF UndoInv
<1>2. TreeOK'
  BY <1>1 DEF TreeOK
<1>3. ChronicleOK'
  BY <1>1 DEF ChronicleOK, Option
<1>4. TakerInv'
  BY TakerKept
<1>5. HandleInv'
  BY DEF UndoInv, HandleInv
<1>6. StepsInv'
  <2>1. Touched' = Touched
    BY DEF Touched
  <2> QED
    BY <2>1, SameSteps, SameHolesFills, StepsKept
<1> QED
  BY <1>2, <1>3, <1>4, <1>5, <1>6, AllParts

LEMMA HandleIs ==
    ASSUME UndoInv PROVE handle = None \/ (handle # None /\ handle \in Path /\ IsFile(live, handle))
  BY DEF UndoInv, HandleInv, TypeOK, Option

LEMMA TreeParts ==
    ASSUME UndoInv
    PROVE  live \in Trees /\ IsTree(live) /\ snaps \in Snapshots /\ pending \in Seq(Event)
  BY DEF UndoInv, TypeOK, Trees, Snapshots

LEMMA LiveNode ==
    ASSUME UndoInv, NEW p \in Path
    PROVE  /\ live[p] \in Option(Node)
           /\ IsFile(live, p) \/ IsDir(live, p) => live[p] # None /\ live[p] \in Node
           /\ live[p] # None => (IsFile(live, p) <=> ~IsDir(live, p))
<1>1. live[p] \in Option(Node)
  BY TreeParts DEF Trees
<1> QED
  BY <1>1 DEF Option, IsFile, IsDir, Node

LEMMA WriteFileInv ==
    ASSUME UndoInv, NEW who, NEW p \in Path, NEW v \in Content, WriteFile(who, p, v)
    PROVE  UndoInv'
<1>1. live \in Trees /\ IsTree(live) /\ snaps \in Snapshots /\ pending \in Seq(Event)
  BY TreeParts
<1>2. v \in Data /\ live[p] \in Option(Node)
  BY LiveNode DEF Data
<1>3. live' = InPlace(live, p, v) /\ Reachable(live, p) /\ ~IsDir(live, p)
  BY DEF WriteFile
<1>4. /\ live' \in Trees /\ IsTree(live') /\ IsFile(live', p)
      /\ \A q \in Path : q # p => live'[q] = live[q]
  BY <1>1, <1>2, <1>3, InPlaceTree
<1>5. snaps' \in Snapshots /\ SameHoles(snaps, snaps')
  BY <1>1, <1>2, ThroughIs DEF WriteFile
<1>6. \E sort \in {"legacy", "fid"} : Does(who, pending, sort, p, None)
  BY DEF WriteFile
<1>7. /\ CommandOK' /\ MarksOK'
      /\ UNCHANGED <<taker, now, manifest, phase, steps, failed, kept, runs, planned>>
  BY <1>1, <1>6, DoesType DEF Option
<1>8. handle' = None \/ (handle # None /\ handle' \in Path /\ IsFile(live', handle'))
  <2>1. handle' = handle
    BY DEF WriteFile
  <2>2. CASE handle = p
    BY <1>4, <2>1, <2>2, HandleIs
  <2>3. CASE handle # p
    BY <1>4, <2>1, <2>3, HandleIs DEF IsFile
  <2> QED
    BY <2>2, <2>3
<1> QED
  BY <1>4, <1>5, <1>7, <1>8, ActedInv

LEMMA MakeDirInv ==
    ASSUME UndoInv, NEW who, NEW p \in Path, MakeDir(who, p) PROVE UndoInv'
<1>1. live \in Trees /\ IsTree(live) /\ snaps \in Snapshots /\ pending \in Seq(Event)
  BY TreeParts
<1>2. Reachable(live, p) /\ live[p] = None /\ live' = [live EXCEPT ![p] = Dir]
  BY DEF MakeDir
<1>3. live' \in Trees /\ \A q \in Path : live'[q] = IF q = p THEN Dir ELSE live[q]
  BY <1>1, <1>2, DirIsNode DEF Trees, Option
<1>4. IsTree(live')
  <2>1. ASSUME NEW q \in Path, live'[q] # None PROVE Reachable(live', q)
    <3>1. Reachable(live, q)
      BY <1>1, <1>2, <1>3, <2>1 DEF IsTree
    <3>2. Above[q] # None => Above[q] \in Path /\ IsDir(live, Above[q])
      BY <3>1, AboveAssumption DEF Reachable
    <3> QED
      BY <1>2, <1>3, <3>2 DEF Reachable, IsDir
  <2> QED
    BY <2>1 DEF IsTree
<1>5. Does(who, pending, "fid", p, None) /\ snaps' = snaps /\ handle' = handle
  BY DEF MakeDir
<1>6. /\ CommandOK' /\ MarksOK'
      /\ UNCHANGED <<taker, now, manifest, phase, steps, failed, kept, runs, planned>>
  BY <1>1, <1>5, DoesType DEF Option
<1>7. handle' = None \/ (handle # None /\ handle' \in Path /\ IsFile(live', handle'))
  BY <1>2, <1>3, <1>5, HandleIs DEF IsFile
<1> QED
  BY <1>1, <1>3, <1>4, <1>5, <1>6, <1>7, ActedInv, SameHolesRefl

LEMMA UnlinkInv ==
    ASSUME UndoInv, NEW who, NEW p \in Path, Unlink(who, p) PROVE UndoInv'
<1>1. live \in Trees /\ IsTree(live) /\ snaps \in Snapshots /\ pending \in Seq(Event)
  BY TreeParts
<1>2. IsFile(live, p) /\ ~IsDir(live, p) /\ live' = [live EXCEPT ![p] = None]
  BY LiveNode DEF Unlink
<1>3. live' \in Trees /\ IsTree(live')
  BY <1>1, <1>2, WithoutTree
<1>4. Does(who, Relocated(pending, Unlinked(p)), "fid", p, None) /\ snaps' = snaps
  BY DEF Unlink
<1>5. Relocated(pending, Unlinked(p)) \in Seq(Event)
  BY <1>1, UnlinkedType, EventsStay
<1>6. /\ CommandOK' /\ MarksOK'
      /\ UNCHANGED <<taker, now, manifest, phase, steps, failed, kept, runs, planned>>
  BY <1>4, <1>5, DoesType DEF Option
<1>7. handle' = None \/ (handle # None /\ handle' \in Path /\ IsFile(live', handle'))
  <2>1. handle' = IF handle = p THEN None ELSE handle
    BY DEF Unlink
  <2>2. \A q \in Path : q # p => live'[q] = live[q]
    BY <1>1, <1>2 DEF Trees
  <2> QED
    BY <2>1, <2>2, HandleIs DEF IsFile
<1> QED
  BY <1>1, <1>3, <1>4, <1>6, <1>7, ActedInv, SameHolesRefl

LEMMA RemoveDirInv ==
    ASSUME UndoInv, NEW who, NEW p \in Path, RemoveDir(who, p) PROVE UndoInv'
<1>1. live \in Trees /\ IsTree(live) /\ snaps \in Snapshots /\ pending \in Seq(Event)
  BY TreeParts
<1>2. /\ IsDir(live, p) /\ ~IsFile(live, p) /\ Inside(live, p) = {}
      /\ live' = [live EXCEPT ![p] = None]
  BY LiveNode DEF RemoveDir
<1>3. live' \in Trees /\ IsTree(live')
  BY <1>1, <1>2, WithoutTree
<1>4. Does(who, Orphaned(pending, p), "fid", p, None) /\ snaps' = snaps /\ handle' = handle
  BY DEF RemoveDir
<1>5. Orphaned(pending, p) \in Seq(Event)
  BY <1>1, UnlinkedType, EventsStay
<1>6. /\ CommandOK' /\ MarksOK'
      /\ UNCHANGED <<taker, now, manifest, phase, steps, failed, kept, runs, planned>>
  BY <1>4, <1>5, DoesType DEF Option
<1>7. handle' = None \/ (handle # None /\ handle' \in Path /\ IsFile(live', handle'))
  <2>1. \A q \in Path : q # p => live'[q] = live[q]
    BY <1>1, <1>2 DEF Trees
  <2> QED
    BY <1>2, <1>4, <2>1, HandleIs DEF IsFile
<1> QED
  BY <1>1, <1>3, <1>4, <1>6, <1>7, ActedInv, SameHolesRefl

LEMMA RenameInv ==
    ASSUME UndoInv, NEW who, NEW p \in Path, NEW q \in Path, Rename(who, p, q)
    PROVE  UndoInv'
<1>1. live \in Trees /\ IsTree(live) /\ snaps \in Snapshots /\ pending \in Seq(Event)
  BY TreeParts
<1>2. /\ p # q /\ IsFile(live, p) /\ Reachable(live, q) /\ ~IsDir(live, q) /\ ~IsDir(live, p)
      /\ live[p] \in Node /\ live[p] # None
      /\ live' = [live EXCEPT ![q] = live[p], ![p] = None]
  BY LiveNode DEF Rename
<1>3. /\ live' \in Trees /\ live'[q] = live[p] /\ live'[p] = None
      /\ \A x \in Path : x # p /\ x # q => live'[x] = live[x]
  BY <1>1, <1>2 DEF Trees, Option
<1>4. IsTree(live')
  <2>1. ASSUME NEW x \in Path, live'[x] # None PROVE Reachable(live', x)
    <3>1. Reachable(live, x)
      BY <1>1, <1>2, <1>3, <2>1 DEF IsTree
    <3>2. Above[x] # None => Above[x] \in Path /\ IsDir(live, Above[x])
      BY <3>1, AboveAssumption DEF Reachable
    <3>3. Above[x] # None => Above[x] # p /\ Above[x] # q
      BY <1>2, <3>2
    <3> QED
      BY <1>3, <3>2, <3>3 DEF Reachable, IsDir
  <2> QED
    BY <2>1 DEF IsTree
<1>5. Does(who, Relocated(pending, Moved(p, q)), "fid", q, p) /\ snaps' = snaps
  BY DEF Rename
<1>6. Relocated(pending, Moved(p, q)) \in Seq(Event)
  BY <1>1, MovedType, EventsStay
<1>7. /\ CommandOK' /\ MarksOK'
      /\ UNCHANGED <<taker, now, manifest, phase, steps, failed, kept, runs, planned>>
  BY <1>5, <1>6, DoesType DEF Option
<1>8. handle' = None \/ (handle # None /\ handle' \in Path /\ IsFile(live', handle'))
  <2>1. handle' = IF handle = p THEN q ELSE IF handle = q THEN None ELSE handle
    BY DEF Rename
  <2>2. p # None /\ q # None
    BY AboveAssumption
  <2>3. CASE handle = p
    BY <1>2, <1>3, <2>1, <2>2, <2>3 DEF IsFile
  <2>4. CASE handle # p
    BY <1>3, <2>1, <2>2, <2>4, HandleIs DEF IsFile
  <2> QED
    BY <2>3, <2>4
<1> QED
  BY <1>1, <1>3, <1>4, <1>5, <1>7, <1>8, ActedInv, SameHolesRefl

LEMMA AttribInv == ASSUME UndoInv, NEW p \in Path, Attrib(p) PROVE UndoInv'
<1>1. live \in Trees /\ IsTree(live) /\ snaps \in Snapshots /\ pending \in Seq(Event)
  BY TreeParts
<1>2. Does("command", pending, "fid", p, None) /\ UNCHANGED <<live, snaps, handle>>
  BY DEF Attrib
<1>3. /\ CommandOK' /\ MarksOK'
      /\ UNCHANGED <<taker, now, manifest, phase, steps, failed, kept, runs, planned>>
  BY <1>1, <1>2, DoesType DEF Option
<1>4. handle' = None \/ (handle # None /\ handle' \in Path /\ IsFile(live', handle'))
  BY <1>2, HandleIs
<1> QED
  BY <1>1, <1>2, <1>3, <1>4, ActedInv, SameHolesRefl

LEMMA RecordInv == ASSUME UndoInv, Record PROVE UndoInv'
<1>1. TreeOK /\ CommandOK /\ ChronicleOK /\ MarksOK
  BY TypeParts DEF UndoInv
<1> DEFINE e == Head(pending)
           at == IF e.path # None THEN e.path ELSE e.other
           other == IF e.path # None THEN e.other ELSE None
           f == [path |-> at, other |-> other, ts |-> now]
<1>2. pending # <<>> /\ pending' = Tail(pending) /\ pending \in Seq(Event)
  BY <1>1 DEF Record, CommandOK
<1>3. e \in Event /\ pending' \in Seq(Event)
  BY <1>2
<1>4. at # None => f \in FileEvent
  <2>1. now \in Nat
    BY <1>1, BoundAssumption DEF TreeOK
  <2>2. e.path \in Option(Path) /\ e.other \in Option(Path)
    BY <1>3 DEF Event
  <2>3. at # None => at \in Path
    BY <2>2 DEF Option
  <2>4. other \in Option(Path)
    BY <2>2 DEF Option
  <2> HIDE DEF at, other
  <2> QED
    BY <2>1, <2>3, <2>4 DEF FileEvent
<1>5. manifest' = IF at = None THEN manifest ELSE Append(manifest, f)
  BY DEF Record
<1> HIDE DEF f, at
<1>6. manifest' = manifest \/ \E g \in FileEvent : manifest' = Append(manifest, g)
  BY <1>4, <1>5
<1>7. manifest' \in Seq(FileEvent)
  BY <1>1, <1>6 DEF CommandOK
<1>8. UNCHANGED <<treeVars, ops, before, chronicleVars, mishaps>> /\ calm' = FALSE /\ settled' = None
  BY DEF Record
<1>9. CommandOK'
  BY <1>1, <1>3, <1>7, <1>8 DEF CommandOK
<1>10. TreeOK' /\ ChronicleOK'
  BY <1>1, <1>8, SameTree, SameChronicle
<1>11. MarksOK'
  BY <1>1, <1>8 DEF MarksOK, Option
<1>12. UNCHANGED <<live, snaps, taker, phase, handle, steps>>
  BY <1>8 DEF treeVars, chronicleVars
<1>13. TakerInv' /\ HandleInv'
  BY <1>12 DEF UndoInv, TakerInv, HandleInv
<1>14. StepsInv'
  BY <1>6, <1>12, TouchedGrows, SameSteps, SameHolesRefl, SameHolesFills, StepsKept
<1> QED
  BY <1>9, <1>10, <1>11, <1>13, <1>14, AllParts

(* chronicle. *)
LEMMA ChronicleActed ==
    ASSUME UndoInv, ChronicleOK', MarksOK', UNCHANGED <<taker, now, ops, manifest, before>>,
           pending' \in Seq(Event),
           live' \in Trees, IsTree(live'), snaps' \in Snapshots, SameHoles(snaps, snaps'),
           phase' # "copy" => handle' = None,
           handle' # None => IsFile(live', handle'),
           StepsInv' \/ \A i \in DOMAIN steps' : \E j \in DOMAIN steps : steps'[i] = steps[j]
    PROVE  UndoInv'
<1>1. TreeOK /\ CommandOK
  BY TypeParts DEF UndoInv
<1>2. TreeOK' /\ CommandOK'
  BY <1>1 DEF TreeOK, CommandOK
<1>3. TakerInv'
  BY TakerKept
<1>4. HandleInv'
  BY DEF HandleInv
<1>5. StepsInv'
  <2>1. Touched' = Touched
    BY DEF Touched
  <2> QED
    BY <2>1, SameHolesFills, StepsKept
<1> QED
  BY <1>2, <1>3, <1>4, <1>5, AllParts

LEMMA NextStepIs ==
    ASSUME UndoInv, steps # <<>>
    PROVE  LET st == Head(steps)
           IN  /\ st \in Step /\ st.path \in Path /\ st = steps[1] /\ 1 \in DOMAIN steps
               /\ st.do # "skip" => st.path \in Touched \ (Refused \cup Outside)
               /\ st.do = "restore" =>
                      /\ st.from \in 0 .. MaxTime /\ snaps[st.from] # None
                      /\ snaps[st.from][st.path] \in Kept
                      /\ snaps[st.from][st.path].data \in Data
               /\ Tail(steps) \in Seq(Step)
               /\ \A i \in DOMAIN Tail(steps) : \E j \in DOMAIN steps :
                      Tail(steps)[i] = steps[j]
<1> DEFINE st == Head(steps)
<1>1. steps \in Seq(Step)
  BY DEF UndoInv, TypeOK
<1>2. st \in Step /\ st = steps[1] /\ 1 \in DOMAIN steps /\ Tail(steps) \in Seq(Step)
  BY <1>1
<1>3. \A i \in DOMAIN Tail(steps) : i + 1 \in DOMAIN steps /\ Tail(steps)[i] = steps[i + 1]
  BY <1>1
<1>4. st.path \in Path
  BY <1>2 DEF Step
<1>5. /\ st.do # "skip" => st.path \in Touched \ (Refused \cup Outside)
      /\ st.do = "restore" => /\ st.from \in 0 .. MaxTime /\ snaps[st.from] # None
                              /\ snaps[st.from][st.path] # None
  BY <1>2 DEF UndoInv, StepsInv
<1>6. st.do = "restore" => /\ snaps[st.from][st.path] \in Kept
                           /\ snaps[st.from][st.path].data \in Data
  <2> HAVE st.do = "restore"
  <2> HIDE DEF st
  <2>1. snaps[st.from] \in [Path -> Option(Kept)]
    BY <1>5, TreeParts DEF Snapshots, Option
  <2>2. snaps[st.from][st.path] \in Kept
    BY <1>4, <1>5, <2>1 DEF Option
  <2> QED
    BY <2>2 DEF Kept
<1> QED
  BY <1>2, <1>3, <1>4, <1>5, <1>6

(* Where a path is touched first is among what is touched. *)
LEMMA FirstTouchTouched ==
    ASSUME UndoInv, NEW k \in FirstTouches(manifest)
    PROVE  Touch(manifest, k).path \in Touched
<1>1. manifest \in Seq(FileEvent)
  BY DEF UndoInv, TypeOK
<1>2. k \in 1 .. 2 * Len(manifest) /\ Touch(manifest, k).path # None
  BY <1>1, FirstTouchType
<1>3. PICK i \in DOMAIN manifest : \/ Touch(manifest, k).path = manifest[i].path
                                   \/ Touch(manifest, k).path = manifest[i].other
  BY <1>1, <1>2, TouchIs
<1> QED
  BY <1>2, <1>3 DEF Touched

LEMMA PlanUndoInv == ASSUME UndoInv, PlanUndo PROVE UndoInv'
<1>1. TreeOK /\ CommandOK /\ ChronicleOK /\ MarksOK
  BY TypeParts DEF UndoInv
<1>2. manifest \in Seq(FileEvent) /\ snaps \in Snapshots
  BY <1>1 DEF CommandOK, TreeOK
<1>3. steps' = Plan(manifest, snaps)
  BY DEF PlanUndo
<1>4. /\ steps' \in Seq(Step)
      /\ \A i \in DOMAIN steps' : \E k \in FirstTouches(manifest) :
             steps'[i] = StepFor(snaps, Touch(manifest, k))
  BY <1>2, <1>3, PlanIs
<1>5. /\ phase' = "apply" /\ runs' = runs + 1 /\ failed' = 0 /\ kept' = 0
      /\ planned' = snaps /\ calm' = TRUE
      /\ phase \in {"idle", "done"}
      /\ UNCHANGED <<treeVars, commandVars, handle, mishaps, settled>>
  BY DEF PlanUndo
<1>6. ChronicleOK'
  BY <1>1, <1>2, <1>4, <1>5 DEF ChronicleOK
<1>7. MarksOK'
  BY <1>1, <1>5 DEF MarksOK
<1>8. UNCHANGED <<live, snaps, taker, now, ops, manifest, before, pending>>
  BY <1>5 DEF treeVars, commandVars
<1>9. StepsInv'
  <2>1. ASSUME NEW i \in DOMAIN steps'
        PROVE  /\ steps'[i].do # "skip" =>
                      steps'[i].path \in Touched' \ (Refused \cup Outside)
               /\ steps'[i].do = "restore" =>
                      /\ steps'[i].from \in 0 .. MaxTime /\ snaps'[steps'[i].from] # None
                      /\ snaps'[steps'[i].from][steps'[i].path] # None
    <3>1. PICK k \in FirstTouches(manifest) : steps'[i] = StepFor(snaps, Touch(manifest, k))
      BY <1>4, <2>1
    <3>2. Touch(manifest, k) \in ATouch
      BY <1>2, FirstTouchType
    <3>3. Touch(manifest, k).path \in Touched /\ Touched' = Touched
      BY <1>8, FirstTouchTouched DEF Touched
    <3> DEFINE st == steps'[i]
    <3>4. /\ st.path = Touch(manifest, k).path
          /\ st.do # "skip" => Touch(manifest, k).path \notin Refused \cup Outside
          /\ st.do = "restore" => /\ st.from \in 0 .. MaxTime /\ snaps[st.from] # None
                                  /\ snaps[st.from][st.path] # None
      BY <1>2, <3>1, <3>2, StepForIs
    <3> QED
      BY <1>8, <3>3, <3>4
  <2> QED
    BY <2>1 DEF StepsInv
<1>10. handle' = None
  BY <1>5 DEF UndoInv, HandleInv
<1>11. live \in Trees /\ IsTree(live) /\ pending \in Seq(Event)
  BY TreeParts
<1> QED
  BY <1>2, <1>6, <1>7, <1>8, <1>9, <1>10, <1>11, ChronicleActed, SameHolesRefl

(* A file opened for writing where the directories have been made. *)
LEMMA OpenRestoredIs ==
    ASSUME UndoInv, OpenRestored
    PROVE  LET p == Head(steps).path
           IN  /\ p \in Path /\ live' \in Trees /\ IsTree(live') /\ IsFile(live', p)
               /\ live'[p].data = Blank
               /\ live[p] # None => live'[p].links = live[p].links
               /\ live[p] = None => live'[p].links = {}
               /\ \A q \in Path : q # p /\ live'[q] # live[q] =>
                      live[q] = None /\ q \in Up[p] /\ live'[q] = Dir
               /\ snaps' \in Snapshots /\ SameHoles(snaps, snaps')
               /\ snaps' = Through(snaps, live[p], Blank)
<1> DEFINE p == Head(steps).path
           made == MakeDirs(live, p)
<1>1. p \in Path /\ live \in Trees /\ IsTree(live) /\ snaps \in Snapshots
  BY NextStepIs, TreeParts DEF OpenRestored, NextIs
<1>2. CanMakeDirs(live, p) /\ ~IsDir(live, p) /\ live' = InPlace(made, p, Blank)
      /\ snaps' = Through(snaps, live[p], Blank)
  BY DEF OpenRestored
<1> HIDE DEF p
<1>3. /\ made \in Trees /\ IsTree(made) /\ Reachable(made, p) /\ made[p] = live[p]
      /\ \A q \in Path : made[q] # live[q] =>
             live[q] = None /\ q \in Up[p] /\ made[q] = Dir
  BY <1>1, <1>2, MakeDirsTree
<1> HIDE DEF made
<1>4. ~IsDir(made, p)
  BY <1>2, <1>3 DEF IsDir
<1>5. Blank \in Data
  BY DEF Data
<1>6. /\ live' \in Trees /\ IsTree(live') /\ IsFile(live', p) /\ live'[p].data = Blank
      /\ made[p] = None => live'[p].links = {}
      /\ made[p] # None => live'[p].links = made[p].links
      /\ \A q \in Path : q # p => live'[q] = made[q]
  BY <1>1, <1>2, <1>3, <1>4, <1>5, InPlaceTree
<1>7. snaps' \in Snapshots /\ SameHoles(snaps, snaps')
  <2>1. live[p] \in Option(Node)
    BY <1>1, LiveNode
  <2> QED
    BY <1>1, <1>2, <1>5, <2>1, ThroughIs
<1> QED
  BY <1>1, <1>2, <1>3, <1>6, <1>7 DEF p

LEMMA OpenRestoredInv == ASSUME UndoInv, OpenRestored PROVE UndoInv'
<1>1. TreeOK /\ CommandOK /\ ChronicleOK /\ MarksOK
  BY TypeParts DEF UndoInv
<1>2. /\ handle' = Head(steps).path /\ phase' = "copy" /\ steps' = steps
      /\ steps # <<>> /\ Head(steps).do = "restore"
      /\ UNCHANGED <<taker, now, commandVars, failed, kept, runs, planned, mishaps, calm, settled>>
  BY DEF OpenRestored, NextIs
<1>3. /\ handle' \in Path /\ live' \in Trees /\ IsTree(live') /\ IsFile(live', handle')
      /\ snaps' \in Snapshots /\ SameHoles(snaps, snaps')
  BY <1>2, OpenRestoredIs
<1>4. ChronicleOK'
  BY <1>1, <1>2, <1>3 DEF ChronicleOK, Option
<1>5. MarksOK'
  BY <1>1, <1>2 DEF MarksOK
<1>6. UNCHANGED <<ops, manifest, before, pending>> /\ pending \in Seq(Event)
  BY <1>2, TreeParts DEF commandVars
<1> QED
  BY <1>2, <1>3, <1>4, <1>5, <1>6, ChronicleActed, SameSteps

LEMMA RestoreFailsIs ==
    ASSUME UndoInv, RestoreFails
    PROVE  LET p == Head(steps).path
           IN  /\ p \in Path /\ live' \in Trees /\ IsTree(live')
               /\ \A q \in Path : live'[q] # live[q] =>
                      live[q] = None /\ q \in Up[p] /\ live'[q] = Dir
<1> DEFINE p == Head(steps).path
           made == IF CanMakeDirs(live, p) THEN MakeDirs(live, p) ELSE live
<1>1. p \in Path /\ live \in Trees /\ IsTree(live)
  BY NextStepIs, TreeParts DEF RestoreFails, NextIs
<1>2. live' \in {live, made}
  BY DEF RestoreFails
<1> HIDE DEF p
<1>3. /\ made \in Trees /\ IsTree(made)
      /\ \A q \in Path : made[q] # live[q] =>
             live[q] = None /\ q \in Up[p] /\ made[q] = Dir
  BY <1>1, MakeDirsTree
<1> HIDE DEF made
<1> QED
  BY <1>1, <1>2, <1>3 DEF p

LEMMA RestoreFailsInv == ASSUME UndoInv, RestoreFails PROVE UndoInv'
<1>1. TreeOK /\ CommandOK /\ ChronicleOK /\ MarksOK /\ TypeOK
  BY TypeParts DEF UndoInv
<1>2. /\ failed' = failed + 1 /\ steps' = Tail(steps) /\ phase = "apply" /\ steps # <<>>
      /\ UNCHANGED <<snaps, taker, now, commandVars, phase, handle, kept, runs, planned, calm>>
  BY DEF RestoreFails, NextIs, NextStep
<1>3. live' \in Trees /\ IsTree(live')
  BY RestoreFailsIs
<1>4. Mishap \/ Succeeds
  BY DEF RestoreFails
<1>5. Tail(steps) \in Seq(Step) /\ \A i \in DOMAIN Tail(steps) : \E j \in DOMAIN steps :
                                       Tail(steps)[i] = steps[j]
  BY <1>2, NextStepIs
<1>6. ChronicleOK'
  BY <1>1, <1>2, <1>5 DEF ChronicleOK
<1>7. MarksOK'
  BY <1>1, <1>2, <1>4, MishapType DEF MarksOK
<1>8. UNCHANGED <<ops, manifest, before, pending>> /\ pending \in Seq(Event)
      /\ snaps \in Snapshots
  BY <1>2, TreeParts DEF commandVars
<1>9. handle' = None
  BY <1>2 DEF UndoInv, HandleInv
<1> QED
  BY <1>2, <1>3, <1>5, <1>6, <1>7, <1>8, <1>9, ChronicleActed, SameHolesRefl

LEMMA CopyDataIs ==
    ASSUME UndoInv, CopyData
    PROVE  LET v == snaps[Head(steps).from][Head(steps).path].data
           IN  /\ v \in Data /\ live' \in Trees /\ IsTree(live')
               /\ snaps' \in Snapshots /\ SameHoles(snaps, snaps')
               /\ \A q \in Path : q # handle => live'[q] = live[q]
               /\ live' = live \/
                      /\ handle # None /\ handle \in Path /\ IsFile(live', handle)
                      /\ IsFile(live, handle)
                      /\ live'[handle].data = v
                      /\ live'[handle].links = live[handle].links
               /\ snaps' = snaps \/ (handle # None /\ snaps' = Through(snaps, live[handle], v))
<1> DEFINE v == snaps[Head(steps).from][Head(steps).path].data
<1>1. live \in Trees /\ IsTree(live) /\ snaps \in Snapshots
  BY TreeParts
<1>2. v \in Data
  <2>1. phase = "copy"
    BY DEF CopyData
  <2>2. steps # <<>> /\ Head(steps).do = "restore"
    BY <2>1 DEF UndoInv, TypeOK
  <2> QED
    BY <2>2, NextStepIs
<1>3. \/ live' = live /\ snaps' = snaps
      \/ /\ handle # None /\ live' = InPlace(live, handle, v)
         /\ snaps' = Through(snaps, live[handle], v)
  BY DEF CopyData
<1> HIDE DEF v
<1>4. CASE live' = live /\ snaps' = snaps
  BY <1>1, <1>2, <1>4, SameHolesRefl DEF v
<1>5. CASE /\ handle # None /\ live' = InPlace(live, handle, v)
           /\ snaps' = Through(snaps, live[handle], v)
  <2>1. handle \in Path /\ IsFile(live, handle)
    BY <1>5, HandleIs
  <2>2. live[handle] # None /\ ~IsDir(live, handle) /\ Reachable(live, handle)
    BY <1>1, <2>1, LiveNode DEF IsTree
  <2>3. /\ live' \in Trees /\ IsTree(live') /\ IsFile(live', handle)
        /\ live'[handle].data = v /\ live'[handle].links = live[handle].links
        /\ \A q \in Path : q # handle => live'[q] = live[q]
    BY <1>1, <1>2, <1>5, <2>1, <2>2, InPlaceTree
  <2>4. snaps' \in Snapshots /\ SameHoles(snaps, snaps')
    <3>1. live[handle] \in Option(Node)
      BY <2>1, LiveNode
    <3> QED
      BY <1>1, <1>2, <1>5, <3>1, ThroughIs
  <2> QED
    BY <1>2, <1>5, <2>1, <2>3, <2>4 DEF v
<1> QED
  BY <1>3, <1>4, <1>5

LEMMA CopyDataInv == ASSUME UndoInv, CopyData PROVE UndoInv'
<1>1. TreeOK /\ CommandOK /\ ChronicleOK /\ MarksOK /\ TypeOK
  BY TypeParts DEF UndoInv
<1>2. /\ steps' = Tail(steps) /\ phase' = "apply" /\ handle' = None /\ phase = "copy"
      /\ failed' \in {failed, failed + 1}
      /\ UNCHANGED <<taker, now, commandVars, kept, runs, planned, calm>>
  BY DEF CopyData, NextStep
<1>3. live' \in Trees /\ IsTree(live') /\ snaps' \in Snapshots /\ SameHoles(snaps, snaps')
  BY CopyDataIs
<1>4. Mishap \/ Succeeds
  BY DEF CopyData
<1>5. Tail(steps) \in Seq(Step) /\ \A i \in DOMAIN Tail(steps) : \E j \in DOMAIN steps :
                                       Tail(steps)[i] = steps[j]
  <2>1. steps # <<>>
    BY <1>1, <1>2 DEF ChronicleOK
  <2> QED
    BY <2>1, NextStepIs
<1>6. ChronicleOK'
  BY <1>1, <1>2, <1>5 DEF ChronicleOK, Option
<1>7. MarksOK'
  BY <1>1, <1>2, <1>4, MishapType DEF MarksOK
<1>8. UNCHANGED <<ops, manifest, before, pending>> /\ pending \in Seq(Event)
  BY <1>2, TreeParts DEF commandVars
<1> QED
  BY <1>2, <1>3, <1>5, <1>6, <1>7, <1>8, ChronicleActed

LEMMA RemoveCreatedIs ==
    ASSUME UndoInv, RemoveCreated
    PROVE  LET p == Head(steps).path
           IN  /\ p \in Path /\ live' \in Trees /\ IsTree(live')
               /\ \A q \in Path : q # p => live'[q] = live[q]
               /\ live' = live \/ (live[p] # None /\ live'[p] = None)
               /\ pending' \in Seq(Event)
<1> DEFINE p == Head(steps).path
<1>1. p \in Path /\ live \in Trees /\ IsTree(live) /\ pending \in Seq(Event)
  BY NextStepIs, TreeParts DEF RemoveCreated, NextIs
<1>2. \/ live' = live /\ pending' = pending
      \/ /\ IsFile(live, p) \/ (IsDir(live, p) /\ ~(IsDir(live, p) /\ Inside(live, p) # {}))
         /\ live' = [live EXCEPT ![p] = None]
         /\ pending' = IF IsDir(live, p) THEN Orphaned(pending, p)
                       ELSE Relocated(pending, Unlinked(p))
  BY DEF RemoveCreated
<1> HIDE DEF p
<1>3. CASE live' = live /\ pending' = pending
  BY <1>1, <1>3 DEF p
<1>4. CASE /\ IsFile(live, p) \/ (IsDir(live, p) /\ ~(IsDir(live, p) /\ Inside(live, p) # {}))
           /\ live' = [live EXCEPT ![p] = None]
           /\ pending' = IF IsDir(live, p) THEN Orphaned(pending, p)
                         ELSE Relocated(pending, Unlinked(p))
  <2>1. live[p] # None /\ (IsDir(live, p) => Inside(live, p) = {})
    BY <1>1, <1>4, LiveNode
  <2>2. live' \in Trees /\ IsTree(live')
    BY <1>1, <1>4, <2>1, WithoutTree
  <2>3. live'[p] = None /\ \A q \in Path : q # p => live'[q] = live[q]
    BY <1>1, <1>4 DEF Trees
  <2>4. pending' \in Seq(Event)
    <3>1. Unlinked(p) \in [Path -> Option(Path)]
      BY <1>1, UnlinkedType
    <3> QED
      BY <1>1, <1>4, <3>1, EventsStay
  <2> QED
    BY <1>1, <2>1, <2>2, <2>3, <2>4 DEF p
<1> QED
  BY <1>2, <1>3, <1>4

LEMMA RemoveCreatedInv == ASSUME UndoInv, RemoveCreated PROVE UndoInv'
<1>1. TreeOK /\ CommandOK /\ ChronicleOK /\ MarksOK /\ TypeOK
  BY TypeParts DEF UndoInv
<1>2. /\ steps' = Tail(steps) /\ phase = "apply" /\ steps # <<>>
      /\ failed' \in {failed, failed + 1} /\ kept' \in {kept, kept + 1}
      /\ UNCHANGED <<snaps, taker, now, ops, manifest, before, phase, handle, runs, planned, calm>>
  BY DEF RemoveCreated, NextIs, NextStep
<1>3. live' \in Trees /\ IsTree(live') /\ pending' \in Seq(Event) /\ snaps \in Snapshots
  BY RemoveCreatedIs, TreeParts
<1>4. Mishap \/ Succeeds
  BY DEF RemoveCreated
<1>5. Tail(steps) \in Seq(Step) /\ \A i \in DOMAIN Tail(steps) : \E j \in DOMAIN steps :
                                       Tail(steps)[i] = steps[j]
  BY <1>2, NextStepIs
<1>6. ChronicleOK'
  BY <1>1, <1>2, <1>5 DEF ChronicleOK
<1>7. MarksOK'
  BY <1>1, <1>2, <1>4, MishapType DEF MarksOK
<1>8. handle' = None
  BY <1>2 DEF UndoInv, HandleInv
<1> QED
  BY <1>2, <1>3, <1>5, <1>6, <1>7, <1>8, ChronicleActed, SameHolesRefl

(* What leaves the tree and the files open alone. *)
LEMMA QuietInv ==
    ASSUME UndoInv, UNCHANGED <<treeVars, commandVars, mishaps, calm, runs, planned>>,
           phase' \in {"idle", "apply", "done"}, handle' = None,
           failed' \in Nat, kept' \in Nat, settled' \in Option([Path -> Option(Kept)]),
           steps' = steps \/ steps' = <<>> \/ (steps # <<>> /\ steps' = Tail(steps))
    PROVE  UndoInv'
<1>1. TreeOK /\ CommandOK /\ ChronicleOK /\ MarksOK
  BY TypeParts DEF UndoInv
<1>2. /\ steps' \in Seq(Step)
      /\ \A i \in DOMAIN steps' : \E j \in DOMAIN steps : steps'[i] = steps[j]
  <2>1. CASE steps' = steps
    BY <1>1, <2>1 DEF ChronicleOK
  <2>2. CASE steps' = <<>>
    BY <2>2
  <2>3. CASE steps # <<>> /\ steps' = Tail(steps)
    BY <2>3, NextStepIs
  <2> QED
    BY <2>1, <2>2, <2>3
<1>3. ChronicleOK'
  BY <1>1, <1>2 DEF ChronicleOK, Option
<1>4. MarksOK'
  BY <1>1 DEF MarksOK
<1>5. UNCHANGED <<live, snaps, taker, now, ops, manifest, before, pending>>
  BY DEF treeVars, commandVars
<1>6. live \in Trees /\ IsTree(live) /\ snaps \in Snapshots /\ pending \in Seq(Event)
  BY TreeParts
<1> QED
  BY <1>2, <1>3, <1>4, <1>5, <1>6, ChronicleActed, SameHolesRefl

LEMMA SkipInv == ASSUME UndoInv, Skip PROVE UndoInv'
<1>1. /\ phase' = "apply" /\ steps # <<>> /\ steps' = Tail(steps)
      /\ UNCHANGED <<treeVars, commandVars, mishaps, calm, runs, planned>>
      /\ UNCHANGED <<phase, handle, failed, kept, settled>>
  BY DEF Skip, NextIs, NextStep
<1>2. handle' = None /\ failed' \in Nat /\ kept' \in Nat
      /\ settled' \in Option([Path -> Option(Kept)])
  BY <1>1 DEF UndoInv, HandleInv, TypeOK
<1> QED
  BY <1>1, <1>2, QuietInv

LEMMA FinishInv == ASSUME UndoInv, Finish PROVE UndoInv'
<1>1. /\ phase = "apply" /\ phase' = "done"
      /\ UNCHANGED <<treeVars, commandVars, mishaps, calm, runs, planned>>
      /\ UNCHANGED <<steps, handle, failed, kept>>
      /\ settled' = settled \/ settled' = [p \in Path |-> Copy(live[p])]
  BY DEF Finish
<1>2. handle' = None /\ failed' \in Nat /\ kept' \in Nat
      /\ settled \in Option([Path -> Option(Kept)])
  BY <1>1 DEF UndoInv, HandleInv, TypeOK
<1>3. [p \in Path |-> Copy(live[p])] \in [Path -> Option(Kept)]
  <2>1. ASSUME NEW p \in Path PROVE Copy(live[p]) \in Option(Kept)
    BY LiveNode, CopyType
  <2> QED
    BY <2>1
<1>4. settled' \in Option([Path -> Option(Kept)])
  BY <1>1, <1>2, <1>3 DEF Option
<1> QED
  BY <1>1, <1>2, <1>4, QuietInv

LEMMA KilledInv == ASSUME UndoInv, Killed PROVE UndoInv'
<1>1. TypeOK /\ TreeOK /\ CommandOK /\ ChronicleOK /\ MarksOK
  BY TypeParts DEF UndoInv
<1>2. /\ phase' = "idle" /\ steps' = <<>> /\ handle' = None /\ failed' = 0 /\ kept' = 0
      /\ UNCHANGED <<treeVars, commandVars, runs, planned, calm>> /\ Mishap
  BY DEF Killed
<1>3. mishaps' \in Nat /\ settled' \in Option([Path -> Option(Kept)])
  BY <1>1, <1>2, MishapType
<1>4. CommandOK' /\ TreeOK'
  BY <1>1, <1>2, SameCommand, SameTree
<1>5. ChronicleOK' /\ MarksOK'
  BY <1>1, <1>2, <1>3 DEF ChronicleOK, MarksOK, Option
<1>6. TakerInv' /\ HandleInv' /\ StepsInv'
  BY <1>2 DEF UndoInv, TakerInv, HandleInv, StepsInv, treeVars
<1> QED
  BY <1>4, <1>5, <1>6, AllParts

LEMMA StutterInv == ASSUME UndoInv, UNCHANGED vars PROVE UndoInv'
<1>1. TypeOK /\ TreeOK /\ CommandOK /\ ChronicleOK /\ MarksOK
  BY TypeParts DEF UndoInv
<1>2. TreeOK' /\ CommandOK' /\ ChronicleOK' /\ MarksOK'
  BY <1>1, SameTree, SameCommand, SameChronicle, SameMarks DEF vars
<1>3. UNCHANGED <<live, snaps, taker, phase, handle, steps, manifest>>
  BY DEF vars, treeVars, commandVars, chronicleVars
<1>4. TakerInv' /\ HandleInv' /\ StepsInv'
  BY <1>3 DEF UndoInv, TakerInv, HandleInv, StepsInv, Touched
<1> QED
  BY <1>2, <1>4, AllParts

LEMMA NextUndo == ASSUME UndoInv, [Next]_vars PROVE UndoInv'
<1>1. ASSUME NEW who \in Actor, Act(who) PROVE UndoInv'
  <2>1. ASSUME NEW p \in Path, NEW v \in Content, WriteFile(who, p, v) PROVE UndoInv'
    BY <2>1, WriteFileInv
  <2>2. ASSUME NEW p \in Path, MakeDir(who, p) \/ Unlink(who, p) \/ RemoveDir(who, p)
        PROVE  UndoInv'
    BY <2>2, MakeDirInv, UnlinkInv, RemoveDirInv
  <2>3. ASSUME NEW p \in Path, NEW q \in Path, Rename(who, p, q) PROVE UndoInv'
    BY <2>3, RenameInv
  <2> QED
    BY <1>1, <2>1, <2>2, <2>3 DEF Act
<1>2. ASSUME Tick \/ TakeSnapshot \/ SnapshotEnds \/ \E p \in Path : CopyEntry(p)
      PROVE  UndoInv'
  BY <1>2, TickInv, TakeSnapshotInv, SnapshotEndsInv, CopyEntryInv
<1>3. ASSUME Record \/ \E p \in Path : Attrib(p) PROVE UndoInv'
  BY <1>3, RecordInv, AttribInv
<1>4. ASSUME PlanUndo \/ OpenRestored \/ RestoreFails \/ CopyData PROVE UndoInv'
  BY <1>4, PlanUndoInv, OpenRestoredInv, RestoreFailsInv, CopyDataInv
<1>5. ASSUME RemoveCreated \/ Skip \/ Finish \/ Killed PROVE UndoInv'
  BY <1>5, RemoveCreatedInv, SkipInv, FinishInv, KilledInv
<1>6. ASSUME UNCHANGED vars PROVE UndoInv'
  BY <1>6, StutterInv
<1> QED
  BY <1>1, <1>2, <1>3, <1>4, <1>5, <1>6 DEF Next

THEOREM UndoInvariant == Spec => []UndoInv
<1>1. Init => UndoInv
  BY InitUndo
<1>2. UndoInv /\ [Next]_vars => UndoInv'
  BY NextUndo
<1> QED
  BY <1>1, <1>2, PTL DEF Spec

(* Whatever the command, bystanders, snapshots and undos do, in whatever   *)
(* order: the tree stays a tree, a file that chronicle has open is         *)
(* followed wherever it goes, and each variable has its type.              *)
THEOREM UndoTypeCorrect == Spec => []TypeOK
<1>1. UndoInv => TypeOK
  BY DEF UndoInv
<1> QED
  BY <1>1, UndoInvariant, PTL

-----------------------------------------------------------------------------
(* What chronicle may change.                                              *)

Allowed(p) ==
    \/ p \in Touched \ (Refused \cup Outside)
    \/ phase = "copy" /\ p = handle
    \/ live[p] = None /\ \E q \in Touched : p \in Up[q]

LEMMA StepChanges ==
    ASSUME UndoInv, Next, phase' # phase \/ steps' # steps,
           NEW p \in Path, Copy(live'[p]) # Copy(live[p])
    PROVE  Allowed(p)
<1>1. live'[p] # live[p]
  OBVIOUS
<1>2. ASSUME live' = live PROVE FALSE
  BY <1>1, <1>2
<1>3. ASSUME NEW who, NEW Q, NEW sort, NEW r, NEW other, Does(who, Q, sort, r, other)
      PROVE  FALSE
  BY <1>3 DEF Does
<1>4. CASE OpenRestored
  <2> DEFINE r == Head(steps).path
  <2>1. steps # <<>> /\ Head(steps).do = "restore"
    BY <1>4 DEF OpenRestored, NextIs
  <2>2. r \in Touched \ (Refused \cup Outside)
    BY <2>1, NextStepIs
  <2>3. p # r => live[p] = None /\ p \in Up[r]
    BY <1>1, <1>4, OpenRestoredIs
  <2> QED
    BY <2>2, <2>3 DEF Allowed
<1>5. CASE RestoreFails
  <2> DEFINE r == Head(steps).path
  <2>1. steps # <<>> /\ Head(steps).do = "restore"
    BY <1>5 DEF RestoreFails, NextIs
  <2>2. r \in Touched
    BY <2>1, NextStepIs
  <2>3. live[p] = None /\ p \in Up[r]
    BY <1>1, <1>5, RestoreFailsIs
  <2> QED
    BY <2>2, <2>3 DEF Allowed
<1>6. CASE CopyData
  <2>1. p = handle
    BY <1>1, <1>6, CopyDataIs
  <2> QED
    BY <1>6, <2>1 DEF CopyData, Allowed
<1>7. CASE RemoveCreated
  <2> DEFINE r == Head(steps).path
  <2>1. steps # <<>> /\ Head(steps).do = "remove"
    BY <1>7 DEF RemoveCreated, NextIs
  <2>2. r \in Touched \ (Refused \cup Outside)
    BY <2>1, NextStepIs
  <2>3. p = r
    BY <1>1, <1>7, RemoveCreatedIs
  <2> QED
    BY <2>2, <2>3 DEF Allowed
<1>8. ASSUME Tick \/ TakeSnapshot \/ SnapshotEnds \/ Record \/ PlanUndo \/ Skip \/ Finish \/ Killed
      PROVE  FALSE
  <2>1. live' = live
    BY <1>8 DEF Tick, TakeSnapshot, SnapshotEnds, Record, PlanUndo, Skip, Finish, Killed, treeVars
  <2> QED
    BY <1>2, <2>1
<1>9. ASSUME NEW r \in Path, CopyEntry(r) PROVE FALSE
  BY <1>9 DEF CopyEntry, chronicleVars
<1>10. ASSUME NEW r \in Path, Attrib(r) PROVE FALSE
  BY <1>3, <1>10 DEF Attrib
<1>11. ASSUME NEW who \in Actor, Act(who) PROVE FALSE
  <2>1. ASSUME NEW r \in Path, NEW v \in Content, WriteFile(who, r, v) PROVE FALSE
    BY <1>3, <2>1 DEF WriteFile
  <2>2. ASSUME NEW r \in Path, MakeDir(who, r) \/ Unlink(who, r) \/ RemoveDir(who, r)
        PROVE  FALSE
    BY <1>3, <2>2 DEF MakeDir, Unlink, RemoveDir
  <2>3. ASSUME NEW r \in Path, NEW q \in Path, Rename(who, r, q) PROVE FALSE
    BY <1>3, <2>3 DEF Rename
  <2> QED
    BY <1>11, <2>1, <2>2, <2>3 DEF Act
<1> QED
  BY <1>4, <1>5, <1>6, <1>7, <1>8, <1>9, <1>10, <1>11 DEF Next

(* A step of chronicle changes a path the command touched, that is neither *)
(* refused nor outside, or the file it has open; else it makes a directory *)
(* that was not there, above a path the command touched: for every tree,   *)
(* interleaving and mode of the snapshots.                                 *)
THEOREM UndoTouchesNothingElse == Spec => OnlyTouchedChanges
<1>1. ASSUME UndoInv, [Next]_vars
      PROVE  [phase' # phase \/ steps' # steps =>
                 \A p \in Path : Copy(live'[p]) # Copy(live[p]) =>
                     \/ p \in Touched \ (Refused \cup Outside)
                     \/ phase = "copy" /\ p = handle
                     \/ live[p] = None /\ \E q \in Touched : p \in Up[q]]_vars
  <2>1. CASE Next
    BY <1>1, <2>1, StepChanges DEF Allowed
  <2>2. CASE UNCHANGED vars
    BY <2>2
  <2> QED
    BY <1>1, <2>1, <2>2
<1> QED
  BY <1>1, UndoInvariant, PTL DEF Spec, OnlyTouchedChanges

-----------------------------------------------------------------------------
(* Snapshots that are copies, not links: what is in one stays as it was.   *)

Bare(T) == \A p \in Path : T[p] # None => T[p].links = {}

Keeps(S, R) ==
    \A s \in 0 .. MaxTime : S[s] # None =>
        R[s] # None /\ \A p \in Path : S[s][p] # None => R[s][p] = S[s][p]

(* A manifest is in the order of its times. *)
ManifestInv ==
    /\ \A i \in DOMAIN manifest : manifest[i].ts <= now
    /\ \A i, j \in DOMAIN manifest : i < j => manifest[i].ts <= manifest[j].ts

ApartInv == Bare(live) /\ Keeps(planned, snaps) /\ ManifestInv

LEMMA BareThrough ==
    ASSUME UndoInv, Bare(live), NEW p \in Path, NEW v \in Data
    PROVE  Through(snaps, live[p], v) = snaps
<1>1. live[p] \in Option(Node) /\ (live[p] = None \/ live[p].links = {})
  BY LiveNode DEF Bare
<1> QED
  BY <1>1, TreeParts, ThroughIs

LEMMA KeepsRefl == ASSUME NEW S PROVE Keeps(S, S)
  BY DEF Keeps

LEMMA KeepsTrans ==
    ASSUME NEW R, NEW S, NEW T, Keeps(R, S), Keeps(S, T) PROVE Keeps(R, T)
  BY DEF Keeps

(* What anyone but the taker does to the tree makes no links. *)
LEMMA ActBare ==
    ASSUME UndoInv, Bare(live), NEW who, Act(who)
    PROVE  Bare(live') /\ snaps' = snaps
<1>1. live \in Trees /\ IsTree(live) /\ snaps \in Snapshots
  BY TreeParts
<1>2. ASSUME NEW p \in Path, NEW v \in Content, WriteFile(who, p, v)
      PROVE  Bare(live') /\ snaps' = snaps
  <2>1. /\ live' = InPlace(live, p, v) /\ Reachable(live, p) /\ ~IsDir(live, p)
        /\ snaps' = Through(snaps, live[p], v)
    BY <1>2 DEF WriteFile
  <2>2. v \in Data
    BY DEF Data
  <2>3. /\ live[p] = None => live'[p].links = {}
        /\ live[p] # None => live'[p].links = live[p].links
        /\ \A q \in Path : q # p => live'[q] = live[q]
    BY <1>1, <2>1, <2>2, InPlaceTree
  <2>4. Bare(live')
    BY <2>3 DEF Bare
  <2> QED
    BY <2>1, <2>2, <2>4, BareThrough
<1>3. ASSUME NEW p \in Path, MakeDir(who, p) PROVE Bare(live') /\ snaps' = snaps
  <2>1. live' = [live EXCEPT ![p] = Dir] /\ snaps' = snaps
    BY <1>3 DEF MakeDir
  <2>2. \A q \in Path : live'[q] = IF q = p THEN Dir ELSE live[q]
    BY <1>1, <2>1 DEF Trees
  <2> QED
    BY <2>1, <2>2 DEF Bare, Dir
<1>4. ASSUME NEW p \in Path, Unlink(who, p) \/ RemoveDir(who, p)
      PROVE  Bare(live') /\ snaps' = snaps
  <2>1. live' = [live EXCEPT ![p] = None] /\ snaps' = snaps
    BY <1>4 DEF Unlink, RemoveDir
  <2>2. \A q \in Path : live'[q] = IF q = p THEN None ELSE live[q]
    BY <1>1, <2>1 DEF Trees
  <2> QED
    BY <2>1, <2>2 DEF Bare
<1>5. ASSUME NEW p \in Path, NEW q \in Path, Rename(who, p, q)
      PROVE  Bare(live') /\ snaps' = snaps
  <2>1. live' = [live EXCEPT ![q] = live[p], ![p] = None] /\ snaps' = snaps
    BY <1>5 DEF Rename
  <2>2. \A x \in Path : live'[x] = IF x = p THEN None ELSE IF x = q THEN live[p] ELSE live[x]
    BY <1>1, <2>1 DEF Trees
  <2> QED
    BY <2>1, <2>2 DEF Bare
<1> QED
  BY <1>2, <1>3, <1>4, <1>5 DEF Act

LEMMA TakerKeeps ==
    ASSUME UndoInv, Mode # "hardlink", TakeSnapshot \/ \E p \in Path : CopyEntry(p)
    PROVE  live' = live /\ Keeps(snaps, snaps')
<1>1. snaps \in Snapshots
  BY TreeParts
<1>2. CASE TakeSnapshot
  <2>1. live' = live /\ snaps[now] = None
    BY <1>2 DEF TakeSnapshot
  <2>2. \A s \in 0 .. MaxTime : s # now => snaps'[s] = snaps[s]
    BY <1>1, <1>2 DEF TakeSnapshot, Snapshots
  <2> QED
    BY <2>1, <2>2 DEF Keeps
<1>3. ASSUME NEW p \in Path, CopyEntry(p) PROVE live' = live /\ Keeps(snaps, snaps')
  <2> DEFINE s == taker.name
             f == [snaps[s] EXCEPT ![p] = Copy(live[p])]
  <2>1. live' = live /\ p \in taker.todo /\ snaps' = [snaps EXCEPT ![s] = f]
    BY <1>3 DEF CopyEntry
  <2>2. s # None /\ snaps[s][p] = None /\ snaps[s] # None /\ s \in 0 .. MaxTime
    BY <2>1 DEF UndoInv, TakerInv, TypeOK, Option
  <2>3. snaps[s] \in [Path -> Option(Kept)]
    BY <1>1, <2>2 DEF Snapshots, Option
  <2>4. f \in [Path -> Option(Kept)] /\ \A q \in Path : q # p => f[q] = snaps[s][q]
    <3>1. Copy(live[p]) \in Option(Kept)
      BY LiveNode, CopyType
    <3> QED
      BY <2>3, <3>1
  <2>5. f # None
    BY <2>4, NoneAssumption
  <2> HIDE DEF f
  <2>6. snaps'[s] = f /\ \A r \in 0 .. MaxTime : r # s => snaps'[r] = snaps[r]
    BY <1>1, <2>1, <2>2 DEF Snapshots
  <2> QED
    BY <2>1, <2>2, <2>4, <2>5, <2>6 DEF Keeps
<1> QED
  BY <1>2, <1>3

LEMMA ChronicleBare ==
    ASSUME UndoInv, Bare(live), OpenRestored \/ RestoreFails \/ CopyData \/ RemoveCreated
    PROVE  Bare(live') /\ snaps' = snaps
<1>1. CASE OpenRestored
  <2> DEFINE p == Head(steps).path
  <2>1. /\ p \in Path /\ snaps' = Through(snaps, live[p], Blank)
        /\ live[p] # None => live'[p].links = live[p].links
        /\ live[p] = None => live'[p].links = {}
        /\ \A q \in Path : q # p /\ live'[q] # live[q] => live'[q] = Dir
    BY <1>1, OpenRestoredIs
  <2> HIDE DEF p
  <2>2. Bare(live')
    BY <2>1 DEF Bare, Dir
  <2>3. Blank \in Data
    BY DEF Data
  <2> QED
    BY <2>1, <2>2, <2>3, BareThrough
<1>2. CASE RestoreFails
  <2>1. \A q \in Path : live'[q] # live[q] => live'[q] = Dir
    BY <1>2, RestoreFailsIs
  <2>2. snaps' = snaps
    BY <1>2 DEF RestoreFails
  <2> QED
    BY <2>1, <2>2 DEF Bare, Dir
<1>3. CASE CopyData
  <2> DEFINE v == snaps[Head(steps).from][Head(steps).path].data
  <2>1. /\ v \in Data /\ \A q \in Path : q # handle => live'[q] = live[q]
        /\ live' = live \/ /\ handle # None /\ handle \in Path
                           /\ IsFile(live, handle) /\ live'[handle].links = live[handle].links
        /\ snaps' = snaps \/ (handle # None /\ snaps' = Through(snaps, live[handle], v))
    BY <1>3, CopyDataIs
  <2> HIDE DEF v
  <2>2. Bare(live')
    BY <2>1 DEF Bare, IsFile
  <2>3. handle # None => handle \in Path
    BY HandleIs
  <2> QED
    BY <2>1, <2>2, <2>3, BareThrough
<1>4. CASE RemoveCreated
  <2> DEFINE p == Head(steps).path
  <2>1. \A q \in Path : live'[q] = live[q] \/ live'[q] = None
    BY <1>4, RemoveCreatedIs
  <2>2. snaps' = snaps
    BY <1>4 DEF RemoveCreated
  <2> QED
    BY <2>1, <2>2 DEF Bare
<1> QED
  BY <1>1, <1>2, <1>3, <1>4

(* What the other steps leave alone. *)
LEMMA TreeAlone ==
    ASSUME \/ Tick \/ SnapshotEnds \/ Record \/ PlanUndo \/ Skip \/ Finish \/ Killed
           \/ (\E p \in Path : Attrib(p)) \/ UNCHANGED vars
    PROVE  live' = live /\ snaps' = snaps
  BY DEF Tick, SnapshotEnds, Record, PlanUndo, Skip, Finish, Killed, Attrib, vars, treeVars

(* What a step does to the plan's snapshots and to the manifest. *)
LEMMA PlannedStep ==
    ASSUME [Next]_vars PROVE planned' = planned \/ (planned' = snaps /\ snaps' = snaps)
<1>1. CASE PlanUndo
  BY <1>1 DEF PlanUndo, treeVars
<1>2. ASSUME NEW who, NEW Q, NEW sort, NEW r, NEW other, Does(who, Q, sort, r, other)
      PROVE  planned' = planned
  BY <1>2 DEF Does
<1>3. ASSUME NEW who \in Actor, Act(who) PROVE planned' = planned
  BY <1>2, <1>3 DEF Act, WriteFile, MakeDir, Unlink, RemoveDir, Rename
<1>4. CASE Tick \/ TakeSnapshot \/ SnapshotEnds \/ (\E p \in Path : CopyEntry(p))
  BY <1>4 DEF Tick, TakeSnapshot, SnapshotEnds, CopyEntry, chronicleVars
<1>5. CASE (\E p \in Path : Attrib(p)) \/ Record \/ UNCHANGED vars
  BY <1>2, <1>5 DEF Attrib, Record, vars, chronicleVars
<1>6. CASE OpenRestored \/ RestoreFails \/ CopyData
  BY <1>6 DEF OpenRestored, RestoreFails, CopyData
<1>7. CASE RemoveCreated \/ Skip \/ Finish \/ Killed
  BY <1>7 DEF RemoveCreated, Skip, Finish, Killed
<1> QED
  BY <1>1, <1>3, <1>4, <1>5, <1>6, <1>7 DEF Next

LEMMA ManifestStep ==
    ASSUME UndoInv, [Next]_vars
    PROVE  /\ now' \in Nat /\ now <= now'
           /\ manifest' = manifest
              \/ /\ now' = now /\ \E e \in FileEvent : /\ e.ts = now
                                                       /\ manifest' = Append(manifest, e)
<1>1. now \in Nat /\ now' \in Nat
  <2>1. UndoInv'
    BY NextUndo
  <2>2. now \in 0 .. MaxTime /\ now' \in 0 .. MaxTime
    BY <2>1 DEF UndoInv, TypeOK
  <2> QED
    BY <2>2, BoundAssumption
<1>2. ASSUME NEW who, NEW Q, NEW sort, NEW r, NEW other, Does(who, Q, sort, r, other)
      PROVE  manifest' = manifest /\ now' = now
  BY <1>2 DEF Does
<1>3. ASSUME NEW who \in Actor, Act(who) PROVE manifest' = manifest /\ now' = now
  BY <1>2, <1>3 DEF Act, WriteFile, MakeDir, Unlink, RemoveDir, Rename
<1>4. CASE Tick
  BY <1>1, <1>4 DEF Tick, commandVars
<1>5. CASE TakeSnapshot \/ SnapshotEnds \/ \E p \in Path : CopyEntry(p)
  <2>1. manifest' = manifest /\ now' = now
    BY <1>5 DEF TakeSnapshot, SnapshotEnds, CopyEntry, commandVars
  <2> QED
    BY <1>1, <2>1
<1>6. CASE (\E p \in Path : Attrib(p)) \/ UNCHANGED vars
  BY <1>1, <1>2, <1>6 DEF Attrib, vars, commandVars, treeVars
<1>7. CASE Record
  <2> DEFINE e == Head(pending)
             at == IF e.path # None THEN e.path ELSE e.other
             other == IF e.path # None THEN e.other ELSE None
             f == [path |-> at, other |-> other, ts |-> now]
  <2>1. now' = now /\ manifest' = IF at = None THEN manifest ELSE Append(manifest, f)
    BY <1>7 DEF Record, treeVars
  <2>2. at # None => f \in FileEvent
    <3>1. pending # <<>> /\ pending \in Seq(Event)
      BY <1>7, TreeParts DEF Record
    <3>2. e \in Event
      BY <3>1
    <3>3. at \in Option(Path) /\ other \in Option(Path)
      BY <3>2 DEF Event, Option
    <3> HIDE DEF at, other
    <3> QED
      BY <1>1, <3>3 DEF FileEvent, Option
  <2>3. f.ts = now
    OBVIOUS
  <2> HIDE DEF f, at
  <2> QED
    BY <1>1, <2>1, <2>2, <2>3
<1>8. CASE PlanUndo \/ OpenRestored \/ RestoreFails \/ CopyData
  BY <1>1, <1>8 DEF PlanUndo, OpenRestored, RestoreFails, CopyData, commandVars, treeVars
<1>9. CASE RemoveCreated \/ Skip \/ Finish \/ Killed
  BY <1>1, <1>9 DEF RemoveCreated, Skip, Finish, Killed, commandVars, treeVars
<1>10. CASE \E who \in Actor : Act(who)
  <2>1. manifest' = manifest /\ now' = now
    BY <1>3, <1>10
  <2> QED
    BY <1>1, <2>1
<1> QED
  BY <1>4, <1>5, <1>6, <1>7, <1>8, <1>9, <1>10 DEF Next

LEMMA NextApart ==
    ASSUME UndoInv, ApartInv, Mode # "hardlink", [Next]_vars
    PROVE  ApartInv' /\ Keeps(snaps, snaps')
<1>1. Bare(live) /\ Keeps(planned, snaps) /\ ManifestInv
  BY DEF ApartInv
<1>2. Bare(live') /\ Keeps(snaps, snaps')
  <2>1. ASSUME NEW who \in Actor, Act(who) PROVE Bare(live') /\ Keeps(snaps, snaps')
    BY <1>1, <2>1, ActBare, KeepsRefl
  <2>2. CASE TakeSnapshot \/ \E p \in Path : CopyEntry(p)
    BY <1>1, <2>2, TakerKeeps
  <2>3. CASE OpenRestored \/ RestoreFails \/ CopyData \/ RemoveCreated
    BY <1>1, <2>3, ChronicleBare, KeepsRefl
  <2>4. CASE \/ Tick \/ SnapshotEnds \/ Record \/ PlanUndo \/ Skip \/ Finish \/ Killed
             \/ (\E p \in Path : Attrib(p)) \/ UNCHANGED vars
    BY <1>1, <2>4, TreeAlone, KeepsRefl
  <2> QED
    BY <2>1, <2>2, <2>3, <2>4 DEF Next
<1>3. Keeps(planned', snaps')
  BY <1>1, <1>2, PlannedStep, KeepsTrans, KeepsRefl
<1>4. ManifestInv'
  <2>1. manifest \in Seq(FileEvent) /\ now \in Nat
    BY BoundAssumption DEF UndoInv, TypeOK
  <2>2. \A i \in DOMAIN manifest : manifest[i].ts \in Nat
    <3>1. \A i \in DOMAIN manifest : manifest[i] \in FileEvent
      BY <2>1
    <3> QED
      BY <3>1 DEF FileEvent
  <2>3. now' \in Nat /\ now <= now'
    BY ManifestStep
  <2>4. CASE manifest' = manifest
    BY <1>1, <2>1, <2>2, <2>3, <2>4 DEF ManifestInv
  <2>5. ASSUME NEW e \in FileEvent, e.ts = now, manifest' = Append(manifest, e), now' = now
        PROVE  ManifestInv'
    <3>1. /\ DOMAIN manifest' = 1 .. Len(manifest) + 1 /\ DOMAIN manifest = 1 .. Len(manifest)
          /\ Len(manifest) \in Nat
          /\ manifest'[Len(manifest) + 1] = e
          /\ \A i \in DOMAIN manifest : manifest'[i] = manifest[i]
      BY <2>1, <2>5
    <3>2. \A i \in DOMAIN manifest' : manifest'[i].ts <= now
      BY <1>1, <2>1, <2>5, <3>1 DEF ManifestInv
    <3>3. ASSUME NEW i \in DOMAIN manifest', NEW j \in DOMAIN manifest', i < j
          PROVE  manifest'[i].ts <= manifest'[j].ts
      <4>1. i \in DOMAIN manifest
        BY <3>1, <3>3
      <4>2. CASE j \in DOMAIN manifest
        BY <1>1, <3>1, <3>3, <4>1, <4>2 DEF ManifestInv
      <4>3. CASE j = Len(manifest) + 1
        BY <1>1, <2>5, <3>1, <4>1, <4>3 DEF ManifestInv
      <4> QED
        BY <3>1, <4>2, <4>3
    <3> QED
      BY <2>5, <3>2, <3>3 DEF ManifestInv
  <2> QED
    BY <2>4, <2>5, ManifestStep
<1> QED
  BY <1>2, <1>3, <1>4 DEF ApartInv

LEMMA InitApart == ASSUME Init PROVE ApartInv
<1>1. Bare(live)
  BY StartAssumption DEF Init, Bare
<1>2. Keeps(planned, snaps)
  BY KeepsRefl DEF Init
<1>3. ManifestInv
  BY DEF Init, ManifestInv
<1> QED
  BY <1>1, <1>2, <1>3 DEF ApartInv

-----------------------------------------------------------------------------
(* While nobody else is at work, chronicle does what it planned: a path is *)
(* undone, or its step is still to come; removals come after restores, and *)
(* a directory's after those of what is in it.                             *)

(* p is as the undo wants it. *)
Post(p) ==
    LET image == planned[GoesBy(p)][p]
    IN  IF image # None THEN image.kind = "file" /\ Copy(live[p]) = image
        ELSE Gone(p) \/ (IsDir(live, p) /\ Inside(live, p) # {})

UndoStep(p) == StepFor(planned, [path |-> p, ts |-> FirstTouch(p)])

(* The steps left are those the plan has for their paths, in order. *)
AimInv ==
    /\ \A i \in DOMAIN steps : \E p \in Touched :
           steps[i].path = p /\ steps[i] = UndoStep(p)
    /\ \A i, j \in DOMAIN steps : i < j =>
           steps[i].path # steps[j].path /\ Turn(steps[i]) <= Turn(steps[j])
    /\ phase = "done" => steps = <<>>
    /\ phase = "copy" => /\ handle = Head(steps).path
                         /\ planned[Head(steps).from][handle].kind = "file"

DoneInv ==
    failed = 0 => \A p \in Undoable :
        \/ \E i \in DOMAIN steps : steps[i].path = p
        \/ Post(p) /\ \A i \in DOMAIN steps : Turn(UndoStep(p)) <= Turn(steps[i])

CalmInv == calm /\ phase # "idle" => AimInv /\ DoneInv

LEMMA FirstTouchIs ==
    ASSUME UndoInv, ManifestInv, NEW k \in FirstTouches(manifest)
    PROVE  Touch(manifest, k) = [path |-> Touch(manifest, k).path,
                                 ts |-> FirstTouch(Touch(manifest, k).path)]
<1> DEFINE p == Touch(manifest, k).path
           by == {j \in DOMAIN manifest : p \in {manifest[j].path, manifest[j].other}}
           times == {manifest[i].ts : i \in by}
<1>1. manifest \in Seq(FileEvent) /\ k \in 1 .. 2 * Len(manifest)
  BY FirstTouchType DEF UndoInv, TypeOK
<1>2. PICK i \in DOMAIN manifest : /\ i = (k + 1) \div 2
                                   /\ Touch(manifest, k).ts = manifest[i].ts
                                   /\ p = manifest[i].path \/ p = manifest[i].other
  BY <1>1, TouchIs
<1>3. i \in by /\ manifest[i].ts \in times
  BY <1>2
<1>4. times \in SUBSET Nat
  <2>1. \A j \in DOMAIN manifest : manifest[j] \in FileEvent
    BY <1>1
  <2> QED
    BY <2>1 DEF FileEvent
<1>5. ASSUME NEW j \in by PROVE manifest[i].ts <= manifest[j].ts
  <2>1. j \in DOMAIN manifest /\ (p = manifest[j].path \/ p = manifest[j].other)
    OBVIOUS
  <2>2. PICK m \in {2 * j - 1, 2 * j} : m \in 1 .. 2 * Len(manifest) /\ Touch(manifest, m).path = p
    BY <1>1, <2>1, TouchedAt
  <2> HIDE DEF p, by
  <2>3. ~(m < k)
    <3>1. \A n \in 1 .. k - 1 : Touch(manifest, n).path # Touch(manifest, k).path
      BY DEF FirstTouches
    <3>2. ASSUME m < k PROVE FALSE
      <4>1. m \in 1 .. k - 1
        BY <1>1, <2>2, <3>2
      <4> QED
        BY <2>2, <3>1, <4>1 DEF p
    <3> QED
      BY <3>2
  <2>4. DOMAIN manifest = 1 .. Len(manifest) /\ Len(manifest) \in Nat
    BY <1>1
  <2>5. i <= j
    BY <1>1, <1>2, <2>1, <2>2, <2>3, <2>4
  <2>6. i \in Int /\ j \in Int
    BY <1>2, <2>1, <2>4
  <2>7. CASE i = j
    <3>1. \A n \in DOMAIN manifest : manifest[n] \in FileEvent
      BY <1>1
    <3>2. manifest[i].ts \in Nat
      BY <1>2, <3>1 DEF FileEvent
    <3> QED
      BY <2>7, <3>2
  <2>8. CASE i < j
    BY <1>2, <2>1, <2>8 DEF ManifestInv
  <2> QED
    BY <2>5, <2>6, <2>7, <2>8
<1>6. \A t \in times : manifest[i].ts <= t
  BY <1>5
<1>7. manifest[i].ts = Min(times)
  <2> HIDE DEF times
  <2> QED
    BY <1>3, <1>4, <1>6, LeastOf
<1>8. FirstTouch(p) = manifest[i].ts
  BY <1>7 DEF FirstTouch
<1>9. Touch(manifest, k) = [path |-> Touch(manifest, k).path, ts |-> Touch(manifest, k).ts]
  BY DEF Touch
<1> QED
  BY <1>2, <1>8, <1>9

(* What is touched has a first touch. *)
LEMMA TouchedFirst ==
    ASSUME UndoInv, NEW p \in Touched
    PROVE  p \in Path /\ \E k \in FirstTouches(manifest) : Touch(manifest, k).path = p
<1>1. manifest \in Seq(FileEvent)
  BY DEF UndoInv, TypeOK
<1>2. PICK i \in DOMAIN manifest : p \in {manifest[i].path, manifest[i].other}
  BY DEF Touched
<1>3. manifest[i] \in FileEvent /\ p # None
  BY <1>1, <1>2 DEF Touched
<1>4. p \in Path
  BY <1>2, <1>3 DEF FileEvent, Option
<1>5. \E n \in 1 .. 2 * Len(manifest) : Touch(manifest, n).path = p
  BY <1>1, <1>2, TouchedAt
<1> QED
  BY <1>1, <1>4, <1>5, FirstTouchExists

LEMMA TouchedTouch ==
    ASSUME UndoInv, ManifestInv, NEW p \in Touched
    PROVE  [path |-> p, ts |-> FirstTouch(p)] \in ATouch
<1>1. PICK k \in FirstTouches(manifest) : Touch(manifest, k).path = p
  BY TouchedFirst
<1>2. Touch(manifest, k) \in ATouch
  BY FirstTouchType DEF UndoInv, TypeOK
<1> QED
  BY <1>1, <1>2, FirstTouchIs

(* The step a path that was touched has in the plan. *)
LEMMA UndoStepIs ==
    ASSUME UndoInv, ManifestInv, NEW p \in Touched
    PROVE  /\ UndoStep(p) \in Step /\ UndoStep(p).path = p /\ p \in Path
           /\ UndoStep(p).do # "skip" <=> p \in Undoable
           /\ UndoStep(p).do = "restore" =>
                  /\ UndoStep(p).from = GoesBy(p) /\ GoesBy(p) \in 0 .. MaxTime
                  /\ planned[GoesBy(p)] # None /\ planned[GoesBy(p)][p] # None
                  /\ planned[GoesBy(p)][p] \in Kept
           /\ UndoStep(p).do = "remove" => planned[GoesBy(p)][p] = None
<1> DEFINE t == [path |-> p, ts |-> FirstTouch(p)]
<1>1. t \in ATouch /\ t.path = p /\ t.ts = FirstTouch(p) /\ planned \in Snapshots /\ p \in Path
  BY TouchedTouch, TouchedFirst DEF UndoInv, TypeOK, Snapshots
<1>2. UndoStep(p) = StepFor(planned, t) /\ GoesBy(p) = SnapshotBefore(planned, t.ts)
  BY DEF UndoStep, GoesBy
<1> HIDE DEF t
<1>3. /\ UndoStep(p) \in Step /\ UndoStep(p).path = p
      /\ UndoStep(p).do # "skip" <=> p \notin Refused \cup Outside /\ GoesBy(p) # None
      /\ UndoStep(p).do = "restore" =>
             /\ UndoStep(p).from = GoesBy(p) /\ GoesBy(p) \in 0 .. MaxTime
             /\ planned[GoesBy(p)] # None /\ planned[GoesBy(p)][p] # None
      /\ UndoStep(p).do = "remove" => planned[GoesBy(p)][p] = None
  BY <1>1, <1>2, StepForIs
<1>4. UndoStep(p).do # "skip" <=> p \in Undoable
  BY <1>3 DEF Undoable
<1>5. UndoStep(p).do = "restore" => planned[GoesBy(p)][p] \in Kept
  BY <1>1, <1>3 DEF Snapshots, Option
<1> QED
  BY <1>1, <1>3, <1>4, <1>5

(* As long as manifest and plan stay, so does what is to be undone. *)
LEMMA SameAim ==
    ASSUME manifest' = manifest, planned' = planned
    PROVE  /\ Touched' = Touched /\ Undoable' = Undoable
           /\ \A p \in Touched : UndoStep(p)' = UndoStep(p)
           /\ \A p \in Touched : GoesBy(p)' = GoesBy(p)
  BY DEF Touched, Undoable, UndoStep, GoesBy, FirstTouch

LEMMA SamePost ==
    ASSUME manifest' = manifest, planned' = planned, live' = live, NEW p, Post(p)
    PROVE  Post(p)'
  BY DEF Post, GoesBy, FirstTouch, Gone

(* A new plan has a step for all that is to be undone. *)
LEMMA PlanUndoCalm ==
    ASSUME UndoInv, ManifestInv, PlanUndo PROVE CalmInv'
<1>1. /\ steps' = Plan(manifest, snaps) /\ planned' = snaps /\ manifest' = manifest
      /\ phase' = "apply" /\ now' = now /\ failed' = 0
  BY DEF PlanUndo, commandVars, treeVars
<1>2. manifest \in Seq(FileEvent) /\ snaps \in Snapshots
  BY TreeParts DEF UndoInv, TypeOK
<1>3. /\ \A i \in DOMAIN steps' : \E k \in FirstTouches(manifest) :
             steps'[i] = StepFor(snaps, Touch(manifest, k))
      /\ \A k \in FirstTouches(manifest) : \E i \in DOMAIN steps' :
             steps'[i] = StepFor(snaps, Touch(manifest, k))
      /\ \A i, j \in DOMAIN steps' : i < j =>
             steps'[i].path # steps'[j].path /\ Turn(steps'[i]) <= Turn(steps'[j])
  BY <1>1, <1>2, PlanIs
<1>4. ASSUME NEW k \in FirstTouches(manifest)
      PROVE  \E p \in Touched' : /\ p = Touch(manifest, k).path
                                 /\ StepFor(snaps, Touch(manifest, k)) = UndoStep(p)'
                                 /\ StepFor(snaps, Touch(manifest, k)).path = p
  <2>1. PICK p : p = Touch(manifest, k).path
    OBVIOUS
  <2>2. Touch(manifest, k) = [path |-> p, ts |-> FirstTouch(p)]
    BY <2>1, FirstTouchIs
  <2>3. Touch(manifest, k) \in ATouch
    BY <1>2, FirstTouchType
  <2>4. p \in Touched /\ Touched' = Touched
    BY <1>1, <2>1, FirstTouchTouched DEF Touched
  <2>5. StepFor(snaps, Touch(manifest, k)).path = p
    BY <1>2, <2>1, <2>3, StepForIs
  <2>6. UndoStep(p)' = StepFor(snaps, [path |-> p, ts |-> FirstTouch(p)])
    BY <1>1 DEF UndoStep, FirstTouch
  <2> QED
    BY <2>1, <2>2, <2>4, <2>5, <2>6
<1>5. ASSUME NEW i \in DOMAIN steps'
      PROVE  \E p \in Touched' : steps'[i].path = p /\ steps'[i] = UndoStep(p)'
  <2>1. PICK k \in FirstTouches(manifest) : steps'[i] = StepFor(snaps, Touch(manifest, k))
    BY <1>3
  <2> QED
    BY <1>4, <2>1
<1>6. ASSUME NEW p \in Undoable' PROVE \E i \in DOMAIN steps' : steps'[i].path = p
  <2>1. p \in Touched
    BY <1>1 DEF Undoable, Touched
  <2>2. PICK k \in FirstTouches(manifest) : Touch(manifest, k).path = p
    BY <2>1, TouchedFirst
  <2>3. PICK i \in DOMAIN steps' : steps'[i] = StepFor(snaps, Touch(manifest, k))
    BY <1>3
  <2> QED
    BY <1>4, <2>2, <2>3
<1>7. AimInv'
  BY <1>1, <1>3, <1>5 DEF AimInv
<1>8. DoneInv'
  BY <1>6 DEF DoneInv
<1> QED
  BY <1>7, <1>8 DEF CalmInv

(* What neither tree nor plan sees. *)
LEMMA CalmStill ==
    ASSUME CalmInv, UNCHANGED <<manifest, planned, live, steps, handle, failed, calm>>,
           phase' = phase \/ (phase = "apply" /\ phase' = "done" /\ steps = <<>>)
    PROVE  CalmInv'
<1> SUFFICES ASSUME calm', phase' # "idle" PROVE AimInv' /\ DoneInv'
  BY DEF CalmInv
<1>1. AimInv /\ DoneInv
  BY DEF CalmInv
<1>2. /\ Touched' = Touched /\ Undoable' = Undoable
      /\ \A p \in Touched : UndoStep(p)' = UndoStep(p)
  BY SameAim
<1>3. AimInv'
  BY <1>1, <1>2 DEF AimInv
<1>4. ASSUME NEW p \in Undoable, Post(p) PROVE Post(p)'
  BY <1>4, SamePost
<1>5. \A p \in Undoable : p \in Touched
  BY DEF Undoable
<1>6. DoneInv'
  BY <1>1, <1>2, <1>4, <1>5 DEF DoneInv
<1> QED
  BY <1>3, <1>6

LEMMA TailAim ==
    ASSUME UndoInv, AimInv, steps # <<>>, steps' = Tail(steps), phase' = "apply",
           UNCHANGED <<manifest, planned>>
    PROVE  AimInv'
<1>1. \A i \in DOMAIN steps' : i + 1 \in DOMAIN steps /\ steps'[i] = steps[i + 1] /\ i \in Nat
  <2>1. steps \in Seq(Step)
    BY DEF UndoInv, TypeOK
  <2> QED
    BY <2>1
<1>2. Touched' = Touched /\ \A p \in Touched : UndoStep(p)' = UndoStep(p)
  BY SameAim
<1>3. ASSUME NEW i \in DOMAIN steps'
      PROVE  \E p \in Touched' : steps'[i].path = p /\ steps'[i] = UndoStep(p)'
  BY <1>1, <1>2 DEF AimInv
<1>4. ASSUME NEW i \in DOMAIN steps', NEW j \in DOMAIN steps', i < j
      PROVE  steps'[i].path # steps'[j].path /\ Turn(steps'[i]) <= Turn(steps'[j])
  <2>1. i + 1 \in DOMAIN steps /\ j + 1 \in DOMAIN steps /\ i + 1 < j + 1
    BY <1>1, <1>4
  <2> QED
    BY <1>1, <2>1 DEF AimInv
<1> QED
  BY <1>3, <1>4 DEF AimInv

(* A step is over: its path is done, and what was done stays so. *)
LEMMA StepDone ==
    ASSUME UndoInv, ManifestInv, AimInv, DoneInv, steps # <<>>, steps' = Tail(steps),
           UNCHANGED <<manifest, planned>>, NEW r, r = Head(steps).path,
           failed' = 0 => failed = 0 /\ (r \in Undoable => Post(r)'),
           failed' = 0 => \A p \in Undoable :
               p # r /\ Post(p) /\ Turn(UndoStep(p)) <= Turn(Head(steps)) => Post(p)'
    PROVE  DoneInv'
<1>1. /\ Head(steps) = steps[1] /\ 1 \in DOMAIN steps
      /\ \A i \in DOMAIN steps' : i + 1 \in DOMAIN steps /\ steps'[i] = steps[i + 1] /\ i \in Nat /\ i >= 1
      /\ \A i \in DOMAIN steps : i = 1 \/ (i - 1 \in DOMAIN steps' /\ steps'[i - 1] = steps[i])
  <2>1. steps \in Seq(Step)
    BY DEF UndoInv, TypeOK
  <2> QED
    BY <2>1
<1>2. Undoable' = Undoable /\ \A p \in Touched : UndoStep(p)' = UndoStep(p)
  BY SameAim
<1>3. ASSUME failed' = 0, NEW p \in Undoable
      PROVE  \/ \E i \in DOMAIN steps' : steps'[i].path = p
             \/ Post(p)' /\ \A i \in DOMAIN steps' : Turn(UndoStep(p)) <= Turn(steps'[i])
  <2>1. failed = 0
    BY <1>3
  <2>2. CASE \E i \in DOMAIN steps : i # 1 /\ steps[i].path = p
    <3>1. PICK i \in DOMAIN steps : i # 1 /\ steps[i].path = p
      BY <2>2
    <3>2. i - 1 \in DOMAIN steps' /\ steps'[i - 1].path = p
      BY <1>1, <3>1
    <3> QED
      BY <3>2
  <2>3. CASE p = r
    <3>1. Post(p)'
      BY <1>3, <2>3
    <3>2. Head(steps) = UndoStep(p)
      BY <1>1, <2>3 DEF AimInv
    <3>3. ASSUME NEW i \in DOMAIN steps' PROVE Turn(UndoStep(p)) <= Turn(steps'[i])
      <4>1. i + 1 \in DOMAIN steps /\ 1 < i + 1 /\ steps'[i] = steps[i + 1]
        BY <1>1
      <4> QED
        BY <1>1, <3>2, <4>1 DEF AimInv
    <3> QED
      BY <3>1, <3>3
  <2>4. CASE p # r /\ ~\E i \in DOMAIN steps : i # 1 /\ steps[i].path = p
    <3>1. ~\E i \in DOMAIN steps : steps[i].path = p
      BY <1>1, <2>4
    <3>2. Post(p) /\ \A i \in DOMAIN steps : Turn(UndoStep(p)) <= Turn(steps[i])
      BY <2>1, <3>1 DEF DoneInv
    <3>3. Post(p)'
      BY <1>1, <1>3, <2>4, <3>2
    <3> QED
      BY <1>1, <3>2, <3>3
  <2> QED
    BY <2>2, <2>3, <2>4
<1>4. \A p \in Undoable : p \in Touched
  BY DEF Undoable
<1> QED
  BY <1>2, <1>3, <1>4 DEF DoneInv

(* What a restore leaves alone: the files restored before. *)
LEMMA RestoreSpares ==
    ASSUME UndoInv, ManifestInv, UNCHANGED <<manifest, planned>>,
           NEW st \in Step, st.do = "restore",
           NEW r, NEW p \in Undoable, p # r, Post(p), Turn(UndoStep(p)) <= Turn(st),
           \A q \in Path : q # r /\ live'[q] # live[q] => live[q] = None
    PROVE  Post(p)'
<1>1. p \in Touched
  BY DEF Undoable
<1>2. UndoStep(p) \in Step /\ p \in Path /\ UndoStep(p).do # "skip"
  BY <1>1, UndoStepIs
<1>3. UndoStep(p).do = "restore"
  <2>1. Turn(st) = 0 /\ Turn(UndoStep(p)) \in Nat
    BY <1>2, TurnType
  <2>2. UndoStep(p).do = "remove" => Turn(UndoStep(p)) >= 1
    BY <1>2, TurnType
  <2> QED
    BY <1>2, <2>1, <2>2 DEF Step
<1> DEFINE image == planned[GoesBy(p)][p]
<1>4. image \in Kept /\ image # None
  BY <1>1, <1>3, UndoStepIs, NoneAssumption
<1>5. image.kind = "file" /\ Copy(live[p]) = image
  BY <1>4 DEF Post
<1>6. live[p] # None
  BY <1>4, <1>5 DEF Copy
<1>7. live'[p] = live[p]
  BY <1>2, <1>6
<1>8. GoesBy(p)' = GoesBy(p)
  BY <1>1, SameAim
<1> QED
  BY <1>4, <1>5, <1>7, <1>8 DEF Post

(* What a removal leaves alone: all that is not in the directory removed. *)
LEMMA RemoveSpares ==
    ASSUME UndoInv, ManifestInv, UNCHANGED <<manifest, planned>>,
           NEW st \in Step, st.do = "remove",
           NEW p \in Undoable, p # st.path, Post(p), Turn(UndoStep(p)) <= Turn(st),
           \A q \in Path : q # st.path => live'[q] = live[q],
           live' = live \/ live'[st.path] = None
    PROVE  Post(p)'
<1>1. p \in Touched
  BY DEF Undoable
<1>2. UndoStep(p) \in Step /\ p \in Path /\ UndoStep(p).do # "skip" /\ UndoStep(p).path = p
  BY <1>1, UndoStepIs
<1>3. GoesBy(p)' = GoesBy(p)
  BY <1>1, SameAim
<1>4. live'[p] = live[p] /\ st.path \in Path
  BY <1>2 DEF Step
<1> DEFINE image == planned[GoesBy(p)][p]
<1>5. CASE image # None
  BY <1>3, <1>4, <1>5 DEF Post
<1>6. CASE image = None /\ Gone(p)
  <2>1. \A q \in Path : IsFile(live', q) => IsFile(live, q)
    BY <1>4 DEF IsFile
  <2>2. \A q \in Up[p] : q \in Path
    BY <1>2, UpType
  <2>3. live'[p] = None /\ \A q \in Up[p] : ~IsFile(live', q)
    BY <1>4, <1>6, <2>1, <2>2 DEF Gone, CanMakeDirs
  <2> QED
    BY <1>3, <1>6, <2>3 DEF Post, Gone, CanMakeDirs
<1>7. CASE image = None /\ IsDir(live, p) /\ Inside(live, p) # {}
  <2>1. UndoStep(p).do = "remove"
    <3>1. UndoStep(p).do # "restore"
      BY <1>1, <1>7, UndoStepIs
    <3> QED
      BY <1>2, <3>1 DEF Step
  <2>2. PICK c \in Path : Above[c] = p /\ live[c] # None
    BY <1>7 DEF Inside
  <2>3. c # st.path
    <3>1. ASSUME c = st.path PROVE FALSE
      <4>1. Depth(st.path) = Depth(p) + 1
        BY <1>2, <2>2, <3>1, ChildDeeper
      <4>2. /\ Turn(st) = Cardinality(Path) + 1 - Depth(st.path)
            /\ Turn(UndoStep(p)) = Cardinality(Path) + 1 - Depth(p)
        BY <1>2, <2>1, TurnType
      <4>3. Depth(p) \in Nat /\ Cardinality(Path) \in Nat
        BY <1>2, DepthType, PathAssumption, FS_CardinalityType
      <4> QED
        BY <4>1, <4>2, <4>3
    <3> QED
      BY <3>1
  <2>4. live'[c] # None /\ Above[c] = p
    BY <2>2, <2>3
  <2>5. c \in Inside(live', p) /\ IsDir(live', p)
    BY <1>4, <1>7, <2>4 DEF Inside, IsDir
  <2> QED
    BY <1>3, <1>7, <2>5 DEF Post
<1> QED
  BY <1>5, <1>6, <1>7 DEF Post

(* A plan is followed without anyone else: the tree and the plan agree. *)
LEMMA HeadStep ==
    ASSUME UndoInv, ApartInv, AimInv, steps # <<>>
    PROVE  LET st == Head(steps)
           IN  /\ st \in Step /\ st.path \in Touched /\ st = UndoStep(st.path)
               /\ st.do # "skip" <=> st.path \in Undoable
               /\ st.do = "restore" =>
                      /\ st.from = GoesBy(st.path)
                      /\ planned[st.from][st.path] \in Kept
                      /\ snaps[st.from][st.path] = planned[st.from][st.path]
               /\ st.do = "remove" => planned[GoesBy(st.path)][st.path] = None
<1> DEFINE st == Head(steps)
<1>1. ManifestInv /\ Keeps(planned, snaps)
  BY DEF ApartInv
<1>2. st \in Step /\ st = steps[1] /\ 1 \in DOMAIN steps
  BY NextStepIs
<1>3. PICK p \in Touched : st.path = p /\ st = UndoStep(p)
  BY <1>2 DEF AimInv
<1>4. /\ st.do # "skip" <=> p \in Undoable
      /\ st.do = "restore" => /\ st.from = GoesBy(p) /\ GoesBy(p) \in 0 .. MaxTime
                              /\ planned[GoesBy(p)] # None /\ planned[GoesBy(p)][p] # None
                              /\ planned[GoesBy(p)][p] \in Kept
      /\ st.do = "remove" => planned[GoesBy(p)][p] = None
      /\ p \in Path
  BY <1>1, <1>3, UndoStepIs
<1>5. st.do = "restore" => snaps[GoesBy(p)][p] = planned[GoesBy(p)][p]
  BY <1>1, <1>4 DEF Keeps
<1> QED
  BY <1>2, <1>3, <1>4, <1>5

LEMMA OpenRestoredCalm ==
    ASSUME UndoInv, ApartInv, CalmInv, OpenRestored PROVE CalmInv'
<1> SUFFICES ASSUME calm' PROVE AimInv' /\ DoneInv'
  BY DEF CalmInv
<1>1. /\ phase = "apply" /\ phase' = "copy" /\ calm' = calm /\ steps # <<>>
      /\ Head(steps).do = "restore" /\ handle' = Head(steps).path
      /\ UNCHANGED <<steps, manifest, planned, failed>>
      /\ snaps[Head(steps).from][Head(steps).path].kind = "file"
  BY DEF OpenRestored, NextIs, commandVars
<1>2. AimInv /\ DoneInv /\ ManifestInv
  BY <1>1 DEF CalmInv, ApartInv
<1>3. PICK r : r = Head(steps).path
  OBVIOUS
<1>4. planned[Head(steps).from][r].kind = "file" /\ Head(steps) \in Step
  BY <1>1, <1>2, <1>3, HeadStep
<1>5. /\ Touched' = Touched /\ Undoable' = Undoable
      /\ \A p \in Touched : UndoStep(p)' = UndoStep(p)
  BY <1>1, SameAim
<1>6. AimInv'
  <2>1. \A i \in DOMAIN steps' : \E p \in Touched' :
            steps'[i].path = p /\ steps'[i] = UndoStep(p)'
    BY <1>1, <1>2, <1>5 DEF AimInv
  <2>2. planned'[Head(steps').from][handle'].kind = "file" /\ handle' = Head(steps').path
    BY <1>1, <1>3, <1>4
  <2> QED
    BY <1>1, <1>2, <2>1, <2>2 DEF AimInv
<1>7. ASSUME failed' = 0, NEW p \in Undoable
      PROVE  \/ \E i \in DOMAIN steps' : steps'[i].path = p
             \/ Post(p)' /\ \A i \in DOMAIN steps' : Turn(UndoStep(p)) <= Turn(steps'[i])
  <2>1. CASE \E i \in DOMAIN steps : steps[i].path = p
    BY <1>1, <2>1
  <2>2. CASE ~\E i \in DOMAIN steps : steps[i].path = p
    <3>1. Post(p) /\ \A i \in DOMAIN steps : Turn(UndoStep(p)) <= Turn(steps[i])
      BY <1>1, <1>2, <1>7, <2>2 DEF DoneInv
    <3>2. 1 \in DOMAIN steps /\ Head(steps) = steps[1]
      BY <1>1, NextStepIs
    <3>3. p # r /\ Turn(UndoStep(p)) <= Turn(Head(steps))
      BY <1>3, <2>2, <3>1, <3>2
    <3>4. \A q \in Path : q # r /\ live'[q] # live[q] => live[q] = None
      BY <1>3, OpenRestoredIs
    <3>5. Post(p)'
      BY <1>1, <1>2, <1>4, <3>1, <3>3, <3>4, RestoreSpares
    <3> QED
      BY <1>1, <3>1, <3>5
  <2> QED
    BY <2>1, <2>2
<1>8. \A p \in Undoable : p \in Touched
  BY DEF Undoable
<1>9. DoneInv'
  BY <1>5, <1>7, <1>8 DEF DoneInv
<1> QED
  BY <1>6, <1>9

LEMMA RestoreFailsCalm ==
    ASSUME UndoInv, ApartInv, CalmInv, RestoreFails PROVE CalmInv'
<1> SUFFICES ASSUME calm' PROVE AimInv' /\ DoneInv'
  BY DEF CalmInv
<1>1. /\ phase = "apply" /\ phase' = phase /\ calm' = calm /\ steps # <<>>
      /\ steps' = Tail(steps) /\ failed' = failed + 1 /\ UNCHANGED <<manifest, planned>>
  BY DEF RestoreFails, NextIs, NextStep, commandVars
<1>2. AimInv
  BY <1>1 DEF CalmInv
<1>3. failed \in Nat
  BY DEF UndoInv, TypeOK
<1> QED
  BY <1>1, <1>2, <1>3, TailAim DEF DoneInv

(* A file restored has what its snapshot has. *)
LEMMA CopiedIs ==
    ASSUME UndoInv, ApartInv, AimInv, CopyData, failed' = failed
    PROVE  LET r == Head(steps).path
           IN  /\ r = handle /\ r \in Undoable /\ r \in Path
               /\ IsFile(live', r) /\ Copy(live'[r]) = planned[GoesBy(r)][r]
               /\ planned[GoesBy(r)][r].kind = "file" /\ planned[GoesBy(r)][r] \in Kept
               /\ Head(steps).from = GoesBy(r)
<1> DEFINE r == Head(steps).path
           image == planned[GoesBy(r)][r]
<1>1. phase = "copy" /\ steps # <<>> /\ Head(steps).do = "restore"
  BY DEF CopyData, UndoInv, TypeOK
<1>2. r = handle /\ planned[Head(steps).from][handle].kind = "file"
  BY <1>1 DEF AimInv
<1>3. /\ r \in Undoable /\ r \in Path /\ Head(steps).from = GoesBy(r)
      /\ image \in Kept /\ snaps[GoesBy(r)][r] = image
  BY <1>1, HeadStep, NextStepIs
<1>4. failed \in Nat /\ handle # None
  BY <1>2, <1>3, AboveAssumption DEF UndoInv, TypeOK
<1>5. live' = InPlace(live, handle, snaps[Head(steps).from][Head(steps).path].data)
  BY <1>4 DEF CopyData
<1>6. live' = InPlace(live, r, image.data)
  BY <1>2, <1>3, <1>5
<1>7. IsFile(live, r) /\ ~IsDir(live, r)
  BY <1>2, <1>3, <1>4, HandleIs, LiveNode
<1>8. Reachable(live, r)
  BY <1>3, <1>7, TreeParts, LiveNode DEF IsTree
<1>9. image.data \in Data
  BY <1>3 DEF Kept
<1> HIDE DEF r, image
<1>10. IsFile(live', r) /\ live'[r].data = image.data
  BY <1>3, <1>6, <1>7, <1>8, <1>9, TreeParts, InPlaceTree
<1>11. Copy(live'[r]) = [kind |-> "file", data |-> image.data]
  BY <1>10 DEF Copy, IsFile
<1>12. image.kind = "file"
  BY <1>2, <1>3 DEF r, image
<1>13. image = [kind |-> "file", data |-> image.data]
  BY <1>3, <1>12 DEF Kept
<1> QED
  BY <1>2, <1>3, <1>10, <1>11, <1>12, <1>13 DEF r, image

LEMMA CopyDataCalm ==
    ASSUME UndoInv, ApartInv, CalmInv, CopyData PROVE CalmInv'
<1> SUFFICES ASSUME calm' PROVE AimInv' /\ DoneInv'
  BY DEF CalmInv
<1>1. /\ phase = "copy" /\ phase' = "apply" /\ calm' = calm
      /\ steps' = Tail(steps) /\ UNCHANGED <<manifest, planned>>
      /\ failed' = failed \/ failed' = failed + 1
  BY DEF CopyData, NextStep, commandVars
<1>2. AimInv /\ DoneInv /\ ManifestInv
  BY <1>1 DEF CalmInv, ApartInv
<1>3. steps # <<>> /\ Head(steps).do = "restore" /\ failed \in Nat
  BY <1>1 DEF UndoInv, TypeOK
<1>4. Head(steps) \in Step
  BY <1>3, NextStepIs
<1>5. PICK r : r = Head(steps).path
  OBVIOUS
<1>6. ASSUME failed' = 0
      PROVE  failed = 0 /\ (r \in Undoable => Post(r)')
  <2>1. failed' = failed
    BY <1>1, <1>3, <1>6
  <2>2. /\ r \in Undoable /\ Copy(live'[r]) = planned[GoesBy(r)][r]
        /\ planned[GoesBy(r)][r].kind = "file" /\ planned[GoesBy(r)][r] # None
    BY <1>2, <1>5, <2>1, CopiedIs, NoneAssumption
  <2>3. r \in Touched
    BY <2>2 DEF Undoable
  <2>4. planned'[GoesBy(r)'] = planned[GoesBy(r)]
    BY <1>1, <2>3, SameAim
  <2> QED
    BY <1>6, <2>1, <2>2, <2>4 DEF Post
<1>7. ASSUME failed' = 0, NEW p \in Undoable, p # r, Post(p),
             Turn(UndoStep(p)) <= Turn(Head(steps))
      PROVE  Post(p)'
  <2>1. handle = r
    BY <1>1, <1>2, <1>5 DEF AimInv
  <2>2. \A q \in Path : q # r /\ live'[q] # live[q] => live[q] = None
    BY <2>1, CopyDataIs
  <2>3. PICK st \in Step : st = Head(steps)
    BY <1>4
  <2>4. st.do = "restore" /\ st.path = r /\ Turn(UndoStep(p)) <= Turn(st)
    BY <1>3, <1>5, <1>7, <2>3
  <2>5. UNCHANGED <<manifest, planned>> /\ AimInv /\ ManifestInv
    BY <1>1, <1>2
  <2> QED
    BY <1>7, <2>2, <2>3, <2>4, <2>5, RestoreSpares
<1> QED
  BY <1>1, <1>2, <1>3, <1>5, <1>6, <1>7, TailAim, StepDone

(* What was created is gone, or is a directory in use. *)
LEMMA RemoveCreatedCalm ==
    ASSUME UndoInv, ApartInv, CalmInv, RemoveCreated PROVE CalmInv'
<1> SUFFICES ASSUME calm' PROVE AimInv' /\ DoneInv'
  BY DEF CalmInv
<1>1. /\ phase = "apply" /\ phase' = phase /\ calm' = calm /\ steps # <<>>
      /\ Head(steps).do = "remove"
      /\ steps' = Tail(steps) /\ UNCHANGED <<manifest, planned>>
  BY DEF RemoveCreated, NextIs, NextStep
<1>2. AimInv /\ DoneInv /\ ManifestInv /\ failed \in Nat
  BY <1>1 DEF CalmInv, ApartInv, UndoInv, TypeOK
<1>3. PICK r : r = Head(steps).path
  OBVIOUS
<1>4. /\ Head(steps) \in Step /\ r \in Touched /\ r \in Path
      /\ planned[GoesBy(r)][r] = None
  BY <1>1, <1>2, <1>3, HeadStep, NextStepIs
<1>5. /\ \A q \in Path : q # r => live'[q] = live[q]
      /\ live' = live \/ (live[r] # None /\ live'[r] = None)
      /\ live \in Trees /\ IsTree(live)
  BY <1>3, RemoveCreatedIs, TreeParts
<1>6. GoesBy(r)' = GoesBy(r)
  BY <1>1, <1>4, SameAim
<1>7. \/ live' # live /\ failed' = failed
      \/ live' = live /\ Gone(r) /\ failed' = failed
      \/ live' = live /\ IsDir(live, r) /\ Inside(live, r) # {} /\ failed' = failed
      \/ failed' = failed + 1
  <2>1. \/ live' = [live EXCEPT ![r] = None] /\ failed' = failed /\ live[r] # None
        \/ live' = live /\ Gone(r) /\ failed' = failed
        \/ live' = live /\ IsDir(live, r) /\ Inside(live, r) # {} /\ failed' = failed
        \/ failed' = failed + 1
    BY <1>3 DEF RemoveCreated, IsFile, IsDir
  <2>2. ASSUME live' = [live EXCEPT ![r] = None], live[r] # None PROVE live' # live
    BY <1>4, <1>5, <2>2 DEF Trees
  <2> QED
    BY <2>1, <2>2
<1>8. ASSUME failed' = 0 PROVE failed = 0 /\ (r \in Undoable => Post(r)')
  <2>1. failed' = failed
    BY <1>2, <1>7, <1>8
  <2>2. CASE live' # live
    <3>1. live[r] # None /\ live'[r] = None
      BY <1>5, <2>2
    <3>2. ASSUME NEW q \in Up[r] PROVE ~IsFile(live', q)
      <4>1. IsDir(live, q) /\ q \in Path /\ q # r
        BY <1>4, <1>5, <3>1, TreeAbove, UpType, NotAboveItself
      <4> QED
        BY <1>5, <4>1 DEF IsDir, IsFile
    <3>3. Gone(r)'
      BY <3>1, <3>2 DEF Gone, CanMakeDirs
    <3> QED
      BY <1>1, <1>4, <1>6, <1>8, <2>1, <3>3 DEF Post
  <2>3. CASE live' = live
    <3>1. Gone(r) \/ (IsDir(live, r) /\ Inside(live, r) # {})
      BY <1>2, <1>7, <2>1, <2>3
    <3>2. Post(r)
      BY <1>4, <3>1 DEF Post
    <3>3. Post(r)'
      BY <1>1, <2>3, <3>2, SamePost
    <3> QED
      BY <1>8, <2>1, <3>3
  <2> QED
    BY <2>2, <2>3
<1>9. ASSUME failed' = 0, NEW p \in Undoable, p # r, Post(p),
             Turn(UndoStep(p)) <= Turn(Head(steps))
      PROVE  Post(p)'
  BY <1>1, <1>2, <1>3, <1>4, <1>5, <1>9, RemoveSpares
<1> QED
  BY <1>1, <1>2, <1>3, <1>8, <1>9, TailAim, StepDone

LEMMA SkipCalm ==
    ASSUME UndoInv, ApartInv, CalmInv, Skip PROVE CalmInv'
<1> SUFFICES ASSUME calm' PROVE AimInv' /\ DoneInv'
  BY DEF CalmInv
<1>1. /\ phase = "apply" /\ phase' = phase /\ calm' = calm /\ steps # <<>>
      /\ Head(steps).do = "skip" /\ failed' = failed /\ live' = live
      /\ steps' = Tail(steps) /\ UNCHANGED <<manifest, planned>>
  BY DEF Skip, NextIs, NextStep, commandVars, treeVars
<1>2. AimInv /\ DoneInv /\ ManifestInv
  BY <1>1 DEF CalmInv, ApartInv
<1>3. PICK r : r = Head(steps).path
  OBVIOUS
<1>4. r \notin Undoable
  BY <1>1, <1>2, <1>3, HeadStep
<1>5. \A p \in Undoable : Post(p) => Post(p)'
  BY <1>1, SamePost
<1> QED
  BY <1>1, <1>2, <1>3, <1>4, <1>5, TailAim, StepDone

LEMMA NextCalm ==
    ASSUME UndoInv, ApartInv, CalmInv, Mode # "hardlink", [Next]_vars PROVE CalmInv'
<1>1. ASSUME NEW who, NEW Q, NEW sort, NEW r, NEW other, Does(who, Q, sort, r, other)
      PROVE  CalmInv'
  BY <1>1 DEF Does, CalmInv
<1>2. ASSUME NEW who \in Actor, Act(who) PROVE CalmInv'
  BY <1>1, <1>2 DEF Act, WriteFile, MakeDir, Unlink, RemoveDir, Rename
<1>3. CASE (\E p \in Path : Attrib(p)) \/ Record
  BY <1>1, <1>3 DEF Attrib, Record, CalmInv
<1>4. CASE Tick \/ SnapshotEnds \/ Finish \/ UNCHANGED vars
  <2>1. UNCHANGED <<manifest, planned, live, steps, handle, failed, calm>>
    BY <1>4 DEF Tick, SnapshotEnds, Finish, vars, treeVars, commandVars, chronicleVars
  <2>2. phase' = phase \/ (phase = "apply" /\ phase' = "done" /\ steps = <<>>)
    BY <1>4 DEF Tick, SnapshotEnds, Finish, vars, chronicleVars
  <2> QED
    BY <2>1, <2>2, CalmStill
<1>5. CASE TakeSnapshot \/ \E p \in Path : CopyEntry(p)
  <2>1. live' = live
    BY <1>5, TakerKeeps
  <2>2. UNCHANGED <<commandVars, chronicleVars, calm>>
    BY <1>5 DEF TakeSnapshot, CopyEntry
  <2>3. UNCHANGED <<manifest, planned, steps, handle, failed, calm, phase>>
    BY <2>2 DEF commandVars, chronicleVars
  <2> QED
    BY <2>1, <2>3, CalmStill
<1>6. CASE PlanUndo
  BY <1>6, PlanUndoCalm DEF ApartInv
<1>7. CASE OpenRestored \/ RestoreFails \/ CopyData
  BY <1>7, OpenRestoredCalm, RestoreFailsCalm, CopyDataCalm
<1>8. CASE RemoveCreated \/ Skip
  BY <1>8, RemoveCreatedCalm, SkipCalm
<1>9. CASE Killed
  BY <1>9 DEF Killed, CalmInv
<1> QED
  BY <1>2, <1>3, <1>4, <1>5, <1>6, <1>7, <1>8, <1>9 DEF Next

LEMMA InitCalm == ASSUME Init PROVE CalmInv
  BY DEF Init, CalmInv

LEMMA CalmUndone == ASSUME UndoInv, CalmInv PROVE UndoneUnlessReported
<1> SUFFICES ASSUME phase = "done", calm, failed = 0, NEW p \in Undoable
             PROVE  LET image == planned[GoesBy(p)][p]
                    IN  IF image # None THEN Copy(live[p]) = image
                        ELSE live[p] = None \/ Inside(live, p) # {}
  BY DEF UndoneUnlessReported
<1>1. steps = <<>> /\ DoneInv
  BY DEF CalmInv, AimInv
<1>2. Post(p)
  BY <1>1 DEF DoneInv
<1> QED
  BY <1>2 DEF Post, Gone

(* A calm undo that reports no failure has undone what the snapshots can   *)
(* undo, for every tree, manifest and set of snapshots.  Snapshots by hard *)
(* links are left out: what is written to a file reaches them.             *)
THEOREM UndoUndoes == Mode # "hardlink" => (Spec => []UndoneUnlessReported)
<1> SUFFICES ASSUME Mode # "hardlink" PROVE Spec => []UndoneUnlessReported
  OBVIOUS
<1> DEFINE I == UndoInv /\ ApartInv /\ CalmInv
<1>1. Init => I
  BY InitUndo, InitApart, InitCalm
<1>2. I /\ [Next]_vars => I'
  BY NextUndo, NextApart, NextCalm
<1>3. I => UndoneUnlessReported
  BY CalmUndone
<1> QED
  BY <1>1, <1>2, <1>3, PTL DEF Spec

-----------------------------------------------------------------------------
(* What a whole undo has left, and what a second one does to it: nothing,  *)
(* except while it has a file open to write into it what it held.          *)

SettledInv ==
    settled # None =>
        /\ calm /\ failed = 0 /\ planned = snaps /\ phase # "idle"
        /\ \A p \in Undoable : p # handle => Post(p)
        /\ \A p \in Path : p # handle => Copy(live[p]) = settled[p]
        /\ handle # None => settled[handle] = planned[Head(steps).from][handle]

LEMMA SettledStill ==
    ASSUME SettledInv, settled' = settled, phase' # "idle", handle # None => steps' = steps,
           UNCHANGED <<manifest, planned, snaps, live, handle, failed, calm>>
    PROVE  SettledInv'
<1> SUFFICES ASSUME settled # None
             PROVE  /\ calm' /\ failed' = 0 /\ planned' = snaps' /\ phase' # "idle"
                    /\ \A p \in Undoable' : p # handle' => Post(p)'
                    /\ \A p \in Path : p # handle' => Copy(live'[p]) = settled'[p]
                    /\ handle' # None =>
                           settled'[handle'] = planned'[Head(steps').from][handle']
  BY DEF SettledInv
<1>1. calm' /\ failed' = 0 /\ planned' = snaps' /\ phase' # "idle"
  BY DEF SettledInv
<1>2. Undoable' = Undoable
  BY SameAim
<1>3. ASSUME NEW p \in Undoable, p # handle PROVE Post(p)'
  <2>1. Post(p)
    BY <1>3 DEF SettledInv
  <2> QED
    BY <2>1, SamePost
<1>4. \A p \in Path : p # handle' => Copy(live'[p]) = settled'[p]
  BY DEF SettledInv
<1>5. handle' # None => settled'[handle'] = planned'[Head(steps').from][handle']
  BY DEF SettledInv
<1> QED
  BY <1>1, <1>2, <1>3, <1>4, <1>5

(* A file rewritten in place disturbs nothing else that has been undone. *)
LEMMA FileSpares ==
    ASSUME UNCHANGED <<manifest, planned>>, NEW r \in Path, IsFile(live, r), IsFile(live', r),
           \A q \in Path : q # r => live'[q] = live[q],
           NEW p \in Path, p \in Touched, p # r, Post(p)
    PROVE  Post(p)'
<1>1. GoesBy(p)' = GoesBy(p)
  BY SameAim
<1>2. live'[p] = live[p]
  OBVIOUS
<1> DEFINE image == planned[GoesBy(p)][p]
<1>3. CASE image # None
  BY <1>1, <1>2, <1>3 DEF Post
<1>4. CASE image = None /\ Gone(p)
  <2>1. \A q \in Path : IsFile(live', q) => IsFile(live, q)
    BY DEF IsFile
  <2>2. \A q \in Up[p] : q \in Path
    BY UpType
  <2>3. live'[p] = None /\ \A q \in Up[p] : ~IsFile(live', q)
    BY <1>2, <1>4, <2>1, <2>2 DEF Gone, CanMakeDirs
  <2> QED
    BY <1>1, <1>4, <2>3 DEF Post, Gone, CanMakeDirs
<1>5. CASE image = None /\ IsDir(live, p) /\ Inside(live, p) # {}
  <2>1. PICK c \in Path : Above[c] = p /\ live[c] # None
    BY <1>5 DEF Inside
  <2>2. live'[c] # None
    BY <2>1 DEF IsFile
  <2>3. c \in Inside(live', p) /\ IsDir(live', p)
    BY <1>2, <1>5, <2>1, <2>2 DEF Inside, IsDir
  <2> QED
    BY <1>1, <1>5, <2>3 DEF Post
<1> QED
  BY <1>3, <1>4, <1>5 DEF Post

(* What is to be restored next already is what it shall be. *)
LEMMA AlreadyRestored ==
    ASSUME UndoInv, ApartInv, AimInv, SettledInv, settled # None, phase = "apply",
           steps # <<>>, Head(steps).do = "restore"
    PROVE  LET r == Head(steps).path
           IN  /\ r \in Undoable /\ r \in Path /\ handle = None /\ Post(r)
               /\ IsFile(live, r) /\ ~IsDir(live, r)
               /\ CanMakeDirs(live, r) /\ MakeDirs(live, r) = live
               /\ snaps[Head(steps).from][r].kind = "file"
               /\ planned[Head(steps).from][r] = Copy(live[r])
<1> DEFINE r == Head(steps).path
<1>1. handle = None
  BY DEF UndoInv, HandleInv
<1>2. /\ r \in Undoable /\ Head(steps).from = GoesBy(r)
      /\ planned[GoesBy(r)][r] \in Kept
      /\ snaps[GoesBy(r)][r] = planned[GoesBy(r)][r] /\ r \in Path
  BY HeadStep, NextStepIs
<1>3. Post(r)
  <2>1. r # None
    BY <1>2, AboveAssumption
  <2> HIDE DEF r
  <2> QED
    BY <1>1, <1>2, <2>1 DEF SettledInv
<1>4. planned[GoesBy(r)][r] # None
  BY <1>2, NoneAssumption
<1> HIDE DEF r
<1>5. planned[GoesBy(r)][r].kind = "file" /\ Copy(live[r]) = planned[GoesBy(r)][r]
  BY <1>3, <1>4 DEF Post
<1>6. live[r] # None /\ live[r].kind = "file"
  BY <1>4, <1>5 DEF Copy
<1>7. IsFile(live, r) /\ ~IsDir(live, r)
  BY <1>6 DEF IsFile, IsDir
<1>8. \A d \in Up[r] : d \in Path /\ IsDir(live, d)
  BY <1>2, <1>6, TreeParts, TreeAbove, UpType
<1>9. CanMakeDirs(live, r)
  BY <1>8 DEF CanMakeDirs, IsDir, IsFile
<1>10. MakeDirs(live, r) = live
  <2>1. live = [q \in Path |-> live[q]]
    BY TreeParts DEF Trees
  <2>2. \A q \in Path : ~(q \in Up[r] /\ live[q] = None)
    BY <1>8 DEF IsDir
  <2> QED
    BY <2>1, <2>2 DEF MakeDirs
<1> QED
  BY <1>1, <1>2, <1>3, <1>5, <1>7, <1>9, <1>10 DEF r

LEMMA OpenRestoredSettled ==
    ASSUME UndoInv, ApartInv, CalmInv, SettledInv, OpenRestored PROVE SettledInv'
<1> SUFFICES ASSUME settled' # None PROVE SettledInv'
  BY DEF SettledInv
<1>1. /\ phase = "apply" /\ phase' = "copy" /\ calm' = calm /\ settled' = settled
      /\ steps # <<>> /\ Head(steps).do = "restore" /\ handle' = Head(steps).path
      /\ UNCHANGED <<steps, manifest, planned, failed>>
  BY DEF OpenRestored, NextIs, commandVars
<1>2. calm /\ failed = 0 /\ planned = snaps
  BY <1>1 DEF SettledInv
<1>3. AimInv
  BY <1>1, <1>2 DEF CalmInv
<1>4. PICK r : r = Head(steps).path
  OBVIOUS
<1>5. /\ r \in Path /\ handle = None /\ IsFile(live, r) /\ MakeDirs(live, r) = live
      /\ planned[Head(steps).from][r] = Copy(live[r])
  BY <1>1, <1>3, <1>4, AlreadyRestored
<1>6. snaps' = snaps
  BY ChronicleBare DEF ApartInv
<1>7. live' = InPlace(live, r, Blank)
  BY <1>4, <1>5 DEF OpenRestored
<1>8. \A q \in Path : q # r => live'[q] = live[q]
  BY <1>7, TreeParts DEF InPlace, Trees
<1>9. IsFile(live', r)
  BY <1>4, OpenRestoredIs
<1>10. Undoable' = Undoable /\ \A p \in Undoable : p \in Touched /\ p \in Path
  <2>1. \A p \in Touched : p \in Path
    BY TouchedFirst
  <2> QED
    BY <1>1, <2>1, SameAim DEF Undoable
<1>11. r # None
  BY <1>5, AboveAssumption
<1>12. ASSUME NEW p \in Undoable, p # r PROVE Post(p)'
  <2>1. p # handle
    BY <1>5, <1>10, AboveAssumption
  <2>2. Post(p)
    BY <1>1, <2>1 DEF SettledInv
  <2> QED
    BY <1>1, <1>5, <1>8, <1>9, <1>10, <1>12, <2>2, FileSpares
<1>13. \A p \in Path : p # handle => Copy(live[p]) = settled[p]
  BY <1>1 DEF SettledInv
<1>14. \A p \in Path : p # handle
  BY <1>5, AboveAssumption
<1>15. \A p \in Path : p # handle' => Copy(live'[p]) = settled'[p]
  BY <1>1, <1>4, <1>8, <1>13, <1>14
<1>16. settled'[handle'] = planned'[Head(steps').from][handle']
  BY <1>1, <1>4, <1>5, <1>13, <1>14
<1>17. \A p \in Undoable' : p # handle' => Post(p)'
  BY <1>1, <1>4, <1>10, <1>12
<1>18. calm' /\ failed' = 0 /\ planned' = snaps' /\ phase' # "idle"
  BY <1>1, <1>2, <1>6
<1> QED
  BY <1>15, <1>16, <1>17, <1>18 DEF SettledInv

(* Nothing is in the way of a restore: only a call that fails can fail it. *)
LEMMA RestoreFailsSettled ==
    ASSUME UndoInv, ApartInv, CalmInv, SettledInv, RestoreFails PROVE SettledInv'
<1> SUFFICES ASSUME settled' # None PROVE FALSE
  BY DEF SettledInv
<1>1. phase = "apply" /\ steps # <<>> /\ Head(steps).do = "restore"
  BY DEF RestoreFails, NextIs
<1>2. PICK r : r = Head(steps).path
  OBVIOUS
<1>3. PICK made : made = IF CanMakeDirs(live, r) THEN MakeDirs(live, r) ELSE live
  OBVIOUS
<1>4. /\ ~CanMakeDirs(live, r) \/ snaps[Head(steps).from][r].kind = "dir" \/ IsDir(made, r)
      /\ settled' = settled
  BY <1>2, <1>3 DEF RestoreFails, Succeeds, Mishap
<1>5. AimInv
  BY <1>1, <1>4 DEF CalmInv, SettledInv
<1>6. /\ ~IsDir(live, r) /\ CanMakeDirs(live, r) /\ MakeDirs(live, r) = live
      /\ snaps[Head(steps).from][r].kind = "file"
  BY <1>1, <1>2, <1>4, <1>5, AlreadyRestored
<1>7. made = live
  BY <1>3, <1>6
<1> QED
  BY <1>4, <1>6, <1>7

LEMMA CopyDataSettled ==
    ASSUME UndoInv, ApartInv, CalmInv, SettledInv, CopyData PROVE SettledInv'
<1> SUFFICES ASSUME settled' # None PROVE SettledInv'
  BY DEF SettledInv
<1>1. /\ phase = "copy" /\ phase' = "apply" /\ calm' = calm /\ handle' = None
      /\ UNCHANGED <<manifest, planned>>
      /\ failed' = failed /\ settled' = settled
  BY DEF CopyData, commandVars, Succeeds, Mishap
<1>2. calm /\ failed = 0 /\ planned = snaps
  BY <1>1 DEF SettledInv
<1>3. AimInv
  BY <1>1, <1>2 DEF CalmInv
<1>4. PICK r : r = Head(steps).path
  OBVIOUS
<1>5. /\ r = handle /\ r \in Undoable /\ r \in Path /\ IsFile(live', r)
      /\ Copy(live'[r]) = planned[GoesBy(r)][r]
      /\ planned[GoesBy(r)][r].kind = "file" /\ planned[GoesBy(r)][r] \in Kept
      /\ Head(steps).from = GoesBy(r)
  BY <1>1, <1>3, <1>4, CopiedIs
<1>6. snaps' = snaps
  BY ChronicleBare DEF ApartInv
<1>7. IsFile(live, r) /\ r # None
  BY <1>5, HandleIs, AboveAssumption
<1>8. \A q \in Path : q # r => live'[q] = live[q]
  BY <1>5, CopyDataIs
<1>9. /\ Undoable' = Undoable /\ \A p \in Undoable : p \in Touched /\ p \in Path
      /\ GoesBy(r)' = GoesBy(r)
  <2>1. \A p \in Touched : p \in Path
    BY TouchedFirst
  <2> QED
    BY <1>1, <1>5, <2>1, SameAim DEF Undoable
<1>10. Post(r)'
  <2>1. planned[GoesBy(r)][r] # None /\ planned'[GoesBy(r)'] = planned[GoesBy(r)]
    BY <1>1, <1>5, <1>9, NoneAssumption
  <2> QED
    BY <1>5, <2>1 DEF Post
<1>11. ASSUME NEW p \in Undoable, p # r PROVE Post(p)'
  <2>1. Post(p)
    BY <1>1, <1>5, <1>11 DEF SettledInv
  <2> QED
    BY <1>1, <1>5, <1>7, <1>8, <1>9, <1>11, <2>1, FileSpares
<1>12. Copy(live'[r]) = settled[r]
  BY <1>1, <1>5, <1>7 DEF SettledInv
<1>13. \A p \in Path : p # r => Copy(live'[p]) = settled[p]
  BY <1>1, <1>5, <1>8 DEF SettledInv
<1>14. \A p \in Undoable' : Post(p)'
  BY <1>9, <1>10, <1>11
<1>15. \A p \in Path : Copy(live'[p]) = settled'[p]
  BY <1>1, <1>12, <1>13
<1> QED
  BY <1>1, <1>2, <1>6, <1>14, <1>15 DEF SettledInv

(* What is to be removed is gone, or stays. *)
LEMMA RemoveCreatedSettled ==
    ASSUME UndoInv, ApartInv, CalmInv, SettledInv, RemoveCreated PROVE SettledInv'
<1> SUFFICES ASSUME settled' # None PROVE SettledInv'
  BY DEF SettledInv
<1>1. /\ phase = "apply" /\ phase' = phase /\ calm' = calm /\ steps # <<>>
      /\ Head(steps).do = "remove"
      /\ UNCHANGED <<manifest, planned, snaps, handle>>
  BY DEF RemoveCreated, NextIs
<1>2. settled' = settled
  BY DEF RemoveCreated, Succeeds, Mishap
<1>3. AimInv
  BY <1>1, <1>2 DEF CalmInv, SettledInv
<1>4. PICK r : r = Head(steps).path
  OBVIOUS
<1>5. r \in Undoable /\ planned[GoesBy(r)][r] = None /\ r \in Path
  BY <1>1, <1>3, <1>4, HeadStep, NextStepIs
<1>6. handle = None /\ r # None
  BY <1>1, <1>5, AboveAssumption DEF UndoInv, HandleInv
<1>7. Post(r)
  BY <1>2, <1>5, <1>6 DEF SettledInv
<1>8. Gone(r) \/ (IsDir(live, r) /\ Inside(live, r) # {})
  BY <1>5, <1>7 DEF Post
<1>9. ~IsFile(live, r) /\ (live[r] = None => Gone(r))
  BY <1>8 DEF Gone, IsDir, IsFile
<1>10. live' = live /\ failed' = failed
  <2>1. ~(IsFile(live, r) \/ (IsDir(live, r) /\ ~(IsDir(live, r) /\ Inside(live, r) # {})))
    BY <1>8, <1>9 DEF Gone, IsDir
  <2>2. ~(live[r] = None /\ ~Gone(r))
    BY <1>9
  <2> QED
    BY <1>4, <2>1, <2>2 DEF RemoveCreated, Mishap
<1> QED
  BY <1>1, <1>2, <1>6, <1>10, SettledStill

(* An undo has come to its end. *)
LEMMA FinishSettled ==
    ASSUME UndoInv, CalmInv, SettledInv, Finish PROVE SettledInv'
<1>1. /\ phase = "apply" /\ phase' = "done" /\ steps = <<>> /\ handle = None
      /\ UNCHANGED <<manifest, planned, snaps, live, steps, handle, failed, calm>>
  BY DEF Finish, treeVars, commandVars, UndoInv, HandleInv
<1>2. CASE settled' = settled
  BY <1>1, <1>2, SettledStill
<1>3. CASE settled' # settled
  <2>1. calm /\ failed = 0 /\ planned = snaps /\ settled' = [p \in Path |-> Copy(live[p])]
    BY <1>3 DEF Finish
  <2>2. DoneInv
    BY <1>1, <2>1 DEF CalmInv
  <2>3. \A p \in Undoable : Post(p)
    BY <1>1, <2>1, <2>2 DEF DoneInv
  <2>4. Undoable' = Undoable /\ \A p \in Undoable : Post(p)'
    BY <1>1, <2>3, SameAim, SamePost
  <2>5. \A p \in Path : Copy(live'[p]) = settled'[p]
    BY <1>1, <2>1
  <2> QED
    BY <1>1, <2>1, <2>4, <2>5 DEF SettledInv
<1> QED
  BY <1>2, <1>3

LEMMA NextSettled ==
    ASSUME UndoInv, ApartInv, CalmInv, SettledInv, Mode # "hardlink", [Next]_vars
    PROVE  SettledInv'
<1>1. ASSUME NEW who \in Actor, NEW Q, NEW sort, NEW r, NEW other, Does(who, Q, sort, r, other)
      PROVE  SettledInv'
  BY <1>1 DEF Does, Mishap, SettledInv
<1>2. ASSUME NEW who \in Actor, Act(who) PROVE SettledInv'
  BY <1>1, <1>2 DEF Act, WriteFile, MakeDir, Unlink, RemoveDir, Rename
<1>3. ASSUME NEW p \in Path, Attrib(p) PROVE SettledInv'
  BY <1>1, <1>3 DEF Attrib, Actor
<1>4. CASE TakeSnapshot \/ Record \/ Killed \/ \E p \in Path : CopyEntry(p)
  BY <1>4 DEF TakeSnapshot, Record, Killed, CopyEntry, Mishap, SettledInv
<1>5. CASE Tick \/ Skip \/ UNCHANGED vars
  <2> SUFFICES ASSUME settled' # None PROVE SettledInv'
    BY DEF SettledInv
  <2>1. /\ UNCHANGED <<manifest, planned, snaps, live, handle, failed, calm, phase, settled>>
        /\ steps' = steps \/ phase = "apply"
    BY <1>5 DEF Tick, Skip, NextIs, vars, treeVars, commandVars, chronicleVars
  <2>2. phase' # "idle" /\ (handle # None => steps' = steps)
    BY <2>1 DEF SettledInv, UndoInv, HandleInv
  <2> QED
    BY <2>1, <2>2, SettledStill
<1>6. CASE SnapshotEnds
  <2> SUFFICES ASSUME settled' # None PROVE SettledInv'
    BY DEF SettledInv
  <2>1. /\ UNCHANGED <<manifest, planned, snaps, live, handle, failed, calm, phase, steps>>
        /\ settled' = settled
    BY <1>6 DEF SnapshotEnds, Succeeds, Mishap, commandVars, chronicleVars
  <2>2. phase' # "idle"
    BY <2>1 DEF SettledInv
  <2> QED
    BY <2>1, <2>2, SettledStill
<1>7. CASE PlanUndo
  <2> SUFFICES ASSUME settled' # None PROVE SettledInv'
    BY DEF SettledInv
  <2>1. /\ UNCHANGED <<manifest, snaps, live, handle, settled>>
        /\ phase \in {"idle", "done"} /\ phase' = "apply" /\ planned' = snaps
        /\ failed' = 0 /\ calm' = TRUE
    BY <1>7 DEF PlanUndo, treeVars, commandVars
  <2>2. calm /\ failed = 0 /\ planned = snaps /\ handle = None
    BY <2>1 DEF SettledInv, UndoInv, HandleInv
  <2>3. UNCHANGED <<planned, failed, calm>>
    BY <2>1, <2>2 DEF SettledInv, UndoInv, TypeOK
  <2> QED
    BY <2>1, <2>2, <2>3, SettledStill
<1>8. CASE OpenRestored \/ RestoreFails \/ CopyData
  BY <1>8, OpenRestoredSettled, RestoreFailsSettled, CopyDataSettled
<1>9. CASE RemoveCreated \/ Finish
  BY <1>9, RemoveCreatedSettled, FinishSettled
<1> QED
  BY <1>2, <1>3, <1>4, <1>5, <1>6, <1>7, <1>8, <1>9 DEF Next

LEMMA InitSettled == ASSUME Init PROVE SettledInv
  BY DEF Init, SettledInv

LEMMA SettledSafe == ASSUME UndoInv, SettledInv PROVE ReapplyIsSafe
<1> SUFFICES ASSUME phase = "done", settled # None
             PROVE  failed = 0 /\ \A p \in Path : Copy(live[p]) = settled[p]
  BY DEF ReapplyIsSafe
<1>1. handle = None /\ \A p \in Path : p # handle
  BY AboveAssumption DEF UndoInv, HandleInv
<1> QED
  BY <1>1 DEF SettledInv

(* Once an undo has gone through, every further one reports no failure and *)
(* leaves every file as it is, however many follow, as long as nobody else *)
(* touches the tree and no snapshot is taken.                              *)
THEOREM UndoReapplies == Mode # "hardlink" => (Spec => []ReapplyIsSafe)
<1> SUFFICES ASSUME Mode # "hardlink" PROVE Spec => []ReapplyIsSafe
  OBVIOUS
<1> DEFINE I == UndoInv /\ ApartInv /\ CalmInv /\ SettledInv
<1>1. Init => I
  BY InitUndo, InitApart, InitCalm, InitSettled
<1>2. I /\ [Next]_vars => I'
  BY NextUndo, NextApart, NextCalm, NextSettled
<1>3. I => ReapplyIsSafe
  BY SettledSafe
<1> QED
  BY <1>1, <1>2, <1>3, PTL DEF Spec
=============================================================================
