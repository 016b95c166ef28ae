---------------------------- MODULE PolicyProofs ----------------------------
(***************************************************************************)
(* What the operators of Policy rest on, for every skill graph: a finite   *)
(* set of skills has a least one in every order the code sorts by, and a   *)
(* definition by recursion on prerequisites defines a function, because    *)
(* the graph has no cycle.                                                 *)
(***************************************************************************)
EXTENDS Policy, FiniteSetTheorems, WellFoundedInduction, TLAPS

-----------------------------------------------------------------------------
(* Least and greatest numbers.                                             *)

LEMMA HasLeast ==
    ASSUME NEW S \in SUBSET Nat, S # {}
    PROVE  \E i \in S : \A j \in S : i <= j
<1>1. \E i \in S : \A j \in S : ~ (<<j, i>> \in OpToRel(<, Nat))
    BY NatLessThanWellFounded, WFMin, Zenon
<1>2. PICK i \in S : \A j \in S : ~ (<<j, i>> \in OpToRel(<, Nat))
    BY <1>1
<1>3. ASSUME NEW j \in S
      PROVE  i <= j
  <2>1. ~ (j < i)
      BY <1>2 DEF OpToRel
  <2> QED  BY <2>1
<1> QED  BY <1>3

LEMMA ImageIsFinite ==
    ASSUME NEW W, IsFiniteSet(W), NEW f
    PROVE  IsFiniteSet({f[x] : x \in W})
<1> DEFINE V == {f[x] : x \in W}
<1> DEFINE g == [x \in W |-> f[x]]
<1>1. g \in Surjection(W, V)
    BY DEF Surjection
<1> QED  BY <1>1, FS_Surjection

Bounds(S) == {b \in Nat : \A x \in S : x <= b}

(* A finite set of numbers is bounded: one without a bound and of least    *)
(* size would keep none when an element is taken away.                     *)
LEMMA FiniteIsBounded ==
    ASSUME NEW S \in SUBSET Nat, IsFiniteSet(S)
    PROVE  Bounds(S) # {}
<1> DEFINE Sizes == {k \in Nat : \E U \in SUBSET Nat :
                        IsFiniteSet(U) /\ Cardinality(U) = k /\ Bounds(U) = {}}
<1> SUFFICES ASSUME Bounds(S) = {} PROVE FALSE
    OBVIOUS
<1>1. Cardinality(S) \in Sizes
    BY FS_CardinalityType
<1>2. PICK k \in Sizes : \A j \in Sizes : k <= j
    BY <1>1, HasLeast
<1>3. PICK U \in SUBSET Nat : IsFiniteSet(U) /\ Cardinality(U) = k /\ Bounds(U) = {}
    BY <1>2
<1>4. PICK x \in U : TRUE
  <2>1. U # {}
    <3>1. 0 \in Bounds({})
        BY DEF Bounds
    <3> QED  BY <1>3, <3>1
  <2> QED  BY <2>1
<1>5. /\ IsFiniteSet(U \ {x})
      /\ Cardinality(U \ {x}) = k - 1
      /\ k \in Nat
  <2>1. IsFiniteSet(U \ {x}) /\ Cardinality(U \ {x}) = Cardinality(U) - 1
      BY <1>3, <1>4, FS_RemoveElement
  <2> QED  BY <2>1, <1>3, <1>2
<1>6. Cardinality(U \ {x}) \in Nat
    BY <1>5, FS_CardinalityType
<1>7. CASE Bounds(U \ {x}) = {}
  <2>1. k - 1 \in Sizes
      BY <1>5, <1>6, <1>7, <1>3
  <2> QED  BY <2>1, <1>2, <1>5
<1>8. CASE Bounds(U \ {x}) # {}
  <2>1. PICK b \in Nat : \A y \in U \ {x} : y <= b
      BY <1>8 DEF Bounds
  <2>2. x \in Nat
      BY <1>3, <1>4
  <2>3. \A y \in U : y <= b + x /\ y \in Nat
      BY <2>1, <2>2, <1>3
  <2>4. b + x \in Bounds(U)
      BY <2>1, <2>2, <2>3 DEF Bounds
  <2> QED  BY <2>4, <1>3
<1> QED  BY <1>7, <1>8

LEMMA HasGreatest ==
    ASSUME NEW S \in SUBSET Nat, IsFiniteSet(S), S # {}
    PROVE  /\ Max(S) \in S
           /\ \A x \in S : x <= Max(S)
<1>1. PICK b \in Bounds(S) : \A c \in Bounds(S) : b <= c
  <2>1. Bounds(S) \in SUBSET Nat
      BY DEF Bounds
  <2> QED  BY <2>1, FiniteIsBounded, HasLeast
<1>2. b \in S
  <2> SUFFICES ASSUME b \notin S PROVE FALSE
      OBVIOUS
  <2>1. b \in Nat /\ \A x \in S : x <= b /\ x # b /\ x \in Nat
      BY <1>1 DEF Bounds
  <2>2. PICK y \in S : TRUE
      OBVIOUS
  <2>3. b - 1 \in Nat /\ \A x \in S : x <= b - 1
      BY <2>1, <2>2
  <2>4. b - 1 \in Bounds(S)
      BY <2>3 DEF Bounds
  <2> QED  BY <2>4, <2>1, <1>1
<1>3. \A x \in S : b >= x
    BY <1>1 DEF Bounds
<1> QED  BY <1>2, <1>3 DEF Max

-----------------------------------------------------------------------------
(* The least skill: lowest in some measure, the alphabet breaking ties.    *)

LowerIn(key, s, t) == key[s] < key[t] \/ (key[s] = key[t] /\ NameOrder[s] < NameOrder[t])

LEMMA HasLowest ==
    ASSUME NEW W \in SUBSET Skills, W # {}, NEW key, \A s \in W : key[s] \in Nat
    PROVE  \E s \in W : \A t \in W \ {s} : LowerIn(key, s, t)
<1> DEFINE Keys == {key[s] : s \in W}
<1>1. PICK k \in Keys : \A j \in Keys : k <= j
  <2>1. Keys \in SUBSET Nat /\ Keys # {}
      OBVIOUS
  <2> QED  BY <2>1, HasLeast
<1> DEFINE Lowest == {s \in W : key[s] = k}
<1> DEFINE Names_ == {NameOrder[s] : s \in Lowest}
<1>2. PICK n \in Names_ : \A m \in Names_ : n <= m
  <2>1. Names_ \in SUBSET Nat /\ Names_ # {}
      BY <1>1, GraphAssumption
  <2> QED  BY <2>1, HasLeast
<1>3. PICK s \in Lowest : NameOrder[s] = n
    BY <1>2
<1>4. ASSUME NEW t \in W \ {s}
      PROVE  LowerIn(key, s, t)
  <2>1. k <= key[t] /\ key[s] = k /\ k \in Nat /\ key[t] \in Nat
      BY <1>1, <1>3
  <2>2. CASE key[t] = k
    <3>1. n <= NameOrder[t] /\ NameOrder[t] \in Nat /\ n \in Nat
        BY <2>2, <1>2, <1>3, GraphAssumption
    <3>2. NameOrder[t] # n
        BY <1>3, GraphAssumption
    <3> QED  BY <3>1, <3>2, <2>1, <2>2, <1>3 DEF LowerIn
  <2>3. CASE key[t] # k
      BY <2>1, <2>3 DEF LowerIn
  <2> QED  BY <2>2, <2>3
<1> QED  BY <1>3, <1>4

(* What fails of some skill fails of one whose prerequisites it holds of:  *)
(* induction down the graph.                                               *)
LEMMA HasFoundation ==
    ASSUME NEW B \in SUBSET Skills, B # {}
    PROVE  \E s \in B : \A p \in Prereqs[s] : p \notin B
<1>1. \A s \in B : Rank[s] \in Nat
    BY GraphAssumption
<1>2. PICK s \in B : \A t \in B \ {s} : LowerIn(Rank, s, t)
    BY <1>1, HasLowest
<1>3. ASSUME NEW p \in Prereqs[s], p \in B
      PROVE  FALSE
  <2>1. Rank[p] < Rank[s] /\ Rank[p] \in Nat /\ Rank[s] \in Nat
      BY GraphAssumption
  <2>2. LowerIn(Rank, s, p)
      BY <2>1, <1>2, <1>3
  <2> QED  BY <2>1, <2>2 DEF LowerIn
<1> QED  BY <1>3

(* The weakest unmastered prerequisite is one of them, and no other is     *)
(* weaker: the code's sort puts one first.                                 *)
LEMMA WeakestIsUnmastered ==
    ASSUME NEW nodes, NEW skill \in Skills, \A p \in Skills : Strength(nodes[p]) \in Nat
    PROVE  IF Unmastered(nodes, skill) = {}
           THEN WeakestPrerequisite(nodes, skill) = NoSkill
           ELSE WeakestPrerequisite(nodes, skill) \in Unmastered(nodes, skill)
<1> DEFINE W == Unmastered(nodes, skill)
<1> DEFINE key == [p \in Skills |-> Strength(nodes[p])]
<1>1. W \in SUBSET Skills
    BY GraphAssumption DEF Unmastered
<1>2. ASSUME W # {}
      PROVE  \E p \in W : \A q \in W \ {p} : Weaker(nodes, p, q)
  <2>1. \A p \in W : key[p] = Strength(nodes[p]) /\ key[p] \in Nat
      BY <1>1
  <2> HIDE DEF key, W
  <2>2. PICK p \in W : \A q \in W \ {p} : LowerIn(key, p, q)
      BY <1>1, <1>2, <2>1, HasLowest
  <2> QED  BY <2>1, <2>2 DEF LowerIn, Weaker
<1>3. WeakestPrerequisite(nodes, skill) =
          IF W = {} THEN NoSkill ELSE CHOOSE p \in W : \A q \in W \ {p} : Weaker(nodes, p, q)
    BY DEF WeakestPrerequisite
<1> HIDE DEF W
<1> QED  BY <1>2, <1>3 DEF W

-----------------------------------------------------------------------------
(* Recursion on prerequisites.  Its step is a function of the skill and of *)
(* the values found for the others, which looks at prerequisites only.     *)

LooksDown(H, T) ==
    \A s \in Skills : \A f, g \in [Skills -> T] :
        /\ H[s][f] \in T
        /\ (\A p \in Prereqs[s] : f[p] = g[p]) => H[s][f] = H[s][g]

Solved(f, H, n) == \A s \in Skills : Rank[s] < n => f[s] = H[s][f]

LEMMA SolvedBelow ==
    ASSUME NEW T, NEW H, LooksDown(H, T), T # {},
           NEW n \in Nat
    PROVE  \E f \in [Skills -> T] : Solved(f, H, n)
<1> DEFINE Bad == {k \in Nat : ~ \E f \in [Skills -> T] : Solved(f, H, k)}
<1> SUFFICES ASSUME n \in Bad PROVE FALSE
    OBVIOUS
<1>1. PICK k \in Bad : \A j \in Bad : k <= j
  <2>1. Bad \in SUBSET Nat
      OBVIOUS
  <2> QED  BY <2>1, HasLeast
<1>2. k # 0
  <2>1. PICK t \in T : TRUE
      OBVIOUS
  <2>2. Solved([s \in Skills |-> t], H, 0)
    <3>1. \A s \in Skills : ~ (Rank[s] < 0)
        BY GraphAssumption
    <3> QED  BY <3>1 DEF Solved
  <2>3. [s \in Skills |-> t] \in [Skills -> T]
      OBVIOUS
  <2> QED  BY <2>2, <2>3
<1>3. k - 1 \in Nat /\ k - 1 \notin Bad
    BY <1>1, <1>2
<1>4. PICK f \in [Skills -> T] : Solved(f, H, k - 1)
    BY <1>3
<1> DEFINE g == [s \in Skills |-> IF Rank[s] = k - 1 THEN H[s][f] ELSE f[s]]
<1>5. g \in [Skills -> T]
    BY <1>4 DEF LooksDown
<1>8. k \in Nat
    BY <1>1
<1>6. ASSUME NEW s \in Skills, Rank[s] < k
      PROVE  g[s] = H[s][g]
  <2>1. \A p \in Prereqs[s] : p \in Skills /\ Rank[p] < Rank[s] /\ Rank[p] \in Nat
      BY GraphAssumption
  <2>2. Rank[s] \in Nat
      BY GraphAssumption
  <2>3. \A p \in Prereqs[s] : p \in Skills /\ Rank[p] # k - 1
      BY <2>1, <2>2, <1>6, <1>3, <1>8
  <2>4. \A p \in Prereqs[s] : f[p] = g[p]
      BY <2>3
  <2>7. g[s] = IF Rank[s] = k - 1 THEN H[s][f] ELSE f[s]
      OBVIOUS
  <2> HIDE DEF g
  <2>8. H[s][f] = H[s][g]
      BY <2>4, <1>5 DEF LooksDown
  <2>5. CASE Rank[s] = k - 1
      BY <2>8, <2>7, <2>5
  <2>6. CASE Rank[s] # k - 1
    <3>1. Rank[s] < k - 1
        BY <2>6, <2>2, <1>6, <1>3, <1>8
    <3>2. f[s] = H[s][f]
        BY <3>1, <1>4 DEF Solved
    <3> QED  BY <3>2, <2>8, <2>7, <2>6
  <2> QED  BY <2>5, <2>6
<1>7. Solved(g, H, k)
    BY <1>6 DEF Solved
<1> QED  BY <1>5, <1>7, <1>1

LEMMA RankRecursion ==
    ASSUME NEW T, NEW H, LooksDown(H, T), T # {}
    PROVE  \E f \in [Skills -> T] : \A s \in Skills : f[s] = H[s][f]
<1> DEFINE Ranks == {Rank[s] : s \in Skills}
<1>1. IsFiniteSet(Ranks)
    BY ImageIsFinite, SkillsAssumption
<1>2. Ranks \in SUBSET Nat
    BY GraphAssumption
<1>3. PICK b \in Nat : \A x \in Ranks : x <= b
    BY <1>1, <1>2, FiniteIsBounded DEF Bounds
<1>4. PICK f \in [Skills -> T] : Solved(f, H, b + 1)
    BY <1>3, SolvedBelow
<1>5. \A s \in Skills : Rank[s] < b + 1
    BY <1>3, <1>2
<1> QED  BY <1>4, <1>5 DEF Solved
=============================================================================
