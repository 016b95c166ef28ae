-------------------------- MODULE DiagnosticProofs --------------------------
(***************************************************************************)
(* The quick check, for every skill graph, any number of handlers and any  *)
(* troubles: what is asked and what is skipped, and that the plan has its  *)
(* rows once the student is told the check is over.                        *)
(***************************************************************************)
EXTENDS DiagnosticPage, PolicyProofs

-----------------------------------------------------------------------------
(* The recursive definitions define: the graph has no cycle.               *)

Deepest(f, s) == IF Prereqs[s] = {} THEN 0 ELSE 1 + Max({f[p] : p \in Prereqs[s]})

LEMMA DeepestType ==
    ASSUME NEW s \in Skills, NEW f, \A p \in Prereqs[s] : f[p] \in Nat
    PROVE  /\ Deepest(f, s) \in Nat
           /\ \A p \in Prereqs[s] : f[p] < Deepest(f, s)
<1> DEFINE V == {f[p] : p \in Prereqs[s]}
<1>1. CASE Prereqs[s] = {}
    BY <1>1 DEF Deepest
<1>2. CASE Prereqs[s] # {}
  <2>1. Prereqs[s] \in SUBSET Skills
      BY GraphAssumption
  <2>2. IsFiniteSet(V)
    <3>1. IsFiniteSet(Prereqs[s])
        BY <2>1, SkillsAssumption, FS_Subset
    <3> QED  BY <3>1, ImageIsFinite
  <2>3. V \in SUBSET Nat /\ V # {}
      BY <1>2
  <2>4. Max(V) \in V /\ \A x \in V : x <= Max(V)
      BY <2>2, <2>3, HasGreatest
  <2>5. Deepest(f, s) = 1 + Max(V) /\ Max(V) \in Nat
      BY <1>2, <2>3, <2>4 DEF Deepest
  <2>6. \A p \in Prereqs[s] : f[p] <= Max(V)
      BY <2>4
  <2> HIDE DEF V
  <2> QED  BY <2>5, <2>6
<1> QED  BY <1>1, <1>2

LEMMA DepthUnfolds ==
    depth = [s \in Skills |-> Deepest(depth, s)]
<1> DEFINE H == [s \in Skills |-> [f \in [Skills -> Nat] |-> Deepest(f, s)]]
<1>1. \A s \in Skills : Prereqs[s] \subseteq Skills
    BY GraphAssumption
<1>2. ASSUME NEW s \in Skills, NEW f \in [Skills -> Nat], NEW g \in [Skills -> Nat]
      PROVE  /\ H[s][f] \in Nat
             /\ (\A p \in Prereqs[s] : f[p] = g[p]) => H[s][f] = H[s][g]
  <2>1. H[s][f] = Deepest(f, s) /\ H[s][g] = Deepest(g, s)
      OBVIOUS
  <2>2. Deepest(f, s) \in Nat
      BY <1>1, DeepestType
  <2>3. ASSUME \A p \in Prereqs[s] : f[p] = g[p]
        PROVE  Deepest(f, s) = Deepest(g, s)
    <3>1. {f[p] : p \in Prereqs[s]} = {g[p] : p \in Prereqs[s]}
        BY <2>3
    <3> QED  BY <3>1 DEF Deepest
  <2> HIDE DEF H
  <2> QED  BY <2>1, <2>2, <2>3
<1>3. LooksDown(H, Nat)
  <2> HIDE DEF H
  <2> QED  BY <1>2 DEF LooksDown
<1>4. \E f \in [Skills -> Nat] : \A s \in Skills : f[s] = H[s][f]
  <2> HIDE DEF H
  <2>1. Nat # {}
      OBVIOUS
  <2> QED  BY <1>3, <2>1, RankRecursion
<1>5. PICK f \in [Skills -> Nat] : \A s \in Skills : f[s] = H[s][f]
    BY <1>4
<1>6. f = [s \in Skills |-> Deepest(f, s)]
    BY <1>5
<1> HIDE DEF H
<1> QED  BY <1>6 DEF depth, Deepest

LEMMA DepthType ==
    /\ \A s \in Skills : depth[s] \in Nat
    /\ \A s \in Skills : \A p \in Prereqs[s] : depth[p] < depth[s]
<1> DEFINE B == {s \in Skills : depth[s] \notin Nat}
<1>1. \A s \in Skills : depth[s] = Deepest(depth, s) /\ Prereqs[s] \subseteq Skills
    BY DepthUnfolds, GraphAssumption
<1>2. B = {}
  <2> SUFFICES ASSUME B # {} PROVE FALSE
      OBVIOUS
  <2>1. PICK s \in B : \A p \in Prereqs[s] : p \notin B
      BY HasFoundation
  <2>2. \A p \in Prereqs[s] : depth[p] \in Nat
      BY <2>1, <1>1
  <2> QED  BY <2>1, <2>2, <1>1, DeepestType
<1>3. \A s \in Skills : depth[s] \in Nat
    BY <1>2
<1> HIDE DEF B
<1> QED  BY <1>1, <1>3, DeepestType

LEMMA AncestorsUnfold ==
    Ancestors = [s \in Skills |-> Prereqs[s] \cup UNION {Ancestors[p] : p \in Prereqs[s]}]
<1> DEFINE Above(f, s) == Prereqs[s] \cup UNION {f[p] : p \in Prereqs[s]}
<1> DEFINE T == SUBSET Skills
<1> DEFINE H == [s \in Skills |-> [f \in [Skills -> T] |-> Above(f, s)]]
<1>1. \A s \in Skills : Prereqs[s] \subseteq Skills
    BY GraphAssumption
<1>2. ASSUME NEW s \in Skills, NEW f \in [Skills -> T], NEW g \in [Skills -> T]
      PROVE  /\ H[s][f] \in T
             /\ (\A p \in Prereqs[s] : f[p] = g[p]) => H[s][f] = H[s][g]
  <2>1. H[s][f] = Above(f, s) /\ H[s][g] = Above(g, s)
      OBVIOUS
  <2>2. Above(f, s) \in T
      BY <1>1
  <2>3. ASSUME \A p \in Prereqs[s] : f[p] = g[p]
        PROVE  Above(f, s) = Above(g, s)
      BY <2>3
  <2> HIDE DEF H, Above
  <2> QED  BY <2>1, <2>2, <2>3
<1>3. LooksDown(H, T)
  <2> HIDE DEF H, T
  <2> QED  BY <1>2 DEF LooksDown
<1>4. \E f \in [Skills -> T] : \A s \in Skills : f[s] = H[s][f]
  <2>1. T # {}
      OBVIOUS
  <2> HIDE DEF H, T
  <2> QED  BY <1>3, <2>1, RankRecursion
<1>5. PICK f \in [Skills -> T] : \A s \in Skills : f[s] = H[s][f]
    BY <1>4
<1>6. f = [s \in Skills |-> Above(f, s)]
    BY <1>5
<1> HIDE DEF H
<1> QED  BY <1>6 DEF Ancestors

LEMMA AncestorsAre ==
    /\ \A s \in Skills : Ancestors[s] \subseteq Skills
    /\ \A s \in Skills : Prereqs[s] \subseteq Ancestors[s]
    /\ \A s \in Skills : \A p \in Prereqs[s] : Ancestors[p] \subseteq Ancestors[s]
    /\ \A s \in Skills : \A a \in Ancestors[s] :
          a \in Prereqs[s] \/ \E p \in Prereqs[s] : a \in Ancestors[p]
<1>1. \A s \in Skills : /\ Ancestors[s] = Prereqs[s] \cup UNION {Ancestors[p] : p \in Prereqs[s]}
                        /\ Prereqs[s] \subseteq Skills
    BY AncestorsUnfold, GraphAssumption
<1> DEFINE B == {s \in Skills : ~ (Ancestors[s] \subseteq Skills)}
<1>2. B = {}
  <2> SUFFICES ASSUME B # {} PROVE FALSE
      OBVIOUS
  <2>1. PICK s \in B : \A p \in Prereqs[s] : p \notin B
      BY HasFoundation
  <2>2. \A p \in Prereqs[s] : Ancestors[p] \subseteq Skills
      BY <2>1, <1>1
  <2> QED  BY <2>1, <2>2, <1>1
<1>3. \A s \in Skills : Ancestors[s] \subseteq Skills
    BY <1>2
<1> QED  BY <1>1, <1>3

-----------------------------------------------------------------------------
(* What is asked and what is skipped.                                      *)

Diagnostics == [answers : [Skills -> Seq(StudentOutcomes)],
                skipped : [Skills -> Skills \cup {NoSkill}]]

LEMMA FirstOf ==
    ASSUME NEW W \in SUBSET Skills, W # {}
    PROVE  First(W) \in W
<1> DEFINE key == [s \in W |-> 0]
<1>1. \A s \in W : key[s] = 0 /\ key[s] \in Nat
    OBVIOUS
<1> HIDE DEF key
<1>2. PICK s \in W : \A t \in W \ {s} : LowerIn(key, s, t)
    BY <1>1, HasLowest
<1>3. \A t \in W \ {s} : Before(s, t)
    BY <1>1, <1>2 DEF LowerIn, Before
<1> QED  BY <1>3 DEF First

(* What the walk up from a skill finds at a prerequisite, given what it    *)
(* finds from there, and what it makes of all of them.                     *)
Via(d, f, p) ==
    CASE Failed(d, p) -> p
      [] ~ Failed(d, p) /\ d.skipped[p] # NoSkill -> d.skipped[p]
      [] OTHER -> f[p]

Blocked(d, f, s) == {p \in Prereqs[s] : Via(d, f, p) # NoSkill}

Blocker(d, f, s) ==
    IF Blocked(d, f, s) = {} THEN NoSkill ELSE Via(d, f, First(Blocked(d, f, s)))

LEMMA ViaType ==
    ASSUME NEW d \in Diagnostics, NEW p \in Skills, NEW f, f[p] \in Skills \cup {NoSkill}
    PROVE  Via(d, f, p) \in Skills \cup {NoSkill}
<1>1. d.skipped[p] \in Skills \cup {NoSkill}
    BY DEF Diagnostics
<1> QED  BY <1>1 DEF Via

LEMMA BlockerIs ==
    ASSUME NEW d, NEW s \in Skills, NEW f
    PROVE  /\ Blocker(d, f, s) = NoSkill => \A p \in Prereqs[s] : Via(d, f, p) = NoSkill
           /\ Blocker(d, f, s) # NoSkill =>
                 \E p \in Prereqs[s] : Blocker(d, f, s) = Via(d, f, p)
<1>1. Blocked(d, f, s) \in SUBSET Skills
    BY GraphAssumption DEF Blocked
<1>2. Blocked(d, f, s) # {} => First(Blocked(d, f, s)) \in Blocked(d, f, s)
    BY <1>1, FirstOf
<1> QED  BY <1>2 DEF Blocker, Blocked

LEMMA FailedPrerequisiteUnfolds ==
    ASSUME NEW d \in Diagnostics
    PROVE  FailedPrerequisite(d) = [s \in Skills |-> Blocker(d, FailedPrerequisite(d), s)]
<1> DEFINE T == Skills \cup {NoSkill}
<1> DEFINE H == [s \in Skills |-> [f \in [Skills -> T] |-> Blocker(d, f, s)]]
<1>1. \A s \in Skills : Prereqs[s] \subseteq Skills
    BY GraphAssumption
<1>2. ASSUME NEW s \in Skills, NEW f \in [Skills -> T], NEW g \in [Skills -> T]
      PROVE  /\ H[s][f] \in T
             /\ (\A p \in Prereqs[s] : f[p] = g[p]) => H[s][f] = H[s][g]
  <2>1. H[s][f] = Blocker(d, f, s) /\ H[s][g] = Blocker(d, g, s)
      OBVIOUS
  <2>2. Blocker(d, f, s) \in T
    <3>1. \A p \in Prereqs[s] : Via(d, f, p) \in T
        BY <1>1, ViaType
    <3> QED  BY <3>1, BlockerIs
  <2>3. ASSUME \A p \in Prereqs[s] : f[p] = g[p]
        PROVE  Blocker(d, f, s) = Blocker(d, g, s)
    <3>1. \A p \in Prereqs[s] : Via(d, f, p) = Via(d, g, p)
        BY <2>3 DEF Via
    <3>2. Blocked(d, f, s) = Blocked(d, g, s)
        BY <3>1 DEF Blocked
    <3>3. Blocked(d, f, s) # {} => First(Blocked(d, f, s)) \in Prereqs[s]
      <4>1. Blocked(d, f, s) \in SUBSET Skills /\ Blocked(d, f, s) \subseteq Prereqs[s]
          BY <1>1 DEF Blocked
      <4> QED  BY <4>1, FirstOf
    <3> QED  BY <3>1, <3>2, <3>3 DEF Blocker
  <2> HIDE DEF H, T
  <2> QED  BY <2>1, <2>2, <2>3
<1>3. LooksDown(H, T)
  <2> HIDE DEF H, T
  <2> QED  BY <1>2 DEF LooksDown
<1>4. \E f \in [Skills -> T] : \A s \in Skills : f[s] = H[s][f]
  <2>1. T # {}
      OBVIOUS
  <2> HIDE DEF H, T
  <2> QED  BY <1>3, <2>1, RankRecursion
<1>5. PICK f \in [Skills -> T] : \A s \in Skills : f[s] = H[s][f]
    BY <1>4
<1>6. f = [s \in Skills |-> Blocker(d, f, s)]
    BY <1>5
<1> HIDE DEF H
<1> QED  BY <1>6, ZenonT(60) DEF FailedPrerequisite, Blocker, Blocked, Via

LEMMA FailedPrerequisiteType ==
    ASSUME NEW d \in Diagnostics
    PROVE  \A s \in Skills : FailedPrerequisite(d)[s] \in Skills \cup {NoSkill}
<1> DEFINE b == FailedPrerequisite(d)
<1> DEFINE B == {s \in Skills : b[s] \notin Skills \cup {NoSkill}}
<1>1. \A s \in Skills : b[s] = Blocker(d, b, s) /\ Prereqs[s] \subseteq Skills
    BY FailedPrerequisiteUnfolds, GraphAssumption
<1> HIDE DEF b
<1> SUFFICES ASSUME B # {} PROVE FALSE
    BY DEF b
<1>2. PICK s \in B : \A p \in Prereqs[s] : p \notin B
    BY HasFoundation
<1>3. \A p \in Prereqs[s] : Via(d, b, p) \in Skills \cup {NoSkill}
    BY <1>1, <1>2, ViaType
<1> QED  BY <1>1, <1>2, <1>3, BlockerIs

(* What no prerequisite blocks rests on nothing that was failed or skipped. *)
Clear(d, s) ==
    ~ Failed(d, s) /\ d.skipped[s] = NoSkill /\ FailedPrerequisite(d)[s] = NoSkill

LEMMA DeeperThanAncestors ==
    \A s \in Skills : \A a \in Ancestors[s] : depth[a] < depth[s]
<1> DEFINE B == {s \in Skills : \E a \in Ancestors[s] : ~ (depth[a] < depth[s])}
<1> SUFFICES ASSUME B # {} PROVE FALSE
    OBVIOUS
<1>1. PICK s \in B : \A p \in Prereqs[s] : p \notin B
    BY HasFoundation
<1>2. PICK a \in Ancestors[s] : ~ (depth[a] < depth[s])
    BY <1>1
<1>3. Prereqs[s] \subseteq Skills /\ s \in Skills
    BY <1>1, GraphAssumption
<1>4. CASE a \in Prereqs[s]
    BY <1>2, <1>3, <1>4, DepthType
<1>5. ASSUME NEW p \in Prereqs[s], a \in Ancestors[p]
      PROVE  FALSE
  <2>1. a \in Skills /\ p \in Skills
      BY <1>3, <1>5, AncestorsAre
  <2>2. depth[a] < depth[p]
      BY <1>1, <1>5, <2>1
  <2>3. depth[p] < depth[s] /\ depth[a] \in Nat /\ depth[p] \in Nat /\ depth[s] \in Nat
      BY <1>3, <1>5, <2>1, DepthType
  <2> QED  BY <1>2, <2>2, <2>3
<1> QED  BY <1>2, <1>3, <1>4, <1>5, AncestorsAre

LEMMA ViaIsClear ==
    ASSUME NEW d, NEW p \in Skills, Via(d, FailedPrerequisite(d), p) = NoSkill
    PROVE  Clear(d, p)
  BY SkillsAssumption DEF Via, Clear

LEMMA UnblockedIsClear ==
    ASSUME NEW d \in Diagnostics
    PROVE  \A s \in Skills : FailedPrerequisite(d)[s] = NoSkill =>
               \A a \in Ancestors[s] : Clear(d, a)
<1> DEFINE b == FailedPrerequisite(d)
<1> DEFINE B == {s \in Skills : b[s] = NoSkill /\ \E a \in Ancestors[s] : ~ Clear(d, a)}
<1>1. \A s \in Skills : b[s] = Blocker(d, b, s) /\ Prereqs[s] \subseteq Skills
    BY FailedPrerequisiteUnfolds, GraphAssumption
<1>2. \A p \in Skills : Via(d, b, p) = NoSkill => Clear(d, p) /\ b[p] = NoSkill
    BY ViaIsClear DEF Clear
<1> HIDE DEF b
<1> SUFFICES ASSUME B # {} PROVE FALSE
    BY DEF b
<1>3. PICK s \in B : \A p \in Prereqs[s] : p \notin B
    BY HasFoundation
<1>4. PICK a \in Ancestors[s] : ~ Clear(d, a)
    BY <1>3
<1>5. \A p \in Prereqs[s] : p \in Skills /\ Clear(d, p) /\ b[p] = NoSkill
    BY <1>1, <1>2, <1>3, BlockerIs
<1>6. ASSUME NEW p \in Prereqs[s], a \in Ancestors[p]
      PROVE  FALSE
    BY <1>3, <1>4, <1>5, <1>6
<1> QED  BY <1>3, <1>4, <1>5, <1>6, AncestorsAre

(* A skip names what was failed under it, whatever led to the name.        *)
SkipsNameFailures(d) ==
    \A s \in Skills : d.skipped[s] # NoSkill =>
        d.skipped[s] \in Ancestors[s] /\ Failed(d, d.skipped[s])

LEMMA BlockerIsFailed ==
    ASSUME NEW d \in Diagnostics, SkipsNameFailures(d)
    PROVE  \A s \in Skills : FailedPrerequisite(d)[s] # NoSkill =>
               /\ FailedPrerequisite(d)[s] \in Ancestors[s]
               /\ Failed(d, FailedPrerequisite(d)[s])
<1> DEFINE b == FailedPrerequisite(d)
<1> DEFINE Named(s, x) == x \in Ancestors[s] /\ Failed(d, x)
<1> DEFINE B == {s \in Skills : b[s] # NoSkill /\ ~ Named(s, b[s])}
<1>1. \A s \in Skills : b[s] = Blocker(d, b, s) /\ Prereqs[s] \subseteq Skills
    BY FailedPrerequisiteUnfolds, GraphAssumption
<1> HIDE DEF b
<1> SUFFICES ASSUME B # {} PROVE FALSE
    BY DEF b
<1>2. PICK s \in B : \A p \in Prereqs[s] : p \notin B
    BY HasFoundation
<1>3. PICK p \in Prereqs[s] : b[s] = Via(d, b, p)
    BY <1>1, <1>2, BlockerIs
<1>4. s \in Skills /\ p \in Skills /\ p \in Ancestors[s] /\ Ancestors[p] \subseteq Ancestors[s]
    BY <1>1, <1>2, <1>3, AncestorsAre
<1>5. CASE Failed(d, p)
    BY <1>2, <1>3, <1>4, <1>5 DEF Via
<1>6. CASE ~ Failed(d, p) /\ d.skipped[p] # NoSkill
    BY <1>2, <1>3, <1>4, <1>6 DEF Via, SkipsNameFailures
<1>7. CASE ~ Failed(d, p) /\ d.skipped[p] = NoSkill
  <2>1. b[s] = b[p]
      BY <1>3, <1>7 DEF Via
  <2> QED  BY <1>2, <1>3, <1>4, <2>1
<1> QED  BY <1>5, <1>6, <1>7

LEMMA EarliestOf ==
    ASSUME NEW W \in SUBSET Skills, W # {}
    PROVE  \E s \in W : \A t \in W \ {s} : Earlier(s, t)
<1>1. PICK s \in W : \A t \in W \ {s} : LowerIn(depth, s, t)
  <2>1. \A s \in W : depth[s] \in Nat
      BY DepthType
  <2> QED  BY <2>1, HasLowest
<1> QED  BY <1>1 DEF LowerIn, Earlier, Before

(* A skill that may still be asked about, and one that should be.          *)
OpenIn(d, s)  == ~ Asked(d, s) /\ d.skipped[s] = NoSkill
WorthIn(d, s) == OpenIn(d, s) /\ FailedPrerequisite(d)[s] = NoSkill

LEMMA NextQuestionIs ==
    ASSUME NEW d \in Diagnostics
    PROVE  LET q == NextQuestion(d).question
               e == NextQuestion(d).d
           IN  /\ e \in Diagnostics /\ e.answers = d.answers
               /\ q \in Skills \cup {NoSkill}
               /\ q # NoSkill => /\ WorthIn(d, q)
                                 /\ e.skipped[q] = NoSkill
                                 /\ \A t \in Skills \ {q} : WorthIn(d, t) => Earlier(q, t)
               /\ q = NoSkill => \A s \in Skills : Asked(e, s) \/ e.skipped[s] # NoSkill
               /\ \A s \in Skills :
                     \/ e.skipped[s] = d.skipped[s]
                     \/ OpenIn(d, s) /\ ~ WorthIn(d, s) /\ e.skipped[s] = FailedPrerequisite(d)[s]
<1> DEFINE b == FailedPrerequisite(d)
<1> DEFINE open == {s \in Skills : ~ Asked(d, s) /\ d.skipped[s] = NoSkill}
<1> DEFINE worth == {s \in open : b[s] = NoSkill}
<1> DEFINE q == IF worth = {} THEN NoSkill
                ELSE CHOOSE s \in worth : \A t \in worth \ {s} : Earlier(s, t)
<1> DEFINE Passed(s) == s \in open \ worth /\ (q # NoSkill => Earlier(s, q))
<1> DEFINE skips == [s \in Skills |-> IF Passed(s) THEN b[s] ELSE d.skipped[s]]
<1>1. /\ d.answers \in [Skills -> Seq(StudentOutcomes)]
      /\ d.skipped \in [Skills -> Skills \cup {NoSkill}]
      /\ d = [answers |-> d.answers, skipped |-> d.skipped]
    BY DEF Diagnostics
<1>2. NextQuestion(d).question = q /\ NextQuestion(d).d = [answers |-> d.answers, skipped |-> skips]
    BY <1>1 DEF NextQuestion
<1>3. \A s \in Skills : b[s] \in Skills \cup {NoSkill}
    BY FailedPrerequisiteType
<1>4. \A s \in Skills : (s \in open <=> OpenIn(d, s)) /\ (s \in worth <=> WorthIn(d, s))
    BY DEF OpenIn, WorthIn
<1>5. worth # {} => q \in worth /\ \A t \in worth \ {q} : Earlier(q, t)
  <2> SUFFICES ASSUME worth # {}
               PROVE  q \in worth /\ \A t \in worth \ {q} : Earlier(q, t)
      OBVIOUS
  <2>1. worth \in SUBSET Skills
      OBVIOUS
  <2> HIDE DEF worth
  <2>2. \E s \in worth : \A t \in worth \ {s} : Earlier(s, t)
      BY <2>1, EarliestOf
  <2> QED  BY <2>2
<1>6. open \subseteq Skills /\ worth \subseteq open /\ (worth = {} => q = NoSkill)
    OBVIOUS
<1>7. \A s \in Skills : skips[s] = IF Passed(s) THEN b[s] ELSE d.skipped[s]
    OBVIOUS
<1>8. \A s \in open \ worth : b[s] # NoSkill
    OBVIOUS
<1>9. \A s \in open : d.skipped[s] = NoSkill
    OBVIOUS
<1>10. \A s \in Skills : s \notin open => Asked(d, s) \/ d.skipped[s] # NoSkill
    OBVIOUS
<1>11. \A s \in Skills : Asked([answers |-> d.answers, skipped |-> skips], s) <=> Asked(d, s)
    BY DEF Asked
<1>12. skips \in [Skills -> Skills \cup {NoSkill}]
    BY <1>1, <1>3
<1> HIDE DEF b, open, worth, q, skips
<1>13. q = NoSkill => worth = {}
    BY <1>5, <1>6, SkillsAssumption
<1> DEFINE e == [answers |-> d.answers, skipped |-> skips]
<1>14. e \in Diagnostics /\ e.answers = d.answers /\ e.skipped = skips
    BY <1>1, <1>12 DEF Diagnostics
<1>15. q # NoSkill => q \in worth /\ q \in Skills /\ skips[q] = NoSkill
  <2> SUFFICES ASSUME q # NoSkill
               PROVE  q \in worth /\ q \in Skills /\ skips[q] = NoSkill
      OBVIOUS
  <2>1. q \in worth /\ q \in Skills /\ q \in open
      BY <1>5, <1>6
  <2> QED  BY <2>1, <1>7, <1>9
<1>16. \A s \in Skills : \/ skips[s] = d.skipped[s]
                         \/ s \in open \ worth /\ skips[s] = b[s]
    BY <1>7
<1>17. q = NoSkill => \A s \in Skills : Asked(d, s) \/ skips[s] # NoSkill
  <2> SUFFICES ASSUME q = NoSkill, NEW s \in Skills
               PROVE  Asked(d, s) \/ skips[s] # NoSkill
      OBVIOUS
  <2>1. CASE s \in open
    <3>1. s \in open \ worth /\ skips[s] = b[s]
        BY <2>1, <1>13, <1>7
    <3> QED  BY <3>1, <1>8
  <2>2. CASE s \notin open
      BY <2>2, <1>7, <1>10
  <2> QED  BY <2>1, <2>2
<1>18. q # NoSkill => WorthIn(d, q) /\ \A t \in Skills \ {q} : WorthIn(d, t) => Earlier(q, t)
    BY <1>4, <1>5, <1>6, <1>15
<1>19. \A s \in Skills : \/ skips[s] = d.skipped[s]
                         \/ OpenIn(d, s) /\ ~ WorthIn(d, s) /\ skips[s] = FailedPrerequisite(d)[s]
    BY <1>16, <1>4 DEF b
<1>20. NextQuestion(d).question = q /\ NextQuestion(d).d = e
    BY <1>2
<1>21. \A s \in Skills : Asked(e, s) <=> Asked(d, s)
    BY <1>11
<1> HIDE DEF e
<1> QED  BY <1>14, <1>15, <1>17, <1>18, <1>19, <1>20, <1>21

(* A question rests on foundations that were all asked about and passed:   *)
(* one that was not would be asked first.                                  *)
LEMMA QuestionIsReady ==
    ASSUME NEW d \in Diagnostics, NextQuestion(d).question # NoSkill
    PROVE  /\ MayBeAsked(d, NextQuestion(d).question)
           /\ MayBeAsked(NextQuestion(d).d, NextQuestion(d).question)
<1> DEFINE q == NextQuestion(d).question
<1> DEFINE e == NextQuestion(d).d
<1>1. /\ e.answers = d.answers
      /\ q \in Skills /\ WorthIn(d, q) /\ e.skipped[q] = NoSkill
      /\ \A t \in Skills \ {q} : WorthIn(d, t) => Earlier(q, t)
    BY NextQuestionIs
<1> HIDE DEF q, e
<1>2. ASSUME NEW a \in Ancestors[q]
      PROVE  Asked(d, a) /\ ~ Failed(d, a)
  <2>1. Clear(d, a) /\ a \in Skills /\ depth[a] < depth[q] /\ depth[a] \in Nat /\ depth[q] \in Nat
      BY <1>1, UnblockedIsClear, AncestorsAre, DeeperThanAncestors, DepthType DEF WorthIn
  <2>2. ~ Earlier(q, a) /\ a # q
      BY <2>1 DEF Earlier
  <2>3. ~ WorthIn(d, a)
      BY <1>1, <2>1, <2>2
  <2> QED  BY <2>1, <2>3 DEF Clear, WorthIn, OpenIn
<1>3. MayBeAsked(d, q)
    BY <1>1, <1>2 DEF MayBeAsked, WorthIn, OpenIn
<1>4. MayBeAsked(e, q)
    BY <1>1, <1>3 DEF MayBeAsked, Asked, Failed
<1> QED  BY <1>3, <1>4 DEF q, e

-----------------------------------------------------------------------------
(* What a diagnostic keeps, however it goes on.                            *)

FoundationsPassed(d) ==
    \A s \in Skills : Asked(d, s) => \A a \in Ancestors[s] : Asked(d, a) /\ ~ Failed(d, a)

DiagnosticSound(d) ==
    AnsweredOnce(d) => /\ SkipsNameFailures(d)
                       /\ \A s \in Skills : d.skipped[s] # NoSkill => ~ Asked(d, s)
                       /\ FoundationsPassed(d)

Settled(d) == \A s \in Skills : Asked(d, s) \/ d.skipped[s] # NoSkill

(* A question that was put stays one that may be asked, for as long as no  *)
(* question is answered twice.                                             *)
Ready(d, s) == AnsweredOnce(d) /\ ~ Asked(d, s) => MayBeAsked(d, s)

LEMMA NewDiagnosticIsSound ==
    /\ NewDiagnostic \in Diagnostics
    /\ DiagnosticSound(NewDiagnostic)
  BY DEF NewDiagnostic, Diagnostics, DiagnosticSound, SkipsNameFailures, FoundationsPassed, Asked

LEMMA LookingKeeps ==
    ASSUME NEW d \in Diagnostics, DiagnosticSound(d)
    PROVE  LET e == NextQuestion(d).d
           IN  /\ DiagnosticSound(e)
               /\ Settled(d) => Settled(e)
               /\ \A s \in Skills : Ready(d, s) => Ready(e, s)
<1> DEFINE e == NextQuestion(d).d
<1>1. /\ e.answers = d.answers
      /\ \A s \in Skills :
            \/ e.skipped[s] = d.skipped[s]
            \/ /\ OpenIn(d, s) /\ ~ WorthIn(d, s)
               /\ e.skipped[s] = FailedPrerequisite(d)[s]
    BY NextQuestionIs
<1> HIDE DEF e
<1>2. /\ \A s \in Skills : (Asked(e, s) <=> Asked(d, s)) /\ (Failed(e, s) <=> Failed(d, s))
      /\ AnsweredOnce(e) <=> AnsweredOnce(d)
    BY <1>1 DEF Asked, Failed, AnsweredOnce
<1>3. Settled(d) => Settled(e)
    BY <1>1, <1>2 DEF Settled, OpenIn
<1>4. ASSUME AnsweredOnce(d)
      PROVE  /\ SkipsNameFailures(e)
             /\ \A s \in Skills : e.skipped[s] # NoSkill => ~ Asked(e, s)
             /\ FoundationsPassed(e)
             /\ \A s \in Skills : Ready(d, s) => Ready(e, s)
  <2>1. SkipsNameFailures(d) /\ \A s \in Skills : d.skipped[s] # NoSkill => ~ Asked(d, s)
      BY <1>4 DEF DiagnosticSound
  <2>2. \A s \in Skills : FailedPrerequisite(d)[s] # NoSkill =>
            /\ FailedPrerequisite(d)[s] \in Ancestors[s]
            /\ Failed(d, FailedPrerequisite(d)[s])
      BY <2>1, BlockerIsFailed
  <2>3. \A s \in Skills : e.skipped[s] # NoSkill =>
            e.skipped[s] \in Ancestors[s] /\ Failed(d, e.skipped[s])
      BY <1>1, <2>1, <2>2 DEF SkipsNameFailures
  <2>4. SkipsNameFailures(e)
      BY <2>3, <1>2, AncestorsAre DEF SkipsNameFailures
  <2>5. \A s \in Skills : e.skipped[s] # NoSkill => ~ Asked(e, s)
      BY <1>1, <1>2, <2>1 DEF OpenIn
  <2>6. ASSUME NEW s \in Skills, Ready(d, s), ~ Asked(e, s)
        PROVE  MayBeAsked(e, s)
    <3>1. MayBeAsked(d, s) /\ \A a \in Ancestors[s] : a \in Skills
        BY <1>2, <1>4, <2>6, AncestorsAre DEF Ready
    <3>2. e.skipped[s] = NoSkill
        BY <2>3, <3>1 DEF MayBeAsked
    <3> QED  BY <3>1, <3>2, <1>2 DEF MayBeAsked
  <2>7. FoundationsPassed(e)
      BY <1>2, <1>4, AncestorsAre DEF DiagnosticSound, FoundationsPassed
  <2> QED  BY <2>4, <2>5, <2>6, <2>7 DEF Ready
<1>5. CASE ~ AnsweredOnce(d)
    BY <1>2, <1>3, <1>5 DEF DiagnosticSound, Ready, e
<1>6. CASE AnsweredOnce(d)
    BY <1>2, <1>3, <1>4, <1>6 DEF DiagnosticSound, e
<1> QED  BY <1>5, <1>6

LEMMA RecordIs ==
    ASSUME NEW d \in Diagnostics, NEW k \in Skills, NEW o \in StudentOutcomes
    PROVE  LET e == Record(d, k, o)
           IN  /\ e \in Diagnostics
               /\ e.skipped = d.skipped
               /\ \A s \in Skills \ {k} : e.answers[s] = d.answers[s]
               /\ e.answers[k] = Append(d.answers[k], o)
               /\ Len(e.answers[k]) = Len(d.answers[k]) + 1
               /\ Len(d.answers[k]) \in Nat
<1>1. /\ d.answers \in [Skills -> Seq(StudentOutcomes)]
      /\ d.skipped \in [Skills -> Skills \cup {NoSkill}]
      /\ d = [answers |-> d.answers, skipped |-> d.skipped]
    BY DEF Diagnostics
<1> DEFINE more == [d.answers EXCEPT ![k] = Append(@, o)]
<1>2. Record(d, k, o) = [answers |-> more, skipped |-> d.skipped]
  <2>1. Record(d, k, o) = [d EXCEPT !.answers = more]
      BY DEF Record
  <2> HIDE DEF more
  <2> QED  BY <1>1, <2>1
<1>3. d.answers[k] \in Seq(StudentOutcomes)
    BY <1>1
<1>4. /\ Append(d.answers[k], o) \in Seq(StudentOutcomes)
      /\ Len(Append(d.answers[k], o)) = Len(d.answers[k]) + 1
      /\ Len(d.answers[k]) \in Nat
    BY <1>3
<1>5. /\ more \in [Skills -> Seq(StudentOutcomes)]
      /\ more[k] = Append(d.answers[k], o)
      /\ \A s \in Skills \ {k} : more[s] = d.answers[s]
    BY <1>1, <1>4
<1> HIDE DEF more
<1> DEFINE e == [answers |-> more, skipped |-> d.skipped]
<1>6. e \in Diagnostics /\ e.answers = more /\ e.skipped = d.skipped
    BY <1>1, <1>5 DEF Diagnostics
<1> HIDE DEF e
<1> QED  BY <1>2, <1>4, <1>5, <1>6 DEF e

LEMMA RecordingKeeps ==
    ASSUME NEW d \in Diagnostics, DiagnosticSound(d), NEW k \in Skills, NEW o \in StudentOutcomes,
           Ready(d, k)
    PROVE  LET e == Record(d, k, o)
           IN  /\ DiagnosticSound(e)
               /\ Settled(d) => Settled(e)
               /\ \A s \in Skills : Ready(d, s) => Ready(e, s)
<1> DEFINE e == Record(d, k, o)
<1>1. /\ e.skipped = d.skipped
      /\ \A s \in Skills \ {k} : e.answers[s] = d.answers[s]
      /\ Len(e.answers[k]) = Len(d.answers[k]) + 1
      /\ Len(d.answers[k]) \in Nat
    BY RecordIs
<1> HIDE DEF e
<1>2. \A s \in Skills : d.answers[s] \in Seq(StudentOutcomes)
    BY DEF Diagnostics
<1>3. Asked(e, k)
    BY <1>1 DEF Asked
<1>4. \A s \in Skills : Asked(d, s) => Asked(e, s)
    BY <1>1, <1>3 DEF Asked
<1>5. Settled(d) => Settled(e)
    BY <1>1, <1>4 DEF Settled
<1>6. AnsweredOnce(e) => AnsweredOnce(d) /\ ~ Asked(d, k)
  <2> SUFFICES ASSUME AnsweredOnce(e)
               PROVE  AnsweredOnce(d) /\ ~ Asked(d, k)
      OBVIOUS
  <2>1. Len(e.answers[k]) <= 1
      BY DEF AnsweredOnce
  <2>2. Len(d.answers[k]) = 0
      BY <1>1, <2>1
  <2>3. d.answers[k] = <<>>
      BY <1>2, <2>2
  <2>4. \A s \in Skills : Len(d.answers[s]) <= 1
      BY <1>1, <2>2 DEF AnsweredOnce
  <2> QED  BY <2>3, <2>4 DEF AnsweredOnce, Asked
<1>7. \A s \in Skills \ {k} : (Asked(e, s) <=> Asked(d, s)) /\ (Failed(e, s) <=> Failed(d, s))
    BY <1>1 DEF Asked, Failed
<1>8. ASSUME AnsweredOnce(e)
      PROVE  /\ SkipsNameFailures(e)
             /\ \A s \in Skills : e.skipped[s] # NoSkill => ~ Asked(e, s)
             /\ FoundationsPassed(e)
             /\ \A s \in Skills : Ready(d, s) => Ready(e, s)
  <2>1. /\ AnsweredOnce(d) /\ ~ Asked(d, k) /\ d.skipped[k] = NoSkill
        /\ SkipsNameFailures(d) /\ \A s \in Skills : d.skipped[s] # NoSkill => ~ Asked(d, s)
      BY <1>6, <1>8 DEF DiagnosticSound, Ready, MayBeAsked
  <2>2. \A s \in Skills : Failed(d, s) => s # k /\ Failed(e, s)
      BY <1>7, <2>1 DEF Failed
  <2>3. SkipsNameFailures(e)
      BY <1>1, <2>1, <2>2, AncestorsAre DEF SkipsNameFailures
  <2>4. \A s \in Skills : e.skipped[s] # NoSkill => ~ Asked(e, s)
      BY <1>1, <1>7, <2>1
  <2>5. ASSUME NEW s \in Skills, Ready(d, s), ~ Asked(e, s)
        PROVE  MayBeAsked(e, s)
    <3>1. s # k /\ ~ Asked(d, s)
        BY <1>3, <1>4, <2>5
    <3>2. MayBeAsked(d, s)
        BY <2>1, <2>5, <3>1 DEF Ready
    <3>3. \A a \in Ancestors[s] : a \in Skills \ {k} /\ Asked(d, a) /\ ~ Failed(d, a)
        BY <2>1, <3>2, AncestorsAre DEF MayBeAsked
    <3> QED  BY <1>1, <1>7, <2>5, <3>2, <3>3 DEF MayBeAsked
  <2>6. ASSUME NEW s \in Skills, Asked(e, s), NEW a \in Ancestors[s]
        PROVE  Asked(e, a) /\ ~ Failed(e, a)
    <3>1. MayBeAsked(d, k) /\ FoundationsPassed(d)
        BY <1>8, <2>1 DEF DiagnosticSound, Ready
    <3>2. Asked(d, a) /\ ~ Failed(d, a)
        BY <1>7, <2>6, <3>1 DEF MayBeAsked, FoundationsPassed
    <3>3. a \in Skills \ {k}
        BY <2>1, <3>2, AncestorsAre
    <3> QED  BY <1>7, <3>2, <3>3
  <2> QED  BY <2>3, <2>4, <2>5, <2>6 DEF Ready, FoundationsPassed
<1>9. CASE ~ AnsweredOnce(e)
    BY <1>5, <1>9 DEF DiagnosticSound, Ready, e
<1>10. CASE AnsweredOnce(e)
    BY <1>5, <1>8, <1>10 DEF DiagnosticSound, e
<1> QED  BY <1>9, <1>10

-----------------------------------------------------------------------------
(* The invariant of the server.                                            *)

Steps    == {"idle", "enter", "seed", "check", "place", "finish", "save", "mark", "close",
             "run", "record", "replied"}
Kinds    == {"none", "open", "question", "answer"}
Statuses == {"none", "needed", "not needed", "missing", "complete", "refused", "asked", "ok",
             "broken", "lost"}

Answers == [Skills -> Seq(StudentOutcomes)]

Jobs == [kind : Kinds, step : Steps, session : {0} \cup Slots, skill : Skills \cup {NoSkill},
         run : Runs \cup {"none"}, needs : BOOLEAN, profile : Answers, status : Statuses,
         heard : BOOLEAN]

Sessions == [open : BOOLEAN, diagnostic : Diagnostics]

(* A handler at work on a session has it; only an answer needs the skill   *)
(* it is for, and only a question that is put names one.                   *)
JobShape(j) ==
    /\ j \in Jobs
    /\ j.step \in {"finish", "save", "mark", "close"} => j.kind = "question" /\ j.session \in Slots
    /\ j.step \in {"run", "record"} => j.kind = "answer" /\ j.session \in Slots
    /\ j.step \in {"seed", "check", "place"} => j.kind = "open"
    /\ j.kind = "answer" => j.skill \in Skills
    /\ j.status = "asked" => j.skill \in Skills
    /\ j.step # "replied" => j.status = "none"

AllRows == \A s \in Skills : rows[s] # NoRow

(* What a handler has found done, or has done, stays done.                 *)
DoneIsDone(h) ==
    /\ jobs[h].status \in {"complete", "not needed"} => diagnosed
    /\ jobs[h].step = "place" /\ jobs[h].needs = FALSE => diagnosed
    /\ jobs[h].step = "close" => diagnosed
    /\ jobs[h].step = "mark" => AllRows

(* A check that is being finished has nothing left to ask, and an answer   *)
(* on its way is to a question that may be asked.                          *)
CheckStands(h) ==
    LET s == sessions[jobs[h].session] IN
    /\ jobs[h].step = "finish" => (s.open = TRUE => Settled(s.diagnostic))
    /\ jobs[h].step \in {"run", "record"} => (s.open = TRUE => Ready(s.diagnostic, jobs[h].skill))

StoreInv ==
    /\ exists \in BOOLEAN /\ diagnosed \in BOOLEAN
    /\ rows \in [Skills -> {NoRow} \cup Seq(StudentOutcomes)]
    /\ diagnosed => AllRows

SessionsInv ==
    /\ registry \in {0} \cup Slots
    /\ sessions \in [Slots -> Sessions]
    /\ \A i \in Slots : DiagnosticSound(sessions[i].diagnostic)
    /\ registry # 0 => sessions[registry].open = TRUE \/ diagnosed

JobsInv ==
    /\ jobs = [h \in Handlers |-> jobs[h]]
    /\ \A h \in Handlers : JobShape(jobs[h]) /\ DoneIsDone(h) /\ CheckStands(h)

ServerInv == StoreInv /\ SessionsInv /\ JobsInv

LEMMA IdleIs ==
    /\ JobShape(Idle)
    /\ Idle.kind = "none" /\ Idle.step = "idle" /\ Idle.session = 0 /\ Idle.status = "none"
    /\ \A s \in Skills : Idle.profile[s] = <<>>
  BY DEF Idle, JobShape, Jobs, Kinds, Steps, Statuses, Answers, NewDiagnostic

LEMMA RequestIs ==
    ASSUME NEW kind \in Kinds, NEW skill \in Skills \cup {NoSkill},
           kind = "answer" => skill \in Skills
    PROVE  LET j == Request(kind, skill)
           IN  /\ JobShape(j)
               /\ j.kind = kind /\ j.step = "enter" /\ j.session = 0 /\ j.status = "none"
               /\ j.skill = skill
<1>1. Idle \in Jobs /\ Idle.session = 0 /\ Idle.status = "none"
    BY IdleIs DEF JobShape
<1> DEFINE k == [Idle EXCEPT !.kind = kind, !.step = "enter", !.skill = skill]
<1>2. /\ k \in Jobs
      /\ k.kind = kind /\ k.step = "enter" /\ k.session = 0 /\ k.status = "none"
      /\ k.skill = skill
    BY <1>1 DEF Jobs, Steps
<1>3. Request(kind, skill) = k
    BY DEF Request
<1> HIDE DEF k
<1> QED  BY <1>2, <1>3 DEF JobShape

LEMMA RepliedIs ==
    ASSUME NEW job, NEW status \in Statuses, NEW skill \in Skills \cup {NoSkill},
           status = "asked" => skill \in Skills
    PROVE  LET j == Replied(job, status, skill)
           IN  /\ JobShape(j)
               /\ j.kind = "none" /\ j.step \in {"idle", "replied"} /\ j.session = 0
               /\ j.status \in {"none", status}
               /\ j.status = status => j.skill = skill \/ status = "none"
<1>1. Idle \in Jobs /\ Idle.kind = "none" /\ Idle.session = 0
    BY IdleIs DEF JobShape
<1> DEFINE k == [Idle EXCEPT !.step = "replied", !.status = status, !.skill = skill]
<1>2. /\ k \in Jobs
      /\ k.kind = "none" /\ k.step = "replied" /\ k.session = 0 /\ k.status = status
      /\ k.skill = skill
    BY <1>1 DEF Jobs, Steps
<1>3. JobShape(k)
    BY <1>2 DEF JobShape
<1>4. Replied(job, status, skill) \in {k, Idle}
    BY DEF Replied
<1> HIDE DEF k
<1>5. CASE Replied(job, status, skill) = k
    BY <1>2, <1>3, <1>5
<1>6. CASE Replied(job, status, skill) = Idle
    BY <1>6, IdleIs
<1> QED  BY <1>4, <1>5, <1>6

(* An answer that puts no question.                                        *)
LEMMA PlainReplyIs ==
    ASSUME NEW job, NEW status \in Statuses \ {"asked"}
    PROVE  LET j == Replied(job, status, NoSkill)
           IN  JobShape(j) /\ j.step \in {"idle", "replied"} /\ j.status \in {"none", status}
  BY RepliedIs

LEMMA PlainStatuses == {"refused", "ok", "complete", "lost"} \subseteq Statuses \ {"asked"}
  BY DEF Statuses

LEMMA NoSessionIs ==
    /\ NoSession \in Sessions
    /\ NoSession.open = FALSE
    /\ NoSession.diagnostic = NewDiagnostic
    /\ DiagnosticSound(NoSession.diagnostic)
    /\ \A s \in Skills : NoSession.diagnostic.answers[s] = <<>>
<1>1. \A s \in Skills : NewDiagnostic.answers[s] = <<>>
    BY DEF NewDiagnostic
<1> QED  BY <1>1, NewDiagnosticIsSound DEF NoSession, Sessions

LEMMA InitServer == ServerInit => ServerInv
<1> SUFFICES ASSUME ServerInit PROVE ServerInv
    OBVIOUS
<1>1. StoreInv
    BY DEF ServerInit, StoreInv
<1>2. SessionsInv
    BY NoSessionIs DEF ServerInit, SessionsInv
<1>3. JobsInv
    BY IdleIs DEF ServerInit, JobsInv, DoneIsDone, CheckStands
<1> QED  BY <1>1, <1>2, <1>3 DEF ServerInv

-----------------------------------------------------------------------------
(* A step of one handler.                                                  *)

(* How a session that somebody holds may have gone on.                     *)
Goes(s, t) ==
    t.open = TRUE =>
        /\ s.open = TRUE
        /\ Settled(s.diagnostic) => Settled(t.diagnostic)
        /\ \A k \in Skills : Ready(s.diagnostic, k) => Ready(t.diagnostic, k)

Holders(i) == {g \in Handlers : jobs[g].session = i}

LEMMA HandlerKeeps ==
    ASSUME ServerInv, StoreInv',
           diagnosed => diagnosed', AllRows => AllRows',
           NEW h \in Handlers, NEW j, jobs' = [jobs EXCEPT ![h] = j],
           NEW objects \in [Slots -> Sessions], sessions' = Reachable(objects),
           registry' \in {0} \cup Slots,
           \A i \in Slots : DiagnosticSound(objects[i].diagnostic),
           registry' # 0 => objects[registry'].open = TRUE \/ diagnosed',
           \A i \in Slots : Holders(i) \ {h} # {} => Goes(sessions[i], objects[i]),
           JobShape(j),
           j.status \in {"complete", "not needed"} => diagnosed',
           j.step = "place" /\ j.needs = FALSE => diagnosed',
           j.step = "close" => diagnosed',
           j.step = "mark" => AllRows',
           j.step = "finish" /\ objects[j.session].open = TRUE => Settled(objects[j.session].diagnostic),
           j.step \in {"run", "record"} /\ objects[j.session].open = TRUE
               => Ready(objects[j.session].diagnostic, j.skill)
    PROVE  ServerInv'
<1>1. /\ jobs' = [g \in Handlers |-> jobs'[g]]
      /\ jobs'[h] = j
      /\ \A g \in Handlers \ {h} : jobs'[g] = jobs[g]
    BY DEF ServerInv, JobsInv
<1>2. \A i \in Slots : sessions'[i] = IF i = registry' \/ \E g \in Handlers : jobs'[g].session = i
                                      THEN objects[i] ELSE NoSession
    BY DEF Reachable
<1>3. sessions' \in [Slots -> Sessions]
  <2>1. \A i \in Slots : objects[i] \in Sessions
      OBVIOUS
  <2>2. \A i \in Slots : sessions'[i] \in Sessions
      BY <1>2, <2>1, NoSessionIs
  <2>3. sessions' = [i \in Slots |-> sessions'[i]]
      BY DEF Reachable
  <2> QED  BY <2>2, <2>3
<1>4. SessionsInv'
  <2>1. \A i \in Slots : DiagnosticSound(sessions'[i].diagnostic)
      BY <1>2, NoSessionIs
  <2>2. registry' # 0 => sessions'[registry'] = objects[registry']
      BY <1>2
  <2> QED  BY <1>3, <2>1, <2>2 DEF SessionsInv
<1>5. ASSUME NEW g \in Handlers
      PROVE  JobShape(jobs'[g]) /\ DoneIsDone(g)' /\ CheckStands(g)'
  <2>1. CASE g = h
    <3>1. j.session \in Slots => sessions'[j.session] = objects[j.session]
        BY <1>1, <1>2
    <3>2. j.step \in {"finish", "run", "record"} => j.session \in Slots
        BY DEF JobShape
    <3>3. CheckStands(g)'
        BY <1>1, <2>1, <3>1, <3>2 DEF CheckStands
    <3> QED  BY <1>1, <2>1, <3>3 DEF DoneIsDone
  <2>2. CASE g # h
    <3>1. jobs'[g] = jobs[g] /\ JobShape(jobs[g]) /\ DoneIsDone(g) /\ CheckStands(g)
        BY <1>1, <2>2 DEF ServerInv, JobsInv
    <3>2. DoneIsDone(g)'
        BY <3>1 DEF DoneIsDone
    <3>3. jobs[g].session \in Slots => /\ sessions'[jobs[g].session] = objects[jobs[g].session]
                                       /\ Goes(sessions[jobs[g].session], objects[jobs[g].session])
      <4> SUFFICES ASSUME jobs[g].session \in Slots
                   PROVE  /\ sessions'[jobs[g].session] = objects[jobs[g].session]
                          /\ Goes(sessions[jobs[g].session], objects[jobs[g].session])
          OBVIOUS
      <4>1. g \in Holders(jobs[g].session) \ {h}
          BY <2>2 DEF Holders
      <4>2. sessions'[jobs[g].session] = objects[jobs[g].session]
          BY <1>2, <3>1
      <4> QED  BY <4>1, <4>2
    <3>4. /\ jobs[g].step \in {"finish", "run", "record"} => jobs[g].session \in Slots
          /\ jobs[g].step \in {"run", "record"} => jobs[g].skill \in Skills
        BY <3>1 DEF JobShape
    <3>5. CheckStands(g)'
        BY <3>1, <3>3, <3>4 DEF CheckStands, Goes
    <3> QED  BY <3>1, <3>2, <3>5
  <2> QED  BY <2>1, <2>2
<1> QED  BY <1>1, <1>4, <1>5 DEF ServerInv, JobsInv

(* A handler that leaves the sessions alone.                               *)
LEMMA ApartKeeps ==
    ASSUME ServerInv, StoreInv',
           diagnosed => diagnosed', AllRows => AllRows',
           NEW h \in Handlers, NEW j, jobs' = [jobs EXCEPT ![h] = j],
           sessions' = Reachable(sessions), registry' = registry,
           JobShape(j),
           j.status \in {"complete", "not needed"} => diagnosed',
           j.step = "place" /\ j.needs = FALSE => diagnosed',
           j.step = "close" => diagnosed',
           j.step = "mark" => AllRows',
           j.step # "finish",
           j.step \in {"run", "record"} =>
               jobs[h].step \in {"run", "record"} /\ j.session = jobs[h].session
                   /\ j.skill = jobs[h].skill
    PROVE  ServerInv'
<1>1. /\ sessions \in [Slots -> Sessions] /\ registry' \in {0} \cup Slots
      /\ \A i \in Slots : DiagnosticSound(sessions[i].diagnostic)
      /\ registry' # 0 => sessions[registry'].open = TRUE \/ diagnosed'
    BY DEF ServerInv, SessionsInv
<1>2. \A i \in Slots : Goes(sessions[i], sessions[i])
    BY DEF Goes
<1>3. CheckStands(h)
    BY DEF ServerInv, JobsInv
<1>4. j.step \in {"run", "record"} /\ sessions[j.session].open = TRUE
          => Ready(sessions[j.session].diagnostic, j.skill)
    BY <1>3 DEF CheckStands
<1>5. j.step = "finish" /\ sessions[j.session].open = TRUE => Settled(sessions[j.session].diagnostic)
    OBVIOUS
<1> QED  BY <1>1, <1>2, <1>4, <1>5, HandlerKeeps

(* An answer given without a look at the sessions.                         *)
LEMMA ReplyingKeeps ==
    ASSUME ServerInv, StoreInv', diagnosed => diagnosed', AllRows => AllRows',
           NEW h \in Handlers, NEW status \in Statuses \ {"asked"},
           Reply(h, status, NoSkill), sessions' = Reachable(sessions), registry' = registry,
           status \in {"complete", "not needed"} => diagnosed'
    PROVE  ServerInv'
<1>1. PICK j : j = Replied(jobs[h], status, NoSkill)
    OBVIOUS
<1>2. JobShape(j) /\ j.step \in {"idle", "replied"} /\ j.status \in {"none", status}
    BY <1>1, RepliedIs
<1>3. jobs' = [jobs EXCEPT ![h] = j]
    BY <1>1 DEF Reply
<1> QED  BY <1>2, <1>3, ApartKeeps

LEMMA StepIs ==
    ASSUME NEW job \in Jobs, NEW step \in Steps
    PROVE  LET j == [job EXCEPT !.step = step]
           IN  /\ j \in Jobs
               /\ j.step = step /\ j.kind = job.kind /\ j.session = job.session
               /\ j.skill = job.skill /\ j.status = job.status /\ j.needs = job.needs
               /\ j.profile = job.profile
  BY DEF Jobs

LEMMA StoreRests ==
    ASSUME ServerInv, UNCHANGED storeVars
    PROVE  StoreInv' /\ (diagnosed => diagnosed') /\ (AllRows => AllRows')
  BY DEF ServerInv, StoreInv, AllRows, storeVars

LEMMA OpeningKeeps ==
    ASSUME ServerInv, NEW h \in Handlers, EnsureStudent(h) \/ SeedSkills(h) \/ NeedsDiagnostic(h)
    PROVE  ServerInv'
<1>0. JobShape(jobs[h]) /\ DoneIsDone(h) /\ StoreInv
    BY DEF ServerInv, JobsInv
<1>1. CASE EnsureStudent(h)
  <2>1. PICK step \in {"check", "seed"} : Step(h, step)
    <3>1. CASE exists = TRUE
        BY <1>1, <3>1 DEF EnsureStudent
    <3>2. CASE exists = FALSE
        BY <1>1, <3>2 DEF EnsureStudent
    <3> QED  BY <1>0, <3>1, <3>2 DEF StoreInv
  <2>2. PICK j : j = [jobs[h] EXCEPT !.step = step]
      OBVIOUS
  <2>3. jobs' = [jobs EXCEPT ![h] = j]
      BY <2>1, <2>2 DEF Step
  <2>4. /\ j \in Jobs /\ j.step = step /\ j.kind = "open"
        /\ j.skill = jobs[h].skill /\ j.status = "none"
    <3>1. jobs[h] \in Jobs /\ jobs[h].kind = "open" /\ jobs[h].status = "none" /\ step \in Steps
        BY <1>0, <1>1, <2>1 DEF EnsureStudent, At, JobShape, Steps
    <3> QED  BY <2>2, <3>1, StepIs
  <2>5. JobShape(j)
      BY <1>0, <2>1, <2>4 DEF JobShape
  <2>6. StoreInv' /\ (diagnosed => diagnosed') /\ (AllRows => AllRows')
      BY <1>0, <1>1 DEF EnsureStudent, StoreInv, AllRows
  <2> QED  BY <1>0, <1>1, <2>1, <2>3, <2>4, <2>5, <2>6, ApartKeeps DEF EnsureStudent, Keep, DoneIsDone
<1>2. CASE SeedSkills(h)
  <2>2. PICK j : j = [jobs[h] EXCEPT !.step = "check"]
      OBVIOUS
  <2>3. jobs' = [jobs EXCEPT ![h] = j]
      BY <1>2, <2>2 DEF SeedSkills, Step
  <2>4. /\ j \in Jobs /\ j.step = "check" /\ j.kind = "open"
        /\ j.skill = jobs[h].skill /\ j.status = "none"
      BY <1>0, <1>2, <2>2, StepIs, ZenonT(60) DEF SeedSkills, At, JobShape, Steps
  <2>5. JobShape(j)
      BY <1>0, <2>4 DEF JobShape
  <2>6. rows' \in [Skills -> Seq(StudentOutcomes)]
      BY <1>2, NewDiagnosticIsSound DEF SeedSkills, Diagnostics
  <2>7. AllRows'
      BY <2>6, DiagnosticAssumption DEF AllRows
  <2>8. StoreInv' /\ (diagnosed => diagnosed') /\ (AllRows => AllRows')
      BY <1>0, <1>2, <2>6, <2>7 DEF SeedSkills, StoreInv
  <2> QED  BY <1>0, <1>2, <2>3, <2>4, <2>5, <2>8, ApartKeeps DEF SeedSkills, Keep, DoneIsDone
<1>3. CASE NeedsDiagnostic(h)
  <2>1. PICK n \in BOOLEAN : n = ~ diagnosed
      OBVIOUS
  <2>2. PICK j : j = [jobs[h] EXCEPT !.step = "place", !.needs = n]
      OBVIOUS
  <2>3. jobs' = [jobs EXCEPT ![h] = j]
      BY <1>3, <2>1, <2>2 DEF NeedsDiagnostic
  <2>4. /\ j \in Jobs /\ j.step = "place" /\ j.kind = "open" /\ j.needs = n
        /\ j.skill = jobs[h].skill /\ j.status = "none"
      BY <1>0, <1>3, <2>2 DEF NeedsDiagnostic, At, JobShape, Jobs, Steps
  <2>5. JobShape(j)
      BY <1>0, <2>4 DEF JobShape
  <2>6. j.needs = FALSE => diagnosed
      BY <2>1, <2>4
  <2>7. /\ UNCHANGED storeVars /\ diagnosed' = diagnosed
        /\ sessions' = Reachable(sessions) /\ registry' = registry
      BY <1>3 DEF NeedsDiagnostic, Keep, storeVars
  <2>8. StoreInv' /\ (diagnosed => diagnosed') /\ (AllRows => AllRows')
      BY <2>7, StoreRests
  <2>9. /\ j.status \in {"complete", "not needed"} => diagnosed'
        /\ j.step = "place" /\ j.needs = FALSE => diagnosed'
      BY <1>0, <2>4, <2>6, <2>7 DEF DoneIsDone
  <2> QED  BY <2>3, <2>4, <2>5, <2>7, <2>8, <2>9, ApartKeeps
<1> QED  BY <1>1, <1>2, <1>3

(* A slot nobody holds takes the new session.                              *)
LEMMA PlacingKeeps ==
    ASSUME ServerInv, NEW h \in Handlers, PlaceSession(h)
    PROVE  ServerInv'
<1>0. JobShape(jobs[h]) /\ DoneIsDone(h) /\ SessionsInv
    BY DEF ServerInv, JobsInv
<1>1. PICK i \in Slots :
          /\ i # registry /\ \A g \in Handlers : jobs[g].session # i
          /\ registry' = i
          /\ Reply(h, IF jobs[h].needs THEN "needed" ELSE "not needed", NoSkill)
          /\ sessions' = Reachable([sessions EXCEPT ![i] = [NoSession EXCEPT !.open = jobs[h].needs]])
    BY DEF PlaceSession
<1>2. jobs[h].step = "place" /\ jobs[h].needs \in BOOLEAN
    BY <1>0 DEF PlaceSession, At, JobShape, Jobs
<1>3. PICK fresh : fresh = [NoSession EXCEPT !.open = jobs[h].needs]
    OBVIOUS
<1>4. /\ fresh \in Sessions /\ fresh.open = jobs[h].needs
      /\ fresh.diagnostic = NoSession.diagnostic
    BY <1>2, <1>3, NoSessionIs DEF Sessions
<1>5. PICK status \in {"needed", "not needed"} :
          /\ Reply(h, status, NoSkill)
          /\ status = "not needed" => jobs[h].needs = FALSE
    BY <1>1, <1>2
<1>6. PICK j : j = Replied(jobs[h], status, NoSkill)
    OBVIOUS
<1>7. JobShape(j) /\ j.step \in {"idle", "replied"} /\ j.status \in {"none", status}
  <2>1. status \in Statuses /\ status # "asked"
      BY DEF Statuses
  <2> QED  BY <1>6, <2>1, RepliedIs
<1>8. jobs' = [jobs EXCEPT ![h] = j]
    BY <1>5, <1>6 DEF Reply
<1>9. PICK objects : objects = [sessions EXCEPT ![i] = fresh]
    OBVIOUS
<1>10. /\ objects \in [Slots -> Sessions] /\ objects[i] = fresh
       /\ \A k \in Slots \ {i} : objects[k] = sessions[k]
    BY <1>0, <1>4, <1>9 DEF SessionsInv
<1>11. \A k \in Slots : DiagnosticSound(objects[k].diagnostic)
    BY <1>0, <1>4, <1>10, NoSessionIs DEF SessionsInv
<1>12. \A k \in Slots : Holders(k) \ {h} # {} => Goes(sessions[k], objects[k])
    BY <1>1, <1>10 DEF Holders, Goes
<1>13. sessions' = Reachable(objects)
    BY <1>1, <1>3, <1>9
<1>14. /\ UNCHANGED storeVars /\ diagnosed' = diagnosed
       /\ StoreInv' /\ (diagnosed => diagnosed') /\ (AllRows => AllRows')
    BY StoreRests DEF PlaceSession, storeVars
<1>15. jobs[h].needs = FALSE => diagnosed'
    BY <1>0, <1>2, <1>14 DEF DoneIsDone
<1>16. registry' # 0 => objects[registry'].open = TRUE \/ diagnosed'
    BY <1>1, <1>2, <1>4, <1>10, <1>15
<1>17. j.status \in {"complete", "not needed"} => diagnosed'
    BY <1>5, <1>7, <1>15
<1>18. registry' \in {0} \cup Slots
    BY <1>1
<1> QED  BY <1>7, <1>8, <1>10, <1>11, <1>12, <1>13, <1>14, <1>16, <1>17, <1>18, HandlerKeeps

LEMMA TurnedAwayKeeps ==
    ASSUME ServerInv, NEW h \in Handlers, Missing(h) \/ Closed(h) \/ StoreFails(h)
    PROVE  ServerInv'
<1>0. SessionsInv
    BY DEF ServerInv
<1>1. /\ UNCHANGED storeVars /\ diagnosed' = diagnosed
      /\ sessions' = Reachable(sessions) /\ registry' = registry
    BY DEF Missing, Closed, StoreFails, Keep, storeVars
<1>2. StoreInv' /\ (diagnosed => diagnosed') /\ (AllRows => AllRows')
    BY <1>1, StoreRests
<1>3. CASE Missing(h) \/ StoreFails(h)
    BY <1>1, <1>2, <1>3, ReplyingKeeps DEF Missing, StoreFails, Statuses
<1>4. CASE Closed(h)
  <2>1. PICK status \in {"complete", "refused"} : Reply(h, status, NoSkill)
      BY <1>4 DEF Closed
  <2>2. sessions[registry] \in Sessions
      BY <1>0, <1>4 DEF Closed, SessionsInv
  <2>3. diagnosed
      BY <1>0, <1>4, <2>2 DEF Closed, SessionsInv, Sessions
  <2> QED  BY <1>1, <1>2, <2>1, <2>3, ReplyingKeeps DEF Statuses
<1> QED  BY <1>3, <1>4

(* The session that is current goes on to a diagnostic that keeps what the *)
(* one before it kept.                                                     *)
LEMMA SessionGoesOn ==
    ASSUME NEW s \in Sessions, NEW e \in Diagnostics, DiagnosticSound(e),
           Settled(s.diagnostic) => Settled(e),
           \A k \in Skills : Ready(s.diagnostic, k) => Ready(e, k)
    PROVE  LET t == [s EXCEPT !.diagnostic = e]
           IN  t \in Sessions /\ t.open = s.open /\ t.diagnostic = e /\ Goes(s, t)
<1> DEFINE t == [s EXCEPT !.diagnostic = e]
<1>1. t \in Sessions /\ t.open = s.open /\ t.diagnostic = e
    BY DEF Sessions
<1> HIDE DEF t
<1> QED  BY <1>1 DEF Goes, t

(* What the endpoints make of the next question: a handler that finishes   *)
(* found nothing to ask, one that runs an answer found its question.       *)
LEMMA LookingAtKeeps ==
    ASSUME ServerInv, NEW h \in Handlers, NEW j, jobs' = [jobs EXCEPT ![h] = j],
           registry \in Slots, sessions[registry].open = TRUE,
           sessions' = Reachable(Looked(NextQuestion(sessions[registry].diagnostic))),
           registry' = registry, UNCHANGED storeVars,
           JobShape(j),
           j.status \notin {"complete", "not needed"},
           j.step \in {"idle", "replied", "finish", "run"},
           j.step = "finish" =>
               /\ j.session = registry
               /\ NextQuestion(sessions[registry].diagnostic).question = NoSkill,
           j.step = "run" =>
               /\ j.session = registry
               /\ NextQuestion(sessions[registry].diagnostic).question = j.skill
    PROVE  ServerInv'
<1> DEFINE s == sessions[registry]
           d == s.diagnostic
           q == NextQuestion(d).question
<1>1. SessionsInv
    BY DEF ServerInv
<1>2. s \in Sessions /\ d \in Diagnostics /\ DiagnosticSound(d)
    BY <1>1 DEF SessionsInv, Sessions
<1>3. PICK e : e = NextQuestion(d).d
    OBVIOUS
<1>4. /\ e \in Diagnostics
      /\ q \in Skills \cup {NoSkill}
      /\ q = NoSkill => Settled(e)
    BY <1>2, <1>3, NextQuestionIs DEF Settled
<1>5. /\ DiagnosticSound(e)
      /\ Settled(d) => Settled(e)
      /\ \A k \in Skills : Ready(d, k) => Ready(e, k)
    BY <1>2, <1>3, LookingKeeps
<1>6. q # NoSkill => Ready(e, q)
    BY <1>2, <1>3, QuestionIsReady DEF Ready
<1>7. PICK t : t = [s EXCEPT !.diagnostic = e]
    OBVIOUS
<1>8. t \in Sessions /\ t.open = TRUE /\ t.diagnostic = e /\ Goes(s, t)
    BY <1>2, <1>4, <1>5, <1>7, SessionGoesOn
<1>9. PICK objects : objects = [sessions EXCEPT ![registry] = t]
    OBVIOUS
<1>10. /\ objects \in [Slots -> Sessions] /\ objects[registry] = t
       /\ \A k \in Slots \ {registry} : objects[k] = sessions[k]
    BY <1>1, <1>8, <1>9 DEF SessionsInv
<1>11. objects = Looked(NextQuestion(d))
    BY <1>3, <1>7, <1>9 DEF Looked
<1>12. sessions' = Reachable(objects)
    BY <1>11
<1> HIDE DEF s, d, q
<1>13. \A k \in Slots : DiagnosticSound(objects[k].diagnostic)
    BY <1>1, <1>5, <1>8, <1>10 DEF SessionsInv
<1>14. \A k \in Slots : Holders(k) \ {h} # {} => Goes(sessions[k], objects[k])
    BY <1>8, <1>10 DEF Goes, s
<1>15. /\ registry' \in {0} \cup Slots
       /\ registry' # 0 => objects[registry'].open = TRUE \/ diagnosed'
    BY <1>8, <1>10
<1>16. StoreInv' /\ (diagnosed => diagnosed') /\ (AllRows => AllRows')
    BY StoreRests
<1>17. j.step = "finish" => Settled(objects[j.session].diagnostic)
    BY <1>4, <1>8, <1>10 DEF q, d, s
<1>18. j.step = "run" => Ready(objects[j.session].diagnostic, j.skill)
  <2> SUFFICES ASSUME j.step = "run"
               PROVE  Ready(objects[j.session].diagnostic, j.skill)
      OBVIOUS
  <2>1. j.skill \in Skills /\ j.skill = q /\ j.session = registry
      BY DEF JobShape, q, d, s
  <2>2. q # NoSkill
      BY <2>1, SkillsAssumption
  <2> QED  BY <1>6, <1>8, <1>10, <2>1, <2>2
<1> QED  BY <1>10, <1>12, <1>13, <1>14, <1>15, <1>16, <1>17, <1>18, HandlerKeeps

LEMMA OpenSession ==
    ASSUME ServerInv, NEW h \in Handlers, NEW kind, Open(h, kind)
    PROVE  /\ registry \in Slots /\ sessions[registry].open = TRUE
           /\ sessions[registry].diagnostic \in Diagnostics
           /\ JobShape(jobs[h]) /\ jobs[h].step = "enter" /\ jobs[h].kind = kind
<1>1. registry \in Slots /\ sessions[registry] \in Sessions
    BY DEF ServerInv, SessionsInv, Open
<1>2. sessions[registry].open \in BOOLEAN /\ sessions[registry].diagnostic \in Diagnostics
    BY <1>1 DEF Sessions
<1> QED  BY <1>1, <1>2 DEF ServerInv, JobsInv, Open, At

LEMMA AskingKeeps ==
    ASSUME ServerInv, NEW h \in Handlers, Question(h)
    PROVE  ServerInv'
<1>1. /\ registry \in Slots /\ sessions[registry].open = TRUE
      /\ sessions[registry].diagnostic \in Diagnostics
      /\ JobShape(jobs[h]) /\ jobs[h].step = "enter" /\ jobs[h].kind = "question"
    BY OpenSession DEF Question
<1>2. /\ sessions' = Reachable(Looked(NextQuestion(sessions[registry].diagnostic)))
      /\ registry' = registry /\ UNCHANGED storeVars
    BY DEF Question, storeVars
<1>3. PICK q : q = NextQuestion(sessions[registry].diagnostic).question
    OBVIOUS
<1>4. q \in Skills \cup {NoSkill}
    BY <1>1, <1>3, NextQuestionIs
<1>5. CASE q # NoSkill
  <2>1. PICK j : j = Replied(jobs[h], "asked", q)
      OBVIOUS
  <2>2. JobShape(j) /\ j.step \in {"idle", "replied"} /\ j.status \in {"none", "asked"}
    <3>1. "asked" \in Statuses /\ q \in Skills
        BY <1>4, <1>5 DEF Statuses
    <3> QED  BY <2>1, <3>1, RepliedIs
  <2>3. jobs' = [jobs EXCEPT ![h] = j]
      BY <1>3, <1>5, <2>1 DEF Question, Reply
  <2> QED  BY <1>1, <1>2, <2>2, <2>3, LookingAtKeeps
<1>6. CASE q = NoSkill
  <2>1. PICK j : j = [jobs[h] EXCEPT !.step = "finish", !.session = registry]
      OBVIOUS
  <2>2. jobs' = [jobs EXCEPT ![h] = j]
      BY <1>3, <1>6, <2>1 DEF Question
  <2>3. /\ j \in Jobs /\ j.step = "finish" /\ j.kind = "question" /\ j.session = registry
        /\ j.status = jobs[h].status /\ j.skill = jobs[h].skill
      BY <1>1, <2>1 DEF JobShape, Jobs, Steps
  <2>4. JobShape(j) /\ j.status = "none"
      BY <1>1, <2>3 DEF JobShape
  <2> QED  BY <1>1, <1>2, <1>3, <1>6, <2>2, <2>3, <2>4, LookingAtKeeps
<1> QED  BY <1>5, <1>6

LEMMA AcceptingKeeps ==
    ASSUME ServerInv, NEW h \in Handlers, Accept(h)
    PROVE  ServerInv'
<1>1. /\ registry \in Slots /\ sessions[registry].open = TRUE
      /\ JobShape(jobs[h]) /\ jobs[h].step = "enter" /\ jobs[h].kind = "answer"
    BY OpenSession DEF Accept
<1>2. /\ sessions' = Reachable(Looked(NextQuestion(sessions[registry].diagnostic)))
      /\ registry' = registry /\ UNCHANGED storeVars
    BY DEF Accept, storeVars
<1>3. PICK q : q = NextQuestion(sessions[registry].diagnostic).question
    OBVIOUS
<1>4. CASE q = jobs[h].skill
  <2>1. PICK j : j = [jobs[h] EXCEPT !.step = "run", !.session = registry]
      OBVIOUS
  <2>2. jobs' = [jobs EXCEPT ![h] = j]
      BY <1>3, <1>4, <2>1 DEF Accept
  <2>3. /\ j \in Jobs /\ j.step = "run" /\ j.kind = "answer" /\ j.session = registry
        /\ j.status = jobs[h].status /\ j.skill = jobs[h].skill
      BY <1>1, <2>1 DEF JobShape, Jobs, Steps
  <2>4. JobShape(j) /\ j.status = "none"
      BY <1>1, <2>3 DEF JobShape
  <2> QED  BY <1>1, <1>2, <1>3, <1>4, <2>2, <2>3, <2>4, LookingAtKeeps
<1>5. CASE q # jobs[h].skill
  <2>1. PICK j : j = Replied(jobs[h], "refused", NoSkill)
      OBVIOUS
  <2>2. JobShape(j) /\ j.step \in {"idle", "replied"} /\ j.status \in {"none", "refused"}
      BY <2>1, PlainStatuses, PlainReplyIs
  <2>3. jobs' = [jobs EXCEPT ![h] = j]
      BY <1>3, <1>5, <2>1 DEF Accept, Reply
  <2> QED  BY <1>1, <1>2, <2>2, <2>3, LookingAtKeeps
<1> QED  BY <1>4, <1>5

LEMMA RunningKeeps ==
    ASSUME ServerInv, NEW h \in Handlers, RunAnswer(h)
    PROVE  ServerInv'
<1>1. JobShape(jobs[h]) /\ jobs[h].kind = "answer" /\ jobs[h].step = "run"
    BY DEF ServerInv, JobsInv, RunAnswer, At
<1>2. PICK run \in Runs : jobs' = [jobs EXCEPT ![h].step = "record", ![h].run = run]
    BY DEF RunAnswer
<1>3. PICK j : j = [jobs[h] EXCEPT !.step = "record", !.run = run]
    OBVIOUS
<1>4. jobs' = [jobs EXCEPT ![h] = j]
    BY <1>2, <1>3
<1>5. /\ j \in Jobs /\ j.step = "record" /\ j.kind = "answer" /\ j.session = jobs[h].session
      /\ j.status = jobs[h].status /\ j.skill = jobs[h].skill
    BY <1>1, <1>3 DEF JobShape, Jobs, Steps
<1>6. JobShape(j) /\ j.status = "none"
    BY <1>1, <1>5 DEF JobShape
<1>7. /\ UNCHANGED storeVars /\ diagnosed' = diagnosed
      /\ sessions' = Reachable(sessions) /\ registry' = registry
    BY DEF RunAnswer, Keep, storeVars
<1>8. StoreInv' /\ (diagnosed => diagnosed') /\ (AllRows => AllRows')
    BY <1>7, StoreRests
<1> QED  BY <1>1, <1>4, <1>5, <1>6, <1>7, <1>8, ApartKeeps

LEMMA RecordingAtKeeps ==
    ASSUME ServerInv, NEW h \in Handlers, RecordAnswer(h)
    PROVE  ServerInv'
<1>1. JobShape(jobs[h]) /\ jobs[h].kind = "answer" /\ jobs[h].step = "record"
    BY DEF ServerInv, JobsInv, RecordAnswer, At
<1>2. PICK i \in Slots : i = jobs[h].session
    BY <1>1 DEF JobShape
<1>3. PICK k \in Skills : k = jobs[h].skill
    BY <1>1 DEF JobShape
<1>4. PICK o \in StudentOutcomes : o = IF jobs[h].run = "passed" THEN "CORRECT" ELSE "INCORRECT"
    BY DEF StudentOutcomes
<1>5. SessionsInv /\ sessions[i] \in Sessions
    BY DEF ServerInv, SessionsInv
<1>6. /\ UNCHANGED storeVars /\ diagnosed' = diagnosed /\ registry' = registry
    BY DEF RecordAnswer, storeVars
<1>7. StoreInv' /\ (diagnosed => diagnosed') /\ (AllRows => AllRows')
    BY <1>6, StoreRests
<1>8. CASE sessions[i].open = FALSE
    BY <1>2, <1>6, <1>7, <1>8, ReplyingKeeps DEF RecordAnswer, Held, Statuses
<1>9. CASE sessions[i].open = TRUE
  <2>1. PICK d : d = sessions[i].diagnostic
      OBVIOUS
  <2>2. d \in Diagnostics /\ DiagnosticSound(d) /\ Ready(d, k)
      BY <1>1, <1>2, <1>3, <1>5, <1>9, <2>1
         DEF ServerInv, JobsInv, CheckStands, SessionsInv, Sessions
  <2>3. PICK e : e = Record(d, k, o)
      OBVIOUS
  <2>4. /\ e \in Diagnostics /\ DiagnosticSound(e)
        /\ Settled(d) => Settled(e)
        /\ \A s \in Skills : Ready(d, s) => Ready(e, s)
      BY <2>2, <2>3, RecordIs, RecordingKeeps
  <2>5. PICK t : t = [sessions[i] EXCEPT !.diagnostic = e]
      OBVIOUS
  <2>6. t \in Sessions /\ t.open = TRUE /\ t.diagnostic = e /\ Goes(sessions[i], t)
      BY <1>5, <1>9, <2>1, <2>4, <2>5, SessionGoesOn
  <2>7. PICK objects : objects = [sessions EXCEPT ![i] = t]
      OBVIOUS
  <2>8. /\ objects \in [Slots -> Sessions] /\ objects[i] = t
        /\ \A m \in Slots \ {i} : objects[m] = sessions[m]
      BY <1>5, <2>6, <2>7 DEF SessionsInv
  <2>9. sessions' = Reachable(objects)
    <3>1. sessions' = Reachable([sessions EXCEPT ![i].diagnostic = Record(@, k, o)])
        BY <1>2, <1>3, <1>4, <1>9 DEF RecordAnswer, Held
    <3>2. [sessions EXCEPT ![i].diagnostic = Record(@, k, o)] = objects
        BY <2>1, <2>3, <2>5, <2>7
    <3> QED  BY <3>1, <3>2
  <2>10. PICK j : j = Replied(jobs[h], "ok", NoSkill)
      OBVIOUS
  <2>11. JobShape(j) /\ j.step \in {"idle", "replied"} /\ j.status \in {"none", "ok"}
      BY <2>10, PlainStatuses, PlainReplyIs
  <2>12. jobs' = [jobs EXCEPT ![h] = j]
      BY <1>2, <1>9, <2>10 DEF RecordAnswer, Held, Reply
  <2>13. \A m \in Slots : DiagnosticSound(objects[m].diagnostic)
      BY <1>5, <2>4, <2>6, <2>8 DEF SessionsInv
  <2>14. \A m \in Slots : Goes(sessions[m], objects[m])
      BY <2>6, <2>8 DEF Goes
  <2>15. /\ registry' \in {0} \cup Slots
         /\ registry' # 0 => objects[registry'].open = TRUE \/ diagnosed'
      BY <1>5, <1>6, <2>6, <2>8 DEF SessionsInv
  <2> QED  BY <1>7, <2>8, <2>9, <2>11, <2>12, <2>13, <2>14, <2>15, HandlerKeeps
<1> QED  BY <1>5, <1>8, <1>9 DEF Sessions

LEMMA FinishingKeeps ==
    ASSUME ServerInv, NEW h \in Handlers, FinishDiagnostic(h)
    PROVE  ServerInv'
<1>1. JobShape(jobs[h]) /\ jobs[h].kind = "question" /\ jobs[h].step = "finish"
    BY DEF ServerInv, JobsInv, FinishDiagnostic, At
<1>2. PICK i \in Slots : i = jobs[h].session
    BY <1>1 DEF JobShape
<1>3. sessions[i] \in Sessions
    BY DEF ServerInv, SessionsInv
<1>4. /\ UNCHANGED storeVars /\ diagnosed' = diagnosed
      /\ sessions' = Reachable(sessions) /\ registry' = registry
    BY DEF FinishDiagnostic, Keep, storeVars
<1>5. StoreInv' /\ (diagnosed => diagnosed') /\ (AllRows => AllRows')
    BY <1>4, StoreRests
<1>6. CASE sessions[i].open = FALSE
    BY <1>2, <1>4, <1>5, <1>6, ReplyingKeeps DEF FinishDiagnostic, Held, Statuses
<1>7. CASE sessions[i].open = TRUE
  <2>1. PICK answers \in Answers : answers = sessions[i].diagnostic.answers
      BY <1>3 DEF Sessions, Diagnostics, Answers
  <2>2. PICK j : j = [jobs[h] EXCEPT !.step = "save", !.profile = answers]
      OBVIOUS
  <2>3. jobs' = [jobs EXCEPT ![h] = j]
      BY <1>2, <1>7, <2>1, <2>2 DEF FinishDiagnostic, Held
  <2>4. /\ j \in Jobs /\ j.step = "save" /\ j.kind = "question" /\ j.session = i
        /\ j.status = jobs[h].status /\ j.skill = jobs[h].skill
      BY <1>1, <1>2, <2>2 DEF JobShape, Jobs, Steps
  <2>5. JobShape(j) /\ j.status = "none"
      BY <1>1, <2>4 DEF JobShape
  <2> QED  BY <1>4, <1>5, <2>3, <2>4, <2>5, ApartKeeps
<1> QED  BY <1>3, <1>6, <1>7 DEF Sessions

LEMMA SavingKeeps ==
    ASSUME ServerInv, NEW h \in Handlers, SaveProfile(h) \/ MarkDiagnosed(h)
    PROVE  ServerInv'
<1>1. /\ JobShape(jobs[h]) /\ DoneIsDone(h) /\ StoreInv
      /\ jobs[h].kind = "question" /\ jobs[h].status = "none"
      /\ jobs[h].step \in {"save", "mark"}
    BY DEF ServerInv, JobsInv, SaveProfile, MarkDiagnosed, At, JobShape
<1>2. PICK next \in {"mark", "close"} : /\ Step(h, next)
                                        /\ next = "mark" => SaveProfile(h)
                                        /\ next = "close" => MarkDiagnosed(h)
    BY DEF SaveProfile, MarkDiagnosed
<1>3. PICK j : j = [jobs[h] EXCEPT !.step = next]
    OBVIOUS
<1>4. jobs' = [jobs EXCEPT ![h] = j]
    BY <1>2, <1>3 DEF Step
<1>5. /\ j \in Jobs /\ j.step = next /\ j.kind = "question" /\ j.session = jobs[h].session
      /\ j.status = "none" /\ j.skill = jobs[h].skill
  <2>1. jobs[h] \in Jobs /\ next \in Steps
      BY <1>1 DEF JobShape, Steps
  <2> QED  BY <1>1, <1>3, <2>1, StepIs
<1>6. JobShape(j)
    BY <1>1, <1>5 DEF JobShape
<1>7. sessions' = Reachable(sessions) /\ registry' = registry
    BY DEF SaveProfile, MarkDiagnosed, Keep
<1>8. CASE next = "mark"
  <2>1. rows' = jobs[h].profile /\ UNCHANGED <<exists, diagnosed>>
      BY <1>2, <1>8 DEF SaveProfile
  <2>2. rows' \in [Skills -> Seq(StudentOutcomes)]
      BY <1>1, <2>1 DEF JobShape, Jobs, Answers
  <2>3. AllRows'
      BY <2>2, DiagnosticAssumption DEF AllRows
  <2>4. StoreInv'
      BY <1>1, <2>1, <2>2, <2>3 DEF StoreInv
  <2> QED  BY <1>4, <1>5, <1>6, <1>7, <1>8, <2>1, <2>3, <2>4, ApartKeeps
<1>9. CASE next = "close"
  <2>1. diagnosed' = TRUE /\ UNCHANGED <<exists, rows>> /\ jobs[h].step = "mark"
      BY <1>2, <1>9 DEF MarkDiagnosed, At
  <2>2. AllRows /\ AllRows'
      BY <1>1, <2>1 DEF DoneIsDone, AllRows
  <2>3. StoreInv'
      BY <1>1, <2>1, <2>2 DEF StoreInv
  <2> QED  BY <1>4, <1>5, <1>6, <1>7, <1>9, <2>1, <2>2, <2>3, ApartKeeps
<1> QED  BY <1>8, <1>9

LEMMA ClosingKeeps ==
    ASSUME ServerInv, NEW h \in Handlers, CloseDiagnostic(h)
    PROVE  ServerInv'
<1>1. JobShape(jobs[h]) /\ DoneIsDone(h) /\ jobs[h].step = "close" /\ SessionsInv
    BY DEF ServerInv, JobsInv, CloseDiagnostic, At
<1>2. PICK i \in Slots : i = jobs[h].session
    BY <1>1 DEF JobShape
<1>3. /\ UNCHANGED storeVars /\ diagnosed /\ diagnosed' = diagnosed /\ registry' = registry
    BY <1>1 DEF CloseDiagnostic, storeVars, DoneIsDone
<1>4. StoreInv' /\ (diagnosed => diagnosed') /\ (AllRows => AllRows')
    BY <1>3, StoreRests
<1>5. PICK objects : objects = [sessions EXCEPT ![i] = NoSession]
    OBVIOUS
<1>6. /\ objects \in [Slots -> Sessions] /\ objects[i] = NoSession
      /\ \A k \in Slots \ {i} : objects[k] = sessions[k]
    BY <1>1, <1>5, NoSessionIs DEF SessionsInv
<1>7. sessions' = Reachable(objects)
    BY <1>2, <1>5 DEF CloseDiagnostic, Held
<1>8. PICK j : j = Replied(jobs[h], "complete", NoSkill)
    OBVIOUS
<1>9. JobShape(j) /\ j.step \in {"idle", "replied"}
    BY <1>8, PlainStatuses, PlainReplyIs
<1>10. jobs' = [jobs EXCEPT ![h] = j]
    BY <1>8 DEF CloseDiagnostic, Reply
<1>11. \A k \in Slots : DiagnosticSound(objects[k].diagnostic)
    BY <1>1, <1>6, NoSessionIs DEF SessionsInv
<1>12. \A k \in Slots : Goes(sessions[k], objects[k])
    BY <1>6, NoSessionIs DEF Goes
<1>13. registry' \in {0} \cup Slots
    BY <1>1, <1>3 DEF SessionsInv
<1> QED  BY <1>3, <1>4, <1>6, <1>7, <1>9, <1>10, <1>11, <1>12, <1>13, HandlerKeeps

LEMMA HandlingKeeps ==
    ASSUME ServerInv, NEW h \in Handlers, Handle(h) \/ StoreFails(h)
    PROVE  ServerInv'
<1>1. CASE EnsureStudent(h) \/ SeedSkills(h) \/ NeedsDiagnostic(h)
    BY <1>1, OpeningKeeps
<1>2. CASE PlaceSession(h)
    BY <1>2, PlacingKeeps
<1>3. CASE Missing(h) \/ Closed(h) \/ StoreFails(h)
    BY <1>3, TurnedAwayKeeps
<1>4. CASE Question(h)
    BY <1>4, AskingKeeps
<1>5. CASE Accept(h)
    BY <1>5, AcceptingKeeps
<1>6. CASE RunAnswer(h)
    BY <1>6, RunningKeeps
<1>7. CASE RecordAnswer(h)
    BY <1>7, RecordingAtKeeps
<1>8. CASE FinishDiagnostic(h)
    BY <1>8, FinishingKeeps
<1>9. CASE SaveProfile(h) \/ MarkDiagnosed(h)
    BY <1>9, SavingKeeps
<1>10. CASE CloseDiagnostic(h)
    BY <1>10, ClosingKeeps
<1> QED  BY <1>1, <1>2, <1>3, <1>4, <1>5, <1>6, <1>7, <1>8, <1>9, <1>10 DEF Handle

LEMMA RestartKeeps ==
    ASSUME ServerInv, Restart
    PROVE  ServerInv'
<1>1. /\ UNCHANGED storeVars /\ diagnosed' = diagnosed
      /\ registry' = 0 /\ sessions' = [i \in Slots |-> NoSession]
    BY DEF Restart, storeVars
<1>2. StoreInv'
    BY <1>1, StoreRests
<1>3. SessionsInv'
    BY <1>1, NoSessionIs DEF SessionsInv
<1>4. jobs' = [h \in Handlers |-> jobs'[h]]
    BY DEF Restart
<1>5. ASSUME NEW h \in Handlers
      PROVE  JobShape(jobs'[h]) /\ DoneIsDone(h)' /\ CheckStands(h)'
  <2>1. JobShape(jobs[h]) /\ DoneIsDone(h)
      BY DEF ServerInv, JobsInv
  <2>2. PICK j : j = Replied(jobs[h], "lost", NoSkill)
      OBVIOUS
  <2>3. JobShape(j) /\ j.step \in {"idle", "replied"} /\ j.status \in {"none", "lost"}
      BY <2>2, PlainStatuses, PlainReplyIs
  <2>4. jobs'[h] \in {Idle, j} \/ (jobs'[h] = jobs[h] /\ jobs[h].step = "replied")
    <3>1. jobs'[h] = IF jobs[h].step = "idle" \/ ~ jobs[h].heard THEN Idle
                     ELSE IF jobs[h].step = "replied" THEN jobs[h] ELSE j
        BY <2>2 DEF Restart
    <3>2. CASE jobs[h].step = "idle" \/ ~ jobs[h].heard
        BY <3>1, <3>2
    <3>3. CASE ~ (jobs[h].step = "idle" \/ ~ jobs[h].heard)
        BY <3>1, <3>3
    <3> QED  BY <3>2, <3>3
  <2>5. CASE jobs'[h] = Idle
    <3>1. JobShape(jobs'[h]) /\ jobs'[h].step = "idle" /\ jobs'[h].status = "none"
        BY <2>5, IdleIs
    <3> QED  BY <3>1 DEF DoneIsDone, CheckStands
  <2>6. CASE jobs'[h] = j
      BY <2>3, <2>6 DEF DoneIsDone, CheckStands
  <2>7. CASE jobs'[h] = jobs[h] /\ jobs[h].step = "replied"
      BY <1>1, <2>1, <2>7 DEF DoneIsDone, CheckStands
  <2> QED  BY <2>4, <2>5, <2>6, <2>7
<1> QED  BY <1>2, <1>3, <1>4, <1>5 DEF ServerInv, JobsInv

(* What the student has been told stays true of the store.                 *)
LEMMA DiagnosedStays ==
    ASSUME ServerInv, (\E h \in Handlers : Handle(h) \/ StoreFails(h)) \/ Restart
    PROVE  diagnosed => diagnosed'
<1>1. CASE Restart
    BY <1>1 DEF Restart, storeVars
<1>2. ASSUME NEW h \in Handlers, Handle(h) \/ StoreFails(h)
      PROVE  diagnosed => diagnosed'
    BY <1>2 DEF Handle, StoreFails, EnsureStudent, SeedSkills, NeedsDiagnostic, PlaceSession, Missing,
       Closed, Question, Accept, RunAnswer, RecordAnswer, FinishDiagnostic, SaveProfile,
       MarkDiagnosed, CloseDiagnostic, storeVars
<1> QED  BY <1>1, <1>2

(* A handler changes its own job only.                                     *)
LEMMA OneHandlerAtWork ==
    ASSUME NEW h \in Handlers, Handle(h) \/ StoreFails(h), NEW g \in Handlers \ {h},
           jobs = [x \in Handlers |-> jobs[x]]
    PROVE  jobs'[g] = jobs[g]
  BY DEF Handle, StoreFails, EnsureStudent, SeedSkills, NeedsDiagnostic, PlaceSession, Missing,
     Closed, Question, Accept, RunAnswer, RecordAnswer, FinishDiagnostic, SaveProfile,
     MarkDiagnosed, CloseDiagnostic, Reply, Step

-----------------------------------------------------------------------------
(* The steps of the page.                                                  *)

(* What the page does to a job: it takes the answer, makes a request, or   *)
(* stops listening.                                                        *)
Moved(j, k) ==
    \/ k = j
    \/ JobShape(k) /\ k.step \in {"idle", "enter"} /\ k.status = "none"
    \/ k = [j EXCEPT !.heard = FALSE]

JobsMove ==
    /\ jobs' = [h \in Handlers |-> jobs'[h]]
    /\ \A h \in Handlers : Moved(jobs[h], jobs'[h])
    /\ UNCHANGED <<sessions, registry, storeVars>>

LEMMA UnheardIs ==
    ASSUME NEW j, JobShape(j)
    PROVE  LET k == [j EXCEPT !.heard = FALSE]
           IN  /\ JobShape(k)
               /\ k.kind = j.kind /\ k.step = j.step /\ k.session = j.session /\ k.skill = j.skill
               /\ k.needs = j.needs /\ k.status = j.status /\ k.profile = j.profile
<1> DEFINE k == [j EXCEPT !.heard = FALSE]
<1>1. /\ k \in Jobs
      /\ k.kind = j.kind /\ k.step = j.step /\ k.session = j.session /\ k.skill = j.skill
      /\ k.needs = j.needs /\ k.status = j.status /\ k.profile = j.profile
    BY DEF JobShape, Jobs
<1> HIDE DEF k
<1>2. JobShape(k)
    BY <1>1 DEF JobShape
<1> QED  BY <1>1, <1>2 DEF k

LEMMA MovingKeeps ==
    ASSUME ServerInv, JobsMove
    PROVE  ServerInv'
<1>1. UNCHANGED storeVars /\ diagnosed' = diagnosed /\ sessions' = sessions /\ registry' = registry
    BY DEF JobsMove, storeVars
<1>2. StoreInv' /\ (AllRows => AllRows')
    BY <1>1, StoreRests
<1>3. SessionsInv'
    BY <1>1 DEF ServerInv, SessionsInv
<1>4. ASSUME NEW h \in Handlers
      PROVE  JobShape(jobs'[h]) /\ DoneIsDone(h)' /\ CheckStands(h)'
  <2>1. JobShape(jobs[h]) /\ DoneIsDone(h) /\ CheckStands(h)
      BY DEF ServerInv, JobsInv
  <2>2. PICK k : k = jobs'[h]
      OBVIOUS
  <2>3. CASE JobShape(k) /\ k.step \in {"idle", "enter"} /\ k.status = "none"
      BY <2>2, <2>3 DEF DoneIsDone, CheckStands
  <2>4. CASE k = jobs[h] \/ k = [jobs[h] EXCEPT !.heard = FALSE]
    <3>1. /\ JobShape(k)
          /\ k.step = jobs[h].step /\ k.session = jobs[h].session /\ k.skill = jobs[h].skill
          /\ k.needs = jobs[h].needs /\ k.status = jobs[h].status
        BY <2>1, <2>4, UnheardIs
    <3>2. DoneIsDone(h)'
        BY <1>1, <1>2, <2>1, <2>2, <3>1 DEF DoneIsDone
    <3>3. CheckStands(h)'
        BY <1>1, <2>1, <2>2, <3>1 DEF CheckStands
    <3> QED  BY <2>2, <3>1, <3>2, <3>3
  <2> QED  BY <2>2, <2>3, <2>4 DEF JobsMove, Moved
<1> QED  BY <1>2, <1>3, <1>4 DEF ServerInv, JobsInv, JobsMove

LEMMA SettlingMoves ==
    ASSUME Settle
    PROVE  JobsMove /\ req' = Nobody /\ flow' = "rest"
  BY IdleIs DEF Settle, Taken, ServerRests, JobsMove, Moved

LEMMA SendingMoves ==
    ASSUME NEW kind \in Kinds, NEW skill \in Skills \cup {NoSkill}, NEW next,
           kind = "answer" => skill \in Skills,
           Send(kind, skill, next)
    PROVE  JobsMove /\ req' \in Handlers /\ flow' = next
<1>1. PICK h \in Handlers : jobs' = [Taken EXCEPT ![h] = Request(kind, skill)] /\ req' = h
    BY DEF Send
<1>2. PICK k : k = Request(kind, skill)
    OBVIOUS
<1>3. JobShape(k) /\ k.step = "enter" /\ k.status = "none"
    BY <1>2, RequestIs
<1>4. \A g \in Handlers : jobs'[g] \in {k, Idle, jobs[g]}
    BY <1>1, <1>2 DEF Taken
<1>5. \A g \in Handlers : Moved(jobs[g], jobs'[g])
    BY <1>3, <1>4, IdleIs DEF Moved
<1>6. jobs' = [g \in Handlers |-> jobs'[g]]
    BY <1>1 DEF Taken
<1> QED  BY <1>1, <1>5, <1>6 DEF JobsMove, Send, ServerRests

LEMMA ForgettingMoves ==
    ASSUME jobs' = Forgotten, UNCHANGED <<sessions, registry, storeVars>>
    PROVE  JobsMove
<1>1. \A h \in Handlers : jobs'[h] \in {Idle, jobs[h], [jobs[h] EXCEPT !.heard = FALSE]}
    BY DEF Forgotten
<1>2. \A h \in Handlers : Moved(jobs[h], jobs'[h])
    BY <1>1, IdleIs DEF Moved
<1> QED  BY <1>2 DEF JobsMove, Forgotten

-----------------------------------------------------------------------------
(* The invariant of the page.                                              *)

Flows == {"rest", "opening", "asking", "reopening", "reasking", "answering"}

PageInv ==
    /\ stage \in {"welcome", "diagnostic", "app"} /\ shown \in Skills \cup {NoSkill}
    /\ req \in {Nobody} \cup Handlers /\ flow \in Flows
    /\ stage = "diagnostic" => shown \in Skills
    /\ stage = "app" => diagnosed

CheckInv == ServerInv /\ PageInv

(* What a step of the page leads to.                                       *)
PageMoves == JobsMove /\ PageInv'

LEMMA LearnerMoves ==
    ASSUME CheckInv, Begin \/ Answer \/ Reload \/ ReloadAt \/ GiveUp
    PROVE  PageMoves
<1>1. CASE Begin
  <2>1. Send("open", NoSkill, "opening") /\ UNCHANGED <<stage, shown>>
      BY <1>1 DEF Begin
  <2>2. JobsMove /\ req' \in Handlers /\ flow' = "opening"
      BY <2>1, SendingMoves DEF Kinds
  <2> QED  BY <2>1, <2>2 DEF CheckInv, PageInv, PageMoves, JobsMove, storeVars, Flows
<1>2. CASE Answer
  <2>1. Send("answer", shown, "answering") /\ shown \in Skills /\ UNCHANGED <<stage, shown>>
      BY <1>2 DEF Answer, CheckInv, PageInv
  <2>2. JobsMove /\ req' \in Handlers /\ flow' = "answering"
    <3>1. "answer" \in Kinds
        BY DEF Kinds
    <3> QED  BY <2>1, <3>1, SendingMoves
  <2> QED  BY <2>1, <2>2 DEF CheckInv, PageInv, PageMoves, JobsMove, storeVars, Flows
<1>3. CASE Reload \/ ReloadAt
  <2>1. JobsMove
      BY <1>3, ForgettingMoves DEF Reload, ReloadAt, Fresh
  <2> QED  BY <1>3, <2>1 DEF Reload, ReloadAt, Fresh, PageInv, PageMoves, Flows
<1>4. CASE GiveUp
  <2>1. JobsMove
      BY <1>4, ForgettingMoves DEF GiveUp
  <2> QED  BY <1>4, <2>1 DEF GiveUp, CheckInv, PageInv, PageMoves, JobsMove, storeVars, Flows
<1> QED  BY <1>1, <1>2, <1>3, <1>4

(* A request that follows an answer, and an error.                         *)
LEMMA GoingOnMoves ==
    ASSUME CheckInv,
           Fail \/ AskQuestion("asking") \/ AskQuestion("reasking") \/ ReopenSession
    PROVE  PageMoves
<1>1. CASE Fail
  <2>1. JobsMove /\ req' = Nobody /\ flow' = "rest"
      BY <1>1, SettlingMoves DEF Fail
  <2> QED  BY <1>1, <2>1 DEF Fail, CheckInv, PageInv, PageMoves, JobsMove, storeVars, Flows
<1>2. CASE AskQuestion("asking") \/ AskQuestion("reasking") \/ ReopenSession
  <2>1. PICK kind \in {"question", "open"}, next \in {"asking", "reasking", "reopening"} :
            Send(kind, NoSkill, next)
      BY <1>2 DEF AskQuestion, ReopenSession
  <2>2. kind \in Kinds /\ kind # "answer"
      BY DEF Kinds
  <2>3. JobsMove /\ req' \in Handlers /\ flow' = next
      BY <2>1, <2>2, SendingMoves
  <2>4. UNCHANGED <<stage, shown>>
      BY <1>2 DEF AskQuestion, ReopenSession
  <2> QED  BY <2>3, <2>4 DEF CheckInv, PageInv, PageMoves, JobsMove, storeVars, Flows
<1> QED  BY <1>1, <1>2

LEMMA PageReactsMoves ==
    ASSUME CheckInv, PageReacts
    PROVE  PageMoves
<1>1. req \in Handlers
    BY DEF PageReacts, Opened, Reopened, Told, Graded, Answered, CheckInv, PageInv
<1>2. JobShape(jobs[req]) /\ DoneIsDone(req)
    BY <1>1 DEF CheckInv, ServerInv, JobsInv
<1>3. CASE Fail \/ AskQuestion("asking") \/ AskQuestion("reasking") \/ ReopenSession
    BY <1>3, GoingOnMoves
<1>4. CASE Status = "not needed" /\ Settle /\ stage' = "app" /\ UNCHANGED <<shown, told>>
  <2>1. JobsMove /\ req' = Nobody /\ flow' = "rest"
      BY <1>4, SettlingMoves
  <2>2. diagnosed
      BY <1>2, <1>4 DEF DoneIsDone, Status
  <2> QED  BY <1>4, <2>1, <2>2 DEF CheckInv, PageInv, PageMoves, JobsMove, storeVars, Flows
<1>5. CASE Status \in {"asked", "complete"} /\ ApplyDiagnosticStep
  <2>1. JobsMove /\ req' = Nobody /\ flow' = "rest"
      BY <1>5, SettlingMoves DEF ApplyDiagnosticStep
  <2>2. jobs[req].skill \in Skills \cup {NoSkill}
      BY <1>2 DEF JobShape, Jobs
  <2>3. CASE Status = "complete"
    <3>1. diagnosed /\ stage' = "app" /\ shown' = jobs[req].skill
        BY <1>2, <1>5, <2>3 DEF DoneIsDone, Status, ApplyDiagnosticStep
    <3> QED  BY <2>1, <2>2, <3>1 DEF PageInv, PageMoves, JobsMove, storeVars, Flows
  <2>4. CASE Status = "asked"
    <3>1. stage' = "diagnostic" /\ shown' = jobs[req].skill /\ shown' \in Skills
        BY <1>2, <1>5, <2>4 DEF JobShape, Status, ApplyDiagnosticStep
    <3> QED  BY <2>1, <3>1 DEF PageInv, PageMoves, JobsMove, storeVars, Flows
  <2> QED  BY <1>5, <2>3, <2>4
<1> QED  BY <1>3, <1>4, <1>5 DEF PageReacts, Opened, Reopened, Told, Graded

LEMMA CheckInvIsInvariant == Spec => []CheckInv
<1>1. Init => CheckInv
    BY InitServer DEF Init, CheckInv, PageInv, Flows
<1>2. CheckInv /\ [Next]_vars => CheckInv'
  <2> SUFFICES ASSUME CheckInv, [Next]_vars
               PROVE  CheckInv'
      OBVIOUS
  <2>1. CASE /\ (\E h \in Handlers : Handle(h) \/ StoreFails(h)) \/ Restart
             /\ UNCHANGED pageVars
    <3>1. ServerInv'
        BY <2>1, HandlingKeeps, RestartKeeps DEF CheckInv
    <3>2. diagnosed => diagnosed'
        BY <2>1, DiagnosedStays DEF CheckInv
    <3> QED  BY <2>1, <3>1, <3>2 DEF CheckInv, PageInv, pageVars
  <2>2. CASE Begin \/ Answer \/ Reload \/ ReloadAt \/ GiveUp \/ PageReacts
      BY <2>2, LearnerMoves, PageReactsMoves, MovingKeeps DEF PageMoves, CheckInv
  <2>3. CASE UNCHANGED vars
    <3>1. JobsMove
        BY <2>3 DEF CheckInv, ServerInv, JobsInv, JobsMove, Moved, vars, serverVars, storeVars
    <3>2. ServerInv'
        BY <3>1, MovingKeeps DEF CheckInv
    <3>3. PageInv'
        BY <2>3 DEF CheckInv, PageInv, vars, serverVars, storeVars, pageVars
    <3> QED  BY <3>2, <3>3 DEF CheckInv
  <2> QED  BY <2>1, <2>2, <2>3 DEF Next, ServerWorks
<1> QED  BY <1>1, <1>2, PTL DEF Spec

-----------------------------------------------------------------------------
(* The theorems.                                                           *)

(* Once the page shows the plan the student is marked as checked, and a    *)
(* student marked as checked has a row for every skill: a profile is saved *)
(* before the mark is set and the mark before the page is told, whatever   *)
(* call raises or is made twice in between (diagnostic_question).          *)
THEOREM PlanRows == Spec => []PlanHasItsRows
<1>1. CheckInv => PlanHasItsRows
    BY DEF CheckInv, ServerInv, StoreInv, AllRows, PageInv, PlanHasItsRows
<1> QED  BY <1>1, CheckInvIsInvariant, PTL

(* While no question has been answered twice, what is skipped was not      *)
(* asked and names something under it that was failed, and a check that    *)
(* ends leaves no skill open (next_question, finish).                      *)
THEOREM SkipsEarned == Spec => []SkipsAreEarned
<1>1. CheckInv => SkipsAreEarned
  <2> SUFFICES ASSUME CheckInv
               PROVE  SkipsAreEarned
      OBVIOUS
  <2>1. \A i \in Slots : DiagnosticSound(sessions[i].diagnostic)
      BY DEF CheckInv, ServerInv, SessionsInv
  <2>2. ASSUME NEW h \in Handlers, At(h, "question", "finish"), sessions[jobs[h].session].open
        PROVE  Settled(sessions[jobs[h].session].diagnostic)
    <3>1. JobShape(jobs[h]) /\ CheckStands(h) /\ jobs[h].step = "finish"
        BY <2>2 DEF CheckInv, ServerInv, JobsInv, At
    <3>2. sessions[jobs[h].session] \in Sessions
        BY <3>1 DEF JobShape, CheckInv, ServerInv, SessionsInv
    <3> QED  BY <2>2, <3>1, <3>2 DEF CheckStands, Sessions
  <2> QED  BY <2>1, <2>2 DEF SkipsAreEarned, DiagnosticSound, SkipsNameFailures, Settled
<1> QED  BY <1>1, CheckInvIsInvariant, PTL

LEMMA AskingIsReady ==
    ASSUME CheckInv, [Next]_vars, NEW h \in Handlers, jobs[h].step = "enter"
    PROVE  /\ jobs'[h].status = "asked"
                  => MayBeAsked(sessions[registry].diagnostic, jobs'[h].skill)
           /\ jobs'[h].step = "run"
                  => MayBeAsked(sessions[registry].diagnostic, jobs[h].skill)
<1> DEFINE Quiet == jobs'[h].status # "asked" /\ jobs'[h].step # "run"
<1>1. /\ JobShape(jobs[h]) /\ jobs[h].status = "none"
      /\ jobs = [g \in Handlers |-> jobs[g]]
    BY DEF CheckInv, ServerInv, JobsInv, JobShape
<1>2. CASE JobsMove
  <2>1. \/ jobs'[h] = jobs[h]
        \/ jobs'[h].step \in {"idle", "enter"} /\ jobs'[h].status = "none"
        \/ jobs'[h].step = jobs[h].step /\ jobs'[h].status = jobs[h].status
      BY <1>1, <1>2, UnheardIs DEF JobsMove, Moved
  <2> QED  BY <1>1, <2>1
<1>3. CASE Restart
  <2>1. jobs'[h] \in {Idle, Replied(jobs[h], "lost", NoSkill)}
      BY <1>3 DEF Restart
  <2>2. jobs'[h].status \in {"none", "lost"} /\ jobs'[h].step \in {"idle", "replied"}
      BY <2>1, IdleIs, PlainStatuses, PlainReplyIs
  <2> QED  BY <2>2
<1>4. ASSUME NEW g \in Handlers \ {h}, Handle(g) \/ StoreFails(g)
      PROVE  Quiet
  <2>1. jobs'[h] = jobs[h]
      BY <1>1, <1>4, OneHandlerAtWork
  <2> QED  BY <1>1, <2>1
<1>5. CASE Question(h)
  <2>1. PICK d \in Diagnostics : d = sessions[registry].diagnostic
      BY <1>5, OpenSession DEF Question, CheckInv
  <2>2. PICK q : q = NextQuestion(d).question
      OBVIOUS
  <2>3. CASE q = NoSkill
    <3>1. jobs' = [jobs EXCEPT ![h].step = "finish", ![h].session = registry]
        BY <1>5, <2>1, <2>2, <2>3 DEF Question
    <3>2. jobs'[h].status = "none" /\ jobs'[h].step = "finish"
        BY <1>1, <3>1 DEF JobShape, Jobs
    <3> QED  BY <3>2
  <2>4. CASE q # NoSkill
    <3>1. PICK j : j = Replied(jobs[h], "asked", q)
        OBVIOUS
    <3>2. jobs'[h] = j
        BY <1>1, <1>5, <2>1, <2>2, <2>4, <3>1 DEF Question, Reply
    <3>3. MayBeAsked(d, q) /\ q \in Skills
        BY <2>2, <2>4, QuestionIsReady, NextQuestionIs
    <3>4. "asked" \in Statuses
        BY DEF Statuses
    <3>5. j.step \in {"idle", "replied"} /\ (j.status = "asked" => j.skill = q)
        BY <3>1, <3>3, <3>4, RepliedIs
    <3> QED  BY <2>1, <3>2, <3>3, <3>5
  <2> QED  BY <2>3, <2>4
<1>6. CASE Accept(h)
  <2>1. PICK d \in Diagnostics : d = sessions[registry].diagnostic
      BY <1>6, OpenSession DEF Accept, CheckInv
  <2>2. jobs[h].skill \in Skills
      BY <1>1, <1>6 DEF Accept, Open, At, JobShape
  <2>3. CASE NextQuestion(d).question = jobs[h].skill
    <3>1. MayBeAsked(d, jobs[h].skill)
        BY <2>2, <2>3, QuestionIsReady, SkillsAssumption
    <3>2. jobs' = [jobs EXCEPT ![h].step = "run", ![h].session = registry]
        BY <1>6, <2>1, <2>3 DEF Accept
    <3>3. jobs'[h].status = "none"
        BY <1>1, <3>2 DEF JobShape, Jobs
    <3> QED  BY <2>1, <3>1, <3>3
  <2>4. CASE NextQuestion(d).question # jobs[h].skill
    <3>1. jobs'[h] = Replied(jobs[h], "refused", NoSkill)
        BY <1>1, <1>6, <2>1, <2>4 DEF Accept, Reply
    <3>2. jobs'[h].step \in {"idle", "replied"} /\ jobs'[h].status \in {"none", "refused"}
        BY <3>1, PlainStatuses, PlainReplyIs
    <3> QED  BY <3>2
  <2> QED  BY <2>3, <2>4
<1>7. CASE EnsureStudent(h)
  <2>1. jobs'[h].step \in {"check", "seed"} /\ jobs'[h].status = jobs[h].status
    <3>1. CASE exists = TRUE
        BY <1>1, <1>7, <3>1 DEF EnsureStudent, Step, JobShape, Jobs
    <3>2. CASE exists = FALSE
        BY <1>1, <1>7, <3>2 DEF EnsureStudent, Step, JobShape, Jobs
    <3> QED  BY <3>1, <3>2 DEF CheckInv, ServerInv, StoreInv
  <2> QED  BY <1>1, <2>1
<1>8. CASE Missing(h) \/ Closed(h) \/ StoreFails(h)
  <2>1. PICK status \in {"missing", "complete", "refused", "broken"} : Reply(h, status, NoSkill)
      BY <1>8 DEF Missing, Closed, StoreFails
  <2>2. status \in Statuses \ {"asked"}
      BY DEF Statuses
  <2>3. jobs'[h] = Replied(jobs[h], status, NoSkill)
      BY <1>1, <2>1 DEF Reply
  <2>4. jobs'[h].step \in {"idle", "replied"} /\ jobs'[h].status \in {"none", status}
      BY <2>2, <2>3, PlainReplyIs
  <2> QED  BY <2>2, <2>4
<1>9. ~ (\/ SeedSkills(h) \/ NeedsDiagnostic(h) \/ PlaceSession(h) \/ RunAnswer(h) \/ RecordAnswer(h)
         \/ FinishDiagnostic(h) \/ SaveProfile(h) \/ MarkDiagnosed(h) \/ CloseDiagnostic(h))
    BY DEF SeedSkills, NeedsDiagnostic, PlaceSession, RunAnswer, RecordAnswer, FinishDiagnostic,
       SaveProfile, MarkDiagnosed, CloseDiagnostic, At
<1>10. CASE Begin \/ Answer \/ Reload \/ ReloadAt \/ GiveUp \/ PageReacts \/ UNCHANGED vars
  <2>1. UNCHANGED vars => JobsMove
      BY <1>1 DEF JobsMove, Moved, vars, serverVars, storeVars
  <2>2. JobsMove
      BY <1>10, <2>1, LearnerMoves, PageReactsMoves DEF PageMoves
  <2> QED  BY <1>2, <2>2
<1>11. CASE ServerWorks \/ (\E g \in Handlers : StoreFails(g)) \/ Restart
  <2>1. CASE Handle(h) \/ StoreFails(h)
      BY <2>1, <1>5, <1>6, <1>7, <1>8, <1>9 DEF Handle
  <2>2. CASE \E g \in Handlers \ {h} : Handle(g) \/ StoreFails(g)
      BY <1>4, <2>2
  <2> QED  BY <1>3, <1>11, <2>1, <2>2 DEF ServerWorks
<1> QED  BY <1>10, <1>11 DEF Next

(* A question is put, and an answer to it taken, only when everything it   *)
(* builds on, all the way down, was asked about and last passed in the     *)
(* session that asks (next_question, diagnostic_answer).                   *)
THEOREM AskedReady == Spec => AskedWhenReady
<1>1. CheckInv /\ [Next]_vars =>
        [\A h \in Handlers :
           /\ jobs[h].step = "enter" /\ jobs'[h].status = "asked"
                  => MayBeAsked(sessions[registry].diagnostic, jobs'[h].skill)
           /\ jobs[h].step = "enter" /\ jobs'[h].step = "run"
                  => MayBeAsked(sessions[registry].diagnostic, jobs[h].skill)]_vars
    BY AskingIsReady
<1> QED  BY <1>1, CheckInvIsInvariant, PTL DEF Spec, AskedWhenReady

-----------------------------------------------------------------------------
(* How many answers a skill can have: only an answer to a question nobody  *)
(* has answered is taken, so that those on their way were all taken before *)
(* the first was recorded, each by a handler of its own.                   *)

AnswersTo(i, k) == sessions[i].diagnostic.answers[k]

AtWork(i, k) ==
    {h \in Handlers : /\ jobs[h].step \in {"run", "record"}
                      /\ jobs[h].session = i /\ jobs[h].skill = k}

RoomInv ==
    /\ \A i \in Slots, k \in Skills :
          Len(AnswersTo(i, k)) + Cardinality(AtWork(i, k)) <= Cardinality(Handlers)
    /\ \A h \in Handlers : jobs[h].step = "save" =>
          \A k \in Skills : Len(jobs[h].profile[k]) <= Cardinality(Handlers)
    /\ \A k \in Skills : rows[k] # NoRow => Len(rows[k]) <= Cardinality(Handlers)

LEMMA AnswersType ==
    ASSUME ServerInv
    PROVE  \A i \in Slots, k \in Skills : AnswersTo(i, k) \in Seq(StudentOutcomes)
  BY DEF ServerInv, SessionsInv, Sessions, Diagnostics, AnswersTo

LEMMA WorkIsFinite ==
    ASSUME NEW W \in SUBSET Handlers
    PROVE  /\ IsFiniteSet(W) /\ Cardinality(W) \in Nat /\ Cardinality(Handlers) \in Nat
           /\ Cardinality(W) <= Cardinality(Handlers)
  BY DiagnosticAssumption, FS_Subset, FS_CardinalityType

(* What may become of the answers and of those that are on their way.      *)
RoomKept(i, k) ==
    \/ AnswersTo(i, k)' = <<>>
    \/ AnswersTo(i, k)' = AnswersTo(i, k) /\ AtWork(i, k)' \subseteq AtWork(i, k)
    \/ /\ Len(AnswersTo(i, k)') = Len(AnswersTo(i, k)) + 1
       /\ \E h \in AtWork(i, k) : AtWork(i, k)' \subseteq AtWork(i, k) \ {h}

LEMMA RoomGoesOn ==
    ASSUME ServerInv, NEW i \in Slots, NEW k \in Skills, RoomKept(i, k),
           Len(AnswersTo(i, k)) + Cardinality(AtWork(i, k)) <= Cardinality(Handlers)
    PROVE  Len(AnswersTo(i, k)') + Cardinality(AtWork(i, k)') <= Cardinality(Handlers)
<1>1. AtWork(i, k) \in SUBSET Handlers /\ AtWork(i, k)' \in SUBSET Handlers
    BY DEF AtWork
<1>2. Len(AnswersTo(i, k)) \in Nat
    BY AnswersType
<1>3. CASE AnswersTo(i, k)' = <<>>
  <2>1. Len(AnswersTo(i, k)') = 0
      BY <1>3
  <2> QED  BY <1>1, <2>1, WorkIsFinite
<1>4. CASE AnswersTo(i, k)' = AnswersTo(i, k) /\ AtWork(i, k)' \subseteq AtWork(i, k)
  <2>1. /\ Cardinality(AtWork(i, k)') <= Cardinality(AtWork(i, k))
        /\ Cardinality(AtWork(i, k)') \in Nat /\ Cardinality(AtWork(i, k)) \in Nat
        /\ Cardinality(Handlers) \in Nat
      BY <1>1, <1>4, WorkIsFinite, FS_Subset
  <2> QED  BY <1>2, <1>4, <2>1
<1>5. ASSUME Len(AnswersTo(i, k)') = Len(AnswersTo(i, k)) + 1,
             NEW h \in AtWork(i, k), AtWork(i, k)' \subseteq AtWork(i, k) \ {h}
      PROVE  Len(AnswersTo(i, k)') + Cardinality(AtWork(i, k)') <= Cardinality(Handlers)
  <2>1. IsFiniteSet(AtWork(i, k)) /\ Cardinality(AtWork(i, k)) \in Nat /\ Cardinality(Handlers) \in Nat
      BY <1>1, WorkIsFinite
  <2>2. /\ IsFiniteSet(AtWork(i, k) \ {h})
        /\ Cardinality(AtWork(i, k) \ {h}) = Cardinality(AtWork(i, k)) - 1
      BY <2>1, FS_RemoveElement
  <2>3. /\ Cardinality(AtWork(i, k)') <= Cardinality(AtWork(i, k) \ {h})
        /\ Cardinality(AtWork(i, k)') \in Nat
      BY <1>1, <1>5, <2>2, WorkIsFinite, FS_Subset
  <2> QED  BY <1>2, <1>5, <2>1, <2>2, <2>3
<1> QED  BY <1>3, <1>4, <1>5 DEF RoomKept

(* Which handlers come to run, to record and to save, and with what.       *)
LEMMA StepsTaken ==
    ASSUME ServerInv, NEW h \in Handlers, Handle(h) \/ StoreFails(h)
    PROVE  /\ jobs'[h].step = "run" =>
                 /\ Accept(h) /\ jobs'[h].session = registry /\ jobs'[h].skill = jobs[h].skill
                 /\ NextQuestion(sessions[registry].diagnostic).question = jobs[h].skill
           /\ jobs'[h].step = "record" =>
                 /\ jobs[h].step = "run"
                 /\ jobs'[h].session = jobs[h].session /\ jobs'[h].skill = jobs[h].skill
           /\ jobs'[h].step = "save" =>
                 /\ jobs[h].step = "finish" /\ jobs[h].session \in Slots
                 /\ sessions[jobs[h].session].open
                 /\ jobs'[h].profile = sessions[jobs[h].session].diagnostic.answers
<1>1. JobShape(jobs[h]) /\ jobs[h] \in Jobs /\ jobs = [g \in Handlers |-> jobs[g]]
    BY DEF ServerInv, JobsInv, JobShape
<1>2. ASSUME NEW status \in Statuses, NEW skill \in Skills \cup {NoSkill},
             status = "asked" => skill \in Skills, Reply(h, status, skill)
      PROVE  jobs'[h].step \in {"idle", "replied"}
    BY <1>1, <1>2, RepliedIs DEF Reply
<1>3. \A status \in Statuses \ {"asked"} :
          Reply(h, status, NoSkill) => jobs'[h].step \in {"idle", "replied"}
    BY <1>2
<1>4. ASSUME NEW step \in Steps, Step(h, step)
      PROVE  jobs'[h].step = step
    BY <1>1, <1>4, StepIs DEF Step
<1>5. CASE EnsureStudent(h)
  <2>1. PICK step \in {"check", "seed"} : Step(h, step)
    <3>1. exists \in BOOLEAN
        BY DEF ServerInv, StoreInv
    <3> QED  BY <1>5, <3>1 DEF EnsureStudent
  <2> QED  BY <1>4, <2>1 DEF Steps
<1>6. CASE SeedSkills(h) \/ SaveProfile(h) \/ MarkDiagnosed(h)
  <2>1. PICK step \in {"check", "mark", "close"} : Step(h, step)
      BY <1>6 DEF SeedSkills, SaveProfile, MarkDiagnosed
  <2> QED  BY <1>4, <2>1 DEF Steps
<1>7. CASE NeedsDiagnostic(h)
  <2>1. jobs'[h].step = "place"
      BY <1>1, <1>7 DEF NeedsDiagnostic, Jobs
  <2> QED  BY <2>1
<1>8. CASE PlaceSession(h) \/ Missing(h) \/ Closed(h) \/ RecordAnswer(h)
           \/ CloseDiagnostic(h) \/ StoreFails(h)
  <2>1. PICK status \in {"needed", "not needed", "missing", "complete", "refused", "ok", "broken"} :
            Reply(h, status, NoSkill)
    <3>1. CASE PlaceSession(h)
        BY <3>1 DEF PlaceSession
    <3>2. CASE Missing(h) \/ Closed(h) \/ CloseDiagnostic(h) \/ StoreFails(h)
        BY <3>2 DEF Missing, Closed, CloseDiagnostic, StoreFails
    <3>3. CASE RecordAnswer(h)
        BY <3>3 DEF RecordAnswer
    <3> QED  BY <1>8, <3>1, <3>2, <3>3
  <2>2. status \in Statuses \ {"asked"}
      BY DEF Statuses
  <2> QED  BY <1>3, <2>1, <2>2
<1>9. CASE Question(h)
  <2>1. sessions[registry].diagnostic \in Diagnostics
      BY <1>9, OpenSession DEF Question
  <2>2. PICK q \in Skills \cup {NoSkill} : q = NextQuestion(sessions[registry].diagnostic).question
      BY <2>1, NextQuestionIs
  <2>3. CASE q = NoSkill
    <3>1. jobs'[h].step = "finish"
        BY <1>1, <1>9, <2>2, <2>3 DEF Question, Jobs
    <3> QED  BY <3>1
  <2>4. CASE q # NoSkill
    <3>1. Reply(h, "asked", q) /\ q \in Skills /\ "asked" \in Statuses
        BY <1>9, <2>2, <2>4 DEF Question, Statuses
    <3>2. jobs'[h].step \in {"idle", "replied"}
        BY <1>2, <3>1
    <3> QED  BY <3>2
  <2> QED  BY <2>3, <2>4
<1>10. CASE Accept(h)
  <2>1. CASE NextQuestion(sessions[registry].diagnostic).question = jobs[h].skill
    <3>1. /\ jobs'[h].step = "run" /\ jobs'[h].session = registry
          /\ jobs'[h].skill = jobs[h].skill
        BY <1>1, <1>10, <2>1, ZenonT(60) DEF Accept, Jobs
    <3> QED  BY <1>10, <2>1, <3>1
  <2>2. CASE NextQuestion(sessions[registry].diagnostic).question # jobs[h].skill
    <3>1. Reply(h, "refused", NoSkill)
        BY <1>10, <2>2 DEF Accept
    <3>2. jobs'[h].step \in {"idle", "replied"}
        BY <1>3, <3>1, PlainStatuses
    <3> QED  BY <3>2
  <2> QED  BY <2>1, <2>2
<1>11. CASE RunAnswer(h)
  <2>1. PICK run \in Runs : jobs' = [jobs EXCEPT ![h].step = "record", ![h].run = run]
      BY <1>11 DEF RunAnswer
  <2>2. /\ jobs'[h].step = "record" /\ jobs'[h].session = jobs[h].session
        /\ jobs'[h].skill = jobs[h].skill /\ jobs[h].step = "run"
      BY <1>1, <1>11, <2>1 DEF RunAnswer, At, Jobs
  <2> QED  BY <2>2
<1>12. CASE FinishDiagnostic(h)
  <2>1. jobs[h].step = "finish" /\ jobs[h].session \in Slots
      BY <1>1, <1>12 DEF FinishDiagnostic, At, JobShape
  <2>2. CASE sessions[jobs[h].session].open
    <3>1. PICK answers : answers = sessions[jobs[h].session].diagnostic.answers
        OBVIOUS
    <3>2. PICK j : j = [jobs[h] EXCEPT !.step = "save", !.profile = answers]
        OBVIOUS
    <3>3. jobs'[h] = j
        BY <1>1, <1>12, <2>2, <3>1, <3>2 DEF FinishDiagnostic, Held
    <3>4. j.step = "save" /\ j.profile = answers
        BY <1>1, <3>2 DEF Jobs
    <3> QED  BY <2>1, <2>2, <3>1, <3>3, <3>4
  <2>3. CASE ~ sessions[jobs[h].session].open
    <3>1. Reply(h, "broken", NoSkill)
        BY <1>12, <2>3 DEF FinishDiagnostic, Held
    <3>2. "broken" \in Statuses \ {"asked"}
        BY DEF Statuses
    <3>3. jobs'[h].step \in {"idle", "replied"}
        BY <1>3, <3>1, <3>2
    <3> QED  BY <3>3
  <2> QED  BY <2>2, <2>3
<1> QED  BY <1>5, <1>6, <1>7, <1>8, <1>9, <1>10, <1>11, <1>12 DEF Handle

LEMMA WorkShrinks ==
    ASSUME ServerInv, NEW h \in Handlers, Handle(h) \/ StoreFails(h),
           NEW i \in Slots, NEW k \in Skills
    PROVE  /\ jobs'[h].step \notin {"run", "record"} => AtWork(i, k)' \subseteq AtWork(i, k) \ {h}
           /\ \/ AtWork(i, k)' \subseteq AtWork(i, k)
              \/ /\ Accept(h) /\ i = registry
                 /\ NextQuestion(sessions[registry].diagnostic).question = k
<1>1. \A g \in Handlers \ {h} : jobs'[g] = jobs[g]
    BY OneHandlerAtWork DEF ServerInv, JobsInv
<1>2. AtWork(i, k)' \subseteq AtWork(i, k) \cup {h}
    BY <1>1 DEF AtWork
<1>3. jobs'[h].step \notin {"run", "record"} => AtWork(i, k)' \subseteq AtWork(i, k) \ {h}
    BY <1>1 DEF AtWork
<1>4. CASE h \in AtWork(i, k)' /\ h \notin AtWork(i, k)
  <2>1. /\ jobs'[h].step \in {"run", "record"} /\ jobs'[h].session = i /\ jobs'[h].skill = k
        /\ ~ (jobs[h].step = "run" /\ jobs[h].session = i /\ jobs[h].skill = k)
      BY <1>4 DEF AtWork
  <2> QED  BY <1>3, <2>1, StepsTaken
<1>5. CASE h \notin AtWork(i, k)' \/ h \in AtWork(i, k)
    BY <1>2, <1>3, <1>5
<1> QED  BY <1>3, <1>4, <1>5

LEMMA ReachableIs ==
    ASSUME NEW objects, sessions' = Reachable(objects), NEW i \in Slots, NEW k \in Skills
    PROVE  AnswersTo(i, k)' \in {objects[i].diagnostic.answers[k], <<>>}
<1>1. sessions'[i] \in {objects[i], NoSession}
    BY DEF Reachable
<1> QED  BY <1>1, NoSessionIs DEF AnswersTo

LEMMA AnswersGoOn ==
    ASSUME ServerInv, NEW h \in Handlers, Handle(h) \/ StoreFails(h),
           NEW i \in Slots, NEW k \in Skills
    PROVE  \/ AnswersTo(i, k)' \in {AnswersTo(i, k), <<>>}
           \/ /\ Len(AnswersTo(i, k)') = Len(AnswersTo(i, k)) + 1
              /\ h \in AtWork(i, k) /\ jobs'[h].step \notin {"run", "record"}
<1>1. SessionsInv /\ sessions[i] \in Sessions
    BY DEF ServerInv, SessionsInv
<1>2. CASE sessions' = Reachable(sessions)
    BY <1>2, ReachableIs DEF AnswersTo
<1>3. CASE PlaceSession(h)
  <2>0. PICK m \in Slots :
            \E n : sessions' = Reachable([sessions EXCEPT ![m] = [NoSession EXCEPT !.open = n]])
      BY <1>3 DEF PlaceSession
  <2>1. PICK n :
            sessions' = Reachable([sessions EXCEPT ![m] = [NoSession EXCEPT !.open = n]])
      BY <2>0
  <2>2. PICK fresh : fresh = [NoSession EXCEPT !.open = n]
      OBVIOUS
  <2>3. fresh.diagnostic.answers[k] = <<>>
      BY <2>2, NoSessionIs DEF Sessions
  <2>4. PICK objects : objects = [sessions EXCEPT ![m] = fresh]
      OBVIOUS
  <2>5. objects[i] \in {fresh, sessions[i]}
      BY <1>1, <2>4 DEF SessionsInv
  <2>6. AnswersTo(i, k)' \in {objects[i].diagnostic.answers[k], <<>>}
      BY <2>1, <2>2, <2>4, ReachableIs
  <2> QED  BY <2>3, <2>5, <2>6 DEF AnswersTo
<1>4. CASE CloseDiagnostic(h)
  <2>1. PICK objects : objects = [sessions EXCEPT ![Held(h)] = NoSession]
      OBVIOUS
  <2>2. objects[i] \in {NoSession, sessions[i]}
      BY <1>1, <2>1 DEF SessionsInv
  <2>3. AnswersTo(i, k)' \in {objects[i].diagnostic.answers[k], <<>>}
      BY <1>4, <2>1, ReachableIs DEF CloseDiagnostic
  <2> QED  BY <2>2, <2>3, NoSessionIs DEF AnswersTo
<1>5. CASE Question(h) \/ Accept(h)
  <2>1. PICK d \in Diagnostics : d = sessions[registry].diagnostic
      BY <1>5, OpenSession DEF Question, Accept
  <2>2. PICK e \in Diagnostics : e = NextQuestion(d).d /\ e.answers = d.answers
      BY <2>1, NextQuestionIs
  <2>3. PICK t : t = [sessions[registry] EXCEPT !.diagnostic = e]
      OBVIOUS
  <2>4. PICK objects : objects = [sessions EXCEPT ![registry] = t]
      OBVIOUS
  <2>5. sessions' = Reachable(objects)
    <3>1. sessions' = Reachable(Looked(NextQuestion(d)))
        BY <1>5, <2>1 DEF Question, Accept
    <3> QED  BY <2>2, <2>3, <2>4, <3>1 DEF Looked
  <2>6. registry \in Slots /\ sessions[registry] \in Sessions
      BY <1>1, <1>5, OpenSession DEF Question, Accept, SessionsInv
  <2>7. t.diagnostic = e
      BY <2>3, <2>6 DEF Sessions
  <2>8. objects[i] = IF i = registry THEN t ELSE sessions[i]
      BY <1>1, <2>4, <2>6 DEF SessionsInv
  <2>9. objects[i].diagnostic.answers = sessions[i].diagnostic.answers
      BY <2>1, <2>2, <2>7, <2>8
  <2> QED  BY <2>5, <2>9, ReachableIs DEF AnswersTo
<1>6. CASE RecordAnswer(h)
  <2>1. JobShape(jobs[h]) /\ jobs[h].kind = "answer" /\ jobs[h].step = "record"
      BY <1>6 DEF ServerInv, JobsInv, RecordAnswer, At
  <2>2. PICK m \in Slots : m = jobs[h].session
      BY <2>1 DEF JobShape
  <2>3. PICK n \in Skills : n = jobs[h].skill
      BY <2>1 DEF JobShape
  <2>4. PICK o \in StudentOutcomes : o = IF jobs[h].run = "passed" THEN "CORRECT" ELSE "INCORRECT"
      BY DEF StudentOutcomes
  <2>5. CASE ~ sessions[m].open
      BY <1>2, <1>6, <2>2, <2>5 DEF RecordAnswer, Held
  <2>6. CASE sessions[m].open
    <3>1. PICK d \in Diagnostics : d = sessions[m].diagnostic
        BY <1>1 DEF SessionsInv, Sessions
    <3>2. PICK e : e = Record(d, n, o)
        OBVIOUS
    <3>3. /\ \A s \in Skills \ {n} : e.answers[s] = d.answers[s]
          /\ Len(e.answers[n]) = Len(d.answers[n]) + 1
        BY <3>1, <3>2, RecordIs
    <3>4. PICK t : t = [sessions[m] EXCEPT !.diagnostic = e]
        OBVIOUS
    <3>5. t.diagnostic = e
        BY <1>1, <3>4 DEF SessionsInv, Sessions
    <3>6. PICK objects : objects = [sessions EXCEPT ![m] = t]
        OBVIOUS
    <3>7. objects[i] = IF i = m THEN t ELSE sessions[i]
        BY <1>1, <3>6 DEF SessionsInv
    <3>8. sessions' = Reachable(objects)
      <4>1. sessions' = Reachable([sessions EXCEPT ![m].diagnostic = Record(@, n, o)])
          BY <1>6, <2>2, <2>3, <2>4, <2>6 DEF RecordAnswer, Held
      <4>2. [sessions EXCEPT ![m].diagnostic = Record(@, n, o)] = objects
          BY <3>1, <3>2, <3>4, <3>6
      <4> QED  BY <4>1, <4>2
    <3>9. AnswersTo(i, k)' \in {objects[i].diagnostic.answers[k], <<>>}
        BY <3>8, ReachableIs
    <3>10. CASE i = m /\ k = n
      <4>1. h \in AtWork(i, k)
          BY <2>1, <2>2, <2>3, <3>10 DEF AtWork
      <4>2. jobs'[h].step \notin {"run", "record"}
          BY <1>6, <2>1, StepsTaken DEF Accept, Open, At, Handle
      <4>3. Len(objects[i].diagnostic.answers[k]) = Len(AnswersTo(i, k)) + 1
          BY <3>1, <3>3, <3>5, <3>7, <3>10 DEF AnswersTo
      <4> QED  BY <3>9, <4>1, <4>2, <4>3
    <3>11. CASE ~ (i = m /\ k = n)
      <4>1. objects[i].diagnostic.answers[k] = AnswersTo(i, k)
          BY <3>1, <3>3, <3>5, <3>7, <3>11 DEF AnswersTo
      <4> QED  BY <3>9, <4>1
    <3> QED  BY <3>10, <3>11
  <2> QED  BY <2>5, <2>6
<1> QED  BY <1>2, <1>3, <1>4, <1>5, <1>6
         DEF Handle, EnsureStudent, SeedSkills, NeedsDiagnostic, Missing, Closed, RunAnswer,
             FinishDiagnostic, SaveProfile, MarkDiagnosed, StoreFails, Keep

LEMMA HandlingKeepsRoom ==
    ASSUME ServerInv, NEW h \in Handlers, Handle(h) \/ StoreFails(h),
           NEW i \in Slots, NEW k \in Skills
    PROVE  RoomKept(i, k)
<1>1. CASE AnswersTo(i, k)' = <<>>
    BY <1>1 DEF RoomKept
<1>2. CASE AnswersTo(i, k)' = AnswersTo(i, k) /\ AtWork(i, k)' \subseteq AtWork(i, k)
    BY <1>2 DEF RoomKept
<1>3. CASE /\ AnswersTo(i, k)' = AnswersTo(i, k) /\ Accept(h) /\ i = registry
           /\ NextQuestion(sessions[registry].diagnostic).question = k
  <2>1. PICK d \in Diagnostics : d = sessions[registry].diagnostic
      BY <1>3, OpenSession DEF Accept
  <2>2. WorthIn(d, k)
      BY <1>3, <2>1, NextQuestionIs, SkillsAssumption
  <2>3. AnswersTo(i, k) = <<>>
      BY <1>3, <2>1, <2>2 DEF WorthIn, OpenIn, Asked, AnswersTo
  <2> QED  BY <1>3, <2>3 DEF RoomKept
<1>4. CASE /\ Len(AnswersTo(i, k)') = Len(AnswersTo(i, k)) + 1
           /\ h \in AtWork(i, k) /\ jobs'[h].step \notin {"run", "record"}
    BY <1>4, WorkShrinks DEF RoomKept
<1> QED  BY <1>1, <1>2, <1>3, <1>4, AnswersGoOn, WorkShrinks

LEMMA OthersKeepRoom ==
    ASSUME ServerInv, Restart \/ JobsMove, NEW i \in Slots, NEW k \in Skills
    PROVE  RoomKept(i, k)
<1>1. CASE Restart
  <2>1. sessions'[i] = NoSession
      BY <1>1 DEF Restart
  <2> QED  BY <2>1, NoSessionIs DEF RoomKept, AnswersTo
<1>2. CASE JobsMove
  <2>1. ASSUME NEW h \in AtWork(i, k)'
        PROVE  h \in AtWork(i, k)
    <3>1. h \in Handlers /\ jobs'[h].step \in {"run", "record"} /\ jobs'[h].session = i
          /\ jobs'[h].skill = k
        BY DEF AtWork
    <3>2. JobShape(jobs[h]) /\ Moved(jobs[h], jobs'[h])
        BY <1>2, <3>1 DEF ServerInv, JobsInv, JobsMove
    <3>3. jobs'[h] = jobs[h] \/ jobs'[h] = [jobs[h] EXCEPT !.heard = FALSE]
        BY <3>1, <3>2 DEF Moved
    <3>4. /\ jobs'[h].step = jobs[h].step /\ jobs'[h].session = jobs[h].session
          /\ jobs'[h].skill = jobs[h].skill
        BY <3>2, <3>3, UnheardIs
    <3> QED  BY <3>1, <3>4 DEF AtWork
  <2>2. AnswersTo(i, k)' = AnswersTo(i, k)
      BY <1>2 DEF JobsMove, AnswersTo
  <2> QED  BY <2>1, <2>2 DEF RoomKept
<1> QED  BY <1>1, <1>2

LEMMA RowsGoOn ==
    ASSUME ServerInv, NEW h \in Handlers, Handle(h) \/ StoreFails(h)
    PROVE  \/ rows' = rows
           \/ rows' = NewDiagnostic.answers
           \/ rows' = jobs[h].profile /\ jobs[h].step = "save"
<1>1. CASE SeedSkills(h)
    BY <1>1 DEF SeedSkills
<1>2. CASE SaveProfile(h)
    BY <1>2 DEF SaveProfile, At
<1>3. CASE EnsureStudent(h) \/ NeedsDiagnostic(h) \/ PlaceSession(h) \/ Missing(h) \/ Closed(h)
           \/ Question(h) \/ Accept(h) \/ RunAnswer(h) \/ RecordAnswer(h) \/ FinishDiagnostic(h)
           \/ MarkDiagnosed(h) \/ CloseDiagnostic(h) \/ StoreFails(h)
    BY <1>3 DEF EnsureStudent, NeedsDiagnostic, PlaceSession, Missing, Closed, Question, Accept,
       RunAnswer, RecordAnswer, FinishDiagnostic, MarkDiagnosed, CloseDiagnostic, StoreFails,
       storeVars
<1> QED  BY <1>1, <1>2, <1>3 DEF Handle

LEMMA RoomKeeps ==
    ASSUME ServerInv, RoomInv,
           (\E h \in Handlers : Handle(h) \/ StoreFails(h)) \/ Restart \/ JobsMove
    PROVE  RoomInv'
<1>0. Cardinality(Handlers) \in Nat
    BY WorkIsFinite
<1>1. \A i \in Slots, k \in Skills : RoomKept(i, k)
    BY HandlingKeepsRoom, OthersKeepRoom
<1>2. \A i \in Slots, k \in Skills :
          Len(AnswersTo(i, k)') + Cardinality(AtWork(i, k)') <= Cardinality(Handlers)
    BY <1>1, RoomGoesOn DEF RoomInv
<1>3. \A i \in Slots, k \in Skills : Len(AnswersTo(i, k)) <= Cardinality(Handlers)
  <2> SUFFICES ASSUME NEW i \in Slots, NEW k \in Skills
               PROVE  Len(AnswersTo(i, k)) <= Cardinality(Handlers)
      OBVIOUS
  <2>1. AtWork(i, k) \in SUBSET Handlers
      BY DEF AtWork
  <2>2. Cardinality(AtWork(i, k)) \in Nat
      BY <2>1, WorkIsFinite
  <2>3. Len(AnswersTo(i, k)) \in Nat
      BY AnswersType
  <2>4. Len(AnswersTo(i, k)) + Cardinality(AtWork(i, k)) <= Cardinality(Handlers)
      BY DEF RoomInv
  <2> QED  BY <1>0, <2>2, <2>3, <2>4
<1>4. ASSUME NEW g \in Handlers, jobs'[g].step = "save", NEW k \in Skills
      PROVE  Len(jobs'[g].profile[k]) <= Cardinality(Handlers)
  <2>0. JobShape(jobs[g]) /\ jobs = [x \in Handlers |-> jobs[x]]
      BY DEF ServerInv, JobsInv
  <2>1. CASE jobs'[g].step = jobs[g].step /\ jobs'[g].profile = jobs[g].profile
      BY <1>4, <2>1 DEF RoomInv
  <2>2. CASE Restart
    <3>1. jobs'[g] \in {Idle, Replied(jobs[g], "lost", NoSkill)} \/ jobs'[g] = jobs[g]
        BY <2>2 DEF Restart
    <3>2. jobs'[g] = jobs[g]
        BY <1>4, <3>1, IdleIs, PlainStatuses, PlainReplyIs
    <3> QED  BY <2>1, <3>2
  <2>3. CASE JobsMove
    <3>1. Moved(jobs[g], jobs'[g])
        BY <2>3 DEF JobsMove
    <3>2. jobs'[g] = jobs[g] \/ jobs'[g] = [jobs[g] EXCEPT !.heard = FALSE]
        BY <1>4, <3>1 DEF Moved
    <3> QED  BY <2>0, <2>1, <3>2, UnheardIs
  <2>4. ASSUME NEW h \in Handlers, Handle(h) \/ StoreFails(h)
        PROVE  Len(jobs'[g].profile[k]) <= Cardinality(Handlers)
    <3>1. CASE g # h
        BY <2>0, <2>1, <2>4, <3>1, OneHandlerAtWork
    <3>2. CASE g = h
        BY <1>3, <1>4, <2>4, <3>2, StepsTaken DEF AnswersTo
    <3> QED  BY <3>1, <3>2
  <2> QED  BY <2>2, <2>3, <2>4
<1>5. ASSUME NEW k \in Skills, rows'[k] # NoRow
      PROVE  Len(rows'[k]) <= Cardinality(Handlers)
  <2>1. CASE rows' = rows
      BY <1>5, <2>1 DEF RoomInv
  <2>2. CASE rows' = NewDiagnostic.answers
    <3>1. rows'[k] = <<>>
        BY <2>2, NoSessionIs
    <3> QED  BY <1>0, <3>1
  <2>3. ASSUME NEW h \in Handlers, rows' = jobs[h].profile, jobs[h].step = "save"
        PROVE  Len(rows'[k]) <= Cardinality(Handlers)
      BY <2>3 DEF RoomInv
  <2>4. Restart \/ JobsMove => rows' = rows
      BY DEF Restart, JobsMove, storeVars
  <2> QED  BY <2>1, <2>2, <2>3, <2>4, RowsGoOn
<1> QED  BY <1>2, <1>4, <1>5 DEF RoomInv

LEMMA InitRoom == ServerInit => RoomInv
<1> SUFFICES ASSUME ServerInit PROVE RoomInv
    OBVIOUS
<1>1. \A h \in Handlers : jobs[h].step = "idle"
    BY IdleIs DEF ServerInit
<1>2. ASSUME NEW i \in Slots, NEW k \in Skills
      PROVE  Len(AnswersTo(i, k)) + Cardinality(AtWork(i, k)) <= Cardinality(Handlers)
  <2>1. AnswersTo(i, k) = <<>>
      BY NoSessionIs DEF ServerInit, AnswersTo
  <2>2. AtWork(i, k) = {}
      BY <1>1 DEF AtWork
  <2>3. Len(AnswersTo(i, k)) = 0 /\ Cardinality(AtWork(i, k)) = 0
      BY <2>1, <2>2, FS_EmptySet
  <2> QED  BY <2>3, WorkIsFinite
<1>3. \A k \in Skills : rows[k] = NoRow
    BY DEF ServerInit
<1> QED  BY <1>1, <1>2, <1>3 DEF RoomInv

LEMMA RoomIsInvariant == Spec => []RoomInv
<1>1. Init => RoomInv
    BY InitRoom DEF Init
<1>2. CheckInv /\ RoomInv /\ [Next]_vars => RoomInv'
  <2> SUFFICES ASSUME CheckInv, RoomInv, [Next]_vars
               PROVE  RoomInv'
      OBVIOUS
  <2>1. CASE (\E h \in Handlers : Handle(h) \/ StoreFails(h)) \/ Restart
      BY <2>1, RoomKeeps DEF CheckInv
  <2>2. CASE Begin \/ Answer \/ Reload \/ ReloadAt \/ GiveUp \/ PageReacts \/ UNCHANGED vars
    <3>1. UNCHANGED vars => JobsMove
        BY DEF CheckInv, ServerInv, JobsInv, JobsMove, Moved, vars, serverVars, storeVars
    <3>2. JobsMove
        BY <2>2, <3>1, LearnerMoves, PageReactsMoves DEF PageMoves
    <3> QED  BY <3>2, RoomKeeps DEF CheckInv
  <2> QED  BY <2>1, <2>2 DEF Next, ServerWorks
<1> QED  BY <1>1, <1>2, CheckInvIsInvariant, PTL DEF Spec

(* The variables keep their types; a row holds no more answers than there  *)
(* are handlers to record one each.                                        *)
THEOREM DiagnosticTypes == Spec => []DiagnosticTypeOK
<1>1. CheckInv /\ RoomInv => DiagnosticTypeOK
  <2> SUFFICES ASSUME CheckInv, RoomInv
               PROVE  DiagnosticTypeOK
      OBVIOUS
  <2> DEFINE Short == UNION {[1 .. n -> StudentOutcomes] : n \in 0 .. Cardinality(Handlers)}
  <2>1. ASSUME NEW k \in Skills, rows[k] # NoRow
        PROVE  rows[k] \in Short
    <3>1. rows[k] \in Seq(StudentOutcomes) /\ Len(rows[k]) <= Cardinality(Handlers)
        BY <2>1 DEF CheckInv, ServerInv, StoreInv, RoomInv
    <3>2. Len(rows[k]) \in 0 .. Cardinality(Handlers)
        BY <3>1, WorkIsFinite
    <3>3. rows[k] \in [1 .. Len(rows[k]) -> StudentOutcomes]
        BY <3>1
    <3> QED  BY <3>2, <3>3
  <2>2. rows \in [Skills -> {NoRow} \cup Short]
    <3> HIDE DEF Short
    <3> QED  BY <2>1 DEF CheckInv, ServerInv, StoreInv
  <2>3. \A h \in Handlers : jobs[h].session \in {0} \cup Slots /\ jobs[h].skill \in Skills \cup {NoSkill}
      BY DEF CheckInv, ServerInv, JobsInv, JobShape, Jobs
  <2>4. stage = "diagnostic" => shown # NoSkill
      BY SkillsAssumption DEF CheckInv, PageInv
  <2> QED  BY <2>2, <2>3, <2>4
           DEF DiagnosticTypeOK, CheckInv, ServerInv, StoreInv, SessionsInv, PageInv, Flows
<1> QED  BY <1>1, CheckInvIsInvariant, RoomIsInvariant, PTL

-----------------------------------------------------------------------------
(* The headline of the check.                                              *)

(* The folds over no answer and over one, without induction: the function  *)
(* the fold is made of exists on the subsets of {} and of {1}.             *)
LEMMA FoldOfNone ==
    FoldLeft(Observe, 30, <<>>) = 30
<1> DEFINE Body(it, s) == IF s = {} THEN 30
                          ELSE LET i == Max(s) IN Observe(it[s \ {i}], <<>>[i])
           Fold == CHOOSE it : it = [s \in SUBSET {} |-> Body(it, s)]
<1>1. FoldLeft(Observe, 30, <<>>) = Fold[{}]
    BY DEF FoldLeft, MapThenFoldSet
<1>2. SUBSET {} = {{}}
    OBVIOUS
<1>3. PICK it : it = [s \in {{}} |-> 30]
    OBVIOUS
<1>4. it = [s \in SUBSET {} |-> Body(it, s)]
    BY <1>2, <1>3
<1>5. Fold = [s \in SUBSET {} |-> Body(Fold, s)]
    BY <1>4
<1>6. Fold[{}] = Body(Fold, {})
    BY <1>5
<1> QED  BY <1>1, <1>6

LEMMA FoldOfOne ==
    ASSUME NEW o \in StudentOutcomes
    PROVE  FoldLeft(Observe, 30, <<o>>) = Observe(30, o)
<1> DEFINE Body(it, s) == IF s = {} THEN 30
                          ELSE LET i == Max(s) IN Observe(it[s \ {i}], <<o>>[i])
           Fold == CHOOSE it : it = [s \in SUBSET {1} |-> Body(it, s)]
<1>1. FoldLeft(Observe, 30, <<o>>) = Fold[{1}]
  <2>1. DOMAIN <<o>> = {1}
      OBVIOUS
  <2> QED  BY <2>1 DEF FoldLeft, MapThenFoldSet
<1>2. SUBSET {1} = {{}, {1}} /\ Max({1}) = 1 /\ {1} \ {1} = {} /\ {1} # {}
    BY DEF Max
<1>3. PICK one : one = Observe(30, o)
    OBVIOUS
<1>4. PICK it : it = [s \in {{}, {1}} |-> IF s = {} THEN 30 ELSE one]
    OBVIOUS
<1>5. it[{}] = 30 /\ it[{1}] = one
    BY <1>2, <1>4
<1>6. Body(it, {}) = 30
    OBVIOUS
<1>7. Body(it, {1}) = one
    BY <1>2, <1>3, <1>5
<1>8. it = [s \in SUBSET {1} |-> Body(it, s)]
  <2>1. \A s \in SUBSET {1} : it[s] = Body(it, s)
      BY <1>2, <1>5, <1>6, <1>7
  <2> HIDE DEF Body
  <2> QED  BY <1>2, <1>4, <2>1
<1>9. Fold = [s \in SUBSET {1} |-> Body(Fold, s)]
    BY <1>8
<1>10. Fold[{}] = 30
    BY <1>9
<1>11. Fold[{1}] = Body(Fold, {1})
    BY <1>9
<1>12. Body(Fold, {1}) = one
  <2>1. <<o>>[1] = o
      OBVIOUS
  <2> HIDE DEF Fold
  <2> QED  BY <1>2, <1>3, <1>10, <2>1
<1> QED  BY <1>1, <1>3, <1>11, <1>12

LEMMA ObservedIs ==
    Observe(30, "CORRECT") = 66 /\ Observe(30, "INCORRECT") = 14
  BY DEF Observe

LEMMA OnceIs ==
    ASSUME NEW a \in Seq(StudentOutcomes), Len(a) <= 1, a # <<>>
    PROVE  \E o \in StudentOutcomes : a = <<o>> /\ Last(a) = o
<1>1. PICK n \in Nat : n = Len(a) /\ n # 0 /\ n <= 1
    OBVIOUS
<1>2. Len(a) = 1
  <2>1. n = 1
      BY <1>1
  <2> QED  BY <1>1, <2>1
<1>3. PICK o : o = a[1]
    OBVIOUS
<1>4. o \in StudentOutcomes
    BY <1>2, <1>3
<1>5. <<o>> \in Seq(StudentOutcomes) /\ Len(<<o>>) = 1 /\ <<o>>[1] = o
    BY <1>4
<1>6. a = <<o>>
    BY <1>2, <1>3, <1>5
<1> QED  BY <1>2, <1>3, <1>4, <1>6 DEF Last

(* What a check that was finished in order says, question by question.     *)
ProfileSound(answers) ==
    (\A s \in Skills : Len(answers[s]) <= 1) =>
        \A s \in Skills :
            /\ answers[s] = <<>> => \E a \in Ancestors[s] : answers[a] = <<"INCORRECT">>
            /\ answers[s] # <<>> => \A a \in Ancestors[s] : answers[a] = <<"CORRECT">>

LEMMA SettledIsSound ==
    ASSUME NEW d \in Diagnostics, DiagnosticSound(d), Settled(d)
    PROVE  ProfileSound(d.answers)
<1> SUFFICES ASSUME AnsweredOnce(d), NEW s \in Skills
             PROVE  /\ d.answers[s] = <<>> => \E a \in Ancestors[s] : d.answers[a] = <<"INCORRECT">>
                    /\ d.answers[s] # <<>> => \A a \in Ancestors[s] : d.answers[a] = <<"CORRECT">>
    BY DEF ProfileSound, AnsweredOnce
<1>1. \A a \in Ancestors[s] : a \in Skills
    BY AncestorsAre
<1>2. \A a \in Skills : d.answers[a] # <<>> =>
          \E o \in StudentOutcomes : d.answers[a] = <<o>> /\ Last(d.answers[a]) = o
    BY OnceIs DEF Diagnostics, AnsweredOnce
<1>3. CASE d.answers[s] = <<>>
  <2>1. PICK a \in Ancestors[s] : Failed(d, a)
      BY <1>3 DEF Settled, DiagnosticSound, SkipsNameFailures, Asked
  <2>2. d.answers[a] = <<"INCORRECT">>
      BY <1>1, <1>2, <2>1 DEF Failed, Asked, StudentOutcomes
  <2> QED  BY <1>3, <2>2
<1>4. CASE d.answers[s] # <<>>
  <2>1. ASSUME NEW a \in Ancestors[s]
        PROVE  d.answers[a] = <<"CORRECT">>
    <3>1. Asked(d, a) /\ ~ Failed(d, a) /\ a \in Skills
        BY <1>1, <1>4 DEF DiagnosticSound, FoundationsPassed, Asked
    <3> QED  BY <1>2, <3>1 DEF Failed, Asked
  <2> QED  BY <1>4, <2>1
<1> QED  BY <1>3, <1>4

LEMMA ProfileIs ==
    ASSUME NEW answers \in Answers, \A s \in Skills : Len(answers[s]) <= 1, NEW s \in Skills
    PROVE  LET node == Profile(answers)[s]
           IN  /\ answers[s] = <<>> => node.mastery = 30 /\ ~ node.measured
               /\ answers[s] = <<"CORRECT">> => node.mastery = 66 /\ node.measured
               /\ answers[s] = <<"INCORRECT">> => node.mastery = 14 /\ node.measured
               /\ answers[s] \in {<<>>, <<"CORRECT">>, <<"INCORRECT">>}
               /\ node.mastery \in Nat /\ node.measured \in BOOLEAN
<1>1. answers[s] # <<>> => \E o \in StudentOutcomes : answers[s] = <<o>>
    BY OnceIs DEF Answers
<1>2. answers[s] \in {<<>>, <<"CORRECT">>, <<"INCORRECT">>}
    BY <1>1 DEF StudentOutcomes
<1>3. PICK m : m = FoldLeft(Observe, 30, answers[s])
    OBVIOUS
<1>4. PICK b \in BOOLEAN : b <=> answers[s] # <<>>
    OBVIOUS
<1>8. Profile(answers)[s].mastery = m /\ Profile(answers)[s].measured = b
  <2>1. Profile(answers)[s] = [mastery |-> m, measured |-> b]
      BY <1>3, <1>4 DEF Profile
  <2> QED  BY <2>1
<1>5. CASE answers[s] = <<>>
  <2>1. m = 30
      BY <1>3, <1>5, FoldOfNone
  <2> QED  BY <1>4, <1>8, <1>5, <2>1
<1>6. CASE answers[s] = <<"CORRECT">>
  <2>1. m = 66
      BY <1>3, <1>6, FoldOfOne, ObservedIs DEF StudentOutcomes
  <2>2. <<"CORRECT">> # <<>> /\ <<"CORRECT">> # <<"INCORRECT">>
      OBVIOUS
  <2> QED  BY <1>4, <1>8, <1>6, <2>1, <2>2
<1>7. CASE answers[s] = <<"INCORRECT">>
  <2>1. m = 14
      BY <1>3, <1>7, FoldOfOne, ObservedIs DEF StudentOutcomes
  <2>2. <<"INCORRECT">> # <<>> /\ <<"CORRECT">> # <<"INCORRECT">>
      OBVIOUS
  <2> QED  BY <1>4, <1>8, <1>7, <2>1, <2>2
<1> QED  BY <1>2, <1>5, <1>6, <1>7

(* What was not asked cannot be started: something on the way down to what *)
(* was failed under it is not passed.                                      *)
LEMMA UnaskedIsBlocked ==
    ASSUME NEW answers \in Answers, \A s \in Skills : Len(answers[s]) <= 1,
           ProfileSound(answers), NEW s \in Skills, answers[s] = <<>>
    PROVE  Unmastered(Profile(answers), s) # {}
<1>1. PICK a \in Ancestors[s] : answers[a] = <<"INCORRECT">>
    BY DEF ProfileSound
<1>2. CASE a \in Prereqs[s]
  <2>1. a \in Skills
      BY <1>2, GraphAssumption
  <2> QED  BY <1>1, <1>2, <2>1, ProfileIs DEF Unmastered, MASTERY_THRESHOLD
<1>3. ASSUME NEW p \in Prereqs[s], a \in Ancestors[p]
      PROVE  Unmastered(Profile(answers), s) # {}
  <2>1. p \in Skills
      BY GraphAssumption
  <2>2. CASE answers[p] = <<>>
      BY <2>1, <2>2, ProfileIs DEF Unmastered, MASTERY_THRESHOLD
  <2>3. CASE answers[p] # <<>>
    <3>1. answers[a] = <<"CORRECT">>
        BY <1>3, <2>1, <2>3 DEF ProfileSound
    <3>2. <<"CORRECT">> # <<"INCORRECT">>
        OBVIOUS
    <3> QED  BY <1>1, <3>1, <3>2
  <2> QED  BY <2>2, <2>3
<1> QED  BY <1>1, <1>2, <1>3, AncestorsAre

(* A profile that is saved is one of a check that was finished.            *)
ProfilesInv == \A h \in Handlers : jobs[h].step = "save" => ProfileSound(jobs[h].profile)

LEMMA ProfilesKeep ==
    ASSUME ServerInv, ProfilesInv,
           (\E h \in Handlers : Handle(h) \/ StoreFails(h)) \/ Restart \/ JobsMove
    PROVE  ProfilesInv'
<1> SUFFICES ASSUME NEW g \in Handlers, jobs'[g].step = "save"
             PROVE  ProfileSound(jobs'[g].profile)
    BY DEF ProfilesInv, ProfileSound
<1>0. JobShape(jobs[g]) /\ jobs = [x \in Handlers |-> jobs[x]]
    BY DEF ServerInv, JobsInv
<1>1. CASE jobs'[g].step = jobs[g].step /\ jobs'[g].profile = jobs[g].profile
    BY <1>1 DEF ProfilesInv
<1>2. CASE Restart
  <2>1. jobs'[g] \in {Idle, Replied(jobs[g], "lost", NoSkill)} \/ jobs'[g] = jobs[g]
      BY <1>2 DEF Restart
  <2>2. jobs'[g] = jobs[g]
      BY <2>1, IdleIs, PlainStatuses, PlainReplyIs
  <2> QED  BY <1>1, <2>2
<1>3. CASE JobsMove
  <2>1. Moved(jobs[g], jobs'[g])
      BY <1>3 DEF JobsMove
  <2>2. jobs'[g] = jobs[g] \/ jobs'[g] = [jobs[g] EXCEPT !.heard = FALSE]
      BY <2>1 DEF Moved
  <2> QED  BY <1>0, <1>1, <2>2, UnheardIs
<1>4. ASSUME NEW h \in Handlers, Handle(h) \/ StoreFails(h)
      PROVE  ProfileSound(jobs'[g].profile)
  <2>1. CASE g # h
      BY <1>0, <1>1, <1>4, <2>1, OneHandlerAtWork
  <2>2. CASE g = h
    <3>1. /\ jobs[g].step = "finish" /\ jobs[g].session \in Slots
          /\ sessions[jobs[g].session].open
          /\ jobs'[g].profile = sessions[jobs[g].session].diagnostic.answers
        BY <1>4, <2>2, StepsTaken
    <3>2. PICK d \in Diagnostics : d = sessions[jobs[g].session].diagnostic
        BY <3>1 DEF ServerInv, SessionsInv, Sessions
    <3>3. DiagnosticSound(d) /\ Settled(d)
        BY <3>1, <3>2 DEF ServerInv, SessionsInv, JobsInv, CheckStands
    <3> QED  BY <3>1, <3>2, <3>3, SettledIsSound
  <2> QED  BY <2>1, <2>2
<1> QED  BY <1>2, <1>3, <1>4

LEMMA ProfilesAreInvariant == Spec => []ProfilesInv
<1>1. Init => ProfilesInv
    BY IdleIs DEF Init, ServerInit, ProfilesInv
<1>2. CheckInv /\ ProfilesInv /\ [Next]_vars => ProfilesInv'
  <2> SUFFICES ASSUME CheckInv, ProfilesInv, [Next]_vars
               PROVE  ProfilesInv'
      OBVIOUS
  <2>1. CASE (\E h \in Handlers : Handle(h) \/ StoreFails(h)) \/ Restart
      BY <2>1, ProfilesKeep DEF CheckInv
  <2>2. CASE Begin \/ Answer \/ Reload \/ ReloadAt \/ GiveUp \/ PageReacts \/ UNCHANGED vars
    <3>1. UNCHANGED vars => JobsMove
        BY DEF CheckInv, ServerInv, JobsInv, JobsMove, Moved, vars, serverVars, storeVars
    <3>2. JobsMove
        BY <2>2, <3>1, LearnerMoves, PageReactsMoves DEF PageMoves
    <3> QED  BY <3>2, ProfilesKeep DEF CheckInv
  <2> QED  BY <2>1, <2>2 DEF Next, ServerWorks
<1> QED  BY <1>1, <1>2, CheckInvIsInvariant, PTL DEF Spec

(* The skill the plan suggests: the weakest that can be started.           *)
LEMMA StartableIs ==
    ASSUME NEW nodes, \A s \in Skills : nodes[s].mastery \in Nat, Startable(nodes) # {}
    PROVE  LET w == WeakestStartable(nodes)
           IN  /\ w \in Startable(nodes)
               /\ \A t \in Startable(nodes) \ {w} :
                     \/ nodes[w].mastery < nodes[t].mastery
                     \/ nodes[w].mastery = nodes[t].mastery /\ Before(w, t)
<1> DEFINE Below(s, t) == \/ nodes[s].mastery < nodes[t].mastery
                          \/ (nodes[s].mastery = nodes[t].mastery /\ Before(s, t))
<1>1. PICK key : key = [s \in Skills |-> nodes[s].mastery]
    OBVIOUS
<1>2. Startable(nodes) \in SUBSET Skills
    BY DEF Startable, Weak
<1>3. \A s \in Startable(nodes) : key[s] = nodes[s].mastery /\ key[s] \in Nat
    BY <1>1, <1>2
<1>4. PICK s \in Startable(nodes) : \A t \in Startable(nodes) \ {s} : LowerIn(key, s, t)
    BY <1>2, <1>3, HasLowest
<1>5. \A t \in Startable(nodes) \ {s} : Below(s, t)
    BY <1>3, <1>4 DEF LowerIn, Before
<1>6. WeakestStartable(nodes) =
          CHOOSE x \in Startable(nodes) : \A t \in Startable(nodes) \ {x} : Below(x, t)
    BY DEF WeakestStartable, Least
<1> HIDE DEF Below
<1>7. LET w == WeakestStartable(nodes)
      IN  w \in Startable(nodes) /\ \A t \in Startable(nodes) \ {w} : Below(w, t)
    BY <1>5, <1>6
<1> QED  BY <1>7 DEF Below

(* The skill the headline names, when something weak was measured.         *)
LEMMA TargetIs ==
    ASSUME NEW nodes, \A s \in Skills : nodes[s].mastery \in Nat,
           {s \in Weak(nodes) : nodes[s].measured} # {}
    PROVE  LET w == TargetSkill(nodes)
               measured == {s \in Weak(nodes) : nodes[s].measured}
               blocked  == {s \in Skills : Unmastered(nodes, s) # {}}
           IN  /\ w \in measured
               /\ \A t \in measured \ {w} :
                     \/ nodes[w].mastery < nodes[t].mastery
                     \/ nodes[w].mastery = nodes[t].mastery /\ w \notin blocked /\ t \in blocked
                     \/ /\ nodes[w].mastery = nodes[t].mastery
                        /\ w \in blocked <=> t \in blocked
                        /\ Before(w, t)
<1> DEFINE measured == {s \in Weak(nodes) : nodes[s].measured}
           blocked  == {s \in Skills : Unmastered(nodes, s) # {}}
           Below(s, t) == \/ nodes[s].mastery < nodes[t].mastery
                          \/ /\ nodes[s].mastery = nodes[t].mastery
                             /\ s \notin blocked /\ t \in blocked
                          \/ /\ nodes[s].mastery = nodes[t].mastery
                             /\ s \in blocked <=> t \in blocked
                             /\ Before(s, t)
<1>1. PICK key : key = [s \in Skills |-> 2 * nodes[s].mastery + (IF s \in blocked THEN 1 ELSE 0)]
    OBVIOUS
<1>2. measured \in SUBSET Skills
    BY DEF Weak
<1>6. TargetSkill(nodes) = CHOOSE x \in measured : \A t \in measured \ {x} : Below(x, t)
    BY DEF TargetSkill, Least
<1> HIDE DEF blocked, measured
<1>3. \A s \in measured :
          /\ nodes[s].mastery \in Nat /\ key[s] \in Nat
          /\ s \in blocked => key[s] = 2 * nodes[s].mastery + 1
          /\ s \notin blocked => key[s] = 2 * nodes[s].mastery
    BY <1>1, <1>2
<1>4. PICK s \in measured : \A t \in measured \ {s} : LowerIn(key, s, t)
  <2>1. measured # {}
      BY DEF measured
  <2> QED  BY <1>2, <1>3, <2>1, HasLowest
<1>5. \A t \in measured \ {s} : Below(s, t)
    BY <1>3, <1>4 DEF LowerIn, Before
<1> HIDE DEF Below
<1>7. LET w == TargetSkill(nodes)
      IN  w \in measured /\ \A t \in measured \ {w} : Below(w, t)
    BY <1>5, <1>6
<1> QED  BY <1>7 DEF Below, measured, blocked

(* While no question was answered twice, the headline of the check names   *)
(* what the plan suggests, unless what it names cannot be started yet      *)
(* (finish, weakest_startable): a skill that was not asked about is never  *)
(* startable, so the weakest that is was measured.                         *)
THEOREM HeadlineStands == Spec => []HeadlineAgrees
<1>1. CheckInv /\ ProfilesInv => HeadlineAgrees
  <2> SUFFICES ASSUME CheckInv, ProfilesInv, NEW h \in Handlers, At(h, "question", "save"),
                      \A s \in Skills : Len(jobs[h].profile[s]) <= 1,
                      TargetSkill(Profile(jobs[h].profile)) \in Startable(Profile(jobs[h].profile))
               PROVE  TargetSkill(Profile(jobs[h].profile))
                          = WeakestStartable(Profile(jobs[h].profile))
      BY DEF HeadlineAgrees
  <2>1. PICK answers \in Answers : answers = jobs[h].profile
      BY DEF CheckInv, ServerInv, JobsInv, JobShape, Jobs
  <2>2. ProfileSound(answers) /\ \A s \in Skills : Len(answers[s]) <= 1
      BY <2>1 DEF ProfilesInv, At
  <2>3. PICK nodes : nodes = Profile(answers)
      OBVIOUS
  <2>4. \A s \in Skills : nodes[s].mastery \in Nat
      BY <2>2, <2>3, ProfileIs
  <2>5. \A s \in Startable(nodes) : s \in Skills /\ s \in Weak(nodes) /\ Unmastered(nodes, s) = {}
      BY DEF Startable, Weak
  <2>6. \A s \in Startable(nodes) : nodes[s].measured
      BY <2>1, <2>2, <2>3, <2>5, UnaskedIsBlocked, ProfileIs
  <2>7. PICK w : w = WeakestStartable(nodes)
      OBVIOUS
  <2>8. PICK t : t = TargetSkill(nodes)
      OBVIOUS
  <2>9. t \in Startable(nodes)
      BY <2>1, <2>3, <2>8
  <2>10. /\ w \in Startable(nodes)
         /\ t # w => \/ nodes[w].mastery < nodes[t].mastery
                     \/ nodes[w].mastery = nodes[t].mastery /\ Before(w, t)
      BY <2>4, <2>7, <2>9, StartableIs
  <2>11. w # t => \/ nodes[t].mastery < nodes[w].mastery
                  \/ nodes[t].mastery = nodes[w].mastery /\ Unmastered(nodes, w) # {}
                  \/ nodes[t].mastery = nodes[w].mastery /\ Before(t, w)
      BY <2>4, <2>5, <2>6, <2>8, <2>9, <2>10, TargetIs
  <2>12. w = t
    <3>1. nodes[t].mastery \in Nat /\ nodes[w].mastery \in Nat /\ Unmastered(nodes, w) = {}
        BY <2>4, <2>5, <2>9, <2>10
    <3>2. ~ (Before(w, t) /\ Before(t, w))
        BY <2>5, <2>9, <2>10, GraphAssumption DEF Before
    <3> QED  BY <2>10, <2>11, <3>1, <3>2
  <2> QED  BY <2>1, <2>3, <2>7, <2>8, <2>12
<1> QED  BY <1>1, CheckInvIsInvariant, ProfilesAreInvariant, PTL
=============================================================================
