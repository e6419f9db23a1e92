------------------------- MODULE OutcomeGraphProofs -------------------------
(***************************************************************************)
(* The reducer's safety for every set of compiled plans, every set of      *)
(* outcomes and progress tokens and every bound on runs and attempts.      *)
(***************************************************************************)
EXTENDS OutcomeGraph, FiniteSetTheorems, WellFoundedInduction, TLAPS

-----------------------------------------------------------------------------
(* Plans.                                                                  *)

LEMMA PlanParts ==
  ASSUME NEW p, IsPlan(p, Outcomes)
  PROVE  /\ p.nodes \subseteq Nat
         /\ IsFiniteSet(p.nodes)
         /\ EntryNodes(p) \subseteq p.nodes
         /\ IsFiniteSet(EntryNodes(p))
         /\ \A n \in p.nodes : p.inputs[n] \subseteq InputType(p, Outcomes)
         /\ \A g \in GroupIds(p) : p.groups[g] \in GroupType(p, Outcomes)
<1>1. p.nodes \subseteq Nat /\ IsFiniteSet(p.nodes) /\ EntryNodes(p) \subseteq p.nodes
  BY DEF IsPlan, EntryNodes
<1>2. IsFiniteSet(EntryNodes(p))
  BY <1>1, FS_Subset
<1>3. \A n \in p.nodes : p.inputs[n] \subseteq InputType(p, Outcomes)
  BY DEF IsPlan
<1>4. \A g \in GroupIds(p) : p.groups[g] \in GroupType(p, Outcomes)
  <2>1. p.groups \in Seq(GroupType(p, Outcomes))
    BY DEF IsPlan
  <2> HIDE DEF GroupType
  <2> QED
    BY <2>1 DEF GroupIds
<1> QED
  BY <1>1, <1>2, <1>3, <1>4

\* A node no feeder points at is an entry node.
LEMMA NoFeederIsEntry ==
  ASSUME NEW p, NEW n \in p.nodes, Feeders(p, n) = {}
  PROVE  n \in EntryNodes(p)
BY DEF Feeders, EntryNodes

\* A compiled plan has an entry node, so starting it dispatches something:
\* without one no node is dispatchable first, and every join of the plan is
\* reported as unsatisfiable (unsatisfiableJoinsOf).
THEOREM CompiledPlanStarts ==
  ASSUME NEW p, IsPlan(p, Outcomes), Compiles(p)
  PROVE  EntryNodes(p) # {}
<1> SUFFICES ASSUME EntryNodes(p) = {}
             PROVE  FALSE
  OBVIOUS
<1>1. PICK n \in p.nodes : TRUE
  BY DEF Compiles, CanTerminate
<1>2. DispatchableBefore(p, n) = {}
  <2>1. \A e \in p.edges : e.from \notin {}
    OBVIOUS
  <2>2. {} \in SUBSET p.nodes
    OBVIOUS
  <2> QED
    BY <2>1, <2>2 DEF DispatchableBefore
<1>3. Feeders(p, n) # {}
  BY <1>1, NoFeederIsEntry
<1>4. Feeders(p, n) \subseteq p.nodes
  BY DEF IsPlan, EdgeType, Feeders
<1>5. IsFiniteSet(Feeders(p, n)) /\ Cardinality(Feeders(p, n)) \in Nat
  BY <1>4, FS_Subset, FS_CardinalityType DEF IsPlan
<1>6. Cardinality(Feeders(p, n)) # 0
  BY <1>3, <1>5, FS_EmptySet
<1>7. Needed(p.join[n], Feeders(p, n)) > 0
  <2>1. p.join[n].quorum \in Nat
    BY <1>1 DEF IsPlan
  <2> QED
    BY <1>5, <1>6, <2>1 DEF Needed
<1>8. ~ JoinSatisfiedBy(p, n, {})
  <2>1. Cardinality({} \cap Feeders(p, n)) = 0
    <3>1. {} \cap Feeders(p, n) = {}
      OBVIOUS
    <3> QED
      BY <3>1, FS_EmptySet
  <2>2. Needed(p.join[n], Feeders(p, n)) \in Nat
    <3>1. p.join[n].quorum \in Nat
      BY <1>1 DEF IsPlan
    <3> QED
      BY <1>5, <3>1 DEF Needed
  <2> QED
    BY <1>3, <1>7, <2>1, <2>2 DEF JoinSatisfiedBy
<1>9. n \in UnsatisfiableJoins(p)
  BY <1>1, <1>2, <1>3, <1>8 DEF UnsatisfiableJoins
<1> QED
  BY <1>9 DEF Compiles

-----------------------------------------------------------------------------
(* Numbering attempts.                                                     *)

\* Within one batch the ranks are distinct numbers from 1 to its size.
LEMMA RankFacts ==
  ASSUME NEW S, S \subseteq Nat, IsFiniteSet(S), NEW c \in S
  PROVE  /\ Cardinality(S) \in Nat
         /\ Rank(S, c) \in 1 .. Cardinality(S)
         /\ \A d \in S : d # c => Rank(S, d) # Rank(S, c)
<1> DEFINE Below(d) == {m \in S : m <= d}
<1>1. \A d \in S : /\ Below(d) \in SUBSET S
                   /\ d \in Below(d)
  OBVIOUS
<1>2. \A d \in S : /\ IsFiniteSet(Below(d))
                   /\ Cardinality(Below(d)) <= Cardinality(S)
  BY <1>1, FS_Subset
<1>3. \A d \in S : Cardinality(Below(d)) \in Nat
  BY <1>2, FS_CardinalityType
<1>4. \A d \in S : Cardinality(Below(d)) # 0
  BY <1>1, <1>2, FS_EmptySet
<1>5. \A d \in S : Rank(S, d) = Cardinality(Below(d))
  BY DEF Rank
<1>6. ASSUME NEW d \in S, NEW e \in S, d < e
      PROVE  Cardinality(Below(d)) # Cardinality(Below(e))
  <2>0. d \in Nat /\ e \in Nat /\ \A m \in S : m \in Nat
    OBVIOUS
  <2>1. Below(d) \in SUBSET Below(e)
    <3>1. \A m \in S : m <= d => m <= e
      BY <1>6, <2>0
    <3> QED
      BY <3>1
  <2>2. e \in Below(e) /\ e \notin Below(d)
    BY <1>6
  <2> QED
    BY <1>2, <2>1, <2>2, FS_Subset
<1>7. \A d \in S : d # c => Cardinality(Below(d)) # Cardinality(Below(c))
  <2>1. \A d \in S : d # c => d < c \/ c < d
    OBVIOUS
  <2> QED
    BY <1>6, <2>1
<1>8. Cardinality(S) \in Nat
  BY FS_CardinalityType
<1>9. Rank(S, c) \in 1 .. Cardinality(S)
  <2>1. Rank(S, c) \in Nat /\ Rank(S, c) # 0 /\ Rank(S, c) <= Cardinality(S)
    BY <1>2, <1>3, <1>4, <1>5
  <2> QED
    BY <1>8, <2>1
<1>10. \A d \in S : d # c => Rank(S, d) # Rank(S, c)
  BY <1>5, <1>7
<1> QED
  BY <1>8, <1>9, <1>10

-----------------------------------------------------------------------------
(* Iterations.  A set of naturals has a least member, and that is all the  *)
(* induction that is needed: what holds of the start and is kept by a      *)
(* round holds at the end, and rounds that lower a measure come to rest.   *)

LEMMA LeastNumber ==
  ASSUME NEW T \in SUBSET Nat, T # {}
  PROVE  \E x \in T : \A y \in T : x <= y
<1> DEFINE R == {ss \in Nat \X Nat : ss[1] < ss[2]}
<1>1. IsWellFoundedOn(R, Nat)
  BY NatLessThanWellFounded, Zenon DEF OpToRel
<1> HIDE DEF R
<1>2. PICK x \in T : \A y \in T : ~ (<<y, x>> \in R)
  BY <1>1, WFMin
<1>3. \A y \in T : x \in Nat /\ y \in Nat /\ ~ (y < x)
  BY <1>2 DEF R
<1> QED
  BY <1>3

(* f[0], ..., f[n] is what n rounds of g make of a, and they stay in S. *)
Iterates(f, S, g, a, n) ==
    /\ f \in [0 .. n -> S]
    /\ f[0] = a
    /\ \A k \in 1 .. n : f[k] = g[f[k - 1]]

IteratesTo(f, S, g, a, n) == Iterates(f, S, g, a, n) /\ Iterated(g, a, n) = f[n]

LEMMA IteratesExist ==
  ASSUME NEW S, NEW a \in S, NEW g, \A x \in S : g[x] \in S, NEW n \in Nat
  PROVE  \E f : Iterates(f, S, g, a, n)
<1> DEFINE T == {m \in Nat : ~ \E f : Iterates(f, S, g, a, m)}
<1>1. T = {}
  <2> SUFFICES ASSUME T # {} PROVE FALSE
    OBVIOUS
  <2>1. PICK m \in T : \A y \in T : m <= y
    <3>1. T \in SUBSET Nat
      OBVIOUS
    <3> HIDE DEF T
    <3> QED
      BY <3>1, LeastNumber
  <2>2. m # 0
    <3>1. Iterates([k \in 0 .. 0 |-> a], S, g, a, 0)
      BY DEF Iterates
    <3> QED
      BY <3>1
  <2>3. PICK f : Iterates(f, S, g, a, m - 1)
    <3>1. m - 1 \in Nat /\ ~ (m <= m - 1)
      BY <2>1, <2>2
    <3>2. m - 1 \notin T
      BY <2>1, <3>1
    <3> QED
      BY <3>1, <3>2
  <2> DEFINE h == [k \in 0 .. m |-> IF k = m THEN g[f[m - 1]] ELSE f[k]]
  <2>4. m - 1 \in 0 .. m - 1 /\ m \in Nat
    BY <2>1, <2>2
  <2>5. g[f[m - 1]] \in S /\ \A k \in 0 .. m - 1 : f[k] \in S
    BY <2>3, <2>4 DEF Iterates
  <2>6. h \in [0 .. m -> S]
    BY <2>4, <2>5
  <2>7. Iterates(h, S, g, a, m)
    <3>1. h[0] = a
      BY <2>2, <2>3, <2>4 DEF Iterates
    <3>2. ASSUME NEW k \in 1 .. m PROVE h[k] = g[h[k - 1]]
      <4>1. h[k - 1] = f[k - 1]
        BY <2>4
      <4>2. CASE k = m
        BY <2>4, <4>1, <4>2
      <4>3. CASE k # m
        BY <2>4, <4>1, <4>3, <2>3 DEF Iterates
      <4> QED
        BY <4>2, <4>3
    <3> QED
      BY <2>6, <3>1, <3>2 DEF Iterates
  <2> QED
    BY <2>1, <2>7
<1> QED
  BY <1>1

LEMMA IteratedIs ==
  ASSUME NEW S, NEW a \in S, NEW g, \A x \in S : g[x] \in S, NEW n \in Nat
  PROVE  \E f : IteratesTo(f, S, g, a, n)
<1> DEFINE F(f) == f = [k \in 0 .. n |-> IF k = 0 THEN a ELSE g[f[k - 1]]]
           f == CHOOSE f : F(f)
<1>1. PICK h : Iterates(h, S, g, a, n)
  BY IteratesExist
<1>2. F(h)
  BY <1>1 DEF Iterates
<1>3. Iterated(g, a, n) = f[n]
  BY DEF Iterated
<1>4. F(f)
  BY <1>2
<1> HIDE DEF f
<1>5. DOMAIN f = 0 .. n /\ f = [k \in 0 .. n |-> f[k]]
  BY <1>4
<1>6. f[0] = a /\ \A k \in 1 .. n : f[k] = g[f[k - 1]]
  BY <1>4
<1>7. \A k \in 0 .. n : f[k] \in S
  <2> DEFINE T == {k \in 0 .. n : f[k] \notin S}
  <2> SUFFICES ASSUME T # {} PROVE FALSE
    OBVIOUS
  <2>1. PICK k \in T : \A j \in T : k <= j
    <3>1. T \in SUBSET Nat
      OBVIOUS
    <3> HIDE DEF T
    <3> QED
      BY <3>1, LeastNumber
  <2>2. CASE k = 0
    BY <1>6, <2>1, <2>2
  <2>3. CASE k # 0
    <3>1. k - 1 \in 0 .. n /\ ~ (k <= k - 1) /\ k \in 1 .. n
      BY <2>1, <2>3
    <3>2. f[k - 1] \in S
      BY <2>1, <3>1
    <3> QED
      BY <1>6, <2>1, <3>1, <3>2
  <2> QED
    BY <2>2, <2>3
<1>8. Iterates(f, S, g, a, n)
  BY <1>5, <1>6, <1>7 DEF Iterates
<1> QED
  BY <1>3, <1>8 DEF IteratesTo

\* What holds of the start and is kept by every round holds of the result.
LEMMA IteratedIn ==
  ASSUME NEW S, NEW a \in S, NEW g, \A x \in S : g[x] \in S, NEW n \in Nat
  PROVE  Iterated(g, a, n) \in S
<1>1. PICK f : IteratesTo(f, S, g, a, n)
  BY IteratedIs
<1> QED
  BY <1>1 DEF IteratesTo, Iterates

\* Rounds that lower a measure whenever they change anything come to rest.
LEMMA IteratedRests ==
  ASSUME NEW S, NEW a \in S, NEW g, \A x \in S : g[x] \in S, NEW n \in Nat,
         NEW left \in [S -> Nat], \A x \in S : left[x] <= n,
         \A x \in S : g[x] # x => left[g[x]] < left[x]
  PROVE  g[Iterated(g, a, n)] = Iterated(g, a, n)
<1>1. PICK f : IteratesTo(f, S, g, a, n)
  BY IteratedIs
<1> DEFINE T == {k \in 0 .. n : g[f[k]] # f[k] /\ ~ (left[f[k]] <= n - k)}
<1>2. T = {}
  <2> SUFFICES ASSUME T # {} PROVE FALSE
    OBVIOUS
  <2>1. PICK k \in T : \A j \in T : k <= j
    <3>1. T \in SUBSET Nat
      OBVIOUS
    <3> HIDE DEF T
    <3> QED
      BY <3>1, LeastNumber
  <2>2. k # 0
    BY <1>1, <2>1 DEF IteratesTo, Iterates
  <2>3. k - 1 \in 0 .. n /\ ~ (k <= k - 1) /\ k \in 1 .. n
    <3>1. k \in 0 .. n
      BY <2>1
    <3> QED
      BY <2>2, <3>1
  <2>4. f[k] = g[f[k - 1]] /\ f[k - 1] \in S /\ f[k] \in S
    BY <1>1, <2>3 DEF IteratesTo, Iterates
  <2>5. g[f[k - 1]] # f[k - 1]
    BY <2>1, <2>4
  <2>6. left[f[k - 1]] <= n - (k - 1)
    BY <2>1, <2>3, <2>5
  <2>7. left[f[k]] < left[f[k - 1]] /\ left[f[k]] \in Nat /\ left[f[k - 1]] \in Nat
    BY <2>4, <2>5
  <2> QED
    BY <2>1, <2>3, <2>6, <2>7
<1>3. f[n] \in S /\ left[f[n]] \in Nat /\ left[g[f[n]]] \in Nat
  BY <1>1 DEF IteratesTo, Iterates
<1>4. n \notin T
  BY <1>2
<1> QED
  BY <1>1, <1>3, <1>4 DEF IteratesTo

\* Rounds that only add members of a finite set end when nothing is left to add.
LEMMA IteratedGrows ==
  ASSUME NEW S, IsFiniteSet(S), NEW g, NEW n \in Nat, Cardinality(S) <= n,
         \A X \in SUBSET S : X \subseteq g[X] /\ g[X] \subseteq S
  PROVE  /\ Iterated(g, {}, n) \subseteq S
         /\ g[Iterated(g, {}, n)] = Iterated(g, {}, n)
<1> DEFINE left == [X \in SUBSET S |-> Cardinality(S) - Cardinality(X)]
<1>1. \A X \in SUBSET S : /\ IsFiniteSet(X) /\ Cardinality(X) \in Nat
                           /\ Cardinality(X) <= Cardinality(S)
  BY FS_Subset, FS_CardinalityType
<1>2. Cardinality(S) \in Nat
  BY FS_CardinalityType
<1>3. left \in [SUBSET S -> Nat] /\ \A X \in SUBSET S : left[X] <= n
  BY <1>1, <1>2
<1>4. ASSUME NEW X \in SUBSET S, g[X] # X
      PROVE  left[g[X]] < left[X]
  <2>1. g[X] \in SUBSET S /\ X \in SUBSET g[X]
    OBVIOUS
  <2>2. Cardinality(X) < Cardinality(g[X])
    <3>1. IsFiniteSet(g[X]) /\ Cardinality(X) <= Cardinality(g[X])
      BY <1>1, <2>1, FS_Subset
    <3>2. Cardinality(X) # Cardinality(g[X])
      BY <1>4, <2>1, <3>1, FS_Subset
    <3> QED
      BY <1>1, <2>1, <3>1, <3>2
  <2> QED
    BY <1>1, <1>2, <2>1, <2>2
<1> HIDE DEF left
<1>5. {} \in SUBSET S /\ \A X \in SUBSET S : g[X] \in SUBSET S
  OBVIOUS
<1>6. Iterated(g, {}, n) \in SUBSET S
  BY <1>5, IteratedIn
<1>7. g[Iterated(g, {}, n)] = Iterated(g, {}, n)
  BY <1>3, <1>4, <1>5, IteratedRests
<1> QED
  BY <1>6, <1>7

\* Rounds of a monotone operation, started from the whole of a finite set, end at its
\* greatest fixpoint.
LEMMA IteratedShrinks ==
  ASSUME NEW S, IsFiniteSet(S), NEW g, NEW n \in Nat, Cardinality(S) <= n,
         \A X \in SUBSET S : g[X] \subseteq S,
         \A X, Y \in SUBSET S : X \subseteq Y => g[X] \subseteq g[Y]
  PROVE  /\ Iterated(g, S, n) \subseteq S
         /\ g[Iterated(g, S, n)] = Iterated(g, S, n)
         /\ \A X \in SUBSET S : X \subseteq g[X] => X \subseteq Iterated(g, S, n)
<1> DEFINE Above == {X \in SUBSET S : /\ g[X] \subseteq X
                                      /\ \A Y \in SUBSET S : Y \subseteq g[Y] => Y \subseteq X}
           left == [X \in Above |-> Cardinality(X)]
<1>1. S \in Above
  OBVIOUS
<1>2. ASSUME NEW X \in Above
      PROVE  g[X] \in Above
  <2>1. X \in SUBSET S /\ g[X] \in SUBSET S /\ g[X] \subseteq X
    OBVIOUS
  <2>2. g[g[X]] \subseteq g[X]
    BY <2>1
  <2>3. ASSUME NEW Y \in SUBSET S, Y \subseteq g[Y]
        PROVE  Y \subseteq g[X]
    <3>1. Y \subseteq X
      BY <2>3
    <3>2. g[Y] \subseteq g[X]
      BY <2>1, <3>1
    <3> QED
      BY <2>3, <3>2
  <2> QED
    BY <2>1, <2>2, <2>3
<1>3. \A X \in Above : X \in SUBSET S /\ g[X] \in SUBSET X
  OBVIOUS
<1> HIDE DEF Above
<1>4. \A X \in Above : /\ IsFiniteSet(X) /\ Cardinality(X) \in Nat
                        /\ Cardinality(X) <= Cardinality(S)
  BY <1>3, FS_Subset, FS_CardinalityType
<1>5. left \in [Above -> Nat] /\ \A X \in Above : left[X] <= n
  <2>1. Cardinality(S) \in Nat
    BY FS_CardinalityType
  <2> QED
    BY <1>4, <2>1
<1>6. ASSUME NEW X \in Above, g[X] # X
      PROVE  left[g[X]] < left[X]
  <2>1. Cardinality(g[X]) <= Cardinality(X) /\ Cardinality(g[X]) # Cardinality(X)
    BY <1>3, <1>4, <1>6, FS_Subset
  <2>2. g[X] \in Above
    BY <1>2
  <2> QED
    BY <1>4, <2>1, <2>2
<1> HIDE DEF left
<1>7. Iterated(g, S, n) \in Above
  BY <1>1, <1>2, IteratedIn
<1>8. g[Iterated(g, S, n)] = Iterated(g, S, n)
  BY <1>1, <1>2, <1>5, <1>6, IteratedRests
<1> QED
  BY <1>7, <1>8 DEF Above

-----------------------------------------------------------------------------
(* What a settling step does, whichever of its four forms it takes: one    *)
(* attempt is settled and accepted, the candidates in `armed' are          *)
(* dispatched on new numbers, and every other entry at most gains a        *)
(* refusal.                                                                *)

SettleEffect(n, o, armed, basis) ==
    /\ CanSettle(n, o)
    /\ armed \subseteq plan.nodes
    /\ \A c \in armed :
        /\ Settled(n, o)[c].status # "dispatched"
        /\ InputsResolve(Settled(n, o), Accept(n, o), c, basis)
        /\ node'[c] = DispatchedEntry(attemptSeq + Rank(armed, c),
                                      ResolvedInputs(Settled(n, o), c, basis))
    /\ \A c \in plan.nodes \ armed :
        node'[c] = Settled(n, o)[c] \/ node'[c] = RefusedEntry(Settled(n, o)[c])
    /\ node' = [c \in plan.nodes |-> node'[c]]
    /\ attemptSeq' = attemptSeq + Cardinality(armed)
    /\ accepted' = Accept(n, o)
    /\ plan' = plan
    /\ run' = run

LEMMA ArmSetWithin ==
  ASSUME NEW st, NEW armable, NEW blocked
  PROVE  ResolveArmSet(st, armable, blocked) \subseteq armable
BY Zenon DEF ResolveArmSet

(* The sets an advance on outcome o of node n works with. *)
Armable(n, o) == {c \in Targets(plan, n, o) : Settled(n, o)[c].status # "dispatched"}
BlockedSet(n, o) == BlockedCandidates(Settled(n, o), Accept(n, o), Armable(n, o))
RoutedSet(n, o) == ResolveArmSet(Settled(n, o), Armable(n, o), BlockedSet(n, o))
BasisSet(n, o) == Basis(Settled(n, o), Accept(n, o), RoutedSet(n, o))
ArmedSet(n, o) == Resolved(Settled(n, o), Accept(n, o), RoutedSet(n, o), BasisSet(n, o))

\* An advance dispatches candidates whose inputs resolve and that are not in
\* flight already.
LEMMA AdvanceShape ==
  ASSUME TypeOK, NEW n, NEW o, CanSettle(n, o),
         Advance(Settled(n, o), accepted', Targets(plan, n, o)),
         accepted' = Accept(n, o), plan' = plan, run' = run
  PROVE  SettleEffect(n, o, ArmedSet(n, o), BasisSet(n, o))
<1> DEFINE st == Settled(n, o)
           acc == Accept(n, o)
           armable == Armable(n, o)
           routed == RoutedSet(n, o)
           basis == BasisSet(n, o)
           armed == ArmedSet(n, o)
<1>1. /\ node' = [c \in plan.nodes |-> AdvancedEntry(st, c, armed, routed, basis)]
      /\ attemptSeq' = attemptSeq + Cardinality(armed)
  BY Zenon DEF Advance, ArmedSet, BasisSet, RoutedSet, BlockedSet, Armable
<1>2. routed \subseteq armable
  BY ArmSetWithin DEF RoutedSet
<1>3. Targets(plan, n, o) \subseteq plan.nodes
  BY DEF TypeOK, IsPlan, EdgeType, Targets
<1> HIDE DEF routed, basis
<1>4. /\ armed \subseteq routed
      /\ \A c \in armed : InputsResolve(st, acc, c, basis)
  BY DEF Resolved, ArmedSet, routed, basis
<1>5. \A c \in armed : st[c].status # "dispatched" /\ c \in plan.nodes
  BY <1>2, <1>3, <1>4 DEF Armable
<1> HIDE DEF armed, st
<1>6. \A c \in armed : node'[c] = DispatchedEntry(attemptSeq + Rank(armed, c),
                                                  ResolvedInputs(st, c, basis))
  BY <1>1, <1>5 DEF AdvancedEntry
<1>7. \A c \in plan.nodes \ armed : node'[c] = st[c] \/ node'[c] = RefusedEntry(st[c])
  BY <1>1 DEF AdvancedEntry
<1>8. node' = [c \in plan.nodes |-> node'[c]]
  BY <1>1
<1>9. SettleEffect(n, o, armed, basis)
  BY <1>1, <1>4, <1>5, <1>6, <1>7, <1>8 DEF SettleEffect, st, armed, basis
<1> QED
  BY <1>9 DEF armed, basis

\* A step that settles without routing arms nothing.
LEMMA QuietShape ==
  ASSUME TypeOK, NEW n, NEW o, CanSettle(n, o), node' = Settled(n, o),
         accepted' = Accept(n, o), plan' = plan, run' = run, attemptSeq' = attemptSeq
  PROVE  SettleEffect(n, o, {}, {})
<1>1. Cardinality({}) = 0
  BY FS_EmptySet
<1>2. attemptSeq' = attemptSeq + Cardinality({})
  BY <1>1 DEF TypeOK
<1>3. node' = [c \in plan.nodes |-> node'[c]]
  BY DEF TypeOK, Settled
<1> QED
  BY <1>2, <1>3 DEF SettleEffect

LEMMA SettleShape ==
  ASSUME TypeOK, NEW n, Settle(n)
  PROVE  \E o \in Outcomes : \E armed, basis : SettleEffect(n, o, armed, basis)
<1>1. PICK o \in Outcomes :
        \/ SettleTerminal(n, o)
        \/ SettleExhausted(n, o)
        \/ \E observed : SettleStalled(n, o, observed)
        \/ \E observed : SettleRouted(n, o, observed)
  BY DEF Settle
<1>2. CASE SettleTerminal(n, o)
  BY <1>2, QuietShape DEF SettleTerminal
<1>3. CASE SettleExhausted(n, o)
  BY <1>3, QuietShape DEF SettleExhausted
<1>4. CASE \E observed : SettleStalled(n, o, observed)
  BY <1>4, QuietShape DEF SettleStalled
<1>5. CASE \E observed : SettleRouted(n, o, observed)
  BY <1>5, AdvanceShape DEF SettleRouted
<1> QED
  BY <1>1, <1>2, <1>3, <1>4, <1>5

-----------------------------------------------------------------------------
(* Types.                                                                  *)

LEMMA EntryTypes ==
  /\ PendingEntry \in EntryType
  /\ \A s \in Nat, I \in SUBSET BoundInputType : DispatchedEntry(s, I) \in EntryType
  /\ \A e \in EntryType, o \in Outcomes : SettledEntry(e, o) \in EntryType
  /\ \A e \in EntryType : RefusedEntry(e) \in EntryType
<1>1. PendingEntry \in EntryType
  BY DEF PendingEntry, EntryType, Statuses
<1>2. \A s \in Nat, I \in SUBSET BoundInputType : DispatchedEntry(s, I) \in EntryType
  BY DEF DispatchedEntry, EntryType, Statuses
<1>3. \A e \in EntryType, o \in Outcomes : SettledEntry(e, o) \in EntryType
  BY DEF SettledEntry, EntryType, Statuses
<1>4. \A e \in EntryType : RefusedEntry(e) \in EntryType
  BY DEF RefusedEntry, EntryType
<1> QED
  BY <1>1, <1>2, <1>3, <1>4

LEMMA SettledType ==
  ASSUME TypeOK, NEW n, NEW o \in Outcomes, CanSettle(n, o)
  PROVE  /\ n \in plan.nodes
         /\ Settled(n, o) \in [plan.nodes -> EntryType]
         /\ Accept(n, o) \in SUBSET AcceptedType
<1>1. n \in plan.nodes /\ node[n] \in EntryType
  BY DEF TypeOK, CanSettle
<1>2. SettledEntry(node[n], o) \in EntryType
  BY <1>1, EntryTypes
<1>3. Settled(n, o) \in [plan.nodes -> EntryType]
  BY <1>1, <1>2 DEF TypeOK, Settled
<1>4. [node |-> n, seq |-> node[n].seq, outcome |-> o, run |-> run] \in AcceptedType
  <2>1. n \in Nat
    BY <1>1 DEF TypeOK, IsPlan
  <2>2. node[n].seq \in Nat
    BY <1>1 DEF EntryType
  <2> QED
    BY <2>1, <2>2 DEF TypeOK, AcceptedType
<1>5. Accept(n, o) \in SUBSET AcceptedType
  BY <1>4 DEF TypeOK, Accept
<1> QED
  BY <1>1, <1>3, <1>5

LEMMA ResolvedInputsType ==
  ASSUME TypeOK, NEW st \in [plan.nodes -> EntryType], NEW c \in plan.nodes, NEW out
  PROVE  ResolvedInputs(st, c, out) \in SUBSET BoundInputType
<1>1. IsPlan(plan, Outcomes)
  BY DEF TypeOK
<1>2. \A i \in plan.inputs[c] : i.from \in plan.nodes /\ i.outcome \in Outcomes
  BY <1>1, PlanParts DEF InputType
<1>3. \A f \in plan.nodes : f \in Nat /\ st[f].seq \in Nat
  BY <1>1, PlanParts DEF EntryType
<1> QED
  BY <1>2, <1>3 DEF ResolvedInputs, BoundInputType

LEMMA ConcludeType ==
  ASSUME NEW limit \in StopReasons \cup {"none"}, Conclude(limit)
  PROVE  stop' \in StopReasons \cup {"none"} /\ phase' \in Phases
BY DEF Conclude, StopOf, PhaseOf, StopReasons, Phases

LEMMA CountsType ==
  ASSUME TypeOK, NEW groups,
         NEW observed \in [Measurable(groups) -> Tokens \cup {Unknown}]
  PROVE  /\ Counted(groups) \in [GroupIds(plan) -> Nat]
         /\ Measured(groups, observed) \in [GroupIds(plan) -> ProgressType]
<1>1. Counted(groups) \in [GroupIds(plan) -> Nat]
  BY DEF TypeOK, Counted
<1>2. ASSUME NEW entry \in ProgressType, NEW token \in Tokens \cup {Unknown}
      PROVE  CompareProgress(entry, token) \in ProgressType
  BY <1>2 DEF CompareProgress, ProgressEntry, ProgressType
<1>3. \A g \in GroupIds(plan) : progress[g] \in ProgressType
  BY DEF TypeOK
<1>4. \A g \in Measurable(groups) : observed[g] \in Tokens \cup {Unknown}
  OBVIOUS
<1>5. Measured(groups, observed) \in [GroupIds(plan) -> ProgressType]
  BY <1>2, <1>3, <1>4 DEF Measured
<1> QED
  BY <1>1, <1>5

\* The part of the state every settling step writes the same way.
LEMMA SettleTypes ==
  ASSUME TypeOK, NEW n, Settle(n)
  PROVE  /\ plan' = plan
         /\ run' \in Nat
         /\ node' \in [plan.nodes -> EntryType]
         /\ attemptSeq' \in Nat
         /\ accepted' \in SUBSET AcceptedType
<1>0. PICK o \in Outcomes : \E armed, basis : SettleEffect(n, o, armed, basis)
  BY SettleShape
<1>1. PICK armed, basis : SettleEffect(n, o, armed, basis)
  BY <1>0
<1> DEFINE st == Settled(n, o)
<1>2. /\ st \in [plan.nodes -> EntryType]
      /\ Accept(n, o) \in SUBSET AcceptedType
  BY <1>1, SettledType DEF SettleEffect
<1>3. /\ armed \subseteq plan.nodes
      /\ armed \subseteq Nat
      /\ IsFiniteSet(armed)
  BY <1>1, PlanParts, FS_Subset DEF TypeOK, SettleEffect
<1>4. Cardinality(armed) \in Nat /\ attemptSeq \in Nat
  BY <1>3, FS_CardinalityType DEF TypeOK
<1> HIDE DEF st
<1>5. ASSUME NEW c \in armed
      PROVE  node'[c] \in EntryType
  <2>0. Rank(armed, c) \in 1 .. Cardinality(armed)
    BY <1>3, <1>5, RankFacts
  <2>1. attemptSeq + Rank(armed, c) \in Nat
    BY <1>4, <2>0
  <2>2. ResolvedInputs(st, c, basis) \in SUBSET BoundInputType
    BY <1>2, <1>3, ResolvedInputsType
  <2>3. node'[c] = DispatchedEntry(attemptSeq + Rank(armed, c), ResolvedInputs(st, c, basis))
    BY <1>1 DEF SettleEffect, st
  <2> QED
    BY <2>1, <2>2, <2>3, EntryTypes
<1>6. ASSUME NEW c \in plan.nodes \ armed
      PROVE  node'[c] \in EntryType
  <2>1. st[c] \in EntryType /\ RefusedEntry(st[c]) \in EntryType
    BY <1>2, EntryTypes
  <2>2. node'[c] = st[c] \/ node'[c] = RefusedEntry(st[c])
    BY <1>1 DEF SettleEffect, st
  <2> QED
    BY <2>1, <2>2
<1>7. node' = [c \in plan.nodes |-> node'[c]]
  BY <1>1 DEF SettleEffect
<1>8. node' \in [plan.nodes -> EntryType]
  BY <1>5, <1>6, <1>7
<1>9. attemptSeq' \in Nat
  BY <1>1, <1>4 DEF SettleEffect
<1> QED
  BY <1>1, <1>2, <1>8, <1>9 DEF SettleEffect, TypeOK

LEMMA MintTypes ==
  ASSUME TypeOK, MintRun
  PROVE  TypeOK'
<1>1. IsPlan(plan, Outcomes) /\ attemptSeq \in Nat
  BY DEF TypeOK
<1>2. /\ EntryNodes(plan) \subseteq Nat
      /\ IsFiniteSet(EntryNodes(plan))
      /\ Cardinality(EntryNodes(plan)) \in Nat
  BY <1>1, PlanParts, FS_CardinalityType
<1>3. ASSUME NEW n \in plan.nodes
      PROVE  MintedEntry(n, attemptSeq) \in EntryType
  <2>1. CASE n \in EntryNodes(plan)
    <3>1. attemptSeq + Rank(EntryNodes(plan), n) \in Nat
      BY <1>1, <1>2, <2>1, RankFacts
    <3>2. {} \in SUBSET BoundInputType
      OBVIOUS
    <3> QED
      BY <2>1, <3>1, <3>2, EntryTypes DEF MintedEntry
  <2>2. CASE n \notin EntryNodes(plan)
    BY <2>2, EntryTypes DEF MintedEntry
  <2> QED
    BY <2>1, <2>2
<1>4. node' \in [plan.nodes -> EntryType]
  BY <1>3 DEF MintRun
<1>5. progress' \in [GroupIds(plan) -> ProgressType]
  BY DEF MintRun, ProgressEntry, ProgressType
<1>6. attemptSeq' \in Nat /\ run' \in Nat /\ traversals' \in [GroupIds(plan) -> Nat]
  BY <1>1, <1>2 DEF MintRun, TypeOK
<1> QED
  BY <1>1, <1>4, <1>5, <1>6 DEF MintRun, TypeOK, Phases

\* The shape of the state is preserved by every step (advanceOutcomeGraph,
\* mintRunInTransaction).
THEOREM TypeCorrect == Spec => []TypeOK
<1>1. Init => TypeOK
  <2> SUFFICES ASSUME Init PROVE TypeOK
    OBVIOUS
  <2>1. IsPlan(plan, Outcomes)
    BY PlansAssumption DEF Init
  <2>2. node \in [plan.nodes -> EntryType]
    BY EntryTypes DEF Init
  <2>3. progress \in [GroupIds(plan) -> ProgressType]
    BY DEF Init, ProgressEntry, ProgressType
  <2> QED
    BY <2>1, <2>2, <2>3 DEF Init, TypeOK, Phases
<1>2. TypeOK /\ [Next]_vars => TypeOK'
  <2> SUFFICES ASSUME TypeOK, [Next]_vars PROVE TypeOK'
    OBVIOUS
  <2>1. CASE Start \/ Reexecute
    BY <2>1, MintTypes DEF Start, Reexecute
  <2>2. ASSUME NEW n \in plan.nodes, Settle(n)
        PROVE  TypeOK'
    <3>1. /\ plan' = plan
          /\ run' \in Nat
          /\ node' \in [plan.nodes -> EntryType]
          /\ attemptSeq' \in Nat
          /\ accepted' \in SUBSET AcceptedType
      BY <2>2, SettleTypes
    <3> DEFINE Written == /\ stop' \in StopReasons \cup {"none"} /\ phase' \in Phases
                          /\ traversals' \in [GroupIds(plan) -> Nat]
                          /\ progress' \in [GroupIds(plan) -> ProgressType]
    <3>2. Written
      <4>1. ASSUME NEW o, SettleTerminal(n, o) \/ SettleExhausted(n, o)
            PROVE  Written
        BY <4>1, ConcludeType DEF SettleTerminal, SettleExhausted, StopReasons, TypeOK
      <4>2. ASSUME NEW o,
                   NEW observed \in [Measurable(ContinuationGroups(plan, n, o))
                                        -> Tokens \cup {Unknown}],
                   SettleStalled(n, o, observed) \/ SettleRouted(n, o, observed)
            PROVE  Written
        BY <4>2, ConcludeType, CountsType DEF SettleStalled, SettleRouted, StopReasons
      <4> QED
        BY <2>2, <4>1, <4>2 DEF Settle
    <3> QED
      BY <3>1, <3>2 DEF TypeOK
  <2>3. CASE Finished \/ UNCHANGED vars
    BY <2>3 DEF Finished, vars, TypeOK
  <2> QED
    BY <2>1, <2>2, <2>3 DEF Next
<1> QED
  BY <1>1, <1>2, PTL DEF Spec

-----------------------------------------------------------------------------
(* Attempts are settled once.                                              *)

(* OneResultPerAttempt of the entries st, the accepted results acc and the *)
(* counter top, with what makes it inductive: a pending node has no number *)
(* yet.                                                                    *)
Once(nodes, r, st, acc, top) ==
    /\ \A a, b \in acc : a.seq = b.seq => a = b
    /\ \A a \in acc : a.seq <= top
    /\ \A n \in nodes :
        /\ st[n].status = "pending" => st[n].seq = 0
        /\ st[n].status # "pending" => st[n].seq \in 1 .. top
        /\ st[n].status = "dispatched" => \A a \in acc : a.seq # st[n].seq
        /\ st[n].status = "settled" =>
              [node |-> n, seq |-> st[n].seq, outcome |-> st[n].outcome, run |-> r] \in acc
        /\ \A m \in nodes \ {n} : st[n].status # "pending" => st[m].seq # st[n].seq

OnceInv == Once(plan.nodes, run, node, accepted, attemptSeq)

\* Settling one attempt, before anything is armed.
LEMMA OnceSettled ==
  ASSUME TypeOK, OnceInv, NEW n, NEW o \in Outcomes, CanSettle(n, o)
  PROVE  Once(plan.nodes, run, Settled(n, o), Accept(n, o), attemptSeq)
<1> DEFINE st == Settled(n, o)
           r == [node |-> n, seq |-> node[n].seq, outcome |-> o, run |-> run]
<1>1. n \in plan.nodes /\ node[n].status = "dispatched"
  BY DEF CanSettle
<1>2. /\ st[n].status = "settled" /\ st[n].seq = node[n].seq /\ st[n].outcome = o
      /\ \A m \in plan.nodes \ {n} : st[m] = node[m]
  BY <1>1 DEF Settled, SettledEntry, TypeOK
<1>3. \A m \in plan.nodes : st[m].seq = node[m].seq
  BY <1>2
<1>4. /\ node[n].seq \in 1 .. attemptSeq
      /\ \A a \in accepted : a.seq # node[n].seq
      /\ \A m \in plan.nodes \ {n} : node[m].seq # node[n].seq
  BY <1>1 DEF OnceInv, Once
<1>5. Accept(n, o) = accepted \cup {r} /\ r.seq = node[n].seq
  BY DEF Accept
<1> HIDE DEF st, r
<1>6. \A a, b \in Accept(n, o) : a.seq = b.seq => a = b
  BY <1>4, <1>5 DEF OnceInv, Once
<1>7. \A a \in Accept(n, o) : a.seq <= attemptSeq
  BY <1>4, <1>5 DEF OnceInv, Once, TypeOK
<1>8. ASSUME NEW m \in plan.nodes
      PROVE  /\ st[m].status = "pending" => st[m].seq = 0
             /\ st[m].status # "pending" => st[m].seq \in 1 .. attemptSeq
             /\ st[m].status = "dispatched" => \A a \in Accept(n, o) : a.seq # st[m].seq
             /\ st[m].status = "settled" =>
                  [node |-> m, seq |-> st[m].seq, outcome |-> st[m].outcome, run |-> run]
                      \in Accept(n, o)
  <2>1. CASE m = n
    BY <2>1, <1>2, <1>4, <1>5 DEF r
  <2>2. CASE m # n
    BY <2>2, <1>2, <1>4, <1>5 DEF OnceInv, Once
  <2> QED
    BY <2>1, <2>2
<1>9. ASSUME NEW m \in plan.nodes, NEW k \in plan.nodes \ {m}, st[m].status # "pending"
      PROVE  st[k].seq # st[m].seq
  <2>1. node[m].status # "pending"
    BY <1>9, <1>1, <1>2
  <2> QED
    BY <2>1, <1>3 DEF OnceInv, Once
<1> QED
  BY <1>6, <1>7, <1>8, <1>9 DEF Once, st

\* Arming candidates on fresh numbers.
LEMMA OnceAdvanced ==
  ASSUME TypeOK, TypeOK', OnceInv, NEW n, NEW o \in Outcomes, NEW armed, NEW basis,
         SettleEffect(n, o, armed, basis)
  PROVE  OnceInv'
<1> DEFINE st == Settled(n, o)
           acc == Accept(n, o)
<1>1. Once(plan.nodes, run, st, acc, attemptSeq)
  BY OnceSettled DEF SettleEffect
<1>2. /\ plan' = plan /\ run' = run /\ accepted' = acc
      /\ attemptSeq' = attemptSeq + Cardinality(armed)
      /\ armed \subseteq plan.nodes
  BY DEF SettleEffect
<1>3. armed \subseteq Nat /\ IsFiniteSet(armed) /\ Cardinality(armed) \in Nat /\ attemptSeq \in Nat
  BY <1>2, PlanParts, FS_Subset, FS_CardinalityType DEF TypeOK
<1>4. ASSUME NEW c \in plan.nodes \ armed
      PROVE  /\ node'[c].status = st[c].status
             /\ node'[c].seq = st[c].seq
             /\ node'[c].outcome = st[c].outcome
  <2>1. node'[c] = st[c] \/ node'[c] = RefusedEntry(st[c])
    BY DEF SettleEffect
  <2> HIDE DEF st
  <2> QED
    BY <2>1 DEF RefusedEntry
<1>5. ASSUME NEW c \in armed
      PROVE  /\ node'[c].status = "dispatched"
             /\ node'[c].seq = attemptSeq + Rank(armed, c)
  <2>1. node'[c] = DispatchedEntry(attemptSeq + Rank(armed, c), ResolvedInputs(st, c, basis))
    BY DEF SettleEffect
  <2> HIDE DEF st
  <2> QED
    BY <2>1 DEF DispatchedEntry
<1>6. \A c \in armed : Rank(armed, c) \in 1 .. Cardinality(armed)
  BY <1>3, RankFacts
<1>7. \A c, d \in armed : c # d => Rank(armed, c) # Rank(armed, d)
  BY <1>3, RankFacts
<1> HIDE DEF st, acc
<1>8. \A c \in armed : node'[c].seq > attemptSeq /\ node'[c].seq \in 1 .. attemptSeq'
  BY <1>2, <1>3, <1>5, <1>6
<1>9. /\ \A a, b \in acc : a.seq = b.seq => a = b
      /\ \A a \in acc : a.seq <= attemptSeq
      /\ acc \in SUBSET AcceptedType
  BY <1>1, <1>2 DEF Once, TypeOK
<1>10. \A a \in acc : a.seq \in Nat /\ a.seq <= attemptSeq'
  BY <1>2, <1>3, <1>9 DEF AcceptedType
<1>11. \A c \in plan.nodes :
         /\ st[c].seq = 0 \/ st[c].seq \in 1 .. attemptSeq
         /\ st[c].status # "pending" => st[c].seq \in 1 .. attemptSeq
  BY <1>1 DEF Once
<1>12. ASSUME NEW c \in plan.nodes
       PROVE  /\ node'[c].status = "pending" => node'[c].seq = 0
              /\ node'[c].status # "pending" => node'[c].seq \in 1 .. attemptSeq'
              /\ node'[c].status = "dispatched" => \A a \in acc : a.seq # node'[c].seq
              /\ node'[c].status = "settled" =>
                   [node |-> c, seq |-> node'[c].seq, outcome |-> node'[c].outcome, run |-> run]
                       \in acc
  <2>1. CASE c \in armed
    BY <2>1, <1>3, <1>5, <1>8, <1>9, <1>10
  <2>2. CASE c \notin armed
    <3>1. st[c].status # "pending" => st[c].seq \in 1 .. attemptSeq'
      BY <1>2, <1>3, <1>11
    <3>2. /\ st[c].status = "pending" => st[c].seq = 0
          /\ st[c].status = "dispatched" => \A a \in acc : a.seq # st[c].seq
          /\ st[c].status = "settled" =>
               [node |-> c, seq |-> st[c].seq, outcome |-> st[c].outcome, run |-> run] \in acc
      BY <1>1 DEF Once
    <3>3. /\ node'[c].status = st[c].status
          /\ node'[c].seq = st[c].seq
          /\ node'[c].outcome = st[c].outcome
      BY <2>2, <1>4
    <3> QED
      BY <3>1, <3>2, <3>3
  <2> QED
    BY <2>1, <2>2
<1>13. ASSUME NEW c \in plan.nodes, NEW d \in plan.nodes \ {c}, node'[c].status # "pending"
       PROVE  node'[d].seq # node'[c].seq
  <2>1. CASE c \in armed /\ d \in armed
    BY <2>1, <1>3, <1>5, <1>6, <1>7
  <2>2. CASE c \in armed /\ d \notin armed
    BY <2>2, <1>3, <1>4, <1>8, <1>11
  <2>3. CASE c \notin armed /\ d \in armed
    BY <2>3, <1>3, <1>4, <1>8, <1>11
  <2>4. CASE c \notin armed /\ d \notin armed
    <3>1. st[c].status # "pending"
      BY <1>13, <2>4, <1>4
    <3>2. st[d].seq # st[c].seq
      BY <3>1, <1>1 DEF Once
    <3> QED
      BY <3>2, <2>4, <1>4
  <2> QED
    BY <2>1, <2>2, <2>3, <2>4
<1>14. Once(plan.nodes, run, node', acc, attemptSeq')
  BY <1>9, <1>10, <1>12, <1>13 DEF Once
<1> QED
  BY <1>2, <1>14 DEF OnceInv

\* A new run numbers its attempts after every number the graph has used.
LEMMA OnceMinted ==
  ASSUME TypeOK, OnceInv, MintRun
  PROVE  OnceInv'
<1> DEFINE E == EntryNodes(plan)
<1>1. E \subseteq Nat /\ E \subseteq plan.nodes /\ IsFiniteSet(E) /\ Cardinality(E) \in Nat
  BY PlanParts, FS_CardinalityType DEF TypeOK
<1>2. /\ plan' = plan /\ accepted' = accepted /\ attemptSeq' = attemptSeq + Cardinality(E)
      /\ attemptSeq \in Nat
  BY DEF MintRun, TypeOK
<1>3. \A c \in E : Rank(E, c) \in 1 .. Cardinality(E)
  BY <1>1, RankFacts
<1>4. \A c, d \in E : c # d => Rank(E, c) # Rank(E, d)
  BY <1>1, RankFacts
<1> HIDE DEF E
<1>5. \A c \in E : node'[c].status = "dispatched" /\ node'[c].seq = attemptSeq + Rank(E, c)
  BY <1>1 DEF MintRun, MintedEntry, DispatchedEntry, E
<1>6. \A c \in plan.nodes \ E : node'[c].status = "pending" /\ node'[c].seq = 0
  BY DEF MintRun, MintedEntry, PendingEntry, E
<1>7. \A c \in E : node'[c].seq > attemptSeq /\ node'[c].seq \in 1 .. attemptSeq'
  BY <1>1, <1>2, <1>3, <1>5
<1>8. /\ \A a, b \in accepted : a.seq = b.seq => a = b
      /\ \A a \in accepted : a.seq \in Nat /\ a.seq <= attemptSeq
  BY DEF OnceInv, Once, TypeOK, AcceptedType
<1>9. \A a \in accepted : a.seq <= attemptSeq'
  BY <1>1, <1>2, <1>8
<1>10. ASSUME NEW c \in plan.nodes
       PROVE  /\ node'[c].status = "pending" => node'[c].seq = 0
              /\ node'[c].status # "pending" => node'[c].seq \in 1 .. attemptSeq'
              /\ node'[c].status = "dispatched" => \A a \in accepted : a.seq # node'[c].seq
              /\ node'[c].status # "settled"
  <2>1. CASE c \in E
    BY <2>1, <1>2, <1>5, <1>7, <1>8
  <2>2. CASE c \notin E
    BY <2>2, <1>6
  <2> QED
    BY <2>1, <2>2
<1>11. ASSUME NEW c \in plan.nodes, NEW d \in plan.nodes \ {c}, node'[c].status # "pending"
       PROVE  node'[d].seq # node'[c].seq
  <2>1. c \in E
    BY <1>6, <1>11
  <2>2. CASE d \in E
    BY <2>1, <2>2, <1>2, <1>3, <1>4, <1>5
  <2>3. CASE d \notin E
    BY <2>1, <2>3, <1>6, <1>7
  <2> QED
    BY <2>2, <2>3
<1>12. Once(plan.nodes, run', node', accepted, attemptSeq')
  BY <1>8, <1>9, <1>10, <1>11 DEF Once
<1> QED
  BY <1>2, <1>12 DEF OnceInv

LEMMA OnceInvariant == Spec => []OnceInv
<1>1. Init => OnceInv
  BY DEF Init, OnceInv, Once, PendingEntry
<1>2. TypeOK /\ TypeOK' /\ OnceInv /\ [Next]_vars => OnceInv'
  <2> SUFFICES ASSUME TypeOK, TypeOK', OnceInv, [Next]_vars PROVE OnceInv'
    OBVIOUS
  <2>1. CASE Start \/ Reexecute
    BY <2>1, OnceMinted DEF Start, Reexecute
  <2>2. ASSUME NEW n \in plan.nodes, Settle(n)
        PROVE  OnceInv'
    BY <2>2, SettleShape, OnceAdvanced
  <2>3. CASE Finished \/ UNCHANGED vars
    BY <2>3 DEF Finished, vars, OnceInv
  <2> QED
    BY <2>1, <2>2, <2>3 DEF Next
<1> QED
  BY <1>1, <1>2, TypeCorrect, PTL DEF Spec

\* An attempt is settled once, and a settled entry is what the ledger
\* accepted, over every run of the graph (commit of reduceInTransaction).
THEOREM AttemptsSettleOnce == Spec => []OneResultPerAttempt
<1>1. OnceInv => OneResultPerAttempt
  BY DEF OnceInv, Once, OneResultPerAttempt
<1> QED
  BY <1>1, OnceInvariant, PTL

-----------------------------------------------------------------------------
(* Consumers work from accepted results.                                   *)

(* What InputsAccepted says of one attempt: node c, bound to the inputs I  *)
(* under the number s, while acc is accepted.                              *)
Supplied(c, I, s, acc) ==
    /\ \A i \in I :
        /\ \E d \in plan.inputs[c] : d.from = i.from /\ d.outcome = i.outcome
        /\ [node |-> i.from, seq |-> i.seq, outcome |-> i.outcome, run |-> run] \in acc
        /\ i.seq < s
    /\ \A d \in plan.inputs[c] : d.when = "settled" =>
          \E i \in I : i.from = d.from /\ i.outcome = d.outcome

\* Resolves names an accepted result by its number; because a number is
\* accepted once, that result is the one the producer's entry records.
LEMMA ResolvedIsAccepted ==
  ASSUME NEW r, NEW st, NEW acc, NEW top, NEW out, NEW c \in plan.nodes,
         IsPlan(plan, Outcomes), Once(plan.nodes, r, st, acc, top),
         InputsResolve(st, acc, c, out), NEW i \in ResolvedInputs(st, c, out)
  PROVE  /\ \E d \in plan.inputs[c] : d.from = i.from /\ d.outcome = i.outcome
         /\ [node |-> i.from, seq |-> i.seq, outcome |-> i.outcome, run |-> r] \in acc
         /\ i.seq \in 1 .. top
<1>1. PICK d \in plan.inputs[c] :
        /\ Applies(st, c, d, out)
        /\ i = [from |-> d.from, outcome |-> d.outcome, seq |-> st[d.from].seq]
  BY DEF ResolvedInputs
<1>2. d.from \in plan.nodes
  BY DEF IsPlan, InputType
<1>3. Resolves(st, acc, d, out)
  BY <1>1 DEF InputsResolve
<1>4. PICK a \in acc : a.seq = st[d.from].seq /\ a.outcome = d.outcome
  BY <1>3 DEF Resolves
<1>5. st[d.from].status = "settled"
  BY <1>3 DEF Resolves
<1> DEFINE b == [node |-> d.from, seq |-> st[d.from].seq, outcome |-> st[d.from].outcome,
                 run |-> r]
<1>6. b \in acc /\ st[d.from].seq \in 1 .. top
  BY <1>2, <1>5 DEF Once
<1>7. b.seq = a.seq
  BY <1>4
<1>8. a = b
  BY <1>6, <1>7 DEF Once
<1>9. d.outcome = st[d.from].outcome
  BY <1>4, <1>8
<1> QED
  BY <1>1, <1>6, <1>9

\* An advance arms a candidate with every input it must have.
LEMMA ArmedIsSupplied ==
  ASSUME TypeOK, OnceInv, NEW n, NEW o \in Outcomes, NEW armed, NEW basis,
         SettleEffect(n, o, armed, basis), NEW c \in armed
  PROVE  /\ c \in plan.nodes
         /\ Supplied(c, node'[c].inputs, node'[c].seq, accepted')
<1> DEFINE st == Settled(n, o)
           acc == Accept(n, o)
           I == ResolvedInputs(st, c, basis)
<1>1. c \in plan.nodes /\ accepted' = acc /\ InputsResolve(st, acc, c, basis)
  BY DEF SettleEffect
<1>2. node'[c] = DispatchedEntry(attemptSeq + Rank(armed, c), I)
  BY DEF SettleEffect
<1>3. Once(plan.nodes, run, st, acc, attemptSeq)
  BY OnceSettled DEF SettleEffect
<1>4. Rank(armed, c) \in 1 .. Cardinality(armed) /\ Cardinality(armed) \in Nat /\ attemptSeq \in Nat
  <2>1. armed \subseteq Nat /\ IsFiniteSet(armed)
    BY PlanParts, FS_Subset DEF TypeOK, SettleEffect
  <2> QED
    BY <2>1, RankFacts DEF TypeOK
<1>5. IsPlan(plan, Outcomes)
  BY DEF TypeOK
<1> HIDE DEF st, acc
<1>6. node'[c].inputs = I /\ node'[c].seq = attemptSeq + Rank(armed, c)
  BY <1>2 DEF DispatchedEntry
<1>7. ASSUME NEW i \in I
      PROVE  /\ \E d \in plan.inputs[c] : d.from = i.from /\ d.outcome = i.outcome
             /\ [node |-> i.from, seq |-> i.seq, outcome |-> i.outcome, run |-> run] \in acc
             /\ i.seq \in 1 .. attemptSeq
  BY <1>1, <1>3, <1>5, ResolvedIsAccepted
<1>8. ASSUME NEW i \in I
      PROVE  i.seq < node'[c].seq
  <2> DEFINE k == Rank(armed, c)
             top == Cardinality(armed)
  <2>1. i.seq \in 1 .. attemptSeq
    BY <1>7
  <2>2. k \in 1 .. top /\ top \in Nat /\ node'[c].seq = attemptSeq + k
    BY <1>4, <1>6
  <2> HIDE DEF k, top
  <2> QED
    BY <2>1, <2>2, <1>4
<1>9. ASSUME NEW d \in plan.inputs[c], d.when = "settled"
      PROVE  \E i \in I : i.from = d.from /\ i.outcome = d.outcome
  <2>1. Applies(st, c, d, basis)
    BY <1>9 DEF Applies
  <2>2. [from |-> d.from, outcome |-> d.outcome, seq |-> st[d.from].seq] \in I
    BY <2>1 DEF ResolvedInputs
  <2> QED
    BY <2>2
<1> HIDE DEF I
<1> QED
  BY <1>1, <1>6, <1>7, <1>8, <1>9 DEF Supplied

\* Every input an attempt is bound to is an accepted result of the run, on the
\* declared outcome and of an earlier attempt (resolveConsumerInputs).
THEOREM ConsumersUseAcceptedResults == Spec => []InputsAccepted
<1>1. Init => InputsAccepted
  BY DEF Init, InputsAccepted, PendingEntry
<1>2. TypeOK /\ TypeOK' /\ OnceInv /\ InputsAccepted /\ [Next]_vars => InputsAccepted'
  <2> SUFFICES ASSUME TypeOK, TypeOK', OnceInv, InputsAccepted, [Next]_vars
               PROVE  InputsAccepted'
    OBVIOUS
  <2>1. CASE Start \/ Reexecute
    <3> SUFFICES ASSUME NEW c \in plan'.nodes, node'[c].status # "pending"
                 PROVE  /\ node'[c].inputs = {}
                        /\ \A d \in plan'.inputs[c] : d.when # "settled"
      BY DEF InputsAccepted
    <3>1. MintRun /\ plan' = plan
      BY <2>1 DEF Start, Reexecute, MintRun
    <3>2. node'[c] = MintedEntry(c, attemptSeq)
      BY <3>1 DEF MintRun
    <3>3. c \in EntryNodes(plan) /\ node'[c].inputs = {}
      BY <3>2 DEF MintedEntry, PendingEntry, DispatchedEntry
    <3> QED
      BY <3>1, <3>3 DEF MintRun
  <2>2. ASSUME NEW n \in plan.nodes, Settle(n)
        PROVE  InputsAccepted'
    <3>0. PICK o \in Outcomes : \E armed, basis : SettleEffect(n, o, armed, basis)
      BY <2>2, SettleShape
    <3>1. PICK armed, basis : SettleEffect(n, o, armed, basis)
      BY <3>0
    <3>2. plan' = plan /\ run' = run /\ accepted \subseteq accepted'
      BY <3>1 DEF SettleEffect, Accept
    <3>3. ASSUME NEW c \in plan.nodes, node'[c].status # "pending"
          PROVE  Supplied(c, node'[c].inputs, node'[c].seq, accepted')
      <4>1. CASE c \in armed
        BY <3>1, <4>1, ArmedIsSupplied
      <4>2. CASE c \notin armed
        <5> DEFINE st == Settled(n, o)
        <5>1. node'[c] = st[c] \/ node'[c] = RefusedEntry(st[c])
          BY <3>1, <4>2 DEF SettleEffect
        <5>2. /\ st[c].inputs = node[c].inputs /\ st[c].seq = node[c].seq
              /\ node[c].status = "pending" => st[c].status = "pending"
          BY <3>1 DEF Settled, SettledEntry, TypeOK, SettleEffect, CanSettle
        <5> HIDE DEF st
        <5>3. /\ node'[c].inputs = node[c].inputs /\ node'[c].seq = node[c].seq
              /\ node[c].status # "pending"
          BY <5>1, <5>2, <3>3 DEF RefusedEntry
        <5>4. Supplied(c, node[c].inputs, node[c].seq, accepted)
          BY <5>3 DEF InputsAccepted, Supplied
        <5> QED
          BY <5>3, <5>4, <3>2 DEF Supplied
      <4> QED
        BY <4>1, <4>2
    <3> QED
      BY <3>2, <3>3 DEF InputsAccepted, Supplied
  <2>3. CASE Finished \/ UNCHANGED vars
    BY <2>3 DEF Finished, vars, InputsAccepted
  <2> QED
    BY <2>1, <2>2, <2>3 DEF Next
<1> QED
  BY <1>1, <1>2, TypeCorrect, OnceInvariant, PTL DEF Spec

-----------------------------------------------------------------------------
(* The verdict on the run.                                                 *)

Limits == {"none", "loop-exhausted", "progress-stalled"}

\* A plan whose entry nodes have all been attempted has no pending node
\* without a feeder, so when nothing is in flight a pending node is stranded.
LEMMA VerdictIsTrue ==
  ASSUME NEW st \in [plan.nodes -> EntryType], NEW limit \in Limits, Attempted(st),
         \A m \in EntryNodes(plan) : st[m].status # "pending"
  PROVE  LET verdict == StopOf(st, limit)
             reported == PhaseOf(st, verdict)
         IN  /\ reported = "executing" => InFlight(st) # {} /\ verdict = "none"
             /\ reported = "complete" <=> verdict = "none" /\ SettledEverywhere(st)
             /\ reported = "stopped" <=> verdict # "none"
             /\ reported \notin {"ready", "unstarted"}
             /\ verdict = "unreachable-pending-node" =>
                  InFlight(st) = {} /\ ~ SettledEverywhere(st)
<1> DEFINE verdict == StopOf(st, limit)
           reported == PhaseOf(st, verdict)
<1>1. \A m \in plan.nodes : st[m].status \in Statuses
  BY DEF EntryType
<1>2. Attempted(st) /\ (SettledEverywhere(st) => InFlight(st) = {})
  BY DEF SettledEverywhere, InFlight
<1>3. ASSUME InFlight(st) = {}, ~ SettledEverywhere(st)
      PROVE  UnsatisfiablePending(st) # {}
  <2>1. PICK m \in plan.nodes : st[m].status = "pending"
    BY <1>1, <1>3 DEF SettledEverywhere, InFlight, Statuses
  <2>2. StillReachable(st) = {}
    BY <1>3 DEF StillReachable
  <2>3. Feeders(plan, m) # {}
    BY <2>1, NoFeederIsEntry
  <2> QED
    BY <2>1, <2>2, <2>3 DEF UnsatisfiablePending
<1>4. verdict = "none" /\ InFlight(st) = {} => SettledEverywhere(st)
  BY <1>2, <1>3 DEF StopOf
<1>5. verdict = "unreachable-pending-node" => InFlight(st) = {} /\ ~ SettledEverywhere(st)
  BY DEF StopOf, Limits
<1> HIDE DEF verdict
<1>6. CASE verdict # "none"
  <2>1. reported = "stopped"
    BY <1>6 DEF PhaseOf
  <2> HIDE DEF reported
  <2> QED
    BY <2>1, <1>5, <1>6 DEF verdict, reported
<1>7. CASE verdict = "none" /\ InFlight(st) # {}
  <2>1. reported = "executing"
    BY <1>7 DEF PhaseOf
  <2> HIDE DEF reported
  <2> QED
    BY <2>1, <1>2, <1>7 DEF verdict, reported
<1>8. CASE verdict = "none" /\ InFlight(st) = {}
  <2>1. reported = "complete"
    BY <1>4, <1>8 DEF PhaseOf
  <2> HIDE DEF reported
  <2> QED
    BY <2>1, <1>4, <1>8 DEF verdict, reported
<1> QED
  BY <1>6, <1>7, <1>8

\* Every settlement ends by concluding, under one of the three limits.
LEMMA SettleConcludes ==
  ASSUME NEW n, Settle(n)
  PROVE  \E limit \in Limits : Conclude(limit)
<1>1. \E limit \in {"none", "loop-exhausted", "progress-stalled"} : Conclude(limit)
  BY DEF Settle, SettleTerminal, SettleExhausted, SettleStalled, SettleRouted
<1> QED
  BY <1>1 DEF Limits

\* No settlement makes a node pending again.
LEMMA NeverPendingAgain ==
  ASSUME TypeOK, NEW n, NEW o \in Outcomes, NEW armed, NEW basis,
         SettleEffect(n, o, armed, basis)
  PROVE  /\ n \in plan.nodes /\ node'[n].status # "pending"
         /\ \A c \in plan.nodes : node[c].status # "pending" => node'[c].status # "pending"
<1> DEFINE st == Settled(n, o)
<1>1. n \in plan.nodes /\ node[n].status = "dispatched"
  BY DEF SettleEffect, CanSettle
<1>2. ASSUME NEW c \in plan.nodes, node[c].status # "pending"
      PROVE  node'[c].status # "pending"
  <2>1. CASE c \in armed
    <3>1. node'[c] = DispatchedEntry(attemptSeq + Rank(armed, c), ResolvedInputs(st, c, basis))
      BY <2>1 DEF SettleEffect
    <3> HIDE DEF st
    <3> QED
      BY <3>1 DEF DispatchedEntry
  <2>2. CASE c \notin armed
    <3>1. node'[c] = st[c] \/ node'[c] = RefusedEntry(st[c])
      BY <2>2 DEF SettleEffect
    <3>2. st[c].status # "pending"
      BY <1>2, <1>1 DEF Settled, SettledEntry, TypeOK
    <3> HIDE DEF st
    <3> QED
      BY <3>1, <3>2 DEF RefusedEntry
  <2> QED
    BY <2>1, <2>2
<1> QED
  BY <1>1, <1>2

(* What makes PhaseIsTrue inductive: the plan was compiled, and a started  *)
(* run has attempted its entry nodes.                                      *)
PhaseInv ==
    /\ PhaseIsTrue
    /\ plan \in Plans
    /\ phase = "unstarted" <=> run = 0
    /\ run = 0 => \A n \in plan.nodes : node[n].status = "pending"
    /\ run > 0 => \A n \in EntryNodes(plan) : node[n].status # "pending"

LEMMA PhaseInvariant == Spec => []PhaseInv
<1>1. Init => PhaseInv
  BY DEF Init, PhaseInv, PhaseIsTrue, PendingEntry
<1>2. TypeOK /\ TypeOK' /\ PhaseInv /\ [Next]_vars => PhaseInv'
  <2> SUFFICES ASSUME TypeOK, TypeOK', PhaseInv, [Next]_vars
               PROVE  PhaseInv'
    OBVIOUS
  <2>1. CASE Start \/ Reexecute
    <3> DEFINE E == EntryNodes(plan)
    <3>1. MintRun /\ plan' = plan /\ run' = run + 1 /\ phase' = "executing" /\ stop' = "none"
      BY <2>1 DEF Start, Reexecute, MintRun
    <3>2. IsPlan(plan, Outcomes) /\ Compiles(plan)
      BY PlansAssumption DEF PhaseInv
    <3>3. E # {} /\ E \subseteq plan.nodes
      BY <3>2, CompiledPlanStarts, PlanParts
    <3>4. \A c \in E : node'[c].status = "dispatched"
      <4> TAKE c \in E
      <4>1. node'[c] = MintedEntry(c, attemptSeq)
        BY <3>1, <3>3 DEF MintRun
      <4> QED
        BY <4>1 DEF MintedEntry, DispatchedEntry
    <3>5. InFlight(node)' # {} /\ ~ SettledEverywhere(node)'
      BY <3>1, <3>3, <3>4 DEF InFlight, SettledEverywhere
    <3>6. PhaseIsTrue'
      BY <3>1, <3>5 DEF PhaseIsTrue
    <3>7. \A c \in EntryNodes(plan)' : node'[c].status # "pending"
      BY <3>1, <3>4
    <3>8. run' > 0
      BY <3>1 DEF TypeOK
    <3> QED
      BY <3>1, <3>6, <3>7, <3>8 DEF PhaseInv
  <2>2. ASSUME NEW n \in plan.nodes, Settle(n)
        PROVE  PhaseInv'
    <3>0. PICK o \in Outcomes : \E armed, basis : SettleEffect(n, o, armed, basis)
      BY <2>2, SettleShape
    <3>1. PICK armed, basis : SettleEffect(n, o, armed, basis)
      BY <3>0
    <3>2. PICK limit \in Limits : Conclude(limit)
      BY <2>2, SettleConcludes
    <3>3. plan' = plan /\ run' = run /\ node[n].status = "dispatched"
      BY <3>1 DEF SettleEffect, CanSettle
    <3>4. run > 0
      BY <3>3 DEF PhaseInv, TypeOK
    <3>5. \A c \in EntryNodes(plan) : node'[c].status # "pending"
      BY <3>1, <3>4, NeverPendingAgain, PlanParts DEF PhaseInv, TypeOK
    <3>6. Attempted(node')
      BY <3>1, NeverPendingAgain DEF Attempted
    <3>7. node' \in [plan.nodes -> EntryType]
      BY <3>3 DEF TypeOK
    <3>8. /\ phase' = "executing" => InFlight(node') # {} /\ stop' = "none"
          /\ phase' = "complete" <=> stop' = "none" /\ SettledEverywhere(node')
          /\ phase' = "stopped" <=> stop' # "none"
          /\ phase' \notin {"ready", "unstarted"}
          /\ stop' = "unreachable-pending-node" =>
               InFlight(node') = {} /\ ~ SettledEverywhere(node')
      BY <3>2, <3>5, <3>6, <3>7, VerdictIsTrue DEF Conclude
    <3>9. InFlight(node') = InFlight(node)' /\ SettledEverywhere(node') = SettledEverywhere(node)'
      BY <3>3 DEF InFlight, SettledEverywhere
    <3>10. PhaseIsTrue'
      BY <3>3, <3>4, <3>8, <3>9 DEF PhaseIsTrue
    <3> QED
      BY <3>3, <3>4, <3>5, <3>8, <3>10 DEF PhaseInv
  <2>3. CASE Finished \/ UNCHANGED vars
    BY <2>3 DEF Finished, vars, PhaseInv, PhaseIsTrue, InFlight, SettledEverywhere
  <2> QED
    BY <2>1, <2>2, <2>3 DEF Next
<1> QED
  BY <1>1, <1>2, TypeCorrect, PTL DEF Spec

\* The phase a run reports is true of its nodes: a run that says it is
\* executing has work in flight, and one that cannot move has stopped (finalize).
THEOREM PhaseReportsTheRun == Spec => []PhaseIsTrue
<1>1. PhaseInv => PhaseIsTrue
  BY DEF PhaseInv
<1> QED
  BY <1>1, PhaseInvariant, PTL

-----------------------------------------------------------------------------
(* Loop limits.                                                            *)

(* LimitsHold of one group under its cap and its policy, with t rounds     *)
(* counted and the progress record e, while the run goes on.  A baseline   *)
(* is only ever written by a counted round.                                *)
Within(cap, policy, t, e) ==
    /\ t <= cap
    /\ e.unchanged = 0 \/ e.unchanged < t
    /\ e.baseline # NoBaseline => t >= 1
    /\ e.unchanged > 0 => e.unchanged < policy

LimitsInv ==
    /\ LimitsHold
    /\ \A g \in GroupIds(plan) : progress[g].baseline # NoBaseline => traversals[g] >= 1

\* One more counted round, measured or not.
LEMMA RoundWithin ==
  ASSUME NEW cap \in Nat, NEW policy \in Nat, NEW t \in Nat, NEW e \in ProgressType,
         NEW observed \in Tokens \cup {Unknown}, Within(cap, policy, t, e), t + 1 <= cap
  PROVE  LET f == CompareProgress(e, observed)
         IN  /\ f.unchanged \in Nat
             /\ f.unchanged = 0 \/ f.unchanged < t + 1
             /\ f.unchanged < policy => Within(cap, policy, t + 1, f)
<1> DEFINE f == CompareProgress(e, observed)
<1>1. e.unchanged \in Nat /\ e.baseline \in Tokens \cup {NoBaseline}
  BY DEF ProgressType
<1>2. CASE observed = Unknown
  <2>1. f.unchanged = 0 /\ f.baseline = e.baseline
    BY <1>2 DEF CompareProgress, ProgressEntry
  <2> HIDE DEF f
  <2>2. /\ f.unchanged \in Nat
        /\ f.unchanged = 0 \/ f.unchanged < t + 1
        /\ Within(cap, policy, t + 1, f)
    BY <2>1 DEF Within
  <2> QED
    BY <2>2 DEF f
<1>3. CASE observed # Unknown /\ e.baseline = observed
  <2>1. f.unchanged = e.unchanged + 1 /\ f.baseline = observed
    BY <1>3 DEF CompareProgress, ProgressEntry
  <2>2. t >= 1
    BY <1>3, TokensAssumption DEF Within
  <2>3. e.unchanged = 0 \/ e.unchanged < t
    BY DEF Within
  <2> HIDE DEF f
  <2>4. /\ f.unchanged \in Nat
        /\ f.unchanged < t + 1
        /\ f.unchanged < policy => Within(cap, policy, t + 1, f)
    BY <1>1, <2>1, <2>2, <2>3 DEF Within
  <2> QED
    BY <2>4 DEF f
<1>4. CASE observed # Unknown /\ e.baseline # observed
  <2>1. f.unchanged = 0
    BY <1>4 DEF CompareProgress, ProgressEntry
  <2> HIDE DEF f
  <2>2. /\ f.unchanged \in Nat
        /\ f.unchanged = 0 \/ f.unchanged < t + 1
        /\ Within(cap, policy, t + 1, f)
    BY <2>1 DEF Within
  <2> QED
    BY <2>2 DEF f
<1> QED
  BY <1>2, <1>3, <1>4

LEMMA GroupBounds ==
  ASSUME NEW p, IsPlan(p, Outcomes), NEW g \in GroupIds(p)
  PROVE  p.groups[g].maxTraversals \in Nat /\ p.groups[g].maxUnchanged \in Nat
<1>1. p.groups[g] \in GroupType(p, Outcomes)
  BY PlanParts
<1> QED
  BY <1>1 DEF GroupType

\* The counters of one group after a settlement that counts the groups G.
LEMMA GroupAdvances ==
  ASSUME TypeOK, LimitsInv, stop = "none", NEW G, G \subseteq GroupIds(plan), ~ Exhausted(G),
         NEW observed \in [Measurable(G) -> Tokens \cup {Unknown}], NEW g \in GroupIds(plan)
  PROVE  LET t == Counted(G)[g]
             e == Measured(G, observed)[g]
         IN  /\ t <= plan.groups[g].maxTraversals
             /\ e.unchanged = 0 \/ e.unchanged < t
             /\ e.baseline # NoBaseline => t >= 1
             /\ \/ e.unchanged > 0 => e.unchanged < plan.groups[g].maxUnchanged
                \/ Stalled(G, Measured(G, observed))
<1> DEFINE cap == plan.groups[g].maxTraversals
           policy == plan.groups[g].maxUnchanged
           e == Measured(G, observed)[g]
           t == Counted(G)[g]
<1>1. cap \in Nat /\ policy \in Nat
  BY GroupBounds DEF TypeOK
<1>2. traversals[g] \in Nat /\ progress[g] \in ProgressType
  BY DEF TypeOK
<1>3. Within(cap, policy, traversals[g], progress[g])
  BY DEF LimitsInv, LimitsHold, Within
<1>4. t = IF g \in G THEN traversals[g] + 1 ELSE traversals[g]
  BY DEF Counted
<1>5. e = IF g \in Measurable(G) THEN CompareProgress(progress[g], observed[g]) ELSE progress[g]
  BY DEF Measured
<1>6. Measurable(G) \subseteq G
  BY DEF Measurable
<1>7. g \in G => traversals[g] + 1 <= cap
  BY <1>1, <1>2 DEF Exhausted
<1>8. e.unchanged < policy \/ g \notin Measurable(G) \/ Stalled(G, Measured(G, observed))
  <2>1. ASSUME g \in Measurable(G) PROVE e.unchanged \in Nat
    BY <1>1, <1>2, <1>3, <1>5, <1>6, <1>7, <2>1, RoundWithin
  <2> QED
    BY <2>1, <1>1 DEF Stalled
<1>9. CASE g \in Measurable(G)
  <2>1. observed[g] \in Tokens \cup {Unknown} /\ g \in G
    BY <1>6, <1>9
  <2>2. e = CompareProgress(progress[g], observed[g]) /\ t = traversals[g] + 1
    BY <1>4, <1>5, <1>9, <2>1
  <2> HIDE DEF cap, policy, e, t
  <2>3. /\ e.unchanged = 0 \/ e.unchanged < traversals[g] + 1
        /\ e.unchanged < policy => Within(cap, policy, traversals[g] + 1, e)
    BY <1>1, <1>2, <1>3, <1>7, <2>1, <2>2, RoundWithin
  <2>4. /\ t <= cap
        /\ e.unchanged = 0 \/ e.unchanged < t
        /\ t >= 1
        /\ (e.unchanged > 0 => e.unchanged < policy) \/ Stalled(G, Measured(G, observed))
    BY <1>2, <1>7, <1>8, <1>9, <2>1, <2>2, <2>3
  <2> QED
    BY <2>4 DEF cap, policy, e, t
<1>10. CASE g \notin Measurable(G)
  <2>1. e = progress[g] /\ e.unchanged \in Nat
    BY <1>2, <1>5, <1>10 DEF ProgressType
  <2>2. t >= traversals[g] /\ t <= cap /\ t \in Nat
    BY <1>2, <1>3, <1>4, <1>7 DEF Within
  <2> HIDE DEF cap, policy, e, t
  <2>3. /\ e.unchanged = 0 \/ e.unchanged < t
        /\ e.baseline # NoBaseline => t >= 1
        /\ e.unchanged > 0 => e.unchanged < policy
    BY <1>2, <1>3, <2>1, <2>2 DEF Within
  <2> QED
    BY <2>2, <2>3 DEF cap, policy, e, t
<1> QED
  BY <1>9, <1>10

\* No loop group passes its cap, a stop for an exhausted loop is earned, and a
\* spent progress policy ends the run (advanceLoops, measureProgress).
THEOREM LoopLimitsHold == Spec => []LimitsHold
<1>1. Init => LimitsInv
  <2> SUFFICES ASSUME Init PROVE LimitsInv
    OBVIOUS
  <2>1. \A g \in GroupIds(plan) : plan.groups[g].maxTraversals \in Nat
    BY PlansAssumption, GroupBounds DEF Init
  <2>2. \A g \in GroupIds(plan) : /\ traversals[g] = 0
                                  /\ progress[g].unchanged = 0
                                  /\ progress[g].baseline = NoBaseline
    BY DEF Init, ProgressEntry
  <2> QED
    BY <2>1, <2>2 DEF Init, LimitsInv, LimitsHold
<1>2. TypeOK /\ TypeOK' /\ LimitsInv /\ [Next]_vars => LimitsInv'
  <2> SUFFICES ASSUME TypeOK, TypeOK', LimitsInv, [Next]_vars
               PROVE  LimitsInv'
    OBVIOUS
  <2>1. \A g \in GroupIds(plan) : /\ traversals[g] \in Nat
                                  /\ progress[g].unchanged \in Nat
                                  /\ plan.groups[g].maxTraversals \in Nat
    BY GroupBounds DEF TypeOK, ProgressType
  <2>2. CASE Start \/ Reexecute
    <3>1. MintRun /\ plan' = plan /\ stop' = "none"
      BY <2>2 DEF Start, Reexecute, MintRun
    <3>2. \A g \in GroupIds(plan) : /\ traversals'[g] = 0
                                    /\ progress'[g].unchanged = 0
                                    /\ progress'[g].baseline = NoBaseline
      BY <3>1 DEF MintRun, ProgressEntry
    <3> QED
      BY <2>1, <3>1, <3>2 DEF LimitsInv, LimitsHold
  <2>3. ASSUME NEW n \in plan.nodes, NEW o \in Outcomes, SettleTerminal(n, o)
        PROVE  LimitsInv'
    <3>1. /\ plan' = plan /\ traversals' = traversals /\ progress' = progress
          /\ stop = "none" /\ stop' # "loop-exhausted"
      BY <2>3 DEF SettleTerminal, CanSettle, Conclude, StopOf
    <3> QED
      BY <3>1 DEF LimitsInv, LimitsHold
  <2>4. ASSUME NEW n \in plan.nodes, NEW o \in Outcomes, SettleExhausted(n, o)
        PROVE  LimitsInv'
    <3>1. /\ plan' = plan /\ traversals' = traversals /\ progress' = progress
          /\ stop = "none"
      BY <2>4 DEF SettleExhausted, CanSettle
    <3>2. PICK g \in GroupIds(plan) : traversals[g] + 1 > plan.groups[g].maxTraversals
      BY <2>4 DEF SettleExhausted, Exhausted, ContinuationGroups
    <3>3. traversals[g] = plan.groups[g].maxTraversals
      BY <2>1, <3>2 DEF LimitsInv, LimitsHold
    <3> QED
      BY <3>1, <3>3 DEF LimitsInv, LimitsHold
  <2>5. ASSUME NEW n \in plan.nodes, NEW o \in Outcomes,
               NEW observed \in [Measurable(ContinuationGroups(plan, n, o)) -> Tokens \cup {Unknown}],
               SettleStalled(n, o, observed) \/ SettleRouted(n, o, observed)
        PROVE  LimitsInv'
    <3> DEFINE G == ContinuationGroups(plan, n, o)
    <3>1. /\ plan' = plan /\ stop = "none" /\ ~ Exhausted(G)
          /\ traversals' = Counted(G) /\ progress' = Measured(G, observed)
          /\ stop' # "loop-exhausted"
          /\ Stalled(G, Measured(G, observed)) => stop' = "progress-stalled"
      BY <2>5 DEF SettleStalled, SettleRouted, CanSettle, Conclude, StopOf
    <3>2. G \subseteq GroupIds(plan)
      BY DEF ContinuationGroups
    <3> HIDE DEF G
    <3>3. ASSUME NEW g \in GroupIds(plan)
          PROVE  /\ traversals'[g] <= plan.groups[g].maxTraversals
                 /\ progress'[g].unchanged = 0 \/ progress'[g].unchanged < traversals'[g]
                 /\ progress'[g].baseline # NoBaseline => traversals'[g] >= 1
                 /\ \/ progress'[g].unchanged > 0 =>
                         progress'[g].unchanged < plan.groups[g].maxUnchanged
                    \/ stop' = "progress-stalled"
      BY <2>5, <3>1, <3>2, GroupAdvances DEF G
    <3> QED
      BY <3>1, <3>3 DEF LimitsInv, LimitsHold
  <2>6. CASE Finished \/ UNCHANGED vars
    BY <2>6 DEF Finished, vars, LimitsInv, LimitsHold, GroupIds
  <2> QED
    BY <2>2, <2>3, <2>4, <2>5, <2>6 DEF Next, Settle
<1>3. LimitsInv => LimitsHold
  BY DEF LimitsInv
<1> QED
  BY <1>1, <1>2, <1>3, TypeCorrect, PTL DEF Spec

-----------------------------------------------------------------------------
(* What an advance arms: the fixpoints its loops end in.                   *)

\* More arrivals satisfy a join that fewer satisfy; only those of its feeders count.
LEMMA JoinMonotone ==
  ASSUME IsPlan(plan, Outcomes), NEW n \in plan.nodes,
         NEW A, NEW B \in SUBSET plan.nodes, A \cap Feeders(plan, n) \subseteq B,
         JoinSatisfiedBy(plan, n, A)
  PROVE  JoinSatisfiedBy(plan, n, B)
<1> DEFINE F == Feeders(plan, n)
           needed == Needed(plan.join[n], F)
<1>1. plan.join[n] \in [kind : JoinKinds, quorum : Nat] /\ IsFiniteSet(F)
  <2>1. plan.join[n] \in [kind : JoinKinds, quorum : Nat] /\ F \subseteq plan.nodes
    BY DEF IsPlan, Feeders, EdgeType
  <2> QED
    BY <2>1, PlanParts, FS_Subset
<1>2. /\ IsFiniteSet(A \cap F) /\ IsFiniteSet(B \cap F) /\ A \cap F \in SUBSET (B \cap F)
  BY <1>1, FS_Subset
<1>3. /\ Cardinality(A \cap F) \in Nat /\ Cardinality(B \cap F) \in Nat
      /\ Cardinality(A \cap F) <= Cardinality(B \cap F)
  BY <1>2, FS_Subset, FS_CardinalityType
<1>4. needed \in Nat
  BY <1>1, FS_CardinalityType DEF Needed
<1> HIDE DEF F, needed
<1>5. F # {} => Cardinality(A \cap F) >= needed
  BY DEF JoinSatisfiedBy, F, needed
<1>6. F # {} => Cardinality(B \cap F) >= needed
  BY <1>3, <1>4, <1>5
<1> QED
  BY <1>6 DEF JoinSatisfiedBy, F, needed

\* The arm set: the join of every member holds without the members that are put back in
\* flight, and the join of a candidate that was dropped failed without some candidates.
LEMMA ArmSetFacts ==
  ASSUME IsFiniteSet(plan.nodes), NEW st, NEW armable \in SUBSET plan.nodes, NEW blocked
  PROVE  LET routed == ResolveArmSet(st, armable, blocked) IN
         /\ routed \subseteq armable
         /\ \A c \in routed : JoinSatisfiedBy(plan, c, Arrived(st, c, routed \ blocked))
         /\ \A c \in armable \ routed : \E out \in SUBSET armable :
               ~ JoinSatisfiedBy(plan, c, Arrived(st, c, out))
<1> DEFINE g == [X \in SUBSET armable |-> Unarmed(st, armable, blocked, X)]
           n == Cardinality(armable) + 1
           notArmed == Iterated(g, {}, n)
           Failing == {X \in SUBSET armable : \A c \in X : \E out \in SUBSET armable :
                         ~ JoinSatisfiedBy(plan, c, Arrived(st, c, out))}
<1>1. IsFiniteSet(armable) /\ Cardinality(armable) \in Nat
  BY FS_Subset, FS_CardinalityType
<1>2. \A X \in SUBSET armable : X \subseteq g[X] /\ g[X] \subseteq armable
  BY DEF Unarmed
<1>3. n \in Nat /\ Cardinality(armable) <= n
  BY <1>1
<1>4. \A X \in Failing : g[X] \in Failing
  <2> SUFFICES ASSUME NEW X \in Failing, NEW c \in g[X]
               PROVE  \E out \in SUBSET armable : ~ JoinSatisfiedBy(plan, c, Arrived(st, c, out))
    BY <1>2
  <2>1. CASE c \in X
    BY <2>1
  <2>2. CASE c \notin X
    <3>1. ~ JoinSatisfiedBy(plan, c, Arrived(st, c, (armable \ X) \ blocked))
      BY <2>2 DEF Unarmed
    <3> QED
      BY <3>1
  <2> QED
    BY <2>1, <2>2
<1>5. {} \in Failing
  OBVIOUS
<1>6. \A X \in SUBSET armable : g[X] = Unarmed(st, armable, blocked, X)
  OBVIOUS
<1>7. ResolveArmSet(st, armable, blocked) = armable \ notArmed
  BY DEF ResolveArmSet
<1> HIDE DEF g, n, Failing
<1>8. notArmed \subseteq armable /\ g[notArmed] = notArmed
  BY <1>1, <1>2, <1>3, IteratedGrows
<1>9. notArmed \in Failing
  BY <1>3, <1>4, <1>5, IteratedIn
<1> HIDE DEF notArmed
<1>10. \A c \in armable \ notArmed :
         JoinSatisfiedBy(plan, c, Arrived(st, c, (armable \ notArmed) \ blocked))
  BY <1>6, <1>8 DEF Unarmed
<1>11. \A c \in notArmed : \E out \in SUBSET armable :
         ~ JoinSatisfiedBy(plan, c, Arrived(st, c, out))
  BY <1>9 DEF Failing
<1> QED
  BY <1>7, <1>8, <1>10, <1>11

\* A producer's accepted outcome resolves the input that asks for it: what is missing can
\* only be an input that must be settled.
LEMMA TriggeredResolves ==
  ASSUME NEW r, NEW st, NEW acc, NEW top, Once(plan.nodes, r, st, acc, top),
         NEW c, NEW i, i.from \in plan.nodes, NEW out, i.when = "triggered", Applies(st, c, i, out)
  PROVE  Resolves(st, acc, i, out)
<1>1. i.from \notin out /\ st[i.from].status = "settled" /\ st[i.from].outcome = i.outcome
  BY DEF Applies
<1> DEFINE b == [node |-> i.from, seq |-> st[i.from].seq, outcome |-> st[i.from].outcome, run |-> r]
<1>2. b \in acc /\ b.seq = st[i.from].seq /\ b.outcome = i.outcome
  BY <1>1 DEF Once
<1> HIDE DEF b
<1> QED
  BY <1>1, <1>2 DEF Resolves

\* The more nodes are in flight, the fewer inputs resolve.
LEMMA ResolvedFalls ==
  ASSUME IsPlan(plan, Outcomes), NEW r, NEW st, NEW acc, NEW top,
         Once(plan.nodes, r, st, acc, top), NEW routed \in SUBSET plan.nodes,
         NEW X, NEW Y, X \subseteq Y
  PROVE  Resolved(st, acc, routed, Y) \subseteq Resolved(st, acc, routed, X)
<1> SUFFICES ASSUME NEW c \in routed, InputsResolve(st, acc, c, Y),
                    NEW i \in plan.inputs[c], Applies(st, c, i, X)
             PROVE  Resolves(st, acc, i, X)
  BY DEF Resolved, InputsResolve
<1>1. i \in InputType(plan, Outcomes)
  BY PlanParts
<1>2. i.from \in plan.nodes /\ i.when \in {"settled", "triggered"}
  BY <1>1 DEF InputType
<1>3. CASE i.when = "settled"
  <2>1. Resolves(st, acc, i, Y)
    BY <1>3 DEF InputsResolve, Applies
  <2> QED
    BY <2>1 DEF Resolves
<1>4. CASE i.when = "triggered"
  BY <1>2, <1>4, TriggeredResolves
<1> QED
  BY <1>2, <1>3, <1>4

\* What is dispatched is among what the inputs were resolved against.
LEMMA BasisFacts ==
  ASSUME IsPlan(plan, Outcomes), NEW r, NEW st, NEW acc, NEW top,
         Once(plan.nodes, r, st, acc, top), NEW routed \in SUBSET plan.nodes
  PROVE  LET basis == Basis(st, acc, routed) IN
         basis \subseteq routed /\ Resolved(st, acc, routed, basis) \subseteq basis
<1> DEFINE g == [X \in SUBSET routed |-> Swung(st, acc, routed, X)]
           n == Cardinality(routed) + 1
           basis == Basis(st, acc, routed)
           armed == Resolved(st, acc, routed, basis)
<1>1. IsFiniteSet(routed) /\ Cardinality(routed) \in Nat
  BY PlanParts, FS_Subset, FS_CardinalityType
<1>2. n \in Nat /\ Cardinality(routed) <= n
  BY <1>1
<1>3. \A X \in SUBSET routed : g[X] = Swung(st, acc, routed, X) /\ g[X] \subseteq routed
  BY DEF Swung, Resolved
<1>4. ASSUME NEW X \in SUBSET routed, NEW Y \in SUBSET routed, X \subseteq Y
      PROVE  g[X] \subseteq g[Y]
  <2>1. Resolved(st, acc, routed, Y) \subseteq Resolved(st, acc, routed, X)
    BY <1>4, ResolvedFalls
  <2>2. Swung(st, acc, routed, X) \subseteq Swung(st, acc, routed, Y)
    BY <2>1, ResolvedFalls DEF Swung
  <2> QED
    BY <1>3, <2>2
<1>5. basis = Iterated(g, routed, n)
  BY DEF Basis
<1> HIDE DEF g, n, basis
<1>6. /\ basis \subseteq routed /\ g[basis] = basis
      /\ \A X \in SUBSET routed : X \subseteq g[X] => X \subseteq basis
  BY <1>1, <1>2, <1>3, <1>4, <1>5, IteratedShrinks
<1>7. armed \in SUBSET routed
  BY DEF Resolved
<1>8. Resolved(st, acc, routed, armed) = basis
  BY <1>3, <1>6 DEF Swung
<1>9. g[armed] = armed
  BY <1>3, <1>7, <1>8 DEF Swung
<1> QED
  BY <1>6, <1>7, <1>9 DEF basis

\* A candidate that is refused for its inputs is known as blocked, and only a candidate that
\* has an input which must be settled is.
LEMMA BlockedFacts ==
  ASSUME IsPlan(plan, Outcomes), NEW r, NEW st, NEW acc, NEW top,
         Once(plan.nodes, r, st, acc, top), NEW armable \in SUBSET plan.nodes
  PROVE  LET blocked == BlockedCandidates(st, acc, armable)
             routed == ResolveArmSet(st, armable, blocked)
         IN  /\ routed \ Resolved(st, acc, routed, Basis(st, acc, routed)) \subseteq blocked
             /\ \A c \in blocked : \E i \in plan.inputs[c] : i.when = "settled"
<1> DEFINE g == [X \in SUBSET armable |-> Refused(st, acc, armable, X)]
           n == Cardinality(armable) + 1
           blocked == BlockedCandidates(st, acc, armable)
           Waiting == {X \in SUBSET armable : \A c \in X : \E i \in plan.inputs[c] : i.when = "settled"}
<1>1. IsFiniteSet(armable) /\ Cardinality(armable) \in Nat
  BY PlanParts, FS_Subset, FS_CardinalityType
<1>2. n \in Nat /\ Cardinality(armable) <= n
  BY <1>1
<1>3. \A X \in SUBSET armable : g[X] = Refused(st, acc, armable, X)
  OBVIOUS
<1>4. \A X \in SUBSET armable : X \subseteq g[X] /\ g[X] \subseteq armable
  BY <1>3, ArmSetWithin DEF Refused
<1>5. ASSUME NEW X \in Waiting
      PROVE  g[X] \in Waiting
  <2> SUFFICES ASSUME NEW c \in g[X], c \notin X
               PROVE  \E i \in plan.inputs[c] : i.when = "settled"
    BY <1>4
  <2> DEFINE routed == ResolveArmSet(st, armable, X)
             basis == Basis(st, acc, routed)
  <2>1. c \in routed /\ ~ InputsResolve(st, acc, c, basis)
    BY <1>3 DEF Refused, Resolved
  <2>2. c \in plan.nodes
    BY <2>1, ArmSetWithin
  <2> HIDE DEF routed, basis
  <2>3. PICK i \in plan.inputs[c] : Applies(st, c, i, basis) /\ ~ Resolves(st, acc, i, basis)
    BY <2>1 DEF InputsResolve
  <2>4. i \in InputType(plan, Outcomes)
    BY <2>2, PlanParts
  <2>5. i.from \in plan.nodes /\ i.when \in {"settled", "triggered"}
    BY <2>4 DEF InputType
  <2>6. i.when # "triggered"
    BY <2>3, <2>5, TriggeredResolves
  <2> QED
    BY <2>5, <2>6
<1>6. {} \in Waiting
  OBVIOUS
<1>7. blocked = Iterated(g, {}, n)
  BY DEF BlockedCandidates
<1> HIDE DEF g, n, Waiting, blocked
<1>8. blocked \in SUBSET armable /\ g[blocked] = blocked
  BY <1>1, <1>2, <1>4, <1>7, IteratedGrows
<1>9. blocked \in Waiting
  BY <1>2, <1>5, <1>6, <1>7, IteratedIn
<1>10. Refused(st, acc, armable, blocked) = blocked
  BY <1>3, <1>8
<1> QED
  BY <1>9, <1>10 DEF Refused, Waiting, blocked

-----------------------------------------------------------------------------
(* What a dispatch stands on.                                              *)

(* An outcome of n that is accepted and routes nothing: it ends the node's *)
(* branch, or it stops the run.                                            *)
Quiet(n, o) ==
    /\ SettleEffect(n, o, {}, {})
    /\ \/ Terminal(plan, n, o)
       \/ stop' \in {"loop-exhausted", "progress-stalled"}

(* An outcome of n that is accepted and routed. *)
Routing(n, o) ==
    /\ SettleEffect(n, o, ArmedSet(n, o), BasisSet(n, o))
    /\ ReentryAllowed(Settled(n, o), n, Targets(plan, n, o))

LEMMA SettleForms ==
  ASSUME TypeOK, NEW n, Settle(n)
  PROVE  \E o \in Outcomes : Quiet(n, o) \/ Routing(n, o)
<1>1. PICK o \in Outcomes :
        \/ SettleTerminal(n, o)
        \/ SettleExhausted(n, o)
        \/ \E observed : SettleStalled(n, o, observed)
        \/ \E observed : SettleRouted(n, o, observed)
  BY DEF Settle
<1>2. CASE SettleTerminal(n, o)
  BY <1>2, QuietShape DEF SettleTerminal, Quiet
<1>3. CASE SettleExhausted(n, o)
  BY <1>3, QuietShape DEF SettleExhausted, Conclude, StopOf, Quiet
<1>4. CASE \E observed : SettleStalled(n, o, observed)
  BY <1>4, QuietShape DEF SettleStalled, Conclude, StopOf, Quiet
<1>5. CASE \E observed : SettleRouted(n, o, observed)
  BY <1>5, AdvanceShape DEF SettleRouted, Routing
<1> QED
  BY <1>1, <1>2, <1>3, <1>4, <1>5

\* The sets of an advance, and what its loops leave true of them.
LEMMA AdvanceFacts ==
  ASSUME TypeOK, OnceInv, NEW n, NEW o \in Outcomes, CanSettle(n, o)
  PROVE  /\ Armable(n, o) \subseteq Targets(plan, n, o)
         /\ Targets(plan, n, o) \subseteq plan.nodes
         /\ RoutedSet(n, o) \subseteq Armable(n, o)
         /\ BasisSet(n, o) \subseteq RoutedSet(n, o)
         /\ ArmedSet(n, o) \subseteq BasisSet(n, o)
         /\ RoutedSet(n, o) \ ArmedSet(n, o) \subseteq BlockedSet(n, o)
         /\ \A c \in BlockedSet(n, o) : \E i \in plan.inputs[c] : i.when = "settled"
         /\ \A c \in RoutedSet(n, o) :
               JoinSatisfiedBy(plan, c, Arrived(Settled(n, o), c, RoutedSet(n, o) \ BlockedSet(n, o)))
         /\ \A c \in Armable(n, o) \ RoutedSet(n, o) : \E out \in SUBSET Armable(n, o) :
               ~ JoinSatisfiedBy(plan, c, Arrived(Settled(n, o), c, out))
<1>1. IsPlan(plan, Outcomes) /\ IsFiniteSet(plan.nodes)
  BY PlanParts DEF TypeOK
<1>2. Targets(plan, n, o) \subseteq plan.nodes
  BY <1>1 DEF IsPlan, EdgeType, Targets
<1>3. Armable(n, o) \in SUBSET plan.nodes /\ Armable(n, o) \subseteq Targets(plan, n, o)
  BY <1>2 DEF Armable
<1>4. Once(plan.nodes, run, Settled(n, o), Accept(n, o), attemptSeq)
  BY OnceSettled
<1>5. /\ RoutedSet(n, o) \subseteq Armable(n, o)
      /\ \A c \in RoutedSet(n, o) :
            JoinSatisfiedBy(plan, c, Arrived(Settled(n, o), c, RoutedSet(n, o) \ BlockedSet(n, o)))
      /\ \A c \in Armable(n, o) \ RoutedSet(n, o) : \E out \in SUBSET Armable(n, o) :
            ~ JoinSatisfiedBy(plan, c, Arrived(Settled(n, o), c, out))
  BY <1>1, <1>3, ArmSetFacts, Zenon DEF RoutedSet
<1>6. RoutedSet(n, o) \in SUBSET plan.nodes
  BY <1>3, <1>5
<1>7. BasisSet(n, o) \subseteq RoutedSet(n, o) /\ ArmedSet(n, o) \subseteq BasisSet(n, o)
  BY <1>1, <1>4, <1>6, BasisFacts, Zenon DEF BasisSet, ArmedSet
<1>8. /\ RoutedSet(n, o) \ ArmedSet(n, o) \subseteq BlockedSet(n, o)
      /\ \A c \in BlockedSet(n, o) : \E i \in plan.inputs[c] : i.when = "settled"
  BY <1>1, <1>3, <1>4, BlockedFacts, Zenon DEF BlockedSet, RoutedSet, BasisSet, ArmedSet
<1> QED
  BY <1>2, <1>3, <1>5, <1>7, <1>8

\* An entry the advance does not arm keeps its number and its status, and what it says is
\* what it said before, except that the settling attempt is settled.
LEMMA UnarmedKeeps ==
  ASSUME TypeOK, NEW n, NEW o, NEW armed, NEW basis, SettleEffect(n, o, armed, basis),
         NEW c \in plan.nodes \ armed
  PROVE  /\ node'[c].status = Settled(n, o)[c].status
         /\ node'[c].seq = Settled(n, o)[c].seq
         /\ node'[c].outcome = Settled(n, o)[c].outcome
<1>1. node'[c] = Settled(n, o)[c] \/ node'[c] = RefusedEntry(Settled(n, o)[c])
  BY DEF SettleEffect
<1> QED
  BY <1>1 DEF RefusedEntry

\* The entries an advance reads: the settling attempt is settled, the others are as they were.
LEMMA SettledReads ==
  ASSUME TypeOK, NEW n \in plan.nodes, NEW o
  PROVE  /\ Settled(n, o)[n].status = "settled"
         /\ Settled(n, o)[n].seq = node[n].seq
         /\ Settled(n, o)[n].outcome = o
         /\ \A m \in plan.nodes \ {n} : Settled(n, o)[m] = node[m]
BY DEF Settled, SettledEntry, TypeOK

\* A settlement dispatches nothing else than what it arms.
LEMMA NewIsArmed ==
  ASSUME TypeOK, NEW n, NEW o, NEW armed, NEW basis, SettleEffect(n, o, armed, basis),
         NEW c \in plan.nodes, NewAttempt(c)
  PROVE  c \in armed
<1> SUFFICES ASSUME c \notin armed
             PROVE  FALSE
  OBVIOUS
<1>1. n \in plan.nodes
  BY DEF SettleEffect, CanSettle
<1>2. node'[c].status = Settled(n, o)[c].status /\ node'[c].seq = Settled(n, o)[c].seq
  BY UnarmedKeeps
<1>3. c # n
  BY <1>1, <1>2, SettledReads DEF NewAttempt
<1> QED
  BY <1>1, <1>2, <1>3, SettledReads DEF NewAttempt

\* What the advance arms is bound to entries that the same advance leaves as they are.
LEMMA ArmedOnStanding ==
  ASSUME TypeOK, OnceInv, NEW n, NEW o \in Outcomes, Routing(n, o),
         NEW c \in ArmedSet(n, o), NEW i \in node'[c].inputs
  PROVE  node'[i.from].status = "settled" /\ node'[i.from].seq = i.seq
<1> DEFINE st == Settled(n, o)
           acc == Accept(n, o)
           armed == ArmedSet(n, o)
           basis == BasisSet(n, o)
<1>1. SettleEffect(n, o, armed, basis) /\ CanSettle(n, o)
  BY DEF Routing, SettleEffect
<1>2. armed \subseteq basis
  BY <1>1, AdvanceFacts
<1>3. c \in plan.nodes /\ InputsResolve(st, acc, c, basis)
  BY <1>1 DEF SettleEffect
<1>4. i \in ResolvedInputs(st, c, basis)
  <2>1. node'[c] = DispatchedEntry(attemptSeq + Rank(armed, c), ResolvedInputs(st, c, basis))
    BY <1>1 DEF SettleEffect
  <2> HIDE DEF st, armed, basis
  <2> QED
    BY <2>1 DEF DispatchedEntry, armed
<1> HIDE DEF st, acc, armed, basis
<1>5. PICK d \in plan.inputs[c] :
        /\ Applies(st, c, d, basis)
        /\ i = [from |-> d.from, outcome |-> d.outcome, seq |-> st[d.from].seq]
  BY <1>4 DEF ResolvedInputs
<1>6. i.from = d.from /\ i.seq = st[d.from].seq
  BY <1>5
<1>7. d.from \notin basis /\ st[d.from].status = "settled"
  BY <1>3, <1>5 DEF InputsResolve, Resolves
<1>8. d.from \in plan.nodes
  BY <1>3, PlanParts DEF TypeOK, InputType
<1>9. node'[d.from].status = st[d.from].status /\ node'[d.from].seq = st[d.from].seq
  BY <1>1, <1>2, <1>7, <1>8, UnarmedKeeps DEF st
<1> QED
  BY <1>6, <1>7, <1>9

\* No attempt is ever bound to a result that the same advance supersedes: the candidates
\* whose inputs resolve are among those the inputs were resolved against, because the loop of
\* advanceOutcomeGraph ends in a fixpoint.
THEOREM InputsStand == Spec => InputsNotSuperseded
<1>1. ASSUME TypeOK, OnceInv, [Next]_vars
      PROVE  [\A n \in plan.nodes : NewAttempt(n) =>
                \A i \in node'[n].inputs :
                    node'[i.from].status = "settled" /\ node'[i.from].seq = i.seq]_vars
  <2> SUFFICES ASSUME NEW c \in plan.nodes, NewAttempt(c), NEW i \in node'[c].inputs,
                      ~ UNCHANGED vars
               PROVE  node'[i.from].status = "settled" /\ node'[i.from].seq = i.seq
    OBVIOUS
  <2>1. CASE Start \/ Reexecute
    <3>1. node'[c] = MintedEntry(c, attemptSeq)
      BY <2>1 DEF Start, Reexecute, MintRun
    <3>2. node'[c].inputs = {}
      BY <3>1 DEF MintedEntry, DispatchedEntry, PendingEntry
    <3> QED
      BY <3>2
  <2>2. ASSUME NEW n \in plan.nodes, Settle(n)
        PROVE  node'[i.from].status = "settled" /\ node'[i.from].seq = i.seq
    <3>1. PICK o \in Outcomes : Quiet(n, o) \/ Routing(n, o)
      BY <1>1, <2>2, SettleForms
    <3>2. CASE Quiet(n, o)
      BY <1>1, <3>2, NewIsArmed DEF Quiet
    <3>3. CASE Routing(n, o)
      <4>1. c \in ArmedSet(n, o)
        BY <1>1, <3>3, NewIsArmed DEF Routing
      <4> QED
        BY <1>1, <3>3, <4>1, ArmedOnStanding
    <3> QED
      BY <3>1, <3>2, <3>3
  <2>3. CASE Finished
    BY <2>3 DEF Finished
  <2> QED
    BY <1>1, <2>1, <2>2, <2>3 DEF Next
<1> QED
  BY <1>1, TypeCorrect, OnceInvariant, PTL DEF Spec, InputsNotSuperseded

-----------------------------------------------------------------------------
(* What a round decides.                                                   *)

MustSettle(p, c) == \E i \in p.inputs[c] : i.when = "settled"

(* No outcome re-enters a member of a loop whose inputs can be refused     *)
(* together with a node that this member feeds: a join is then never       *)
(* decided on an arrival that the same advance takes back.                 *)
RoundsDecided(p) ==
    \A n \in p.nodes : \A o \in p.outcomes[n] : \A b, c \in Targets(p, n, o) :
        SharesLoop(p, n, b) /\ MustSettle(p, b) => b \notin Feeders(p, c)

\* What still stands after the advance satisfies the join of what it armed.
LEMMA ArmedOnArrivals ==
  ASSUME TypeOK, OnceInv, RoundsDecided(plan), NEW n, NEW o \in Outcomes, Routing(n, o),
         NEW c \in ArmedSet(n, o)
  PROVE  JoinSatisfiedBy(plan, c, Arrived(node', c, {}))
<1> DEFINE st == Settled(n, o)
           armed == ArmedSet(n, o)
           routed == RoutedSet(n, o)
           blocked == BlockedSet(n, o)
           before == Arrived(st, c, routed \ blocked)
           after == Arrived(node', c, {})
<1>1. SettleEffect(n, o, armed, BasisSet(n, o)) /\ CanSettle(n, o)
  BY DEF Routing, SettleEffect
<1>2. /\ armed \subseteq routed /\ routed \subseteq Targets(plan, n, o) /\ routed \subseteq plan.nodes
      /\ JoinSatisfiedBy(plan, c, before)
      /\ \A b \in blocked : MustSettle(plan, b)
  BY <1>1, AdvanceFacts DEF MustSettle
<1>3. \A b \in Targets(plan, n, o) : st[b].status = "settled" => SharesLoop(plan, n, b)
  BY DEF Routing, ReentryAllowed
<1>4. n \in plan.nodes /\ o \in plan.outcomes[n]
  BY <1>1 DEF CanSettle
<1>5. \A m \in plan.nodes \ armed : /\ node'[m].status = st[m].status
                                    /\ node'[m].outcome = st[m].outcome
  BY <1>1, UnarmedKeeps
<1> HIDE DEF st, armed, routed, blocked
<1>6. ASSUME NEW f \in before \cap Feeders(plan, c)
      PROVE  f \in after
  <2>1. PICK e \in plan.edges : e.from = f /\ e.to = c /\ st[f].status = "settled"
                                 /\ st[f].outcome = e.outcome
    BY DEF Arrived
  <2>2. f \in plan.nodes /\ f \notin routed \ blocked
    BY DEF Arrived
  <2>3. f \notin armed
    <3> SUFFICES ASSUME f \in armed
                 PROVE  FALSE
      OBVIOUS
    <3>1. f \in Targets(plan, n, o) /\ MustSettle(plan, f)
      BY <1>2, <2>2
    <3>2. SharesLoop(plan, n, f)
      BY <1>3, <2>1, <3>1
    <3>3. c \in Targets(plan, n, o)
      BY <1>2 DEF armed
    <3> QED
      BY <1>4, <3>1, <3>2, <3>3 DEF RoundsDecided
  <2> QED
    BY <1>5, <2>1, <2>2, <2>3 DEF Arrived
<1>7. after \in SUBSET plan.nodes
  BY DEF Arrived
<1>8. c \in plan.nodes
  BY <1>2 DEF armed
<1> HIDE DEF before, after
<1>9. before \cap Feeders(plan, c) \subseteq after
  BY <1>6
<1> QED
  BY <1>2, <1>7, <1>8, <1>9, JoinMonotone DEF TypeOK, after

\* An entry node waits for nobody.
LEMMA EntryJoinHolds ==
  ASSUME NEW c \in EntryNodes(plan), NEW A
  PROVE  JoinSatisfiedBy(plan, c, A)
<1>1. Feeders(plan, c) = {}
  BY DEF EntryNodes, Feeders
<1> QED
  BY <1>1 DEF JoinSatisfiedBy

\* The plan is one of the plans the graph may be declared with.
LEMMA PlanDeclared == Spec => [](plan \in Plans)
<1>1. Init => plan \in Plans
  BY DEF Init
<1>2. TypeOK /\ plan \in Plans /\ [Next]_vars => (plan \in Plans)'
  <2> SUFFICES ASSUME TypeOK, plan \in Plans, [Next]_vars
               PROVE  plan' = plan
    OBVIOUS
  <2>1. ASSUME NEW n, Settle(n)
        PROVE  plan' = plan
    BY <2>1, SettleShape DEF SettleEffect
  <2>2. CASE Start \/ Reexecute
    BY <2>2 DEF Start, Reexecute, MintRun
  <2> QED
    BY <2>1, <2>2 DEF Next, Finished, vars
<1> QED
  BY <1>1, <1>2, TypeCorrect, PTL DEF Spec

\* A join is decided per round on every plan whose rounds are: a node is dispatched on
\* arrivals that the same advance leaves settled (resolveArmSet).
THEOREM JoinsStand ==
  (\A p \in Plans : RoundsDecided(p)) => (Spec => JoinsNotSuperseded)
<1> SUFFICES ASSUME \A p \in Plans : RoundsDecided(p)
             PROVE  Spec => JoinsNotSuperseded
  OBVIOUS
<1>1. ASSUME TypeOK, OnceInv, plan \in Plans, [Next]_vars
      PROVE  [\A n \in plan.nodes : NewAttempt(n) =>
                JoinSatisfiedBy(plan, n, Arrived(node', n, {}))]_vars
  <2> SUFFICES ASSUME NEW c \in plan.nodes, NewAttempt(c), ~ UNCHANGED vars
               PROVE  JoinSatisfiedBy(plan, c, Arrived(node', c, {}))
    OBVIOUS
  <2>1. CASE Start \/ Reexecute
    <3>1. node'[c] = MintedEntry(c, attemptSeq)
      BY <2>1 DEF Start, Reexecute, MintRun
    <3>2. c \in EntryNodes(plan)
      BY <3>1 DEF MintedEntry, DispatchedEntry, PendingEntry, NewAttempt
    <3> QED
      BY <3>2, EntryJoinHolds
  <2>2. ASSUME NEW n \in plan.nodes, Settle(n)
        PROVE  JoinSatisfiedBy(plan, c, Arrived(node', c, {}))
    <3>1. PICK o \in Outcomes : Quiet(n, o) \/ Routing(n, o)
      BY <1>1, <2>2, SettleForms
    <3>2. CASE Quiet(n, o)
      BY <1>1, <3>2, NewIsArmed DEF Quiet
    <3>3. CASE Routing(n, o)
      <4>1. c \in ArmedSet(n, o)
        BY <1>1, <3>3, NewIsArmed DEF Routing
      <4> QED
        BY <1>1, <3>3, <4>1, ArmedOnArrivals
    <3> QED
      BY <3>1, <3>2, <3>3
  <2>3. CASE Finished
    BY <2>3 DEF Finished
  <2> QED
    BY <1>1, <2>1, <2>2, <2>3 DEF Next
<1> QED
  BY <1>1, TypeCorrect, OnceInvariant, PlanDeclared, PTL DEF Spec, JoinsNotSuperseded

-----------------------------------------------------------------------------
(* What a stop leaves behind.                                              *)

WaitsFor(p, c, b) ==
    \/ b \in Feeders(p, c)
    \/ \E i \in p.inputs[c] : i.when = "settled" /\ i.from = b

(* No outcome of n re-enters a member of a loop together with another node *)
(* that waits for this member.                                             *)
RoundsApart(p) ==
    \A n \in p.nodes : \A o \in p.outcomes[n] :
        \A b \in Targets(p, n, o) : \A c \in Targets(p, n, o) \ {n, b} :
            SharesLoop(p, n, b) => ~ WaitsFor(p, c, b)

(* An input that must be settled is routed: the outcome it asks for leads  *)
(* to its consumer.                                                        *)
InputsRouted(p) ==
    \A c \in p.nodes : \A i \in p.inputs[c] :
        i.when = "settled" => c \in Targets(p, i.from, i.outcome)

(* A pending node still waits, for an arrival or for an input. *)
StillWaits(c) ==
    \/ ~ JoinSatisfiedBy(plan, c, Arrived(node, c, {}))
    \/ ~ InputsResolve(node, accepted, c, {})

(* What makes StrandedCannotRun inductive: a pending node could not have   *)
(* been dispatched at any earlier moment of the run either.                *)
StrandedInv ==
    phase # "unstarted" /\ stop \in {"none", "unreachable-pending-node"} =>
        \A c \in plan.nodes : node[c].status = "pending" => StillWaits(c)

\* A dispatch leaves no arrival: what arrives after an advance had settled before.
LEMMA ArrivalsStand ==
  ASSUME TypeOK, NEW n, NEW o, NEW armed, NEW basis, SettleEffect(n, o, armed, basis)
  PROVE  /\ \A c \in armed : node'[c].status = "dispatched"
         /\ \A f \in plan.nodes : node'[f].status = "settled" =>
               /\ f \notin armed
               /\ Settled(n, o)[f].status = "settled"
               /\ Settled(n, o)[f].seq = node'[f].seq
               /\ Settled(n, o)[f].outcome = node'[f].outcome
<1>1. ASSUME NEW c \in armed
      PROVE  node'[c].status = "dispatched"
  <2>1. node'[c] = DispatchedEntry(attemptSeq + Rank(armed, c), ResolvedInputs(Settled(n, o), c, basis))
    BY DEF SettleEffect
  <2> QED
    BY <2>1 DEF DispatchedEntry
<1>2. ASSUME NEW f \in plan.nodes, node'[f].status = "settled"
      PROVE  /\ f \notin armed
             /\ Settled(n, o)[f].status = "settled"
             /\ Settled(n, o)[f].seq = node'[f].seq
             /\ Settled(n, o)[f].outcome = node'[f].outcome
  <2>1. f \notin armed
    BY <1>1, <1>2
  <2> QED
    BY <1>2, <2>1, UnarmedKeeps
<1> QED
  BY <1>1, <1>2

\* An input that resolves after an advance resolved in it, on the entry it read.
LEMMA ResolvedStands ==
  ASSUME TypeOK, OnceInv, NEW n, NEW o \in Outcomes, NEW armed, NEW basis,
         SettleEffect(n, o, armed, basis), NEW c \in plan.nodes, NEW i \in plan.inputs[c],
         Resolves(node', accepted', i, {})
  PROVE  /\ i.from \in plan.nodes \ armed
         /\ Settled(n, o)[i.from].status = "settled"
         /\ Settled(n, o)[i.from].outcome = i.outcome
         /\ Resolves(Settled(n, o), Accept(n, o), i, {})
<1> DEFINE st == Settled(n, o)
           acc == Accept(n, o)
           f == i.from
           b == [node |-> f, seq |-> st[f].seq, outcome |-> st[f].outcome, run |-> run]
<1>1. f \in plan.nodes
  BY PlanParts DEF TypeOK, InputType
<1>2. /\ node'[f].status = "settled"
      /\ \E a \in accepted' : a.seq = node'[f].seq /\ a.outcome = i.outcome
  BY DEF Resolves
<1>3. f \notin armed /\ st[f].status = "settled" /\ st[f].seq = node'[f].seq
  BY <1>1, <1>2, ArrivalsStand
<1>4. accepted' = acc
  BY DEF SettleEffect
<1>5. Once(plan.nodes, run, st, acc, attemptSeq)
  BY OnceSettled DEF SettleEffect
<1> HIDE DEF st, acc, f
<1>6. PICK a \in acc : a.seq = st[f].seq /\ a.outcome = i.outcome
  BY <1>2, <1>3, <1>4
<1>7. b \in acc
  BY <1>1, <1>3, <1>5 DEF Once
<1>8. a = b
  <2>1. b.seq = a.seq
    BY <1>6
  <2> QED
    BY <1>5, <1>7, <2>1 DEF Once
<1>9. st[f].outcome = i.outcome
  BY <1>6, <1>8
<1>10. Resolves(st, acc, i, {})
  BY <1>3, <1>6 DEF Resolves, f
<1> QED
  BY <1>1, <1>3, <1>9, <1>10 DEF st, acc, f

\* A pending node that is not routed to gains neither an arrival nor an input.
LEMMA OthersStillWait ==
  ASSUME TypeOK, TypeOK', OnceInv, InputsRouted(plan), NEW n, NEW o \in Outcomes, NEW armed, NEW basis,
         SettleEffect(n, o, armed, basis), NEW c \in plan.nodes,
         c \notin Targets(plan, n, o), StillWaits(c)
  PROVE  StillWaits(c)'
<1> DEFINE st == Settled(n, o)
           after == Arrived(node', c, {})
           before == Arrived(node, c, {})
<1>1. n \in plan.nodes /\ plan' = plan /\ IsPlan(plan, Outcomes)
  BY DEF SettleEffect, CanSettle, TypeOK
<1>2. /\ st[n].status = "settled" /\ st[n].outcome = o
      /\ \A m \in plan.nodes \ {n} : st[m] = node[m]
  BY <1>1, SettledReads
<1>3. \A f \in plan.nodes : node'[f].status = "settled" =>
         st[f].status = "settled" /\ st[f].outcome = node'[f].outcome
  BY ArrivalsStand
<1> HIDE DEF st
<1>4. ASSUME NEW f \in after
      PROVE  f \in before
  <2>1. PICK e \in plan.edges : e.from = f /\ e.to = c /\ node'[f].status = "settled"
                                 /\ node'[f].outcome = e.outcome
    BY DEF Arrived
  <2>2. f \in plan.nodes
    BY DEF Arrived
  <2>3. st[f].status = "settled" /\ st[f].outcome = e.outcome
    BY <1>3, <2>1, <2>2
  <2>4. f # n
    BY <1>2, <2>1, <2>3 DEF Targets
  <2> QED
    BY <1>2, <2>1, <2>2, <2>3, <2>4 DEF Arrived
<1>5. after \subseteq before /\ before \in SUBSET plan.nodes
  BY <1>4 DEF Arrived
<1>6. CASE ~ JoinSatisfiedBy(plan, c, before)
  <2> HIDE DEF after, before
  <2>1. ~ JoinSatisfiedBy(plan, c, after)
    BY <1>1, <1>5, <1>6, JoinMonotone
  <2> QED
    BY <1>1, <2>1 DEF StillWaits, Arrived, after
<1>7. CASE ~ InputsResolve(node, accepted, c, {})
  <2>1. PICK i \in plan.inputs[c] : Applies(node, c, i, {}) /\ ~ Resolves(node, accepted, i, {})
    BY <1>7 DEF InputsResolve
  <2>2. i.from \in plan.nodes /\ i.when \in {"settled", "triggered"}
    BY <1>1, PlanParts DEF InputType
  <2>3. i.when = "settled"
    BY <2>1, <2>2, TriggeredResolves DEF OnceInv
  <2>4. ~ Resolves(node', accepted', i, {})
    <3> SUFFICES ASSUME Resolves(node', accepted', i, {})
                 PROVE  FALSE
      OBVIOUS
    <3>1. /\ st[i.from].status = "settled" /\ st[i.from].outcome = i.outcome
          /\ Resolves(st, Accept(n, o), i, {})
      BY ResolvedStands DEF st
    <3>2. i.from # n
      BY <1>2, <2>3, <3>1 DEF InputsRouted
    <3>3. st[i.from] = node[i.from]
      BY <1>2, <2>2, <3>2
    <3>4. PICK a \in Accept(n, o) : a.seq = node[i.from].seq /\ a.outcome = i.outcome
      BY <3>1, <3>3 DEF Resolves
    <3>5. node[i.from].seq # node[n].seq
      BY <1>1, <2>2, <3>1, <3>2, <3>3 DEF OnceInv, Once
    <3>6. a \in accepted
      BY <3>4, <3>5 DEF Accept
    <3> QED
      BY <2>1, <3>1, <3>3, <3>4, <3>6 DEF Resolves
  <2> QED
    BY <1>1, <2>3, <2>4 DEF StillWaits, InputsResolve, Applies, Resolves
<1> QED
  BY <1>6, <1>7 DEF StillWaits

\* A pending node that is routed to and not dispatched misses an arrival or an input, and
\* what it misses does not come back when the advance is written.
LEMMA RoutedStillWait ==
  ASSUME TypeOK, TypeOK', OnceInv, RoundsApart(plan), NEW n, NEW o \in Outcomes, Routing(n, o),
         NEW c \in Targets(plan, n, o), node'[c].status = "pending"
  PROVE  StillWaits(c)'
<1> DEFINE st == Settled(n, o)
           acc == Accept(n, o)
           armed == ArmedSet(n, o)
           routed == RoutedSet(n, o)
           basis == BasisSet(n, o)
           armable == Armable(n, o)
           after == Arrived(node', c, {})
<1>1. /\ SettleEffect(n, o, armed, basis) /\ CanSettle(n, o)
      /\ n \in plan.nodes /\ o \in plan.outcomes[n]
      /\ plan' = plan /\ IsPlan(plan, Outcomes)
  BY DEF Routing, SettleEffect, CanSettle, TypeOK
<1>2. /\ armable \subseteq Targets(plan, n, o) /\ Targets(plan, n, o) \subseteq plan.nodes
      /\ routed \subseteq armable /\ basis \subseteq routed
      /\ \A b \in armable \ routed : \E out \in SUBSET armable :
            ~ JoinSatisfiedBy(plan, b, Arrived(st, b, out))
  BY <1>1, AdvanceFacts
<1>3. c \in plan.nodes /\ c \notin armed
  BY <1>1, <1>2, ArrivalsStand
<1>4. st[c].status = "pending" /\ c # n
  <2>1. st[c].status = "pending"
    BY <1>1, <1>3, UnarmedKeeps
  <2> QED
    BY <1>1, <2>1, SettledReads
<1>5. c \in armable
  BY <1>4 DEF Armable
<1>6. \A b \in Targets(plan, n, o) : st[b].status = "settled" => ~ WaitsFor(plan, c, b)
  BY <1>1, <1>4 DEF Routing, ReentryAllowed, RoundsApart
<1>7. \A f \in plan.nodes : node'[f].status = "settled" =>
         st[f].status = "settled" /\ st[f].outcome = node'[f].outcome
  BY <1>1, ArrivalsStand
<1>8. Once(plan.nodes, run, st, acc, attemptSeq)
  BY <1>1, OnceSettled
<1>9. routed \ armed = {b \in routed : ~ InputsResolve(st, acc, b, basis)}
  BY DEF ArmedSet, Resolved
<1> HIDE DEF st, acc, armed, routed, basis, armable
<1>10. CASE c \notin routed
  <2>1. PICK out \in SUBSET armable : ~ JoinSatisfiedBy(plan, c, Arrived(st, c, out))
    BY <1>2, <1>5, <1>10
  <2>2. ASSUME NEW f \in after \cap Feeders(plan, c)
        PROVE  f \in Arrived(st, c, out)
    <3>1. PICK e \in plan.edges : e.from = f /\ e.to = c /\ node'[f].status = "settled"
                                   /\ node'[f].outcome = e.outcome
      BY DEF Arrived
    <3>2. f \in plan.nodes
      BY DEF Arrived
    <3>3. st[f].status = "settled" /\ st[f].outcome = e.outcome
      BY <1>7, <3>1, <3>2
    <3>4. f \notin out
      BY <1>2, <1>6, <3>3 DEF WaitsFor
    <3> QED
      BY <3>1, <3>2, <3>3, <3>4 DEF Arrived
  <2>3. Arrived(st, c, out) \in SUBSET plan.nodes
    BY DEF Arrived
  <2> HIDE DEF after
  <2>4. ~ JoinSatisfiedBy(plan, c, after)
    BY <1>1, <1>3, <2>1, <2>2, <2>3, JoinMonotone
  <2> QED
    BY <1>1, <2>4 DEF StillWaits, Arrived, after
<1>11. CASE c \in routed
  <2>1. PICK i \in plan.inputs[c] : Applies(st, c, i, basis) /\ ~ Resolves(st, acc, i, basis)
    BY <1>3, <1>9, <1>11 DEF InputsResolve
  <2>2. i.from \in plan.nodes /\ i.when \in {"settled", "triggered"}
    BY <1>1, <1>3, PlanParts DEF InputType
  <2>3. i.when = "settled"
    BY <1>8, <2>1, <2>2, TriggeredResolves
  <2>4. ~ Resolves(node', accepted', i, {})
    <3> SUFFICES ASSUME Resolves(node', accepted', i, {})
                 PROVE  FALSE
      OBVIOUS
    <3>1. st[i.from].status = "settled" /\ Resolves(st, acc, i, {})
      BY <1>1, <1>3, ResolvedStands DEF st, acc
    <3>2. i.from \in basis
      BY <2>1, <3>1 DEF Resolves
    <3>3. WaitsFor(plan, c, i.from)
      BY <2>3 DEF WaitsFor
    <3> QED
      BY <1>2, <1>6, <3>1, <3>2, <3>3
  <2> QED
    BY <1>1, <2>3, <2>4 DEF StillWaits, InputsResolve, Applies, Resolves
<1> QED
  BY <1>10, <1>11

\* A minted run: whatever is not an entry node waits for a feeder, and none has settled.
LEMMA MintedWait ==
  ASSUME TypeOK, TypeOK', MintRun, NEW c \in plan.nodes, node'[c].status = "pending"
  PROVE  StillWaits(c)'
<1> DEFINE F == Feeders(plan, c)
<1>1. IsPlan(plan, Outcomes) /\ plan' = plan
  BY DEF TypeOK, MintRun
<1>2. \A m \in plan.nodes : node'[m] = MintedEntry(m, attemptSeq)
  BY DEF MintRun
<1>3. ASSUME NEW m \in plan.nodes
      PROVE  /\ node'[m].status # "settled"
             /\ m \in EntryNodes(plan) => node'[m].status = "dispatched"
  <2>1. /\ m \in EntryNodes(plan) =>
             node'[m] = DispatchedEntry(attemptSeq + Rank(EntryNodes(plan), m), {})
        /\ m \notin EntryNodes(plan) => node'[m] = PendingEntry
    BY <1>2 DEF MintedEntry
  <2> QED
    BY <2>1 DEF DispatchedEntry, PendingEntry
<1>4. c \notin EntryNodes(plan)
  BY <1>3
<1>5. F # {}
  BY <1>4, NoFeederIsEntry
<1>6. IsFiniteSet(F) /\ plan.join[c] \in [kind : JoinKinds, quorum : Nat]
  <2>1. F \subseteq plan.nodes /\ plan.join[c] \in [kind : JoinKinds, quorum : Nat]
    BY <1>1 DEF IsPlan, Feeders, EdgeType
  <2> QED
    BY <1>1, <2>1, PlanParts, FS_Subset
<1>7. Needed(plan.join[c], F) \in Nat /\ Needed(plan.join[c], F) >= 1
  <2>1. Cardinality(F) \in Nat /\ Cardinality(F) # 0
    BY <1>5, <1>6, FS_CardinalityType, FS_EmptySet
  <2> HIDE DEF F
  <2> QED
    BY <1>6, <2>1 DEF Needed
<1>8. Arrived(node', c, {}) = {}
  BY <1>3 DEF Arrived
<1>9. Cardinality({} \cap F) = 0
  BY FS_EmptySet
<1>10. ~ JoinSatisfiedBy(plan, c, Arrived(node', c, {}))
  BY <1>5, <1>7, <1>8, <1>9 DEF JoinSatisfiedBy
<1> QED
  BY <1>1, <1>10 DEF StillWaits, Arrived

\* A stopped run strands only nodes it could not have dispatched, on every plan whose rounds
\* are apart and whose required inputs are routed: a node that is passed over lacks an
\* arrival or an input, and gains one only from a step that considers it again
\* (unsatisfiablePending, resolveArmSet).
THEOREM StrandedNodesWait ==
  (\A p \in Plans : RoundsApart(p) /\ InputsRouted(p)) => (Spec => []StrandedCannotRun)
<1> SUFFICES ASSUME \A p \in Plans : RoundsApart(p) /\ InputsRouted(p)
             PROVE  Spec => []StrandedCannotRun
  OBVIOUS
<1>1. Init => StrandedInv
  BY DEF Init, StrandedInv
<1>2. ASSUME TypeOK, TypeOK', OnceInv, PhaseInv, plan \in Plans, StrandedInv, [Next]_vars
      PROVE  StrandedInv'
  <2>1. CASE Start \/ Reexecute
    <3>1. MintRun /\ plan' = plan
      BY <2>1 DEF Start, Reexecute, MintRun
    <3> QED
      BY <1>2, <3>1, MintedWait DEF StrandedInv
  <2>2. ASSUME NEW n \in plan.nodes, Settle(n)
        PROVE  StrandedInv'
    <3>1. PICK o \in Outcomes : Quiet(n, o) \/ Routing(n, o)
      BY <1>2, <2>2, SettleForms
    <3>2. \E armed, basis : SettleEffect(n, o, armed, basis)
      BY <3>1 DEF Quiet, Routing
    <3>3. PICK armed, basis : SettleEffect(n, o, armed, basis)
      BY <3>2
    <3>4. /\ plan' = plan /\ stop = "none" /\ node[n].status = "dispatched"
      BY <3>3 DEF SettleEffect, CanSettle
    <3>5. phase # "unstarted"
      BY <1>2, <3>4 DEF PhaseInv
    <3> SUFFICES ASSUME stop' \in {"none", "unreachable-pending-node"},
                        NEW c \in plan.nodes, node'[c].status = "pending"
                 PROVE  StillWaits(c)'
      BY <3>4 DEF StrandedInv
    <3>6. node[c].status = "pending"
      BY <1>2, <3>3, NeverPendingAgain, ArrivalsStand
    <3>7. StillWaits(c)
      BY <3>4, <3>5, <3>6, <1>2 DEF StrandedInv
    <3>8. CASE c \notin Targets(plan, n, o)
      BY <1>2, <3>3, <3>7, <3>8, OthersStillWait
    <3>9. CASE c \in Targets(plan, n, o)
      <4>1. ~ Terminal(plan, n, o)
        BY <3>9 DEF Terminal, Targets
      <4>2. Routing(n, o)
        BY <3>1, <4>1 DEF Quiet
      <4> QED
        BY <1>2, <3>9, <4>2, RoutedStillWait
    <3> QED
      BY <3>8, <3>9
  <2>3. CASE Finished \/ UNCHANGED vars
    BY <1>2, <2>3 DEF Finished, vars, StrandedInv, StillWaits, Arrived, InputsResolve, Applies, Resolves
  <2> QED
    BY <1>2, <2>1, <2>2, <2>3 DEF Next
<1>3. StrandedInv /\ PhaseInv => StrandedCannotRun
  BY DEF StrandedInv, StrandedCannotRun, StillWaits, PhaseInv, PhaseIsTrue
<1> QED
  BY <1>1, <1>2, <1>3, TypeCorrect, OnceInvariant, PhaseInvariant, PlanDeclared, PTL DEF Spec
=============================================================================
