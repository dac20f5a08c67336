------------------------ MODULE ClosureStoreTheorems ------------------------
(***************************************************************************)
(* What attaching and detaching an edge does to reachability and to        *)
(* distances, and what the closure statements do to the stored table, for  *)
(* every set of edges: the extend and the shrink each take the exact       *)
(* closure of the edges before to the exact closure of the edges after,    *)
(* and, for finitely many edges, shortest distances to shortest distances. *)
(*                                                                         *)
(* Reachability needs no induction: Reachable(E, a) is a least closed set, *)
(* so a set that holds a and is closed under E holds all that a reaches.   *)
(* Distances do: Least, AllNumbers and AlongDistance are induction stated  *)
(* for a set, which the provers can instantiate.                           *)
(***************************************************************************)
EXTENDS ClosureStore, FiniteSetTheorems, TLAPS

\* A start reaches itself.
LEMMA ReachableRefl ==
  ASSUME NEW E, NEW a
  PROVE  a \in Reachable(E, a)
BY DEF Reachable, ClosedSets

\* Nothing outside the edges' endpoints and the start is reachable.
LEMMA ReachableBound ==
  ASSUME NEW E, NEW a
  PROVE  Reachable(E, a) \subseteq Endpoints(E) \cup {a}
BY DEF Reachable

\* The least closed set: whatever holds a and is closed holds what a reaches.
LEMMA ReachableLeast ==
  ASSUME NEW E, NEW a, NEW S, a \in S, ClosedUnder(E, S)
  PROVE  Reachable(E, a) \subseteq S
<1> DEFINE T == S \cap (Endpoints(E) \cup {a})
<1>1. T \in ClosedSets(E, a)
  BY DEF ClosedSets, ClosedUnder, Endpoints
<1> QED BY <1>1 DEF Reachable

\* An edge leads from a reachable unit to a reachable unit.
LEMMA ReachableClosed ==
  ASSUME NEW E, NEW a
  PROVE  ClosedUnder(E, Reachable(E, a))
<1> SUFFICES ASSUME NEW e \in E, e[1] \in Reachable(E, a)
             PROVE  e[2] \in Reachable(E, a)
  BY DEF ClosedUnder
<1>1. e[2] \in Endpoints(E)
  BY DEF Endpoints
<1>2. \A S \in ClosedSets(E, a) : e[2] \in S
  BY DEF Reachable, ClosedSets, ClosedUnder
<1> QED BY <1>1, <1>2 DEF Reachable

\* What a reachable unit reaches is reachable.
LEMMA ReachableTrans ==
  ASSUME NEW E, NEW a, NEW b \in Reachable(E, a)
  PROVE  Reachable(E, b) \subseteq Reachable(E, a)
BY ReachableClosed, ReachableLeast

\* More edges reach no less.
LEMMA ReachableMono ==
  ASSUME NEW E, NEW F, E \subseteq F, NEW a
  PROVE  Reachable(E, a) \subseteq Reachable(F, a)
<1>1. ClosedUnder(E, Reachable(F, a))
  BY ReachableClosed DEF ClosedUnder
<1> QED BY <1>1, ReachableRefl, ReachableLeast

\* Reaching anything else takes a first edge out of the start.
LEMMA ReachableFirst ==
  ASSUME NEW E, NEW a, NEW n \in Reachable(E, a), n # a
  PROVE  \E e \in E : e[1] = a /\ n \in Reachable(E, e[2])
<1> DEFINE S == {a} \cup UNION {Reachable(E, e[2]) : e \in {x \in E : x[1] = a}}
<1>1. ClosedUnder(E, S)
  <2> SUFFICES ASSUME NEW e \in E, e[1] \in S
               PROVE  e[2] \in S
    BY DEF ClosedUnder
  <2>1. CASE e[1] = a
    BY <2>1, ReachableRefl
  <2>2. CASE e[1] # a
    <3>1. PICK f \in E : f[1] = a /\ e[1] \in Reachable(E, f[2])
      BY <2>2
    <3>2. e[2] \in Reachable(E, f[2])
      BY <3>1, ReachableClosed DEF ClosedUnder
    <3> QED BY <3>1, <3>2
  <2> QED BY <2>1, <2>2
<1>2. n \in S
  BY <1>1, ReachableLeast
<1> QED BY <1>2

\* A unit without an edge reaches only itself.
LEMMA ReachableIsolated ==
  ASSUME NEW E, NEW a, a \notin Endpoints(E)
  PROVE  Reachable(E, a) = {a}
BY ReachableFirst, ReachableRefl DEF Endpoints
-----------------------------------------------------------------------------
(***************************************************************************)
(* One edge more, one edge less.                                           *)
(***************************************************************************)

LEMMA EndpointsAdd ==
  ASSUME NEW E, NEW p, NEW c
  PROVE  \A x : x \in Endpoints(E \cup {<<p, c>>}) <=> x \in Endpoints(E) \/ x = p \/ x = c
<1> DEFINE F == E \cup {<<p, c>>}
<1>1. {e[1] : e \in F} = {e[1] : e \in E} \cup {p}
  BY <<p, c>>[1] = p
<1>2. {e[2] : e \in F} = {e[2] : e \in E} \cup {c}
  BY <<p, c>>[2] = c
<1> QED BY <1>1, <1>2 DEF Endpoints

\* A new edge p -> c adds what c reaches to whatever reaches p, and nothing else.
LEMMA ReachableAddEdge ==
  ASSUME NEW E, NEW p, NEW c, NEW a
  PROVE  Reachable(E \cup {<<p, c>>}, a)
           = Reachable(E, a) \cup (IF p \in Reachable(E, a) THEN Reachable(E, c) ELSE {})
<1> DEFINE F == E \cup {<<p, c>>}
           S == Reachable(E, a) \cup (IF p \in Reachable(E, a) THEN Reachable(E, c) ELSE {})
<1>1. ClosedUnder(F, S)
  <2> SUFFICES ASSUME NEW e \in F, e[1] \in S
               PROVE  e[2] \in S
    BY DEF ClosedUnder
  <2>1. CASE e \in E
    BY <2>1, ReachableClosed DEF ClosedUnder
  <2>2. CASE e = <<p, c>>
    <3>1. e[1] = p /\ e[2] = c
      BY <2>2
    <3>2. p \in Reachable(E, a)
      BY <3>1
    <3> QED BY <3>1, <3>2, ReachableRefl
  <2> QED BY <2>1, <2>2
<1>2. Reachable(F, a) \subseteq S
  BY <1>1, ReachableRefl, ReachableLeast
<1>3. Reachable(E, a) \subseteq Reachable(F, a)
  BY ReachableMono
<1>4. ASSUME p \in Reachable(E, a)
      PROVE  Reachable(E, c) \subseteq Reachable(F, a)
  <2>1. <<p, c>> \in F /\ p \in Reachable(F, a)
    BY <1>3, <1>4
  <2>2. c \in Reachable(F, a)
    BY <2>1, ReachableClosed, <<p, c>>[1] = p, <<p, c>>[2] = c DEF ClosedUnder
  <2> QED BY <2>2, ReachableMono, ReachableTrans
<1> QED BY <1>2, <1>3, <1>4

\* In an acyclic graph, ends of a path are distinct wherever they are.
LEMMA AcyclicAntisym ==
  ASSUME NEW E, Acyclic(E), NEW a, NEW b \in Reachable(E, a), a \in Reachable(E, b)
  PROVE  a = b
<1>1. CASE a \in Endpoints(E)
  BY <1>1 DEF Acyclic
<1>2. CASE a \notin Endpoints(E)
  BY <1>2, ReachableIsolated
<1> QED BY <1>1, <1>2

\* The cycle guard is enough: if c does not reach p, the edge p -> c closes no cycle.
LEMMA AcyclicAddEdge ==
  ASSUME NEW E, Acyclic(E), NEW p, NEW c, p # c, p \notin Reachable(E, c)
  PROVE  Acyclic(E \cup {<<p, c>>})
<1> DEFINE F == E \cup {<<p, c>>}
<1>1. \A e \in F : e[1] # e[2]
  BY DEF Acyclic
<1>2. ASSUME NEW a \in Endpoints(F), NEW b \in Reachable(F, a), a \in Reachable(F, b)
      PROVE  a = b
  <2>1. b \in Reachable(E, a) \/ (p \in Reachable(E, a) /\ b \in Reachable(E, c))
    <3>1. Reachable(F, a)
            = Reachable(E, a) \cup (IF p \in Reachable(E, a) THEN Reachable(E, c) ELSE {})
      BY ReachableAddEdge
    <3> QED BY <3>1
  <2>2. a \in Reachable(E, b) \/ (p \in Reachable(E, b) /\ a \in Reachable(E, c))
    <3>1. Reachable(F, b)
            = Reachable(E, b) \cup (IF p \in Reachable(E, b) THEN Reachable(E, c) ELSE {})
      BY ReachableAddEdge
    <3> QED BY <3>1, <1>2
  <2>3. CASE b \in Reachable(E, a) /\ a \in Reachable(E, b)
    BY <2>3, AcyclicAntisym
  <2>4. CASE b \in Reachable(E, a) /\ p \in Reachable(E, b) /\ a \in Reachable(E, c)
    BY <2>4, ReachableTrans
  <2>5. CASE p \in Reachable(E, a) /\ b \in Reachable(E, c) /\ a \in Reachable(E, b)
    BY <2>5, ReachableTrans
  <2>6. CASE p \in Reachable(E, a) /\ a \in Reachable(E, c)
    BY <2>6, ReachableTrans
  <2> QED BY <2>1, <2>2, <2>3, <2>4, <2>5, <2>6
<1> QED BY <1>1, <1>2 DEF Acyclic

\* Fewer edges close no cycle.
LEMMA AcyclicSubset ==
  ASSUME NEW E, Acyclic(E), NEW F, F \subseteq E
  PROVE  Acyclic(F)
<1>1. \A e \in F : e[1] # e[2]
  BY DEF Acyclic
<1>2. ASSUME NEW a \in Endpoints(F), NEW b \in Reachable(F, a), a \in Reachable(F, b)
      PROVE  a = b
  BY <1>2, ReachableMono, AcyclicAntisym
<1> QED BY <1>1, <1>2 DEF Acyclic

-----------------------------------------------------------------------------
(***************************************************************************)
(* Removing an edge p -> c.  A unit that does not reach p, and a unit that *)
(* c does not reach, keep what they had; between the two sides, a path     *)
(* survives exactly if it leaves the units above p somewhere else.         *)
(***************************************************************************)

\* A unit that does not reach p reaches the same units without the edge.
LEMMA ReachableRemoveAbove ==
  ASSUME NEW E, NEW p, NEW c, <<p, c>> \in E, NEW a, p \notin Reachable(E, a)
  PROVE  Reachable(E \ {<<p, c>>}, a) = Reachable(E, a)
<1> DEFINE F == E \ {<<p, c>>}
<1>1. F \cup {<<p, c>>} = E
  OBVIOUS
<1>2. Reachable(F, a) \subseteq Reachable(E, a)
  BY ReachableMono
<1> HIDE DEF F
<1>3. Reachable(F \cup {<<p, c>>}, a)
        = Reachable(F, a) \cup (IF p \in Reachable(F, a) THEN Reachable(F, c) ELSE {})
  BY ReachableAddEdge
<1>4. Reachable(E, a) = Reachable(F, a)
  BY <1>1, <1>2, <1>3
<1> QED BY <1>4 DEF F

\* A unit that c does not reach is reachable from the same units without the edge.
LEMMA ReachableRemoveBelow ==
  ASSUME NEW E, NEW p, NEW c, <<p, c>> \in E,
         NEW a, NEW d \in Reachable(E, a), d \notin Reachable(E, c)
  PROVE  d \in Reachable(E \ {<<p, c>>}, a)
<1> DEFINE F == E \ {<<p, c>>}
<1>1. F \cup {<<p, c>>} = E
  OBVIOUS
<1>2. Reachable(F, c) \subseteq Reachable(E, c)
  BY ReachableMono
<1> HIDE DEF F
<1>3. Reachable(F \cup {<<p, c>>}, a)
        = Reachable(F, a) \cup (IF p \in Reachable(F, a) THEN Reachable(F, c) ELSE {})
  BY ReachableAddEdge
<1>4. d \in Reachable(F, a)
  BY <1>1, <1>2, <1>3
<1> QED BY <1>4 DEF F

\* Between a unit above p and a unit below c: what the rederive statement's
\* walk looks for, a first unit n outside the units above p from which d was
\* reachable, is there exactly if d is still reachable from a.
LEMMA ReachableRemoveBetween ==
  ASSUME NEW E, Acyclic(E), NEW p, NEW c, <<p, c>> \in E,
         NEW anc, \A x : x \in anc <=> p \in Reachable(E, x) /\ x \in Endpoints(E),
         NEW a \in anc, NEW d \in Reachable(E, c)
  PROVE  LET F      == E \ {<<p, c>>}
             walked == {e \in F : e[1] \in anc}
         IN  d \in Reachable(F, a)
               <=> \E n \in Reachable(walked, a) \ anc : d \in Reachable(E, n)
<1> DEFINE F == E \ {<<p, c>>}
           walked == {e \in F : e[1] \in anc}
<1>1. ASSUME NEW n \in Reachable(walked, a) \ anc, d \in Reachable(E, n)
      PROVE  d \in Reachable(F, a)
  <2>1. n \in Reachable(F, a)
    BY <1>1, ReachableMono
  <2>2. CASE n \in Endpoints(E)
    <3>1. p \notin Reachable(E, n)
      BY <1>1, <2>2
    <3>2. d \in Reachable(F, n)
      BY <1>1, <3>1, ReachableRemoveAbove
    <3> QED BY <2>1, <3>2, ReachableTrans
  <2>3. CASE n \notin Endpoints(E)
    <3>1. d = n
      BY <1>1, <2>3, ReachableIsolated
    <3> QED BY <2>1, <3>1
  <2> QED BY <2>2, <2>3
<1>2. ASSUME d \in Reachable(F, a)
      PROVE  \E n \in Reachable(walked, a) \ anc : d \in Reachable(E, n)
  <2> DEFINE inside == anc \cap Reachable(walked, a)
             S      == inside \cup UNION {Reachable(F, n) : n \in Reachable(walked, a) \ anc}
  <2>1. ClosedUnder(F, S)
    <3> SUFFICES ASSUME NEW e \in F, e[1] \in S
                 PROVE  e[2] \in S
      BY DEF ClosedUnder
    <3>1. CASE e[1] \in inside
      <4>1. e \in walked
        BY <3>1
      <4>2. e[2] \in Reachable(walked, a)
        BY <3>1, <4>1, ReachableClosed DEF ClosedUnder
      <4> QED BY <4>2, ReachableRefl
    <3>2. CASE e[1] \notin inside
      <4>1. PICK n \in Reachable(walked, a) \ anc : e[1] \in Reachable(F, n)
        BY <3>2
      <4>2. e[2] \in Reachable(F, n)
        BY <4>1, ReachableClosed DEF ClosedUnder
      <4> QED BY <4>1, <4>2
    <3> QED BY <3>1, <3>2
  <2>2. a \in S
    BY ReachableRefl
  <2>3. d \in S
    <3> HIDE DEF S, F
    <3>1. Reachable(F, a) \subseteq S
      BY <2>1, <2>2, ReachableLeast
    <3> QED BY <1>2, <3>1
  <2>4. d \notin anc
    <3> SUFFICES ASSUME p \in Reachable(E, d)
                 PROVE  FALSE
      OBVIOUS
    <3>1. p \in Reachable(E, c)
      BY ReachableTrans
    <3>2. c \in Reachable(E, p)
      BY ReachableRefl, ReachableClosed, <<p, c>>[1] = p, <<p, c>>[2] = c DEF ClosedUnder
    <3>3. p = c
      BY <3>1, <3>2, AcyclicAntisym
    <3> QED BY <3>3, <<p, c>>[1] = p, <<p, c>>[2] = c DEF Acyclic
  <2>5. PICK n \in Reachable(walked, a) \ anc : d \in Reachable(F, n)
    BY <2>3, <2>4
  <2>6. d \in Reachable(E, n)
    BY <2>5, ReachableMono
  <2> QED BY <2>6
<1> QED BY <1>1, <1>2
-----------------------------------------------------------------------------
(***************************************************************************)
(* The pairs a set of edges implies, and the statements on them.           *)
(***************************************************************************)
LEMMA ClosureOfPair ==
  ASSUME NEW E, NEW a, NEW d
  PROVE  <<a, d>> \in ClosureOf(E) <=> a \in Endpoints(E) /\ d \in Reachable(E, a)
BY DEF ClosureOf

LEMMA ClosureOfShape ==
  ASSUME NEW E, NEW r \in ClosureOf(E)
  PROVE  r = <<r[1], r[2]>>
BY DEF ClosureOf

\* Both ends of an implied pair are endpoints of edges.
LEMMA ClosureOfEndpoints ==
  ASSUME NEW E
  PROVE  ClosureOf(E) \subseteq Endpoints(E) \X Endpoints(E)
BY ReachableBound DEF ClosureOf

LEMMA StoredAncestorsMember ==
  ASSUME NEW tc, NEW E, DOMAIN tc = ClosureOf(E), NEW u, NEW a
  PROVE  a \in StoredAncestors(tc, u) <=> a \in Endpoints(E) /\ u \in Reachable(E, a)
<1>1. ASSUME a \in StoredAncestors(tc, u)
      PROVE  <<a, u>> \in ClosureOf(E)
  BY <1>1, ClosureOfShape DEF StoredAncestors
<1>2. ASSUME <<a, u>> \in ClosureOf(E)
      PROVE  a \in StoredAncestors(tc, u)
  BY <1>2, <<a, u>>[1] = a, <<a, u>>[2] = u DEF StoredAncestors
<1> QED BY <1>1, <1>2, ClosureOfPair

LEMMA StoredDescendantsMember ==
  ASSUME NEW tc, NEW E, DOMAIN tc = ClosureOf(E), NEW u, NEW d
  PROVE  d \in StoredDescendants(tc, u) <=> u \in Endpoints(E) /\ d \in Reachable(E, u)
<1>1. ASSUME d \in StoredDescendants(tc, u)
      PROVE  <<u, d>> \in ClosureOf(E)
  BY <1>1, ClosureOfShape DEF StoredDescendants
<1>2. ASSUME <<u, d>> \in ClosureOf(E)
      PROVE  d \in StoredDescendants(tc, u)
  BY <1>2, <<u, d>>[1] = u, <<u, d>>[2] = d DEF StoredDescendants
<1> QED BY <1>1, <1>2, ClosureOfPair

\* Two sets of pairs are equal if they hold the same pairs.
LEMMA SamePairs ==
  ASSUME NEW A, NEW B,
         \A r \in A : r = <<r[1], r[2]>>, \A r \in B : r = <<r[1], r[2]>>,
         \A x, y : <<x, y>> \in A <=> <<x, y>> \in B
  PROVE  A = B
<1>1. \A r \in A : r \in B
  OBVIOUS
<1>2. \A r \in B : r \in A
  OBVIOUS
<1> QED BY <1>1, <1>2
-----------------------------------------------------------------------------
(***************************************************************************)
(* The extend statement.                                                   *)
(***************************************************************************)

\* The seeded table's rows up to p: those stored, and p's own row.
LEMMA SeededAncestors ==
  ASSUME NEW tc, NEW E, DOMAIN tc = ClosureOf(E), NEW p, NEW c, NEW a
  PROVE  a \in StoredAncestors(SeedClosureSelfRows(tc, p, c), p)
           <=> a = p \/ (a \in Endpoints(E) /\ p \in Reachable(E, a))
<1> DEFINE D == ClosureOf(E) \cup {<<p, p>>, <<c, c>>}
<1>1. DOMAIN SeedClosureSelfRows(tc, p, c) = D
  BY DEF SeedClosureSelfRows
<1>2. StoredAncestors(SeedClosureSelfRows(tc, p, c), p) = {r[1] : r \in {q \in D : q[2] = p}}
  BY <1>1 DEF StoredAncestors
<1>3. {r[1] : r \in {q \in D : q[2] = p}} = StoredAncestors(tc, p) \cup {p}
  BY <<p, p>>[1] = p, <<p, p>>[2] = p, <<c, c>>[1] = c, <<c, c>>[2] = c DEF StoredAncestors
<1> QED BY <1>2, <1>3, StoredAncestorsMember, ReachableRefl

\* The seeded table's rows down from c: those stored, and c's own row.
LEMMA SeededDescendants ==
  ASSUME NEW tc, NEW E, DOMAIN tc = ClosureOf(E), NEW p, NEW c, NEW d
  PROVE  d \in StoredDescendants(SeedClosureSelfRows(tc, p, c), c)
           <=> d = c \/ (c \in Endpoints(E) /\ d \in Reachable(E, c))
<1> DEFINE D == ClosureOf(E) \cup {<<p, p>>, <<c, c>>}
<1>1. DOMAIN SeedClosureSelfRows(tc, p, c) = D
  BY DEF SeedClosureSelfRows
<1>2. StoredDescendants(SeedClosureSelfRows(tc, p, c), c) = {r[2] : r \in {q \in D : q[1] = c}}
  BY <1>1 DEF StoredDescendants
<1>3. {r[2] : r \in {q \in D : q[1] = c}} = StoredDescendants(tc, c) \cup {c}
  BY <<p, p>>[1] = p, <<p, p>>[2] = p, <<c, c>>[1] = c, <<c, c>>[2] = c DEF StoredDescendants
<1> QED BY <1>2, <1>3, StoredDescendantsMember, ReachableRefl

\* Attaching p -> c: the extend statement stores exactly the pairs the edges
\* then imply.
THEOREM ExtendExact ==
  ASSUME NEW tc, NEW E, DOMAIN tc = ClosureOf(E), NEW p, NEW c
  PROVE  DOMAIN ExtendClosureForEdge(tc, p, c) = ClosureOf(E \cup {<<p, c>>})
<1> DEFINE F     == E \cup {<<p, c>>}
           seed  == SeedClosureSelfRows(tc, p, c)
           above == StoredAncestors(seed, p)
           below == StoredDescendants(seed, c)
           D     == ClosureOf(E) \cup {<<p, p>>, <<c, c>>} \cup (above \X below)
<1>1. DOMAIN ExtendClosureForEdge(tc, p, c) = D
  BY DEF ExtendClosureForEdge, SeedClosureSelfRows
<1>2. \A r \in D : r = <<r[1], r[2]>>
  BY ClosureOfShape
<1>3. \A r \in ClosureOf(F) : r = <<r[1], r[2]>>
  BY ClosureOfShape
<1>4. ASSUME NEW a, NEW d
      PROVE  <<a, d>> \in D <=> <<a, d>> \in ClosureOf(F)
  <2>1. Reachable(F, a)
          = Reachable(E, a) \cup (IF p \in Reachable(E, a) THEN Reachable(E, c) ELSE {})
    BY ReachableAddEdge
  <2>2. <<a, d>> \in ClosureOf(F)
          <=> /\ a \in Endpoints(E) \cup {p, c}
              /\ d \in Reachable(E, a) \/ (p \in Reachable(E, a) /\ d \in Reachable(E, c))
    <3>1. a \in Endpoints(F) <=> a \in Endpoints(E) \cup {p, c}
      BY EndpointsAdd
    <3>2. <<a, d>> \in ClosureOf(F) <=> a \in Endpoints(F) /\ d \in Reachable(F, a)
      BY ClosureOfPair
    <3> HIDE DEF F
    <3> QED BY <2>1, <3>1, <3>2
  <2>3. <<a, d>> \in D
          <=> \/ a \in Endpoints(E) /\ d \in Reachable(E, a)
              \/ a \in {p, c} /\ d = a
              \/ a \in above /\ d \in below
    BY ClosureOfPair
  <2>4. a \in above <=> a = p \/ (a \in Endpoints(E) /\ p \in Reachable(E, a))
    BY SeededAncestors
  <2>5. d \in below <=> d \in Reachable(E, c)
    BY SeededDescendants, ReachableRefl, ReachableIsolated
  <2>6. a \notin Endpoints(E) => Reachable(E, a) = {a}
    BY ReachableIsolated
  <2>7. a \in Reachable(E, a)
    BY ReachableRefl
  <2> HIDE DEF D, F, above, below
  <2> QED BY <2>2, <2>3, <2>4, <2>5, <2>6, <2>7
<1> HIDE DEF D, F
<1>5. D = ClosureOf(F)
  BY <1>2, <1>3, <1>4, SamePairs
<1> QED BY <1>1, <1>5 DEF F

-----------------------------------------------------------------------------
(***************************************************************************)
(* The shrink statements, for an edge p -> c of an acyclic graph.          *)
(***************************************************************************)

\* The units of the anc side: those that reach p.
Above(E, p) == {x \in Endpoints(E) : p \in Reachable(E, x)}

\* Nothing below c is above p: that would close a cycle.
LEMMA SidesDisjoint ==
  ASSUME NEW E, Acyclic(E), NEW p, NEW c, <<p, c>> \in E, NEW x \in Reachable(E, c)
  PROVE  p \notin Reachable(E, x)
<1> SUFFICES ASSUME p \in Reachable(E, x)
             PROVE  FALSE
  OBVIOUS
<1>1. p \in Reachable(E, c)
  BY ReachableTrans
<1>2. c \in Reachable(E, p)
  BY ReachableRefl, ReachableClosed, <<p, c>>[1] = p, <<p, c>>[2] = c DEF ClosedUnder
<1>3. p = c
  BY <1>1, <1>2, AcyclicAntisym
<1> QED BY <1>3, <<p, c>>[1] = p, <<p, c>>[2] = c DEF Acyclic

\* The endpoints of an edge are endpoints.
LEMMA EdgeEndpoints ==
  ASSUME NEW E, NEW p, NEW c, <<p, c>> \in E
  PROVE  p \in Endpoints(E) /\ c \in Endpoints(E)
BY <<p, c>>[1] = p, <<p, c>>[2] = c DEF Endpoints

\* The two sides as the statements read them, before and after the slice is
\* deleted: deleting the slice touches neither.
LEMMA SidesBeforeAndAfter ==
  ASSUME NEW tc, NEW E, DOMAIN tc = ClosureOf(E), Acyclic(E),
         NEW p, NEW c, <<p, c>> \in E,
         NEW cut, cut = DeleteClosureSlice(tc, p, c)
  PROVE  /\ DOMAIN cut = ClosureOf(E) \ (Above(E, p) \X Reachable(E, c))
         /\ AncSide(cut, p) = Above(E, p)
         /\ DscSide(cut, c) = Reachable(E, c)
<1> DEFINE anc == Above(E, p)
           dsc == Reachable(E, c)
<1>1. p \in anc /\ c \in dsc
  BY EdgeEndpoints, ReachableRefl DEF Above
<1>2. AncSide(tc, p) = anc
  BY <1>1, StoredAncestorsMember DEF AncSide, Above
<1>3. DscSide(tc, c) = dsc
  BY <1>1, StoredDescendantsMember, EdgeEndpoints DEF DscSide
<1>4. DOMAIN cut = ClosureOf(E) \ (anc \X dsc)
  BY <1>2, <1>3 DEF DeleteClosureSlice, Restrict
<1>5. p \notin dsc /\ c \notin anc
  BY <1>1, SidesDisjoint, ReachableRefl DEF Above
<1>6. ASSUME NEW x
      PROVE  x \in StoredAncestors(cut, p) <=> x \in StoredAncestors(tc, p)
  <2>1. \A r \in ClosureOf(E) : r[2] = p => (r \in DOMAIN cut)
    BY <1>4, <1>5
  <2> QED BY <1>4, <2>1 DEF StoredAncestors
<1>7. ASSUME NEW x
      PROVE  x \in StoredDescendants(cut, c) <=> x \in StoredDescendants(tc, c)
  <2>1. \A r \in ClosureOf(E) : r[1] = c => (r \in DOMAIN cut)
    BY <1>4, <1>5
  <2> QED BY <1>4, <2>1 DEF StoredDescendants
<1>8. AncSide(cut, p) = AncSide(tc, p)
  BY <1>6 DEF AncSide
<1>9. DscSide(cut, c) = DscSide(tc, c)
  BY <1>7 DEF DscSide
<1> QED BY <1>2, <1>3, <1>4, <1>8, <1>9

\* An endpoint that loses its last edge with p -> c reached nothing outside
\* the slice but itself.
LEMMA LastEdge ==
  ASSUME NEW E, Acyclic(E), NEW p, NEW c, <<p, c>> \in E,
         NEW F, F = E \ {<<p, c>>},
         NEW a \in Endpoints(E), a \notin Endpoints(F), NEW d \in Reachable(E, a),
         ~(a \in Above(E, p) /\ d \in Reachable(E, c))
  PROVE  a \in {p, c} /\ d = a
<1>1. a \in {p, c}
  BY DEF Endpoints
<1>2. Reachable(F, a) = {a}
  BY ReachableIsolated
<1>3. F \cup {<<p, c>>} = E
  OBVIOUS
<1>4. Reachable(F \cup {<<p, c>>}, a)
        = Reachable(F, a) \cup (IF p \in Reachable(F, a) THEN Reachable(F, c) ELSE {})
  BY ReachableAddEdge
<1>5. Reachable(F, c) \subseteq Reachable(E, c)
  BY ReachableMono
<1>6. p \in Above(E, p)
  BY EdgeEndpoints, ReachableRefl DEF Above
<1> QED BY <1>1, <1>2, <1>3, <1>4, <1>5, <1>6

\* Detaching p -> c: delete, rederive and prune together leave exactly the
\* pairs the remaining edges imply.
THEOREM ShrinkExact ==
  ASSUME NEW tc, NEW E, DOMAIN tc = ClosureOf(E), Acyclic(E),
         NEW p, NEW c, <<p, c>> \in E,
         NEW F, F = E \ {<<p, c>>}
  PROVE  DOMAIN ShrinkClosureForEdge(tc, F, p, c) = ClosureOf(F)
<1> DEFINE anc      == Above(E, p)
           dsc      == Reachable(E, c)
           cut      == DeleteClosureSlice(tc, p, c)
           walked   == {e \in F : e[1] \in anc}
           exits(r) == {n \in Reachable(walked, r[1]) \ anc : <<n, r[2]>> \in DOMAIN cut}
           pairs    == {r \in anc \X dsc : exits(r) # {}}
           again    == RederiveClosureSlice(cut, F, p, c)
           pruned   == {<<u, u>> : u \in {p, c} \ Endpoints(F)}
           D        == DOMAIN again \ pruned
<1>1. DOMAIN ShrinkClosureForEdge(tc, F, p, c) = D
  BY DEF ShrinkClosureForEdge, PruneClosureSelfRows, Restrict
<1>2. /\ DOMAIN cut = ClosureOf(E) \ (anc \X dsc)
      /\ AncSide(cut, p) = anc
      /\ DscSide(cut, c) = dsc
  BY SidesBeforeAndAfter
<1>3. DOMAIN again = DOMAIN cut \cup pairs
  BY <1>2 DEF RederiveClosureSlice
<1>4. \A r \in D : r = <<r[1], r[2]>>
  <2>1. \A r \in pairs : r = <<r[1], r[2]>>
    OBVIOUS
  <2> HIDE DEF pairs, again, cut
  <2> QED BY <1>2, <1>3, <2>1, ClosureOfShape
<1>5. \A r \in ClosureOf(F) : r = <<r[1], r[2]>>
  BY ClosureOfShape
\* The rederive statement puts back the pairs of the slice that another path
\* still supports, and only those.
<1>6. ASSUME NEW a \in anc, NEW d \in dsc
      PROVE  <<a, d>> \in pairs <=> d \in Reachable(F, a)
  <2>1. d \in Reachable(F, a)
          <=> \E n \in Reachable(walked, a) \ anc : d \in Reachable(E, n)
    <3>1. \A x : x \in anc <=> p \in Reachable(E, x) /\ x \in Endpoints(E)
      BY DEF Above
    <3> HIDE DEF exits, pairs, anc
    <3> QED BY <1>6, <3>1, ReachableRemoveBetween, Zenon DEF dsc
  <2>2. ASSUME NEW n \in Reachable(walked, a) \ anc
        PROVE  <<n, d>> \in DOMAIN cut <=> d \in Reachable(E, n)
    <3>1. n \in Endpoints(E)
      <4>1. n \in Endpoints(walked) \cup {a}
        BY ReachableBound
      <4> QED BY <4>1, <1>6 DEF Endpoints, Above
    <3> QED BY <1>2, <3>1, ClosureOfPair
  <2> QED BY <1>6, <2>1, <2>2
<1>7. ASSUME NEW a, NEW d
      PROVE  <<a, d>> \in D <=> <<a, d>> \in ClosureOf(F)
  <2>1. <<a, d>> \in DOMAIN again
          <=> IF a \in anc /\ d \in dsc THEN d \in Reachable(F, a)
              ELSE <<a, d>> \in ClosureOf(E)
    <3>1. <<a, d>> \in pairs => a \in anc /\ d \in dsc
      OBVIOUS
    <3> HIDE DEF pairs, again, cut, anc, dsc
    <3> QED BY <1>2, <1>3, <1>6, <3>1
  <2>2. <<a, d>> \in pruned <=> a \in {p, c} \ Endpoints(F) /\ d = a
    OBVIOUS
  <2>3. <<a, d>> \in ClosureOf(F) <=> a \in Endpoints(F) /\ d \in Reachable(F, a)
    BY ClosureOfPair
  <2>4. <<a, d>> \in ClosureOf(E) <=> a \in Endpoints(E) /\ d \in Reachable(E, a)
    BY ClosureOfPair
  <2> HIDE DEF again, pruned
  <2>5. CASE a \in anc /\ d \in dsc
    <3>1. a # d
      BY <2>5, SidesDisjoint DEF Above
    <3>2. d \in Reachable(F, a) => a \in Endpoints(F)
      BY <3>1, ReachableIsolated
    <3> QED BY <2>1, <2>2, <2>3, <2>5, <3>1, <3>2
  <2>6. CASE ~(a \in anc /\ d \in dsc)
    <3>1. a \in Endpoints(F) => a \in Endpoints(E)
      BY DEF Endpoints
    <3>2. a \in Endpoints(E) => (d \in Reachable(F, a) <=> d \in Reachable(E, a))
      <4>1. Reachable(F, a) \subseteq Reachable(E, a)
        BY ReachableMono
      <4>2. a \in Endpoints(E) /\ d \in Reachable(E, a) => d \in Reachable(F, a)
        BY <2>6, ReachableRemoveAbove, ReachableRemoveBelow DEF Above
      <4> QED BY <4>1, <4>2
    <3>3. a \in Endpoints(E) /\ a \notin Endpoints(F) /\ d \in Reachable(E, a)
            => a \in {p, c} /\ d = a
      BY <2>6, LastEdge
    <3> QED BY <2>1, <2>2, <2>3, <2>4, <2>6, <3>1, <3>2, <3>3
  <2> QED BY <2>5, <2>6
<1> HIDE DEF D
<1> QED BY <1>1, <1>4, <1>5, <1>7, SamePairs
-----------------------------------------------------------------------------
\* The seeded pair of units is acyclic, and its three rows are its closure.
LEMMA SeedExact ==
  ASSUME NEW a, NEW b, a # b
  PROVE  /\ Acyclic({<<a, b>>})
         /\ ClosureOf({<<a, b>>}) = {<<a, a>>, <<b, b>>, <<a, b>>}
<1> DEFINE E == {<<a, b>>}
<1>1. Endpoints(E) = {a, b}
  BY <<a, b>>[1] = a, <<a, b>>[2] = b DEF Endpoints
<1>2. Reachable(E, a) = {a, b}
  <2>1. ClosedUnder(E, {a, b})
    BY <<a, b>>[2] = b DEF ClosedUnder
  <2>2. a \in Reachable(E, a)
    BY ReachableRefl
  <2>3. b \in Reachable(E, a)
    BY <2>2, ReachableClosed, <<a, b>>[1] = a, <<a, b>>[2] = b DEF ClosedUnder
  <2>4. Reachable(E, a) \subseteq {a, b}
    BY <2>1, ReachableLeast
  <2> QED BY <2>2, <2>3, <2>4
<1>3. Reachable(E, b) = {b}
  <2>1. ClosedUnder(E, {b})
    BY <<a, b>>[1] = a DEF ClosedUnder
  <2>2. b \in Reachable(E, b)
    BY ReachableRefl
  <2>3. Reachable(E, b) \subseteq {b}
    BY <2>1, ReachableLeast
  <2> QED BY <2>2, <2>3
<1>4. \A e \in E : e[1] # e[2]
  BY <<a, b>>[1] = a, <<a, b>>[2] = b
<1> HIDE DEF E
<1>5. Acyclic(E)
  BY <1>1, <1>2, <1>3, <1>4 DEF Acyclic
<1>6. ClosureOf(E) = {<<a, a>>, <<b, b>>, <<a, b>>}
  BY <1>1, <1>2, <1>3 DEF ClosureOf
<1> QED BY <1>5, <1>6 DEF E

\* An exact table over edges between existing units has rows for existing
\* units only.
LEMMA ExactBound ==
  ASSUME NEW E, NEW U, E \subseteq U \X U
  PROVE  ClosureOf(E) \subseteq U \X U
<1>1. Endpoints(E) \subseteq U
  BY DEF Endpoints
<1> QED BY <1>1, ClosureOfEndpoints
-----------------------------------------------------------------------------
(***************************************************************************)
(* Distances.                                                              *)
(***************************************************************************)
\* A set of numbers that is not empty has a least one.
LEMMA Least ==
  ASSUME NEW T, T \subseteq Nat, T # {}
  PROVE  \E x \in T : \A y \in T : x <= y
<1>1. PICK n \in T : TRUE
  OBVIOUS
<1>a. IsFiniteSet(0 .. n)
  BY FS_Interval
<1>2. IsWellFoundedOn(StrictSubsetOrdering(0 .. n), FiniteSubsetsOf(0 .. n))
  BY <1>a, FS_StrictSubsetOrderingWellFounded
<1> DEFINE below == {0 .. m : m \in {k \in T : k <= n}}
<1>3. below \subseteq FiniteSubsetsOf(0 .. n) /\ 0 .. n \in below
  <2>1. ASSUME NEW m \in Nat, m <= n
        PROVE  0 .. m \in FiniteSubsetsOf(0 .. n)
    <3>1. IsFiniteSet(0 .. m)
      BY <2>1, FS_Interval
    <3>2. 0 .. m \subseteq 0 .. n
      BY <2>1
    <3> QED BY <3>1, <3>2 DEF FiniteSubsetsOf
  <2> QED BY <2>1
<1>4. PICK B \in below : \A C \in below : <<C, B>> \notin StrictSubsetOrdering(0 .. n)
  BY <1>2, <1>3, WFMin
<1>5. PICK m \in T : m <= n /\ B = 0 .. m
  OBVIOUS
<1>6. ASSUME NEW k \in T, k < m
      PROVE  FALSE
  <2>1. 0 .. k \in below
    BY <1>5, <1>6
  <2>2. 0 .. k \subseteq 0 .. m /\ m \notin 0 .. k /\ m \in 0 .. m
    BY <1>6
  <2>3. 0 .. k \subseteq 0 .. n /\ B \subseteq 0 .. n
    BY <1>5, <1>6
  <2>4. <<0 .. k, B>> \in StrictSubsetOrdering(0 .. n)
    BY <1>5, <2>2, <2>3 DEF StrictSubsetOrdering
  <2> QED BY <1>4, <2>1, <2>4
<1> QED BY <1>6

LEMMA MinIs ==
  ASSUME NEW T, T \subseteq Nat, T # {}
  PROVE  Min(T) \in T /\ \A y \in T : Min(T) <= y
BY Least DEF Min

\* Induction, for a set instead of an operator.
LEMMA AllNumbers ==
  ASSUME NEW S, 0 \in S, \A n \in Nat : n \in S => n + 1 \in S
  PROVE  Nat \subseteq S
<1> SUFFICES ASSUME Nat \ S # {}
             PROVE  FALSE
  OBVIOUS
<1>1. PICK x \in Nat \ S : \A y \in Nat \ S : x <= y
  BY Least
<1>2. x - 1 \in Nat \ S
  BY <1>1
<1> QED BY <1>1, <1>2

\* One more step along the edges; what Distance computes, up to a bound of steps.
Widened(E, S) == S \cup {e[2] : e \in {x \in E : x[1] \in S}}
Widening(E, a, N, within) ==
  within = [k \in 0 .. N |-> IF k = 0 THEN {a} ELSE Widened(E, within[k - 1])]

LEMMA WideningExists ==
  ASSUME NEW E, NEW a, NEW N \in Nat
  PROVE  \E within : Widening(E, a, N, within)
<1> DEFINE S == {n \in Nat : \E within : Widening(E, a, n, within)}
<1>1. 0 \in S
  <2> DEFINE w == [k \in 0 .. 0 |-> {a}]
  <2>1. Widening(E, a, 0, w)
    BY DEF Widening
  <2> QED BY <2>1
<1>2. ASSUME NEW n \in Nat, n \in S
      PROVE  n + 1 \in S
  <2>1. PICK w : Widening(E, a, n, w)
    BY <1>2
  <2>3. \A k \in 0 .. n : w[k] = IF k = 0 THEN {a} ELSE Widened(E, w[k - 1])
    BY <2>1 DEF Widening
  <2> DEFINE v == [k \in 0 .. n + 1 |-> IF k = n + 1 THEN Widened(E, w[n]) ELSE w[k]]
  <2>2. Widening(E, a, n + 1, v)
    <3> SUFFICES ASSUME NEW k \in 0 .. n + 1
                 PROVE  v[k] = IF k = 0 THEN {a} ELSE Widened(E, v[k - 1])
      BY DEF Widening
    <3>1. CASE k = n + 1
      BY <3>1
    <3>2. CASE k # n + 1
      <4>1. k \in 0 .. n
        BY <3>2
      <4>3. w[k] = IF k = 0 THEN {a} ELSE Widened(E, w[k - 1])
        BY <4>1, <2>3
      <4>2. v[k] = w[k] /\ (k # 0 => v[k - 1] = w[k - 1])
        BY <3>2, <4>1
      <4> QED BY <4>2, <4>3
    <3> QED BY <3>1, <3>2
  <2> HIDE DEF v
  <2> QED BY <2>2
<1> HIDE DEF S
<1>3. Nat \subseteq S
  BY <1>1, <1>2, AllNumbers
<1> QED BY <1>3 DEF S

\* The recursion in Distance is such a function.
LEMMA DistanceIsWidening ==
  ASSUME NEW E, NEW a, Cardinality(E) \in Nat
  PROVE  \E within : /\ Widening(E, a, Cardinality(E), within)
                     /\ \A n : Distance(E, a, n) = Min({k \in 0 .. Cardinality(E) : n \in within[k]})
<1> DEFINE N == Cardinality(E)
           W == CHOOSE within :
                  within = [k \in 0 .. N |->
                    IF k = 0 THEN {a}
                    ELSE within[k - 1] \cup {e[2] : e \in {x \in E : x[1] \in within[k - 1]}}]
<1>1. Widening(E, a, N, W)
  <2>1. PICK w : Widening(E, a, N, w)
    BY WideningExists
  <2>2. w = [k \in 0 .. N |->
               IF k = 0 THEN {a}
               ELSE w[k - 1] \cup {e[2] : e \in {x \in E : x[1] \in w[k - 1]}}]
    BY <2>1 DEF Widening, Widened
  <2>3. W = [k \in 0 .. N |->
               IF k = 0 THEN {a}
               ELSE W[k - 1] \cup {e[2] : e \in {x \in E : x[1] \in W[k - 1]}}]
    BY <2>2
  <2> QED BY <2>3 DEF Widening, Widened
<1>2. ASSUME NEW n
      PROVE  Distance(E, a, n) = Min({k \in 0 .. N : n \in W[k]})
  BY DEF Distance
<1> HIDE DEF W, N
<1> QED BY <1>1, <1>2 DEF N

\* The levels of a walk: what is within k steps of a.
Levels(E, a, w) ==
  /\ w[0] = {a}
  /\ \A k \in Nat : k < Cardinality(E) => w[k + 1] = Widened(E, w[k])

LEMMA DistanceByLevels ==
  ASSUME NEW E, NEW a, Cardinality(E) \in Nat
  PROVE  \E w : /\ Levels(E, a, w)
                /\ \A n : Distance(E, a, n) = Min({k \in 0 .. Cardinality(E) : n \in w[k]})
<1> DEFINE N == Cardinality(E)
<1>1. PICK w : /\ Widening(E, a, N, w)
               /\ \A n : Distance(E, a, n) = Min({k \in 0 .. Cardinality(E) : n \in w[k]})
  BY DistanceIsWidening
<1> HIDE DEF N
<1>2. N \in Nat
  BY DEF N
<1>3. \A k \in 0 .. N : w[k] = IF k = 0 THEN {a} ELSE Widened(E, w[k - 1])
  BY <1>1 DEF Widening
<1>4. w[0] = {a}
  BY <1>2, <1>3
<1>5. ASSUME NEW k \in Nat, k < N
      PROVE  w[k + 1] = Widened(E, w[k])
  <2>1. k + 1 \in 0 .. N /\ k + 1 # 0 /\ (k + 1) - 1 = k
    BY <1>2, <1>5
  <2> QED BY <1>3, <2>1
<1>6. Levels(E, a, w)
  BY <1>4, <1>5 DEF Levels, N
<1> QED BY <1>1, <1>6

\* Levels grow, hold reachable units only, and the last one is closed: each
\* level that is not closed has an edge more below it than the one before.
LEMMA LevelsGrow ==
  ASSUME NEW E, IsFiniteSet(E), NEW a, NEW w, Levels(E, a, w)
  PROVE  /\ \A k \in 0 .. Cardinality(E) : a \in w[k] /\ w[k] \subseteq Reachable(E, a)
         /\ ClosedUnder(E, w[Cardinality(E)])
<1> DEFINE N    == Cardinality(E)
           X(k) == {e \in E : e[1] \in w[k]}
           S == {k \in Nat : k <= N => a \in w[k] /\ w[k] \subseteq Reachable(E, a)}
           T == {k \in Nat : k <= N => ClosedUnder(E, w[k]) \/ Cardinality(X(k)) >= k + 1}
<1>0. N \in Nat
  BY FS_CardinalityType
<1>1. w[0] = {a} /\ \A k \in Nat : k < N => w[k + 1] = w[k] \cup {e[2] : e \in X(k)}
  BY DEF Levels, Widened
<1>x. \A k \in Nat : X(k) \subseteq E /\ IsFiniteSet(X(k)) /\ Cardinality(X(k)) \in Nat
                    /\ Cardinality(X(k)) <= N
  <2> TAKE k \in Nat
  <2>1. X(k) \subseteq E
    OBVIOUS
  <2> HIDE DEF X
  <2> QED BY <2>1, FS_Subset, FS_CardinalityType
<1>2. Nat \subseteq S
  <2>1. 0 \in S
    BY <1>1, ReachableRefl
  <2>2. ASSUME NEW k \in Nat, k \in S
        PROVE  k + 1 \in S
    <3> SUFFICES ASSUME k + 1 <= N
                 PROVE  a \in w[k + 1] /\ w[k + 1] \subseteq Reachable(E, a)
      OBVIOUS
    <3>1. k < N /\ a \in w[k] /\ w[k] \subseteq Reachable(E, a)
      BY <1>0, <2>2
    <3>2. \A e \in X(k) : e[2] \in Reachable(E, a)
      BY <3>1, ReachableClosed DEF ClosedUnder
    <3> QED BY <1>1, <3>1, <3>2
  <2> HIDE DEF S
  <2> QED BY <2>1, <2>2, AllNumbers
<1>3. Nat \subseteq T
  <2>1. 0 \in T
    <3> SUFFICES ASSUME ~ClosedUnder(E, w[0])
                 PROVE  Cardinality(X(0)) >= 1
      OBVIOUS
    <3>1. X(0) # {}
      BY DEF ClosedUnder
    <3> HIDE DEF X
    <3>2. Cardinality(X(0)) # 0
      BY <1>x, <3>1, FS_EmptySet
    <3> QED BY <1>x, <3>2
  <2>2. ASSUME NEW k \in Nat, k \in T
        PROVE  k + 1 \in T
    <3> SUFFICES ASSUME k + 1 <= N, ~ClosedUnder(E, w[k + 1])
                 PROVE  Cardinality(X(k + 1)) >= k + 2
      OBVIOUS
    <3>1. k < N
      BY <1>0
    <3>2. w[k + 1] = w[k] \cup {e[2] : e \in X(k)}
      BY <1>1, <3>1
    <3>3. PICK e \in E : e[1] \in w[k + 1] /\ e[2] \notin w[k + 1]
      BY DEF ClosedUnder
    <3>4. e \in X(k + 1) /\ e \notin X(k) /\ X(k) \subseteq X(k + 1)
      BY <3>2, <3>3
    <3>5. ~ClosedUnder(E, w[k])
      <4> SUFFICES ASSUME ClosedUnder(E, w[k])
                   PROVE  FALSE
        OBVIOUS
      <4>1. w[k + 1] = w[k]
        BY <3>2 DEF ClosedUnder
      <4> QED BY <3>3, <4>1 DEF ClosedUnder
    <3>6. Cardinality(X(k)) >= k + 1
      <4>1. k <= N
        BY <1>0, <3>1
      <4> HIDE DEF X, N
      <4> QED BY <2>2, <4>1, <3>5
    <3> HIDE DEF X
    <3>7. X(k) \cup {e} \subseteq X(k + 1)
      BY <3>4
    <3>8. Cardinality(X(k) \cup {e}) = Cardinality(X(k)) + 1 /\ IsFiniteSet(X(k) \cup {e})
      BY <1>x, <3>4, FS_AddElement
    <3>9. k + 1 \in Nat /\ Cardinality(X(k) \cup {e}) <= Cardinality(X(k + 1))
      BY <1>x, <3>7, <3>8, FS_Subset
    <3> QED BY <1>x, <3>6, <3>8, <3>9
  <2> HIDE DEF T
  <2> QED BY <2>1, <2>2, AllNumbers
<1>4. ClosedUnder(E, w[N])
  <2>1. N \in T
    BY <1>0, <1>3
  <2>2. Cardinality(X(N)) <= N /\ Cardinality(X(N)) \in Nat
    BY <1>0, <1>x
  <2> HIDE DEF X, N
  <2> QED BY <1>0, <2>1, <2>2
<1>5. \A k \in 0 .. N : k \in S /\ k <= N
  BY <1>0, <1>2
<1> QED BY <1>4, <1>5

\* Distance, for a finite set of edges, without its recursion: zero at the
\* start, at most one more after an edge, and exactly one more after some edge.
LEMMA DistanceFacts ==
  ASSUME NEW E, IsFiniteSet(E), NEW a
  PROVE  /\ Distance(E, a, a) = 0
         /\ \A n \in Reachable(E, a) : Distance(E, a, n) \in Nat
         /\ \A e \in E : e[1] \in Reachable(E, a)
                        => Distance(E, a, e[2]) <= Distance(E, a, e[1]) + 1
         /\ \A n \in Reachable(E, a) \ {a} :
              \E e \in E : /\ e[1] \in Reachable(E, a)
                         /\ e[2] = n
                         /\ Distance(E, a, n) = Distance(E, a, e[1]) + 1
<1> DEFINE N == Cardinality(E)
<1>0. N \in Nat
  BY FS_CardinalityType
<1>1. PICK w : /\ Levels(E, a, w)
               /\ \A n : Distance(E, a, n) = Min({k \in 0 .. N : n \in w[k]})
  BY <1>0, DistanceByLevels
<1>2. /\ \A k \in 0 .. N : a \in w[k] /\ w[k] \subseteq Reachable(E, a)
      /\ ClosedUnder(E, w[N])
  BY <1>1, LevelsGrow
<1>3. /\ w[0] = {a}
      /\ \A k \in Nat : k < N => w[k + 1] = w[k] \cup {e[2] : e \in {x \in E : x[1] \in w[k]}}
  BY <1>1 DEF Levels, Widened
<1> HIDE DEF N
<1>4. Reachable(E, a) \subseteq w[N]
  BY <1>0, <1>2, ReachableLeast
<1>5. ASSUME NEW n \in Reachable(E, a)
      PROVE  /\ Distance(E, a, n) \in 0 .. N
             /\ n \in w[Distance(E, a, n)]
             /\ \A k \in 0 .. N : n \in w[k] => Distance(E, a, n) <= k
  <2> DEFINE K == {k \in 0 .. N : n \in w[k]}
  <2>1. K \subseteq Nat /\ N \in K
    BY <1>0, <1>4
  <2>2. Min(K) \in K /\ \A y \in K : Min(K) <= y
    <3> HIDE DEF K
    <3> QED BY <2>1, MinIs
  <2>3. Distance(E, a, n) = Min(K)
    BY <1>1
  <2> QED BY <2>2, <2>3
<1>6. Distance(E, a, a) = 0
  BY <1>0, <1>3, <1>5, ReachableRefl
<1>7. ASSUME NEW e \in E, e[1] \in Reachable(E, a)
      PROVE  /\ e[2] \in Reachable(E, a)
             /\ Distance(E, a, e[2]) <= Distance(E, a, e[1]) + 1
  <2>1. e[2] \in Reachable(E, a)
    BY <1>7, ReachableClosed DEF ClosedUnder
  <2>2. PICK k \in 0 .. N : k = Distance(E, a, e[1]) /\ e[1] \in w[k]
    BY <1>5, <1>7
  <2>3. CASE k = N
    <3>1. e[2] \in w[N] /\ N \in 0 .. N
      BY <1>0, <1>2, <2>2, <2>3 DEF ClosedUnder
    <3>2. Distance(E, a, e[2]) <= N /\ Distance(E, a, e[2]) \in 0 .. N
      BY <1>5, <2>1, <3>1
    <3> QED BY <1>0, <2>1, <2>2, <2>3, <3>2
  <2>4. CASE k # N
    <3>1. k \in Nat /\ k < N /\ k + 1 \in 0 .. N
      BY <1>0, <2>4
    <3>2. e[2] \in w[k + 1]
      BY <1>3, <2>2, <3>1
    <3> QED BY <1>5, <2>1, <2>2, <3>1, <3>2
  <2> QED BY <2>3, <2>4
<1>8. ASSUME NEW n \in Reachable(E, a) \ {a}
      PROVE  \E e \in E : /\ e[1] \in Reachable(E, a)
                         /\ e[2] = n
                         /\ Distance(E, a, n) = Distance(E, a, e[1]) + 1
  <2>1. PICK k \in 0 .. N : k = Distance(E, a, n) /\ n \in w[k]
    BY <1>5
  <2>2. k # 0
    BY <1>3, <2>1
  <2>3. k - 1 \in Nat /\ k - 1 < N /\ k - 1 \in 0 .. N /\ (k - 1) + 1 = k
    BY <1>0, <2>2
  <2>4. n \notin w[k - 1]
    <3>1. n \in w[k - 1] => k <= k - 1
      BY <1>5, <2>1, <2>3
    <3> QED BY <2>3, <3>1
  <2>5. PICK e \in E : e[1] \in w[k - 1] /\ e[2] = n
    <3>1. w[k] = w[k - 1] \cup {e[2] : e \in {x \in E : x[1] \in w[k - 1]}}
      BY <1>3, <2>3
    <3> QED BY <2>1, <2>4, <3>1
  <2>6. e[1] \in Reachable(E, a)
    BY <1>2, <2>3, <2>5
  <2>7. Distance(E, a, e[1]) <= k - 1 /\ Distance(E, a, e[1]) \in 0 .. N
    BY <1>5, <2>3, <2>5, <2>6
  <2>8. Distance(E, a, n) <= Distance(E, a, e[1]) + 1
    BY <1>7, <2>5, <2>6
  <2>9. Distance(E, a, n) = Distance(E, a, e[1]) + 1
    BY <1>0, <2>1, <2>7, <2>8
  <2> QED BY <2>5, <2>6, <2>9
<1>9. \A n \in Reachable(E, a) : Distance(E, a, n) \in Nat
  BY <1>0, <1>5
<1> QED BY <1>6, <1>7, <1>8, <1>9

\* Induction along shortest walks, for a set.
LEMMA AlongDistance ==
  ASSUME NEW E, IsFiniteSet(E), NEW a, NEW S, a \in S,
         \A e \in E : /\ e[1] \in Reachable(E, a) \cap S
                     /\ Distance(E, a, e[2]) = Distance(E, a, e[1]) + 1
                     => e[2] \in S
  PROVE  Reachable(E, a) \subseteq S
<1> SUFFICES ASSUME NEW bad \in Reachable(E, a) \ S
             PROVE  FALSE
  OBVIOUS
<1> DEFINE T == {Distance(E, a, n) : n \in Reachable(E, a) \ S}
<1>1. T \subseteq Nat /\ T # {}
  BY DistanceFacts
<1>2. PICK x \in T : \A y \in T : x <= y
  <2> HIDE DEF T
  <2> QED BY <1>1, Least
<1>3. PICK n \in Reachable(E, a) \ S : x = Distance(E, a, n)
  OBVIOUS
<1>4. PICK e \in E : /\ e[1] \in Reachable(E, a)
                     /\ e[2] = n
                     /\ Distance(E, a, n) = Distance(E, a, e[1]) + 1
  BY <1>3, DistanceFacts
<1>5. e[1] \notin S
  BY <1>3, <1>4
<1>6. Distance(E, a, e[1]) \in T /\ Distance(E, a, e[1]) \in Nat
  BY <1>4, <1>5, DistanceFacts
<1>7. x <= Distance(E, a, e[1])
  BY <1>2, <1>6
<1> HIDE DEF T
<1> QED BY <1>3, <1>4, <1>6, <1>7

\* What grows by at most one along each edge grows by at most the distance.
LEMMA Potential ==
  ASSUME NEW E, IsFiniteSet(E), NEW a, NEW f,
         \A n \in Reachable(E, a) : f[n] \in Int,
         \A e \in E : e[1] \in Reachable(E, a) => f[e[2]] <= f[e[1]] + 1
  PROVE  \A n \in Reachable(E, a) : f[n] <= f[a] + Distance(E, a, n)
<1> DEFINE S == {n \in Reachable(E, a) : f[n] <= f[a] + Distance(E, a, n)}
<1>1. a \in S
  BY ReachableRefl, DistanceFacts
<1>2. ASSUME NEW e \in E, e[1] \in Reachable(E, a), e[1] \in S,
             Distance(E, a, e[2]) = Distance(E, a, e[1]) + 1
      PROVE  e[2] \in S
  <2>1. e[2] \in Reachable(E, a)
    BY <1>2, ReachableClosed DEF ClosedUnder
  <2>2. /\ f[a] \in Int /\ f[e[1]] \in Int /\ f[e[2]] \in Int
        /\ Distance(E, a, e[1]) \in Nat /\ Distance(E, a, e[2]) \in Nat
    BY <1>2, <2>1, ReachableRefl, DistanceFacts
  <2>3. f[e[2]] <= f[e[1]] + 1 /\ f[e[1]] <= f[a] + Distance(E, a, e[1])
    BY <1>2
  <2> QED BY <1>2, <2>1, <2>2, <2>3
<1> HIDE DEF S
<1>3. Reachable(E, a) \subseteq S
  BY <1>1, <1>2, AlongDistance
<1> QED BY <1>3 DEF S

\* The way through n is no shorter.
LEMMA DistanceTriangle ==
  ASSUME NEW E, IsFiniteSet(E), NEW a, NEW n \in Reachable(E, a)
  PROVE  \A x \in Reachable(E, n) : Distance(E, a, x) <= Distance(E, a, n) + Distance(E, n, x)
<1> DEFINE f == [x \in Reachable(E, n) |-> Distance(E, a, x)]
<1>1. Reachable(E, n) \subseteq Reachable(E, a)
  BY ReachableTrans
<1>2. \A x \in Reachable(E, n) : f[x] = Distance(E, a, x)
  OBVIOUS
<1>3. n \in Reachable(E, n) /\ ClosedUnder(E, Reachable(E, n))
  BY ReachableRefl, ReachableClosed
<1> HIDE DEF f
<1>4. \A x \in Reachable(E, n) : f[x] \in Int
  BY <1>1, <1>2, DistanceFacts
<1>5. \A e \in E : e[1] \in Reachable(E, n) => f[e[2]] <= f[e[1]] + 1
  BY <1>1, <1>2, <1>3, DistanceFacts DEF ClosedUnder
<1>6. \A x \in Reachable(E, n) : f[x] <= f[n] + Distance(E, n, x)
  BY <1>4, <1>5, Potential
<1> QED BY <1>2, <1>3, <1>6

\* More edges make nothing farther.
LEMMA DistanceMono ==
  ASSUME NEW E, IsFiniteSet(E), NEW F, F \subseteq E, NEW a
  PROVE  \A x \in Reachable(F, a) : Distance(E, a, x) <= Distance(F, a, x)
<1> DEFINE f == [x \in Reachable(F, a) |-> Distance(E, a, x)]
<1>0. IsFiniteSet(F)
  BY FS_Subset
<1>1. Reachable(F, a) \subseteq Reachable(E, a)
  BY ReachableMono
<1>2. \A x \in Reachable(F, a) : f[x] = Distance(E, a, x)
  OBVIOUS
<1>3. a \in Reachable(F, a) /\ ClosedUnder(F, Reachable(F, a))
  BY ReachableRefl, ReachableClosed
<1> HIDE DEF f
<1>4. \A x \in Reachable(F, a) : f[x] \in Int
  BY <1>1, <1>2, DistanceFacts
<1>5. \A e \in F : e[1] \in Reachable(F, a) => f[e[2]] <= f[e[1]] + 1
  BY <1>1, <1>2, <1>3, DistanceFacts DEF ClosedUnder
<1>6. \A x \in Reachable(F, a) : f[x] <= f[a] + Distance(F, a, x)
  BY <1>0, <1>4, <1>5, Potential
<1>7. f[a] = 0
  BY <1>2, <1>3, DistanceFacts
<1>8. \A x \in Reachable(F, a) : Distance(F, a, x) \in Nat
  BY <1>0, DistanceFacts
<1> QED BY <1>2, <1>6, <1>7, <1>8

-----------------------------------------------------------------------------
(***************************************************************************)
(* Distances with one edge more, and with one edge less.                   *)
(***************************************************************************)

\* With a new edge p -> c, the old distance or the way through the edge,
\* whichever is there and shorter.
LEMMA DistanceAddEdge ==
  ASSUME NEW E, IsFiniteSet(E), NEW p, NEW c, p \notin Reachable(E, c), NEW a
  PROVE  LET F       == E \cup {<<p, c>>}
             via(x)  == p \in Reachable(E, a) /\ x \in Reachable(E, c)
             way(x)  == Distance(E, a, p) + Distance(E, c, x) + 1
             kept(x) == x \in Reachable(E, a) /\ (via(x) => Distance(E, a, x) <= way(x))
         IN  \A x \in Reachable(F, a) :
               Distance(F, a, x) = IF kept(x) THEN Distance(E, a, x) ELSE way(x)
<1> DEFINE F       == E \cup {<<p, c>>}
           via(x)  == p \in Reachable(E, a) /\ x \in Reachable(E, c)
           way(x)  == Distance(E, a, p) + Distance(E, c, x) + 1
           kept(x) == x \in Reachable(E, a) /\ (via(x) => Distance(E, a, x) <= way(x))
           f == [x \in Reachable(F, a) |-> IF kept(x) THEN Distance(E, a, x) ELSE way(x)]
<1>0. IsFiniteSet(F) /\ E \subseteq F
  BY FS_AddElement
<1>1. \A x : x \in Reachable(F, a) <=> x \in Reachable(E, a) \/ via(x)
  BY ReachableAddEdge
<1>2. /\ \A x \in Reachable(E, a) : Distance(E, a, x) \in Nat
      /\ \A x : via(x) => way(x) \in Nat
  BY DistanceFacts
<1>3. <<p, c>> \in F /\ <<p, c>>[1] = p /\ <<p, c>>[2] = c
  OBVIOUS
<1>4. \A e \in F : e \in E \/ (e[1] = p /\ e[2] = c)
  OBVIOUS
<1>5. \A x \in Reachable(F, a) : f[x] = IF kept(x) THEN Distance(E, a, x) ELSE way(x)
  OBVIOUS
<1> HIDE DEF F, f
<1>6. ASSUME NEW x \in Reachable(F, a)
      PROVE  /\ f[x] \in Nat
             /\ x \in Reachable(E, a) => f[x] <= Distance(E, a, x)
             /\ via(x) => f[x] <= way(x)
  <2>1. CASE kept(x)
    BY <1>2, <1>5, <2>1
  <2>2. CASE ~kept(x)
    <3>1. via(x)
      BY <1>1, <2>2
    <3> HIDE DEF way
    <3> QED BY <1>2, <1>5, <2>2, <3>1
  <2> QED BY <2>1, <2>2
<1>7. ASSUME NEW x \in Reachable(F, a)
      PROVE  Distance(F, a, x) <= f[x]
  <2>1. CASE kept(x)
    BY <1>0, <1>5, <2>1, DistanceMono
  <2>2. CASE ~kept(x)
    <3>1. p \in Reachable(E, a) /\ x \in Reachable(E, c)
      BY <1>1, <2>2
    <3>2. p \in Reachable(F, a) /\ x \in Reachable(F, c) /\ c \in Reachable(F, a)
      <4>1. p \in Reachable(F, a) /\ x \in Reachable(F, c)
        BY <1>0, <3>1, ReachableMono
      <4> QED BY <1>3, <4>1, ReachableClosed DEF ClosedUnder
    <3>3. Distance(F, a, p) <= Distance(E, a, p) /\ Distance(F, c, x) <= Distance(E, c, x)
      BY <1>0, <3>1, DistanceMono
    <3>4. Distance(F, a, c) <= Distance(F, a, p) + 1
      BY <1>0, <1>3, <3>2, DistanceFacts
    <3>5. Distance(F, a, x) <= Distance(F, a, c) + Distance(F, c, x)
      BY <1>0, <3>2, DistanceTriangle
    <3>6. /\ Distance(F, a, p) \in Nat /\ Distance(F, c, x) \in Nat
          /\ Distance(F, a, c) \in Nat /\ Distance(F, a, x) \in Nat
      BY <1>0, <3>2, DistanceFacts
    <3>7. Distance(E, a, p) \in Nat /\ Distance(E, c, x) \in Nat
      BY <3>1, DistanceFacts
    <3>8. f[x] = Distance(E, a, p) + Distance(E, c, x) + 1
      BY <1>5, <2>2
    <3> QED BY <3>3, <3>4, <3>5, <3>6, <3>7, <3>8
  <2> QED BY <2>1, <2>2
<1>8. ASSUME NEW e \in F, e[1] \in Reachable(F, a)
      PROVE  f[e[2]] <= f[e[1]] + 1
  <2>0. e[2] \in Reachable(F, a)
    BY <1>8, ReachableClosed DEF ClosedUnder
  <2>1. CASE e \in E /\ kept(e[1])
    <3>1. e[2] \in Reachable(E, a)
      BY <2>1, ReachableClosed DEF ClosedUnder
    <3>2. Distance(E, a, e[2]) <= Distance(E, a, e[1]) + 1
      BY <2>1, DistanceFacts
    <3>3. f[e[2]] <= Distance(E, a, e[2]) /\ f[e[1]] = Distance(E, a, e[1])
      BY <1>5, <1>6, <1>8, <2>0, <2>1, <3>1
    <3>4. /\ Distance(E, a, e[1]) \in Nat /\ Distance(E, a, e[2]) \in Nat
          /\ f[e[2]] \in Nat
      BY <1>2, <1>6, <2>0, <2>1, <3>1
    <3> QED BY <3>2, <3>3, <3>4
  <2>2. CASE e \in E /\ ~kept(e[1])
    <3>1. via(e[1])
      BY <1>1, <1>8, <2>2
    <3>2. via(e[2])
      BY <2>2, <3>1, ReachableClosed DEF ClosedUnder
    <3>3. Distance(E, c, e[2]) <= Distance(E, c, e[1]) + 1
      BY <2>2, <3>1, DistanceFacts
    <3>4. f[e[2]] <= way(e[2]) /\ f[e[1]] = way(e[1])
      BY <1>5, <1>6, <1>8, <2>0, <2>2, <3>2
    <3>5. /\ Distance(E, c, e[1]) \in Nat /\ Distance(E, c, e[2]) \in Nat
          /\ Distance(E, a, p) \in Nat /\ f[e[2]] \in Nat
      BY <1>6, <2>0, <3>1, <3>2, DistanceFacts
    <3> QED BY <3>3, <3>4, <3>5
  <2>3. CASE e[1] = p /\ e[2] = c
    <3>1. p \in Reachable(E, a) /\ ~via(p)
      BY <1>1, <1>8, <2>3
    <3>2. f[p] = Distance(E, a, p)
      BY <1>5, <1>8, <2>3, <3>1
    <3>3. via(c)
      BY <3>1, ReachableRefl
    <3>4. f[c] <= Distance(E, a, p) + Distance(E, c, c) + 1 /\ f[c] \in Nat
      BY <1>6, <2>0, <2>3, <3>3
    <3>5. Distance(E, c, c) = 0 /\ Distance(E, a, p) \in Nat
      BY <3>1, DistanceFacts
    <3> QED BY <2>3, <3>2, <3>4, <3>5
  <2> QED BY <1>4, <2>1, <2>2, <2>3
<1>9. ASSUME NEW x \in Reachable(F, a)
      PROVE  f[x] <= Distance(F, a, x)
  <2>1. a \in Reachable(F, a) /\ a \in Reachable(E, a)
    BY ReachableRefl
  <2>2. f[a] <= 0 /\ f[a] \in Nat
    BY <1>6, <2>1, DistanceFacts
  <2>3. \A n \in Reachable(F, a) : f[n] \in Int
    BY <1>6
  <2>4. f[x] <= f[a] + Distance(F, a, x)
    BY <1>0, <1>8, <2>3, Potential
  <2>5. Distance(F, a, x) \in Nat
    BY <1>0, DistanceFacts
  <2> QED BY <2>2, <2>4, <2>5
<1>10. ASSUME NEW x \in Reachable(F, a)
       PROVE  Distance(F, a, x) = IF kept(x) THEN Distance(E, a, x) ELSE way(x)
  <2>1. Distance(F, a, x) \in Nat /\ f[x] \in Nat
    BY <1>0, <1>6, DistanceFacts
  <2>2. Distance(F, a, x) = f[x]
    BY <1>7, <1>9, <2>1
  <2> QED BY <1>5, <2>2
<1> QED BY <1>10 DEF F

\* A unit that does not reach p is as far from everything without the edge.
LEMMA DistanceRemoveAbove ==
  ASSUME NEW E, IsFiniteSet(E), NEW p, NEW c, <<p, c>> \in E, NEW a, p \notin Reachable(E, a)
  PROVE  \A x \in Reachable(E, a) : Distance(E \ {<<p, c>>}, a, x) = Distance(E, a, x)
<1> DEFINE F == E \ {<<p, c>>}
           f == [x \in Reachable(E, a) |-> Distance(F, a, x)]
<1>0. IsFiniteSet(F) /\ F \subseteq E
  BY FS_Subset
<1>1. Reachable(F, a) = Reachable(E, a)
  BY ReachableRemoveAbove
<1>2. \A x \in Reachable(E, a) : f[x] = Distance(F, a, x)
  OBVIOUS
<1>3. \A e \in E : e[1] \in Reachable(E, a) => e \in F
  BY <<p, c>>[1] = p
<1>4. a \in Reachable(E, a) /\ ClosedUnder(E, Reachable(E, a))
  BY ReachableRefl, ReachableClosed
<1> HIDE DEF f, F
<1>5. \A x \in Reachable(E, a) : f[x] \in Int /\ Distance(F, a, x) \in Nat /\ Distance(E, a, x) \in Nat
  BY <1>0, <1>1, <1>2, DistanceFacts
<1>6. \A e \in E : e[1] \in Reachable(E, a) => f[e[2]] <= f[e[1]] + 1
  BY <1>0, <1>1, <1>2, <1>3, <1>4, DistanceFacts DEF ClosedUnder
<1>7. \A x \in Reachable(E, a) : f[x] <= f[a] + Distance(E, a, x)
  BY <1>5, <1>6, Potential
<1>8. f[a] = 0
  BY <1>0, <1>2, <1>4, DistanceFacts
<1>9. \A x \in Reachable(E, a) : Distance(E, a, x) <= Distance(F, a, x)
  BY <1>0, <1>1, DistanceMono
<1>10. \A x \in Reachable(E, a) : Distance(F, a, x) = Distance(E, a, x)
  BY <1>2, <1>5, <1>7, <1>8, <1>9
<1> QED BY <1>10 DEF F

\* A unit that c does not reach is as far from everything without the edge.
LEMMA DistanceRemoveBelow ==
  ASSUME NEW E, IsFiniteSet(E), NEW p, NEW c, <<p, c>> \in E,
         NEW a, NEW d \in Reachable(E, a), d \notin Reachable(E, c)
  PROVE  Distance(E \ {<<p, c>>}, a, d) = Distance(E, a, d)
<1> DEFINE F == E \ {<<p, c>>}
           f == [x \in Reachable(E, a) |->
                   IF x \in Reachable(E, c) THEN 0 ELSE Distance(F, a, x)]
<1>0. IsFiniteSet(F) /\ F \subseteq E
  BY FS_Subset
<1>1. \A x \in Reachable(E, a) : x \notin Reachable(E, c) => x \in Reachable(F, a)
  BY ReachableRemoveBelow
<1>2. \A x \in Reachable(E, a) : f[x] = IF x \in Reachable(E, c) THEN 0 ELSE Distance(F, a, x)
  OBVIOUS
<1>3. \A e \in E : e[2] \notin Reachable(E, c) => e \in F
  BY ReachableRefl, <<p, c>>[2] = c
<1>4. /\ a \in Reachable(E, a)
      /\ ClosedUnder(E, Reachable(E, a))
      /\ ClosedUnder(E, Reachable(E, c))
      /\ a \in Reachable(F, a)
  BY ReachableRefl, ReachableClosed
<1> HIDE DEF f, F
<1>5. \A x \in Reachable(F, a) : Distance(F, a, x) \in Nat
  BY <1>0, DistanceFacts
<1>6. \A x \in Reachable(E, a) : f[x] \in Nat
  BY <1>1, <1>2, <1>5
<1>7. ASSUME NEW e \in E, e[1] \in Reachable(E, a)
      PROVE  f[e[2]] <= f[e[1]] + 1
  <2>1. e[2] \in Reachable(E, a)
    BY <1>4, <1>7 DEF ClosedUnder
  <2>2. CASE e[2] \in Reachable(E, c)
    BY <1>2, <1>6, <1>7, <2>1, <2>2
  <2>3. CASE e[2] \notin Reachable(E, c)
    <3>1. e \in F /\ e[1] \notin Reachable(E, c)
      BY <1>3, <1>4, <2>3 DEF ClosedUnder
    <3>2. e[1] \in Reachable(F, a)
      BY <1>1, <1>7, <3>1
    <3>3. Distance(F, a, e[2]) <= Distance(F, a, e[1]) + 1
      BY <1>0, <3>1, <3>2, DistanceFacts
    <3> QED BY <1>2, <1>7, <2>1, <2>3, <3>1, <3>3
  <2> QED BY <2>2, <2>3
<1>8. f[d] <= f[a] + Distance(E, a, d)
  BY <1>6, <1>7, Potential
<1>9. f[a] = 0
  BY <1>0, <1>2, <1>4, DistanceFacts
<1>10. f[d] = Distance(F, a, d) /\ d \in Reachable(F, a)
  BY <1>1, <1>2
<1>11. Distance(E, a, d) <= Distance(F, a, d)
  BY <1>0, <1>10, DistanceMono
<1>12. Distance(E, a, d) \in Nat /\ Distance(F, a, d) \in Nat
  BY <1>5, <1>10, DistanceFacts
<1>13. Distance(F, a, d) = Distance(E, a, d)
  BY <1>8, <1>9, <1>10, <1>11, <1>12
<1> QED BY <1>13 DEF F

\* Between a unit above p and a unit below c: the ways through the exits of the
\* rederive statement's walk are no shorter than the distance without the
\* edge, and one of them is no longer.
LEMMA DistanceRemoveBetween ==
  ASSUME NEW E, IsFiniteSet(E), Acyclic(E), NEW p, NEW c, <<p, c>> \in E,
         NEW a \in Above(E, p), NEW d \in Reachable(E, c)
  PROVE  LET F      == E \ {<<p, c>>}
             walked == {e \in F : e[1] \in Above(E, p)}
             way(n) == Distance(walked, a, n) + Distance(E, n, d)
         IN  /\ IsFiniteSet(walked)
             /\ \A n \in Reachable(walked, a) \ Above(E, p) :
                  /\ n \in Endpoints(E)
                  /\ d \in Reachable(E, n) => Distance(F, a, d) <= way(n)
             /\ d \in Reachable(F, a) =>
                  \E n \in Reachable(walked, a) \ Above(E, p) :
                    d \in Reachable(E, n) /\ way(n) <= Distance(F, a, d)
<1> DEFINE F       == E \ {<<p, c>>}
           anc     == Above(E, p)
           walked  == {e \in F : e[1] \in anc}
           exits   == Reachable(walked, a) \ anc
           near(x) == x \in Reachable(walked, a) /\ Distance(walked, a, x) <= Distance(F, a, x)
           far(x)  == \E n \in exits :
                        /\ x \in Reachable(E, n)
                        /\ Distance(walked, a, n) + Distance(E, n, x) <= Distance(F, a, x)
           S == {x \in Reachable(F, a) : IF x \in anc THEN near(x) ELSE far(x)}
<1>0. IsFiniteSet(F) /\ IsFiniteSet(walked) /\ F \subseteq E /\ walked \subseteq F
  <2>1. F \subseteq E /\ walked \subseteq E /\ walked \subseteq F
    OBVIOUS
  <2> QED BY <2>1, FS_Subset
<1>1. \A x : x \in anc <=> x \in Endpoints(E) /\ p \in Reachable(E, x)
  BY DEF Above
<1>2. /\ ClosedUnder(walked, Reachable(walked, a))
      /\ ClosedUnder(F, Reachable(F, a))
      /\ a \in Reachable(walked, a) /\ a \in Reachable(F, a) /\ a \in anc
  BY ReachableRefl, ReachableClosed
<1>3. \A e \in F : e[1] \in anc => e \in walked
  OBVIOUS
<1>4. \A e \in F : e \in E /\ e[1] \in Endpoints(E) /\ e[2] \in Endpoints(E)
  BY DEF Endpoints
<1>5. d \notin anc
  BY <1>1, SidesDisjoint
<1>6. Reachable(walked, a) \subseteq Reachable(F, a)
  BY <1>0, ReachableMono
<1>7. \A n \in exits : n \in Endpoints(E)
  <2>1. Reachable(walked, a) \subseteq Endpoints(walked) \cup {a}
    BY ReachableBound
  <2>2. Endpoints(walked) \subseteq Endpoints(E)
    BY <1>0 DEF Endpoints
  <2> QED BY <1>2, <2>1, <2>2
<1>8. ASSUME NEW n \in exits
      PROVE  /\ Reachable(F, n) = Reachable(E, n)
             /\ \A x \in Reachable(E, n) : Distance(F, n, x) = Distance(E, n, x)
  BY <1>1, <1>7, ReachableRemoveAbove, DistanceRemoveAbove
<1> HIDE DEF F, anc, walked
<1>9. /\ \A x \in Reachable(walked, a) : Distance(walked, a, x) \in Nat
      /\ \A x \in Reachable(F, a) : Distance(F, a, x) \in Nat
  BY <1>0, DistanceFacts
<1>10. ASSUME NEW n \in exits, d \in Reachable(E, n)
       PROVE  Distance(F, a, d) <= Distance(walked, a, n) + Distance(E, n, d)
  <2>1. n \in Reachable(F, a) /\ d \in Reachable(F, n) /\ Distance(F, n, d) = Distance(E, n, d)
    BY <1>6, <1>8, <1>10
  <2>2. Distance(F, a, d) <= Distance(F, a, n) + Distance(F, n, d)
    BY <1>0, <2>1, DistanceTriangle
  <2>3. Distance(F, a, n) <= Distance(walked, a, n)
    BY <1>0, DistanceMono
  <2>4. d \in Reachable(F, a)
    BY <2>1, ReachableTrans
  <2>5. Distance(F, n, d) \in Nat
    BY <1>0, <2>1, DistanceFacts
  <2> QED BY <1>9, <2>1, <2>2, <2>3, <2>4, <2>5
<1>11. ASSUME NEW e \in F, e[1] \in Reachable(F, a), e[1] \in S,
              Distance(F, a, e[2]) = Distance(F, a, e[1]) + 1
       PROVE  e[2] \in S
  <2>1. e[2] \in Reachable(F, a)
    BY <1>2, <1>11 DEF ClosedUnder
  <2>2. Distance(F, a, e[1]) \in Nat
    BY <1>9, <1>11
  <2>3. CASE e[1] \in anc
    <3>1. e \in walked /\ near(e[1])
      BY <1>3, <1>11, <2>3
    <3>2. e[2] \in Reachable(walked, a)
      BY <1>2, <3>1 DEF ClosedUnder
    <3>3. Distance(walked, a, e[2]) <= Distance(walked, a, e[1]) + 1
      BY <1>0, <3>1, DistanceFacts
    <3>4. Distance(walked, a, e[2]) <= Distance(F, a, e[2])
      BY <1>9, <1>11, <2>1, <2>2, <3>1, <3>2, <3>3
    <3>5. e[2] \notin anc => far(e[2])
      <4> SUFFICES ASSUME e[2] \notin anc
                   PROVE  far(e[2])
        OBVIOUS
      <4>1. e[2] \in exits /\ e[2] \in Reachable(E, e[2])
        BY <3>2, ReachableRefl
      <4>2. Distance(E, e[2], e[2]) = 0
        BY DistanceFacts
      <4>3. Distance(walked, a, e[2]) + Distance(E, e[2], e[2]) <= Distance(F, a, e[2])
        BY <1>9, <3>2, <3>4, <4>2
      <4> QED BY <4>1, <4>3
    <3> QED BY <2>1, <3>2, <3>4, <3>5
  <2>4. CASE e[1] \notin anc
    <3>1. e[2] \notin anc
      <4>1. e[2] \in Reachable(E, e[1])
        BY <1>4, ReachableRefl, ReachableClosed DEF ClosedUnder
      <4>2. p \in Reachable(E, e[2]) => p \in Reachable(E, e[1])
        BY <4>1, ReachableTrans
      <4> QED BY <1>1, <1>4, <2>4, <4>2
    <3>2. PICK n \in exits :
            /\ e[1] \in Reachable(E, n)
            /\ Distance(walked, a, n) + Distance(E, n, e[1]) <= Distance(F, a, e[1])
      BY <1>11, <2>4
    <3>3. e[2] \in Reachable(E, n)
      BY <1>4, <3>2, ReachableClosed DEF ClosedUnder
    <3>4. Distance(E, n, e[2]) <= Distance(E, n, e[1]) + 1
      BY <1>4, <3>2, DistanceFacts
    <3>5. Distance(E, n, e[2]) \in Nat /\ Distance(E, n, e[1]) \in Nat /\ Distance(walked, a, n) \in Nat
      BY <1>9, <3>2, <3>3, DistanceFacts
    <3>6. Distance(walked, a, n) + Distance(E, n, e[2]) <= Distance(F, a, e[2])
      BY <1>11, <2>2, <3>2, <3>4, <3>5
    <3> QED BY <2>1, <3>1, <3>3, <3>6
  <2> QED BY <2>3, <2>4
<1>12. a \in S
  <2>1. Distance(walked, a, a) = 0 /\ Distance(F, a, a) = 0
    BY <1>0, DistanceFacts
  <2>2. near(a)
    BY <1>2, <2>1
  <2> QED BY <1>2, <2>2
<1>13. Reachable(F, a) \subseteq S
  <2> HIDE DEF S
  <2> QED BY <1>0, <1>11, <1>12, AlongDistance
<1>14. d \in Reachable(F, a) => far(d)
  BY <1>5, <1>13
<1> QED BY <1>0, <1>7, <1>10, <1>14 DEF F, walked, anc

-----------------------------------------------------------------------------
(***************************************************************************)
(* The depth columns.                                                      *)
(***************************************************************************)

\* Two functions are equal if they have the same domain and the same values.
LEMMA SameTable ==
  ASSUME NEW A, NEW f, NEW g, f = [r \in A |-> f[r]], g = [r \in A |-> g[r]],
         \A r \in A : f[r] = g[r]
  PROVE  f = g
OBVIOUS

LEMMA DepthsOfPair ==
  ASSUME NEW E
  PROVE  /\ DOMAIN DepthsOf(E) = ClosureOf(E)
         /\ \A a, d : <<a, d>> \in ClosureOf(E) => DepthsOf(E)[<<a, d>>] = Distance(E, a, d)
<1>1. \A a, d : <<a, d>>[1] = a /\ <<a, d>>[2] = d
  OBVIOUS
<1> QED BY <1>1 DEF DepthsOf

\* The table with the two self rows seeded still holds distances only.
LEMMA SeededDepths ==
  ASSUME NEW E, IsFiniteSet(E), NEW p, NEW c,
         NEW seeded, seeded = SeedClosureSelfRows(DepthsOf(E), p, c)
  PROVE  \A a, d : <<a, d>> \in DOMAIN seeded => seeded[<<a, d>>] = Distance(E, a, d)
<1> SUFFICES ASSUME NEW a, NEW d, <<a, d>> \in DOMAIN seeded
             PROVE  seeded[<<a, d>>] = Distance(E, a, d)
  OBVIOUS
<1>1. /\ DOMAIN seeded = ClosureOf(E) \cup {<<p, p>>, <<c, c>>}
      /\ seeded[<<a, d>>] = IF <<a, d>> \in ClosureOf(E) THEN DepthsOf(E)[<<a, d>>] ELSE 0
  BY DepthsOfPair DEF SeedClosureSelfRows
<1>2. <<a, d>> \notin ClosureOf(E) => a = d
  BY <1>1
<1>3. Distance(E, a, a) = 0
  BY DistanceFacts
<1> QED BY <1>1, <1>2, <1>3, DepthsOfPair

\* Attaching p -> c: the extend statement stores the shortest distances.
THEOREM ExtendDepths ==
  ASSUME NEW E, IsFiniteSet(E), NEW p, NEW c, p \notin Reachable(E, c)
  PROVE  ExtendClosureForEdge(DepthsOf(E), p, c) = DepthsOf(E \cup {<<p, c>>})
<1> DEFINE F       == E \cup {<<p, c>>}
           tc      == DepthsOf(E)
           seeded  == SeedClosureSelfRows(tc, p, c)
           through == StoredAncestors(seeded, p) \X StoredDescendants(seeded, c)
           via(r)  == seeded[<<r[1], p>>] + seeded[<<c, r[2]>>] + 1
           kept(r) == r \in DOMAIN seeded /\ (r \in through => seeded[r] <= via(r))
           new     == ExtendClosureForEdge(tc, p, c)
<1>1. DOMAIN tc = ClosureOf(E)
  BY DepthsOfPair
<1>2. DOMAIN new = ClosureOf(F)
  BY <1>1, ExtendExact
<1>3. new = [r \in DOMAIN seeded \cup through |-> IF kept(r) THEN seeded[r] ELSE via(r)]
  BY DEF ExtendClosureForEdge
<1>4. DOMAIN seeded = ClosureOf(E) \cup {<<p, p>>, <<c, c>>}
  BY <1>1 DEF SeedClosureSelfRows
<1>5. \A a, d : <<a, d>> \in DOMAIN seeded => seeded[<<a, d>>] = Distance(E, a, d)
  BY SeededDepths
<1>6. ASSUME NEW a, NEW d, <<a, d>> \in ClosureOf(F)
      PROVE  new[<<a, d>>] = Distance(F, a, d)
  <2>1. a \in Endpoints(F) /\ d \in Reachable(F, a)
    <3> HIDE DEF F
    <3> QED BY <1>6, ClosureOfPair
  <2>2. a \in Endpoints(E) \cup {p, c}
    BY <2>1, EndpointsAdd
  <2>3. \A x : x \notin Endpoints(E) => Reachable(E, x) = {x}
    BY ReachableIsolated
  <2>4. \A x : x \in Reachable(E, x)
    BY ReachableRefl
  <2>5. \A x, y : <<x, y>> \in ClosureOf(E) <=> x \in Endpoints(E) /\ y \in Reachable(E, x)
    BY ClosureOfPair
  <2>6. <<a, d>> \in DOMAIN seeded <=> d \in Reachable(E, a)
    <3> HIDE DEF seeded
    <3> QED BY <1>4, <2>2, <2>3, <2>4, <2>5
  <2>7. <<a, d>> \in through <=> p \in Reachable(E, a) /\ d \in Reachable(E, c)
    <3>1. a \in StoredAncestors(seeded, p) <=> a = p \/ (a \in Endpoints(E) /\ p \in Reachable(E, a))
      BY <1>1, SeededAncestors
    <3>2. d \in StoredDescendants(seeded, c) <=> d = c \/ (c \in Endpoints(E) /\ d \in Reachable(E, c))
      BY <1>1, SeededDescendants
    <3> HIDE DEF seeded
    <3> QED BY <2>3, <2>4, <3>1, <3>2
  <2>8. <<a, d>> \in through => via(<<a, d>>) = Distance(E, a, p) + Distance(E, c, d) + 1
    <3> SUFFICES ASSUME p \in Reachable(E, a), d \in Reachable(E, c)
                 PROVE  via(<<a, d>>) = Distance(E, a, p) + Distance(E, c, d) + 1
      BY <2>7
    <3>1. <<a, p>> \in DOMAIN seeded /\ <<c, d>> \in DOMAIN seeded
      <4> HIDE DEF seeded
      <4> QED BY <1>4, <2>2, <2>3, <2>5
    <3>2. seeded[<<a, p>>] = Distance(E, a, p) /\ seeded[<<c, d>>] = Distance(E, c, d)
      BY <1>5, <3>1
    <3>3. <<a, d>>[1] = a /\ <<a, d>>[2] = d
      OBVIOUS
    <3> HIDE DEF seeded
    <3> QED BY <3>2, <3>3
  <2>9. <<a, d>> \in DOMAIN seeded \cup through
    BY <1>2, <1>3, <1>6
  <2>10. new[<<a, d>>] = IF kept(<<a, d>>) THEN seeded[<<a, d>>] ELSE via(<<a, d>>)
    <3> HIDE DEF kept, seeded, through, via, new
    <3> QED BY <1>3, <2>9
  <2> DEFINE way(x)  == Distance(E, a, p) + Distance(E, c, x) + 1
             keep(x) == /\ x \in Reachable(E, a)
                        /\ p \in Reachable(E, a) /\ x \in Reachable(E, c) => Distance(E, a, x) <= way(x)
  <2>11. Distance(F, a, d) = IF keep(d) THEN Distance(E, a, d) ELSE way(d)
    BY <2>1, DistanceAddEdge
  <2>12. d \in Reachable(E, a) => seeded[<<a, d>>] = Distance(E, a, d)
    BY <1>5, <2>6
  <2>13. ~keep(d) => <<a, d>> \in through
    <3>1. d \in Reachable(E, a) \/ (p \in Reachable(E, a) /\ d \in Reachable(E, c))
      BY <2>1, ReachableAddEdge
    <3> HIDE DEF through
    <3> QED BY <2>7, <3>1
  <2>14. kept(<<a, d>>) <=> keep(d)
    <3> HIDE DEF seeded, through, via
    <3> QED BY <2>6, <2>7, <2>8, <2>12
  <2> HIDE DEF kept, keep, seeded, through, via, new, F
  <2>15. CASE keep(d)
    <3>1. d \in Reachable(E, a)
      BY <2>15 DEF keep
    <3> QED BY <2>10, <2>11, <2>12, <2>14, <2>15, <3>1
  <2>16. CASE ~keep(d)
    BY <2>8, <2>10, <2>11, <2>13, <2>14, <2>16
  <2> QED BY <2>15, <2>16
<1>7. new = [r \in ClosureOf(F) |-> new[r]]
  BY <1>2, <1>3
<1>8. DepthsOf(F) = [r \in ClosureOf(F) |-> DepthsOf(F)[r]]
  BY DEF DepthsOf
<1> HIDE DEF new, F
<1>9. \A r \in ClosureOf(F) : new[r] = DepthsOf(F)[r]
  <2> TAKE r \in ClosureOf(F)
  <2>1. r = <<r[1], r[2]>>
    BY ClosureOfShape
  <2> QED BY <1>6, <2>1, DepthsOfPair
<1>10. new = DepthsOf(F)
  BY <1>7, <1>8, <1>9, SameTable
<1> QED BY <1>10 DEF new, F

\* Detaching p -> c: what delete, rederive and prune leave are the shortest
\* distances along the remaining edges.
THEOREM ShrinkDepths ==
  ASSUME NEW E, IsFiniteSet(E), Acyclic(E), NEW p, NEW c, <<p, c>> \in E
  PROVE  ShrinkClosureForEdge(DepthsOf(E), E \ {<<p, c>>}, p, c) = DepthsOf(E \ {<<p, c>>})
<1> DEFINE F        == E \ {<<p, c>>}
           tc       == DepthsOf(E)
           anc      == Above(E, p)
           dsc      == Reachable(E, c)
           cut      == DeleteClosureSlice(tc, p, c)
           walked   == {e \in F : e[1] \in anc}
           exits(r) == {n \in Reachable(walked, r[1]) \ anc : <<n, r[2]>> \in DOMAIN cut}
           pairs    == {r \in anc \X dsc : exits(r) # {}}
           ways(r)  == {Distance(walked, r[1], n) + cut[<<n, r[2]>>] : n \in exits(r)}
           again    == RederiveClosureSlice(cut, F, p, c)
           new      == ShrinkClosureForEdge(tc, F, p, c)
<1>1. DOMAIN tc = ClosureOf(E)
  BY DepthsOfPair
<1>2. /\ DOMAIN cut = ClosureOf(E) \ (anc \X dsc)
      /\ AncSide(cut, p) = anc
      /\ DscSide(cut, c) = dsc
  BY <1>1, SidesBeforeAndAfter
<1>3. DOMAIN new = ClosureOf(F)
  <2> HIDE DEF tc
  <2> QED BY <1>1, ShrinkExact
<1>4. again = [r \in DOMAIN cut \cup pairs |-> IF r \in pairs THEN Min(ways(r)) ELSE cut[r]]
  BY <1>2 DEF RederiveClosureSlice
<1>5. /\ new = [r \in ClosureOf(F) |-> again[r]]
      /\ ClosureOf(F) \subseteq DOMAIN cut \cup pairs
  <2>1. new = PruneClosureSelfRows(again, F, p, c)
    BY DEF ShrinkClosureForEdge
  <2>2. new = [r \in DOMAIN new |-> again[r]] /\ DOMAIN new \subseteq DOMAIN again
    <3> HIDE DEF again, new
    <3> QED BY <2>1 DEF PruneClosureSelfRows, Restrict
  <2>3. DOMAIN again = DOMAIN cut \cup pairs
    <3> HIDE DEF again, pairs, ways, cut
    <3> QED BY <1>4
  <2> QED BY <1>3, <2>2, <2>3
<1>6. \A x, y : <<x, y>> \in DOMAIN cut => cut[<<x, y>>] = Distance(E, x, y)
  <2>1. \A r \in DOMAIN cut : cut[r] = tc[r]
    BY DEF DeleteClosureSlice, Restrict
  <2> QED BY <1>2, <2>1, DepthsOfPair
<1>7. IsFiniteSet(F)
  BY FS_Subset
<1> HIDE DEF tc, cut
<1>8. ASSUME NEW a \in anc, NEW d \in dsc, <<a, d>> \in ClosureOf(F), <<a, d>> \in pairs
      PROVE  again[<<a, d>>] = Distance(F, a, d)
  <2> DEFINE M == ways(<<a, d>>)
  <2>1. d \in Reachable(F, a)
    <3> HIDE DEF F
    <3> QED BY <1>8, ClosureOfPair
  <2>2. /\ IsFiniteSet(walked)
        /\ \A n \in Reachable(walked, a) \ anc :
             /\ n \in Endpoints(E)
             /\ d \in Reachable(E, n) => Distance(F, a, d) <= Distance(walked, a, n) + Distance(E, n, d)
        /\ \E n \in Reachable(walked, a) \ anc :
             /\ d \in Reachable(E, n)
             /\ Distance(walked, a, n) + Distance(E, n, d) <= Distance(F, a, d)
    BY <2>1, DistanceRemoveBetween
  <2> HIDE DEF anc, walked, F
  <2>3. \A n \in Reachable(walked, a) \ anc : <<n, d>> \in DOMAIN cut <=> d \in Reachable(E, n)
    BY <1>2, <2>2, ClosureOfPair
  <2>4. <<a, d>>[1] = a /\ <<a, d>>[2] = d
    OBVIOUS
  <2>5. \A x : x \in M <=> \E n \in Reachable(walked, a) \ anc :
                            /\ d \in Reachable(E, n)
                            /\ x = Distance(walked, a, n) + Distance(E, n, d)
    <3>1. \A n : n \in exits(<<a, d>>) <=> n \in Reachable(walked, a) \ anc /\ d \in Reachable(E, n)
      BY <2>3, <2>4
    <3>2. \A n \in exits(<<a, d>>) : cut[<<n, d>>] = Distance(E, n, d)
      BY <1>6, <2>4
    <3>3. M = {Distance(walked, a, n) + cut[<<n, d>>] : n \in exits(<<a, d>>)}
      BY <2>4
    <3> HIDE DEF M, exits
    <3> QED BY <3>1, <3>2, <3>3
  <2> HIDE DEF M
  <2>6. /\ \A n \in Reachable(walked, a) : Distance(walked, a, n) \in Nat
        /\ \A n : d \in Reachable(E, n) => Distance(E, n, d) \in Nat
        /\ Distance(F, a, d) \in Nat
    BY <1>7, <2>1, <2>2, DistanceFacts
  <2>7. M \subseteq Nat /\ M # {}
    BY <2>2, <2>5, <2>6
  <2>8. PICK m \in M : m = Min(M) /\ \A y \in M : m <= y
    BY <2>7, MinIs
  <2>9. Distance(F, a, d) <= m
    BY <2>2, <2>5
  <2>10. PICK y \in M : y <= Distance(F, a, d)
    BY <2>2, <2>5
  <2>11. m = Distance(F, a, d)
    <3>1. m \in Nat /\ y \in Nat /\ m <= y
      BY <2>7, <2>8
    <3> QED BY <2>6, <2>9, <2>10, <3>1
  <2>12. again[<<a, d>>] = Min(M)
    <3> HIDE DEF pairs, again
    <3> QED BY <1>4, <1>8 DEF M
  <2> QED BY <2>8, <2>11, <2>12
<1>9. ASSUME NEW a, NEW d, <<a, d>> \in ClosureOf(F)
      PROVE  again[<<a, d>>] = Distance(F, a, d)
  <2>1. CASE <<a, d>> \in pairs
    <3>1. a \in anc /\ d \in dsc
      BY <2>1
    <3> QED BY <1>8, <1>9, <2>1, <3>1
  <2>2. CASE <<a, d>> \notin pairs
    <3> HIDE DEF pairs, again
    <3>1. <<a, d>> \in DOMAIN cut /\ again[<<a, d>>] = cut[<<a, d>>]
      BY <1>4, <1>5, <1>9, <2>2
    <3>2. <<a, d>> \in ClosureOf(E) /\ ~(a \in anc /\ d \in dsc)
      BY <1>2, <3>1
    <3>3. a \in Endpoints(E) /\ d \in Reachable(E, a)
      BY <3>2, ClosureOfPair
    <3>4. Distance(F, a, d) = Distance(E, a, d)
      <4>1. CASE p \notin Reachable(E, a)
        BY <3>3, <4>1, DistanceRemoveAbove
      <4>2. CASE p \in Reachable(E, a)
        <5>1. d \notin Reachable(E, c)
          BY <3>2, <3>3, <4>2 DEF Above
        <5> QED BY <3>3, <5>1, DistanceRemoveBelow
      <4> QED BY <4>1, <4>2
    <3> QED BY <1>6, <3>1, <3>4
  <2> QED BY <2>1, <2>2
<1>10. new = [r \in ClosureOf(F) |-> new[r]]
  <2> HIDE DEF new, again
  <2> QED BY <1>5
<1>11. DepthsOf(F) = [r \in ClosureOf(F) |-> DepthsOf(F)[r]]
  BY DEF DepthsOf
<1> HIDE DEF new, F, again
<1>12. \A r \in ClosureOf(F) : new[r] = DepthsOf(F)[r]
  <2> TAKE r \in ClosureOf(F)
  <2>1. r = <<r[1], r[2]>>
    BY ClosureOfShape
  <2>2. new[r] = again[r]
    BY <1>5
  <2> QED BY <1>9, <2>1, <2>2, DepthsOfPair
<1>13. new = DepthsOf(F)
  BY <1>10, <1>11, <1>12, SameTable
<1> QED BY <1>13 DEF new, F, tc

\* The seeded table's depths.
LEMMA SeedDepths ==
  ASSUME NEW a, NEW b, a # b
  PROVE  DepthsOf({<<a, b>>})
           = [r \in {<<a, a>>, <<b, b>>, <<a, b>>} |-> IF r[1] = r[2] THEN 0 ELSE 1]
<1> DEFINE E == {<<a, b>>}
<1>1. ClosureOf(E) = {<<a, a>>, <<b, b>>, <<a, b>>}
  BY SeedExact
<1>2. IsFiniteSet(E)
  BY FS_Singleton
<1>3. \A e \in E : e[1] = a /\ e[2] = b
  BY <<a, b>>[1] = a, <<a, b>>[2] = b
<1>4. b \in Reachable(E, a)
  <2>1. <<a, b>> \in ClosureOf(E)
    BY <1>1
  <2> HIDE DEF E
  <2> QED BY <2>1, ClosureOfPair
<1> HIDE DEF E
<1>5. Distance(E, a, a) = 0 /\ Distance(E, b, b) = 0
  BY <1>2, DistanceFacts
<1>6. Distance(E, a, b) = 1
  BY <1>2, <1>3, <1>4, <1>5, DistanceFacts
<1>7. /\ Distance(E, <<a, a>>[1], <<a, a>>[2]) = 0
      /\ Distance(E, <<b, b>>[1], <<b, b>>[2]) = 0
      /\ Distance(E, <<a, b>>[1], <<a, b>>[2]) = 1
  BY <1>5, <1>6
<1>8. \A r \in ClosureOf(E) : Distance(E, r[1], r[2]) = IF r[1] = r[2] THEN 0 ELSE 1
  BY <1>1, <1>7
<1> QED BY <1>1, <1>8 DEF DepthsOf, E
=============================================================================
