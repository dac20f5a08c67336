--------------------------- MODULE DirectoryProofs ---------------------------
(***************************************************************************)
(* For any set of units, one transaction at a time: the closure table is   *)
(* exact in its pairs and in its depths, the hierarchy stays acyclic and   *)
(* nothing live hangs below a deleted unit.  For any number of sessions,   *)
(* interleaved at every statement and rolled back anywhere: the committed  *)
(* closure stays exact, depths included.  Both implement UnitHierarchy.    *)
(***************************************************************************)
EXTENDS DirectoryClosure, DirectoryTxns, ClosureStoreTheorems

\* The two modules mean the same by reachability.
LEMMA SameReachability ==
  ASSUME NEW E
  PROVE  /\ Hierarchy!ClosureOf(E) = ClosureOf(E)
         /\ Hierarchy!Acyclic(E) <=> Acyclic(E)
BY DEF Hierarchy!ClosureOf, Hierarchy!Acyclic, Hierarchy!Reachable, Hierarchy!ClosedSets,
       Hierarchy!ClosedUnder, Hierarchy!Endpoints,
       ClosureOf, Acyclic, Reachable, ClosedSets, ClosedUnder, Endpoints

\* What has to hold for the next attach or detach to keep the table exact.
\* ClosedUnder(edges, deleted) is LiveUnderLive one edge at a time: the children
\* of a deleted unit are deleted.  Distances are counted along finitely many edges.
IInv ==
  /\ TypeOK
  /\ ClosureExact
  /\ DepthExact
  /\ EdgesAcyclic
  /\ ClosedUnder(edges, deleted)
  /\ IsFiniteSet(edges)

LEMMA InitInvariant == Init => IInv
<1> SUFFICES ASSUME Init
             PROVE  IInv
  OBVIOUS
<1>1. Acyclic(edges) /\ ClosureOf(edges) = {<<Root, Root>>, <<Excluded, Excluded>>, <<Root, Excluded>>}
  BY SeedAssumption, SeedExact DEF Init, Seeded
<1>2. ClosureExact /\ EdgesAcyclic
  BY <1>1 DEF Init, Seeded, ClosureExact, EdgesAcyclic
<1>3. TypeOK
  <2>1. closure = [r \in DOMAIN closure |-> closure[r]]
    BY DEF Init, Seeded
  <2>2. DOMAIN closure \subseteq units \X units
    BY DEF Init, Seeded
  <2> QED BY <2>1, <2>2, SeedAssumption DEF Init, Seeded, TypeOK
<1>4. ClosedUnder(edges, deleted)
  BY DEF Init, Seeded, ClosedUnder
<1>5. DepthExact /\ IsFiniteSet(edges)
  BY SeedAssumption, SeedDepths, FS_Singleton DEF Init, Seeded, DepthExact
<1> QED BY <1>2, <1>3, <1>4, <1>5 DEF IInv

\* Attaching parent -> child under a guard that rules out a path back.
LEMMA AttachInvariant ==
  ASSUME IInv, NEW parent, NEW child, parent # child,
         parent \notin Reachable(edges, child),
         parent \notin deleted,
         closure' = ExtendClosureForEdge(closure, parent, child),
         edges' = edges \cup {<<parent, child>>},
         UNCHANGED <<deleted, inDrift>>
  PROVE  /\ ClosureExact'
         /\ DepthExact'
         /\ IsFiniteSet(edges')
         /\ EdgesAcyclic'
         /\ ClosedUnder(edges, deleted)'
         /\ closure' = [r \in DOMAIN closure' |-> closure'[r]]
<1>1. ClosureExact'
  BY ExtendExact DEF IInv, ClosureExact
<1>2. EdgesAcyclic'
  BY AcyclicAddEdge DEF IInv, EdgesAcyclic
<1>3. ClosedUnder(edges, deleted)'
  BY <<parent, child>>[1] = parent DEF IInv, ClosedUnder
<1>4. closure' = [r \in DOMAIN closure' |-> closure'[r]]
  BY DEF ExtendClosureForEdge
<1>5. closure = DepthsOf(edges) /\ ~inDrift /\ IsFiniteSet(edges)
  BY DEF IInv, DepthExact
<1>6. closure' = DepthsOf(edges') /\ IsFiniteSet(edges')
  BY <1>5, ExtendDepths, FS_AddElement
<1>7. DepthExact'
  BY <1>5, <1>6 DEF DepthExact
<1> QED BY <1>1, <1>2, <1>3, <1>4, <1>6, <1>7

LEMMA NextInvariant == IInv /\ [Next]_vars => IInv'
<1> SUFFICES ASSUME IInv, [Next]_vars
             PROVE  IInv'
  OBVIOUS
<1> USE DEF IInv
<1>1. ASSUME NEW u \in Units, CreateUnit(u)
      PROVE  IInv'
  BY <1>1 DEF CreateUnit, TypeOK, ClosureExact, DepthExact, EdgesAcyclic
<1>2. ASSUME NEW u \in Units, DeleteUnit(u)
      PROVE  IInv'
  <2>1. ClosedUnder(edges, deleted)'
    <3> SUFFICES ASSUME NEW e \in edges, e[1] \in deleted \cup {u}
                 PROVE  e[2] \in deleted \cup {u}
      BY <1>2 DEF DeleteUnit, ClosedUnder
    <3>1. CASE e[1] \in deleted
      BY <3>1 DEF ClosedUnder
    <3>2. CASE e[1] = u
      BY <1>2, <3>2 DEF DeleteUnit, HasChildren, live, TypeOK
    <3> QED BY <3>1, <3>2
  <2>2. TypeOK'
    BY <1>2 DEF DeleteUnit, TypeOK, live
  <2> QED BY <1>2, <2>1, <2>2 DEF DeleteUnit, ClosureExact, DepthExact, EdgesAcyclic
<1>3. ASSUME NEW u \in Units, NEW parent \in Units, CreateUnitWithEdge(u, parent)
      PROVE  IInv'
  <2>1. u \notin Endpoints(edges)
    BY <1>3 DEF CreateUnitWithEdge, TypeOK, Endpoints
  <2>2. parent # u /\ parent \notin Reachable(edges, u)
    BY <1>3, <2>1, ReachableIsolated DEF CreateUnitWithEdge, TypeOK, live
  <2>3. /\ ClosureExact'
        /\ DepthExact'
        /\ IsFiniteSet(edges')
        /\ EdgesAcyclic'
        /\ ClosedUnder(edges, deleted)'
        /\ closure' = [r \in DOMAIN closure' |-> closure'[r]]
    BY <1>3, <2>2, AttachInvariant DEF CreateUnitWithEdge, live
  <2>4. edges' \subseteq units' \X units'
    BY <1>3 DEF CreateUnitWithEdge, TypeOK, live
  <2>5. DOMAIN closure' \subseteq units' \X units'
    BY <2>3, <2>4, ExactBound DEF ClosureExact
  <2>6. TypeOK'
    BY <1>3, <2>3, <2>4, <2>5 DEF CreateUnitWithEdge, TypeOK
  <2> QED BY <2>3, <2>6
<1>4. ASSUME NEW child \in Units, NEW parent \in Units, AddEdge(child, parent)
      PROVE  IInv'
  <2>1. parent \notin Reachable(edges, child)
    <3>1. CASE child \in Endpoints(edges)
      BY <1>4, <3>1, ClosureOfPair DEF AddEdge, ClosureHasPath, ClosureExact
    <3>2. CASE child \notin Endpoints(edges)
      BY <1>4, <3>2, ReachableIsolated DEF AddEdge
    <3> QED BY <3>1, <3>2
  <2>2. /\ ClosureExact'
        /\ DepthExact'
        /\ IsFiniteSet(edges')
        /\ EdgesAcyclic'
        /\ ClosedUnder(edges, deleted)'
        /\ closure' = [r \in DOMAIN closure' |-> closure'[r]]
    BY <1>4, <2>1, AttachInvariant DEF AddEdge, live
  <2>3. edges' \subseteq units' \X units'
    BY <1>4 DEF AddEdge, TypeOK, live
  <2>4. DOMAIN closure' \subseteq units' \X units'
    BY <2>2, <2>3, ExactBound DEF ClosureExact
  <2>5. TypeOK'
    BY <1>4, <2>2, <2>3, <2>4 DEF AddEdge, TypeOK
  <2> QED BY <2>2, <2>5
<1>5. ASSUME NEW child \in Units, NEW parent \in Units, RemoveEdge(child, parent)
      PROVE  IInv'
  <2>1. ClosureExact'
    BY <1>5, ShrinkExact DEF RemoveEdge, ClosureExact, EdgesAcyclic
  <2>2. EdgesAcyclic'
    BY <1>5, AcyclicSubset DEF RemoveEdge, EdgesAcyclic
  <2>3. ClosedUnder(edges, deleted)'
    BY <1>5 DEF RemoveEdge, ClosedUnder
  <2>4. edges' \subseteq units' \X units'
    BY <1>5 DEF RemoveEdge, TypeOK
  <2>5. DOMAIN closure' \subseteq units' \X units'
    BY <2>1, <2>4, ExactBound DEF ClosureExact
  <2>6. closure' = [r \in DOMAIN closure' |-> closure'[r]]
    BY <1>5 DEF RemoveEdge, ShrinkClosureForEdge, PruneClosureSelfRows, Restrict
  <2>7. TypeOK'
    BY <1>5, <2>4, <2>5, <2>6 DEF RemoveEdge, TypeOK
  <2>8. closure = DepthsOf(edges) /\ ~inDrift /\ IsFiniteSet(edges) /\ Acyclic(edges)
    BY DEF DepthExact, EdgesAcyclic
  <2>9. closure' = DepthsOf(edges') /\ IsFiniteSet(edges')
    BY <1>5, <2>8, ShrinkDepths, FS_Subset DEF RemoveEdge
  <2>10. DepthExact'
    BY <1>5, <2>8, <2>9 DEF RemoveEdge, DepthExact
  <2> QED BY <2>1, <2>2, <2>3, <2>7, <2>9, <2>10
<1>6. CASE RebuildClosure
  <2>1. ClosureExact'
    BY <1>6 DEF RebuildClosure, ClosureExact, DepthsOf
  <2>2. DOMAIN closure' \subseteq units' \X units'
    BY <1>6, <2>1, ExactBound DEF RebuildClosure, ClosureExact, TypeOK
  <2>3. TypeOK'
    BY <1>6, <2>2 DEF RebuildClosure, TypeOK, DepthsOf
  <2> QED BY <1>6, <2>1, <2>3 DEF RebuildClosure, EdgesAcyclic, DepthExact
<1>7. CASE VerifyClosure
  BY <1>7 DEF VerifyClosure, TypeOK, ClosureExact, DepthExact, EdgesAcyclic
<1>8. CASE UNCHANGED vars
  BY <1>8 DEF vars, TypeOK, ClosureExact, DepthExact, EdgesAcyclic
<1> QED BY <1>1, <1>2, <1>3, <1>4, <1>5, <1>6, <1>7, <1>8 DEF Next

\* A deleted unit reaches deleted units only.
LEMMA InvariantLive == IInv => LiveUnderLive
<1> SUFFICES ASSUME IInv, NEW r \in DOMAIN closure, r[2] \in live
             PROVE  r[1] \in live
  BY DEF LiveUnderLive
<1>1. r[1] \in units /\ r[2] \in Reachable(edges, r[1])
  BY ClosureOfShape, ClosureOfPair DEF IInv, TypeOK, ClosureExact
<1>2. r[1] \in deleted => Reachable(edges, r[1]) \subseteq deleted
  BY ReachableLeast DEF IInv
<1> QED BY <1>1, <1>2 DEF live
-----------------------------------------------------------------------------
\* The inductive invariant holds in every reachable state.
THEOREM Invariant == Spec => []IInv
BY InitInvariant, NextInvariant, PTL DEF Spec

\* The tables keep their shapes, whatever is created, attached and detached.
THEOREM TypeCorrect == Spec => []TypeOK
BY Invariant, PTL DEF IInv

\* The incremental statements never lose and never keep a pair wrongly.
THEOREM ClosureIsExact == Spec => []ClosureExact
<1>1. IInv => ClosureExact
  BY DEF IInv
<1> QED BY <1>1, Invariant, PTL

\* Nor do they ever leave a depth that is not a shortest distance: after any
\* sequence of attaches and detaches the table is the one a rebuild would
\* write, and the health probe finds no drift.
THEOREM DepthsAreExact == Spec => []DepthExact
<1>1. IInv => DepthExact
  BY DEF IInv
<1> QED BY <1>1, Invariant, PTL

\* The guard on the closure table keeps the edge table acyclic.
THEOREM NoCycle == Spec => []EdgesAcyclic
<1>1. IInv => EdgesAcyclic
  BY DEF IInv
<1> QED BY <1>1, Invariant, PTL

\* A soft-deleted unit never sits above a live one.
THEOREM NothingLiveBelowDeleted == Spec => []LiveUnderLive
BY Invariant, InvariantLive, PTL
-----------------------------------------------------------------------------
(***************************************************************************)
(* The directory implements the abstract hierarchy: initial states map to  *)
(* initial states, and each transaction maps to an attach, to a detach or  *)
(* to no step at all.                                                      *)
(***************************************************************************)

LEMMA HierarchyInit == Init => Hierarchy!Init
<1> SUFFICES ASSUME Init
             PROVE  Hierarchy!Init
  OBVIOUS
<1>1. IInv
  BY InitInvariant
<1> QED BY <1>1, SameReachability DEF Hierarchy!Init, IInv, TypeOK, ClosureExact, EdgesAcyclic

LEMMA HierarchyStep == IInv /\ IInv' /\ [Next]_vars => [Hierarchy!Next]_(Hierarchy!vars)
<1> SUFFICES ASSUME IInv, IInv', [Next]_vars
             PROVE  [Hierarchy!Next]_(Hierarchy!vars)
  OBVIOUS
<1> USE DEF Hierarchy!vars
<1>0. /\ DOMAIN closure' = Hierarchy!ClosureOf(edges')
      /\ DOMAIN closure = Hierarchy!ClosureOf(edges)
  BY SameReachability DEF IInv, ClosureExact
<1>1. ASSUME NEW u \in Units, CreateUnit(u) \/ DeleteUnit(u)
      PROVE  UNCHANGED Hierarchy!vars
  BY <1>1 DEF CreateUnit, DeleteUnit
<1>2. ASSUME NEW u \in Units, NEW parent \in Units, CreateUnitWithEdge(u, parent)
      PROVE  Hierarchy!Attach(parent, u)
  <2>1. parent # u
    BY <1>2 DEF CreateUnitWithEdge, live
  <2>2. <<u, parent>> \notin DOMAIN closure
    BY <1>2 DEF CreateUnitWithEdge, IInv, TypeOK
  <2> QED BY <1>0, <1>2, <2>1, <2>2 DEF CreateUnitWithEdge, Hierarchy!Attach
<1>3. ASSUME NEW child \in Units, NEW parent \in Units, AddEdge(child, parent)
      PROVE  Hierarchy!Attach(parent, child)
  BY <1>0, <1>3 DEF AddEdge, ClosureHasPath, Hierarchy!Attach
<1>4. ASSUME NEW child \in Units, NEW parent \in Units, RemoveEdge(child, parent)
      PROVE  Hierarchy!Detach(parent, child)
  BY <1>0, <1>4 DEF RemoveEdge, Hierarchy!Detach
<1>5. CASE RebuildClosure
  BY <1>0, <1>5 DEF RebuildClosure
<1>6. CASE VerifyClosure
  BY <1>6 DEF VerifyClosure
<1>7. CASE UNCHANGED vars
  BY <1>7 DEF vars
<1> QED BY <1>1, <1>2, <1>3, <1>4, <1>5, <1>6, <1>7 DEF Next, Hierarchy!Next

\* Every behaviour of the directory is a behaviour of the abstract hierarchy:
\* a reader of the closure table cannot tell it from reachability itself.
THEOREM Implements == Spec => ImplementsHierarchy
BY HierarchyInit, HierarchyStep, Invariant, PTL
   DEF Spec, ImplementsHierarchy, Hierarchy!Spec

-----------------------------------------------------------------------------
(***************************************************************************)
(* The transactions interleaved (DirectoryTxns).                           *)
(***************************************************************************)
\* Whoever is past the lock holds it, on units that are there; and the answer of
\* the cycle guard holds for as long as the attach has not been committed.
TxnsOnTrack ==
  \A t \in Txns :
    /\ txn[t].op \in {"create", "add"} => txn[t].parent \in units
    /\ txn[t].op = "add" => txn[t].child \in units /\ txn[t].child # txn[t].parent
    /\ txn[t].op = "delete" => txn[t].child \in units
    /\ txn[t].step \in {"locked", "guarded"} => lock = t
    /\ txn[t].step = "guarded" => <<txn[t].child, txn[t].parent>> \notin DOMAIN closure

Exact ==
  /\ DOMAIN closure = ClosureOf(edges)
  /\ Acyclic(edges)
  /\ closure = DepthsOf(edges)
  /\ IsFiniteSet(edges)

TxnInv == TxnTypeOK /\ Exact /\ TxnsOnTrack

LEMMA TxnInitInvariant == TxnInit => TxnInv
<1> SUFFICES ASSUME TxnInit
             PROVE  TxnInv
  OBVIOUS
<1>1. Acyclic(edges) /\ ClosureOf(edges) = {<<Root, Root>>, <<Excluded, Excluded>>, <<Root, Excluded>>}
  BY SeedAssumption, SeedExact DEF TxnInit, Seeded
<1>2. Exact
  BY <1>1, SeedAssumption, SeedDepths, FS_Singleton DEF TxnInit, Seeded, Exact
<1>3. DOMAIN closure \subseteq units \X units
  BY <1>1, <1>2 DEF TxnInit, Seeded, Exact
<1>4. TxnTypeOK
  BY <1>3, SeedAssumption DEF TxnInit, Seeded, TxnTypeOK, Idle
<1>5. TxnsOnTrack
  BY DEF TxnInit, Seeded, TxnsOnTrack, Idle
<1> QED BY <1>2, <1>4, <1>5 DEF TxnInv

-----------------------------------------------------------------------------
\* One session moves and no table changes.
LEMMA OnlyTxns ==
  ASSUME TxnInv, UNCHANGED tables, TxnTypeOK', TxnsOnTrack'
  PROVE  TxnInv'
BY DEF TxnInv, tables, Exact

\* A session begins: it has read the units it names.
LEMMA StartKeepsInvariant ==
  ASSUME TxnInv, NEW t \in Txns,
         NEW op \in {"create", "add", "remove", "delete"}, NEW step \in {"waiting", "checked"},
         NEW child \in Units \cup {NoUnit}, NEW parent \in Units \cup {NoUnit},
         op \in {"create", "add"} => parent \in units,
         op = "add" => child \in units /\ child # parent,
         op = "delete" => child \in units,
         Start(t, op, step, child, parent)
  PROVE  TxnInv'
<1>1. TxnTypeOK'
  BY DEF TxnInv, TxnTypeOK, Start, tables
<1>2. TxnsOnTrack'
  BY DEF TxnInv, TxnTypeOK, TxnsOnTrack, Start, tables
<1> QED BY <1>1, <1>2, OnlyTxns DEF Start

\* A session ends: nobody else's lock is touched.  Tables only grow for the others.
LEMMA ReleaseKeepsTxns ==
  ASSUME TxnInv, NEW t \in Txns, Release(t),
         units \subseteq units',
         UNCHANGED closure \/ lock = t
  PROVE  /\ TxnsOnTrack'
         /\ lock' \in Txns \cup {NoTxn}
         /\ txn' \in [Txns -> [op     : {"none", "create", "add", "remove", "delete"},
                               step   : {"idle", "waiting", "locked", "guarded", "checked"},
                               child  : Units \cup {NoUnit},
                               parent : Units \cup {NoUnit}]]
<1>1. txn'[t] = Idle /\ \A s \in Txns \ {t} : txn'[s] = txn[s]
  BY DEF TxnInv, TxnTypeOK, Release
<1>2. TxnsOnTrack'
  <2> SUFFICES ASSUME NEW s \in Txns
               PROVE  (/\ txn[s].op \in {"create", "add"} => txn[s].parent \in units
                       /\ txn[s].op = "add" => txn[s].child \in units /\ txn[s].child # txn[s].parent
                       /\ txn[s].op = "delete" => txn[s].child \in units
                       /\ txn[s].step \in {"locked", "guarded"} => lock = s
                       /\ txn[s].step = "guarded" => <<txn[s].child, txn[s].parent>> \notin DOMAIN closure)'
    BY DEF TxnsOnTrack
  <2>1. CASE s = t
    BY <1>1, <2>1 DEF Idle
  <2>2. CASE s # t
    BY <1>1, <2>2 DEF TxnInv, TxnsOnTrack, Release
  <2> QED BY <2>1, <2>2
<1> QED BY <1>2 DEF TxnInv, TxnTypeOK, Release, Idle

\* Attaching under a guard that rules out a path back.
LEMMA AttachKeepsExact ==
  ASSUME Exact, NEW parent, NEW child, parent # child,
         <<child, parent>> \notin DOMAIN closure,
         edges' = edges \cup {<<parent, child>>},
         closure' = ExtendClosureForEdge(closure, parent, child)
  PROVE  Exact'
<1>1. parent \notin Reachable(edges, child)
  BY ClosureOfPair, ReachableIsolated DEF Exact
<1>2. closure' = DepthsOf(edges') /\ IsFiniteSet(edges')
  BY <1>1, ExtendDepths, FS_AddElement DEF Exact
<1>3. DOMAIN closure' = ClosureOf(edges')
  BY ExtendExact DEF Exact
<1>4. Acyclic(edges')
  BY <1>1, AcyclicAddEdge DEF Exact
<1> QED BY <1>2, <1>3, <1>4 DEF Exact

\* Exact closures over edges between units have rows of units only.
LEMMA ExactTables ==
  ASSUME Exact', edges' \subseteq units' \X units'
  PROVE  (DOMAIN closure \subseteq units \X units)'
BY ExactBound DEF Exact

LEMMA CreateKeepsInvariant ==
  ASSUME TxnInv, NEW t \in Txns, CommitCreate(t)
  PROVE  TxnInv'
<1>1. PICK child \in Units \ units :
        /\ closure' = ExtendClosureForEdge(closure, txn[t].parent, child)
        /\ units' = units \cup {child}
        /\ edges' = edges \cup {<<txn[t].parent, child>>}
  BY DEF CommitCreate
<1>2. txn[t].parent \in units /\ lock = t
  BY DEF TxnInv, TxnsOnTrack, CommitCreate, At
<1>3. <<child, txn[t].parent>> \notin DOMAIN closure
  BY <1>1 DEF TxnInv, TxnTypeOK
<1>4. Exact'
  BY <1>1, <1>2, <1>3, AttachKeepsExact DEF TxnInv
<1>5. edges' \subseteq units' \X units'
  BY <1>1, <1>2 DEF TxnInv, TxnTypeOK
<1>6. /\ TxnsOnTrack'
      /\ lock' \in Txns \cup {NoTxn}
      /\ txn' \in [Txns -> [op     : {"none", "create", "add", "remove", "delete"},
                            step   : {"idle", "waiting", "locked", "guarded", "checked"},
                            child  : Units \cup {NoUnit},
                            parent : Units \cup {NoUnit}]]
  BY <1>1, <1>2, ReleaseKeepsTxns DEF CommitCreate
<1>7. units' \subseteq Units /\ deleted' \subseteq units'
  BY <1>1 DEF TxnInv, TxnTypeOK, CommitCreate
<1> QED BY <1>4, <1>5, <1>6, <1>7, ExactTables DEF TxnInv, TxnTypeOK

LEMMA AddKeepsInvariant ==
  ASSUME TxnInv, NEW t \in Txns, CommitAdd(t)
  PROVE  TxnInv'
<1> DEFINE edge == <<txn[t].parent, txn[t].child>>
<1>1. /\ txn[t].parent \in units /\ txn[t].child \in units /\ txn[t].child # txn[t].parent
      /\ lock = t /\ <<txn[t].child, txn[t].parent>> \notin DOMAIN closure
  BY DEF TxnInv, TxnsOnTrack, CommitAdd, At
<1>2. UNCHANGED <<units, deleted>>
  BY DEF CommitAdd, tables
<1>3. Exact' /\ edges' \subseteq units' \X units'
  <2>1. CASE edge \in edges
    BY <2>1 DEF CommitAdd, tables, TxnInv, TxnTypeOK, Exact
  <2>2. CASE edge \notin edges
    <3>1. /\ edges' = edges \cup {edge}
          /\ closure' = ExtendClosureForEdge(closure, txn[t].parent, txn[t].child)
      BY <2>2 DEF CommitAdd
    <3> QED BY <1>1, <1>2, <3>1, AttachKeepsExact DEF TxnInv, TxnTypeOK
  <2> QED BY <2>1, <2>2
<1>4. Release(t)
  BY DEF CommitAdd
<1>5. /\ TxnsOnTrack'
      /\ lock' \in Txns \cup {NoTxn}
      /\ txn' \in [Txns -> [op     : {"none", "create", "add", "remove", "delete"},
                            step   : {"idle", "waiting", "locked", "guarded", "checked"},
                            child  : Units \cup {NoUnit},
                            parent : Units \cup {NoUnit}]]
  BY <1>1, <1>2, <1>4, ReleaseKeepsTxns
<1> QED BY <1>2, <1>3, <1>5, ExactTables DEF TxnInv, TxnTypeOK

LEMMA RemoveKeepsInvariant ==
  ASSUME TxnInv, NEW t \in Txns, CommitRemove(t)
  PROVE  TxnInv'
<1> DEFINE edge == <<txn[t].parent, txn[t].child>>
<1>1. lock = t
  BY DEF TxnInv, TxnsOnTrack, CommitRemove, At
<1>2. UNCHANGED <<units, deleted>>
  BY DEF CommitRemove, tables
<1>3. Exact' /\ edges' \subseteq units' \X units'
  <2>1. CASE edge \notin edges
    BY <2>1 DEF CommitRemove, tables, TxnInv, TxnTypeOK, Exact
  <2>2. CASE edge \in edges
    <3>1. /\ edges' = edges \ {edge}
          /\ closure' = ShrinkClosureForEdge(closure, edges', txn[t].parent, txn[t].child)
      BY <2>2 DEF CommitRemove
    <3>2. DOMAIN closure' = ClosureOf(edges')
      BY <2>2, <3>1, ShrinkExact DEF TxnInv, Exact
    <3>3. Acyclic(edges')
      BY <3>1, AcyclicSubset DEF TxnInv, Exact
    <3>4. closure = DepthsOf(edges) /\ IsFiniteSet(edges) /\ Acyclic(edges)
      BY DEF TxnInv, Exact
    <3>5. closure' = DepthsOf(edges') /\ IsFiniteSet(edges')
      BY <2>2, <3>1, <3>4, ShrinkDepths, FS_Subset
    <3> QED BY <1>2, <3>1, <3>2, <3>3, <3>5 DEF TxnInv, TxnTypeOK, Exact
  <2> QED BY <2>1, <2>2
<1>4. Release(t)
  BY DEF CommitRemove
<1>5. /\ TxnsOnTrack'
      /\ lock' \in Txns \cup {NoTxn}
      /\ txn' \in [Txns -> [op     : {"none", "create", "add", "remove", "delete"},
                            step   : {"idle", "waiting", "locked", "guarded", "checked"},
                            child  : Units \cup {NoUnit},
                            parent : Units \cup {NoUnit}]]
  BY <1>1, <1>2, <1>4, ReleaseKeepsTxns
<1> QED BY <1>2, <1>3, <1>5, ExactTables DEF TxnInv, TxnTypeOK

\* The steps that commit nothing to the edges.
LEMMA OthersKeepInvariant ==
  ASSUME TxnInv, NEW t \in Txns,
         LockGraphForClosure(t) \/ CheckCycle(t) \/ CommitDelete(t) \/ Rollback(t)
  PROVE  TxnInv'
<1>1. CASE LockGraphForClosure(t)
  <2>1. TxnTypeOK'
    BY <1>1 DEF TxnInv, TxnTypeOK, LockGraphForClosure, tables
  <2>2. TxnsOnTrack'
    BY <1>1, TxnAssumption DEF TxnInv, TxnTypeOK, TxnsOnTrack, LockGraphForClosure, tables
  <2> QED BY <1>1, <2>1, <2>2, OnlyTxns DEF LockGraphForClosure
<1>2. CASE CheckCycle(t) /\ ~ClosureHasPath(closure, txn[t].child, txn[t].parent)
  <2>1. txn' = [txn EXCEPT ![t].step = "guarded"] /\ UNCHANGED lock /\ UNCHANGED tables
    BY <1>2 DEF CheckCycle
  <2>2. txn[t].step = "locked" /\ <<txn[t].child, txn[t].parent>> \notin DOMAIN closure
    BY <1>2 DEF CheckCycle, At, ClosureHasPath
  <2>3. TxnTypeOK'
    BY <2>1 DEF TxnInv, TxnTypeOK, tables
  <2>4. TxnsOnTrack'
    BY <2>1, <2>2 DEF TxnInv, TxnTypeOK, TxnsOnTrack, tables
  <2> QED BY <2>1, <2>3, <2>4, OnlyTxns
<1>3. CASE (CheckCycle(t) /\ ClosureHasPath(closure, txn[t].child, txn[t].parent)) \/ Rollback(t)
  <2>1. Release(t) /\ UNCHANGED tables
    BY <1>3 DEF CheckCycle, Rollback
  <2>2. /\ TxnsOnTrack'
        /\ lock' \in Txns \cup {NoTxn}
        /\ txn' \in [Txns -> [op     : {"none", "create", "add", "remove", "delete"},
                              step   : {"idle", "waiting", "locked", "guarded", "checked"},
                              child  : Units \cup {NoUnit},
                              parent : Units \cup {NoUnit}]]
    BY <2>1, ReleaseKeepsTxns DEF tables
  <2> QED BY <2>1, <2>2, OnlyTxns DEF TxnInv, TxnTypeOK, tables
<1>4. CASE CommitDelete(t)
  <2>1. /\ TxnsOnTrack'
        /\ lock' \in Txns \cup {NoTxn}
        /\ txn' \in [Txns -> [op     : {"none", "create", "add", "remove", "delete"},
                              step   : {"idle", "waiting", "locked", "guarded", "checked"},
                              child  : Units \cup {NoUnit},
                              parent : Units \cup {NoUnit}]]
    BY <1>4, ReleaseKeepsTxns DEF CommitDelete
  <2> QED BY <1>4, <2>1 DEF TxnInv, TxnTypeOK, Exact, CommitDelete, live
<1> QED BY <1>1, <1>2, <1>3, <1>4

LEMMA TxnInductive == TxnInv /\ [TxnNext]_txnVars => TxnInv'
<1> SUFFICES ASSUME TxnInv, [TxnNext]_txnVars
             PROVE  TxnInv'
  OBVIOUS
<1>1. ASSUME NEW t \in Txns, NEW parent \in Units, StartCreate(t, parent)
      PROVE  TxnInv'
  BY <1>1, StartKeepsInvariant DEF StartCreate, live
<1>2. ASSUME NEW t \in Txns, NEW child \in Units, NEW parent \in Units,
             StartAdd(t, child, parent) \/ StartRemove(t, child, parent)
      PROVE  TxnInv'
  BY <1>2, StartKeepsInvariant DEF StartAdd, StartRemove, live
<1>3. ASSUME NEW t \in Txns, NEW u \in units, CheckChildren(t, u)
      PROVE  TxnInv'
  BY <1>3, StartKeepsInvariant DEF CheckChildren, TxnInv, TxnTypeOK
<1>4. ASSUME NEW t \in Txns, LockGraphForClosure(t) \/ Finish(t) \/ Rollback(t)
      PROVE  TxnInv'
  BY <1>4, CreateKeepsInvariant, AddKeepsInvariant, RemoveKeepsInvariant, OthersKeepInvariant DEF Finish
<1>5. ASSUME NEW u \in Units, InsertUnit(u)
      PROVE  TxnInv'
  BY <1>5 DEF InsertUnit, TxnInv, TxnTypeOK, Exact, TxnsOnTrack
<1>6. CASE UNCHANGED txnVars
  BY <1>6 DEF txnVars, tables, TxnInv, TxnTypeOK, Exact, TxnsOnTrack
<1> QED BY <1>1, <1>2, <1>3, <1>4, <1>5, <1>6 DEF TxnNext

-----------------------------------------------------------------------------
\* The inductive invariant holds in every reachable state.
THEOREM TxnInvariant == TxnSpec => []TxnInv
BY TxnInitInvariant, TxnInductive, PTL DEF TxnSpec

\* However the transactions interleave, what is committed is what a rebuild
\* would write, depths included.
THEOREM TxnDepthsAreExact == TxnSpec => [](closure = DepthsOf(edges))
<1>1. TxnInv => closure = DepthsOf(edges)
  BY DEF TxnInv, Exact
<1> QED BY <1>1, TxnInvariant, PTL

\* Tables, lock and sessions keep their shapes.
THEOREM TxnTypeCorrect == TxnSpec => []TxnTypeOK
BY TxnInvariant, PTL DEF TxnInv

-----------------------------------------------------------------------------
(***************************************************************************)
(* The refinement: a commit is one attach or one detach, all else nothing. *)
(***************************************************************************)
LEMMA TxnHierarchyInit == TxnInit => Hierarchy!Init
<1> SUFFICES ASSUME TxnInit
             PROVE  Hierarchy!Init
  OBVIOUS
<1>1. TxnInv
  BY TxnInitInvariant
<1> QED BY <1>1, SameReachability DEF Hierarchy!Init, TxnInv, TxnTypeOK, Exact

LEMMA TxnHierarchyStep == TxnInv /\ TxnInv' /\ [TxnNext]_txnVars => [Hierarchy!Next]_(Hierarchy!vars)
<1> SUFFICES ASSUME TxnInv, TxnInv', [TxnNext]_txnVars
             PROVE  [Hierarchy!Next]_(Hierarchy!vars)
  OBVIOUS
<1> USE DEF Hierarchy!vars
<1>0. DOMAIN closure' = Hierarchy!ClosureOf(edges')
  BY SameReachability DEF TxnInv, Exact
<1>1. ASSUME NEW t \in Txns, CommitCreate(t)
      PROVE  Hierarchy!Next
  <2>1. PICK child \in Units \ units : edges' = edges \cup {<<txn[t].parent, child>>}
    BY <1>1 DEF CommitCreate
  <2>2. txn[t].parent \in units /\ txn[t].parent \in Units
    BY <1>1 DEF TxnInv, TxnTypeOK, TxnsOnTrack, CommitCreate, At
  <2>3. txn[t].parent # child /\ <<child, txn[t].parent>> \notin DOMAIN closure
    BY <2>1, <2>2 DEF TxnInv, TxnTypeOK
  <2>4. Hierarchy!Attach(txn[t].parent, child)
    BY <1>0, <2>1, <2>3 DEF Hierarchy!Attach
  <2> QED BY <2>2, <2>4 DEF Hierarchy!Next
<1>2. ASSUME NEW t \in Txns, CommitAdd(t)
      PROVE  Hierarchy!Next \/ UNCHANGED <<edges, closure>>
  <2>1. /\ txn[t].parent \in Units /\ txn[t].child \in Units /\ txn[t].child # txn[t].parent
        /\ <<txn[t].child, txn[t].parent>> \notin DOMAIN closure
    BY <1>2 DEF TxnInv, TxnTypeOK, TxnsOnTrack, CommitAdd, At
  <2>2. CASE edges' = edges \cup {<<txn[t].parent, txn[t].child>>}
    BY <1>0, <2>1, <2>2 DEF Hierarchy!Attach, Hierarchy!Next
  <2> QED BY <1>2, <2>2 DEF CommitAdd, tables
<1>3. ASSUME NEW t \in Txns, CommitRemove(t)
      PROVE  Hierarchy!Next \/ UNCHANGED <<edges, closure>>
  <2>1. CASE <<txn[t].parent, txn[t].child>> \in edges
    <3>1. txn[t].parent \in Units /\ txn[t].child \in Units
      BY <2>1 DEF TxnInv, TxnTypeOK
    <3>2. edges' = edges \ {<<txn[t].parent, txn[t].child>>}
      BY <1>3, <2>1 DEF CommitRemove
    <3> QED BY <1>0, <3>1, <3>2 DEF Hierarchy!Detach, Hierarchy!Next
  <2> QED BY <1>3, <2>1 DEF CommitRemove, tables
<1>4. ASSUME NEW t \in Txns,
             CheckCycle(t) \/ CommitDelete(t) \/ Rollback(t) \/ LockGraphForClosure(t)
      PROVE  UNCHANGED <<edges, closure>>
  BY <1>4 DEF CheckCycle, CommitDelete, Rollback, LockGraphForClosure, tables
<1>5. ASSUME NEW t \in Txns, NEW child, NEW parent,
             StartCreate(t, parent) \/ StartAdd(t, child, parent) \/ StartRemove(t, child, parent)
               \/ CheckChildren(t, child)
      PROVE  UNCHANGED <<edges, closure>>
  BY <1>5 DEF StartCreate, StartAdd, StartRemove, CheckChildren, Start, tables
<1>6. ASSUME NEW u \in Units, InsertUnit(u)
      PROVE  UNCHANGED <<edges, closure>>
  BY <1>6 DEF InsertUnit
<1>7. CASE UNCHANGED txnVars
  BY <1>7 DEF txnVars, tables
<1> QED BY <1>1, <1>2, <1>3, <1>4, <1>5, <1>6, <1>7 DEF TxnNext, Finish

\* However the transactions of any number of sessions interleave, what readers
\* see is one attach or one detach at a time, and never a cycle.
THEOREM TxnsImplement == TxnSpec => ImplementsHierarchy
BY TxnHierarchyInit, TxnHierarchyStep, TxnInvariant, PTL
   DEF TxnSpec, ImplementsHierarchy, Hierarchy!Spec
=============================================================================
