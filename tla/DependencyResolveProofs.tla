------------------------ MODULE DependencyResolveProofs ------------------------
(***************************************************************************)
(* DependencyResolve implements StartOrder, for every set of units and all *)
(* After= and Requires= lists.                                             *)
(***************************************************************************)
EXTENDS DependencyResolve, FiniteSetTheorems, TLAPS

-------------------------------------------------------------------------------
(* Lists                                                                   *)

\* What Append adds to a list.
LEMMA InAppend ==
  ASSUME NEW S, NEW s \in Seq(S), NEW x \in S, NEW y
  PROVE  InList(Append(s, x), y) <=> InList(s, y) \/ y = x
<1>1. /\ Append(s, x) \in Seq(S) /\ Len(Append(s, x)) = Len(s) + 1
      /\ \A k \in 1..Len(s) : Append(s, x)[k] = s[k]
      /\ Append(s, x)[Len(s) + 1] = x
  OBVIOUS
<1>2. Len(s) \in Nat
  OBVIOUS
<1>3. \A k \in 1..(Len(s) + 1) : k \in 1..Len(s) \/ k = Len(s) + 1
  BY <1>2
<1>4. \A k \in 1..Len(s) : k \in 1..(Len(s) + 1)
  BY <1>2
<1>5. Len(s) + 1 \in 1..(Len(s) + 1)
  BY <1>2
<1> QED
  BY <1>1, <1>3, <1>4, <1>5 DEF InList

\* What is in a list is its head or in its tail.
LEMMA InTail ==
  ASSUME NEW S, NEW s \in Seq(S), s # <<>>, NEW y
  PROVE  InList(s, y) <=> y = Head(s) \/ InList(Tail(s), y)
<1>1. /\ Len(s) \in Nat \ {0} /\ Len(Tail(s)) = Len(s) - 1
      /\ Head(s) = s[1]
      /\ \A k \in 1..(Len(s) - 1) : Tail(s)[k] = s[k + 1]
  OBVIOUS
<1>2. \A k \in 1..Len(s) : k = 1 \/ k - 1 \in 1..(Len(s) - 1)
  BY <1>1
<1>3. \A k \in 1..(Len(s) - 1) : k + 1 \in 1..Len(s)
  BY <1>1
<1>4. InList(s, y) => y = Head(s) \/ InList(Tail(s), y)
  <2> SUFFICES ASSUME NEW k \in 1..Len(s), s[k] = y, k # 1
               PROVE  InList(Tail(s), y)
    BY <1>1 DEF InList
  <2>1. k - 1 \in 1..(Len(s) - 1) /\ (k - 1) + 1 = k
    BY <1>2
  <2>2. Tail(s)[k - 1] = y
    BY <2>1, <1>1
  <2> QED
    BY <2>1, <2>2, <1>1 DEF InList
<1>5. InList(s, Head(s))
  BY <1>1 DEF InList
<1>6. InList(Tail(s), y) => InList(s, y)
  BY <1>1, <1>3 DEF InList
<1> QED
  BY <1>4, <1>5, <1>6

NoDuplicates(s) == \A j, k \in 1..Len(s) : s[j] = s[k] => j = k

\* A new element keeps a list free of duplicates.
LEMMA AppendNoDuplicates ==
  ASSUME NEW S, NEW s \in Seq(S), NEW x \in S, NoDuplicates(s), ~InList(s, x)
  PROVE  NoDuplicates(Append(s, x))
BY DEF NoDuplicates, InList

\* The tail of a list free of duplicates is one, and the head is not in it.
LEMMA TailNoDuplicates ==
  ASSUME NEW S, NEW s \in Seq(S), s # <<>>, NoDuplicates(s)
  PROVE  NoDuplicates(Tail(s)) /\ ~InList(Tail(s), Head(s))
BY DEF NoDuplicates, InList

-------------------------------------------------------------------------------
(* Edges                                                                   *)

ListTypes ==
  /\ after \in [Unit -> Seq(Name)]
  /\ requires_ \in [Unit -> Seq(Name)]

\* The mentions in one list are finitely many.
LEMMA MentionsFinite ==
  ASSUME NEW list \in Seq(Name), NEW u, NEW key
  PROVE  IsFiniteSet({ [from |-> list[k], to |-> u, key |-> key, pos |-> k] :
                         k \in 1..Len(list) })
<1> DEFINE f == [k \in 1..Len(list) |->
                   [from |-> list[k], to |-> u, key |-> key, pos |-> k]]
           E == { [from |-> list[k], to |-> u, key |-> key, pos |-> k] :
                    k \in 1..Len(list) }
<1>1. f \in Surjection(1..Len(list), E)
  BY DEF Surjection
<1>2. IsFiniteSet(1..Len(list))
  BY FS_Interval
<1> QED
  BY <1>1, <1>2, FS_Surjection

\* Only finitely many edges are built from finite lists.
LEMMA EdgesFinite ==
  ASSUME ListTypes, NEW u \in Unit
  PROVE  IsFiniteSet(EdgesTo(u))
<1> DEFINE E(list, key) ==
             { [from |-> list[k], to |-> u, key |-> key, pos |-> k] :
                 k \in 1..Len(list) }
<1>1. after[u] \in Seq(Name) /\ requires_[u] \in Seq(Name)
  BY DEF ListTypes
<1>2. IsFiniteSet(E(after[u], "After")) /\ IsFiniteSet(E(requires_[u], "Requires"))
  BY <1>1, MentionsFinite
<1>3. IsFiniteSet(E(after[u], "After") \cup E(requires_[u], "Requires"))
  BY <1>2, FS_Union
<1>4. EdgesTo(u) \subseteq E(after[u], "After") \cup E(requires_[u], "Requires")
  BY DEF EdgesTo, graph, AfterEdges, RequiresEdges
<1> QED
  BY <1>3, <1>4, FS_Subset

\* The edges to a unit come from its predecessors, and from all of them.
LEMMA EdgesArePredecessors ==
  ASSUME ListTypes, NEW u \in Unit
  PROVE  /\ \A e \in EdgesTo(u) : e.from \in Predecessors[u]
         /\ \A d \in Predecessors[u] : \E e \in EdgesTo(u) : e.from = d
<1>1. after[u] \in Seq(Name) /\ requires_[u] \in Seq(Name)
  BY DEF ListTypes
<1>2. Predecessors[u] = (Names(after[u]) \cup Names(requires_[u])) \cap Unit
  BY DEF Predecessors
<1>3. ASSUME NEW e \in EdgesTo(u)
      PROVE  e.from \in Predecessors[u]
  <2>1. CASE e \in AfterEdges
    BY <2>1, <1>2 DEF AfterEdges, EdgesTo, Names
  <2>2. CASE e \in RequiresEdges
    BY <2>2, <1>2 DEF RequiresEdges, EdgesTo, Names
  <2> QED
    BY <2>1, <2>2 DEF EdgesTo, graph
<1>4. ASSUME NEW d \in Unit, NEW k \in 1..Len(after[u]), after[u][k] = d
      PROVE  \E e \in EdgesTo(u) : e.from = d
  <2> DEFINE e == [from |-> d, to |-> u, key |-> "After", pos |-> k]
  <2>1. e \in AfterEdges
    BY <1>4 DEF AfterEdges
  <2> QED
    BY <2>1 DEF EdgesTo, graph
<1>5. ASSUME NEW d \in Unit, NEW k \in 1..Len(requires_[u]),
             requires_[u][k] = d, ~InList(after[u], d)
      PROVE  \E e \in EdgesTo(u) : e.from = d
  <2> DEFINE e == [from |-> d, to |-> u, key |-> "Requires", pos |-> k]
  <2>1. e \in RequiresEdges
    BY <1>5 DEF RequiresEdges
  <2> QED
    BY <2>1 DEF EdgesTo, graph
<1> QED
  BY <1>2, <1>3, <1>4, <1>5 DEF Names, InList

-------------------------------------------------------------------------------
(* The inductive invariant                                                 *)

Types ==
  /\ ListTypes
  /\ in_degree \in [Unit -> Nat]
  /\ ready \in Seq(Unit)
  /\ exec_order_ \in Seq(Unit)
  /\ todo \subseteq graph

\* The edges to u that the algorithm has not followed yet.
OpenEdges(u) ==
  { e \in EdgesTo(u) : e \in todo \/ ~InList(exec_order_, e.from) }

\* Edges in hand come from units in the order; a unit has in_degree 0 exactly
\* when it is in the queue or in the order, and it is there once.
QueueInv ==
  /\ \A e \in todo : InList(exec_order_, e.from)
  /\ \A u \in Unit :
       in_degree[u] = 0 <=> InList(ready, u) \/ InList(exec_order_, u)
  /\ \A u \in Unit : ~(InList(ready, u) /\ InList(exec_order_, u))
  /\ NoDuplicates(ready) /\ NoDuplicates(exec_order_)

Inv == Types /\ InDegreeIsOpenEdges /\ QueueInv

\* in_degree counts a finite set of open edges, so it is zero exactly when
\* none is left.
LEMMA OpenEdgesFacts ==
  ASSUME Inv, NEW u \in Unit
  PROVE  /\ IsFiniteSet(OpenEdges(u))
         /\ in_degree[u] = Cardinality(OpenEdges(u))
         /\ in_degree[u] = 0 <=> OpenEdges(u) = {}
<1>1. IsFiniteSet(OpenEdges(u))
  BY EdgesFinite, FS_Subset DEF Inv, Types, OpenEdges
<1>2. in_degree[u] = Cardinality(OpenEdges(u))
  BY DEF Inv, InDegreeIsOpenEdges, OpenEdges
<1> QED
  BY <1>1, <1>2, FS_EmptySet

\* Edges lead from units to units.
LEMMA EdgeType ==
  ASSUME NEW e \in graph
  PROVE  e.from \in Unit /\ e.to \in Unit /\ e \in EdgesTo(e.to)
<1>1. CASE e \in AfterEdges
  BY <1>1 DEF AfterEdges, EdgesTo
<1>2. CASE e \in RequiresEdges
  BY <1>2 DEF RequiresEdges, EdgesTo
<1> QED
  BY <1>1, <1>2 DEF graph

\* The state after the graph is built and the roots are queued.
LEMMA InvInit == Init => Inv
<1> SUFFICES ASSUME Init PROVE Inv
  OBVIOUS
<1> DEFINE roots == { u \in Unit : in_degree[u] = 0 }
           n == Cardinality(roots)
<1>1. ListTypes
  BY DependencyAssumption DEF Init, ListTypes
<1>2. in_degree \in [Unit -> Nat]
  BY <1>1, EdgesFinite, FS_CardinalityType DEF Init, InitialDegree
<1>3. IsFiniteSet(roots) /\ n \in Nat
  BY DependencyAssumption, FS_Subset, FS_CardinalityType
<1>4. ready \in [1..n -> roots] /\ Names(ready) = roots
  BY DEF Init
<1> HIDE DEF n
<1>5. ready \in Seq(roots) /\ Len(ready) = n
  BY <1>3, <1>4
<1>6. ready \in Seq(Unit)
  BY <1>5
<1>7. NoDuplicates(ready)
  <2>1. ready \in Surjection(1..n, roots)
    BY <1>4, <1>5 DEF Surjection, Names
  <2>2. IsFiniteSet(1..n) /\ Cardinality(1..n) = n
    BY <1>3, FS_Interval
  <2>3. ready \in Injection(1..n, roots)
    BY <2>1, <2>2, FS_SurjSameCardinalityImpliesInj DEF n
  <2> QED
    BY <2>3, <1>5 DEF Injection, IsInjective, NoDuplicates
<1>8. \A u \in Unit : InList(ready, u) <=> in_degree[u] = 0
  BY <1>4 DEF InList, Names
<1>9. /\ exec_order_ = <<>> /\ todo = {} /\ exec_order_ \in Seq(Unit)
      /\ \A u : ~InList(exec_order_, u)
      /\ NoDuplicates(exec_order_)
  BY DEF Init, InList, NoDuplicates
<1>10. InDegreeIsOpenEdges
  <2>1. ASSUME NEW u \in Unit
        PROVE  { e \in EdgesTo(u) : e \in todo \/ ~InList(exec_order_, e.from) }
                 = EdgesTo(u)
    BY <1>9
  <2> QED
    BY <2>1 DEF Init, InitialDegree, InDegreeIsOpenEdges
<1> QED
  BY <1>1, <1>2, <1>6, <1>7, <1>8, <1>9, <1>10 DEF Inv, Types, QueueInv

\* What the graph is does not change.
LEMMA GraphFixed ==
  ASSUME UNCHANGED lists
  PROVE  graph' = graph /\ \A u : EdgesTo(u)' = EdgesTo(u)
BY DEF lists, graph, EdgesTo, AfterEdges, RequiresEdges, InList

\* Taking a unit from the queue keeps the invariant: its edges move from
\* "source not in the order" to "still to be followed".
LEMMA PopStep ==
  ASSUME Inv, Pop
  PROVE  Inv'
<1> DEFINE u == Head(ready)
<1>1. u \in Unit /\ ready \in Seq(Unit) /\ ready # <<>> /\ exec_order_ \in Seq(Unit)
  BY DEF Inv, Types, Pop
<1>2. /\ ready' = Tail(ready) /\ exec_order_' = Append(exec_order_, u)
      /\ todo = {} /\ todo' = { e \in graph : e.from = u }
      /\ UNCHANGED <<lists, in_degree>>
  BY DEF Pop
<1>3. InList(ready, u) /\ ~InList(exec_order_, u)
  BY <1>1, InTail DEF Inv, QueueInv
<1>4. \A v : InList(exec_order_', v) <=> InList(exec_order_, v) \/ v = u
  BY <1>1, <1>2, InAppend
<1>5. \A v : InList(ready, v) <=> v = u \/ InList(ready', v)
  BY <1>1, <1>2, InTail
<1>6. NoDuplicates(ready') /\ ~InList(ready', u)
  BY <1>1, <1>2, TailNoDuplicates DEF Inv, QueueInv
<1>7. NoDuplicates(exec_order_')
  BY <1>1, <1>2, <1>3, AppendNoDuplicates DEF Inv, QueueInv
<1>8. graph' = graph /\ \A v : EdgesTo(v)' = EdgesTo(v)
  BY <1>2, GraphFixed
<1> HIDE DEF u
<1>9. Types'
  <2>1. ListTypes'
    BY <1>2 DEF Inv, Types, ListTypes, lists
  <2>2. ready' \in Seq(Unit) /\ exec_order_' \in Seq(Unit)
    BY <1>1, <1>2
  <2>3. todo' \subseteq graph'
    BY <1>2, <1>8
  <2> QED
    BY <1>2, <2>1, <2>2, <2>3 DEF Inv, Types
<1>10. InDegreeIsOpenEdges'
  <2>1. ASSUME NEW v \in Unit
        PROVE  OpenEdges(v)' = OpenEdges(v)
    BY <1>2, <1>3, <1>4, <1>8 DEF OpenEdges, EdgesTo
  <2> QED
    BY <1>2, <2>1, OpenEdgesFacts DEF InDegreeIsOpenEdges, OpenEdges
<1>11. QueueInv'
  BY <1>2, <1>4, <1>5, <1>6, <1>7 DEF Inv, QueueInv
<1> QED
  BY <1>9, <1>10, <1>11 DEF Inv

\* Following an edge keeps the invariant: the counter of its target drops
\* by one and at zero, only then, the target joins the queue.
LEMMA FollowStep ==
  ASSUME Inv, NEW e \in todo, Follow(e)
  PROVE  Inv'
<1>1. e \in graph /\ e.to \in Unit /\ e \in EdgesTo(e.to)
  BY EdgeType DEF Inv, Types
<1>2. PICK v \in Unit : v = e.to
  BY <1>1
<1>3. /\ todo' = todo \ {e}
      /\ in_degree' = [in_degree EXCEPT ![v] = @ - 1]
      /\ UNCHANGED <<lists, exec_order_>>
  BY <1>2 DEF Follow
<1>4. ready' = IF in_degree[v] - 1 = 0 THEN Append(ready, v) ELSE ready
  BY <1>2 DEF Follow, LastEdge
<1>5. e \in OpenEdges(v) /\ InList(exec_order_, e.from)
  BY <1>1, <1>2 DEF OpenEdges, Inv, QueueInv
<1>6. graph' = graph /\ \A u : EdgesTo(u)' = EdgesTo(u)
  BY <1>3, GraphFixed
<1>7. in_degree \in [Unit -> Nat] /\ ready \in Seq(Unit) /\ exec_order_ \in Seq(Unit)
  BY DEF Inv, Types
<1>8. in_degree[v] # 0
  BY <1>5, OpenEdgesFacts
<1>9. in_degree' \in [Unit -> Nat]
  BY <1>3, <1>7, <1>8
<1>10. ~InList(ready, v) /\ ~InList(exec_order_, v)
  BY <1>8 DEF Inv, QueueInv
<1>11. Types'
  <2>1. ListTypes'
    BY <1>3 DEF Inv, Types, ListTypes, lists
  <2>2. ready' \in Seq(Unit)
    BY <1>4, <1>7
  <2>3. todo' \subseteq graph'
    BY <1>3, <1>6 DEF Inv, Types
  <2> QED
    BY <1>3, <1>7, <1>9, <2>1, <2>2, <2>3 DEF Types
<1>12. InDegreeIsOpenEdges'
  <2>1. ASSUME NEW w \in Unit, w # v
        PROVE  in_degree'[w] = Cardinality(OpenEdges(w)')
    <3>1. OpenEdges(w)' = OpenEdges(w)
      BY <1>2, <1>3, <1>6, <2>1 DEF OpenEdges, EdgesTo
    <3> QED
      BY <1>3, <1>7, <2>1, <3>1, OpenEdgesFacts
  <2>2. in_degree'[v] = Cardinality(OpenEdges(v)')
    <3>1. OpenEdges(v)' = OpenEdges(v) \ {e}
      BY <1>3, <1>5, <1>6 DEF OpenEdges, EdgesTo
    <3>2. Cardinality(OpenEdges(v) \ {e}) = Cardinality(OpenEdges(v)) - 1
      BY <1>5, OpenEdgesFacts, FS_RemoveElement
    <3> QED
      BY <1>3, <1>7, <3>1, <3>2, OpenEdgesFacts
  <2> QED
    BY <2>1, <2>2 DEF InDegreeIsOpenEdges, OpenEdges
<1>13. QueueInv'
  <2>1. \A d \in todo' : InList(exec_order_', d.from)
    BY <1>3 DEF Inv, QueueInv
  <2>2. CASE in_degree[v] - 1 = 0
    <3>1. \A w : InList(ready', w) <=> InList(ready, w) \/ w = v
      BY <1>4, <1>7, <2>2, InAppend
    <3>2. NoDuplicates(ready')
      BY <1>4, <1>7, <1>10, <2>2, AppendNoDuplicates DEF Inv, QueueInv
    <3>3. \A w \in Unit : in_degree'[w] = IF w = v THEN 0 ELSE in_degree[w]
      BY <1>3, <1>7, <2>2
    <3> QED
      BY <2>1, <3>1, <3>2, <3>3, <1>3, <1>10 DEF Inv, QueueInv
  <2>3. CASE in_degree[v] - 1 # 0
    <3>1. ready' = ready
      BY <1>4, <2>3
    <3>2. \A w \in Unit : in_degree'[w] = 0 <=> in_degree[w] = 0
      BY <1>3, <1>7, <1>8, <2>3
    <3> QED
      BY <2>1, <3>1, <3>2, <1>3 DEF Inv, QueueInv
  <2> QED
    BY <2>2, <2>3
<1> QED
  BY <1>11, <1>12, <1>13 DEF Inv

\* Every step of the phase keeps the invariant.
LEMMA InvStep ==
  ASSUME Inv, [Next]_vars
  PROVE  Inv'
<1>1. UNCHANGED vars => Inv'
  <2> SUFFICES ASSUME UNCHANGED vars PROVE Inv'
    OBVIOUS
  <2>1. UNCHANGED <<lists, in_degree, ready, exec_order_, todo>>
    BY DEF vars
  <2>2. graph' = graph /\ \A u : EdgesTo(u)' = EdgesTo(u)
    BY <2>1, GraphFixed
  <2>3. ListTypes'
    BY <2>1 DEF Inv, Types, ListTypes, lists
  <2>4. Types'
    BY <2>1, <2>2, <2>3 DEF Inv, Types
  <2>5. InDegreeIsOpenEdges'
    <3>1. \A u : OpenEdges(u)' = OpenEdges(u)
      BY <2>1, <2>2 DEF OpenEdges, InList
    <3> QED
      BY <2>1, <3>1, OpenEdgesFacts DEF InDegreeIsOpenEdges, OpenEdges
  <2>6. QueueInv'
    BY <2>1 DEF Inv, QueueInv, InList, NoDuplicates
  <2> QED
    BY <2>4, <2>5, <2>6 DEF Inv
<1> QED
  BY <1>1, PopStep, FollowStep DEF Next, Return

\* The counters of Kahn's algorithm are right at every moment.
THEOREM InDegreeCorrect == Spec => []InDegreeIsOpenEdges
<1>1. Inv => InDegreeIsOpenEdges
  BY DEF Inv
<1> QED
  BY InvInit, InvStep, <1>1, PTL DEF Spec

\* Whatever the unit files say, a unit that is not started waits for another
\* one that is not started.
THEOREM LeftOutOnlyByCycles == Spec => []OnlyCyclesLeftOut
<1>1. Inv => OnlyCyclesLeftOut
  <2> SUFFICES ASSUME Inv, Done, NEW u \in Unit, ~InList(exec_order_, u)
               PROVE  \E d \in Predecessors[u] : ~InList(exec_order_, d)
    BY DEF OnlyCyclesLeftOut
  <2>1. ~InList(ready, u)
    BY DEF Done, InList
  <2>2. PICK e \in OpenEdges(u) : TRUE
    BY <2>1, OpenEdgesFacts DEF Inv, QueueInv
  <2>3. e \in EdgesTo(u) /\ ~InList(exec_order_, e.from)
    BY <2>2 DEF OpenEdges, Done
  <2>4. e.from \in Predecessors[u]
    BY <2>3, EdgesArePredecessors DEF Inv, Types
  <2> QED
    BY <2>3, <2>4
<1> QED
  BY InvInit, InvStep, <1>1, PTL DEF Spec

\* The order DependencyResolve computes step by step is one that StartOrder
\* allows: each popped unit is new and all of its predecessors are in place.
THEOREM Refinement == Spec => ImplementsStartOrder
<1>1. Init => Abstract!Init
  <2> SUFFICES ASSUME Init PROVE Abstract!Init
    OBVIOUS
  <2>1. Predecessors \in [Unit -> SUBSET Unit]
    BY DEF Predecessors
  <2> QED
    BY <2>1 DEF Init, Abstract!Init
<1>2. Inv /\ [Next]_vars => [Abstract!Next]_<<Predecessors, exec_order_>>
  <2> SUFFICES ASSUME Inv, [Next]_vars
               PROVE  Abstract!Next \/ UNCHANGED <<Predecessors, exec_order_>>
    OBVIOUS
  <2>1. UNCHANGED lists => UNCHANGED Predecessors
    BY DEF lists, Predecessors, Names
  <2>2. CASE Pop
    <3> DEFINE u == Head(ready)
    <3>1. u \in Unit /\ InList(ready, u)
      BY <2>2, InTail DEF Inv, Types, Pop
    <3>2. ~InList(exec_order_, u) /\ in_degree[u] = 0
      BY <3>1 DEF Inv, QueueInv
    <3>3. ASSUME NEW d \in Predecessors[u]
          PROVE  InList(exec_order_, d)
      <4>1. PICK e \in EdgesTo(u) : e.from = d
        BY <3>1, EdgesArePredecessors DEF Inv, Types
      <4>2. e \notin OpenEdges(u)
        BY <3>1, <3>2, OpenEdgesFacts
      <4> QED
        BY <4>1, <4>2 DEF OpenEdges
    <3>4. exec_order_' = Append(exec_order_, u) /\ UNCHANGED Predecessors
      BY <2>1, <2>2 DEF Pop
    <3>5. Abstract!Start(u)
      BY <3>2, <3>3, <3>4 DEF Abstract!Start, Abstract!InOrder, InList
    <3> QED
      BY <3>1, <3>5 DEF Abstract!Next
  <2>3. ASSUME NEW e \in todo, Follow(e)
        PROVE  UNCHANGED <<Predecessors, exec_order_>>
    BY <2>1, <2>3 DEF Follow
  <2>4. CASE UNCHANGED vars
    BY <2>1, <2>4 DEF vars
  <2> QED
    BY <2>2, <2>3, <2>4 DEF Next, Return
<1> QED
  BY InvInit, InvStep, <1>1, <1>2, PTL
  DEF Spec, ImplementsStartOrder, Abstract!Spec
===============================================================================
