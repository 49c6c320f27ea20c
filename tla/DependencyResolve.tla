--------------------------- MODULE DependencyResolve ---------------------------
(***************************************************************************)
(* The phase DependencyResolve of UnitExecMixin: Kahn's algorithm over the *)
(* After= and Requires= lists of all units.                                *)
(*                                                                         *)
(* The lists are user input: they may name units that do not exist, repeat *)
(* a name, name the unit itself or form cycles, so they are chosen freely  *)
(* in Init.  The code keeps the graph in a hash map whose iteration order  *)
(* is unspecified: the initial order of the queue and the order in which   *)
(* the edges of a unit are followed are nondeterministic here.             *)
(***************************************************************************)
EXTENDS Integers, FiniteSets, Sequences

CONSTANTS
  Unit,       \* the names in all_units()
  Name,       \* the names a list may mention
  AfterOf,    \* [Unit -> set of the lists After= may hold]
  RequiresOf, \* [Unit -> set of the lists Requires= may hold]
  BeforeOf    \* [Unit -> set of the lists Before= may hold]

ASSUME DependencyAssumption ==
  /\ IsFiniteSet(Unit) /\ Unit \subseteq Name
  /\ \A u \in Unit : /\ AfterOf[u] \subseteq Seq(Name)
                     /\ RequiresOf[u] \subseteq Seq(Name)

VARIABLES
  after, requires_, before,  \* [Unit -> list of names]
  in_degree,                 \* [Unit -> Int]
  ready,                     \* the queue
  exec_order_,
  todo                       \* edges of the popped unit not followed yet

lists == <<after, requires_, before>>
vars  == <<lists, in_degree, ready, exec_order_, todo>>

Names(list) == { list[k] : k \in 1..Len(list) }
InList(list, x) == \E k \in 1..Len(list) : list[k] = x

\* One edge per mention of a unit, so repeated names give repeated edges;
\* Requires= adds an edge only where After= has none.
AfterEdges ==
  UNION { { [from |-> after[u][k], to |-> u, key |-> "After", pos |-> k] :
              k \in { j \in 1..Len(after[u]) : after[u][j] \in Unit } } :
          u \in Unit }

\* (mutant: Requires= is not taken into account)
NoRequiresEdges == {}

RequiresEdges ==
  UNION { { [from |-> requires_[u][k], to |-> u, key |-> "Requires", pos |-> k] :
              k \in { j \in 1..Len(requires_[u]) :
                        /\ requires_[u][j] \in Unit
                        /\ ~InList(after[u], requires_[u][j]) } } :
          u \in Unit }

graph == AfterEdges \cup RequiresEdges

EdgesTo(u) == { e \in graph : e.to = u }

\* in_degree after the loop over all units.
\* (mutant: every mention in Requires= counts, also where After= has the name)
EveryMention(u) ==
  Cardinality({ k \in 1..Len(after[u]) : after[u][k] \in Unit })
  + Cardinality({ k \in 1..Len(requires_[u]) : requires_[u][k] \in Unit })
InitialDegree(u) == Cardinality(EdgesTo(u))

Init ==
  /\ after     \in { f \in [Unit -> UNION { AfterOf[u] : u \in Unit }] :
                       \A u \in Unit : f[u] \in AfterOf[u] }
  /\ requires_ \in { f \in [Unit -> UNION { RequiresOf[u] : u \in Unit }] :
                       \A u \in Unit : f[u] \in RequiresOf[u] }
  /\ before    \in { f \in [Unit -> UNION { BeforeOf[u] : u \in Unit }] :
                       \A u \in Unit : f[u] \in BeforeOf[u] }
  /\ in_degree = [u \in Unit |-> InitialDegree(u)]
  /\ LET roots == { u \in Unit : in_degree[u] = 0 } IN
       ready \in { s \in [1..Cardinality(roots) -> roots] :
                     Names(s) = roots }
  /\ exec_order_ = <<>>
  /\ todo = {}

\* The next unit is taken from the queue and put into the order.
Pop ==
  /\ todo = {} /\ ready # <<>>
  /\ ready' = Tail(ready)
  /\ exec_order_' = Append(exec_order_, Head(ready))
  /\ todo' = { e \in graph : e.from = Head(ready) }
  /\ UNCHANGED <<lists, in_degree>>

\* A unit is queued when its last edge has been followed.
\* (mutant: -- after instead of before the test)
LastEdgeLate(e) == in_degree[e.to] = 0
LastEdge(e) == in_degree[e.to] - 1 = 0

\* One iteration of the loop over graph[cur].
Follow(e) ==
  /\ e \in todo
  /\ todo' = todo \ {e}
  /\ in_degree' = [in_degree EXCEPT ![e.to] = @ - 1]
  /\ ready' = IF LastEdge(e) THEN Append(ready, e.to) ELSE ready
  /\ UNCHANGED <<lists, exec_order_>>

Done == todo = {} /\ ready = <<>>

\* A cycle is only logged; the phase returns 0 in any case.
Return == Done /\ UNCHANGED vars

Next == Pop \/ (\E e \in todo : Follow(e)) \/ Return

Spec == Init /\ [][Next]_vars

-------------------------------------------------------------------------------
(* Properties                                                              *)

\* The units that must come first, as the directives say.
Predecessors ==
  [u \in Unit |-> (Names(after[u]) \cup Names(requires_[u])) \cap Unit]

Abstract == INSTANCE StartOrder WITH pred <- Predecessors, order <- exec_order_

\* exec_order_ is a start order for After= and Requires=: no unit twice, none
\* before a unit it is ordered after, with repeated, missing or circular names.
ImplementsStartOrder == Abstract!Spec

\* in_degree counts the edges of a unit still to be followed, so it cannot
\* pass zero and every unit reaches the queue at most once.
InDegreeIsOpenEdges ==
  \A u \in Unit :
    in_degree[u] = Cardinality({ e \in EdgesTo(u) :
                                   e \in todo \/ ~InList(exec_order_, e.from) })

\* A unit is left out only because of a cycle: at the end every unit that is
\* not in the order waits for another one that is not either.
OnlyCyclesLeftOut ==
  Done => \A u \in Unit : ~InList(exec_order_, u) =>
            \E d \in Predecessors[u] : ~InList(exec_order_, d)

\* README.md, "Supported directives: [Unit]: ... After, Before, ...": a unit
\* with Before=x is started before x.
BeforeHonoured ==
  \A j, k \in 1..Len(exec_order_) :
    exec_order_[k] \in Names(before[exec_order_[j]]) => j <= k
===============================================================================
