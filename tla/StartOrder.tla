------------------------------ MODULE StartOrder ------------------------------
(***************************************************************************)
(* What the dependency phase of an init system promises: units are put     *)
(* into a start order one at a time, each at most once, and none before    *)
(* all of the units it has to come after.                                  *)
(***************************************************************************)
EXTENDS Naturals, Sequences

CONSTANT Unit

VARIABLES
  pred,    \* [Unit -> SUBSET Unit], the units to be started before a unit
  order    \* the start order so far

InOrder(u) == \E k \in 1..Len(order) : order[k] = u

Init ==
  /\ pred \in [Unit -> SUBSET Unit]
  /\ order = <<>>

Start(u) ==
  /\ ~InOrder(u)
  /\ \A d \in pred[u] : InOrder(d)
  /\ order' = Append(order, u)
  /\ UNCHANGED pred

Next == \E u \in Unit : Start(u)

Spec == Init /\ [][Next]_<<pred, order>>
===============================================================================
