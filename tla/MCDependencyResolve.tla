-------------------------- MODULE MCDependencyResolve --------------------------
(***************************************************************************)
(* Instances of DependencyResolve: lists with repeated names, a unit that  *)
(* names itself, a name that belongs to no unit, and cycles of all lengths.*)
(***************************************************************************)
EXTENDS DependencyResolve

MCUnit == {"a", "b", "c", "d"}
MCName == MCUnit \cup {"ghost"}

\* Every unit takes any of the lists: all graphs over them, with cycles.
MCAfter ==
  [u \in MCUnit |-> { <<>>, <<"a">>, <<"d">>, <<"b", "c">>,
                      <<"a", "ghost", "a">> }]
MCRequires ==
  [u \in MCUnit |-> { <<>>, <<"a">>, <<"c", "ghost", "c">> }]

NoLists == [u \in MCUnit |-> { <<>> }]

BeforeLists == [u \in MCUnit |-> { <<>>, <<"a">>, <<"b">> }]
===============================================================================
