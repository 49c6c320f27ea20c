---------------------------- MODULE MCServiceChild ----------------------------
(***************************************************************************)
(* An instance of ServiceChild.  x has the sockets of two units, y that of *)
(* one, which also accepts connections; z has none, and any unit file.     *)
(***************************************************************************)
EXTENDS ServiceChild

MCSocketUnit == {"x1.socket", "x2.socket", "y.socket"}
MCListen == [s \in MCSocketUnit |-> IF s = "x2.socket" THEN 2 ELSE 1]
MCAccept == [s \in MCSocketUnit |-> s = "y.socket"]

\* x1 and x2 name their service, y does not.
Pair == INSTANCE Pairing
Chars ==
  [n \in MCSocketUnit \cup Service |->
     CASE n = "x1.socket" -> <<"x", "1", ".", "socket">>
       [] n = "x2.socket" -> <<"x", "2", ".", "socket">>
       [] n = "y.socket"  -> <<"y", ".", "socket">>
       [] n = "x.service" -> <<"x", ".", "service">>
       [] n = "y.service" -> <<"y", ".", "service">>
       [] n = "z.service" -> <<"z", ".", "service">>]
Sock(s) ==
  [ name    |-> Chars[s],
    service |-> IF s = "y.socket" THEN <<>> ELSE <<"x", ".", "service">> ]
MCPairs ==
  [s \in MCSocketUnit |-> { u \in Service : Pair!PairsWith(Sock(s), Chars[u]) }]

MCUidOf == [u \in User |-> IF u = "app" THEN 1 ELSE 2]
MCGidOf == [g \in {"grp"} |-> 7]
\* Ids from 0 to 9, of which 9 is (uid_t)-1, in an unsigned long up to 19.
MCNumber ==
  [n \in {"0", "1", "9", "12", "20"} |->
     CASE n = "0" -> 0 [] n = "1" -> 1 [] n = "9" -> 9 [] n = "12" -> 12 [] n = "20" -> 20]
MCUnescaped == [c \in {"\\x20", "\\x2d"} |-> IF c = "\\x20" THEN Blank ELSE "-"]

File(name, cmd, user, group, dynamic, rdir, wdir, vars_) ==
  [ name |-> name, exec_start |-> cmd, user |-> user, group |-> group,
    dynamic_user |-> dynamic, runtime_directory |-> rdir,
    working_directory |-> wdir, environment |-> vars_ ]

\* ---- unit files that differ in their variables
Home == << <<<<"HOME">>, <<"h">>>> >>
Texts == { <<>>, <<"a">>, <<"a", Blank, "b">>, <<"\\">>, <<"''", "\\">>, <<Blank, "\\", "''">>,
           <<"=">>, <<"'", "a">> }
MCWritten ==
  { Home } \cup { << <<<<"HOME">>, t>>, <<<<v>>, t2>> >> :
                   v \in {"HOME", "USER"}, t \in Texts, t2 \in Texts }
VariableFiles(user, lines) ==
  { File(<<"p", ".", "s">>, <<"x">>, user, "", FALSE, FALSE, "", l) : l \in lines }
EnvironmentFiles ==
  VariableFiles("app", {<<Rendered(Home)>>}) \cup
  VariableFiles("", { <<Rendered(pairs)>> : pairs \in MCWritten }) \cup
  VariableFiles("", { <<Rendered(Home), Rendered(Home)>>, <<<<>>, <<"HOME", "=", "''", "\\">>>>,
                  <<<<"x", Blank, "HOME">>>> })

\* ---- unit files that differ in their context
Plain == <<"p", ".", "s">>
ContextFiles ==
  { File(Plain, <<"x">>, user, group, dynamic, TRUE, wdir, <<Rendered(Home)>>) :
      user \in {"", "app", "new"}, group \in {"", "grp", "nogrp"},
      dynamic \in BOOLEAN, wdir \in {"", "/srv"} }
  \cup
  { File(Plain, <<"x">>, user, group, FALSE, user # "20", "", <<>>) :
      user \in DOMAIN MCNumber, group \in {"", "grp"} }
  \cup
  { File(Plain, <<"x">>, "1", group, FALSE, group # "20", "", <<>>) :
      group \in DOMAIN MCNumber }

\* ---- unit files that differ in their command: a program and up to two more
\* words, in an ordinary unit, in an instance, and in one with a blank in
\* disguise
Words ==
  { <<"x">>, <<"%", "i">>, <<"a", "%", "J">>, <<"%", "%", "i">>, <<"%", "z">>,
    <<"'", "a", Blank, "%", "I", "'">>, <<"%", "f", "%", "n">>, <<"%">>, <<"%", "o">>, <<"a", "%", "n">>,
    <<"''", "''">> }
Programs == { <<"x">>, <<"-", "%", "t">>, <<"%", "p">> }
Instance == <<"a", "-", "b", "@", "c", "\\x2d", ".", "s">>
Names == { Plain, Instance, <<"a", "@", "\\x20", "c", ".", "s">> }
Command(name, cmd) == File(name, cmd, "", "", FALSE, FALSE, "", <<>>)
CommandFiles ==
  { Command(name, p \o <<Blank>> \o v) : name \in Names, p \in Programs, v \in Words }
  \cup { Command(Instance, <<"x">> \o <<Blank>> \o v \o <<Blank>> \o v2) :
           v \in {<<"%", "i">>, <<"'", "a", Blank, "%", "I", "'">>}, v2 \in Words }

AppFile == File(Plain, <<"x">>, "app", "", FALSE, TRUE, "", <<Rendered(Home)>>)
MCFiles ==
  [u \in Service |-> IF u = "z.service" THEN ContextFiles \cup CommandFiles \cup EnvironmentFiles
                     ELSE {AppFile}]
MCConnFiles == {AppFile, [AppFile EXCEPT !.user = "20"], Command(Instance, <<"x", Blank, "%", "i">>)}
===============================================================================
