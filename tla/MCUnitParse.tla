------------------------------ MODULE MCUnitParse ------------------------------
(***************************************************************************)
(* Instances of UnitParse: all files of a few lines over small sets of     *)
(* lines, on machines where each path exists or not.                       *)
(***************************************************************************)
EXTENDS UnitParse

Section(s) == [kind |-> "section", name |-> s, cont |-> FALSE, raw |-> <<"[", s, "]">>]
Entry(k, ws) ==
  [ kind |-> "entry", key |-> k, cont |-> FALSE, raw |-> <<k, "=">> \o ws,
    val |-> ws ]
Cont(l) == [l EXCEPT !.cont = TRUE]
Comment == [kind |-> "comment", cont |-> FALSE, raw |-> <<"#">>]
Text    == [kind |-> "text", cont |-> FALSE, raw |-> <<"t">>]
Bang    == [kind |-> "text", cont |-> FALSE, raw |-> <<"!", "p">>]

MCWord == {"|", "!", "[", "]", "=", "#", "t", "a", "b", "c", "d", "h", "p", "q", "x", "y"} \cup
          Sections \cup Keys

\* Lists, repeated and empty keys, conditions and assertions of all forms.
MCLine ==
  { Section("Unit"), Section("Service"), Comment, Cont(Comment), Text,
    Entry("After", <<"a", "b">>), Entry("After", <<"c">>), Entry("After", <<>>),
    Cont(Entry("After", <<"d">>)), Cont(Entry("ExecStartPre", <<>>)),
    Entry("ExecStartPre", <<"x", "y">>), Entry("ExecStartPre", <<>>),
    Entry("ConditionPathExists", <<"p">>), Entry("ConditionPathExists", <<>>),
    Cont(Entry("ConditionPathExists", <<>>)), Bang,
    Entry("ConditionPathExists", <<"!", "q">>),
    Entry("ConditionPathExists", <<"|", "!", "p">>),
    Entry("ConditionHost", <<"h">>), Entry("AssertHost", <<"h">>),
    Entry("AssertPathExists", <<"!", "p">>) }

\* Conditions without '!' only.
PlainLine == { Section("Unit"), Entry("ConditionPathExists", <<"p">>) }
================================================================================
