------------------------------- MODULE UnitParse -------------------------------
(***************************************************************************)
(* One unit file from its lines to the decision whether it is started:     *)
(* parse_ini, the phase UnitParse with split_rs, split_list and            *)
(* parse_condition, and eval_conditions.                                   *)
(*                                                                         *)
(* A line has a kind (section, entry, comment, or text without '='), the   *)
(* words it is made of (raw), and may end in a blank and a backslash       *)
(* (cont).  A value is a list of words, where '|', '!', '=' and brackets   *)
(* count as words whether or not blanks surround them.  The values of a    *)
(* repeated key are joined by an RS character; a joined string is the      *)
(* sequence of the values in it, the empty string is <<>>.                 *)
(***************************************************************************)
EXTENDS Naturals, Sequences, SequencesExt

CONSTANTS
  Word,          \* what lines are made of
  Line,          \* the lines a file may have
  MaxLines       \* bound: lines in the file

VARIABLES
  file,             \* the lines read so far
  accumulated,      \* the line they continue, or NoLine
  current_section,
  sections,         \* [<<section, key>> -> joined string], what raw_sections is
  unit,             \* the UnitFile: its lists, conditions and assertions
  todo,             \* condition and assertion keys not visited yet
  world,            \* [Tests -> BOOLEAN], what access, stat and the like say
  verdict,          \* result of eval_conditions, or None
  pc                \* read, split, conditions, eval, done

vars == <<file, accumulated, current_section, sections, unit, todo, world, verdict, pc>>

None == 99
NoLine == [kind |-> "none"]
NoValue == <<>>

ConditionKeys == {"ConditionPathExists", "ConditionHost"}
AssertKeys    == {"AssertPathExists", "AssertHost"}

\* The types eval_one has a branch for; all others are "unknown".
KnownTypes == {"ConditionPathExists", "AssertPathExists"}

Sections == {"", "Unit", "Service"}
Keys     == ConditionKeys \cup AssertKeys \cup
            {"After", "ExecStartPre"}

Value == Seq(Word)

\* Lines that are continued are entries or comments.
ASSUME LineAssumption ==
  Line \subseteq
    [kind : {"section"}, cont : {FALSE}, raw : Seq(Word), name : Sections] \cup
    [kind : {"entry"}, cont : BOOLEAN, raw : Seq(Word), key : Keys, val : Value] \cup
    [kind : {"comment"}, cont : BOOLEAN, raw : Seq(Word)] \cup
    [kind : {"text"}, cont : {FALSE}, raw : Seq(Word)]

Init ==
  /\ file = <<>> /\ accumulated = NoLine /\ current_section = ""
  /\ sections = [sk \in Sections \X Keys |-> <<>>]
  /\ unit = [after |-> <<>>, exec_start_pre |-> <<>>,
             conditions |-> <<>>, assertions |-> <<>>]
  /\ todo = {}
  /\ world = <<>>
  /\ verdict = None /\ pc = "read"

-------------------------------------------------------------------------------
(* parse_ini                                                               *)

\* What a key holds after one more line.
\* (mutant: the last value only)
JoinedOverwrites(existing, val) == <<val>>
Joined(existing, val) ==
  IF existing # <<>> THEN Append(existing, val)
  ELSE IF val = NoValue THEN <<>> ELSE <<val>>

process_line(l) ==
  \/ /\ l.kind = "section"
     /\ current_section' = l.name
     /\ UNCHANGED sections
  \/ /\ l.kind = "entry"
     /\ sections' = [sections EXCEPT ![<<current_section, l.key>>] = Joined(@, l.val)]
     /\ UNCHANGED current_section
  \/ /\ l.kind \in {"comment", "text", "none"}
     /\ UNCHANGED <<current_section, sections>>

\* A line after the lines that it continues.
Continued(l) ==
  CASE accumulated.kind = "none"    -> l
    [] accumulated.kind = "comment" -> accumulated
    [] accumulated.kind = "entry"   -> [accumulated EXCEPT !.val = @ \o l.raw]

\* getline
ReadLine(l) ==
  /\ pc = "read" /\ Len(file) < MaxLines
  /\ file' = Append(file, l)
  /\ \/ /\ l.cont
        /\ accumulated' = Continued(l)
        /\ UNCHANGED <<current_section, sections>>
     \/ /\ ~l.cont
        /\ process_line(Continued(l))
        /\ accumulated' = NoLine
  /\ UNCHANGED <<unit, todo, world, verdict, pc>>

\* The last line may be continued by nothing.
EndOfFile ==
  /\ pc = "read"
  /\ process_line(accumulated)
  /\ accumulated' = NoLine
  /\ pc' = "split"
  /\ UNCHANGED <<file, unit, todo, world, verdict>>

-------------------------------------------------------------------------------
(* UnitParse                                                               *)

\* The values that are not empty.
split_rs(s) ==
  LET kept[k \in 0..Len(s)] ==
        IF k = 0 THEN <<>>
        ELSE IF s[k] # NoValue THEN Append(kept[k - 1], s[k]) ELSE kept[k - 1]
  IN kept[Len(s)]

\* The words of all values.
split_list(s) == FlattenSeq(s)

\* A list of words and a list of commands stand for the fields of their kind.
SplitFields ==
  /\ pc = "split"
  /\ unit' = [unit EXCEPT
       !.after          = split_list(sections[<<"Unit", "After">>]),
       !.exec_start_pre = split_rs(sections[<<"Service", "ExecStartPre">>])]
  /\ todo' = { key \in ConditionKeys \cup AssertKeys :
                sections[<<"Unit", key>>] # <<>> }
  /\ pc' = "conditions"
  /\ UNCHANGED <<file, accumulated, current_section, sections, world, verdict>>

\* A '|' is taken off and forgotten, and then a '!'.
WithoutBar(v) == IF v # <<>> /\ v[1] = "|" THEN Tail(v) ELSE v
Negated(v) == WithoutBar(v) # <<>> /\ WithoutBar(v)[1] = "!"
Tested(v) == IF Negated(v) THEN Tail(WithoutBar(v)) ELSE WithoutBar(v)

\* The negate of "ConditionEntry ce" is assigned only when there is a '!', and
\* otherwise is what the memory held.
parse_condition(key, v) ==
  { [type |-> key, words |-> Tested(v), negate |-> n] :
      n \in IF Negated(v) THEN {TRUE} ELSE BOOLEAN }

\* One key in the loop over the section, which is a hash map.
ParseConditionKey(key) ==
  /\ pc = "conditions" /\ key \in todo
  /\ todo' = todo \ {key}
  /\ LET vals == split_rs(sections[<<"Unit", key>>]) IN
       \E ces \in [1..Len(vals) -> UNION { parse_condition(key, vals[k]) :
                                             k \in 1..Len(vals) }] :
         /\ \A k \in 1..Len(vals) : ces[k] \in parse_condition(key, vals[k])
         /\ unit' = IF key \in ConditionKeys
                    THEN [unit EXCEPT !.conditions = @ \o ces]
                    ELSE [unit EXCEPT !.assertions = @ \o ces]
  /\ UNCHANGED <<file, accumulated, current_section, sections, world, verdict, pc>>

\* What the machine decides about the unit.
Tests == { <<ce.type, ce.words>> : ce \in ToSet(unit.conditions \o unit.assertions) }

\* The unit is complete; the machine is in any state when its turn comes.
UnitParsed ==
  /\ pc = "conditions" /\ todo = {}
  /\ pc' = "eval"
  /\ world' \in [Tests -> BOOLEAN]
  /\ UNCHANGED <<file, accumulated, current_section, sections, unit, todo, verdict>>

-------------------------------------------------------------------------------
(* Conditions                                                              *)

eval_one(ce) ==
  LET result == IF ce.type \in KnownTypes THEN world[<<ce.type, ce.words>>]
                ELSE TRUE
  IN IF ce.negate THEN ~result ELSE result

AllTrue(ces) == \A k \in 1..Len(ces) : eval_one(ces[k])

\* 0: start, 1: skip silently, 2: fail.
\* (mutant: assertions before conditions)
AssertionsFirst ==
  IF ~AllTrue(unit.assertions) THEN 2 ELSE IF ~AllTrue(unit.conditions) THEN 1 ELSE 0
eval_conditions ==
  IF ~AllTrue(unit.conditions) THEN 1 ELSE IF ~AllTrue(unit.assertions) THEN 2 ELSE 0

EvalConditions ==
  /\ pc = "eval"
  /\ verdict' = eval_conditions
  /\ pc' = "done"
  /\ UNCHANGED <<file, accumulated, current_section, sections, unit, todo, world>>

Finished == pc = "done" /\ UNCHANGED vars

Next ==
  \/ \E l \in Line : ReadLine(l)
  \/ EndOfFile \/ SplitFields
  \/ \E key \in ConditionKeys \cup AssertKeys : ParseConditionKey(key)
  \/ UnitParsed \/ EvalConditions \/ Finished

Spec == Init /\ [][Next]_vars

-------------------------------------------------------------------------------
(* Properties                                                              *)

\* The lines of file f that do not continue another one, told from the file
\* alone, and the last line that belongs to such a line.
Starts(f) == { k \in 1..Len(f) : k = 1 \/ ~f[k - 1].cont }
EndOf(f, k) == CHOOSE e \in k..Len(f) :
                 /\ \A j \in k..(e - 1) : f[j].cont
                 /\ e = Len(f) \/ ~f[e].cont
ValueOf(f, k) ==
  f[k].val \o FlattenSeq([j \in 1..(EndOf(f, k) - k) |-> f[k + j].raw])

\* The section such a line belongs to.
SectionOf(f, k) ==
  LET heads == { j \in Starts(f) : j < k /\ f[j].kind = "section" } IN
  IF heads = {} THEN ""
  ELSE f[CHOOSE j \in heads : \A h \in heads : h <= j].name

\* Line k gives the key a value.
Gives(f, section, key, k) ==
  /\ k \in Starts(f) /\ f[k].kind = "entry" /\ f[k].key = key
  /\ SectionOf(f, k) = section /\ ValueOf(f, k) # NoValue

\* The values that the first lines give it, in the order of the file.
GivenBy(f, section, key) ==
  LET given[n \in 0..Len(f)] ==
        IF n = 0 THEN <<>>
        ELSE IF Gives(f, section, key, n) THEN Append(given[n - 1], ValueOf(f, n))
        ELSE given[n - 1]
  IN given
Given(section, key) == GivenBy(file, section, key)[Len(file)]

\* The entries are those of the keys, each with its values in a row.
Lists(entries, keys) ==
  /\ \A k \in 1..Len(entries) : entries[k].type \in keys
  /\ \A key \in keys : \E o \in 0..Len(entries) :
       LET vals == Given("Unit", key)
       IN /\ { k \in 1..Len(entries) : entries[k].type = key } = (o + 1)..(o + Len(vals))
          /\ \A n \in 1..Len(vals) : entries[o + n].words = Tested(vals[n])

\* Joining the values of repeated keys and splitting them again loses and
\* reorders none, with empty values, continued lines (the last one included),
\* other sections and other keys between them: lists, ExecStartPre commands,
\* conditions and assertions are those of the file.
RepeatedKeysAddUp ==
  pc \in {"eval", "done"} =>
    /\ unit.after = FlattenSeq(Given("Unit", "After"))
    /\ unit.exec_start_pre = Given("Service", "ExecStartPre")
    /\ Lists(unit.conditions, ConditionKeys)
    /\ Lists(unit.assertions, AssertKeys)

\* The tests of a key that are written with '!' and hold on this machine.
Refuted(keys) ==
  { k \in Starts(file) :
      /\ file[k].kind = "entry" /\ file[k].key \in keys \cap KnownTypes
      /\ SectionOf(file, k) = "Unit" /\ Negated(ValueOf(file, k))
      /\ world[<<file[k].key, Tested(ValueOf(file, k))>>] }

\* A negated condition that does not hold skips the unit whatever else the
\* file says; a negated assertion that does not hold keeps it from starting.
NegatedTestsDecide ==
  pc = "done" =>
    /\ Refuted(ConditionKeys) # {} => verdict = 1
    /\ Refuted(AssertKeys) # {} => verdict # 0

\* unit_file.hpp, ConditionEntry::negate: "true if value originally started
\* with '!'".
NegateMeansBang ==
  pc = "done" =>
    \A key \in ConditionKeys : \A n \in 1..Len(Given("Unit", key)) :
      SelectSeq(unit.conditions, LAMBDA ce : ce.type = key)[n].negate =
        Negated(Given("Unit", key)[n])
===============================================================================
