----------------------------- MODULE CommandLine -----------------------------
(***************************************************************************)
(* From the command in a unit file to the arguments of execvp:             *)
(* SpecifierContext, SpecifierResolver::resolve, split_exec, and the order *)
(* in which start_service and accept_ready apply them; and from the lines  *)
(* Environment= to variables: parse_environment.                           *)
(*                                                                         *)
(* A string is a sequence of characters.  Where the program copies a run   *)
(* of characters unseen (a path, a host name) one character stands for it, *)
(* and an escape \xNN of a unit name is one character as well.             *)
(***************************************************************************)
EXTENDS Naturals, Sequences, SequencesExt

CONSTANT
  Unescaped   \* [escapes -> characters], what the \xNN in use stand for

unit_name_unescape(s) ==
  [k \in 1..Len(s) |-> IF s[k] \in DOMAIN Unescaped THEN Unescaped[s[k]] ELSE s[k]]

SpecifierContext(name) ==
  LET dot_pos == SelectLastInSeq(name, LAMBDA c : c = ".")
      at_pos  == SelectInSeq(name, LAMBDA c : c = "@")
      stem    == IF dot_pos = 0 THEN name ELSE SubSeq(name, 1, dot_pos - 1)
  IN IF 0 < at_pos /\ at_pos < dot_pos
     THEN [ unit_name |-> name,
            prefix    |-> SubSeq(name, 1, at_pos - 1),
            instance  |-> SubSeq(name, at_pos + 1, dot_pos - 1) ]
     ELSE [ unit_name |-> name, prefix |-> stem, instance |-> <<>> ]

\* %j: what follows the last '-' of the prefix.
FinalComponent(prefix) ==
  SubSeq(prefix, SelectLastInSeq(prefix, LAMBDA c : c = "-") + 1, Len(prefix))

\* resolvers_.  "t", "H" and "o" stand for the directories, for what is read
\* from the system, and for what is left empty.
resolvers_(ctx) ==
  [ spec \in {"%", "n", "N", "p", "P", "i", "I", "f", "j", "J", "t", "H", "o"} |->
      CASE spec = "%" -> <<"%">>
        [] spec = "n" -> ctx.unit_name
        [] spec = "N" -> unit_name_unescape(ctx.unit_name)
        [] spec = "p" -> ctx.prefix
        [] spec = "P" -> unit_name_unescape(ctx.prefix)
        [] spec = "i" -> ctx.instance
        [] spec = "I" -> unit_name_unescape(ctx.instance)
        [] spec = "f" -> IF ctx.instance = <<>> THEN <<>>
                         ELSE <<"/">> \o unit_name_unescape(ctx.instance)
        [] spec = "j" -> FinalComponent(ctx.prefix)
        [] spec = "J" -> unit_name_unescape(FinalComponent(ctx.prefix))
        [] spec = "t" -> <<"/run">>
        [] spec = "H" -> <<"host">>
        [] spec = "o" -> <<>> ]

\* What "%" followed by the character spec becomes.
Expansion(spec, ctx) ==
  IF spec \in DOMAIN resolvers_(ctx) THEN resolvers_(ctx)[spec]
  ELSE <<"%", spec>>

\* One more character: a '%' takes the next one with it.
ReadSpecifier(acc, c, ctx) ==
  IF acc.percent
  THEN [percent |-> FALSE, result |-> acc.result \o Expansion(c, ctx)]
  ELSE IF c = "%" THEN [percent |-> TRUE, result |-> acc.result]
  ELSE [percent |-> FALSE, result |-> Append(acc.result, c)]

Resolving(input, ctx) ==
  LET at[k \in 0..Len(input)] ==
        IF k = 0 THEN [percent |-> FALSE, result |-> <<>>]
        ELSE ReadSpecifier(at[k - 1], input[k], ctx)
  IN at[Len(input)]

\* A '%' at the end stands for itself.
resolve(input, ctx) ==
  LET end == Resolving(input, ctx)
  IN IF end.percent THEN Append(end.result, "%") ELSE end.result

NoQuote == ""
Quotes == {"'", "''"}   \* the single and the double quote
Blank == "blank"        \* the blank character

\* The words read so far (r), the one being read (t) and the quote it is in.
EndWord(acc) ==
  IF acc.t = <<>> THEN acc
  ELSE [r |-> Append(acc.r, acc.t), t |-> <<>>, qc |-> acc.qc]

\* One more character: words are separated by blanks outside of quotes.
ReadWord(acc, c) ==
  IF acc.qc # NoQuote /\ c = acc.qc THEN [r |-> acc.r, t |-> acc.t, qc |-> NoQuote]
  ELSE IF acc.qc = NoQuote /\ c \in Quotes THEN [r |-> acc.r, t |-> acc.t, qc |-> c]
  ELSE IF acc.qc = NoQuote /\ c = Blank THEN EndWord(acc)
  ELSE [r |-> acc.r, t |-> Append(acc.t, c), qc |-> acc.qc]

Splitting(s) ==
  LET at[k \in 0..Len(s)] ==
        IF k = 0 THEN [r |-> <<>>, t |-> <<>>, qc |-> NoQuote]
        ELSE ReadWord(at[k - 1], s[k])
  IN at[Len(s)]

\* Quotes are removed, and a word that is empty then is no word.
split_exec(s) == EndWord(Splitting(s)).r

WithoutDash(cmd) == IF cmd # <<>> /\ cmd[1] = "-" THEN Tail(cmd) ELSE cmd

\* start_service: the command is resolved as a whole, split, and each
\* argument is resolved again.
\* (mutant: split before the command is resolved, program not resolved)
ServiceArgvSplitFirst(cmd, ctx) ==
  LET args == split_exec(WithoutDash(cmd))
  IN [k \in 1..Len(args) |-> IF k = 1 THEN args[1] ELSE resolve(args[k], ctx)]
ServiceArgv(cmd, ctx) ==
  LET args == split_exec(resolve(WithoutDash(cmd), ctx))
  IN [k \in 1..Len(args) |-> IF k = 1 THEN args[1] ELSE resolve(args[k], ctx)]

\* accept_ready: the command is split as it stands in the file.
ConnectionArgv(cmd) == split_exec(cmd)

-------------------------------------------------------------------------------
(* Environment=                                                            *)

RS     == "\\x1f"
Escape == "\\"
DoubleQuote == "''"

\* The value of the key Environment, given its lines in the order of the file.
JoinedLines(lines) ==
  LET existing[k \in 0..Len(lines)] ==
        IF k = 0 THEN <<>>
        ELSE IF existing[k - 1] = <<>> THEN lines[k]
        ELSE existing[k - 1] \o <<RS>> \o lines[k]
  IN existing[Len(lines)]

\* The end of an assignment; in is the part of one that is being read, and
\* out holds those read so far.
EndAssignment(acc) ==
  [ in |-> "gap", key |-> <<>>, val |-> <<>>,
    out |-> IF acc.key = <<>> THEN acc.out ELSE Append(acc.out, <<acc.key, acc.val>>) ]

InPart(acc, part) == [in |-> part, key |-> acc.key, val |-> acc.val, out |-> acc.out]
InKey(acc, c) ==
  [in |-> "key", key |-> Append(acc.key, c), val |-> acc.val, out |-> acc.out]
InValue(acc, part, c) ==
  [in |-> part, key |-> acc.key, val |-> Append(acc.val, c), out |-> acc.out]

\* What a character between quotes does.
\* (mutant: a backslash is a character like any other)
QuotedPlainly(acc, c) ==
  IF c = DoubleQuote THEN EndAssignment(acc) ELSE InValue(acc, "quoted", c)
Quoted(acc, c) ==
  IF c = Escape THEN InPart(acc, "escape")
  ELSE IF c = DoubleQuote THEN EndAssignment(acc)
  ELSE InValue(acc, "quoted", c)

\* One more character: a key reaches to the next '=', a value to the next
\* blank or the closing quote; RS is like any other character.
Unquoted(acc, c) ==
  IF c = Blank THEN EndAssignment(acc) ELSE InValue(acc, "plain", c)
ReadAssignment(acc, c) ==
  CASE acc.in = "gap" -> IF c = Blank THEN acc
                         ELSE IF c = "=" THEN InPart(acc, "value") ELSE InKey(acc, c)
    [] acc.in = "key" -> IF c = "=" THEN InPart(acc, "value") ELSE InKey(acc, c)
    [] acc.in = "value" -> IF c = DoubleQuote THEN InPart(acc, "quoted")
                           ELSE Unquoted(acc, c)
    [] acc.in = "plain"  -> Unquoted(acc, c)
    [] acc.in = "quoted" -> Quoted(acc, c)
    [] acc.in = "escape" -> InValue(acc, "quoted", c)

Assigning(raw) ==
  LET at[k \in 0..Len(raw)] ==
        IF k = 0 THEN [in |-> "gap", key |-> <<>>, val |-> <<>>, out |-> <<>>]
        ELSE ReadAssignment(at[k - 1], raw[k])
  IN at[Len(raw)]

\* The assignments, pairs of key and value.
parse_environment(raw) ==
  LET end == Assigning(raw)
  IN CASE end.in \in {"gap", "key"} -> end.out
       [] end.in = "escape" -> EndAssignment(InValue(end, "quoted", Escape)).out
       [] end.in \in {"value", "plain", "quoted"} -> EndAssignment(end).out

\* [keys -> values]; the last assignment counts.
LastAssignments(pairs) ==
  [key \in { pairs[k][1] : k \in 1..Len(pairs) } |->
     pairs[SelectLastInSeq(pairs, LAMBDA p : p[1] = key)][2]]
environment(lines) == LastAssignments(parse_environment(JoinedLines(lines)))
===============================================================================
