----------------------------- MODULE ServiceChild -----------------------------
(***************************************************************************)
(* A service from start_service, or a connection from accept_ready, to its *)
(* exec: the composition of the arguments (CommandLine), the descriptors   *)
(* (SocketActivation) and the context (ChildContext).  The child renumbers *)
(* its descriptors, sets up its context, and executes the program.         *)
(***************************************************************************)
EXTENDS SocketActivation, CommandLine, FiniteSets

CONSTANTS
  User, uid_of, gid_of, number, Ids, ULong, Inherited,  \* see ChildContext
  files,      \* [Service -> the unit files it may have]; in a file the field
              \* environment is the sequence of its lines Environment=
  conn_files, \* those of the services that are started per connection
  written,    \* assignments, as sequences of pairs, that the files are made of
  Known       \* the users /etc/passwd knows at first

ASSUME ServiceAssumption ==
  /\ Ids \in Nat /\ Ids > 1
  /\ uid_of \in [User -> 0..(Ids - 2)] /\ Known \subseteq User
  /\ gid_of \in [DOMAIN gid_of -> 0..(Ids - 2)]
  /\ number \in [DOMAIN number -> Nat] /\ ULong \in Nat
  /\ "" \notin User \cup DOMAIN gid_of \cup DOMAIN number

\* Commands and names are sequences.
CharsOf(s) == { s[k] : k \in 1..Len(s) }
IsText(s) == s \in Seq(CharsOf(s))
ASSUME FileAssumption ==
  \A file \in conn_files \cup UNION { files[u] : u \in Service } :
    /\ {"name", "exec_start", "environment"} \subseteq DOMAIN file
    /\ IsText(file.name) /\ IsText(file.exec_start)

\* Assignments are to variables that ChildContext has.
ASSUME WrittenAssumption ==
  \A pairs \in written :
    /\ pairs \in Seq({ <<v>> : v \in {"HOME", "USER"} } \X
                     { pairs[k][2] : k \in 1..Len(pairs) })
    /\ \A k \in 1..Len(pairs) : IsText(pairs[k][2])

VARIABLES
  passwd, added, unit, dir, step, target, cred, cwd, environ, faults,
  argv        \* the arguments prepared for execvp

Ctx == INSTANCE ChildContext

context == <<passwd, added, unit, dir, step, target, cred, cwd, environ, faults>>
allvars == <<vars, context, argv>>

\* The UnitFile that UnitParse makes of a file.
UnitFileOf(file) ==
  [f \in DOMAIN file \cup {"lines"} |->
     CASE f = "environment" -> environment(file.environment)
       [] f = "lines" -> file.environment
       [] OTHER -> file[f]]

ServiceInit ==
  /\ Init
  /\ Ctx!ContextInit(Known, None)
  /\ argv = <<>>

\* start_service up to the socket environment.
PrepareService(u, file) ==
  /\ StartService(u)
  /\ Ctx!PrepareService(UnitFileOf(file))
  /\ argv' = ServiceArgv(file.exec_start, SpecifierContext(file.name))
  /\ argv' # <<>>

\* accept_ready up to spawn_with_socket_fds.
PrepareConnection(file) ==
  /\ accept_ready
  /\ Ctx!PrepareConnection(UnitFileOf(file))
  /\ argv' = ConnectionArgv(file.exec_start)
  /\ argv' # <<>>

\* The steps of PID 1 that concern descriptors only.
Pid1Step ==
  /\ \/ \E s \in SocketUnit : BindSocketUnit(s) \/ collect_socket_env(s)
     \/ SocketsBound \/ Collected
  /\ UNCHANGED <<context, argv>>

ForkChild == Fork /\ Ctx!EnterChild /\ UNCHANGED argv

RenumberStep == Renumber /\ UNCHANGED <<context, argv>>

\* setup_child_context comes after the descriptors are in place.
SetUpContext ==
  /\ pc = "shuffle" /\ i > Len(w)
  /\ Ctx!ContextStep
  /\ UNCHANGED <<vars, argv>>

\* A child that aborts has not executed anything, either.
ExecChild ==
  /\ \/ step = "exec" /\ Exec
     \/ step \in {"exec", "aborted"} /\ ExecFails
  /\ UNCHANGED <<context, argv>>

BackInPid1 ==
  /\ ForkFails \/ ChildStarted
  /\ Ctx!LeaveChild(None)
  /\ argv' = <<>>

SysUsersAdds(u) == Ctx!AddUser(u) /\ UNCHANGED <<vars, argv>>

ServiceNext ==
  \/ \E u \in Service : \E file \in files[u] : PrepareService(u, file)
  \/ \E file \in conn_files : PrepareConnection(file)
  \/ Pid1Step \/ ForkChild \/ RenumberStep \/ SetUpContext \/ ExecChild \/ BackInPid1
  \/ \E u \in User : SysUsersAdds(u)

ServiceSpec == ServiceInit /\ [][ServiceNext]_allvars

-------------------------------------------------------------------------------
(* Properties                                                              *)

Running == pc = "running"

\* User= names a user of /etc/passwd or a number, and so does Group=.
UserExists == unit.user \in passwd \cup DOMAIN number
GroupExists == unit.group \in DOMAIN gid_of \cup DOMAIN number
Meant(name, ids) == IF name \in DOMAIN number THEN number[name] ELSE ids[name]

\* What no uid_t stands for, or only the one that means "unknown".
Fits(name) == name \in DOMAIN number => number[name] < Ids - 1

\* The credentials a unit file asks for.
Full ==
  [ uid    |-> Meant(unit.user, uid_of),
    gid    |-> IF GroupExists THEN Meant(unit.group, gid_of) ELSE Meant(unit.user, uid_of),
    groups |-> unit.user ]

\* And those it gets when setgid, initgroups or setuid fails, which the code
\* does not notice: a call that fails leaves its own part root and no other.
Granted ==
  [ uid    |-> IF "setuid" \in faults THEN 0 ELSE Full.uid,
    gid    |-> IF "setgid" \in faults THEN 0 ELSE Full.gid,
    groups |-> IF "initgroups" \in faults THEN "" ELSE Full.groups ]

\* setup_child_context gives up root completely or not at all, but for the
\* calls that fail: a service whose user exists runs with that user, its
\* group and its supplementary groups, each of which stays root's only if
\* the call that sets it failed itself; and one whose user does not exist
\* (yet) or is dynamic is root in all three, whenever systemd-sysusers adds
\* the user.  (Numbers that do not fit uid_t wrap around and are excepted.)
AllOrNoPrivileges ==
  Running /\ Fits(unit.user) /\ Fits(unit.group) =>
    IF unit.dynamic_user \/ ~UserExists THEN cred = Ctx!Root
    ELSE \/ cred = Granted
         \/ unit.user \in added /\ cred = Ctx!Root

\* A service that does not run as root owns its runtime directory, although
\* PID 1 and the child look up its user separately: only a user added
\* between the child's own two looks, or a chown that failed, leaves the
\* directory to root.  The same holds of its group, if a Group= exists (and
\* is not the number that chown takes for "leave alone") and setgid did not
\* fail.
OwnsRuntimeDirectory ==
  Running /\ unit.runtime_directory /\ cred.uid # 0 /\ "chown" \notin faults
    /\ unit.user \notin added =>
      /\ dir.uid = cred.uid
      /\ (unit.group = "" \/ Ctx!lookup_gid(unit.group) # Ctx!NoId)
           /\ "setgid" \notin faults => dir.gid = cred.gid

\* A value in quotes, with backslashes before quotes and backslashes.
WithEscape(c) == IF c \in {DoubleQuote, Escape} THEN <<Escape, c>> ELSE <<c>>
Escaped(val) == FlattenSeq([k \in 1..Len(val) |-> WithEscape(val[k])])
RenderedValue(val) ==
  IF \E k \in 1..Len(val) : val[k] \in {Blank, DoubleQuote}
  THEN <<DoubleQuote>> \o Escaped(val) \o <<DoubleQuote>> ELSE val
RenderedPair(pair) == pair[1] \o <<"=">> \o RenderedValue(pair[2])
Rendered(pairs) ==
  FlattenSeq([k \in 1..Len(pairs) |-> IF k = 1 THEN RenderedPair(pairs[k])
                                       ELSE <<Blank>> \o RenderedPair(pairs[k])])

\* Of a unit file with one line Environment= made by Rendered, the service
\* finds every variable with the last value written, whatever blanks, quotes
\* and backslashes that has.  (The lines of a file with several are glued
\* together: parse_environment does not know the separator.)
EnvironmentAsWritten ==
  Running => \A pairs \in written :
    unit.lines = <<Rendered(pairs)>> =>
      \A v \in DOMAIN LastAssignments(pairs) :
        environ[v[1]] = LastAssignments(pairs)[v]

\* ---- arguments

\* Each '%' of the command starts a specifier other than "%%" and "% ", and
\* nothing that one stands for is empty or means something to split_exec or
\* resolve.
PlainSpecifiers(cmd, ctx) ==
  \A k \in 1..Len(cmd) :
    cmd[k] = "%" =>
      /\ k < Len(cmd) /\ cmd[k + 1] \notin {"%", Blank} \cup Quotes
      /\ cmd[k + 1] \in DOMAIN resolvers_(ctx) =>
           LET text == resolvers_(ctx)[cmd[k + 1]]
           IN text # <<>> /\ CharsOf(text) \cap ({Blank, "%"} \cup Quotes) = {}

\* resolve, told by positions: a '%' begins a specifier when an even number
\* of '%' stands right before it and a character follows.
Begins(s, k) ==
  LET run == { j \in 1..(k - 1) : \A h \in j..(k - 1) : s[h] = "%" }
  IN s[k] = "%" /\ k < Len(s) /\ Cardinality(run) % 2 = 0
Substituted(s, ctx) ==
  FlattenSeq([k \in 1..Len(s) |->
    IF Begins(s, k) THEN Expansion(s[k + 1], ctx)
    ELSE IF k > 1 /\ Begins(s, k - 1) THEN <<>> ELSE <<s[k]>>])

\* start_service resolves a command, splits it and resolves the words again.
\* For commands without "%%", whose specifiers do not stand for nothing or
\* for a blank, quote or '%', that is what splitting first and resolving each
\* word once gives: no word is torn apart, joined or expanded twice.
ArgumentsAsWritten ==
  LET ctx   == SpecifierContext(unit.name)
      words == split_exec(WithoutDash(unit.exec_start))
  IN Running /\ svc # None /\ PlainSpecifiers(unit.exec_start, ctx) =>
       argv = [k \in 1..Len(words) |-> Substituted(words[k], ctx)]
===============================================================================
