----------------------------- MODULE ChildContext -----------------------------
(***************************************************************************)
(* What a child of PID 1 does between fork and exec to become the process  *)
(* its unit file describes: setup_child_context with lookup_uid,           *)
(* lookup_gid and lookup_home, and the RuntimeDirectory= that PID 1        *)
(* prepares for it in start_service.                                       *)
(*                                                                         *)
(* /etc/passwd is read three times on the way, while systemd-sysusers may  *)
(* be adding users to it.  The results of chown, setgid, initgroups,       *)
(* setuid and chdir are ignored by the code; the kernel refuses those that *)
(* need root from a process that is not root any more.                     *)
(*                                                                         *)
(* A name made of digits is a number: stoul reads it, throws what does not *)
(* fit unsigned long, and the cast to uid_t or gid_t drops what does not   *)
(* fit these.                                                              *)
(***************************************************************************)
EXTENDS Integers, Sequences

CONSTANTS
  User,        \* names that may stand in User=
  uid_of,      \* [User -> ids], their ids once they exist
  gid_of,      \* [known groups -> ids], /etc/group
  number,      \* [names made of digits -> Nat], what they say
  Ids,         \* number of values of uid_t and gid_t
  ULong,       \* number of values of unsigned long
  Inherited    \* environment variables PID 1 itself was started with

Var  == {"HOME", "USER"}
NoId == Ids - 1   \* (uid_t)-1
Unset == <<"unset">>

\* The fields of UnitFile that matter here; "" is an empty one.
\* environment is [names -> values], where a name is a sequence of characters
\* (see CommandLine).

VARIABLES
  passwd,      \* the users /etc/passwd knows
  added,       \* those added since the child looked for the first time
  unit,        \* the unit file
  dir,         \* owner of /run/<RuntimeDirectory>
  step,        \* what the child does next
  target,      \* target_uid and target_gid
  cred,        \* its user, group and supplementary groups
  cwd, environ,
  faults       \* calls that failed on good arguments

context == <<passwd, added, unit, dir, step, target, cred, cwd, environ, faults>>

Root == [uid |-> 0, gid |-> 0, groups |-> ""]

\* Whether stoul throws, which nothing catches.
TooLong(name) == name \in DOMAIN number /\ number[name] >= ULong

lookup_uid(name) ==
  IF name \in DOMAIN number THEN number[name] % Ids
  ELSE IF name \in passwd THEN uid_of[name] ELSE NoId
lookup_gid(name) ==
  IF name \in DOMAIN number THEN number[name] % Ids
  ELSE IF name \in DOMAIN gid_of THEN gid_of[name] ELSE NoId
lookup_home(uid) == IF \E u \in passwd : uid_of[u] = uid THEN "home" ELSE "/"

RootOwned == [uid |-> 0, gid |-> 0]

\* The owner of the runtime directory of u after mkdir and chown; chown
\* leaves alone what is given as -1.
OwnerAfterChown(u, owner) ==
  LET uid == lookup_uid(u.user)
      gid == IF u.group = "" THEN uid ELSE lookup_gid(u.group)
  IN IF ~u.runtime_directory \/ uid = NoId THEN owner
     ELSE [uid |-> uid, gid |-> IF gid = NoId THEN owner.gid ELSE gid]

\* Its lookups throw.
OwnerThrows(u) ==
  /\ u.runtime_directory /\ u.user # ""
  /\ TooLong(u.user) \/ TooLong(u.group)

\* What setup_child_context makes of it.
\* (mutant: chown is left to start_service)
OwnerFromStartService == dir
OwnerInChild == OwnerAfterChown(unit, dir)

Fault(call) == faults' = faults \cup {call}

-------------------------------------------------------------------------------
ContextInit(known, none) ==
  /\ passwd = known /\ added = {}
  /\ unit = none
  /\ dir = RootOwned
  /\ step = "none"
  /\ target = [uid |-> NoId, gid |-> NoId]
  /\ cred = Root /\ cwd = "/"
  /\ environ = [v \in Var |-> IF v \in Inherited THEN <<"inherited">> ELSE Unset]
  /\ faults = {}

\* PID 1 calls start_service for a service with unit file u, which finds no
\* runtime directory yet; its chown, too, may fail unnoticed.  (Lookups that
\* throw here terminate PID 1, and there is no next step.)
PrepareService(u) ==
  /\ step = "none"
  /\ ~OwnerThrows(u)
  /\ unit' = u
  /\ dir' \in {RootOwned, OwnerAfterChown(u, RootOwned)}
  /\ UNCHANGED <<passwd, added, step, target, cred, cwd, environ, faults>>

\* accept_ready finds u for a connection: nothing is prepared.
PrepareConnection(u) ==
  /\ step = "none"
  /\ unit' = u
  /\ dir' = RootOwned
  /\ UNCHANGED <<passwd, added, step, target, cred, cwd, environ, faults>>

\* systemd-sysusers, or another process, adds a user.
AddUser(u) ==
  /\ u \notin passwd
  /\ passwd' = passwd \cup {u}
  /\ added' = added \cup {u}
  /\ UNCHANGED <<unit, dir, step, target, cred, cwd, environ, faults>>

\* fork: the child has the credentials, directory and variables of PID 1.
EnterChild ==
  /\ step = "none"
  /\ step' = "directory"
  /\ UNCHANGED <<passwd, added, unit, dir, target, cred, cwd, environ, faults>>

\* mkdir and chown of the runtime directory.
RuntimeDirectory ==
  /\ step = "directory"
  /\ ~OwnerThrows(unit)
  /\ step' = "lookup"
  /\ added' = {}
  /\ \/ dir' = OwnerInChild /\ UNCHANGED faults
     \/ unit.runtime_directory /\ Fault("chown") /\ UNCHANGED dir
  /\ UNCHANGED <<passwd, unit, target, cred, cwd, environ>>

\* The second look into /etc/passwd decides who the service runs as; a
\* user that is unknown, or DynamicUser=, leaves it root.
LooksUp == ~unit.dynamic_user /\ unit.user # ""
LookupThrows ==
  /\ LooksUp
  /\ \/ TooLong(unit.user)
     \/ lookup_uid(unit.user) # NoId /\ TooLong(unit.group)
LookupUser ==
  /\ step = "lookup"
  /\ ~LookupThrows
  /\ LET uid == IF LooksUp THEN lookup_uid(unit.user) ELSE NoId
         gid == IF unit.group = "" \/ lookup_gid(unit.group) = NoId THEN uid
                ELSE lookup_gid(unit.group)
     IN IF uid = NoId
        THEN step' = "root" /\ UNCHANGED target
        ELSE step' = "credentials" /\ target' = [uid |-> uid, gid |-> gid]
  /\ UNCHANGED <<passwd, added, unit, dir, cred, cwd, environ, faults>>

\* The exception of either lookup ends the child before its exec.
Aborted ==
  /\ \/ step = "directory" /\ OwnerThrows(unit)
     \/ step = "lookup" /\ LookupThrows
  /\ step' = "aborted"
  /\ UNCHANGED <<passwd, added, unit, dir, target, cred, cwd, environ, faults>>

-------------------------------------------------------------------------------
(* Credentials                                                             *)

\* The order of the calls.
\* (mutant: setuid first)
CallsUidFirst == <<"setuid", "setgid", "initgroups">>
Calls == <<"setgid", "initgroups", "setuid">>

\* One call on credentials c; without root it is refused.
Do(c, call) ==
  IF c.uid # 0 THEN c
  ELSE CASE call = "setgid"     -> [c EXCEPT !.gid = target.gid]
         [] call = "initgroups" -> [c EXCEPT !.groups = unit.user]
         [] call = "setuid"     -> [c EXCEPT !.uid = target.uid]
         [] OTHER               -> c

\* setgid, initgroups and setuid.  Nothing is read in between, so the three
\* are one step, and any of them may fail.
ChangeCredentials ==
  /\ step = "credentials"
  /\ step' = "user"
  /\ \E failing \in SUBSET {"setgid", "initgroups", "setuid"} :
       LET Try(c, k) == IF Calls[k] \in failing THEN c ELSE Do(c, Calls[k])
       IN /\ cred' = Try(Try(Try(cred, 1), 2), 3)
          /\ faults' = faults \cup failing
  /\ UNCHANGED <<passwd, added, unit, dir, target, cwd, environ>>

-------------------------------------------------------------------------------
(* Directory and environment: the way out of a user and that of root       *)

chdir(goal) ==
  \/ cwd' = goal /\ UNCHANGED faults
  \/ goal # cwd /\ Fault("chdir") /\ UNCHANGED cwd

\* USER, LOGNAME and HOME are set unless PID 1 has them; the working
\* directory is that of the unit file or, for a user with an id other than 0,
\* its home.
DirectoryOfUser ==
  /\ step = "user"
  /\ step' = "user environment"
  /\ environ' = [v \in Var |-> IF environ[v] = Unset THEN <<"passwd">> ELSE environ[v]]
  /\ chdir(IF unit.working_directory # "" THEN unit.working_directory
           ELSE IF target.uid # 0 THEN lookup_home(target.uid) ELSE cwd)
  /\ UNCHANGED <<passwd, added, unit, dir, target, cred>>

DirectoryOfRoot ==
  /\ step = "root"
  /\ step' = "root environment"
  /\ chdir(IF unit.working_directory # "" THEN unit.working_directory ELSE cwd)
  /\ UNCHANGED <<passwd, added, unit, dir, target, cred, environ>>

WithEnvironment ==
  [v \in Var |-> IF <<v>> \in DOMAIN unit.environment THEN unit.environment[<<v>>]
                 ELSE environ[v]]

EnvironmentOfUser ==
  /\ step = "user environment"
  /\ step' = "exec"
  /\ environ' = WithEnvironment
  /\ UNCHANGED <<passwd, added, unit, dir, target, cred, cwd, faults>>

EnvironmentOfRoot ==
  /\ step = "root environment"
  /\ step' = "exec"
  /\ environ' = WithEnvironment
  /\ UNCHANGED <<passwd, added, unit, dir, target, cred, cwd, faults>>

ContextStep ==
  \/ RuntimeDirectory \/ LookupUser \/ Aborted \/ ChangeCredentials
  \/ DirectoryOfUser \/ EnvironmentOfUser \/ DirectoryOfRoot \/ EnvironmentOfRoot

\* The child is through, or there was no fork; PID 1 is where it was.
LeaveChild(none) ==
  /\ step' = "none"
  /\ unit' = none /\ dir' = RootOwned
  /\ target' = [uid |-> NoId, gid |-> NoId]
  /\ cred' = Root /\ cwd' = "/"
  /\ environ' = [v \in Var |-> IF v \in Inherited THEN <<"inherited">> ELSE Unset]
  /\ faults' = {} /\ added' = {}
  /\ UNCHANGED passwd
===============================================================================
