--------------------------- MODULE SocketActivation ---------------------------
(***************************************************************************)
(* Listening descriptors, from the phase SocketBind to the service that    *)
(* inherits them: SocketMixin::execute(phase::SocketBind),                 *)
(* collect_socket_env, accept_ready and spawn_with_socket_fds with the     *)
(* renumbering that its child performs between fork and exec.              *)
(*                                                                         *)
(* An open file is named by the descriptor it has in PID 1.  The           *)
(* descriptor table of a child is a function whose domain is the set of    *)
(* its open descriptors.  socket_units_ is a hash map, so the order in     *)
(* which units are bound and the order in which they are collected are     *)
(* unrelated.                                                              *)
(***************************************************************************)
EXTENDS Integers, Sequences

CONSTANTS
  SocketUnit,  \* the socket units that are not bare templates
  listen,      \* [SocketUnit -> Nat], the number of Listen*= entries
  accept,      \* [SocketUnit -> BOOLEAN], Accept=
  Service,     \* the services that are started
  pairs_with,  \* [SocketUnit -> SUBSET Service]
  FirstFd,     \* lowest descriptor free in PID 1 when SocketBind begins
  None

SD_LISTEN_FDS_START == 3

ASSUME SocketAssumption ==
  /\ listen \in [SocketUnit -> Nat]
  /\ pairs_with \in [SocketUnit -> SUBSET Service]
  /\ accept \in [SocketUnit -> BOOLEAN]
  /\ FirstFd \in Nat /\ FirstFd >= SD_LISTEN_FDS_START
  /\ None \notin Nat

VARIABLES
  \* ---- PID 1
  pc,          \* bind, idle, collect, spawn; child: shuffle, running,
               \* failed (no descriptor to move), exited (no exec)
  todo,        \* socket units still to be bound or collected
  fds,         \* [SocketUnit -> the descriptors of its bound entries]
  next_fd,     \* all descriptors below it are open
  cloexec,     \* descriptors with FD_CLOEXEC
  svc,         \* the service being started
  env,         \* its SocketEnv::fds
  conn,        \* the accepted connection, or None
  \* ---- the child of spawn_with_socket_fds
  table,       \* its descriptor table
  flags,       \* its descriptors with FD_CLOEXEC
  w, i

pid1  == <<fds, next_fd, cloexec, svc, env, conn>>
child == <<table, flags, w, i>>
vars  == <<pc, todo, pid1, child>>

Members(s) == { s[k] : k \in 1..Len(s) }

Init ==
  /\ pc = "bind" /\ todo = SocketUnit
  /\ fds = [s \in SocketUnit |-> <<>>]
  /\ next_fd = FirstFd
  /\ cloexec = SD_LISTEN_FDS_START .. (FirstFd - 1)
  /\ svc = None /\ env = <<>> /\ conn = None
  /\ table = <<>> /\ flags = {} /\ w = <<>> /\ i = 1

-------------------------------------------------------------------------------
(* PID 1                                                                   *)

\* Entries that cannot be bound keep fd -1 and are skipped from then on.
BindSocketUnit(s) ==
  /\ pc = "bind" /\ s \in todo
  /\ todo' = todo \ {s}
  /\ \E bound \in 0..listen[s] :
       /\ fds' = [fds EXCEPT ![s] = [k \in 1..bound |-> next_fd + k - 1]]
       /\ next_fd' = next_fd + bound
       /\ cloexec' = cloexec \cup next_fd .. (next_fd + bound - 1)
  /\ UNCHANGED <<pc, svc, env, conn, child>>

SocketsBound ==
  /\ pc = "bind" /\ todo = {}
  /\ pc' = "idle"
  /\ UNCHANGED <<todo, pid1, child>>

\* start_service(u) reaches collect_socket_env.
StartService(u) ==
  /\ pc = "idle"
  /\ pc' = "collect" /\ todo' = SocketUnit
  /\ svc' = u /\ env' = <<>>
  /\ UNCHANGED <<fds, next_fd, cloexec, conn, child>>

\* One unit in the loop of collect_socket_env.
collect_socket_env(s) ==
  /\ pc = "collect" /\ s \in todo
  /\ todo' = todo \ {s}
  /\ env' = IF svc \in pairs_with[s] THEN env \o fds[s] ELSE env
  /\ UNCHANGED <<pc, fds, next_fd, cloexec, svc, conn, child>>

Collected ==
  /\ pc = "collect" /\ todo = {}
  /\ pc' = "spawn"
  /\ UNCHANGED <<todo, pid1, child>>

\* accept_ready: the connection takes the lowest free descriptor.  (Where the
\* code returns early it closes the connection again: no descriptor changes.)
accept_ready ==
  /\ pc = "idle"
  /\ \E s \in SocketUnit : accept[s] /\ fds[s] # <<>>
  /\ conn' = next_fd /\ next_fd' = next_fd + 1
  /\ cloexec' = cloexec \cup {next_fd}
  /\ svc' = None /\ env' = <<next_fd>>
  /\ pc' = "spawn"
  /\ UNCHANGED <<todo, fds, child>>

\* The flags of PID 1 when spawn_with_socket_fds has returned.
\* (mutant: FD_CLOEXEC is not set again)
FlagsNotRestored == cloexec
FlagsRestored == cloexec \cup Members(env)

\* Back in the caller: a connection is closed.
ReturnFromSpawn ==
  /\ next_fd' = IF conn = None THEN next_fd ELSE conn
  /\ cloexec' = FlagsRestored \ {conn}
  /\ conn' = None /\ svc' = None /\ env' = <<>>
  /\ pc' = "idle"
  /\ UNCHANGED <<todo, fds>>

ForkFails ==
  /\ pc = "spawn"
  /\ ReturnFromSpawn
  /\ UNCHANGED child

\* FD_CLOEXEC is cleared on the descriptors to be passed, then fork; a
\* service without sockets takes the same way with an empty list.
Fork ==
  /\ pc = "spawn"
  /\ cloexec' = cloexec \ Members(env)
  /\ table' = [fd \in 0 .. (next_fd - 1) |-> fd]
  /\ flags' = cloexec \ Members(env)
  /\ w' = env /\ i' = 1
  /\ pc' = "shuffle"
  /\ UNCHANGED <<todo, fds, next_fd, svc, env, conn>>

\* The parent goes on; its descriptors and the child's are independent, so
\* it may as well wait until the child has reached exec or _exit.
ChildStarted ==
  /\ pc \in {"running", "failed", "exited"}
  /\ ReturnFromSpawn
  /\ table' = <<>> /\ flags' = {} /\ w' = <<>> /\ i' = 1

-------------------------------------------------------------------------------
(* The child                                                               *)

Close(t, fd) == [x \in DOMAIN t \ {fd} |-> t[x]]
Dup2(t, from, to) ==
  [x \in DOMAIN t \cup {to} |-> IF x = to THEN t[from] ELSE t[x]]

\* The descriptor the service expects its k-th socket at.
Target(k) == SD_LISTEN_FDS_START + k - 1

\* What is closed before the descriptor is duplicated.
\* (mutant: the source instead of the target)
ClosedFirstIsSource == w[i]
ClosedFirst == Target(i)

\* One iteration of the renumbering loop.
Renumber ==
  /\ pc = "shuffle" /\ i <= Len(w)
  /\ i' = i + 1
  /\ LET tgt == Target(i)
         t   == Close(table, ClosedFirst)
         w2  == [k \in 1..Len(w) |-> IF k > i /\ w[k] = w[i] THEN tgt ELSE w[k]]
         keep == \E k \in (i + 1)..Len(w) : w2[k] = w[i]
         open == w[i] \in DOMAIN t   \* otherwise dup2 fails: _exit(125)
     IN \/ /\ w[i] = tgt
           /\ UNCHANGED <<pc, table, flags, w>>
        \/ /\ w[i] # tgt
           /\ pc' = IF open THEN pc ELSE "failed"
           /\ w' = w2
           /\ table' = IF ~open THEN t
                       ELSE IF keep THEN Dup2(t, w[i], tgt)
                       ELSE Close(Dup2(t, w[i], tgt), w[i])
           /\ flags' = flags \ (IF keep THEN {tgt} ELSE {tgt, w[i]})
  /\ UNCHANGED <<todo, pid1>>

\* execvp: descriptors with FD_CLOEXEC are closed.
Exec ==
  /\ pc = "shuffle" /\ i > Len(w)
  /\ table' = [fd \in DOMAIN table \ flags |-> table[fd]]
  /\ flags' = {}
  /\ pc' = "running"
  /\ UNCHANGED <<todo, pid1, w, i>>

\* The program cannot be executed: _exit(127).
ExecFails ==
  /\ pc = "shuffle" /\ i > Len(w)
  /\ pc' = "exited"
  /\ UNCHANGED <<todo, pid1, child>>

-------------------------------------------------------------------------------
Next ==
  \/ \E s \in SocketUnit : BindSocketUnit(s) \/ collect_socket_env(s)
  \/ \E u \in Service : StartService(u)
  \/ SocketsBound \/ Collected \/ accept_ready
  \/ ForkFails \/ Fork \/ ChildStarted
  \/ Renumber \/ Exec \/ ExecFails

Spec == Init /\ [][Next]_vars

-------------------------------------------------------------------------------
(* Properties                                                              *)

Ascending(s) == \A j, k \in 1..Len(s) : j < k => s[j] < s[k]

\* A service whose descriptors are collected in the order they were opened
\* (as they are when one socket unit supplies them all) finds its k-th socket
\* at descriptor 3 + k - 1 and nothing else above standard error: the
\* renumbering overwrites no descriptor that is still needed.
OrderedActivation ==
  Ascending(env) =>
    /\ pc # "failed"
    /\ pc = "running" =>
         /\ DOMAIN table = 0 .. Target(Len(env))
         /\ \A k \in 1..Len(env) : table[Target(k)] = env[k]

\* In whatever order they come, a service never gets a descriptor of PID 1 or
\* of another service: what is open above standard error is its own.
NoForeignDescriptor ==
  pc = "running" =>
    \A fd \in DOMAIN table : fd >= SD_LISTEN_FDS_START => table[fd] \in Members(env)

\* socket_unit.hpp, ListenEntry::name: "fd name for LISTEN_FDNAMES".  The
\* k-th name announced there belongs to the k-th entry collected, so that
\* entry's socket must be the one at descriptor 3 + k - 1.
NamesMatchDescriptors ==
  pc = "running" =>
    \A k \in 1..Len(env) :
      Target(k) \in DOMAIN table /\ table[Target(k)] = env[k]
===============================================================================
