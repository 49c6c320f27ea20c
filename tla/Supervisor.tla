------------------------------ MODULE Supervisor ------------------------------
(***************************************************************************)
(* trivialInit as PID 1 from the UnitExecute phase on: InitSystem::run     *)
(* with ProcessMixin, SignalMixin, the service half of UnitExecMixin and   *)
(* the connection half of SocketMixin, running against a kernel that owns  *)
(* the children, the pending signals and the listening sockets' backlogs.  *)
(*                                                                         *)
(* The program is one thread.  What makes it hard is everything that       *)
(* happens between two of its system calls: children die, signals          *)
(* coalesce, clients connect, time passes.  So every call that looks at    *)
(* the kernel (epoll_wait, a read of the signalfd, one waitpid, one fork,  *)
(* one accept4, one kill loop) is a step of its own, and the code between  *)
(* two such calls belongs to the step before it.                           *)
(***************************************************************************)
EXTENDS RestartRules, FiniteSets, Sequences

CONSTANTS
  Unit,         \* names of the service units in units_
  units_,       \* [Unit -> UnitFile], what UnitParse read
  exec_order_,  \* the services of exec_order_, in that order
  Pid,          \* process ids the kernel hands out to fork
  OrphanPid,    \* process ids of processes re-parented to PID 1
  Socket,       \* names of the Accept=yes units in socket_units_
  ListenFd,     \* their listening descriptors
  fd_to_socket_,\* [ListenFd -> Socket], as register_accept_sockets fills it
  resolve_pair, \* [Socket -> Unit or None], the service of a connection
  max_conn,     \* [Socket -> Nat], MaxConnections= (0: unlimited)
  SysUsers,     \* the unit systemd-sysusers.service, or None
  Signals,      \* signals other than SIGCHLD that the outside may send
  IsPid1,       \* getpid() == 1
  None,         \* "no entry" in a map, "no unit", "no process"
  MaxBacklog,   \* bound: connections waiting on one socket
  GracePolls,   \* polls granted to services at shutdown (50 in the code)
  MaxTime       \* bound: the clock stops there

UnitFile == [ restart_policy         : STRING,
              restart_limit_burst    : Int,
              restart_limit_interval : Int,
              exec_start_pre         : Seq(BOOLEAN), \* starts with '-' ?
              exec_start             : BOOLEAN,  \* there is a command
              is_bare_template       : BOOLEAN,
              conditional            : BOOLEAN ] \* has conditions that may
                                                 \* or may not hold at boot

AnyPid == Pid \cup OrphanPid
SigFd  == "signal_fd_"

ASSUME SupervisorAssumption ==
  /\ units_ \in [Unit -> UnitFile]
  /\ exec_order_ \in Seq(Unit)
  /\ \A j, k \in 1..Len(exec_order_) :
       exec_order_[j] = exec_order_[k] => j = k
  /\ IsFiniteSet(Pid) /\ IsFiniteSet(OrphanPid) /\ Pid \cap OrphanPid = {}
  /\ fd_to_socket_ \in [ListenFd -> Socket]
  /\ resolve_pair \in [Socket -> Unit \cup {None}]
  /\ max_conn \in [Socket -> Nat]
  /\ Signals \subseteq {"TERM", "USR1"}
  /\ IsPid1 \in BOOLEAN
  /\ None \notin Unit \cup AnyPid \cup Socket
  /\ SigFd \notin ListenFd
  /\ MaxBacklog \in Nat /\ GracePolls \in Nat /\ MaxTime \in Nat

VARIABLES
  \* ---- the kernel
  child,        \* [AnyPid -> "free", "alive", or an exit status: a zombie]
  pending_sig,  \* signals pending on the signalfd (standard: no queueing)
  termed,       \* live processes that were sent SIGTERM
  killed,       \* live processes that were sent SIGKILL
  backlog,      \* [ListenFd -> connections waiting to be accepted]
  now,          \* steady_clock::now()
  \* ---- ProcessMixin and SocketMixin
  processes_, unit_to_pid_, exit_callbacks_, pending_restarts_,
  restart_counts_, active_connections,
  \* ---- SignalMixin and FilesystemMixin
  shutdown_requested_, runtime_dirs_chowned_,
  \* ---- where the thread is
  phase,        \* the part of run() being executed
  pc,           \* the system call it is about to make
  idx,          \* loop counter: exec_order_ index, or polls made at shutdown
  events,       \* descriptors epoll_wait returned and not handled yet
  ready,        \* units drain_pending_restarts returned and not started yet
  job,          \* the start_service call under way
  \* ---- history, read by properties only
  scheduled,    \* [Unit -> times at which a restart was scheduled]
  sysusers_ok   \* systemd-sysusers was reaped with exit code 0

kernel  == <<child, pending_sig, termed, killed, backlog, now>>
tables  == <<processes_, unit_to_pid_, exit_callbacks_, pending_restarts_,
             restart_counts_, active_connections>>
flags   == <<shutdown_requested_, runtime_dirs_chowned_>>
control == <<phase, pc, idx, events, ready, job>>
history == <<scheduled, sysusers_ok>>
vars    == <<kernel, tables, flags, control, history>>

-------------------------------------------------------------------------------
(* Values                                                                  *)

TrackedProcess == [ unit_name          : Unit \cup {None},
                    restart_policy     : RestartPolicy,
                    restart_count      : Nat,
                    burst_count        : Int,
                    burst_window_start : Nat ]

PendingRestart == [ unit_name          : Unit,
                    when               : Nat,
                    restart_count      : Nat,
                    burst_count        : Int,
                    burst_window_start : Nat ]

\* A restart_counts_ entry; restart_count 0 is never stored, so it marks
\* the absence of an entry.
RestartMeta == [ restart_count : Nat, burst_count : Int,
                 burst_window_start : Nat ]

\* A call of start_service: its unit, the ExecStartPre commands left and the
\* child it waits for.
StartJob == [ unit : Unit \cup {None}, pre : Seq(BOOLEAN),
              pid : Pid \cup {None} ]

NewProcess(u, policy) ==
  [ unit_name |-> u, restart_policy |-> policy, restart_count |-> 0,
    burst_count |-> 0, burst_window_start |-> 0 ]
NoProcess == NewProcess(None, "no")
NoMeta    == [ restart_count |-> 0, burst_count |-> 0,
               burst_window_start |-> 0 ]
NoJob     == [ unit |-> None, pre |-> <<>>, pid |-> None ]

Tracked   == { p \in Pid : processes_[p].unit_name # None }
Zombies   == { p \in AnyPid : child[p] \in ExitStatus }
FreePids  == { p \in Pid : child[p] = "free" }

TypeOK ==
  /\ child \in [AnyPid -> {"free", "alive"} \cup ExitStatus]
  /\ pending_sig \subseteq {"CHLD", "TERM", "USR1"}
  /\ termed \subseteq Pid /\ killed \subseteq Pid
  /\ backlog \in [ListenFd -> 0..MaxBacklog]
  /\ now \in 0..MaxTime
  /\ processes_ \in [Pid -> TrackedProcess]
  /\ unit_to_pid_ \in [Unit -> Pid \cup {None}]
  /\ exit_callbacks_ \in [Pid -> Socket \cup {None}]
  /\ pending_restarts_ \subseteq PendingRestart
  /\ restart_counts_ \in [Unit -> RestartMeta]
  /\ active_connections \in [Socket -> Nat]
  /\ shutdown_requested_ \in BOOLEAN
  /\ runtime_dirs_chowned_ \in BOOLEAN
  /\ phase \in {"boot", "run", "grace", "final", "done"}
  /\ pc \in {"next", "start", "waitpre", "poll", "dispatch", "drain", "reap",
             "restart", "stop"}
  /\ idx \in Nat
  /\ events \subseteq ListenFd \cup {SigFd}
  /\ ready \subseteq Unit
  /\ job \in StartJob
  /\ scheduled \in [Unit -> SUBSET Nat]
  /\ sysusers_ok \in BOOLEAN

Init ==
  /\ child = [p \in AnyPid |-> "free"]
  /\ pending_sig = {} /\ termed = {} /\ killed = {}
  /\ backlog = [f \in ListenFd |-> 0]
  /\ now = 0
  /\ processes_ = [p \in Pid |-> NoProcess]
  /\ unit_to_pid_ = [u \in Unit |-> None]
  /\ exit_callbacks_ = [p \in Pid |-> None]
  /\ pending_restarts_ = {}
  /\ restart_counts_ = [u \in Unit |-> NoMeta]
  /\ active_connections = [s \in Socket |-> 0]
  /\ shutdown_requested_ = FALSE
  /\ runtime_dirs_chowned_ = FALSE
  /\ phase = "boot" /\ pc = "next" /\ idx = 1
  /\ events = {} /\ ready = {} /\ job = NoJob
  /\ scheduled = [u \in Unit |-> {}]
  /\ sysusers_ok = FALSE

-------------------------------------------------------------------------------
(* The world outside, while PID 1 runs                                     *)

Exit(p, status) ==
  /\ phase # "done"
  /\ child[p] = "alive"
  /\ p \in killed => status = "signal"
  /\ child' = [child EXCEPT ![p] = status]
  /\ pending_sig' = pending_sig \cup {"CHLD"}
  /\ UNCHANGED <<termed, killed, backlog, now, tables, flags, control, history>>

\* A process whose parent died becomes a child of PID 1.
Reparent(p) ==
  /\ phase # "done" /\ IsPid1
  /\ child[p] = "free"
  /\ child' = [child EXCEPT ![p] = "alive"]
  /\ UNCHANGED <<pending_sig, termed, killed, backlog, now,
                 tables, flags, control, history>>

Connect(fd) ==
  /\ phase # "done"
  /\ backlog[fd] < MaxBacklog
  /\ backlog' = [backlog EXCEPT ![fd] = @ + 1]
  /\ UNCHANGED <<child, pending_sig, termed, killed, now,
                 tables, flags, control, history>>

Tick ==
  /\ phase # "done"
  /\ now < MaxTime
  /\ now' = now + 1
  /\ UNCHANGED <<child, pending_sig, termed, killed, backlog,
                 tables, flags, control, history>>

\* "TERM" stands for SIGTERM and SIGINT, which the code treats alike.  Once
\* the shutdown is under way further ones change nothing and are left out.
SendSignal(g) ==
  /\ phase # "done"
  /\ g = "TERM" => ~shutdown_requested_
  /\ pending_sig' = pending_sig \cup {g}
  /\ UNCHANGED <<child, termed, killed, backlog, now,
                 tables, flags, control, history>>

-------------------------------------------------------------------------------
(* UnitExecMixin: executing the units, starting a service                  *)

\* start_service(u) is called; its first system call is next.
BeginStart(u) ==
  /\ job' = [unit |-> u, pre |-> units_[u].exec_start_pre, pid |-> None]
  /\ pc' = "start"

\* start_service returns to the loop that called it.
ReturnFromStart ==
  /\ job' = NoJob
  /\ pc' = "next"

\* One iteration of execute(phase::UnitExecute).  Whether the conditions of a
\* unit hold is up to the file system, the kernel and the command line.
UnitExecute ==
  /\ phase = "boot" /\ pc = "next" /\ idx <= Len(exec_order_)
  /\ idx' = idx + 1
  /\ LET unit == units_[exec_order_[idx]] IN
       \/ /\ unit.is_bare_template \/ unit.conditional
          /\ UNCHANGED <<pc, job>>
       \/ /\ ~unit.is_bare_template
          /\ BeginStart(exec_order_[idx])
  /\ UNCHANGED <<phase, events, ready, kernel, tables, flags, history>>

EnterMainLoop ==
  /\ phase = "boot" /\ pc = "next" /\ idx > Len(exec_order_)
  /\ phase' = "run" /\ pc' = "poll"
  /\ UNCHANGED <<idx, events, ready, job, kernel, tables, flags, history>>

\* fork for the next ExecStartPre command; a failed fork skips the command.
RunStartPre ==
  /\ pc = "start" /\ job.pre # <<>>
  /\ \/ \E p \in FreePids :
          /\ child' = [child EXCEPT ![p] = "alive"]
          /\ job' = [job EXCEPT !.pid = p]
          /\ pc' = "waitpre"
     \/ /\ job' = [job EXCEPT !.pre = Tail(@)]
        /\ UNCHANGED <<child, pc>>
  /\ UNCHANGED <<phase, idx, events, ready, pending_sig, termed, killed,
                 backlog, now, tables, flags, history>>

\* The blocking waitpid on that command, and what follows it.
WaitStartPre ==
  /\ pc = "waitpre" /\ child[job.pid] \in ExitStatus
  /\ child' = [child EXCEPT ![job.pid] = "free"]
  /\ IF child[job.pid] # "success" /\ ~Head(job.pre)
     THEN ReturnFromStart
     ELSE /\ job' = [job EXCEPT !.pre = Tail(@), !.pid = None]
          /\ pc' = "start"
  /\ UNCHANGED <<phase, idx, events, ready, pending_sig, termed, killed,
                 backlog, now, tables, flags, history>>

\* apply_restart_count: the counters a new process of u starts with.
WithRestartCountForgotten(tp, u) == tp \* mutant: apply_restart_count lost

WithRestartCount(tp, u) ==
  LET meta == restart_counts_[u] IN
  IF meta.restart_count = 0 THEN tp
  ELSE [tp EXCEPT !.restart_count      = meta.restart_count,
                  !.burst_count        = meta.burst_count,
                  !.burst_window_start = meta.burst_window_start]

\* fork and exec of ExecStart (spawn, or spawn_with_socket_fds for a service
\* that a socket unit activates), then apply_restart_count.
Spawn ==
  /\ pc = "start" /\ job.pre = <<>>
  /\ \/ /\ units_[job.unit].exec_start
        /\ \E p \in FreePids :
             LET tp == NewProcess(job.unit,
                         parse_restart_policy(units_[job.unit].restart_policy))
             IN /\ child' = [child EXCEPT ![p] = "alive"]
                /\ processes_' = [processes_ EXCEPT
                                    ![p] = WithRestartCount(tp, job.unit)]
                /\ unit_to_pid_' = [unit_to_pid_ EXCEPT ![job.unit] = p]
                /\ restart_counts_' = [restart_counts_ EXCEPT
                                         ![job.unit] = NoMeta]
     \/ \* no ExecStart, or fork failed
        UNCHANGED <<child, processes_, unit_to_pid_, restart_counts_>>
  /\ ReturnFromStart
  /\ UNCHANGED <<phase, idx, events, ready, pending_sig, termed, killed,
                 backlog, now, exit_callbacks_, pending_restarts_,
                 active_connections, flags, history>>

-------------------------------------------------------------------------------
(* The event loop: epoll_wait, the signalfd, reaping                       *)

\* epoll is level triggered: a descriptor is ready as long as it has input.
ReadyFds ==
  { fd \in ListenFd : backlog[fd] > 0 } \cup
  { fd \in {SigFd} : pending_sig # {} }

\* The loop at shutdown polls while services are alive, GracePolls times.
GraceLasts == idx < GracePolls /\ Tracked # {}

PollNotCounted == idx \* mutant: the counter is not incremented
PollCounted == idx + 1

\* epoll_wait in poll_once_with_sockets (main loop) or poll_once (shutdown).
Poll ==
  /\ pc = "poll"
  /\ \/ phase \in {"run", "final"} /\ UNCHANGED idx
     \/ phase = "grace" /\ GraceLasts /\ idx' = PollCounted
  /\ events' = ReadyFds
  /\ pc' = "dispatch"
  /\ UNCHANGED <<phase, ready, job, kernel, tables, flags, history>>

DispatchSignals ==
  /\ pc = "dispatch" /\ SigFd \in events
  /\ events' = events \ {SigFd}
  /\ pc' = "drain"
  /\ UNCHANGED <<phase, idx, ready, job, kernel, tables, flags, history>>

\* One read of the signalfd in drain_signals, and the switch on its result.
drain_signals(g) ==
  /\ pc = "drain" /\ g \in pending_sig
  /\ pending_sig' = pending_sig \ {g}
  /\ pc' = IF g = "CHLD" THEN "reap" ELSE pc
  /\ shutdown_requested_' = (shutdown_requested_ \/ g = "TERM")
  /\ UNCHANGED <<child, termed, killed, backlog, now, runtime_dirs_chowned_,
                 phase, idx, events, ready, job, tables, history>>

SignalsDrained ==
  /\ pc = "drain" /\ pending_sig = {}
  /\ pc' = "dispatch"
  /\ UNCHANGED <<phase, idx, events, ready, job, kernel, tables, flags,
                 history>>

\* The burst window of a process that died and is to be restarted.
\* (mutant: every exit opens a new window)
BurstAfterExitFresh(tp) == [start |-> now, count |-> 1]

BurstAfterExit(tp) ==
  IF now - tp.burst_window_start > units_[tp.unit_name].restart_limit_interval
  THEN [start |-> now, count |-> 1]
  ELSE [start |-> tp.burst_window_start, count |-> tp.burst_count + 1]

\* The entry pushed to pending_restarts_ for tp, if its burst allows one.
RestartsOf(tp, status) ==
  LET burst == BurstAfterExit(tp) IN
  { pr \in { [ unit_name          |-> tp.unit_name,
               when               |-> now + BackoffDelay(tp.restart_count),
               restart_count      |-> tp.restart_count + 1,
               burst_count        |-> burst.count,
               burst_window_start |-> burst.start ] } :
      /\ should_restart(tp.restart_policy, status)
      /\ burst.count <= units_[tp.unit_name].restart_limit_burst }

\* unit_to_pid_.erase(tp.unit_name), whatever process the name maps to.
EraseUnitKept(u) == unit_to_pid_ \* mutant: the erase is missing
EraseUnit(u) == [unit_to_pid_ EXCEPT ![u] = None]

\* The exit callback of a connection's process: one connection fewer.
\* (mutant: the callback is run twice)
ConnectionsAfterExitTwice(p) ==
  [s \in Socket |-> IF exit_callbacks_[p] = s
                    THEN active_connections[s] - 2
                    ELSE active_connections[s]]

ConnectionsAfterExit(p) ==
  [s \in Socket |-> IF exit_callbacks_[p] = s
                    THEN active_connections[s] - 1
                    ELSE active_connections[s]]

\* One child returned by waitpid in the loop of reap_children.
ReapTracked(p) ==
  /\ pc = "reap" /\ child[p] \in ExitStatus /\ p \in Tracked
  /\ LET tp == processes_[p]
         restarts == RestartsOf(tp, child[p])
     IN /\ unit_to_pid_' = EraseUnit(tp.unit_name)
        /\ pending_restarts_' = pending_restarts_ \cup restarts
        /\ scheduled' = [scheduled EXCEPT ![tp.unit_name] =
                           IF restarts = {} THEN @ ELSE @ \cup {now}]
        /\ sysusers_ok' = \/ sysusers_ok
                          \/ tp.unit_name = SysUsers /\ child[p] = "success"
  /\ active_connections' = ConnectionsAfterExit(p)
  /\ exit_callbacks_' = [exit_callbacks_ EXCEPT ![p] = None]
  /\ processes_' = [processes_ EXCEPT ![p] = NoProcess]
  /\ child' = [child EXCEPT ![p] = "free"]
  /\ termed' = termed \ {p} /\ killed' = killed \ {p}
  /\ UNCHANGED <<pending_sig, backlog, now, restart_counts_, flags, control>>

\* The same for a child no table knows: only waitpid has an effect.
ReapUntracked(p) ==
  /\ pc = "reap" /\ child[p] \in ExitStatus /\ p \notin Tracked
  /\ child' = [child EXCEPT ![p] = "free"]
  /\ UNCHANGED <<pending_sig, termed, killed, backlog, now, tables, flags,
                 control, history>>

\* reap_children ends when waitpid has no more children to return.
NoChildLeftAssumed == TRUE \* mutant: if instead of while
NoChildLeft == Zombies = {}

ChildrenReaped ==
  /\ pc = "reap" /\ NoChildLeft
  /\ pc' = "drain"
  /\ UNCHANGED <<phase, idx, events, ready, job, kernel, tables, flags,
                 history>>

-------------------------------------------------------------------------------
(* SocketMixin: connections to Accept=yes sockets                          *)

\* Only poll_once_with_sockets looks at the listening descriptors;
\* poll_once, used at shutdown, skips their events.
AcceptsAtShutdown == pc = "dispatch" \* mutant: poll_once accepts too
Accepts == pc = "dispatch" /\ phase = "run"

\* (mutant: > for >=)
AtConnectionLimitOffByOne(s) ==
  max_conn[s] > 0 /\ active_connections[s] > max_conn[s]

AtConnectionLimit(s) == max_conn[s] > 0 /\ active_connections[s] >= max_conn[s]

IgnoreSocketEvent(fd) ==
  /\ pc = "dispatch" /\ fd \in events \cap ListenFd /\ ~Accepts
  /\ events' = events \ {fd}
  /\ UNCHANGED <<phase, pc, idx, ready, job, kernel, tables, flags, history>>

\* accept_ready takes the connection, and counts it until no process is left
\* for it.
TakeConnection(fd) ==
  /\ Accepts /\ fd \in events \cap ListenFd
  /\ backlog[fd] > 0
  /\ events' = events \ {fd}
  /\ backlog' = [backlog EXCEPT ![fd] = @ - 1]

Counted(s) == [active_connections EXCEPT ![s] = @ + 1]

\* The unit is known and has a command.
Served(u) == u # None /\ units_[u].exec_start

\* (mutant: an early return keeps the count)
UncountedForgotten(counts, s) == counts
Uncounted(counts, s) == [counts EXCEPT ![s] = @ - 1]

\* accept4 fails; the connection stays or is gone.
AcceptFails(fd) ==
  /\ Accepts /\ fd \in events \cap ListenFd
  /\ events' = events \ {fd}
  /\ \/ UNCHANGED backlog
     \/ backlog[fd] > 0 /\ backlog' = [backlog EXCEPT ![fd] = @ - 1]
  /\ UNCHANGED active_connections

\* It is closed at once where the limit is reached,
CloseOverLimit(fd) ==
  /\ TakeConnection(fd)
  /\ AtConnectionLimit(fd_to_socket_[fd])
  /\ UNCHANGED active_connections

\* where there is no service for it or that has no command,
CloseUnserved(fd) ==
  /\ TakeConnection(fd)
  /\ LET s == fd_to_socket_[fd]
         u == resolve_pair[s]
     IN /\ ~AtConnectionLimit(s)
        /\ ~Served(u)
        /\ active_connections' = Uncounted(Counted(s), s)

\* and where fork fails.
ConnectionForkFails(fd) ==
  /\ TakeConnection(fd)
  /\ LET s == fd_to_socket_[fd]
         u == resolve_pair[s]
     IN /\ ~AtConnectionLimit(s)
        /\ Served(u)
        /\ active_connections' = Uncounted(Counted(s), s)

\* accept_ready when no process comes of it.
RefuseConnection(fd) ==
  /\ \/ AcceptFails(fd) \/ CloseOverLimit(fd)
     \/ CloseUnserved(fd) \/ ConnectionForkFails(fd)
  /\ UNCHANGED <<phase, pc, idx, ready, job, child, pending_sig, termed,
                 killed, now, processes_, unit_to_pid_, exit_callbacks_,
                 pending_restarts_, restart_counts_, flags, history>>

\* accept_ready when the paired service is spawned on the connection:
\* track_process with policy No, then on_child_exit.
AcceptConnection(fd) ==
  /\ TakeConnection(fd)
  /\ LET s == fd_to_socket_[fd]
         u == resolve_pair[s]
     IN /\ ~AtConnectionLimit(s)
        /\ Served(u)
        /\ \E p \in FreePids :
             /\ child' = [child EXCEPT ![p] = "alive"]
             /\ processes_' = [processes_ EXCEPT ![p] = NewProcess(u, "no")]
             /\ unit_to_pid_' = [unit_to_pid_ EXCEPT ![u] = p]
             /\ exit_callbacks_' = [exit_callbacks_ EXCEPT ![p] = s]
        /\ active_connections' = Counted(s)
  /\ UNCHANGED <<phase, pc, idx, ready, job, pending_sig, termed, killed, now,
                 pending_restarts_, restart_counts_, flags, history>>

-------------------------------------------------------------------------------
(* The rest of the main loop, and the shutdown                             *)

\* All events handled: process_restarts is next, or the next poll of the
\* shutdown, or, after the last poll, close_all_sockets and the unmounts.
EventsHandled ==
  /\ pc = "dispatch" /\ events = {}
  /\ \/ phase = "run" /\ pc' = "restart" /\ UNCHANGED phase
     \/ phase = "grace" /\ pc' = "poll" /\ UNCHANGED phase
     \/ phase = "final" /\ pc' = "stop" /\ phase' = "done"
  /\ UNCHANGED <<idx, events, ready, job, kernel, tables, flags, history>>

IsDueEarly(pr) == now + kBaseDelay >= pr.when \* mutant: early by a delay
IsDue(pr) == now >= pr.when

\* What stays in pending_restarts_ when the due entries have been taken out.
RemainingKeepsAll(due) == pending_restarts_ \* mutant: nothing is removed
Remaining(due) == pending_restarts_ \ due

drain_pending_restarts ==
  /\ pc = "restart"
  /\ LET due == { pr \in pending_restarts_ : IsDue(pr) }
         dueOf(u) == { pr \in due : pr.unit_name = u }
     IN /\ ready' = { pr.unit_name : pr \in due }
        /\ restart_counts_' =
             [u \in Unit |->
                IF dueOf(u) = {} THEN restart_counts_[u]
                ELSE LET pr == CHOOSE pr \in dueOf(u) : TRUE
                     IN [ restart_count      |-> pr.restart_count,
                          burst_count        |-> pr.burst_count,
                          burst_window_start |-> pr.burst_window_start ]]
        /\ pending_restarts_' = Remaining(due)
  /\ pc' = "next"
  /\ UNCHANGED <<phase, idx, events, job, kernel, processes_, unit_to_pid_,
                 exit_callbacks_, active_connections, flags, history>>

process_restarts(u) ==
  /\ phase = "run" /\ pc = "next" /\ u \in ready
  /\ ready' = ready \ {u}
  /\ BeginStart(u)
  /\ UNCHANGED <<phase, idx, events, kernel, tables, flags, history>>

\* What maybe_fix_runtime_dirs reads: sysusers is in the boot order and no
\* process of it is known.
\* (mutant: unit_to_pid_ is not looked at)
SysUsersInOrder == \E k \in 1..Len(exec_order_) : exec_order_[k] = SysUsers

SysUsersGone ==
  /\ \E k \in 1..Len(exec_order_) : exec_order_[k] = SysUsers
  /\ unit_to_pid_[SysUsers] = None

\* The loop of process_restarts ends when all units have had their turn.
RestartsHandledEarly == TRUE \* mutant: the loop may stop early
RestartsHandled == ready = {}

\* maybe_fix_runtime_dirs, the TUI's quit key (obeyed unless PID 1), and the
\* test of the loop.
EndOfIteration ==
  /\ phase = "run" /\ pc = "next" /\ RestartsHandled
  /\ runtime_dirs_chowned_' = (runtime_dirs_chowned_ \/ SysUsersGone)
  /\ \/ (shutdown_requested_ \/ ~IsPid1) /\ pc' = "stop"
     \/ ~shutdown_requested_ /\ pc' = "poll"
  /\ UNCHANGED <<phase, idx, events, ready, job, kernel, tables,
                 shutdown_requested_, history>>

\* The processes stop_unit reaches, in the loop over exec_order_.
\* (mutant: the reverse loop stops one short)
StopTargetsButFirst ==
  { unit_to_pid_[exec_order_[k]] : k \in 2..Len(exec_order_) } \ {None}

StopTargets ==
  { unit_to_pid_[exec_order_[k]] : k \in 1..Len(exec_order_) } \ {None}

\* stop_unit for every unit in reverse order.  Nothing is read back between
\* two kills, so the loop is one step.
StopUnits ==
  /\ phase = "run" /\ pc = "stop"
  /\ processes_' = [p \in Pid |-> IF p \in StopTargets
                                  THEN [processes_[p] EXCEPT
                                          !.restart_policy = "no"]
                                  ELSE processes_[p]]
  /\ termed' = termed \cup StopTargets
  /\ phase' = "grace" /\ pc' = "poll" /\ idx' = 0
  /\ UNCHANGED <<events, ready, job, child, pending_sig, killed, backlog, now,
                 unit_to_pid_, exit_callbacks_, pending_restarts_,
                 restart_counts_, active_connections, flags, history>>

\* The SIGKILL loop over processes_.
KillAll ==
  /\ phase = "grace" /\ pc = "poll" /\ ~GraceLasts
  /\ killed' = killed \cup Tracked
  /\ phase' = "final"
  /\ UNCHANGED <<pc, idx, events, ready, job, child, pending_sig, termed,
                 backlog, now, tables, flags, history>>

\* run() has returned.
Terminated == phase = "done" /\ UNCHANGED vars

-------------------------------------------------------------------------------
Environment ==
  \/ \E p \in AnyPid, status \in ExitStatus : Exit(p, status)
  \/ \E p \in OrphanPid : Reparent(p)
  \/ \E fd \in ListenFd : Connect(fd)
  \/ Tick
  \/ \E g \in Signals : SendSignal(g)

InitThread ==
  \/ UnitExecute \/ EnterMainLoop
  \/ RunStartPre \/ WaitStartPre \/ Spawn
  \/ Poll \/ DispatchSignals \/ SignalsDrained
  \/ \E g \in {"CHLD", "TERM", "USR1"} : drain_signals(g)
  \/ \E p \in Pid : ReapTracked(p)
  \/ \E p \in AnyPid : ReapUntracked(p)
  \/ ChildrenReaped
  \/ \E fd \in ListenFd : \/ IgnoreSocketEvent(fd)
                          \/ RefuseConnection(fd)
                          \/ AcceptConnection(fd)
  \/ EventsHandled
  \/ drain_pending_restarts
  \/ \E u \in Unit : process_restarts(u)
  \/ EndOfIteration
  \/ StopUnits \/ KillAll

Next == Environment \/ InitThread \/ Terminated

Spec == Init /\ [][Next]_vars

\* The kernel keeps scheduling PID 1, and time passes.  Nothing is assumed of
\* the children: a service may run for ever, and so may an ExecStartPre
\* command.
FairSpec == Spec /\ WF_vars(InitThread) /\ WF_vars(Tick)

-------------------------------------------------------------------------------
(* Properties                                                              *)

\* The process started for unit u itself, not for one of its connections.
MainProcesses(u) ==
  { p \in Tracked : processes_[p].unit_name = u /\ exit_callbacks_[p] = None }

PendingOf(u) == { pr \in pending_restarts_ : pr.unit_name = u }

\* Units whose name connections share: accept_ready tracks the process of a
\* connection under the name of the paired service.
PairedUnits == { resolve_pair[s] : s \in Socket } \ {None}

\* Every pid stored in processes_, unit_to_pid_ or exit_callbacks_ belongs to
\* a child that has not been reaped, and unit_to_pid_ agrees with processes_.
\* So the kill calls of stop_unit and of the SIGKILL loop can never reach a
\* process that got a recycled pid.
KillTargetsAreChildren ==
  /\ \A p \in Tracked : child[p] # "free"
  /\ \A u \in Unit : unit_to_pid_[u] # None =>
       unit_to_pid_[u] \in Tracked /\ processes_[unit_to_pid_[u]].unit_name = u
  /\ \A p \in Pid : exit_callbacks_[p] # None => p \in Tracked

\* SIGCHLD coalesces: one read of the signalfd may stand for many dead
\* children.  Whenever a zombie exists, either a SIGCHLD is still pending or
\* reap_children is in its loop, so no child stays unreaped for want of a
\* wake-up, however exits interleave with reads and waitpid calls.
NoLostSigchld ==
  Zombies # {} => "CHLD" \in pending_sig \/ pc = "reap"

\* A unit has at most one main process, and while it has one (or its start is
\* under way, or a restart is due) no restart of it is queued: reap_children,
\* drain_pending_restarts and process_restarts never start a service twice.
SingleInstance ==
  \A u \in Unit :
    /\ \A p, q \in MainProcesses(u) : p = q
    /\ \A pr, qr \in PendingOf(u) : pr = qr
    /\ MainProcesses(u) # {} =>
         PendingOf(u) = {} /\ u \notin ready /\ job.unit # u
    /\ PendingOf(u) # {} => u \notin ready /\ job.unit # u
    /\ u \in ready => job.unit # u

\* The counters survive the way from a dead process through
\* pending_restarts_ and restart_counts_ to its successor: wherever they are,
\* restart_count is the number of restarts of the unit ever scheduled and
\* burst_count the number scheduled since the burst window began.
CountersMatch(u, c) ==
  /\ c.restart_count = Cardinality(scheduled[u])
  /\ c.burst_count =
       Cardinality({ t \in scheduled[u] : t >= c.burst_window_start })

RestartHistoryKept ==
  \A u \in Unit :
    /\ \A p \in MainProcesses(u) : CountersMatch(u, processes_[p])
    /\ \A pr \in PendingOf(u) : CountersMatch(u, pr)
    /\ u \in ready => CountersMatch(u, restart_counts_[u])

\* StartLimitBurst: reap_children counts in windows that start with the first
\* exit after the previous window, so any stretch of restart_limit_interval
\* meets at most two of them and holds at most twice the limit.
BurstBound ==
  \A u \in Unit : \A t \in scheduled[u] :
    Cardinality({ x \in scheduled[u] :
                    t <= x /\ x <= t + units_[u].restart_limit_interval })
      <= 2 * units_[u].restart_limit_burst

\* A restart is not attempted before the exponential delay that belongs to
\* the number of restarts so far has passed since the exit that caused it.
BackoffHonoured ==
  phase = "run" =>
    \A u \in ready \cup ({job.unit} \ {None}) : \A t \in scheduled[u] :
      now >= t + BackoffDelay(Cardinality(scheduled[u]) - 1)

\* active_connections counts exactly the connection processes not yet reaped,
\* over every fork failure and refusal, and never passes MaxConnections.
ConnectionsCounted ==
  \A s \in Socket :
    /\ active_connections[s] =
         Cardinality({ p \in Pid : exit_callbacks_[p] = s })
    /\ max_conn[s] > 0 => active_connections[s] <= max_conn[s]

\* From the grace period on, every process still tracked has been sent
\* SIGTERM, unless connections share its unit's name in unit_to_pid_.
GracefulStop ==
  phase \in {"grace", "final", "done"} =>
    \A p \in Tracked : processes_[p].unit_name \notin PairedUnits => p \in termed

\* Once the main loop has been left it is never entered again and no process
\* is started any more, so the services to wait for only grow fewer.
LeftMainLoop ==
  \/ phase \in {"grace", "final", "done"}
  \/ phase = "run" /\ pc = "stop"

ShutdownIsFinal ==
  [][LeftMainLoop => LeftMainLoop' /\ Tracked' \subseteq Tracked]_vars

\* The runtime directories are not chowned while systemd-sysusers is running:
\* maybe_fix_runtime_dirs takes its absence from unit_to_pid_, once boot has
\* had its turn, as the sign that it has come and gone.  A restart of it may
\* still be pending.
ChownNotWhileSysUsersRuns ==
  [][runtime_dirs_chowned_' # runtime_dirs_chowned_ =>
       /\ phase = "run"
       /\ \A p \in Tracked :
            processes_[p].unit_name = SysUsers => SysUsers \in PairedUnits]_vars

\* filesystem.hpp: fix_runtime_dir_ownership is "called after
\* systemd-sysusers exits successfully".
ChownAfterSysUsersSucceeded == runtime_dirs_chowned_ => sysusers_ok

\* A unit that is running, waiting for its restart or being started is never
\* forgotten on the way from reap_children over pending_restarts_ and the list
\* of drain_pending_restarts to start_service.  It is given up only when its
\* Restart= does not ask for a restart after that exit, the limit of restarts
\* is used up, PID 1 is stopping, or start_service fails: an ExecStartPre
\* command without '-' fails, or there is no process to spawn.
InHand(u) ==
  \/ MainProcesses(u) # {} \/ PendingOf(u) # {}
  \/ u \in ready \/ job.unit = u

LimitUsedUp(u) ==
  Cardinality({ t \in scheduled[u] : now - t <= units_[u].restart_limit_interval })
    >= units_[u].restart_limit_burst

ExitIsFinal(u) ==
  \E p \in MainProcesses(u) :
    /\ child[p] \in ExitStatus
    /\ \/ ~should_restart(parse_restart_policy(units_[u].restart_policy), child[p])
       \/ LimitUsedUp(u)
       \/ phase \in {"grace", "final"}

StartFails(u) ==
  /\ job.unit = u
  /\ \/ pc = "start" /\ job.pre = <<>>
     \/ pc = "waitpre" /\ child[job.pid] \notin {"alive", "success"} /\ ~Head(job.pre)

RestartNotLost ==
  [][\A u \in Unit : InHand(u) /\ ~InHand(u)' => ExitIsFinal(u) \/ StartFails(u)]_vars

\* PID 1 waits, in the waitpid of start_service, for an ExecStartPre command.
StartPreHangs == pc = "waitpre" /\ child[job.pid] = "alive"

\* Every zombie is reaped, unless PID 1 is through with run() first: the only
\* thing that can keep it from doing so is an ExecStartPre command that never
\* ends, for which start_service waits without a timeout.
ZombiesReaped ==
  \/ <>[]StartPreHangs
  \/ \A p \in AnyPid :
       child[p] \in ExitStatus ~> child[p] = "free" \/ phase = "done"

\* A restart that is due is attempted, unless the main loop is left first or
\* an ExecStartPre command never ends.
DueRestartAttempted ==
  \/ <>[]StartPreHangs
  \/ \A u \in Unit :
       (\E pr \in PendingOf(u) : pr.when <= now) ~>
         job.unit = u \/ phase # "run" \/ pc = "stop"

\* A shutdown request is carried through: no service, connection or signal
\* can keep PID 1 from leaving the main loop, the grace loop and run(), only
\* an ExecStartPre command that never ends.
ShutdownCompletes ==
  <>[]StartPreHangs \/ (shutdown_requested_ ~> phase = "done")
===============================================================================
