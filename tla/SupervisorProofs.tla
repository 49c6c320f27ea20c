--------------------------- MODULE SupervisorProofs ---------------------------
(***************************************************************************)
(* Proofs about Supervisor, for every set of units, pids and sockets.      *)
(***************************************************************************)
EXTENDS Supervisor, FiniteSetTheorems, TLAPS

USE DEF AnyPid

\* Facts about the call of start_service under way: inside it the unit is
\* known, while it waits the awaited child is no service of the tables, and
\* outside of it there is no job.
JobInv ==
  /\ pc \in {"start", "waitpre"} => job.unit \in Unit
  /\ pc = "waitpre" =>
       job.pre # <<>> /\ job.pid \in Pid \ Tracked /\ child[job.pid] # "free"
  /\ pc \notin {"start", "waitpre"} => job = NoJob
  /\ phase = "boot" => idx >= 1

\* The inductive invariant behind the first group of theorems.
TablesInv ==
  TypeOK /\ KillTargetsAreChildren /\ ConnectionsCounted /\ JobInv

-------------------------------------------------------------------------------
(* The values the model is built from                                      *)

\* The back-off delay is a natural number of seconds.
LEMMA BackoffNat ==
  ASSUME NEW n \in Nat
  PROVE  BackoffDelay(n) \in Nat
<1>1. Least(n, kMaxExponent) + 1 \in 1..14
  BY DEF Least, kMaxExponent
<1>2. \A k \in 1..14 : PowerOfTwo[k] \in Nat
  BY DEF PowerOfTwo
<1>3. PowerOfTwo[Least(n, kMaxExponent) + 1] \in Nat
  BY <1>1, <1>2
<1> DEFINE w == PowerOfTwo[Least(n, kMaxExponent) + 1]
<1>4. kBaseDelay * w \in Nat
  BY <1>3, DelayAssumption
<1> QED
  BY <1>4, DelayAssumption DEF BackoffDelay, Least

\* The entry that spawn makes is a TrackedProcess.
LEMMA NewProcessType ==
  ASSUME NEW u \in Unit \cup {None}, NEW policy \in RestartPolicy
  PROVE  NewProcess(u, policy) \in TrackedProcess
BY DEF NewProcess, TrackedProcess

\* parse_restart_policy maps every spelling to a policy.
LEMMA PolicyType ==
  ASSUME NEW directive
  PROVE  parse_restart_policy(directive) \in RestartPolicy
BY DEF parse_restart_policy, RestartPolicy

\* pop_front leaves a list of the same elements.
LEMMA TailType ==
  ASSUME NEW s \in Seq(BOOLEAN), s # <<>>
  PROVE  Tail(s) \in Seq(BOOLEAN)
OBVIOUS

\* The idle start job is a start job.
LEMMA NoJobType == NoJob \in StartJob
BY DEF NoJob, StartJob

\* The job that start_service begins with is a start job.
LEMMA NewJobType ==
  ASSUME NEW u \in Unit
  PROVE  [unit |-> u, pre |-> units_[u].exec_start_pre, pid |-> None]
           \in StartJob
BY SupervisorAssumption DEF StartJob, UnitFile

\* The counters apply_restart_count copies are of the right type.
LEMMA WithRestartCountType ==
  ASSUME NEW u \in Unit, restart_counts_ \in [Unit -> RestartMeta],
         NEW tp \in TrackedProcess
  PROVE  WithRestartCount(tp, u) \in TrackedProcess
<1>1. restart_counts_[u] \in RestartMeta
  OBVIOUS
<1> QED
  BY <1>1 DEF WithRestartCount, TrackedProcess, RestartMeta

\* What reap_children appends to pending_restarts_ has the type of an entry.
LEMMA RestartsOfType ==
  ASSUME NEW tp \in TrackedProcess, tp.unit_name \in Unit, now \in Nat,
         NEW status
  PROVE  RestartsOf(tp, status) \subseteq PendingRestart
<1>1. /\ tp.restart_count \in Nat /\ tp.burst_count \in Int
      /\ tp.burst_window_start \in Nat
  BY DEF TrackedProcess
<1>2. BackoffDelay(tp.restart_count) \in Nat
  BY <1>1, BackoffNat
<1>3. units_[tp.unit_name].restart_limit_interval \in Int
  BY SupervisorAssumption DEF UnitFile
<1>4. BurstAfterExit(tp).start \in Nat /\ BurstAfterExit(tp).count \in Int
  BY <1>1, <1>3 DEF BurstAfterExit
<1> QED
  BY <1>1, <1>2, <1>4 DEF RestartsOf, PendingRestart

\* A connection that ends is one of those counted.
LEMMA ConnectionsAfterExitType ==
  ASSUME TypeOK, ConnectionsCounted, NEW p \in Pid
  PROVE  ConnectionsAfterExit(p) \in [Socket -> Nat]
<1> SUFFICES ASSUME NEW s \in Socket, exit_callbacks_[p] = s
             PROVE  active_connections[s] - 1 \in Nat
  BY DEF TypeOK, ConnectionsAfterExit
<1> DEFINE Conns == { q \in Pid : exit_callbacks_[q] = s }
<1>1. IsFiniteSet(Conns)
  BY SupervisorAssumption, FS_Subset
<1>2. Cardinality(Conns) # 0
  BY <1>1, FS_EmptySet
<1> QED
  BY <1>1, <1>2, FS_CardinalityType DEF ConnectionsCounted

-------------------------------------------------------------------------------
(* Types                                                                   *)

\* What RefuseConnection does.
LEMMA RefuseStep ==
  ASSUME NEW fd, RefuseConnection(fd)
  PROVE  /\ Accepts /\ fd \in events \cap ListenFd /\ events' = events \ {fd}
         /\ \/ backlog' = backlog
            \/ backlog[fd] > 0 /\ backlog' = [backlog EXCEPT ![fd] = @ - 1]
         /\ UNCHANGED <<phase, pc, idx, ready, job, child, pending_sig, termed,
                        killed, now, processes_, unit_to_pid_, exit_callbacks_,
                        pending_restarts_, restart_counts_, flags, history>>
BY DEF RefuseConnection, AcceptFails, CloseOverLimit, CloseUnserved,
       ConnectionForkFails, TakeConnection

\* A connection that comes to nothing is not counted.
LEMMA RefusedUncounted ==
  ASSUME active_connections \in [Socket -> Nat], NEW fd, RefuseConnection(fd)
  PROVE  active_connections' = active_connections
<1> DEFINE s == fd_to_socket_[fd]
<1>1. s \in Socket
  BY RefuseStep, SupervisorAssumption
<1> HIDE DEF s
<1>2. Uncounted(Counted(s), s) = active_connections
  <2> DEFINE f == [active_connections EXCEPT ![s] = active_connections[s] + 1]
             g == [f EXCEPT ![s] = f[s] - 1]
  <2>1. f \in [Socket -> Nat] /\ f[s] = active_connections[s] + 1
        /\ \A r \in Socket : r # s => f[r] = active_connections[r]
    BY <1>1
  <2>2. g[s] = active_connections[s] /\ DOMAIN g = Socket
        /\ \A r \in Socket : r # s => g[r] = active_connections[r]
    BY <1>1, <2>1
  <2>3. g = active_connections
    BY <2>2
  <2> QED
    BY <2>3 DEF Uncounted, Counted
<1> QED
  BY <1>2 DEF RefuseConnection, AcceptFails, CloseOverLimit, CloseUnserved,
              ConnectionForkFails, s

\* Every step keeps the types.
LEMMA TypeStep ==
  ASSUME TablesInv, [Next]_vars
  PROVE  TypeOK'
<1> DEFINE ChildType == [AnyPid -> {"free", "alive"} \cup ExitStatus]
<1> USE DEF vars, kernel, tables, flags, control, history
<1>a. TypeOK /\ JobInv
  BY DEF TablesInv
<1>b. child \in ChildType /\ job \in StartJob
  BY <1>a DEF TypeOK
<1>c. /\ processes_ \in [Pid -> TrackedProcess]
      /\ restart_counts_ \in [Unit -> RestartMeta]
      /\ unit_to_pid_ \in [Unit -> Pid \cup {None}]
      /\ pending_restarts_ \subseteq PendingRestart
  BY <1>a DEF TypeOK
<1>d. now \in Nat /\ backlog \in [ListenFd -> 0..MaxBacklog]
  BY <1>a, SupervisorAssumption DEF TypeOK
<1>e. exit_callbacks_ \in [Pid -> Socket \cup {None}]
  BY <1>a DEF TypeOK
<1>1. ASSUME NEW p \in AnyPid, NEW status \in ExitStatus, Exit(p, status)
      PROVE  TypeOK'
  BY <1>1, <1>a DEF TypeOK, Exit
<1>2. ASSUME NEW p \in OrphanPid, Reparent(p)
      PROVE  TypeOK'
  BY <1>2, <1>a DEF TypeOK, Reparent
<1>3. ASSUME NEW fd \in ListenFd, Connect(fd)
      PROVE  TypeOK'
  BY <1>3, <1>a, SupervisorAssumption DEF TypeOK, Connect
<1>4. CASE Tick
  BY <1>4, <1>a, SupervisorAssumption DEF TypeOK, Tick
<1>5. ASSUME NEW g \in Signals, SendSignal(g)
      PROVE  TypeOK'
  BY <1>5, <1>a, SupervisorAssumption DEF TypeOK, SendSignal
<1>6. CASE UnitExecute
  <2>1. idx \in 1..Len(exec_order_) /\ exec_order_[idx] \in Unit
    BY <1>6, <1>a, SupervisorAssumption DEF TypeOK, UnitExecute, JobInv
  <2>2. job' \in StartJob
    BY <1>6, <1>b, <2>1, NewJobType DEF UnitExecute, BeginStart
  <2> QED
    BY <1>6, <1>a, <2>2 DEF TypeOK, UnitExecute, BeginStart
<1>7. CASE EnterMainLoop
  BY <1>7, <1>a DEF TypeOK, EnterMainLoop
<1>8. CASE RunStartPre
  <2>1. CASE pc' = pc
    <3>1. job' \in StartJob
      BY <1>8, <1>b, <2>1, TailType DEF RunStartPre, StartJob
    <3>2. child' = child
      BY <1>8, <2>1 DEF RunStartPre
    <3> QED
      BY <1>8, <1>a, <2>1, <3>1, <3>2 DEF TypeOK, RunStartPre
  <2>2. CASE pc' # pc
    <3>1. PICK p \in Pid : /\ child' = [child EXCEPT ![p] = "alive"]
                           /\ job' = [job EXCEPT !.pid = p]
                           /\ pc' = "waitpre"
      BY <1>8, <2>2 DEF RunStartPre, FreePids
    <3>2. job' \in StartJob
      BY <1>b, <3>1 DEF StartJob
    <3>3. child' \in ChildType
      BY <1>b, <3>1
    <3> QED
      BY <1>8, <1>a, <3>1, <3>2, <3>3 DEF TypeOK, RunStartPre
  <2> QED
    BY <2>1, <2>2
<1>9. CASE WaitStartPre
  <2>1. job.pre \in Seq(BOOLEAN) /\ job.pre # <<>>
    BY <1>9, <1>a, <1>b DEF WaitStartPre, JobInv, StartJob
  <2>2. [job EXCEPT !.pre = Tail(job.pre), !.pid = None] \in StartJob
    BY <1>b, <2>1, TailType DEF StartJob
  <2>3. job' \in StartJob /\ pc' \in {"next", "start"}
    BY <1>9, <2>2, NoJobType DEF WaitStartPre, ReturnFromStart
  <2>4. child' \in ChildType
    BY <1>9, <1>b DEF WaitStartPre
  <2> QED
    BY <1>9, <1>a, <2>3, <2>4 DEF TypeOK, WaitStartPre
<1>10. CASE Spawn
  <2> DEFINE tp == NewProcess(job.unit,
                     parse_restart_policy(units_[job.unit].restart_policy))
  <2>1. job.unit \in Unit
    BY <1>10, <1>a DEF Spawn, JobInv
  <2>2. tp \in TrackedProcess
    BY <2>1, NewProcessType, PolicyType
  <2>3. job' = NoJob /\ pc' = "next"
    BY <1>10 DEF Spawn, ReturnFromStart
  <2>4. CASE UNCHANGED <<child, processes_, unit_to_pid_, restart_counts_>>
    BY <1>10, <1>a, <2>3, <2>4, NoJobType DEF TypeOK, Spawn
  <2>5. ASSUME NEW p \in Pid,
               child' = [child EXCEPT ![p] = "alive"],
               processes_' = [processes_ EXCEPT
                                ![p] = WithRestartCount(tp, job.unit)],
               unit_to_pid_' = [unit_to_pid_ EXCEPT ![job.unit] = p],
               restart_counts_' = [restart_counts_ EXCEPT ![job.unit] = NoMeta]
        PROVE  TypeOK'
    <3>1. child' \in ChildType
      BY <1>b, <2>5
    <3>2. unit_to_pid_' \in [Unit -> Pid \cup {None}]
      BY <1>c, <2>5
    <3>3. processes_' \in [Pid -> TrackedProcess]
      BY <1>c, <2>1, <2>2, <2>5, WithRestartCountType
    <3>4. restart_counts_' \in [Unit -> RestartMeta]
      <4>1. NoMeta \in RestartMeta
        BY DEF NoMeta, RestartMeta
      <4> QED
        BY <1>c, <2>5, <4>1
    <3> QED
      BY <1>10, <1>a, <2>3, <3>1, <3>2, <3>3, <3>4, NoJobType
      DEF TypeOK, Spawn
  <2> QED
    BY <1>10, <2>4, <2>5 DEF Spawn, FreePids
<1>11. CASE Poll
  BY <1>11, <1>a DEF TypeOK, Poll, PollCounted, ReadyFds
<1>12. CASE DispatchSignals
  BY <1>12, <1>a DEF TypeOK, DispatchSignals
<1>13. CASE SignalsDrained
  BY <1>13, <1>a DEF TypeOK, SignalsDrained
<1>14. ASSUME NEW g \in {"CHLD", "TERM", "USR1"}, drain_signals(g)
       PROVE  TypeOK'
  <2>1. pc' \in {"reap", "drain"} /\ shutdown_requested_' \in BOOLEAN
    BY <1>14 DEF drain_signals
  <2> QED
    BY <1>14, <1>a, <2>1 DEF TypeOK, drain_signals
<1>15. ASSUME NEW p \in Pid, ReapTracked(p)
       PROVE  TypeOK'
  <2> DEFINE tp == processes_[p]
  <2>1. tp \in TrackedProcess /\ tp.unit_name \in Unit
    BY <1>15, <1>c DEF ReapTracked, Tracked, TrackedProcess
  <2>2. pending_restarts_' \subseteq PendingRestart
    <3>1. RestartsOf(tp, child[p]) \subseteq PendingRestart
      BY <1>d, <2>1, RestartsOfType
    <3> QED
      BY <1>15, <1>c, <3>1 DEF ReapTracked
  <2>3. active_connections' \in [Socket -> Nat]
    BY <1>15, ConnectionsAfterExitType DEF ReapTracked, TablesInv
  <2>4. scheduled' \in [Unit -> SUBSET Nat]
    BY <1>15, <1>a, <1>d, <2>1 DEF TypeOK, ReapTracked
  <2>5. sysusers_ok' \in BOOLEAN
    BY <1>15 DEF ReapTracked
  <2>6. unit_to_pid_' \in [Unit -> Pid \cup {None}]
    BY <1>15, <1>c, <2>1 DEF ReapTracked, EraseUnit
  <2>7. exit_callbacks_' \in [Pid -> Socket \cup {None}]
    BY <1>15, <1>e DEF ReapTracked
  <2>8. processes_' \in [Pid -> TrackedProcess]
    <3>1. NoProcess \in TrackedProcess
      BY NewProcessType DEF NoProcess, RestartPolicy
    <3> QED
      BY <1>15, <1>c, <3>1 DEF ReapTracked
  <2>9. child' \in ChildType
    BY <1>15, <1>b DEF ReapTracked
  <2> QED
    BY <1>15, <1>a, <2>2, <2>3, <2>4, <2>5, <2>6, <2>7, <2>8, <2>9
    DEF TypeOK, ReapTracked
<1>16. ASSUME NEW p \in AnyPid, ReapUntracked(p)
       PROVE  TypeOK'
  BY <1>16, <1>a DEF TypeOK, ReapUntracked
<1>17. CASE ChildrenReaped
  BY <1>17, <1>a DEF TypeOK, ChildrenReaped
<1>18. ASSUME NEW fd \in ListenFd, IgnoreSocketEvent(fd)
       PROVE  TypeOK'
  BY <1>18, <1>a DEF TypeOK, IgnoreSocketEvent
<1>19. ASSUME NEW fd \in ListenFd, RefuseConnection(fd)
       PROVE  TypeOK'
  <2>1. backlog' \in [ListenFd -> 0..MaxBacklog]
    <3>1. backlog[fd] > 0 => backlog[fd] - 1 \in 0..MaxBacklog
      BY <1>d, SupervisorAssumption
    <3>2. \/ backlog' = backlog
          \/ backlog[fd] > 0 /\ backlog' = [backlog EXCEPT ![fd] = @ - 1]
      BY <1>19, RefuseStep
    <3> QED
      BY <1>d, <3>1, <3>2
  <2>2. active_connections' = active_connections
    BY <1>19, <1>a, RefusedUncounted DEF TypeOK
  <2>3. /\ events' = events \ {fd}
        /\ UNCHANGED <<phase, pc, idx, ready, job, child, pending_sig, termed,
                       killed, now, processes_, unit_to_pid_, exit_callbacks_,
                       pending_restarts_, restart_counts_, flags, history>>
    BY <1>19, RefuseStep
  <2> QED
    BY <2>1, <2>2, <2>3, <1>a DEF TypeOK
<1>20. ASSUME NEW fd \in ListenFd, AcceptConnection(fd)
       PROVE  TypeOK'
  <2> DEFINE s == fd_to_socket_[fd]
             u == resolve_pair[s]
  <2>1. s \in Socket /\ u \in Unit
    BY <1>20, SupervisorAssumption DEF AcceptConnection, TakeConnection, Served
  <2>2. PICK p \in Pid :
          /\ child' = [child EXCEPT ![p] = "alive"]
          /\ processes_' = [processes_ EXCEPT ![p] = NewProcess(u, "no")]
          /\ unit_to_pid_' = [unit_to_pid_ EXCEPT ![u] = p]
          /\ exit_callbacks_' = [exit_callbacks_ EXCEPT ![p] = s]
    BY <1>20 DEF AcceptConnection, TakeConnection, FreePids
  <2>3. child' \in ChildType
    BY <1>b, <2>2
  <2>4. processes_' \in [Pid -> TrackedProcess]
    <3>1. NewProcess(u, "no") \in TrackedProcess
      BY <2>1, NewProcessType DEF RestartPolicy
    <3> QED
      BY <1>c, <2>2, <3>1
  <2>5. unit_to_pid_' \in [Unit -> Pid \cup {None}]
    BY <1>c, <2>1, <2>2
  <2>6. exit_callbacks_' \in [Pid -> Socket \cup {None}]
    BY <1>e, <2>1, <2>2
  <2>7. backlog' \in [ListenFd -> 0..MaxBacklog]
    BY <1>20, <1>d, SupervisorAssumption DEF AcceptConnection, TakeConnection
  <2>8. active_connections' \in [Socket -> Nat]
    BY <1>20, <1>a, <2>1 DEF TypeOK, AcceptConnection, Counted
  <2> QED
    BY <1>20, <1>a, <2>3, <2>4, <2>5, <2>6, <2>7, <2>8
    DEF TypeOK, AcceptConnection, TakeConnection
<1>21. CASE EventsHandled
  BY <1>21, <1>a DEF TypeOK, EventsHandled
<1>22. CASE drain_pending_restarts
  <2>1. ready' \subseteq Unit
    BY <1>22, <1>c DEF drain_pending_restarts, PendingRestart
  <2>2. pending_restarts_' \subseteq PendingRestart
    BY <1>22, <1>c DEF drain_pending_restarts, Remaining
  <2>3. restart_counts_' \in [Unit -> RestartMeta]
    <3> DEFINE dueOf(u) ==
          { pr \in { pr \in pending_restarts_ : IsDue(pr) } : pr.unit_name = u }
    <3> DEFINE metaOf(pr) == [ restart_count      |-> pr.restart_count,
                               burst_count        |-> pr.burst_count,
                               burst_window_start |-> pr.burst_window_start ]
    <3>1. ASSUME NEW u \in Unit, dueOf(u) # {}
          PROVE  metaOf(CHOOSE pr \in dueOf(u) : TRUE) \in RestartMeta
      <4>1. (CHOOSE pr \in dueOf(u) : TRUE) \in PendingRestart
        BY <1>c, <3>1
      <4> QED
        BY <4>1 DEF PendingRestart, RestartMeta
    <3>2. restart_counts_' =
            [u \in Unit |-> IF dueOf(u) = {} THEN restart_counts_[u]
                            ELSE metaOf(CHOOSE pr \in dueOf(u) : TRUE)]
      BY <1>22 DEF drain_pending_restarts
    <3> QED
      BY <1>c, <3>1, <3>2
  <2> QED
    BY <1>22, <1>a, <2>1, <2>2, <2>3 DEF TypeOK, drain_pending_restarts
<1>23. ASSUME NEW u \in Unit, process_restarts(u)
       PROVE  TypeOK'
  <2>1. job' \in StartJob
    BY <1>23, NewJobType DEF process_restarts, BeginStart
  <2> QED
    BY <1>23, <1>a, <2>1 DEF TypeOK, process_restarts, BeginStart
<1>24. CASE EndOfIteration
  <2>1. runtime_dirs_chowned_' \in BOOLEAN /\ pc' \in {"stop", "poll"}
    BY <1>24 DEF EndOfIteration
  <2> QED
    BY <1>24, <1>a, <2>1 DEF TypeOK, EndOfIteration
<1>25. CASE StopUnits
  <2>1. StopTargets \subseteq Pid
    BY <1>c, SupervisorAssumption DEF StopTargets
  <2>2. ASSUME NEW p \in Pid
        PROVE  [processes_[p] EXCEPT !.restart_policy = "no"]
                 \in TrackedProcess
    BY <1>c DEF TrackedProcess, RestartPolicy
  <2>3. processes_' \in [Pid -> TrackedProcess]
    BY <1>25, <1>c, <2>2 DEF StopUnits
  <2> QED
    BY <1>25, <1>a, <2>1, <2>3 DEF TypeOK, StopUnits
<1>26. CASE KillAll
  BY <1>26, <1>a DEF TypeOK, KillAll, Tracked
<1>27. CASE UNCHANGED vars
  BY <1>27, <1>a DEF TypeOK
<1> QED
  BY <1>1, <1>2, <1>3, <1>4, <1>5, <1>6, <1>7, <1>8, <1>9, <1>10, <1>11,
     <1>12, <1>13, <1>14, <1>15, <1>16, <1>17, <1>18, <1>19, <1>20, <1>21,
     <1>22, <1>23, <1>24, <1>25, <1>26, <1>27
  DEF Next, Environment, InitThread, Terminated

-------------------------------------------------------------------------------
(* The tables and the kernel's children                                    *)

\* Which steps touch the children or the tables that refer to them.
LEMMA TableSteps ==
  ASSUME TypeOK, [Next]_vars
  PROVE  \/ UNCHANGED <<child, processes_, unit_to_pid_, exit_callbacks_,
                        active_connections>>
         \/ \E p \in AnyPid, status \in ExitStatus : Exit(p, status)
         \/ \E p \in OrphanPid : Reparent(p)
         \/ RunStartPre \/ WaitStartPre \/ Spawn \/ StopUnits
         \/ \E p \in Pid : ReapTracked(p)
         \/ \E p \in AnyPid : ReapUntracked(p)
         \/ \E fd \in ListenFd : AcceptConnection(fd)
<1> USE DEF vars, kernel, tables, flags, control
<1> DEFINE Same == UNCHANGED <<child, processes_, unit_to_pid_,
                               exit_callbacks_, active_connections>>
<1>1. ASSUME NEW fd \in ListenFd,
             Connect(fd) \/ IgnoreSocketEvent(fd) \/ RefuseConnection(fd)
      PROVE  Same
  <2>1. CASE RefuseConnection(fd)
    BY <2>1, RefuseStep, RefusedUncounted DEF TypeOK
  <2>2. CASE Connect(fd) \/ IgnoreSocketEvent(fd)
    BY <2>2 DEF Connect, IgnoreSocketEvent
  <2> QED
    BY <1>1, <2>1, <2>2
<1>2. Tick \/ UnitExecute \/ EnterMainLoop \/ Poll => Same
  BY DEF Tick, UnitExecute, EnterMainLoop, Poll
<1>3. ASSUME NEW g, SendSignal(g) \/ drain_signals(g)
      PROVE  Same
  BY <1>3 DEF SendSignal, drain_signals
<1>4. DispatchSignals \/ SignalsDrained \/ ChildrenReaped => Same
  BY DEF DispatchSignals, SignalsDrained, ChildrenReaped
<1>5. ASSUME NEW u \in Unit, process_restarts(u)
      PROVE  Same
  BY <1>5 DEF process_restarts
<1>6. EventsHandled \/ drain_pending_restarts \/ EndOfIteration \/ KillAll
        => Same
  BY DEF EventsHandled, drain_pending_restarts, EndOfIteration, KillAll
<1>7. UNCHANGED vars => Same
  OBVIOUS
<1> QED
  BY <1>1, <1>2, <1>3, <1>4, <1>5, <1>6, <1>7
  DEF Next, Environment, InitThread, Terminated

\* A process that WithRestartCount returns is one of the same unit.
LEMMA WithRestartCountUnit ==
  ASSUME NEW u \in Unit, restart_counts_ \in [Unit -> RestartMeta],
         NEW tp \in TrackedProcess
  PROVE  /\ WithRestartCount(tp, u).unit_name = tp.unit_name
         /\ WithRestartCount(tp, u).restart_policy = tp.restart_policy
BY DEF WithRestartCount, TrackedProcess

\* What Spawn does when fork succeeds.
LEMMA SpawnStep ==
  ASSUME TablesInv, Spawn,
         ~UNCHANGED <<child, processes_, unit_to_pid_, restart_counts_>>
  PROVE  /\ job.unit \in Unit
         /\ \E p \in Pid, tp \in TrackedProcess :
              /\ child[p] = "free"
              /\ tp.unit_name = job.unit
              /\ child' = [child EXCEPT ![p] = "alive"]
              /\ processes_' = [processes_ EXCEPT ![p] = tp]
              /\ unit_to_pid_' = [unit_to_pid_ EXCEPT ![job.unit] = p]
<1> DEFINE new == NewProcess(job.unit,
                    parse_restart_policy(units_[job.unit].restart_policy))
           tp == WithRestartCount(new, job.unit)
<1>1. job.unit \in Unit
  BY DEF Spawn, TablesInv, JobInv
<1>2. new \in TrackedProcess /\ new.unit_name = job.unit
  BY <1>1, NewProcessType, PolicyType DEF NewProcess
<1>3. restart_counts_ \in [Unit -> RestartMeta]
  BY DEF TablesInv, TypeOK
<1>4. tp \in TrackedProcess /\ tp.unit_name = job.unit
  BY <1>1, <1>2, <1>3, WithRestartCountType, WithRestartCountUnit
<1>5. PICK p \in Pid :
        /\ child[p] = "free"
        /\ child' = [child EXCEPT ![p] = "alive"]
        /\ processes_' = [processes_ EXCEPT ![p] = tp]
        /\ unit_to_pid_' = [unit_to_pid_ EXCEPT ![job.unit] = p]
  BY DEF Spawn, FreePids
<1> QED
  BY <1>1, <1>4, <1>5

\* What AcceptConnection does.
LEMMA AcceptStep ==
  ASSUME NEW fd \in ListenFd, AcceptConnection(fd)
  PROVE  \E s \in Socket, u \in Unit, p \in Pid :
           /\ s = fd_to_socket_[fd] /\ u = resolve_pair[s]
           /\ ~AtConnectionLimit(s)
           /\ child[p] = "free"
           /\ child' = [child EXCEPT ![p] = "alive"]
           /\ processes_' = [processes_ EXCEPT ![p] = NewProcess(u, "no")]
           /\ unit_to_pid_' = [unit_to_pid_ EXCEPT ![u] = p]
           /\ exit_callbacks_' = [exit_callbacks_ EXCEPT ![p] = s]
           /\ active_connections' = [active_connections EXCEPT ![s] = @ + 1]
<1> DEFINE s == fd_to_socket_[fd]
           u == resolve_pair[s]
<1>1. s \in Socket /\ u \in Unit
  BY SupervisorAssumption DEF AcceptConnection, TakeConnection, Served
<1>2. PICK p \in Pid :
        /\ child[p] = "free"
        /\ child' = [child EXCEPT ![p] = "alive"]
        /\ processes_' = [processes_ EXCEPT ![p] = NewProcess(u, "no")]
        /\ unit_to_pid_' = [unit_to_pid_ EXCEPT ![u] = p]
        /\ exit_callbacks_' = [exit_callbacks_ EXCEPT ![p] = s]
  BY DEF AcceptConnection, TakeConnection, FreePids
<1> QED
  BY <1>1, <1>2 DEF AcceptConnection, Counted

\* No step leaves a table pointing at a pid whose child is gone.
LEMMA KillStep ==
  ASSUME TablesInv, [Next]_vars
  PROVE  KillTargetsAreChildren'
<1> USE DEF vars, kernel, tables, flags, control, history
<1>a. KillTargetsAreChildren /\ JobInv
  BY DEF TablesInv
<1>b. child \in [AnyPid -> {"free", "alive"} \cup ExitStatus]
  BY DEF TablesInv, TypeOK
<1>c. processes_ \in [Pid -> TrackedProcess]
  BY DEF TablesInv, TypeOK
<1>d. unit_to_pid_ \in [Unit -> Pid \cup {None}]
  BY DEF TablesInv, TypeOK
<1>e. exit_callbacks_ \in [Pid -> Socket \cup {None}]
  BY DEF TablesInv, TypeOK
<1>f. None \notin Unit /\ None \notin Pid /\ None \notin Socket
  BY SupervisorAssumption
<1>g. Pid \cap OrphanPid = {}
  BY SupervisorAssumption
<1>1. CASE UNCHANGED <<child, processes_, unit_to_pid_, exit_callbacks_,
                       active_connections>>
  BY <1>1, <1>a DEF KillTargetsAreChildren, Tracked
<1>2. ASSUME NEW p \in AnyPid, NEW status \in ExitStatus, Exit(p, status)
      PROVE  KillTargetsAreChildren'
  BY <1>2, <1>a, <1>b DEF KillTargetsAreChildren, Tracked, Exit, ExitStatus
<1>3. ASSUME NEW p \in OrphanPid, Reparent(p)
      PROVE  KillTargetsAreChildren'
  BY <1>3, <1>a, <1>b DEF KillTargetsAreChildren, Tracked, Reparent
<1>4. CASE RunStartPre
  <2>1. /\ UNCHANGED <<processes_, unit_to_pid_, exit_callbacks_>>
        /\ \/ child' = child
           \/ \E p \in Pid : child' = [child EXCEPT ![p] = "alive"]
    BY <1>4 DEF RunStartPre, FreePids
  <2> QED
    BY <2>1, <1>a, <1>b DEF KillTargetsAreChildren, Tracked
<1>5. CASE WaitStartPre
  <2>1. job.pid \in Pid \ Tracked
    BY <1>5, <1>a DEF WaitStartPre, JobInv
  <2>2. /\ UNCHANGED <<processes_, unit_to_pid_, exit_callbacks_>>
        /\ child' = [child EXCEPT ![job.pid] = "free"]
    BY <1>5 DEF WaitStartPre
  <2> QED
    BY <2>1, <2>2, <1>a, <1>b DEF KillTargetsAreChildren, Tracked
<1>6. CASE Spawn
  <2>1. CASE UNCHANGED <<child, processes_, unit_to_pid_, restart_counts_>>
    BY <1>6, <2>1, <1>a DEF KillTargetsAreChildren, Tracked, Spawn
  <2>2. CASE ~UNCHANGED <<child, processes_, unit_to_pid_, restart_counts_>>
    <3>1. PICK p \in Pid, tp \in TrackedProcess :
              /\ child[p] = "free"
              /\ tp.unit_name = job.unit
              /\ child' = [child EXCEPT ![p] = "alive"]
              /\ processes_' = [processes_ EXCEPT ![p] = tp]
              /\ unit_to_pid_' = [unit_to_pid_ EXCEPT ![job.unit] = p]
      BY <1>6, <2>2, SpawnStep
    <3>2. job.unit \in Unit
      BY <1>6, <2>2, SpawnStep
    <3>3. exit_callbacks_' = exit_callbacks_
      BY <1>6 DEF Spawn
    <3> QED
      BY <3>1, <3>2, <3>3, <1>a, <1>b, <1>c, <1>d, <1>f
      DEF KillTargetsAreChildren, Tracked
  <2> QED
    BY <2>1, <2>2
<1>7. CASE StopUnits
  <2>1. ASSUME NEW p \in Pid
        PROVE  processes_'[p].unit_name = processes_[p].unit_name
    BY <1>7, <1>c DEF StopUnits, TrackedProcess
  <2>2. UNCHANGED <<child, unit_to_pid_, exit_callbacks_>>
    BY <1>7 DEF StopUnits
  <2> QED
    BY <2>1, <2>2, <1>a, <1>d DEF KillTargetsAreChildren, Tracked
<1>8. ASSUME NEW p \in Pid, ReapTracked(p)
      PROVE  KillTargetsAreChildren'
  <2> DEFINE u == processes_[p].unit_name
  <2>1. u \in Unit
    BY <1>8, <1>c DEF ReapTracked, Tracked, TrackedProcess
  <2>2. /\ child' = [child EXCEPT ![p] = "free"]
        /\ processes_' = [processes_ EXCEPT ![p] = NoProcess]
        /\ unit_to_pid_' = [unit_to_pid_ EXCEPT ![u] = None]
        /\ exit_callbacks_' = [exit_callbacks_ EXCEPT ![p] = None]
    BY <1>8 DEF ReapTracked, EraseUnit
  <2>3. NoProcess.unit_name = None
    BY DEF NoProcess, NewProcess
  <2> HIDE DEF u
  <2>4. \A v \in Unit : unit_to_pid_[v] = p => v = u
    BY <1>a, <1>f DEF KillTargetsAreChildren, u
  <2> QED
    BY <2>1, <2>2, <2>3, <2>4, <1>a, <1>b, <1>c, <1>d, <1>e, <1>f
    DEF KillTargetsAreChildren, Tracked
<1>9. ASSUME NEW p \in AnyPid, ReapUntracked(p)
      PROVE  KillTargetsAreChildren'
  <2>1. p \notin Tracked /\ child' = [child EXCEPT ![p] = "free"]
    BY <1>9 DEF ReapUntracked
  <2>2. UNCHANGED <<processes_, unit_to_pid_, exit_callbacks_>>
    BY <1>9 DEF ReapUntracked
  <2> QED
    BY <2>1, <2>2, <1>a, <1>b DEF KillTargetsAreChildren, Tracked
<1>10. ASSUME NEW fd \in ListenFd, AcceptConnection(fd)
       PROVE  KillTargetsAreChildren'
  <2>1. PICK s \in Socket, u \in Unit, p \in Pid :
           /\ child[p] = "free"
           /\ child' = [child EXCEPT ![p] = "alive"]
           /\ processes_' = [processes_ EXCEPT ![p] = NewProcess(u, "no")]
           /\ unit_to_pid_' = [unit_to_pid_ EXCEPT ![u] = p]
           /\ exit_callbacks_' = [exit_callbacks_ EXCEPT ![p] = s]
    BY <1>10, AcceptStep
  <2>2. NewProcess(u, "no").unit_name = u
    BY DEF NewProcess
  <2> QED
    BY <2>1, <2>2, <1>a, <1>b, <1>c, <1>d, <1>e, <1>f
    DEF KillTargetsAreChildren, Tracked
<1> QED
  BY TableSteps, <1>1, <1>2, <1>3, <1>4, <1>5, <1>6, <1>7, <1>8, <1>9, <1>10
  DEF TablesInv

\* No step lets active_connections and the connection processes disagree.
LEMMA CountStep ==
  ASSUME TablesInv, [Next]_vars
  PROVE  ConnectionsCounted'
<1> USE DEF vars, kernel, tables, flags, control, history
<1> DEFINE Conns(s) == { q \in Pid : exit_callbacks_[q] = s }
<1>a. KillTargetsAreChildren /\ ConnectionsCounted
  BY DEF TablesInv
<1>b. active_connections \in [Socket -> Nat]
  BY DEF TablesInv, TypeOK
<1>c. exit_callbacks_ \in [Pid -> Socket \cup {None}]
  BY DEF TablesInv, TypeOK
<1>d. None \notin Socket /\ max_conn \in [Socket -> Nat]
  BY SupervisorAssumption
<1>e. ASSUME NEW s \in Socket
      PROVE  IsFiniteSet(Conns(s))
  BY SupervisorAssumption, FS_Subset
<1>1. CASE UNCHANGED <<exit_callbacks_, active_connections>>
  BY <1>1, <1>a DEF ConnectionsCounted
<1>2. ASSUME NEW p \in Pid, ReapTracked(p)
      PROVE  ConnectionsCounted'
  <2>1. exit_callbacks_' = [exit_callbacks_ EXCEPT ![p] = None]
    BY <1>2 DEF ReapTracked
  <2>2. ASSUME NEW s \in Socket
        PROVE  active_connections'[s] = IF exit_callbacks_[p] = s
                                        THEN active_connections[s] - 1
                                        ELSE active_connections[s]
    BY <1>2 DEF ReapTracked, ConnectionsAfterExit
  <2> SUFFICES ASSUME NEW s \in Socket
               PROVE  /\ active_connections'[s] = Cardinality(Conns(s)')
                      /\ max_conn[s] > 0 =>
                           active_connections'[s] <= max_conn[s]
    BY DEF ConnectionsCounted
  <2>3. Conns(s)' = Conns(s) \ {p}
    BY <2>1, <1>c, <1>d
  <2>4. /\ active_connections[s] = Cardinality(Conns(s))
        /\ max_conn[s] > 0 => active_connections[s] <= max_conn[s]
    BY <1>a DEF ConnectionsCounted
  <2>5. Cardinality(Conns(s) \ {p}) = IF p \in Conns(s)
                                      THEN Cardinality(Conns(s)) - 1
                                      ELSE Cardinality(Conns(s))
    BY <1>e, FS_RemoveElement
  <2>6. p \in Conns(s) <=> exit_callbacks_[p] = s
    OBVIOUS
  <2> HIDE DEF Conns
  <2> QED
    BY <2>2, <2>3, <2>4, <2>5, <2>6, <1>b, <1>d
<1>3. ASSUME NEW fd \in ListenFd, AcceptConnection(fd)
      PROVE  ConnectionsCounted'
  <2>1. PICK s \in Socket, p \in Pid :
           /\ ~AtConnectionLimit(s)
           /\ child[p] = "free"
           /\ exit_callbacks_' = [exit_callbacks_ EXCEPT ![p] = s]
           /\ active_connections' = [active_connections EXCEPT ![s] = @ + 1]
    BY <1>3, AcceptStep
  <2>2. exit_callbacks_[p] = None
    BY <1>a, <2>1 DEF KillTargetsAreChildren
  <2> SUFFICES ASSUME NEW r \in Socket
               PROVE  /\ active_connections'[r] = Cardinality(Conns(r)')
                      /\ max_conn[r] > 0 =>
                           active_connections'[r] <= max_conn[r]
    BY DEF ConnectionsCounted
  <2>3. /\ active_connections[r] = Cardinality(Conns(r))
        /\ max_conn[r] > 0 => active_connections[r] <= max_conn[r]
    BY <1>a DEF ConnectionsCounted
  <2>4. CASE r = s
    <3>1. Conns(r)' = Conns(r) \cup {p}
      BY <2>1, <2>4, <1>c
    <3>2. p \notin Conns(r)
      BY <2>2, <1>d
    <3>3. Cardinality(Conns(r) \cup {p}) = Cardinality(Conns(r)) + 1
      BY <3>2, <1>e, FS_AddElement
    <3>4. active_connections'[r] = active_connections[r] + 1
      BY <2>1, <2>4, <1>b
    <3> HIDE DEF Conns
    <3>5. max_conn[r] > 0 => active_connections[r] < max_conn[r]
      BY <2>1, <2>4, <1>b, <1>d DEF AtConnectionLimit
    <3> QED
      BY <2>3, <3>1, <3>3, <3>4, <3>5, <1>b, <1>d
  <2>5. CASE r # s
    <3>1. Conns(r)' = Conns(r)
      BY <2>1, <2>2, <2>5, <1>c, <1>d
    <3>2. active_connections'[r] = active_connections[r]
      BY <2>1, <2>5, <1>b
    <3> HIDE DEF Conns
    <3> QED
      BY <2>3, <3>1, <3>2
  <2> QED
    BY <2>4, <2>5
<1>4. ASSUME NEW p \in AnyPid
      PROVE  /\ ReapUntracked(p) => UNCHANGED tables
             /\ Reparent(p) => UNCHANGED tables
             /\ \A status : Exit(p, status) => UNCHANGED tables
  BY DEF ReapUntracked, Reparent, Exit
<1>5. RunStartPre \/ WaitStartPre \/ Spawn \/ StopUnits
        => UNCHANGED <<exit_callbacks_, active_connections>>
  BY DEF RunStartPre, WaitStartPre, Spawn, StopUnits
<1> QED
  BY TableSteps, <1>1, <1>2, <1>3, <1>4, <1>5 DEF TablesInv

\* No step loses track of the start_service call under way.
LEMMA JobStep ==
  ASSUME TablesInv, [Next]_vars
  PROVE  JobInv'
<1> USE DEF vars, kernel, tables, flags, control, history
<1>a. JobInv /\ KillTargetsAreChildren
  BY DEF TablesInv
<1>b. child \in [AnyPid -> {"free", "alive"} \cup ExitStatus]
  BY DEF TablesInv, TypeOK
<1>c. job \in StartJob /\ idx \in Nat
  BY DEF TablesInv, TypeOK
<1>1. ASSUME NEW p \in AnyPid, NEW status \in ExitStatus, Exit(p, status)
      PROVE  JobInv'
  BY <1>1, <1>a, <1>b DEF JobInv, Exit, ExitStatus, Tracked, NoJob
<1>2. ASSUME NEW p \in OrphanPid, Reparent(p)
      PROVE  JobInv'
  BY <1>2, <1>a, <1>b DEF JobInv, Reparent, Tracked, NoJob
<1>3. ASSUME NEW fd \in ListenFd, Connect(fd)
      PROVE  JobInv'
  BY <1>3, <1>a DEF JobInv, Connect, Tracked, NoJob
<1>4. CASE Tick
  BY <1>4, <1>a DEF JobInv, Tick, Tracked, NoJob
<1>5. ASSUME NEW g \in Signals, SendSignal(g)
      PROVE  JobInv'
  BY <1>5, <1>a DEF JobInv, SendSignal, Tracked, NoJob
<1>6. CASE UnitExecute
  <2>1. idx \in 1..Len(exec_order_) /\ exec_order_[idx] \in Unit
    BY <1>6, <1>a, <1>c, SupervisorAssumption DEF UnitExecute, JobInv
  <2>2. idx' >= 1 /\ pc = "next"
    BY <1>6, <2>1 DEF UnitExecute
  <2>3. \/ UNCHANGED <<pc, job>>
        \/ BeginStart(exec_order_[idx])
    BY <1>6 DEF UnitExecute
  <2> QED
    BY <2>1, <2>2, <2>3, <1>a DEF JobInv, BeginStart, NoJob
<1>7. CASE RunStartPre
  <2>0. /\ pc = "start" /\ job.pre # <<>> /\ job.unit \in Unit
        /\ UNCHANGED <<phase, idx, processes_>>
    BY <1>7, <1>a DEF RunStartPre, JobInv
  <2>1. CASE pc' = pc
    <3>1. job'.unit = job.unit
      BY <1>7, <2>1, <1>c DEF RunStartPre, StartJob
    <3> QED
      BY <1>a, <2>0, <2>1, <3>1 DEF JobInv
  <2>2. CASE pc' # pc
    <3>1. PICK p \in Pid : /\ child[p] = "free"
                           /\ child' = [child EXCEPT ![p] = "alive"]
                           /\ job' = [job EXCEPT !.pid = p]
                           /\ pc' = "waitpre"
      BY <1>7, <2>2 DEF RunStartPre, FreePids
    <3>2. job'.unit = job.unit /\ job'.pre = job.pre /\ job'.pid = p
      BY <3>1, <1>c DEF StartJob
    <3>3. p \notin Tracked'
      BY <3>1, <2>0, <1>a DEF KillTargetsAreChildren, Tracked
    <3>4. child'[p] # "free"
      BY <3>1, <1>b
    <3> QED
      BY <1>a, <2>0, <3>1, <3>2, <3>3, <3>4 DEF JobInv
  <2> QED
    BY <2>1, <2>2
<1>8. CASE WaitStartPre
  <2>1. job.unit \in Unit /\ UNCHANGED <<phase, idx>>
    BY <1>8, <1>a DEF WaitStartPre, JobInv
  <2>2. [job EXCEPT !.pre = Tail(job.pre), !.pid = None].unit = job.unit
    BY <1>c DEF StartJob
  <2>3. \/ pc' = "next" /\ job' = NoJob
        \/ pc' = "start" /\ job'.unit = job.unit
    BY <1>8, <2>2 DEF WaitStartPre, ReturnFromStart
  <2> QED
    BY <1>a, <2>1, <2>3 DEF JobInv
<1>9. CASE Spawn
  BY <1>9, <1>a DEF Spawn, ReturnFromStart, JobInv
<1>10. CASE EnterMainLoop \/ Poll
  BY <1>10, <1>a, <1>c DEF EnterMainLoop, Poll, JobInv
<1>11. CASE DispatchSignals \/ SignalsDrained \/ ChildrenReaped
  BY <1>11, <1>a DEF DispatchSignals, SignalsDrained, ChildrenReaped, JobInv
<1>12. ASSUME NEW g, drain_signals(g)
       PROVE  JobInv'
  BY <1>12, <1>a DEF drain_signals, JobInv
<1>13. ASSUME NEW p, ReapTracked(p) \/ ReapUntracked(p)
       PROVE  JobInv'
  <2>1. pc = "reap" /\ UNCHANGED control
    BY <1>13 DEF ReapTracked, ReapUntracked
  <2> QED
    BY <2>1, <1>a DEF JobInv, NoJob
<1>14. ASSUME NEW fd, IgnoreSocketEvent(fd) \/ RefuseConnection(fd)
                      \/ AcceptConnection(fd)
       PROVE  JobInv'
  <2>1. pc = "dispatch" /\ UNCHANGED <<phase, pc, idx, job>>
    BY <1>14, RefuseStep
    DEF IgnoreSocketEvent, AcceptConnection, TakeConnection, Accepts
  <2> QED
    BY <2>1, <1>a DEF JobInv, NoJob
<1>15. CASE EventsHandled \/ drain_pending_restarts
  <2>1. /\ pc \notin {"start", "waitpre"} /\ pc' \notin {"start", "waitpre"}
        /\ UNCHANGED <<idx, job>>
        /\ phase' \in {phase, "done"}
    BY <1>15 DEF EventsHandled, drain_pending_restarts
  <2> QED
    BY <2>1, <1>a DEF JobInv, NoJob
<1>16. ASSUME NEW u \in Unit, process_restarts(u)
       PROVE  JobInv'
  BY <1>16 DEF process_restarts, BeginStart, JobInv
<1>17. CASE EndOfIteration \/ StopUnits \/ KillAll
  <2>1. /\ pc \notin {"start", "waitpre"} /\ pc' \notin {"start", "waitpre"}
        /\ job' = job /\ phase' # "boot"
    BY <1>17 DEF EndOfIteration, StopUnits, KillAll
  <2> QED
    BY <2>1, <1>a DEF JobInv, NoJob
<1>18. CASE UNCHANGED vars
  BY <1>18, <1>a DEF JobInv, Tracked, NoJob
<1> QED
  BY <1>1, <1>2, <1>3, <1>4, <1>5, <1>6, <1>7, <1>8, <1>9, <1>10, <1>11,
     <1>12, <1>13, <1>14, <1>15, <1>16, <1>17, <1>18
  DEF Next, Environment, InitThread, Terminated

\* The tables are empty at the start.
LEMMA TablesInit == Init => TablesInv
<1> SUFFICES ASSUME Init PROVE TablesInv
  OBVIOUS
<1>1. TypeOK
  <2>1. NoProcess \in TrackedProcess
    BY NewProcessType DEF NoProcess, RestartPolicy
  <2>2. NoMeta \in RestartMeta
    BY DEF NoMeta, RestartMeta
  <2>3. /\ child \in [AnyPid -> {"free", "alive"} \cup ExitStatus]
        /\ processes_ \in [Pid -> TrackedProcess]
        /\ restart_counts_ \in [Unit -> RestartMeta]
        /\ job \in StartJob
    BY <2>1, <2>2, NoJobType DEF Init
  <2>4. /\ backlog \in [ListenFd -> 0..MaxBacklog]
        /\ now \in 0..MaxTime
    BY SupervisorAssumption DEF Init
  <2> QED
    BY <2>3, <2>4 DEF Init, TypeOK
<1>2. Tracked = {}
  BY DEF Init, Tracked, NoProcess, NewProcess
<1>3. KillTargetsAreChildren
  BY <1>2 DEF Init, KillTargetsAreChildren
<1>4. ConnectionsCounted
  <2>1. ASSUME NEW s \in Socket
        PROVE  { p \in Pid : exit_callbacks_[p] = s } = {}
    BY SupervisorAssumption DEF Init
  <2>2. ASSUME NEW s \in Socket
        PROVE  active_connections[s] = 0 /\ max_conn[s] \in Nat
    BY SupervisorAssumption DEF Init
  <2>3. Cardinality({}) = 0
    BY FS_EmptySet
  <2> QED
    BY <2>1, <2>2, <2>3 DEF ConnectionsCounted
<1>5. JobInv
  BY DEF Init, JobInv
<1> QED
  BY <1>1, <1>3, <1>4, <1>5 DEF TablesInv

\* The invariant of this group holds in every reachable state.
THEOREM TablesInvariant == Spec => []TablesInv
<1>1. TablesInv /\ [Next]_vars => TablesInv'
  BY TypeStep, KillStep, CountStep, JobStep DEF TablesInv
<1> QED
  BY TablesInit, <1>1, PTL DEF Spec

\* Every variable of the supervisor keeps its type; in particular a counter
\* of connections never becomes negative, however exits and accepts interleave.
THEOREM TypeCorrect == Spec => []TypeOK
<1>1. TablesInv => TypeOK
  BY DEF TablesInv
<1> QED
  BY TablesInvariant, <1>1, PTL

\* For any set of units, sockets and pids, the kill calls of stop_unit and of
\* the final SIGKILL loop only ever reach children that were not reaped.
THEOREM KillsOnlyChildren == Spec => []KillTargetsAreChildren
<1>1. TablesInv => KillTargetsAreChildren
  BY DEF TablesInv
<1> QED
  BY TablesInvariant, <1>1, PTL

\* accept_ready and the exit callbacks keep active_connections equal to the
\* number of connection processes, and within MaxConnections.
THEOREM ConnectionLimit == Spec => []ConnectionsCounted
<1>1. TablesInv => ConnectionsCounted
  BY DEF TablesInv
<1> QED
  BY TablesInvariant, <1>1, PTL

-------------------------------------------------------------------------------
(* Zombies and SIGCHLD                                                     *)

\* No step leaves a zombie without a pending SIGCHLD or a running reap loop.
LEMMA SigchldStep ==
  ASSUME TypeOK, NoLostSigchld, [Next]_vars
  PROVE  NoLostSigchld'
<1> USE DEF vars, kernel, tables, flags, control, history
<1>a. child \in [AnyPid -> {"free", "alive"} \cup ExitStatus]
  BY DEF TypeOK
<1>b. "free" \notin ExitStatus /\ "alive" \notin ExitStatus
  BY DEF ExitStatus
\* Most steps leave the signals and the reap loop alone and make no zombie.
<1> DEFINE Harmless == /\ "CHLD" \in pending_sig => "CHLD" \in pending_sig'
                       /\ pc = "reap" => pc' = "reap"
                       /\ Zombies' \subseteq Zombies
<1>c. Harmless => NoLostSigchld'
  BY DEF NoLostSigchld
<1>d. ASSUME NEW p \in AnyPid, NEW c \in {"free", "alive"},
             child' = [child EXCEPT ![p] = c]
      PROVE  Zombies' \subseteq Zombies
  BY <1>a, <1>b, <1>d DEF Zombies
<1>e. child' = child => Zombies' \subseteq Zombies
  BY DEF Zombies
<1>1. ASSUME NEW p \in AnyPid, NEW status \in ExitStatus, Exit(p, status)
      PROVE  NoLostSigchld'
  BY <1>1 DEF Exit, NoLostSigchld
<1>2. ASSUME NEW p \in OrphanPid, Reparent(p)
      PROVE  Harmless
  BY <1>2, <1>d DEF Reparent
<1>3. ASSUME NEW fd \in ListenFd, Connect(fd)
      PROVE  Harmless
  BY <1>3, <1>e DEF Connect
<1>4. CASE Tick
  BY <1>4, <1>c, <1>e DEF Tick
<1>5. ASSUME NEW g \in Signals, SendSignal(g)
      PROVE  Harmless
  BY <1>5, <1>e DEF SendSignal
<1>6. CASE UnitExecute \/ EnterMainLoop \/ Poll
  BY <1>6, <1>c, <1>e DEF UnitExecute, EnterMainLoop, Poll
<1>7. CASE RunStartPre
  <2>1. pc = "start" /\ pending_sig' = pending_sig
    BY <1>7 DEF RunStartPre
  <2>2. child' = child \/ \E p \in Pid : child' = [child EXCEPT ![p] = "alive"]
    BY <1>7 DEF RunStartPre, FreePids
  <2> QED
    BY <2>1, <2>2, <1>c, <1>d, <1>e
<1>8. CASE WaitStartPre
  <2>1. /\ pc = "waitpre" /\ pending_sig' = pending_sig
        /\ child' = [child EXCEPT ![job.pid] = "free"]
    BY <1>8 DEF WaitStartPre
  <2>2. Zombies' \subseteq Zombies
    BY <2>1, <1>a, <1>b DEF Zombies
  <2> QED
    BY <2>1, <2>2, <1>c
<1>9. CASE Spawn
  <2>1. pc = "start" /\ pending_sig' = pending_sig
    BY <1>9 DEF Spawn
  <2>2. child' = child \/ \E p \in Pid : child' = [child EXCEPT ![p] = "alive"]
    BY <1>9 DEF Spawn, FreePids
  <2> QED
    BY <2>1, <2>2, <1>c, <1>d, <1>e
<1>10. CASE DispatchSignals \/ SignalsDrained
  BY <1>10, <1>c, <1>e DEF DispatchSignals, SignalsDrained
<1>11. ASSUME NEW g \in {"CHLD", "TERM", "USR1"}, drain_signals(g)
       PROVE  NoLostSigchld'
  <2>1. CASE g = "CHLD"
    BY <1>11, <2>1 DEF drain_signals, NoLostSigchld
  <2>2. CASE g # "CHLD"
    BY <1>11, <2>2, <1>c, <1>e DEF drain_signals
  <2> QED
    BY <2>1, <2>2
<1>12. ASSUME NEW p \in AnyPid, ReapTracked(p) \/ ReapUntracked(p)
       PROVE  NoLostSigchld'
  <2>1. pc' = "reap"
    BY <1>12 DEF ReapTracked, ReapUntracked
  <2> QED
    BY <2>1 DEF NoLostSigchld
<1>13. CASE ChildrenReaped
  <2>1. Zombies' = {}
    BY <1>13 DEF ChildrenReaped, NoChildLeft, Zombies
  <2> QED
    BY <2>1 DEF NoLostSigchld
<1>14. ASSUME NEW fd \in ListenFd, IgnoreSocketEvent(fd) \/ RefuseConnection(fd)
       PROVE  NoLostSigchld'
  BY <1>14, <1>c, <1>e, RefuseStep DEF IgnoreSocketEvent
<1>15. ASSUME NEW fd \in ListenFd, AcceptConnection(fd)
       PROVE  NoLostSigchld'
  <2>1. pc' = pc /\ pending_sig' = pending_sig
    BY <1>15 DEF AcceptConnection, TakeConnection
  <2>2. PICK p \in Pid : child' = [child EXCEPT ![p] = "alive"]
    BY <1>15, AcceptStep
  <2> QED
    BY <2>1, <2>2, <1>c, <1>d
<1>16. CASE EventsHandled \/ drain_pending_restarts
  BY <1>16, <1>c, <1>e DEF EventsHandled, drain_pending_restarts
<1>17. ASSUME NEW u \in Unit, process_restarts(u)
       PROVE  NoLostSigchld'
  BY <1>17, <1>c, <1>e DEF process_restarts
<1>18. CASE EndOfIteration \/ StopUnits \/ KillAll
  BY <1>18, <1>c, <1>e DEF EndOfIteration, StopUnits, KillAll
<1>19. CASE UNCHANGED vars
  BY <1>19, <1>c, <1>e
<1> QED
  BY <1>c, <1>1, <1>2, <1>3, <1>4, <1>5, <1>6, <1>7, <1>8, <1>9, <1>10, <1>11,
     <1>12, <1>13, <1>14, <1>15, <1>16, <1>17, <1>18, <1>19
  DEF Next, Environment, InitThread, Terminated

\* Whatever the order in which children die, signals coalesce and waitpid is
\* called (by reap_children or by start_service), every zombie has a SIGCHLD
\* pending or a reap loop running for it.
THEOREM SigchldNeverLost == Spec => []NoLostSigchld
<1>1. Init => NoLostSigchld
  <2>1. Init => Zombies = {}
    BY DEF Init, Zombies, ExitStatus
  <2> QED
    BY <2>1 DEF NoLostSigchld
<1>2. TypeOK /\ NoLostSigchld /\ [Next]_vars => NoLostSigchld'
  BY SigchldStep
<1> QED
  BY <1>1, <1>2, TypeCorrect, PTL DEF Spec

-------------------------------------------------------------------------------
(* Where the thread can be, and the shutdown                               *)

\* The system calls that each part of run() makes; units wait in ready only
\* while process_restarts runs.
ControlInv ==
  /\ phase = "boot" => pc \in {"next", "start", "waitpre"}
  /\ phase \in {"grace", "final"} => pc \in {"poll", "dispatch", "drain", "reap"}
  /\ phase = "done" => pc = "stop"
  /\ ready # {} => phase = "run" /\ pc \in {"next", "start", "waitpre"}

\* Every step keeps the invariant that ties the phases of run() together.
LEMMA ControlStep ==
  ASSUME TypeOK, ControlInv, [Next]_vars
  PROVE  ControlInv'
<1> USE DEF vars, control, ControlInv
<1>a. phase \in {"boot", "run", "grace", "final", "done"}
  BY DEF TypeOK
<1>1. ASSUME NEW p, NEW status, Exit(p, status)
      PROVE  ControlInv'
  BY <1>1 DEF Exit
<1>2. ASSUME NEW p, Reparent(p) \/ ReapTracked(p) \/ ReapUntracked(p)
      PROVE  ControlInv'
  BY <1>2 DEF Reparent, ReapTracked, ReapUntracked
<1>3. ASSUME NEW fd, Connect(fd)
      PROVE  ControlInv'
  BY <1>3 DEF Connect
<1>4. CASE Tick
  BY <1>4 DEF Tick
<1>5. ASSUME NEW g, SendSignal(g)
      PROVE  ControlInv'
  BY <1>5 DEF SendSignal
<1>6. CASE UnitExecute
  <2>1. pc' \in {"next", "start"} /\ phase = "boot" /\ UNCHANGED <<phase, ready>>
    BY <1>6 DEF UnitExecute, BeginStart
  <2> QED
    BY <2>1
<1>7. CASE EnterMainLoop
  BY <1>7 DEF EnterMainLoop
<1>8. CASE RunStartPre \/ WaitStartPre \/ Spawn
  <2>1. /\ pc \in {"start", "waitpre"} /\ UNCHANGED <<phase, ready>>
        /\ pc' \in {"next", "start", "waitpre"}
    BY <1>8 DEF RunStartPre, WaitStartPre, Spawn, ReturnFromStart
  <2> QED
    BY <2>1, <1>a
<1>9. CASE Poll \/ DispatchSignals \/ SignalsDrained \/ ChildrenReaped
  BY <1>9, <1>a DEF Poll, DispatchSignals, SignalsDrained, ChildrenReaped
<1>10. ASSUME NEW g, drain_signals(g)
       PROVE  ControlInv'
  <2>1. /\ pc = "drain" /\ pc' \in {"drain", "reap"}
        /\ UNCHANGED <<phase, ready>>
    BY <1>10 DEF drain_signals
  <2> QED
    BY <2>1, <1>a
<1>11. ASSUME NEW fd, IgnoreSocketEvent(fd) \/ RefuseConnection(fd)
                      \/ AcceptConnection(fd)
       PROVE  ControlInv'
  BY <1>11, RefuseStep DEF IgnoreSocketEvent, AcceptConnection, TakeConnection
<1>12. CASE EventsHandled
  BY <1>12 DEF EventsHandled
<1>13. CASE drain_pending_restarts
  <2>1. pc = "restart" /\ pc' = "next" /\ phase' = phase
    BY <1>13 DEF drain_pending_restarts
  <2> QED
    BY <2>1, <1>a
<1>14. ASSUME NEW u, process_restarts(u)
       PROVE  ControlInv'
  BY <1>14 DEF process_restarts, BeginStart
<1>15. CASE EndOfIteration
  BY <1>15 DEF EndOfIteration, RestartsHandled
<1>16. CASE StopUnits \/ KillAll
  BY <1>16 DEF StopUnits, KillAll
<1>17. CASE UNCHANGED vars
  BY <1>17
<1> QED
  BY <1>1, <1>2, <1>3, <1>4, <1>5, <1>6, <1>7, <1>8, <1>9, <1>10, <1>11,
     <1>12, <1>13, <1>14, <1>15, <1>16, <1>17
  DEF Next, Environment, InitThread, Terminated

\* The control invariant holds throughout.
LEMMA ControlInvariant == Spec => []ControlInv
<1>1. Init => ControlInv
  BY DEF Init, ControlInv
<1>2. TypeOK /\ ControlInv /\ [Next]_vars => ControlInv'
  BY ControlStep
<1> QED
  BY <1>1, <1>2, TypeCorrect, PTL DEF Spec

\* run() never returns to its main loop, and after it no process is tracked
\* that was not tracked before: connections and restarts that come due during
\* the shutdown start nothing.
THEOREM ShutdownFinal == Spec => ShutdownIsFinal
<1>1. TablesInv /\ ControlInv /\ [Next]_vars
        => [LeftMainLoop => LeftMainLoop' /\ Tracked' \subseteq Tracked]_vars
  <2> SUFFICES ASSUME TablesInv, ControlInv, [Next]_vars, LeftMainLoop
               PROVE  LeftMainLoop' /\ Tracked' \subseteq Tracked
    OBVIOUS
  <2> USE DEF vars, kernel, tables, flags, control
  <2>a. pc \in {"poll", "dispatch", "drain", "reap", "stop"}
    BY DEF LeftMainLoop, ControlInv
  <2>b. processes_ \in [Pid -> TrackedProcess]
    BY DEF TablesInv, TypeOK
  <2>c. ~Accepts
    BY DEF Accepts, LeftMainLoop
  <2>1. ASSUME NEW p, NEW status, Exit(p, status)
        PROVE  UNCHANGED <<control, processes_>>
    BY <2>1 DEF Exit
  <2>2. ASSUME NEW p, Reparent(p) \/ ReapUntracked(p)
        PROVE  UNCHANGED <<control, processes_>>
    BY <2>2 DEF Reparent, ReapUntracked
  <2>3. ASSUME NEW x, Connect(x) \/ SendSignal(x)
        PROVE  UNCHANGED <<control, processes_>>
    BY <2>3 DEF Connect, SendSignal
  <2>4. Tick => UNCHANGED <<control, processes_>>
    BY DEF Tick
  <2>5. ASSUME NEW p \in Pid, ReapTracked(p)
        PROVE  LeftMainLoop' /\ Tracked' \subseteq Tracked
    <3>1. /\ UNCHANGED control
          /\ processes_' = [processes_ EXCEPT ![p] = NoProcess]
      BY <2>5 DEF ReapTracked
    <3>2. NoProcess.unit_name = None
      BY DEF NoProcess, NewProcess
    <3> QED
      BY <3>1, <3>2, <2>b DEF LeftMainLoop, Tracked
  <2>6. CASE StopUnits
    <3>1. ASSUME NEW p \in Pid
          PROVE  processes_'[p].unit_name = processes_[p].unit_name
      BY <2>6, <2>b DEF StopUnits, TrackedProcess
    <3> QED
      BY <2>6, <3>1 DEF StopUnits, LeftMainLoop, Tracked
  <2>7. UnitExecute \/ EnterMainLoop \/ RunStartPre \/ WaitStartPre \/ Spawn
          \/ drain_pending_restarts \/ EndOfIteration => FALSE
    BY <2>a DEF UnitExecute, EnterMainLoop, RunStartPre, WaitStartPre, Spawn,
                drain_pending_restarts, EndOfIteration
  <2>8. ASSUME NEW x, process_restarts(x) \/ RefuseConnection(x)
                      \/ AcceptConnection(x)
        PROVE  FALSE
    BY <2>8, <2>a, <2>c, RefuseStep
    DEF process_restarts, AcceptConnection, TakeConnection
  <2>9. CASE Poll \/ DispatchSignals \/ SignalsDrained \/ ChildrenReaped
             \/ EventsHandled \/ KillAll
    <3>1. processes_' = processes_ /\ pc # "stop"
      BY <2>9 DEF Poll, DispatchSignals, SignalsDrained, ChildrenReaped,
                  EventsHandled, KillAll
    <3>2. phase \in {"grace", "final", "done"}
      BY <3>1 DEF LeftMainLoop
    <3>3. phase' \in {"grace", "final", "done"}
      BY <2>9, <3>2 DEF Poll, DispatchSignals, SignalsDrained, ChildrenReaped,
                        EventsHandled, KillAll
    <3> QED
      BY <3>1, <3>3 DEF LeftMainLoop, Tracked
  <2>10. ASSUME NEW x, drain_signals(x) \/ IgnoreSocketEvent(x)
         PROVE  LeftMainLoop' /\ Tracked' \subseteq Tracked
    <3>1. processes_' = processes_ /\ phase' = phase /\ pc # "stop"
      BY <2>10 DEF drain_signals, IgnoreSocketEvent
    <3> QED
      BY <3>1 DEF LeftMainLoop, Tracked
  <2>11. UNCHANGED <<control, processes_>>
           => LeftMainLoop' /\ Tracked' \subseteq Tracked
    BY DEF LeftMainLoop, Tracked
  <2>12. UNCHANGED vars => UNCHANGED <<control, processes_>>
    OBVIOUS
  <2> QED
    BY <2>1, <2>2, <2>3, <2>4, <2>5, <2>6, <2>7, <2>8, <2>9, <2>10, <2>11,
       <2>12
    DEF Next, Environment, InitThread, Terminated
<1> QED
  BY <1>1, TablesInvariant, ControlInvariant, PTL DEF Spec, ShutdownIsFinal

-------------------------------------------------------------------------------
(* One process per unit                                                    *)

\* What SingleInstance needs to be inductive: at boot no restart is pending
\* and the units still to come have neither a process nor a call of
\* start_service, and the processes of connections are never restarted.
QueueInv ==
  /\ phase = "boot" =>
       /\ pending_restarts_ = {}
       /\ \A k \in 1..Len(exec_order_) : k >= idx =>
            MainProcesses(exec_order_[k]) = {} /\ job.unit # exec_order_[k]
  /\ \A p \in Pid : exit_callbacks_[p] # None =>
       processes_[p].restart_policy = "no"

InstanceInv == SingleInstance /\ QueueInv

\* The steps that start nothing and end nothing.
LEMMA QuietInstance ==
  ASSUME SupervisorAssumption, InstanceInv, idx \in Nat, idx' \in Nat,
         UNCHANGED <<processes_, exit_callbacks_, pending_restarts_, ready>>,
         job'.unit \in {job.unit, None},
         phase' = "boot" => phase = "boot" /\ idx' >= idx
  PROVE  InstanceInv'
<1>a. None \notin Unit
  OBVIOUS
<1>1. \A u : MainProcesses(u)' = MainProcesses(u) /\ PendingOf(u)' = PendingOf(u)
  BY DEF MainProcesses, PendingOf, Tracked
<1>2. SingleInstance'
  BY <1>1, <1>a DEF InstanceInv, SingleInstance
<1>3. \A k \in 1..Len(exec_order_) : exec_order_[k] # None
  BY <1>a DEF SupervisorAssumption
<1>4. QueueInv'
  <2>1. ASSUME phase' = "boot", NEW k \in 1..Len(exec_order_), k >= idx'
        PROVE  (MainProcesses(exec_order_[k]) = {} /\ job.unit # exec_order_[k])'
    <3>1. phase = "boot" /\ k >= idx
      BY <2>1 DEF SupervisorAssumption
    <3>2. MainProcesses(exec_order_[k]) = {} /\ job.unit # exec_order_[k]
      BY <3>1 DEF InstanceInv, QueueInv
    <3>3. job'.unit # exec_order_[k]
      BY <3>2, <1>3
    <3> QED
      BY <3>2, <3>3, <1>1
  <2> QED
    BY <2>1 DEF InstanceInv, QueueInv
<1> QED
  BY <1>2, <1>4 DEF InstanceInv

\* Every step keeps each unit in at most one of the places a unit can
\* be in: running, waiting for its restart, queued, being started.
LEMMA InstanceStep ==
  ASSUME TablesInv, TypeOK', ControlInv, InstanceInv, [Next]_vars
  PROVE  InstanceInv'
<1> USE DEF vars, kernel, tables, flags, control, history
<1> DEFINE Quiet ==
      /\ UNCHANGED <<processes_, exit_callbacks_, pending_restarts_, ready>>
      /\ job'.unit \in {job.unit, None}
      /\ phase' = "boot" => phase = "boot" /\ idx' >= idx
<1>a. idx \in Nat /\ idx' \in Nat
  BY DEF TablesInv, TypeOK
<1>b. Quiet => InstanceInv'
  BY <1>a, SupervisorAssumption, QuietInstance
<1>c. KillTargetsAreChildren /\ JobInv
  BY DEF TablesInv
<1>d. processes_ \in [Pid -> TrackedProcess]
  BY DEF TablesInv, TypeOK
<1>e. exit_callbacks_ \in [Pid -> Socket \cup {None}]
  BY DEF TablesInv, TypeOK
<1>f. None \notin Unit /\ None \notin Socket
  BY SupervisorAssumption
<1>g. job \in StartJob /\ pending_restarts_ \subseteq PendingRestart
  BY DEF TablesInv, TypeOK
<1>h. SingleInstance /\ QueueInv
  BY DEF InstanceInv
<1>i. NoJob.unit = None
  BY DEF NoJob
<1>1. ASSUME NEW p, NEW status, Exit(p, status)
      PROVE  Quiet
  BY <1>1, <1>a DEF Exit
<1>2. ASSUME NEW p, Reparent(p) \/ ReapUntracked(p)
      PROVE  Quiet
  BY <1>2, <1>a DEF Reparent, ReapUntracked
<1>3. ASSUME NEW x, Connect(x) \/ SendSignal(x) \/ drain_signals(x)
                    \/ IgnoreSocketEvent(x) \/ RefuseConnection(x)
      PROVE  Quiet
  BY <1>3, <1>a, RefuseStep
  DEF Connect, SendSignal, drain_signals, IgnoreSocketEvent
<1>4. CASE Tick \/ EnterMainLoop \/ Poll \/ DispatchSignals
  BY <1>4, <1>a, <1>b DEF Tick, EnterMainLoop, Poll, DispatchSignals
<1>5. CASE SignalsDrained \/ ChildrenReaped \/ EventsHandled \/ EndOfIteration
           \/ KillAll
  BY <1>5, <1>a, <1>b
  DEF SignalsDrained, ChildrenReaped, EventsHandled, EndOfIteration, KillAll
<1>6. CASE RunStartPre \/ WaitStartPre
  <2>1. job'.unit \in {job.unit, None}
    BY <1>6, <1>g, <1>i
    DEF RunStartPre, WaitStartPre, ReturnFromStart, StartJob
  <2>2. UNCHANGED <<phase, idx, ready, tables>>
    BY <1>6 DEF RunStartPre, WaitStartPre
  <2> QED
    BY <2>1, <2>2, <1>a, <1>b
<1>7. CASE UnitExecute
  <2>1. CASE UNCHANGED job
    BY <1>7, <2>1, <1>a, <1>b DEF UnitExecute
  <2>2. CASE ~UNCHANGED job
    <3> DEFINE u == exec_order_[idx]
    <3>1. idx \in 1..Len(exec_order_) /\ u \in Unit
      BY <1>7, <1>a, <1>c, SupervisorAssumption DEF UnitExecute, JobInv
    <3>2. /\ phase = "boot" /\ phase' = "boot" /\ idx' = idx + 1
          /\ job'.unit = u
          /\ UNCHANGED <<processes_, exit_callbacks_, pending_restarts_, ready>>
      BY <1>7, <2>2 DEF UnitExecute, BeginStart
    <3>3. \A v : /\ MainProcesses(v)' = MainProcesses(v)
                 /\ PendingOf(v)' = PendingOf(v)
      BY <3>2 DEF MainProcesses, PendingOf, Tracked
    <3>4. MainProcesses(u) = {} /\ PendingOf(u) = {} /\ u \notin ready
      BY <3>1, <3>2, <1>a, <1>h, SMTT(40) DEF QueueInv, ControlInv, PendingOf
    <3>5. ready' = ready
      BY <3>2
    <3> HIDE DEF u
    <3>6. SingleInstance'
      BY <3>2, <3>3, <3>4, <3>5, <1>h DEF SingleInstance
    <3>7. \A k \in 1..Len(exec_order_) : k >= idx + 1 => exec_order_[k] # u
      BY <3>1, <1>a, SupervisorAssumption DEF u
    <3>8. QueueInv'
      BY <3>2, <3>3, <3>7, <1>a, <1>h DEF QueueInv
    <3> QED
      BY <3>6, <3>8 DEF InstanceInv
  <2> QED
    BY <2>1, <2>2
<1>8. CASE Spawn
  <2>1. job'.unit = None /\ UNCHANGED <<phase, idx, ready, exit_callbacks_,
                                        pending_restarts_>>
    BY <1>8, <1>i DEF Spawn, ReturnFromStart
  <2>2. CASE UNCHANGED <<child, processes_, unit_to_pid_, restart_counts_>>
    BY <2>1, <2>2, <1>a, <1>b
  <2>3. CASE ~UNCHANGED <<child, processes_, unit_to_pid_, restart_counts_>>
    <3>1. PICK u \in Unit, p \in Pid, tp \in TrackedProcess :
              /\ u = job.unit
              /\ child[p] = "free"
              /\ tp.unit_name = u
              /\ processes_' = [processes_ EXCEPT ![p] = tp]
      BY <1>8, <2>3, SpawnStep
    <3>2. exit_callbacks_[p] = None /\ p \notin Tracked
      BY <3>1, <1>c DEF KillTargetsAreChildren
    <3>3. MainProcesses(u) = {} /\ PendingOf(u) = {} /\ u \notin ready
      BY <3>1, <1>h DEF SingleInstance
    <3>4. \A v \in Unit : v # u => MainProcesses(v)' = MainProcesses(v)
      BY <3>1, <3>2, <2>1, <1>d, <1>f DEF MainProcesses, Tracked
    <3>5. MainProcesses(u)' = {p}
      <4>1. \A q \in Pid : q # p => ~ ( /\ processes_[q].unit_name # None
                                        /\ processes_[q].unit_name = u
                                        /\ exit_callbacks_[q] = None )
        BY <3>3 DEF MainProcesses, Tracked
      <4> QED
        BY <4>1, <3>1, <3>2, <2>1, <1>d, <1>f DEF MainProcesses, Tracked
    <3>6. \A v : PendingOf(v)' = PendingOf(v)
      BY <2>1 DEF PendingOf
    <3>7. SingleInstance'
      BY <3>1, <3>3, <3>4, <3>5, <3>6, <2>1, <1>f, <1>h DEF SingleInstance
    <3>8. QueueInv'
      <4>1. ASSUME phase' = "boot", NEW k \in 1..Len(exec_order_), k >= idx'
            PROVE  (/\ MainProcesses(exec_order_[k]) = {}
                    /\ job.unit # exec_order_[k])'
        <5>1. MainProcesses(exec_order_[k]) = {} /\ job.unit # exec_order_[k]
          BY <4>1, <2>1, <1>h DEF QueueInv
        <5>2. exec_order_[k] \in Unit
          BY SupervisorAssumption
        <5> QED
          BY <5>1, <5>2, <3>1, <3>4, <2>1, <1>f
      <4>2. ASSUME NEW q \in Pid, exit_callbacks_'[q] # None
            PROVE  processes_'[q].restart_policy = "no"
        BY <4>2, <3>1, <3>2, <2>1, <1>d, <1>h DEF QueueInv
      <4> QED
        BY <4>1, <4>2, <2>1, <1>h DEF QueueInv
    <3> QED
      BY <3>7, <3>8 DEF InstanceInv
  <2> QED
    BY <2>2, <2>3
<1>9. ASSUME NEW p \in Pid, ReapTracked(p)
      PROVE  InstanceInv'
  <2>1. PICK u \in Unit, tp \in TrackedProcess :
          tp = processes_[p] /\ u = tp.unit_name
    BY <1>9, <1>d DEF ReapTracked, Tracked, TrackedProcess
  <2>2. /\ processes_' = [processes_ EXCEPT ![p] = NoProcess]
        /\ exit_callbacks_' = [exit_callbacks_ EXCEPT ![p] = None]
        /\ pending_restarts_' = pending_restarts_ \cup RestartsOf(tp, child[p])
        /\ pc = "reap" /\ UNCHANGED control
    BY <1>9, <2>1 DEF ReapTracked
  <2>3. /\ phase # "boot" /\ ready = {} /\ job.unit = None
    BY <2>2, <1>c, <1>i DEF ControlInv, JobInv
  <2>4. NoProcess.unit_name = None /\ NoProcess.restart_policy = "no"
    BY DEF NoProcess, NewProcess
  <2>5. \A pr, qr \in RestartsOf(tp, child[p]) : pr = qr /\ pr.unit_name = u
    BY <2>1 DEF RestartsOf
  <2>6. exit_callbacks_[p] # None => RestartsOf(tp, child[p]) = {}
    BY <2>1, <1>h DEF QueueInv, RestartsOf, should_restart
  <2>7. \A v \in Unit : MainProcesses(v)' = MainProcesses(v) \ {p}
    BY <2>2, <2>4, <1>d, <1>e DEF MainProcesses, Tracked
  <2>8. \A v \in Unit : v # u => PendingOf(v)' = PendingOf(v)
    BY <2>2, <2>5 DEF PendingOf
  <2>9. ASSUME NEW v \in Unit
        PROVE  /\ \A q, r \in MainProcesses(v)' : q = r
               /\ \A pr, qr \in PendingOf(v)' : pr = qr
               /\ MainProcesses(v)' # {} => PendingOf(v)' = {}
    <3>1. CASE v # u \/ RestartsOf(tp, child[p]) = {}
      <4>1. PendingOf(v)' = PendingOf(v)
        BY <3>1, <2>2, <2>8 DEF PendingOf
      <4> QED
        BY <4>1, <2>7, <1>h DEF SingleInstance
    <3>2. CASE v = u /\ RestartsOf(tp, child[p]) # {}
      <4>1. p \in MainProcesses(v)
        BY <3>2, <2>1, <2>6, <1>f DEF MainProcesses, Tracked
      <4>2. MainProcesses(v)' = {} /\ PendingOf(v) = {}
        BY <4>1, <2>7, <1>h DEF SingleInstance
      <4>3. PendingOf(v)' \subseteq RestartsOf(tp, child[p])
        BY <4>2, <2>2 DEF PendingOf
      <4> QED
        BY <4>2, <4>3, <2>5
    <3> QED
      BY <3>1, <3>2
  <2>10. SingleInstance'
    BY <2>2, <2>3, <2>9, <1>f DEF SingleInstance
  <2>11. QueueInv'
    BY <2>2, <2>3, <2>4, <1>d, <1>e, <1>h DEF QueueInv
  <2> QED
    BY <2>10, <2>11 DEF InstanceInv
<1>10. ASSUME NEW fd \in ListenFd, AcceptConnection(fd)
       PROVE  InstanceInv'
  <2>1. PICK s \in Socket, u \in Unit, p \in Pid :
           /\ child[p] = "free"
           /\ processes_' = [processes_ EXCEPT ![p] = NewProcess(u, "no")]
           /\ exit_callbacks_' = [exit_callbacks_ EXCEPT ![p] = s]
    BY <1>10, AcceptStep
  <2>2. phase = "run" /\ UNCHANGED <<phase, idx, ready, job, pending_restarts_>>
    BY <1>10 DEF AcceptConnection, TakeConnection, Accepts
  <2>3. p \notin Tracked
    BY <2>1, <1>c DEF KillTargetsAreChildren
  <2>4. \A v : MainProcesses(v)' = MainProcesses(v) /\ PendingOf(v)' = PendingOf(v)
    BY <2>1, <2>2, <2>3, <1>d, <1>e, <1>f DEF MainProcesses, PendingOf, Tracked
  <2>5. SingleInstance'
    BY <2>2, <2>4, <1>h DEF SingleInstance
  <2>6. NewProcess(u, "no").restart_policy = "no"
    BY DEF NewProcess
  <2>7. QueueInv'
    BY <2>1, <2>2, <2>6, <1>d, <1>e, <1>h DEF QueueInv
  <2> QED
    BY <2>5, <2>7 DEF InstanceInv
<1>11. CASE StopUnits
  <2>1. ASSUME NEW p \in Pid
        PROVE  /\ processes_'[p].unit_name = processes_[p].unit_name
               /\ \/ processes_'[p].restart_policy = "no"
                  \/ processes_'[p] = processes_[p]
    BY <1>11, <1>d DEF StopUnits, TrackedProcess
  <2>2. /\ phase' # "boot"
        /\ UNCHANGED <<ready, job, exit_callbacks_, pending_restarts_>>
    BY <1>11 DEF StopUnits
  <2>3. \A v : MainProcesses(v)' = MainProcesses(v) /\ PendingOf(v)' = PendingOf(v)
    BY <2>1, <2>2 DEF MainProcesses, PendingOf, Tracked
  <2>4. SingleInstance'
    BY <2>2, <2>3, <1>h DEF SingleInstance
  <2>5. QueueInv'
    BY <2>1, <2>2, <1>h DEF QueueInv
  <2> QED
    BY <2>4, <2>5 DEF InstanceInv
<1>12. CASE drain_pending_restarts
  <2> DEFINE due == { pr \in pending_restarts_ : IsDue(pr) }
  <2>1. /\ ready' = { pr.unit_name : pr \in due }
        /\ pending_restarts_' = pending_restarts_ \ due
        /\ pc = "restart" /\ UNCHANGED <<phase, processes_, exit_callbacks_, job>>
    BY <1>12 DEF drain_pending_restarts, Remaining
  <2>2. phase # "boot" /\ job.unit = None
    BY <2>1, <1>c, <1>i DEF ControlInv, JobInv
  <2>3. \A v : MainProcesses(v)' = MainProcesses(v)
    BY <2>1 DEF MainProcesses, Tracked
  <2>4. \A v \in Unit : PendingOf(v)' \subseteq PendingOf(v)
    BY <2>1 DEF PendingOf
  <2>5. ASSUME NEW v \in Unit, v \in ready'
        PROVE  PendingOf(v) # {} /\ PendingOf(v)' = {}
    <3>1. PICK pr \in due : pr.unit_name = v
      BY <2>1, <2>5
    <3>2. pr \in PendingOf(v)
      BY <3>1 DEF PendingOf
    <3>3. \A qr \in PendingOf(v) : qr = pr
      BY <3>2, <1>h DEF SingleInstance
    <3>4. pr \notin PendingOf(v)'
      BY <2>1 DEF PendingOf
    <3> QED
      BY <3>2, <3>3, <3>4, <2>4
  <2> HIDE DEF due
  <2>6. SingleInstance'
    BY <2>1, <2>2, <2>3, <2>4, <2>5, <1>f, <1>h DEF SingleInstance
  <2>7. QueueInv'
    BY <2>1, <2>2, <1>h DEF QueueInv
  <2> QED
    BY <2>6, <2>7 DEF InstanceInv
<1>13. ASSUME NEW u \in Unit, process_restarts(u)
       PROVE  InstanceInv'
  <2>1. /\ phase' = "run" /\ u \in ready /\ ready' = ready \ {u}
        /\ job'.unit = u
        /\ UNCHANGED <<processes_, exit_callbacks_, pending_restarts_>>
    BY <1>13 DEF process_restarts, BeginStart
  <2>2. \A v : MainProcesses(v)' = MainProcesses(v) /\ PendingOf(v)' = PendingOf(v)
    BY <2>1 DEF MainProcesses, PendingOf, Tracked
  <2>3. MainProcesses(u) = {} /\ PendingOf(u) = {}
    BY <2>1, <1>h DEF SingleInstance
  <2>4. SingleInstance'
    BY <2>1, <2>2, <2>3, <1>h DEF SingleInstance
  <2>5. QueueInv'
    BY <2>1, <1>h DEF QueueInv
  <2> QED
    BY <2>4, <2>5 DEF InstanceInv
<1>14. CASE UNCHANGED vars
  BY <1>14, <1>a, <1>b
<1> QED
  BY <1>b, <1>1, <1>2, <1>3, <1>4, <1>5, <1>6, <1>7, <1>8, <1>9, <1>10, <1>11,
     <1>12, <1>13, <1>14
  DEF Next, Environment, InitThread, Terminated

\* The invariant about instances holds throughout.
LEMMA InstanceInvariant == Spec => []InstanceInv
<1>1. Init => InstanceInv
  <2> SUFFICES ASSUME Init PROVE InstanceInv
    OBVIOUS
  <2>1. \A u : MainProcesses(u) = {} /\ PendingOf(u) = {}
    BY DEF Init, MainProcesses, PendingOf, Tracked, NoProcess, NewProcess
  <2>2. job.unit = None /\ ready = {} /\ pending_restarts_ = {}
    BY DEF Init, NoJob
  <2>3. \A p \in Pid : exit_callbacks_[p] = None
    BY DEF Init
  <2>4. None \notin Unit /\ \A k \in 1..Len(exec_order_) : exec_order_[k] \in Unit
    BY SupervisorAssumption
  <2> QED
    BY <2>1, <2>2, <2>3, <2>4 DEF InstanceInv, SingleInstance, QueueInv
<1>2. TablesInv /\ TypeOK' /\ ControlInv /\ InstanceInv /\ [Next]_vars
        => InstanceInv'
  BY InstanceStep
<1> QED
  BY <1>1, <1>2, TablesInvariant, TypeCorrect, ControlInvariant, PTL
  DEF Spec

\* However exits, restarts and connections interleave, no unit ever has two
\* main processes, and none is queued for a restart while it has one or while
\* start_service is already at work on it.
THEOREM OneInstancePerUnit == Spec => []SingleInstance
<1>1. InstanceInv => SingleInstance
  BY DEF InstanceInv
<1> QED
  BY <1>1, InstanceInvariant, PTL

-------------------------------------------------------------------------------
(* Which processes the loop over exec_order_ reaches                       *)

\* The units that processes may belong to.
KnownUnits == { exec_order_[k] : k \in 1..Len(exec_order_) } \cup PairedUnits

\* Wherever a unit is on its way through the tables, it is a known one; a
\* connection belongs to a paired unit; and the process of any other unit is
\* the one that unit_to_pid_ holds for its name.
NamesInv ==
  /\ \A p \in Tracked : processes_[p].unit_name \in KnownUnits
  /\ \A pr \in pending_restarts_ : pr.unit_name \in KnownUnits
  /\ ready \subseteq KnownUnits
  /\ job.unit \in KnownUnits \cup {None}
  /\ \A p \in Pid : exit_callbacks_[p] # None =>
       processes_[p].unit_name \in PairedUnits
  /\ \A p \in Tracked : processes_[p].unit_name \notin PairedUnits =>
       unit_to_pid_[processes_[p].unit_name] = p

\* The steps that leave the processes alone.
LEMMA QuietNames ==
  ASSUME NamesInv,
         UNCHANGED <<processes_, unit_to_pid_, exit_callbacks_, pending_restarts_>>,
         ready' \subseteq KnownUnits, job'.unit \in KnownUnits \cup {None}
  PROVE  NamesInv'
BY DEF NamesInv, Tracked, KnownUnits, PairedUnits

\* Every step keeps the names in order.
LEMMA NamesStep ==
  ASSUME TablesInv, InstanceInv, NamesInv, [Next]_vars
  PROVE  NamesInv'
<1> USE DEF vars, kernel, tables, flags, control
<1> DEFINE Quiet ==
      /\ UNCHANGED <<processes_, unit_to_pid_, exit_callbacks_, pending_restarts_>>
      /\ ready' \subseteq KnownUnits /\ job'.unit \in KnownUnits \cup {None}
<1>a. KillTargetsAreChildren /\ JobInv
  BY DEF TablesInv
<1>b. processes_ \in [Pid -> TrackedProcess] /\ job \in StartJob
  BY DEF TablesInv, TypeOK
<1>c. exit_callbacks_ \in [Pid -> Socket \cup {None}]
  BY DEF TablesInv, TypeOK
<1>d. unit_to_pid_ \in [Unit -> Pid \cup {None}]
  BY DEF TablesInv, TypeOK
<1>e. None \notin Unit /\ None \notin Socket /\ None \notin Pid
  BY SupervisorAssumption
<1>f. SingleInstance
  BY DEF InstanceInv
<1>g. NoJob.unit = None
  BY DEF NoJob
<1>h. ready \subseteq KnownUnits /\ job.unit \in KnownUnits \cup {None}
  BY DEF NamesInv
<1>i. Quiet => NamesInv'
  BY QuietNames
<1>j. \A x : (x \in PairedUnits)' <=> x \in PairedUnits
  BY DEF PairedUnits
<1>k. \A x : (x \in KnownUnits)' <=> x \in KnownUnits
  BY DEF KnownUnits, PairedUnits
<1>1. ASSUME NEW p, NEW status, Exit(p, status)
      PROVE  Quiet
  BY <1>1, <1>h DEF Exit
<1>2. ASSUME NEW p, Reparent(p) \/ ReapUntracked(p)
      PROVE  Quiet
  BY <1>2, <1>h DEF Reparent, ReapUntracked
<1>3. ASSUME NEW x, Connect(x) \/ SendSignal(x) \/ drain_signals(x)
                    \/ IgnoreSocketEvent(x) \/ RefuseConnection(x)
      PROVE  Quiet
  BY <1>3, <1>h, RefuseStep
  DEF Connect, SendSignal, drain_signals, IgnoreSocketEvent
<1>4. Tick \/ EnterMainLoop \/ Poll \/ DispatchSignals => Quiet
  BY <1>h DEF Tick, EnterMainLoop, Poll, DispatchSignals
<1>5. SignalsDrained \/ ChildrenReaped \/ EventsHandled \/ EndOfIteration
        \/ KillAll => Quiet
  BY <1>h
  DEF SignalsDrained, ChildrenReaped, EventsHandled, EndOfIteration, KillAll
<1>6. CASE RunStartPre \/ WaitStartPre
  <2>1. job'.unit \in {job.unit, None}
    BY <1>6, <1>b, <1>g
    DEF RunStartPre, WaitStartPre, ReturnFromStart, StartJob
  <2>2. UNCHANGED <<ready, tables>>
    BY <1>6 DEF RunStartPre, WaitStartPre
  <2> QED
    BY <2>1, <2>2, <1>h, <1>i
<1>7. CASE UnitExecute
  <2>1. idx \in 1..Len(exec_order_)
    BY <1>7, <1>a DEF UnitExecute, JobInv, TablesInv, TypeOK
  <2>2. exec_order_[idx] \in KnownUnits
    BY <2>1 DEF KnownUnits
  <2>3. job'.unit \in {job.unit, exec_order_[idx]}
    BY <1>7 DEF UnitExecute, BeginStart
  <2>4. UNCHANGED <<ready, tables>>
    BY <1>7 DEF UnitExecute
  <2> QED
    BY <2>2, <2>3, <2>4, <1>h, <1>i
<1>8. ASSUME NEW u \in Unit, process_restarts(u)
      PROVE  Quiet
  BY <1>8, <1>h DEF process_restarts, BeginStart
<1>9. CASE Spawn
  <2>1. job'.unit = None /\ UNCHANGED <<ready, exit_callbacks_, pending_restarts_>>
    BY <1>9, <1>g DEF Spawn, ReturnFromStart
  <2>2. CASE UNCHANGED <<child, processes_, unit_to_pid_, restart_counts_>>
    BY <2>1, <2>2, <1>h, <1>i
  <2>3. CASE ~UNCHANGED <<child, processes_, unit_to_pid_, restart_counts_>>
    <3>1. PICK u \in Unit, p \in Pid, tp \in TrackedProcess :
              /\ u = job.unit
              /\ child[p] = "free"
              /\ tp.unit_name = u
              /\ processes_' = [processes_ EXCEPT ![p] = tp]
              /\ unit_to_pid_' = [unit_to_pid_ EXCEPT ![u] = p]
      BY <1>9, <2>3, SpawnStep
    <3>2. exit_callbacks_[p] = None /\ p \notin Tracked
      BY <3>1, <1>a DEF KillTargetsAreChildren
    <3>3. u \in KnownUnits
      BY <3>1, <1>h, <1>e
    <3>4. \A q \in Pid : q # p => processes_'[q] = processes_[q]
      BY <3>1, <1>b
    <3>5. processes_'[p] = tp
      BY <3>1, <1>b
    <3>6. ASSUME NEW q \in Tracked, processes_[q].unit_name \notin PairedUnits
          PROVE  processes_[q].unit_name # u
      <4>1. exit_callbacks_[q] = None
        BY <3>6 DEF NamesInv, Tracked
      <4>2. MainProcesses(u) = {}
        BY <3>1, <1>f DEF SingleInstance
      <4> QED
        BY <4>1, <4>2 DEF MainProcesses
    <3>7. Tracked' = Tracked \cup {p}
      BY <3>1, <3>4, <3>5, <1>e DEF Tracked
    <3>8. ASSUME NEW q \in Tracked', processes_'[q].unit_name \notin PairedUnits
          PROVE  unit_to_pid_'[processes_'[q].unit_name] = q
      <4>1. CASE q = p
        BY <4>1, <3>1, <3>5, <1>d
      <4>2. CASE q # p
        <5>1. q \in Tracked /\ processes_'[q] = processes_[q] /\ q \in Pid
          BY <4>2, <3>4, <3>7 DEF Tracked
        <5>2. /\ processes_[q].unit_name # u
              /\ unit_to_pid_[processes_[q].unit_name] = q
          BY <5>1, <3>6, <3>8 DEF NamesInv
        <5>3. processes_[q].unit_name \in Unit
          BY <5>1, <1>b DEF Tracked, TrackedProcess
        <5> QED
          BY <5>1, <5>2, <5>3, <3>1, <1>d
      <4> QED
        BY <4>1, <4>2
    <3>9. \A q \in Tracked' : processes_'[q].unit_name \in KnownUnits
      BY <3>1, <3>3, <3>4, <3>5, <3>7 DEF NamesInv, Tracked
    <3>10. \A q \in Pid : exit_callbacks_'[q] # None =>
             processes_'[q].unit_name \in PairedUnits
      BY <3>2, <3>4, <2>1 DEF NamesInv
    <3> QED
      BY <3>8, <3>9, <3>10, <2>1, <1>j, <1>k DEF NamesInv
  <2> QED
    BY <2>2, <2>3
<1>10. ASSUME NEW p \in Pid, ReapTracked(p)
       PROVE  NamesInv'
  <2>1. PICK u \in Unit, tp \in TrackedProcess :
          tp = processes_[p] /\ u = tp.unit_name
    BY <1>10, <1>b DEF ReapTracked, Tracked, TrackedProcess
  <2>2. /\ processes_' = [processes_ EXCEPT ![p] = NoProcess]
        /\ exit_callbacks_' = [exit_callbacks_ EXCEPT ![p] = None]
        /\ unit_to_pid_' = [unit_to_pid_ EXCEPT ![u] = None]
        /\ pending_restarts_' = pending_restarts_ \cup RestartsOf(tp, child[p])
        /\ p \in Tracked /\ UNCHANGED control
    BY <1>10, <2>1 DEF ReapTracked, EraseUnit
  <2>3. NoProcess.unit_name = None
    BY DEF NoProcess, NewProcess
  <2>4. u \in KnownUnits
    BY <2>1, <2>2 DEF NamesInv
  <2>5. \A pr \in RestartsOf(tp, child[p]) : pr.unit_name = u
    BY <2>1 DEF RestartsOf
  <2>6. Tracked' = Tracked \ {p}
    BY <2>2, <2>3, <1>b DEF Tracked
  <2>7. \A q \in Tracked' : q \in Tracked /\ q \in Pid /\ processes_'[q] = processes_[q]
    BY <2>2, <2>6, <1>b DEF Tracked
  <2>8. ASSUME NEW q \in Tracked', processes_'[q].unit_name \notin PairedUnits
        PROVE  unit_to_pid_'[processes_'[q].unit_name] = q
    <3>1. unit_to_pid_[processes_[q].unit_name] = q
      BY <2>7, <2>8 DEF NamesInv
    <3>2. processes_[q].unit_name # u
      <4>1. SUFFICES ASSUME processes_[q].unit_name = u PROVE FALSE
        OBVIOUS
      <4>2. u \notin PairedUnits
        BY <4>1, <2>7, <2>8
      <4>3. unit_to_pid_[u] = p
        BY <4>2, <2>1, <2>2 DEF NamesInv
      <4> QED
        BY <4>1, <4>3, <3>1, <2>6
    <3>3. processes_[q].unit_name \in Unit
      BY <2>7, <1>b DEF Tracked, TrackedProcess
    <3> QED
      BY <3>1, <3>2, <3>3, <2>2, <2>7, <1>d
  <2>9. \A q \in Pid : exit_callbacks_'[q] # None =>
          exit_callbacks_[q] # None /\ processes_'[q] = processes_[q]
    BY <2>2, <1>b, <1>c
  <2>10. \A q \in Tracked' : processes_'[q].unit_name \in KnownUnits
    BY <2>7 DEF NamesInv
  <2>11. \A pr \in pending_restarts_' : pr.unit_name \in KnownUnits
    BY <2>2, <2>4, <2>5 DEF NamesInv
  <2>12. \A q \in Pid : exit_callbacks_'[q] # None =>
           processes_'[q].unit_name \in PairedUnits
    BY <2>9 DEF NamesInv
  <2> QED
    BY <2>2, <2>8, <2>10, <2>11, <2>12, <1>h, <1>j, <1>k DEF NamesInv
<1>11. ASSUME NEW fd \in ListenFd, AcceptConnection(fd)
       PROVE  NamesInv'
  <2>1. PICK s \in Socket, u \in Unit, p \in Pid :
           /\ u = resolve_pair[s]
           /\ child[p] = "free"
           /\ processes_' = [processes_ EXCEPT ![p] = NewProcess(u, "no")]
           /\ unit_to_pid_' = [unit_to_pid_ EXCEPT ![u] = p]
           /\ exit_callbacks_' = [exit_callbacks_ EXCEPT ![p] = s]
    BY <1>11, AcceptStep
  <2>2. UNCHANGED <<ready, job, pending_restarts_>>
    BY <1>11 DEF AcceptConnection, TakeConnection
  <2>3. u \in PairedUnits /\ u \in KnownUnits
    BY <2>1, <1>e DEF PairedUnits, KnownUnits
  <2>4. NewProcess(u, "no").unit_name = u
    BY DEF NewProcess
  <2>5. processes_'[p].unit_name = u
    BY <2>1, <2>4, <1>b
  <2>6. \A q \in Pid : q # p => /\ processes_'[q] = processes_[q]
                                 /\ exit_callbacks_'[q] = exit_callbacks_[q]
    BY <2>1, <1>b, <1>c
  <2>7. ASSUME NEW q \in Tracked', processes_'[q].unit_name \notin PairedUnits
        PROVE  unit_to_pid_'[processes_'[q].unit_name] = q
    <3>1. q \in Pid /\ q # p
      BY <2>3, <2>5, <2>7 DEF Tracked
    <3>2. q \in Tracked /\ processes_'[q] = processes_[q]
      BY <3>1, <2>6, <2>7 DEF Tracked
    <3>3. unit_to_pid_[processes_[q].unit_name] = q
      BY <3>2, <2>7 DEF NamesInv
    <3>4. processes_[q].unit_name \in Unit /\ processes_[q].unit_name # u
      BY <3>1, <3>2, <2>3, <2>7, <1>b DEF Tracked, TrackedProcess
    <3> QED
      BY <3>2, <3>3, <3>4, <2>1, <1>d
  <2>8. \A q \in Tracked' : processes_'[q].unit_name \in KnownUnits
    BY <2>3, <2>5, <2>6 DEF NamesInv, Tracked
  <2>9. \A q \in Pid : exit_callbacks_'[q] # None =>
          processes_'[q].unit_name \in PairedUnits
    BY <2>3, <2>5, <2>6 DEF NamesInv
  <2> QED
    BY <2>2, <2>7, <2>8, <2>9, <1>h, <1>j, <1>k DEF NamesInv
<1>12. CASE StopUnits
  <2>1. \A p \in Pid : processes_'[p].unit_name = processes_[p].unit_name
    BY <1>12, <1>b DEF StopUnits, TrackedProcess
  <2>2. UNCHANGED <<ready, job, unit_to_pid_, exit_callbacks_, pending_restarts_>>
    BY <1>12 DEF StopUnits
  <2>3. Tracked' = Tracked /\ Tracked \subseteq Pid
    BY <2>1 DEF Tracked
  <2> QED
    BY <2>1, <2>2, <2>3, <1>j, <1>k DEF NamesInv
<1>13. CASE drain_pending_restarts
  <2>1. ready' \subseteq KnownUnits
    BY <1>13 DEF drain_pending_restarts, NamesInv
  <2>2. /\ pending_restarts_' \subseteq pending_restarts_
        /\ UNCHANGED <<processes_, unit_to_pid_, exit_callbacks_, job>>
    BY <1>13 DEF drain_pending_restarts, Remaining
  <2>3. Tracked' = Tracked
    BY <2>2 DEF Tracked
  <2> QED
    BY <2>1, <2>2, <2>3, <1>j, <1>k DEF NamesInv
<1>14. UNCHANGED vars => Quiet
  BY <1>h
<1> QED
  BY <1>i, <1>1, <1>2, <1>3, <1>4, <1>5, <1>6, <1>7, <1>8, <1>9, <1>10, <1>11,
     <1>12, <1>13, <1>14
  DEF Next, Environment, InitThread, Terminated

\* The names are in order throughout.
LEMMA NamesInvariant == Spec => []NamesInv
<1>1. Init => NamesInv
  <2> SUFFICES ASSUME Init PROVE NamesInv
    OBVIOUS
  <2>1. Tracked = {}
    BY DEF Init, Tracked, NoProcess, NewProcess
  <2> QED
    BY <2>1 DEF Init, NamesInv, NoJob
<1>2. TablesInv /\ InstanceInv /\ NamesInv /\ [Next]_vars => NamesInv'
  BY NamesStep
<1> QED
  BY <1>1, <1>2, TablesInvariant, InstanceInvariant, PTL DEF Spec

-------------------------------------------------------------------------------
(* Stopping the services                                                   *)

\* Every step keeps the promise that what is still tracked was sent SIGTERM.
LEMMA GracefulStep ==
  ASSUME TablesInv, ControlInv, NamesInv, GracefulStop, [Next]_vars
  PROVE  GracefulStop'
<1> USE DEF vars, kernel, tables, flags, control
<1> DEFINE Late == phase \in {"grace", "final", "done"}
           Quiet == UNCHANGED <<processes_, termed>> /\ (Late' => Late)
<1>a. processes_ \in [Pid -> TrackedProcess]
  BY DEF TablesInv, TypeOK
<1>b. \A x : (x \in PairedUnits)' <=> x \in PairedUnits
  BY DEF PairedUnits
<1>c. Late => pc \in {"poll", "dispatch", "drain", "reap", "stop"}
  BY DEF ControlInv
<1>d. Quiet => GracefulStop'
  BY <1>b DEF GracefulStop, Tracked
<1>1. ASSUME NEW p, NEW status, Exit(p, status)
      PROVE  Quiet
  BY <1>1 DEF Exit
<1>2. ASSUME NEW p, Reparent(p) \/ ReapUntracked(p)
      PROVE  Quiet
  BY <1>2 DEF Reparent, ReapUntracked
<1>3. ASSUME NEW x, Connect(x) \/ SendSignal(x) \/ drain_signals(x)
                    \/ IgnoreSocketEvent(x) \/ RefuseConnection(x)
                    \/ process_restarts(x)
      PROVE  Quiet
  BY <1>3, RefuseStep
  DEF Connect, SendSignal, drain_signals, IgnoreSocketEvent, process_restarts
<1>4. Tick \/ Poll \/ DispatchSignals \/ SignalsDrained \/ ChildrenReaped
        \/ EndOfIteration \/ drain_pending_restarts => Quiet
  BY DEF Tick, Poll, DispatchSignals, SignalsDrained, ChildrenReaped,
         EndOfIteration, drain_pending_restarts
<1>5. EnterMainLoop \/ UnitExecute \/ RunStartPre \/ WaitStartPre => Quiet
  BY DEF EnterMainLoop, UnitExecute, RunStartPre, WaitStartPre
<1>6. EventsHandled \/ KillAll => Quiet
  BY DEF EventsHandled, KillAll
<1>7. ASSUME Spawn \/ \E fd \in ListenFd : AcceptConnection(fd)
      PROVE  GracefulStop'
  <2>1. phase' = phase /\ ~Late
    BY <1>7, <1>c DEF Spawn, AcceptConnection, TakeConnection, Accepts
  <2> QED
    BY <2>1 DEF GracefulStop
<1>8. ASSUME NEW p \in Pid, ReapTracked(p)
      PROVE  GracefulStop'
  <2>1. /\ processes_' = [processes_ EXCEPT ![p] = NoProcess]
        /\ termed' = termed \ {p} /\ phase' = phase
    BY <1>8 DEF ReapTracked
  <2>2. NoProcess.unit_name = None
    BY DEF NoProcess, NewProcess
  <2>3. \A q \in Tracked' : q \in Tracked /\ q # p /\ processes_'[q] = processes_[q]
    BY <2>1, <2>2, <1>a DEF Tracked
  <2> QED
    BY <2>1, <2>3, <1>b DEF GracefulStop
<1>9. CASE StopUnits
  <2>1. termed' = termed \cup StopTargets
    BY <1>9 DEF StopUnits
  <2>2. \A p \in Pid : processes_'[p].unit_name = processes_[p].unit_name
    BY <1>9, <1>a DEF StopUnits, TrackedProcess
  <2>3. ASSUME NEW p \in Tracked', processes_'[p].unit_name \notin PairedUnits
        PROVE  p \in StopTargets
    <3>1. p \in Pid /\ p \in Tracked /\ processes_[p].unit_name \notin PairedUnits
      BY <2>2, <2>3 DEF Tracked
    <3>2. /\ processes_[p].unit_name \in KnownUnits
          /\ unit_to_pid_[processes_[p].unit_name] = p
      BY <3>1 DEF NamesInv
    <3>3. PICK k \in 1..Len(exec_order_) : exec_order_[k] = processes_[p].unit_name
      BY <3>1, <3>2 DEF KnownUnits
    <3>4. p # None
      BY <3>1, SupervisorAssumption
    <3> QED
      BY <3>2, <3>3, <3>4 DEF StopTargets
  <2> QED
    BY <2>1, <2>3, <1>b DEF GracefulStop
<1>10. UNCHANGED vars => Quiet
  OBVIOUS
<1> HIDE DEF Quiet
<1> QED
  BY <1>d, <1>1, <1>2, <1>3, <1>4, <1>5, <1>6, <1>7, <1>8, <1>9, <1>10
  DEF Next, Environment, InitThread, Terminated

\* The loop over exec_order_ that calls stop_unit reaches every process: from
\* the grace period on everything still tracked was sent SIGTERM, whatever
\* was started, restarted or reaped before, save the processes that share the
\* one entry of their name in unit_to_pid_ with connections.
THEOREM StoppedGracefully == Spec => []GracefulStop
<1>1. Init => GracefulStop
  BY DEF Init, GracefulStop
<1>2. TablesInv /\ ControlInv /\ NamesInv /\ GracefulStop /\ [Next]_vars
        => GracefulStop'
  BY GracefulStep
<1> QED
  BY <1>1, <1>2, TablesInvariant, ControlInvariant, NamesInvariant, PTL DEF Spec

\* What EndOfIteration sees when it decides to chown: no process of sysusers
\* is tracked, unless connections share the name.
LEMMA ChownStep ==
  ASSUME NamesInv, [Next]_vars, runtime_dirs_chowned_' # runtime_dirs_chowned_,
         runtime_dirs_chowned_ \in BOOLEAN
  PROVE  /\ phase = "run"
         /\ \A p \in Tracked :
              processes_[p].unit_name = SysUsers => SysUsers \in PairedUnits
<1> USE DEF vars, kernel, tables, flags, control
<1>1. ASSUME NEW p, NEW status, Exit(p, status)
      PROVE  FALSE
  BY <1>1 DEF Exit
<1>2. ASSUME NEW p, Reparent(p) \/ ReapUntracked(p) \/ ReapTracked(p)
      PROVE  FALSE
  BY <1>2 DEF Reparent, ReapUntracked, ReapTracked
<1>3. ASSUME NEW x, Connect(x) \/ SendSignal(x) \/ drain_signals(x)
                    \/ IgnoreSocketEvent(x) \/ RefuseConnection(x)
                    \/ AcceptConnection(x) \/ process_restarts(x)
      PROVE  FALSE
  BY <1>3, RefuseStep
  DEF Connect, SendSignal, drain_signals, IgnoreSocketEvent, AcceptConnection,
      TakeConnection, process_restarts
<1>4. Tick \/ Poll \/ DispatchSignals \/ SignalsDrained \/ ChildrenReaped
        \/ drain_pending_restarts \/ EventsHandled \/ KillAll \/ StopUnits => FALSE
  BY DEF Tick, Poll, DispatchSignals, SignalsDrained, ChildrenReaped,
         drain_pending_restarts, EventsHandled, KillAll, StopUnits
<1>5. EnterMainLoop \/ UnitExecute \/ RunStartPre \/ WaitStartPre \/ Spawn => FALSE
  BY DEF EnterMainLoop, UnitExecute, RunStartPre, WaitStartPre, Spawn
<1>6. UNCHANGED vars => FALSE
  OBVIOUS
<1>7. EndOfIteration
  BY <1>1, <1>2, <1>3, <1>4, <1>5, <1>6
  DEF Next, Environment, InitThread, Terminated
<1>8. phase = "run" /\ SysUsersGone
  BY <1>7 DEF EndOfIteration, SysUsersGone
<1>9. ASSUME NEW p \in Tracked, processes_[p].unit_name = SysUsers,
             SysUsers \notin PairedUnits
      PROVE  FALSE
  <2>1. unit_to_pid_[SysUsers] = p /\ p \in Pid
    BY <1>9 DEF NamesInv, Tracked
  <2> QED
    BY <2>1, <1>8, SupervisorAssumption DEF SysUsersGone
<1> QED
  BY <1>8, <1>9

\* maybe_fix_runtime_dirs never fires while a process of systemd-sysusers is
\* tracked: the entry it misses in unit_to_pid_ is there as long as the
\* process is, unless connections have overwritten it.
THEOREM NoEarlyChown == Spec => ChownNotWhileSysUsersRuns
<1> DEFINE Absent ==
      /\ phase = "run"
      /\ \A p \in Tracked :
           processes_[p].unit_name = SysUsers => SysUsers \in PairedUnits
<1>1. TypeOK /\ NamesInv /\ [Next]_vars
        => [runtime_dirs_chowned_' # runtime_dirs_chowned_ => Absent]_vars
  BY ChownStep DEF TypeOK
<1>2. Spec => [][runtime_dirs_chowned_' # runtime_dirs_chowned_ => Absent]_vars
  BY <1>1, TypeCorrect, NamesInvariant, PTL DEF Spec
<1> QED
  BY <1>2 DEF ChownNotWhileSysUsersRuns
===============================================================================
