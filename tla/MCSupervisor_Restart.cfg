\* Restart logic, SIGCHLD coalescing, ExecStartPre, orphans, shutdown.
SPECIFICATION Spec
CONSTANTS
  p1 = p1
  p2 = p2
  p3 = p3
  o1 = o1
  None = None
  Unit <- RestartUnits
  units_ <- RestartFiles
  exec_order_ <- RestartOrder
  Pid = {p1, p2}
  OrphanPid = {o1}
  Socket = {}
  ListenFd = {}
  fd_to_socket_ <- NoSockets
  resolve_pair <- NoSockets
  max_conn <- NoSockets
  SysUsers = None
  Signals = {"TERM"}
  IsPid1 = TRUE
  MaxBacklog = 0
  GracePolls = 1
  MaxTime = 4
  kBaseDelay = 1
  kMaxDelay = 3
SYMMETRY PidSymmetry
INVARIANTS
  KillTargetsAreChildren
  NoLostSigchld
  SingleInstance
  RestartHistoryKept
  BurstBound
  BackoffHonoured
PROPERTIES
  RestartNotLost
