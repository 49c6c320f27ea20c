\* Progress: reaping, due restarts and the shutdown.  No symmetry, no orphans.
SPECIFICATION FairSpec
CONSTANTS
  p1 = p1
  p2 = p2
  p3 = p3
  o1 = o1
  None = None
  Unit <- LiveUnits
  units_ <- LiveFiles
  exec_order_ <- LiveOrder
  Pid = {p1, p2}
  OrphanPid = {}
  Socket = {"a.socket"}
  ListenFd = {"fd5"}
  fd_to_socket_ <- LiveFdToSocket
  resolve_pair <- LivePair
  max_conn <- LiveMaxConn
  SysUsers = None
  Signals = {"TERM"}
  IsPid1 = TRUE
  MaxBacklog = 1
  GracePolls = 1
  MaxTime = 2
  kBaseDelay = 1
  kMaxDelay = 1
INVARIANTS
  KillTargetsAreChildren
  SingleInstance
PROPERTIES
  ZombiesReaped
  DueRestartAttempted
  ShutdownCompletes
