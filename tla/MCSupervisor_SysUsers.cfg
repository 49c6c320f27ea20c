\* What fix_runtime_dir_ownership's comment says of systemd-sysusers.
SPECIFICATION Spec
CONSTANTS
  p1 = p1
  p2 = p2
  p3 = p3
  o1 = o1
  None = None
  Unit <- BootUnits
  units_ <- BootFiles
  exec_order_ <- BootOrder
  Pid = {p1, p2}
  OrphanPid = {}
  Socket = {"bare.socket", "lone.socket"}
  ListenFd = {"fd5", "fd6", "fd7"}
  fd_to_socket_ <- BootFdToSocket
  resolve_pair <- BootPair
  max_conn <- BootMaxConn
  SysUsers = "systemd-sysusers.service"
  Signals = {"USR1"}
  IsPid1 = FALSE
  MaxBacklog = 1
  GracePolls = 1
  MaxTime = 1
  kBaseDelay = 1
  kMaxDelay = 1
SYMMETRY PidSymmetry
INVARIANTS
  ChownAfterSysUsersSucceeded
