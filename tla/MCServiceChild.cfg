\* A service or a connection from its unit file to exec.
SPECIFICATION ServiceSpec
CONSTANTS
  SocketUnit <- MCSocketUnit
  listen <- MCListen
  accept <- MCAccept
  Service = {"x.service", "y.service", "z.service"}
  pairs_with <- MCPairs
  FirstFd = 5
  None = None
  User = {"app", "new"}
  uid_of <- MCUidOf
  gid_of <- MCGidOf
  number <- MCNumber
  Ids = 10
  ULong = 20
  Inherited = {"USER"}
  Unescaped <- MCUnescaped
  files <- MCFiles
  conn_files <- MCConnFiles
  written <- MCWritten
  Known = {"app"}
INVARIANTS
  NoForeignDescriptor
  OrderedActivation
  AllOrNoPrivileges
  OwnsRuntimeDirectory
  ArgumentsAsWritten
  EnvironmentAsWritten
