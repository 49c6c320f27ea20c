SPECIFICATION Spec
CONSTANTS
  SocketUnit <- MCSocketUnit
  listen <- MCListen
  accept <- MCAccept
  Service = {"x.service", "y.service", "z.service"}
  pairs_with <- MCPairs
  FirstFd = 5
  None = None
INVARIANTS
  NamesMatchDescriptors
