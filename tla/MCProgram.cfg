\* The programs from start to exit.
SPECIFICATION Spec
CONSTANTS
  Name <- MCName
  RuntimeUser = {"net"}
  MaxFailures = 1
  units = 3
  Height = {7, 11, 18}
  MaxEntries = 4
  MaxScroll = 2
  Host <- MCHost
  Unescaped <- MCUnescaped
  all_units <- MCAllUnits
  Present <- MCPresent
  SunPath = 4
  Terminal <- MCTerminal
  mount_units <- MCMountUnits
INVARIANTS
  EarlyMountsUndone
  NoMountOverMount
  RuntimeDirsVisible
  SocketNodesRemoved
  SelectionVisible
  NewestEntriesShown
  CleanExit
PROPERTIES
  RefusedOnlyWhereCovered
