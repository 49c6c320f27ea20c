SPECIFICATION Spec
CONSTANTS
  kUnitSearchPaths <- MCPaths
  FileName <- MCNames
  is_supported <- MCSupported
  WantsDir = {"getty.target.wants"}
  Target = {"getty@.service"}
  None = None
INVARIANTS
  HighestPriorityWins
  EnabledUnitsFound
