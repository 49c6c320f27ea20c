SPECIFICATION Spec
CONSTANTS
  Unit <- MCUnit
  Name <- MCName
  AfterOf <- MCAfter
  RequiresOf <- MCRequires
  BeforeOf <- NoLists
INVARIANTS
  InDegreeIsOpenEdges
  OnlyCyclesLeftOut
PROPERTIES
  ImplementsStartOrder
