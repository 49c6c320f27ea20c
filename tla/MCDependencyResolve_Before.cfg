SPECIFICATION Spec
CONSTANTS
  Unit <- MCUnit
  Name <- MCName
  AfterOf <- NoLists
  RequiresOf <- NoLists
  BeforeOf <- BeforeLists
INVARIANTS
  BeforeHonoured
