SPECIFICATION FairSpec

CONSTANTS
  Writer = {w1}
  Reader = {}
  Kind = {extension, trunk}
  Key = {1, 2}
  MaxLen = 3
  MaxID = 3

INVARIANTS
  PlanIsRecord

PROPERTIES
  ImplementsRegistry
  HiddenComesBack
