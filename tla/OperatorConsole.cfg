SPECIFICATION ConsoleSpec

CONSTANTS
  Writer = {w1}
  Reader = {r1}
  Kind = {"queues"}
  Key = {1, 2}
  MaxLen = 2
  MaxID = 2
  Technology = {"pjsip"}
  Ref = {1, 2}
  TechnologyOf <- AllPJSIP
  Inventory <- SmallInventory
  Busy <- Bare
  Reported <- FewReports
  Asked <- FewCalls

VIEW WithoutAcked

INVARIANTS
  ListedSurfaceOpens
  SurfacesWereTrue
  PreviewsWereTrue
  PreviewedPlanIsServed
