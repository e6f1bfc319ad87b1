SPECIFICATION FairPlanSpec
CONSTANTS
  p1 = p1
  p2 = p2
  r1 = r1
  r2 = r2
  Plan = {p1, p2}
  Root = {r1, r2}
  RootsOf <- MCRootsOf
  Base = Base
  Foreign = Foreign
  NoPlan = NoPlan
  NoContent = NoContent
  MaxEdits = 2
INVARIANTS OutcomesAgree
PROPERTIES RootsKeepPromise PlanKeepsPromise PlanSettles
CHECK_DEADLOCK FALSE
