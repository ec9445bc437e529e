CONSTANTS
  Key = {1, 2, 3}
  Ticket = {9}
  PlanFile <- FixedPlans
  Board <- MCBoards
  LastDay = 3
  MaxLoads = 2
  Tolerance = 1
  Horizon = 1
SPECIFICATION Spec
INVARIANT FixedPlanBuilds
