CONSTANTS
  Key = {1, 2, 3}
  Ticket = {9}
  PlanFile <- MCPlans
  Board <- MCBoards
  LastDay = 3
  MaxLoads = 1
  Tolerance = 1
  Horizon = 1
SPECIFICATION Spec
INVARIANTS
  TypeOK
  CycleIffStuck
  ParentsFirst
  SlipIsWorstUpstream
  FlaggedIffLate
  SlipNeverHeals
