SPECIFICATION FairSpec
CONSTANTS
  Plans = {"plus", "pro"}
  Prices <- MCPrices
  Allowance <- MCAllowance
  Bonus = 1
  Costs = {2}
  MaxEvents = 2
  MaxMonth = 2
  MaxFaults = 1
INVARIANTS
  TypeOK
  CreditsFitPlan
  OneRefreshPerMonth
  PlanFollowsStripe
PROPERTIES
  EveryEventIsAcked
CHECK_DEADLOCK FALSE
