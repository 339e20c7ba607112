CONSTANTS
  Engines = {"server", "plane"}
  s = s
  Handlers = {"h1", "h2"}
  Homes <- Spreads
  Rules = {"risky", "any"}
  Place <- ByPriority
  Rule <- RuleSet
  Subjects = {s}
  Keys = {"k", "no one"}
  Meets <- EveryRule
  DayLength = 1
  MaxStarts = 2
  MaxTroubles = 1
  MaxTime = 1
SPECIFICATION FairOrderedSpec
INVARIANTS TypeOK SuppressionHolds BudgetHolds NoneLeftOut
CHECK_DEADLOCK FALSE
PROPERTIES HandlersFinish
