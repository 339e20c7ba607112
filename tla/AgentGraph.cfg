SPECIFICATION GraphSpec
CONSTANTS
  Plans <- PlanChoices
  MaxIterations = 4
  MaxReplanAttempts = 3
  RecursionLimit = 13
INVARIANTS RunAnswers StepsInTurn
CHECK_DEADLOCK FALSE
