SPECIFICATION Spec
CONSTANTS
  c1 = c1
  c2 = c2
  h1 = h1
  Chats = {c1, c2}
  Commands = {h1}
  PageSize = 4
  MaxInputs = 3
  MaxApprovals = 2
  MaxFailures = 1
SYMMETRY Symmetry
INVARIANTS OneOpenApproval  GrantReachesItsRun
CHECK_DEADLOCK FALSE
