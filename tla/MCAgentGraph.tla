----------------------------- MODULE MCAgentGraph -----------------------------
(* Instances of AgentGraph for TLC. *)
EXTENDS AgentGraph

Step(tool, parallel) == [tool |-> tool, parallel |-> parallel]
One == Step("other", FALSE)
Both == Step("other", TRUE)

\* No steps, steps without a tool, one by one, in parallel, a forced order, and one more
\* step than the iterations reach.
PlanChoices ==
  {[steps |-> <<>>, delegable |-> FALSE],
   [steps |-> <<Step("none", FALSE), Step("none", FALSE)>>, delegable |-> TRUE],
   [steps |-> <<Step("none", FALSE)>>, delegable |-> FALSE],
   [steps |-> <<Both, One, Both>>, delegable |-> FALSE],
   [steps |-> <<Step("search", TRUE), Step("code", TRUE), One>>, delegable |-> FALSE],
   [steps |-> <<One, One, One, One, One>>, delegable |-> FALSE]}
=============================================================================
