---------------------------- MODULE MCEventEngine ----------------------------
(* Instances of EventEngine for TLC. *)
EXTENDS EventEngine, TLC

CONSTANT s

\* Both handlers in the server, or the second in an execution plane.
Spreads == {f \in [Handlers -> Engines] : f["h1"] = "server"}
\* A risky rule that listens to everything, with a dedupe window and a cooldown, and one
\* of unknown mode with a budget.
RuleSet == [r \in Rules |->
  IF r = "risky"
  THEN [types |-> Types, mode |-> "auto", risky |-> TRUE, dedupe |-> 1, cooldown |-> 1, budget |-> 0]
  ELSE [types |-> {"outside"}, mode |-> "other", risky |-> FALSE, dedupe |-> 0, cooldown |-> 0, budget |-> 1]]
ByPriority == [r \in Rules |-> IF r = "risky" THEN 1 ELSE 2]
EveryRule == {Rules}

\* Handlers, engines, keys and verdicts are alike and a crash of an idle engine changes
\* nothing: the first to start may be h1 with a keyed event, verdicts may be approvals,
\* and only a busy engine crashes.
Representative ==
  /\ count.starts = 0 => stack'["h2"] = <<>> /\ \A e \in DOMAIN events' : events'[e].key = "k"
  /\ \A e \in DOMAIN events' : events'[e].type # "approval.rejected"
  /\ count'.crashes > count.crashes => <<stack, budget>>' # <<stack, budget>>
FairOrderedSpec == Init /\ [][Next /\ Representative]_vars /\ Fairness
=============================================================================
