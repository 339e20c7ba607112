------------------------------ MODULE AgentGraph ------------------------------
(***************************************************************************)
(* One run of the agent graph: start, plan, act or delegate, observe, and  *)
(* from there back to plan, on to act, or to reflect and respond.          *)
(*                                                                         *)
(* Each node is one super-step of the graph library, which stops a run     *)
(* that takes more than RecursionLimit of them.  What the language model   *)
(* answers and what a tool returns are arbitrary members of small sets.    *)
(*                                                                         *)
(* Abstracted: prompts, memory, events to the user, the rewriting of the   *)
(* tools of a plan, and the evolution of skills after the reflection.  A   *)
(* success without a result is a success the observer lets pass.           *)
(***************************************************************************)
EXTENDS Naturals, FiniteSets, Sequences

CONSTANTS
  Plans,             \* the plans the language model may propose
  MaxIterations,     \* observations of a run, 10 in the code
  MaxReplanAttempts, \* observations after which failures no longer replan, 3 in the code
  RecursionLimit     \* super-steps of the graph library, 25 by default

Tools == {"none", "search", "code", "other"}
PlanSet == [steps : Seq([tool : Tools, parallel : BOOLEAN]), delegable : BOOLEAN]

ASSUME GraphAssumption ==
  /\ Plans \subseteq PlanSet
  /\ {MaxIterations, MaxReplanAttempts, RecursionLimit} \subseteq Nat
  /\ MaxIterations > 0
  /\ RecursionLimit >= 2 * MaxIterations + 5

VARIABLES
  able,       \* what the run was configured with
  node,       \* the node to run next, or how the run ended
  plan,       \* the plan of the round, with the index of the step it stands at
  pending,    \* the numbers of the steps to execute next, in the order of the plan
  outcomes,   \* the outcomes of all actions of the run
  iteration,  \* observations so far
  error,      \* whether a node reported an error
  steps,      \* super-steps so far
  planned,    \* plans asked for
  ran,        \* the steps of the plan that were executed, in order, with their outcomes
  refused     \* the observer asked for a new plan and the observation raised

graphVars == <<able, node, plan, pending, outcomes, iteration, error, steps, planned, ran, refused>>

Ends == {"answered", "apologised", "raised"}
Succeeds == {"ok", "file"}
Failures == {"failed", "recoverable"}
NoPlan == [steps |-> <<>>, delegable |-> FALSE, index |-> 1]

GraphInit ==
  /\ able \in [llm : BOOLEAN, executor : BOOLEAN, delegator : BOOLEAN]
  /\ node = "start" /\ plan = NoPlan /\ pending = {}
  /\ outcomes = {} /\ iteration = 0 /\ error = FALSE
  /\ steps = 0 /\ planned = 0 /\ ran = <<>> /\ refused = FALSE

\* A node runs if the library still allows a super-step.
AtNode(n) == node = n /\ steps < RecursionLimit /\ steps' = steps + 1

OutOfSteps ==
  /\ node \notin Ends /\ steps = RecursionLimit
  /\ node' = "raised"
  /\ UNCHANGED <<able, plan, pending, outcomes, iteration, error, steps, planned, ran, refused>>

-----------------------------------------------------------------------------
(* start and plan *)

Start ==
  /\ AtNode("start")
  /\ iteration' = 0
  /\ node' = "plan"
  /\ UNCHANGED <<able, plan, pending, outcomes, error, planned, ran, refused>>

RouteAfterPlan(p) ==
  IF error THEN "respond"
  ELSE IF \E i \in DOMAIN p.steps : p.steps[i].tool # "none" THEN "act"
  ELSE IF p.delegable THEN "delegate" ELSE "respond"

\* A plan of the language model; a plan with steps begins a new round.
Plan(p) ==
  /\ AtNode("plan") /\ able.llm
  /\ plan' = [steps |-> p.steps, delegable |-> p.delegable, index |-> 1]
  /\ pending' = DOMAIN p.steps
  /\ planned' = planned + 1 /\ ran' = <<>>
  /\ node' = RouteAfterPlan(p)
  /\ UNCHANGED <<able, outcomes, iteration, error, refused>>

\* No language model, an exception, or a plan whose skills are not declared three times.
PlanFails ==
  /\ AtNode("plan")
  /\ error' = TRUE /\ planned' = planned + 1
  /\ node' = "respond"
  /\ UNCHANGED <<able, plan, pending, outcomes, iteration, ran, refused>>

-----------------------------------------------------------------------------
(* act and delegate *)

StepOf(i) == plan.steps[i]
Mixed == /\ \E i \in pending : StepOf(i).tool = "search"
         /\ \E i \in pending : StepOf(i).tool = "code"
Parallel == IF Mixed THEN {} ELSE {i \in pending : StepOf(i).parallel}
Sequential == pending \ Parallel

\* The steps that follow each other up to the first that fails.
UpToFailure(queue, outcome) == {i \in queue : \A j \in queue : j < i => outcome[j] \in Succeeds}

\* The numbers of a set in their order.
InOrder(S) == [k \in 1..Cardinality(S) |-> CHOOSE i \in S : Cardinality({j \in S : j <= i}) = k]

Smaller(a, b) == IF a < b THEN a ELSE b
Successes(executed, outcome) == Cardinality({i \in executed : outcome[i] \in Succeeds})

\* Variant for sensitivity: the index moves past the last success.
NextIndexPast(executed, outcome) == Smaller(Len(plan.steps), plan.index + Successes(executed, outcome))

\* The index moves by the number of actions that succeeded.
NextIndex(executed, outcome) ==
  IF Successes(executed, outcome) = 0 THEN plan.index
  ELSE Smaller(Len(plan.steps), plan.index + Successes(executed, outcome) - 1)

\* The parallel actions, then the others until one fails.
Act ==
  /\ AtNode("act") /\ able.executor
  /\ \E outcome \in [pending -> Succeeds \cup Failures] :
       LET tried == UpToFailure(Sequential, outcome)
           order == InOrder(Parallel) \o InOrder(tried)
       IN /\ outcomes' = outcomes \cup {outcome[i] : i \in Parallel \cup tried}
          /\ ran' = ran \o [k \in DOMAIN order |-> [step |-> order[k], ok |-> outcome[order[k]] \in Succeeds]]
          /\ plan' = [plan EXCEPT !.index = NextIndex(Parallel \cup tried, outcome)]
          /\ pending' = Sequential \ tried
  /\ node' = "observe"
  /\ UNCHANGED <<able, iteration, error, planned, refused>>

\* Without an executor nothing runs, and the run observes all the same.
ActUnconfigured ==
  /\ AtNode("act") /\ ~ able.executor
  /\ error' = TRUE /\ pending' = {}
  /\ node' = "observe"
  /\ UNCHANGED <<able, plan, outcomes, iteration, planned, ran, refused>>

\* A sub-agent does the task, fails, or is not there: the index stays.
Delegate ==
  /\ AtNode("delegate")
  /\ \E outcome \in IF able.delegator THEN {"ok", "failed"} ELSE {"failed"} :
       outcomes' = outcomes \cup {outcome}
  /\ node' = "observe"
  /\ UNCHANGED <<able, plan, pending, iteration, error, planned, ran, refused>>

-----------------------------------------------------------------------------
(* observe *)

\* Variant for sensitivity: one observation more than allowed.
ExhaustedLate == iteration + 1 > MaxIterations

Exhausted == iteration + 1 >= MaxIterations
Early == iteration + 1 < MaxReplanAttempts
AllFailed == outcomes # {} /\ outcomes \subseteq Failures
MustReplan == Early /\ (AllFailed \/ "recoverable" \in outcomes)
MoreSteps == plan.index < Len(plan.steps)

RouteAfterObserve(outcome) ==
  IF outcome \in {"replan_current_round", "plan_next_round"} THEN "plan"
  ELSE IF outcome = "continue_execution" THEN "act" ELSE "reflect"

Observed(outcome) ==
  /\ iteration' = iteration + 1
  /\ node' = RouteAfterObserve(outcome)
  /\ UNCHANGED <<able, outcomes, error, planned, ran, refused>>

\* The observer is asked while something has succeeded, on early iterations only.
Asked == ~ Exhausted /\ ~ MustReplan /\ MoreSteps /\ Early /\ outcomes \cap Succeeds # {}

ObserveReplans ==
  /\ AtNode("observe") /\ ~ Exhausted /\ MustReplan
  /\ Observed("replan_current_round")
  /\ UNCHANGED <<plan, pending>>

\* The observer wants a new plan: its message reads a name that is bound only later, and
\* the exception ends the run.
ObserverRefuses ==
  /\ AtNode("observe") /\ Asked
  /\ refused' = TRUE
  /\ node' = "raised"
  /\ UNCHANGED <<able, plan, pending, outcomes, iteration, error, planned, ran>>

\* The next step, alone.
Advance ==
  /\ plan' = [plan EXCEPT !.index = @ + 1]
  /\ pending' = {plan.index + 1}

ObserveContinues ==
  /\ AtNode("observe") /\ ~ Exhausted /\ ~ MustReplan /\ MoreSteps
  /\ Advance
  /\ Observed("continue_execution")

\* Another skill goes on with the files of this round.
ObserveNextRound ==
  /\ AtNode("observe") /\ ~ Exhausted /\ ~ MustReplan /\ ~ MoreSteps /\ "file" \in outcomes
  /\ Observed("plan_next_round")
  /\ UNCHANGED <<plan, pending>>

\* The limit, the observer, or the end of the plan.
ObserveCompletes ==
  /\ AtNode("observe") /\ (Exhausted \/ Asked \/ (~ MustReplan /\ ~ MoreSteps))
  /\ Observed("task_completed")
  /\ UNCHANGED <<plan, pending>>

-----------------------------------------------------------------------------
(* reflect and respond *)

Reflect ==
  /\ AtNode("reflect")
  /\ node' = "respond"
  /\ UNCHANGED <<able, plan, pending, outcomes, iteration, error, planned, ran, refused>>

Respond ==
  /\ AtNode("respond")
  /\ node' = IF error THEN "apologised" ELSE "answered"
  /\ UNCHANGED <<able, plan, pending, outcomes, iteration, error, planned, ran, refused>>

Observe == ObserveReplans \/ ObserverRefuses \/ ObserveContinues \/ ObserveNextRound \/ ObserveCompletes
Node ==
  \/ Start \/ (\E p \in Plans : Plan(p)) \/ PlanFails
  \/ Act \/ ActUnconfigured \/ Delegate
  \/ Observe \/ Reflect \/ Respond

GraphNext == Node \/ OutOfSteps

GraphSpec == GraphInit /\ [][GraphNext]_graphVars

-----------------------------------------------------------------------------
(* Properties *)

Nodes == {"start", "plan", "act", "delegate", "observe", "reflect", "respond"} \cup Ends

\* Every variable stays in its set; the index stays in the plan, although it is moved by
\* counting results (nodes.py:3051-3065).
GraphTypeOK ==
  /\ able \in [llm : BOOLEAN, executor : BOOLEAN, delegator : BOOLEAN]
  /\ node \in Nodes
  /\ plan.steps \in Seq([tool : Tools, parallel : BOOLEAN]) /\ plan.delegable \in BOOLEAN
  /\ plan.index \in 1..(IF plan.steps = <<>> THEN 1 ELSE Len(plan.steps))
  /\ pending \subseteq DOMAIN plan.steps
  /\ outcomes \subseteq Succeeds \cup Failures
  /\ iteration \in 0..MaxIterations
  /\ error \in BOOLEAN /\ refused \in BOOLEAN
  /\ steps \in 0..RecursionLimit /\ planned \in Nat
  /\ ran \in Seq([step : DOMAIN plan.steps, ok : BOOLEAN])

\* A run raises nothing and so answers, unless the observer asked for a new plan or the
\* run planned more than twice: the iteration limit of observe (nodes.py:3330) and the
\* limit of the graph library leave exactly that room.
RunAnswers == node = "raised" => refused \/ planned > 2

OneByOne(p) ==
  \/ \A i \in DOMAIN p.steps : ~ p.steps[i].parallel
  \/ /\ \E i \in DOMAIN p.steps : p.steps[i].tool = "search"
     /\ \E i \in DOMAIN p.steps : p.steps[i].tool = "code"

\* Every variable stays in its set, and the steps of a plan without parallel actions run
\* in their order with none passed over, and only a step that failed runs again, once and
\* at once, although the index counts successes, is clamped and is moved by two nodes
\* (nodes.py:3062, 3551).
StepsInTurn ==
  /\ GraphTypeOK
  /\ OneByOne(plan) /\ ~ plan.delegable =>
       /\ \A k \in 1..Len(ran) - 1 :
            \/ ran[k + 1].step = ran[k].step + 1
            \/ /\ ran[k + 1].step = ran[k].step /\ ~ ran[k].ok
               /\ k > 1 => ran[k - 1].step # ran[k].step
       /\ ran # <<>> => ran[1].step = 1
=============================================================================
