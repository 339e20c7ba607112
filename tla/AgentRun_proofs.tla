----------------------------- MODULE AgentRun_proofs -----------------------------
(* Proofs about AgentGraph and SandboxPool: a run of the agent graph stays within the  *)
(* super-steps of the graph library and runs the steps of its plan in their order, and *)
(* the pool its code runs in is exclusive, for any number of callers and any pool size. *)
EXTENDS AgentGraph, SandboxPool, FiniteSetTheorems, SequenceTheorems, TLAPS

-----------------------------------------------------------------------------
(* AgentGraph: the super-steps of a run *)

Counting == iteration \in Nat /\ planned \in Nat /\ steps \in Nat /\ node \in Nodes

\* Each plan costs one super-step and each observation two, with the node before it; the
\* rest of a run costs three at most.
Pace ==
  /\ node = "start" => steps = 0 /\ planned = 0 /\ iteration = 0
  /\ node \in {"plan", "act", "delegate"} =>
       iteration < MaxIterations /\ steps = 1 + planned + 2 * iteration
  /\ node = "observe" => iteration < MaxIterations /\ steps = 2 + planned + 2 * iteration
  /\ node = "reflect" => iteration <= MaxIterations /\ steps = 1 + planned + 2 * iteration
  /\ node = "respond" => iteration <= MaxIterations /\ steps <= 2 + planned + 2 * iteration

PaceInv == Counting /\ Pace /\ RunAnswers

LEMMA InitPace == GraphInit => PaceInv
BY DEF GraphInit, PaceInv, Counting, Pace, RunAnswers, Nodes, Ends

\* Planning takes the run to a node that acts, or to the response.
LEMMA PlanPace == ASSUME PaceInv, (\E p \in Plans : Plan(p)) \/ PlanFails PROVE PaceInv'
<1>1. node' \in {"act", "delegate", "respond"}
  BY DEF Plan, PlanFails, RouteAfterPlan
<1>2. /\ node = "plan"
      /\ steps' = steps + 1 /\ planned' = planned + 1 /\ iteration' = iteration /\ refused' = refused
  BY DEF Plan, PlanFails, AtNode
<1>3. QED
  BY <1>1, <1>2, GraphAssumption DEF PaceInv, Counting, Pace, RunAnswers, Nodes, Ends

LEMMA ActPace == ASSUME PaceInv, Act \/ ActUnconfigured \/ Delegate PROVE PaceInv'
<1>1. /\ node \in {"act", "delegate"} /\ node' = "observe"
      /\ steps' = steps + 1 /\ planned' = planned /\ iteration' = iteration /\ refused' = refused
  BY DEF Act, ActUnconfigured, Delegate, AtNode
<1>2. QED
  BY <1>1, GraphAssumption DEF PaceInv, Counting, Pace, RunAnswers, Nodes, Ends

\* An observation that goes on is not the last one allowed; one that completes may be.
LEMMA ObservePace == ASSUME PaceInv, Observe PROVE PaceInv'
<1>1. node = "observe" /\ steps' = steps + 1 /\ planned' = planned
  BY DEF Observe, ObserveReplans, ObserverRefuses, ObserveContinues, ObserveNextRound,
     ObserveCompletes, Observed, AtNode
<1>2. iteration \in Nat /\ MaxIterations \in Nat
  BY GraphAssumption DEF PaceInv, Counting
<1>3. CASE ObserverRefuses
  BY <1>1, <1>3, <1>2 DEF ObserverRefuses, PaceInv, Counting, Pace, RunAnswers, Nodes, Ends
<1>4. CASE ObserveReplans \/ ObserveContinues \/ ObserveNextRound
  <2>1. node' \in {"plan", "act"} /\ iteration' = iteration + 1 /\ refused' = refused
    BY <1>4 DEF ObserveReplans, ObserveContinues, ObserveNextRound, Observed, RouteAfterObserve
  <2>2. iteration + 1 < MaxIterations
    BY <1>2, <1>4 DEF ObserveReplans, ObserveContinues, ObserveNextRound, Exhausted
  <2>3. QED
    BY <1>1, <1>2, <2>1, <2>2 DEF PaceInv, Counting, Pace, RunAnswers, Nodes, Ends
<1>5. CASE ObserveCompletes
  <2>1. node' = "reflect" /\ iteration' = iteration + 1 /\ refused' = refused
    BY <1>5 DEF ObserveCompletes, Observed, RouteAfterObserve
  <2>2. QED
    BY <1>1, <1>2, <2>1 DEF PaceInv, Counting, Pace, RunAnswers, Nodes, Ends
<1>6. QED
  BY <1>3, <1>4, <1>5 DEF Observe

LEMMA EndsPace == ASSUME PaceInv, Start \/ Reflect \/ Respond PROVE PaceInv'
<1>1. CASE Start
  BY <1>1, GraphAssumption DEF Start, AtNode, PaceInv, Counting, Pace, RunAnswers, Nodes, Ends
<1>2. CASE Reflect
  BY <1>2, GraphAssumption DEF Reflect, AtNode, PaceInv, Counting, Pace, RunAnswers, Nodes, Ends
<1>3. CASE Respond
  BY <1>3 DEF Respond, AtNode, PaceInv, Counting, Pace, RunAnswers, Nodes, Ends
<1>4. QED
  BY <1>1, <1>2, <1>3

\* Where the library stops a run, the pace leaves more than two plans.
LEMMA OutOfStepsPace == ASSUME PaceInv, OutOfSteps PROVE PaceInv'
<1>1. steps >= 2 * MaxIterations + 5 /\ MaxIterations \in Nat /\ node \notin Ends
  BY GraphAssumption DEF OutOfSteps
<1>2. node \in {"plan", "act", "delegate", "observe", "reflect", "respond"}
  BY <1>1 DEF PaceInv, Counting, Pace, Nodes
<1>3. planned > 2
  BY <1>1, <1>2 DEF PaceInv, Counting, Pace
<1>4. QED
  BY <1>3 DEF OutOfSteps, PaceInv, Counting, Pace, RunAnswers, Nodes, Ends

LEMMA NextPace == PaceInv /\ [GraphNext]_graphVars => PaceInv'
<1> SUFFICES ASSUME PaceInv, [GraphNext]_graphVars PROVE PaceInv'
  OBVIOUS
<1>1. CASE UNCHANGED graphVars
  BY <1>1 DEF graphVars, PaceInv, Counting, Pace, RunAnswers
<1>2. CASE GraphNext
  BY <1>2, PlanPace, ActPace, ObservePace, EndsPace, OutOfStepsPace DEF GraphNext, Node
<1>3. QED
  BY <1>1, <1>2

\* However many observations are allowed, with two super-steps for each and five more a
\* run answers, unless the observer asked for a new plan or it planned more than twice
\* (nodes.py:3330).
THEOREM Answers == GraphSpec => []RunAnswers
<1>1. PaceInv => RunAnswers
  BY DEF PaceInv
<1>2. QED
  BY <1>1, InitPace, NextPace, PTL DEF GraphSpec

-----------------------------------------------------------------------------
(* Numbers in order *)

Rank(S, i) == Cardinality({j \in S : j <= i})

\* The ranks of the members of a finite set count them off.
LEMMA Ranked ==
  ASSUME NEW S \in SUBSET Nat, IsFiniteSet(S)
  PROVE  /\ Cardinality(S) \in Nat
         /\ \A i \in S : Rank(S, i) \in 1..Cardinality(S)
         /\ \A k \in 1..Cardinality(S) : \E i \in S : Rank(S, i) = k
<1>1. Cardinality(S) \in Nat
  BY FS_CardinalityType
<1>2. ASSUME NEW i \in S
      PROVE  /\ IsFiniteSet({j \in S : j <= i}) /\ Rank(S, i) \in 1..Cardinality(S)
  <2>1. PICK T : T = {j \in S : j <= i}
    OBVIOUS
  <2>2. T \subseteq S /\ i \in T
    BY <2>1
  <2>3. IsFiniteSet(T) /\ Cardinality(T) \in Nat /\ Cardinality(T) <= Cardinality(S)
    BY <2>2, FS_Subset, FS_CardinalityType
  <2>4. Cardinality(T) # 0
    BY <2>2, <2>3, FS_EmptySet
  <2>5. Cardinality(T) \in 1..Cardinality(S)
    BY <1>1, <2>3, <2>4
  <2>6. QED
    BY <2>1, <2>3, <2>5 DEF Rank
<1>3. ASSUME NEW i \in S, NEW l \in S, i < l PROVE Rank(S, i) < Rank(S, l)
  <2>1. PICK T : T = {j \in S : j <= i}
    OBVIOUS
  <2>2. PICK U : U = {j \in S : j <= l}
    OBVIOUS
  <2>3. T \subseteq U \ {l} /\ l \in U
    <3>1. i \in Nat /\ l \in Nat /\ S \subseteq Nat
      OBVIOUS
    <3>2. \A j \in T : j \in S /\ j <= i /\ j \in Nat
      BY <2>1, <3>1
    <3>3. \A j \in T : j \in U /\ j # l
      BY <1>3, <2>2, <3>1, <3>2
    <3>4. l \in U
      BY <2>2, <3>1
    <3>5. QED
      BY <3>3, <3>4
  <2>4. IsFiniteSet(U) /\ Cardinality(U) \in Nat
    BY <1>2, <2>2, FS_CardinalityType
  <2>5. IsFiniteSet(U \ {l}) /\ Cardinality(U \ {l}) = Cardinality(U) - 1
    BY <2>3, <2>4, FS_RemoveElement
  <2>6. Cardinality(T) <= Cardinality(U \ {l}) /\ Cardinality(T) \in Nat
    BY <2>3, <2>5, FS_Subset, FS_CardinalityType
  <2>7. Cardinality(T) < Cardinality(U)
    BY <2>4, <2>5, <2>6
  <2>8. QED
    BY <2>1, <2>2, <2>7 DEF Rank
<1>4. PICK r : r = [i \in S |-> Rank(S, i)]
  OBVIOUS
<1>5. r \in Injection(S, 1..Cardinality(S))
  <2>1. r \in [S -> 1..Cardinality(S)]
    BY <1>2, <1>4
  <2>2. ASSUME NEW i \in S, NEW l \in S, r[i] = r[l] PROVE i = l
    <3>1. ~ (r[i] < r[l]) /\ ~ (r[l] < r[i])
      BY <1>1, <2>1, <2>2
    <3>2. ~ (i < l) /\ ~ (l < i)
      BY <1>3, <1>4, <3>1
    <3>3. QED
      BY <3>2
  <2>3. QED
    BY <2>1, <2>2 DEF Injection, IsInjective
<1>6. r \in Surjection(S, 1..Cardinality(S))
  <2>1. IsFiniteSet(1..Cardinality(S)) /\ Cardinality(1..Cardinality(S)) = Cardinality(S)
    BY <1>1, FS_Interval
  <2>2. QED
    BY <1>5, <2>1, FS_Injection
<1>7. \A k \in 1..Cardinality(S) : \E i \in S : Rank(S, i) = k
  BY <1>4, <1>6 DEF Surjection
<1>8. QED
  BY <1>1, <1>2, <1>7

LEMMA Ordered ==
  ASSUME NEW S \in SUBSET Nat, IsFiniteSet(S)
  PROVE  /\ InOrder(S) \in Seq(S) /\ Len(InOrder(S)) = Cardinality(S) /\ Cardinality(S) \in Nat
         /\ DOMAIN InOrder(S) = 1..Cardinality(S)
         /\ \A k \in 1..Cardinality(S) : InOrder(S)[k] \in S /\ Rank(S, InOrder(S)[k]) = k
<1>1. /\ Cardinality(S) \in Nat
      /\ \A k \in 1..Cardinality(S) : \E i \in S : Rank(S, i) = k
  BY Ranked
<1>2. PICK s : s = InOrder(S)
  OBVIOUS
<1>3. s = [k \in 1..Cardinality(S) |-> CHOOSE i \in S : Rank(S, i) = k]
  BY <1>2 DEF InOrder, Rank
<1>4. ASSUME NEW k \in 1..Cardinality(S) PROVE s[k] \in S /\ Rank(S, s[k]) = k
  BY <1>1, <1>3
<1>5. s \in [1..Cardinality(S) -> S]
  BY <1>3, <1>4
<1>6. s \in Seq(S) /\ Len(s) = Cardinality(S)
  <2>1. s \in Seq(S)
    BY <1>1, <1>5, SeqDef
  <2>2. DOMAIN s = 1..Len(s) /\ Len(s) \in Nat /\ DOMAIN s = 1..Cardinality(S)
    BY <1>5, <2>1, LenProperties
  <2>3. Len(s) <= Cardinality(S) /\ Cardinality(S) <= Len(s)
    BY <1>1, <2>2
  <2>4. QED
    BY <1>1, <2>1, <2>2, <2>3
<1>7. QED
  BY <1>1, <1>2, <1>3, <1>4, <1>6

\* A set of numbers with all that are smaller is an interval, and its order is that of the numbers.
LEMMA Prefix ==
  ASSUME NEW n \in Nat, NEW T \in SUBSET (1..n), \A i \in T, j \in 1..n : j < i => j \in T
  PROVE  /\ Cardinality(T) \in Nat /\ T = 1..Cardinality(T) /\ Len(InOrder(T)) = Cardinality(T)
         /\ InOrder(T) \in Seq(T) /\ DOMAIN InOrder(T) = 1..Cardinality(T)
         /\ \A k \in 1..Cardinality(T) : InOrder(T)[k] = k
<1>1. T \in SUBSET Nat /\ IsFiniteSet(T)
  <2>1. 1 \in Int /\ n \in Int
    OBVIOUS
  <2>2. IsFiniteSet(1..n)
    BY <2>1, FS_Interval
  <2>3. IsFiniteSet(T)
    BY <2>2, FS_Subset
  <2>4. QED
    BY <2>3
<1>2. ASSUME NEW i \in T PROVE Rank(T, i) = i
  <2>1. {j \in T : j <= i} = 1..i
    <3>1. i \in 1..n /\ T \subseteq 1..n
      OBVIOUS
    <3>2. ASSUME NEW j \in 1..i PROVE j \in T
      <4>1. j \in 1..n /\ (j = i \/ j < i)
        BY <3>1
      <4>2. QED
        BY <4>1
    <3>3. \A j \in T : j <= i => j \in 1..i
      BY <3>1
    <3>4. \A j \in 1..i : j <= i
      BY <3>1
    <3>5. QED
      BY <3>2, <3>3, <3>4
  <2>2. Cardinality(1..i) = i
    <3>1. i \in Nat /\ 1 <= i
      OBVIOUS
    <3>2. QED
      BY <3>1, FS_Interval
  <2>3. QED
    BY <2>1, <2>2 DEF Rank
<1>3. /\ Cardinality(T) \in Nat
      /\ \A i \in T : Rank(T, i) \in 1..Cardinality(T)
      /\ \A k \in 1..Cardinality(T) : \E i \in T : Rank(T, i) = k
  BY <1>1, Ranked
<1>4. T = 1..Cardinality(T)
  BY <1>2, <1>3
<1>5. /\ InOrder(T) \in Seq(T) /\ Len(InOrder(T)) = Cardinality(T) /\ DOMAIN InOrder(T) = 1..Cardinality(T)
      /\ \A k \in 1..Cardinality(T) : InOrder(T)[k] \in T /\ Rank(T, InOrder(T)[k]) = k
  BY <1>1, Ordered
<1>6. QED
  BY <1>2, <1>3, <1>4, <1>5

LEMMA Alone ==
  ASSUME NEW i \in Nat
  PROVE  InOrder({i}) \in Seq({i}) /\ Len(InOrder({i})) = 1 /\ DOMAIN InOrder({i}) = 1..1 /\ InOrder({i})[1] = i
<1>1. IsFiniteSet({i}) /\ Cardinality({i}) = 1 /\ {i} \in SUBSET Nat
  BY FS_Singleton
<1>2. PICK s : s = InOrder({i})
  OBVIOUS
<1>3. s \in Seq({i}) /\ Len(s) = 1 /\ DOMAIN s = 1..1 /\ \A k \in 1..1 : s[k] \in {i}
  BY <1>1, <1>2, Ordered
<1>4. QED
  BY <1>2, <1>3

LEMMA NoneInOrder == InOrder({}) = <<>>
<1>1. Cardinality({}) = 0
  BY FS_EmptySet
<1>2. QED
  BY <1>1 DEF InOrder

-----------------------------------------------------------------------------
(* Steps in turn *)

Steps == Seq([tool : Tools, parallel : BOOLEAN])
Runs(p) == Seq([step : DOMAIN p.steps, ok : BOOLEAN])
Indexes(p) == 1..(IF p.steps = <<>> THEN 1 ELSE Len(p.steps))

\* A plan is a record of its steps, of whether it is delegated, and of its index.
Shaped == plan = [steps |-> plan.steps, delegable |-> plan.delegable, index |-> plan.index]

\* The last step that ran, and whether it is one that failed the first time.
LastStep == ran[Len(ran)].step
Retries(i) == LastStep = i /\ ~ ran[Len(ran)].ok /\ (Len(ran) > 1 => ran[Len(ran) - 1].step # i)

\* What ran did so in turn.
InTurn ==
  /\ \A k \in 1..Len(ran) - 1 :
       \/ ran[k + 1].step = ran[k].step + 1
       \/ /\ ran[k + 1].step = ran[k].step /\ ~ ran[k].ok
          /\ k > 1 => ran[k - 1].step # ran[k].step
  /\ ran # <<>> => ran[1].step = 1

\* What is to run next is the plan, or the step that follows the last one, or that one again.
BeforeAct ==
  IF ran = <<>> THEN ~ able.executor \/ (pending = DOMAIN plan.steps /\ plan.index = 1 /\ pending # {})
  ELSE pending = {plan.index} /\ (LastStep = plan.index - 1 \/ Retries(plan.index))
\* The index stands at the last step, or before it when it failed the first time.
BeforeObserve ==
  IF ran = <<>> THEN ~ able.executor
  ELSE LastStep = plan.index \/ Retries(plan.index + 1)

Plain == OneByOne(plan) /\ ~ plan.delegable
Turns ==
  /\ ~ able.executor => ran = <<>>
  /\ node = "delegate" => plan.delegable
  /\ Plain => InTurn /\ (node = "act" => BeforeAct) /\ (node = "observe" => BeforeObserve)

GraphInv == PaceInv /\ GraphTypeOK /\ Shaped /\ Turns

LEMMA GraphTypes ==
  ASSUME GraphInv
  PROVE  /\ able \in [llm : BOOLEAN, executor : BOOLEAN, delegator : BOOLEAN]
         /\ node \in Nodes /\ plan.steps \in Steps /\ plan.delegable \in BOOLEAN
         /\ plan.index \in Indexes(plan) /\ Len(plan.steps) \in Nat /\ plan.index \in Nat
         /\ DOMAIN plan.steps = 1..Len(plan.steps) /\ pending \subseteq DOMAIN plan.steps
         /\ outcomes \subseteq Succeeds \cup Failures /\ iteration \in Nat /\ iteration \in 0..MaxIterations
         /\ error \in BOOLEAN /\ refused \in BOOLEAN
         /\ steps \in 0..RecursionLimit /\ steps \in Nat /\ planned \in Nat /\ ran \in Runs(plan)
         /\ MaxIterations \in Nat /\ RecursionLimit \in Nat
<1>1. /\ able \in [llm : BOOLEAN, executor : BOOLEAN, delegator : BOOLEAN]
      /\ node \in Nodes /\ plan.steps \in Steps /\ plan.delegable \in BOOLEAN
      /\ plan.index \in Indexes(plan) /\ pending \subseteq DOMAIN plan.steps
      /\ outcomes \subseteq Succeeds \cup Failures /\ iteration \in 0..MaxIterations
      /\ error \in BOOLEAN /\ refused \in BOOLEAN
      /\ steps \in 0..RecursionLimit /\ planned \in Nat /\ ran \in Runs(plan)
  BY DEF GraphInv, GraphTypeOK, Steps, Indexes, Runs
<1>2. Len(plan.steps) \in Nat /\ DOMAIN plan.steps = 1..Len(plan.steps)
  BY <1>1, LenProperties DEF Steps
<1>3. plan.index \in Nat
  BY <1>1, <1>2 DEF Indexes
<1>4. MaxIterations \in Nat /\ RecursionLimit \in Nat
  BY GraphAssumption
<1>5. iteration \in Nat /\ steps \in Nat
  BY DEF GraphInv, PaceInv, Counting
<1>6. QED
  BY <1>1, <1>2, <1>3, <1>4, <1>5

\* The rest of the types after a node has run.
LEMMA NodeTypes ==
  ASSUME GraphInv, PaceInv', steps' \in {steps, steps + 1}, steps' = steps + 1 => steps < RecursionLimit,
         able' = able,
         iteration' \in {0, iteration} \/ (node = "observe" /\ iteration' = iteration + 1),
         outcomes' \subseteq Succeeds \cup Failures, error' \in BOOLEAN, refused' \in BOOLEAN,
         plan'.steps \in Steps, plan'.delegable \in BOOLEAN, plan'.index \in Indexes(plan'),
         pending' \subseteq DOMAIN plan'.steps, ran' \in Runs(plan')
  PROVE  GraphTypeOK'
<1>1. able' \in [llm : BOOLEAN, executor : BOOLEAN, delegator : BOOLEAN] /\ node' \in Nodes /\ planned' \in Nat
  BY GraphTypes DEF PaceInv, Counting
<1>2. iteration' \in 0..MaxIterations
  <2>1. node = "observe" => iteration < MaxIterations
    BY DEF GraphInv, PaceInv, Pace
  <2>2. iteration \in 0..MaxIterations /\ MaxIterations \in Nat
    BY GraphTypes
  <2>3. QED
    BY <2>1, <2>2
<1>3. steps' \in 0..RecursionLimit
  <2>1. steps \in 0..RecursionLimit /\ RecursionLimit \in Nat
    BY GraphTypes
  <2>2. QED
    BY <2>1
<1>4. QED
  BY <1>1, <1>2, <1>3 DEF GraphTypeOK, Steps, Indexes, Runs

\* A node that leaves the plan and what ran, and does not act.
LEMMA Keeps ==
  ASSUME GraphInv, PaceInv', steps' \in {steps, steps + 1}, steps' = steps + 1 => steps < RecursionLimit,
         UNCHANGED <<able, plan, ran>>,
         iteration' \in {0, iteration} \/ (node = "observe" /\ iteration' = iteration + 1),
         outcomes' \subseteq Succeeds \cup Failures, error' \in BOOLEAN, refused' \in BOOLEAN,
         pending' \in {{}, pending}, node' \notin {"act", "delegate"},
         node' = "observe" => plan.delegable \/ ~ able.executor
  PROVE  GraphInv'
<1>1. GraphTypeOK'
  <2>1. /\ plan.steps \in Steps /\ plan.delegable \in BOOLEAN /\ plan.index \in Indexes(plan)
        /\ pending' \subseteq DOMAIN plan.steps /\ ran \in Runs(plan)
    BY GraphTypes
  <2>2. QED
    BY <2>1, NodeTypes DEF Indexes, Runs
<1>2. Shaped'
  BY DEF GraphInv, Shaped
<1>3. Turns'
  <2>1. ~ able.executor => ran = <<>>
    BY DEF GraphInv, Turns
  <2>2. Plain' => Plain /\ InTurn /\ ~ plan.delegable
    BY DEF GraphInv, Turns, Plain, OneByOne
  <2>3. InTurn => InTurn'
    BY DEF InTurn
  <2>4. Plain' /\ node' = "observe" => BeforeObserve'
    BY <2>1, <2>2 DEF BeforeObserve
  <2>5. QED
    BY <2>1, <2>2, <2>3, <2>4 DEF Turns
<1>4. QED
  BY <1>1, <1>2, <1>3 DEF GraphInv

LEMMA KeepsStep ==
  ASSUME GraphInv, PaceInv',
         \/ Start \/ PlanFails \/ ActUnconfigured \/ Delegate \/ Reflect \/ Respond \/ OutOfSteps
         \/ ObserveReplans \/ ObserverRefuses \/ ObserveNextRound \/ ObserveCompletes
  PROVE  GraphInv'
<1>1. /\ outcomes \subseteq Succeeds \cup Failures /\ error \in BOOLEAN /\ refused \in BOOLEAN
  BY GraphTypes
<1>2. CASE Start
  <2>1. UNCHANGED <<able, plan, pending, outcomes, error, ran, refused>> /\ iteration' = 0 /\ node' = "plan"
        /\ steps < RecursionLimit /\ steps' = steps + 1
    BY <1>2 DEF Start, AtNode
  <2>2. QED
    BY <1>1, <2>1, Keeps
<1>3. CASE PlanFails
  <2>1. UNCHANGED <<able, plan, pending, outcomes, iteration, ran, refused>> /\ error' = TRUE /\ node' = "respond"
        /\ steps < RecursionLimit /\ steps' = steps + 1
    BY <1>3 DEF PlanFails, AtNode
  <2>2. QED
    BY <1>1, <2>1, Keeps
<1>4. CASE ActUnconfigured
  <2>1. UNCHANGED <<able, plan, outcomes, iteration, ran, refused>> /\ error' = TRUE /\ pending' = {}
        /\ node' = "observe" /\ ~ able.executor /\ steps < RecursionLimit /\ steps' = steps + 1
    BY <1>4 DEF ActUnconfigured, AtNode
  <2>2. QED
    BY <1>1, <2>1, Keeps
<1>5. CASE Delegate
  <2>1. UNCHANGED <<able, plan, pending, iteration, error, ran, refused>> /\ node' = "observe"
        /\ steps < RecursionLimit /\ steps' = steps + 1 /\ node = "delegate"
    BY <1>5 DEF Delegate, AtNode
  <2>2. outcomes' \subseteq Succeeds \cup Failures
    BY <1>1, <1>5 DEF Delegate, Succeeds, Failures
  <2>3. plan.delegable
    BY <2>1 DEF GraphInv, Turns
  <2>4. QED
    BY <1>1, <2>1, <2>2, <2>3, Keeps
<1>6. CASE Reflect \/ Respond
  <2>1. UNCHANGED <<able, plan, pending, outcomes, iteration, error, ran, refused>>
        /\ steps < RecursionLimit /\ steps' = steps + 1 /\ node' \in {"respond", "apologised", "answered"}
    BY <1>6 DEF Reflect, Respond, AtNode
  <2>2. QED
    BY <1>1, <2>1, Keeps
<1>7. CASE OutOfSteps
  <2>1. UNCHANGED <<able, plan, pending, outcomes, iteration, error, ran, refused>>
        /\ steps' = steps /\ node' = "raised"
    BY <1>7 DEF OutOfSteps
  <2>2. steps' # steps + 1
    BY <2>1, GraphTypes
  <2>3. QED
    BY <1>1, <2>1, <2>2, Keeps
<1>8. CASE ObserverRefuses
  <2>1. UNCHANGED <<able, plan, pending, outcomes, iteration, error, ran>> /\ refused' = TRUE
        /\ steps < RecursionLimit /\ steps' = steps + 1 /\ node' = "raised"
    BY <1>8 DEF ObserverRefuses, AtNode
  <2>2. QED
    BY <1>1, <2>1, Keeps
<1>9. CASE ObserveReplans \/ ObserveNextRound \/ ObserveCompletes
  <2>1. UNCHANGED <<able, plan, pending, outcomes, error, ran, refused>> /\ iteration' = iteration + 1
        /\ node = "observe" /\ steps < RecursionLimit /\ steps' = steps + 1 /\ node' \in {"plan", "reflect"}
    BY <1>9 DEF ObserveReplans, ObserveNextRound, ObserveCompletes, Observed, RouteAfterObserve, AtNode
  <2>2. QED
    BY <1>1, <2>1, Keeps
<1>10. QED
  BY <1>2, <1>3, <1>4, <1>5, <1>6, <1>7, <1>8, <1>9

\* A plan begins with all its steps ahead.
LEMMA PlanStep == ASSUME GraphInv, PaceInv', NEW p \in Plans, Plan(p) PROVE GraphInv'
<1>1. /\ plan' = [steps |-> p.steps, delegable |-> p.delegable, index |-> 1]
      /\ pending' = DOMAIN p.steps /\ ran' = <<>> /\ node' = RouteAfterPlan(p)
      /\ UNCHANGED <<able, outcomes, iteration, error, refused>>
      /\ steps < RecursionLimit /\ steps' = steps + 1
  BY DEF Plan, AtNode
<1>2. p.steps \in Steps /\ p.delegable \in BOOLEAN
  BY GraphAssumption DEF PlanSet, Steps
<1>3. plan'.steps = p.steps /\ plan'.delegable = p.delegable /\ plan'.index = 1
  BY <1>1
<1>4. GraphTypeOK'
  <2>1. plan'.index \in Indexes(plan')
    <3>1. Len(p.steps) \in Nat /\ (p.steps # <<>> => Len(p.steps) # 0)
      BY <1>2, EmptySeq, LenProperties DEF Steps
    <3>2. QED
      BY <1>3, <3>1 DEF Indexes
  <2>2. ran' \in Runs(plan')
    BY <1>1, EmptySeq DEF Runs
  <2>3. outcomes \subseteq Succeeds \cup Failures /\ error \in BOOLEAN /\ refused \in BOOLEAN
    BY GraphTypes
  <2>4. QED
    BY <1>1, <1>2, <1>3, <2>1, <2>2, <2>3, NodeTypes
<1>5. Shaped'
  BY <1>1, <1>3 DEF Shaped
<1>6. Turns'
  <2>1. node' = "act" => pending' # {}
    BY <1>1 DEF RouteAfterPlan
  <2>2. node' = "delegate" => p.delegable
    BY <1>1 DEF RouteAfterPlan
  <2>3. node' # "observe"
    BY <1>1 DEF RouteAfterPlan
  <2>4. InTurn'
    <3>1. 1..Len(ran') - 1 = {}
      BY <1>1, EmptySeq
    <3>2. QED
      BY <1>1, <3>1 DEF InTurn
  <2>5. node' = "act" => BeforeAct'
    BY <1>1, <1>3, <2>1 DEF BeforeAct
  <2>6. QED
    BY <1>1, <1>3, <2>2, <2>3, <2>4, <2>5 DEF Turns
<1>7. QED
  BY <1>4, <1>5, <1>6 DEF GraphInv

\* The observation goes on with the next step, or with the one that failed.
LEMMA ContinueStep == ASSUME GraphInv, PaceInv', ObserveContinues PROVE GraphInv'
<1>1. /\ plan' = [plan EXCEPT !.index = plan.index + 1] /\ pending' = {plan.index + 1} /\ plan.index < Len(plan.steps)
      /\ UNCHANGED <<able, outcomes, error, planned, ran, refused>> /\ iteration' = iteration + 1
      /\ node = "observe" /\ node' = "act" /\ steps < RecursionLimit /\ steps' = steps + 1
  BY DEF ObserveContinues, Advance, Observed, RouteAfterObserve, AtNode, MoreSteps
<1>2. /\ plan'.steps = plan.steps /\ plan'.delegable = plan.delegable /\ plan'.index = plan.index + 1
      /\ Shaped'
  <2>1. PICK ss, d, i : plan = [steps |-> ss, delegable |-> d, index |-> i]
    BY DEF GraphInv, Shaped
  <2>2. PICK q : q = [plan EXCEPT !.index = plan.index + 1]
    OBVIOUS
  <2>3. q = [steps |-> ss, delegable |-> d, index |-> i + 1]
    BY <2>1, <2>2
  <2>4. plan' = q
    BY <1>1, <2>2
  <2>5. QED
    BY <2>1, <2>3, <2>4 DEF Shaped
<1>3. GraphTypeOK'
  <2>1. /\ plan.steps \in Steps /\ plan.delegable \in BOOLEAN /\ Len(plan.steps) \in Nat /\ plan.index \in Nat
        /\ plan.index \in Indexes(plan) /\ DOMAIN plan.steps = 1..Len(plan.steps) /\ ran \in Runs(plan)
        /\ outcomes \subseteq Succeeds \cup Failures /\ error \in BOOLEAN /\ refused \in BOOLEAN
    BY GraphTypes
  <2>2. plan.steps # <<>>
    BY <1>1, <2>1, EmptySeq
  <2>3. plan.index + 1 \in 1..Len(plan.steps)
    BY <1>1, <2>1
  <2>4. plan'.index \in Indexes(plan') /\ pending' \subseteq DOMAIN plan'.steps
    BY <1>1, <1>2, <2>1, <2>2, <2>3 DEF Indexes
  <2>5. ran' \in Runs(plan')
    BY <1>1, <1>2, <2>1 DEF Runs
  <2>6. QED
    BY <1>1, <1>2, <2>1, <2>4, <2>5, NodeTypes
<1>4. Turns'
  <2>1. ~ able.executor => ran = <<>>
    BY DEF GraphInv, Turns
  <2>2. Plain' => Plain /\ InTurn /\ BeforeObserve
    BY <1>1, <1>2 DEF GraphInv, Turns, Plain, OneByOne
  <2>3. InTurn => InTurn'
    BY <1>1 DEF InTurn
  <2>4. BeforeObserve => BeforeAct'
    <3>1. Retries(plan.index + 1) => Retries(plan.index)'
      BY <1>1, <1>2 DEF Retries, LastStep
    <3>2. LastStep' = LastStep
      BY <1>1 DEF LastStep
    <3>3. ASSUME BeforeObserve, ran = <<>> PROVE BeforeAct'
      BY <1>1, <3>3 DEF BeforeObserve, BeforeAct
    <3>4. ASSUME BeforeObserve, ran # <<>> PROVE BeforeAct'
      <4>1. LastStep = plan.index \/ Retries(plan.index + 1)
        BY <3>4 DEF BeforeObserve
      <4>2. LastStep' = plan'.index - 1 \/ Retries(plan.index)'
        <5>1. plan'.index - 1 = plan.index
          <6>1. plan'.index = plan.index + 1 /\ plan.index \in Nat
            BY <1>2, GraphTypes
          <6>2. QED
            BY <6>1
        <5>2. QED
          BY <3>1, <3>2, <4>1, <5>1, Zenon
      <4>3. pending' = {plan'.index} /\ ran' # <<>>
        BY <1>1, <1>2, <3>4
      <4>4. QED
        BY <4>2, <4>3 DEF BeforeAct
    <3>5. QED
      BY <3>3, <3>4
  <2>5. QED
    BY <1>1, <2>1, <2>2, <2>3, <2>4 DEF Turns
<1>5. QED
  BY <1>2, <1>3, <1>4 DEF GraphInv

\* What an act is: the order in which it takes the steps, and what it leaves.
Acts(outcome, par, tried, order, entries) ==
  /\ outcome \in [pending -> Succeeds \cup Failures]
  /\ par = Parallel /\ tried = UpToFailure(pending \ par, outcome)
  /\ order = InOrder(par) \o InOrder(tried)
  /\ entries = [k \in DOMAIN order |-> [step |-> order[k], ok |-> outcome[order[k]] \in Succeeds]]
  /\ outcomes' = outcomes \cup {outcome[i] : i \in par \cup tried}
  /\ ran' = ran \o entries
  /\ plan' = [plan EXCEPT !.index = NextIndex(par \cup tried, outcome)]
  /\ pending' = (pending \ par) \ tried

LEMMA ActTaken ==
  ASSUME Act
  PROVE  /\ \E outcome, par, tried, order, entries : Acts(outcome, par, tried, order, entries)
         /\ UNCHANGED <<able, iteration, error, planned, refused>> /\ node' = "observe" /\ node = "act"
         /\ able.executor /\ steps < RecursionLimit /\ steps' = steps + 1
<1>1. PICK outcome \in [pending -> Succeeds \cup Failures] :
        LET tried == UpToFailure(Sequential, outcome)
            order == InOrder(Parallel) \o InOrder(tried)
        IN /\ outcomes' = outcomes \cup {outcome[i] : i \in Parallel \cup tried}
           /\ ran' = ran \o [k \in DOMAIN order |-> [step |-> order[k], ok |-> outcome[order[k]] \in Succeeds]]
           /\ plan' = [plan EXCEPT !.index = NextIndex(Parallel \cup tried, outcome)]
           /\ pending' = Sequential \ tried
  BY DEF Act
<1>2. Acts(outcome, Parallel, UpToFailure(Sequential, outcome),
           InOrder(Parallel) \o InOrder(UpToFailure(Sequential, outcome)),
           [k \in DOMAIN (InOrder(Parallel) \o InOrder(UpToFailure(Sequential, outcome))) |->
              [step |-> (InOrder(Parallel) \o InOrder(UpToFailure(Sequential, outcome)))[k],
               ok |-> outcome[(InOrder(Parallel) \o InOrder(UpToFailure(Sequential, outcome)))[k]] \in Succeeds]])
  BY <1>1 DEF Acts, Sequential
<1>3. QED
  BY <1>2 DEF Act, AtNode

\* The sizes of an act, and its entries.
Tries(outcome, par, tried, order, entries) ==
  /\ par \subseteq pending /\ tried \subseteq pending /\ IsFiniteSet(par \cup tried)
  /\ InOrder(par) \in Seq(DOMAIN plan.steps) /\ InOrder(tried) \in Seq(DOMAIN plan.steps)
  /\ order \in Seq(DOMAIN plan.steps) /\ Len(order) \in Nat /\ DOMAIN order = 1..Len(order)
  /\ entries \in Runs(plan) /\ Len(entries) = Len(order)
  /\ \A k \in 1..Len(order) : entries[k] = [step |-> order[k], ok |-> outcome[order[k]] \in Succeeds]
  /\ Successes(par \cup tried, outcome) \in Nat

LEMMA Entries ==
  ASSUME GraphInv, NEW outcome, NEW par, NEW tried, NEW order, NEW entries, Acts(outcome, par, tried, order, entries)
  PROVE  Tries(outcome, par, tried, order, entries)
<1>1. par \subseteq pending /\ tried \subseteq pending
  BY DEF Acts, Parallel, UpToFailure
<1>2. /\ pending \in SUBSET (1..Len(plan.steps)) /\ Len(plan.steps) \in Nat
      /\ DOMAIN plan.steps = 1..Len(plan.steps)
  BY GraphTypes
<1>3. IsFiniteSet(pending)
  <2>1. 1 \in Int /\ Len(plan.steps) \in Int
    BY <1>2
  <2>2. IsFiniteSet(1..Len(plan.steps))
    BY <2>1, FS_Interval
  <2>3. QED
    BY <1>2, <2>2, FS_Subset
<1>4. IsFiniteSet(par) /\ IsFiniteSet(tried) /\ IsFiniteSet(par \cup tried)
  <2>1. par \in SUBSET pending /\ tried \in SUBSET pending /\ par \cup tried \in SUBSET pending
    BY <1>1
  <2>2. QED
    BY <1>3, <2>1, FS_Subset
<1>5. /\ InOrder(par) \in Seq(DOMAIN plan.steps) /\ InOrder(tried) \in Seq(DOMAIN plan.steps)
  <2>1. \A S \in SUBSET pending : S \in SUBSET Nat /\ S \subseteq DOMAIN plan.steps
    BY <1>2
  <2>2. ASSUME NEW S \in SUBSET pending, IsFiniteSet(S) PROVE InOrder(S) \in Seq(DOMAIN plan.steps)
    <3>1. PICK s : s = InOrder(S)
      OBVIOUS
    <3>2. S \in SUBSET Nat /\ S \subseteq DOMAIN plan.steps
      BY <2>1
    <3>3. s \in Seq(S)
      BY <2>2, <3>1, <3>2, Ordered
    <3>4. s \in Seq(DOMAIN plan.steps)
      BY <3>2, <3>3
    <3>5. QED
      BY <3>1, <3>4
  <2>3. QED
    BY <1>1, <1>4, <2>2
<1>6. order \in Seq(DOMAIN plan.steps) /\ Len(order) \in Nat /\ DOMAIN order = 1..Len(order)
  <2>1. order = InOrder(par) \o InOrder(tried)
    BY DEF Acts
  <2>2. order \in Seq(DOMAIN plan.steps)
    BY <1>5, <2>1, ConcatProperties
  <2>3. QED
    BY <2>2, LenProperties
<1>7. /\ entries \in Runs(plan) /\ Len(entries) = Len(order)
      /\ \A k \in 1..Len(order) : entries[k] = [step |-> order[k], ok |-> outcome[order[k]] \in Succeeds]
  <2>1. entries = [k \in 1..Len(order) |-> [step |-> order[k], ok |-> outcome[order[k]] \in Succeeds]]
    BY <1>6 DEF Acts
  <2>2. ASSUME NEW k \in 1..Len(order) PROVE entries[k] \in [step : DOMAIN plan.steps, ok : BOOLEAN]
    <3>1. order[k] \in DOMAIN plan.steps
      BY <1>6, ElementOfSeq
    <3>2. QED
      BY <2>1, <3>1
  <2>3. entries \in [1..Len(order) -> [step : DOMAIN plan.steps, ok : BOOLEAN]]
    BY <2>1, <2>2
  <2>4. entries \in Runs(plan)
    <3>1. PICK R : R = [step : DOMAIN plan.steps, ok : BOOLEAN]
      OBVIOUS
    <3>2. PICK m \in Nat : m = Len(order)
      BY <1>6
    <3>3. entries \in [1..m -> R]
      BY <2>3, <3>1, <3>2
    <3>4. entries \in Seq(R)
      BY <3>3, SeqDef
    <3>5. QED
      BY <3>1, <3>4 DEF Runs
  <2>5. Len(entries) \in Nat /\ 1..Len(entries) = 1..Len(order)
    BY <2>3, <2>4, LenProperties DEF Runs
  <2>6. Len(entries) <= Len(order) /\ Len(order) <= Len(entries)
    BY <1>6, <2>5
  <2>7. QED
    BY <1>6, <2>1, <2>4, <2>5, <2>6
<1>8. Successes(par \cup tried, outcome) \in Nat
  <2>1. IsFiniteSet({i \in par \cup tried : outcome[i] \in Succeeds})
    <3>1. {i \in par \cup tried : outcome[i] \in Succeeds} \in SUBSET (par \cup tried)
      OBVIOUS
    <3>2. QED
      BY <1>4, <3>1, FS_Subset
  <2>2. QED
    BY <2>1, FS_CardinalityType DEF Successes
<1>9. QED
  BY <1>1, <1>4, <1>5, <1>6, <1>7, <1>8 DEF Tries

\* A first act takes the steps of the plan one by one, up to the first that fails.
Begins(outcome, par, tried, order, b) ==
  /\ Len(order) = b /\ \A k \in 1..b : order[k] = k
  /\ \A k \in 1..b - 1 : outcome[k] \in Succeeds
  /\ IF outcome[b] \in Succeeds THEN b = Len(plan.steps) /\ Successes(par \cup tried, outcome) = b
     ELSE Successes(par \cup tried, outcome) = b - 1

LEMMA FirstAct ==
  ASSUME GraphInv, NEW outcome, NEW par, NEW tried, NEW order, NEW entries, Acts(outcome, par, tried, order, entries),
         OneByOne(plan), pending = DOMAIN plan.steps, pending # {}
  PROVE  \E b \in 1..Len(plan.steps) : Begins(outcome, par, tried, order, b)
<1>1. PICK n \in Nat : n = Len(plan.steps) /\ pending = 1..n /\ n # 0 /\ DOMAIN plan.steps = 1..n
  <2>1. Len(plan.steps) \in Nat /\ DOMAIN plan.steps = 1..Len(plan.steps)
    BY GraphTypes
  <2>2. Len(plan.steps) # 0
    BY <2>1
  <2>3. QED
    BY <2>1, <2>2
<1>2. par = {}
  <2>1. CASE Mixed
    BY <2>1 DEF Acts, Parallel
  <2>2. CASE ~ Mixed
    <3>1. \A i \in DOMAIN plan.steps : ~ plan.steps[i].parallel
      BY <2>2 DEF OneByOne, Mixed, StepOf
    <3>2. QED
      BY <2>2, <3>1 DEF Acts, Parallel, StepOf
  <2>3. QED
    BY <2>1, <2>2
<1>3. tried = {i \in 1..n : \A j \in 1..n : j < i => outcome[j] \in Succeeds}
  BY <1>1, <1>2 DEF Acts, UpToFailure
<1>4. PICK b \in Nat : /\ b = Cardinality(tried) /\ tried = 1..b /\ Len(InOrder(tried)) = b
                       /\ InOrder(tried) \in Seq(tried) /\ \A k \in 1..b : InOrder(tried)[k] = k
  <2>1. tried \in SUBSET (1..n)
    BY <1>3
  <2>2. ASSUME NEW i \in tried, NEW j \in 1..n, j < i PROVE j \in tried
    <3>1. i \in 1..n /\ \A l \in 1..n : l < i => outcome[l] \in Succeeds
      BY <1>3, <2>2
    <3>2. \A l \in 1..n : l < j => l < i
      BY <2>2, <3>1
    <3>3. QED
      BY <1>3, <2>2, <3>1, <3>2
  <2>3. QED
    BY <2>1, <2>2, Prefix
<1>5. order = InOrder(tried)
  <2>1. PICK s : s = InOrder(tried)
    OBVIOUS
  <2>2. order = <<>> \o s
    BY <1>2, <2>1, NoneInOrder DEF Acts
  <2>3. s \in Seq(tried)
    BY <1>4, <2>1
  <2>4. <<>> \o s = s
    BY <2>3, ConcatEmptySeq
  <2>5. QED
    BY <2>1, <2>2, <2>4
<1>6. b \in 1..n /\ b \in tried /\ tried = 1..b
  <2>1. 1 \in tried
    <3>1. 1 \in 1..n /\ \A j \in 1..n : ~ (j < 1)
      BY <1>1
    <3>2. QED
      BY <1>3, <3>1
  <2>2. 1 \in 1..b /\ tried = 1..b
    BY <1>4, <2>1
  <2>3. b \in 1..b
    BY <2>2
  <2>4. QED
    BY <1>3, <2>2, <2>3
<1>7. \A k \in 1..b - 1 : outcome[k] \in Succeeds
  <2>1. \A j \in 1..n : j < b => outcome[j] \in Succeeds
    BY <1>3, <1>6
  <2>2. \A k \in 1..b - 1 : k \in 1..n /\ k < b
    BY <1>1, <1>6
  <2>3. QED
    BY <2>1, <2>2
<1>8. PICK good : good = {i \in tried : outcome[i] \in Succeeds}
  OBVIOUS
<1>9. Successes(par \cup tried, outcome) = Cardinality(good)
  BY <1>2, <1>8 DEF Successes
<1>10. CASE outcome[b] \in Succeeds
  <2>1. good = 1..b
    <3>1. \A k \in 1..b : k \in 1..b - 1 \/ k = b
      BY <1>1, <1>6
    <3>2. \A k \in 1..b : outcome[k] \in Succeeds
      BY <1>7, <1>10, <3>1
    <3>3. QED
      BY <1>6, <1>8, <3>2
  <2>2. Cardinality(good) = b
    <3>1. b \in Nat /\ 1 <= b
      BY <1>1, <1>6
    <3>2. QED
      BY <2>1, <3>1, FS_Interval
  <2>3. b = n
    <3>1. CASE b + 1 \in 1..n
      <4>1. \A j \in 1..n : j < b + 1 => outcome[j] \in Succeeds
        BY <1>1, <1>6, <1>7, <1>10
      <4>2. b + 1 \in tried
        BY <1>3, <3>1, <4>1
      <4>3. b + 1 \notin 1..b
        BY <1>6
      <4>4. QED
        BY <1>6, <4>2, <4>3
    <3>2. CASE b + 1 \notin 1..n
      BY <1>1, <1>6, <3>2
    <3>3. QED
      BY <3>1, <3>2
  <2>4. QED
    BY <1>1, <1>4, <1>5, <1>6, <1>7, <1>9, <1>10, <2>2, <2>3 DEF Begins
<1>11. CASE outcome[b] \notin Succeeds
  <2>1. good = 1..b - 1
    <3>1. \A k \in 1..b : k \in 1..b - 1 \/ k = b
      BY <1>1, <1>6
    <3>2. \A k \in 1..b - 1 : k \in 1..b
      BY <1>1, <1>6
    <3>3. QED
      BY <1>6, <1>7, <1>8, <1>11, <3>1, <3>2
  <2>2. Cardinality(good) = b - 1
    <3>1. b - 1 \in Nat /\ b - 1 \in Int /\ 1 \in Int
      BY <1>1, <1>6
    <3>2. Cardinality(1..b - 1) = IF 1 > b - 1 THEN 0 ELSE (b - 1) - 1 + 1
      BY <3>1, FS_Interval
    <3>3. QED
      BY <2>1, <3>1, <3>2
  <2>3. QED
    BY <1>1, <1>4, <1>5, <1>6, <1>7, <1>9, <1>11, <2>2 DEF Begins
<1>12. QED
  BY <1>10, <1>11

\* Another act takes one step.
GoesOn(outcome, par, tried, order) ==
  /\ Len(order) = 1 /\ order[1] = plan.index
  /\ Successes(par \cup tried, outcome) = IF outcome[plan.index] \in Succeeds THEN 1 ELSE 0

LEMMA NextAct ==
  ASSUME GraphInv, NEW outcome, NEW par, NEW tried, NEW order, NEW entries, Acts(outcome, par, tried, order, entries),
         pending = {plan.index}
  PROVE  GoesOn(outcome, par, tried, order)
<1>1. PICK i \in Nat : i = plan.index /\ pending = {i}
  BY GraphTypes
<1>2. (par = {i} /\ tried = {}) \/ (par = {} /\ tried = {i})
  <2>1. par \subseteq {i}
    BY <1>1, Entries DEF Tries
  <2>2. CASE par = {i}
    BY <1>1, <2>2 DEF Acts, UpToFailure
  <2>3. CASE par = {}
    <3>1. ~ (i < i)
      BY <1>1
    <3>2. tried = {j \in {i} : \A l \in {i} : l < j => outcome[l] \in Succeeds}
      BY <1>1, <2>3 DEF Acts, UpToFailure
    <3>3. QED
      BY <2>3, <3>1, <3>2
  <2>4. QED
    BY <2>1, <2>2, <2>3
<1>3. PICK one : one = InOrder({i}) /\ one \in Seq({i}) /\ Len(one) = 1 /\ one[1] = i
  BY <1>1, Alone
<1>4. order = one
  <2>1. order = one \o <<>> \/ order = <<>> \o one
    BY <1>2, <1>3, NoneInOrder DEF Acts
  <2>2. one \o <<>> = one /\ <<>> \o one = one
    BY <1>3, ConcatEmptySeq
  <2>3. QED
    BY <2>1, <2>2
<1>5. par \cup tried = {i}
  BY <1>2
<1>6. Successes({i}, outcome) = IF outcome[i] \in Succeeds THEN 1 ELSE 0
  <2>1. CASE outcome[i] \in Succeeds
    <3>1. {j \in {i} : outcome[j] \in Succeeds} = {i}
      BY <2>1
    <3>2. Cardinality({i}) = 1
      BY FS_Singleton
    <3>3. QED
      BY <2>1, <3>1, <3>2 DEF Successes
  <2>2. CASE outcome[i] \notin Succeeds
    <3>1. {j \in {i} : outcome[j] \in Succeeds} = {}
      BY <2>2
    <3>2. Cardinality({}) = 0
      BY FS_EmptySet
    <3>3. QED
      BY <2>2, <3>1, <3>2 DEF Successes
  <2>3. QED
    BY <2>1, <2>2
<1>7. QED
  BY <1>1, <1>3, <1>4, <1>5, <1>6 DEF GoesOn

\* The index an act leaves is one of the plan.
LEMMA ActIndex ==
  ASSUME GraphInv, NEW outcome, NEW executed, executed \subseteq pending, Successes(executed, outcome) \in Nat
  PROVE  NextIndex(executed, outcome) \in Indexes(plan)
<1>1. /\ plan.index \in Indexes(plan) /\ plan.index \in Nat /\ plan.steps \in Steps
      /\ pending \subseteq 1..Len(plan.steps) /\ Len(plan.steps) \in Nat
  BY GraphTypes
<1>2. PICK n \in Nat, i \in Nat, s \in Nat :
        n = Len(plan.steps) /\ i = plan.index /\ s = Successes(executed, outcome)
  BY <1>1
<1>3. CASE s = 0
  BY <1>1, <1>2, <1>3 DEF NextIndex
<1>4. CASE s # 0
  <2>1. executed # {}
    <3>1. CASE executed = {}
      <4>1. {j \in executed : outcome[j] \in Succeeds} = {}
        BY <3>1
      <4>2. Cardinality({}) = 0
        BY FS_EmptySet
      <4>3. QED
        BY <1>2, <1>4, <4>1, <4>2 DEF Successes
    <3>2. QED
      BY <3>1
  <2>2. 1..n # {}
    BY <1>1, <1>2, <2>1
  <2>3. n >= 1
    BY <2>2
  <2>4. plan.steps # <<>>
    BY <1>1, <1>2, <2>3, EmptySeq
  <2>5. i \in 1..n /\ Indexes(plan) = 1..n
    BY <1>1, <1>2, <2>4 DEF Indexes
  <2>6. NextIndex(executed, outcome) = IF n < i + s - 1 THEN n ELSE i + s - 1
    BY <1>2, <1>4 DEF NextIndex, Smaller
  <2>7. QED
    BY <1>4, <2>3, <2>5, <2>6
<1>5. QED
  BY <1>3, <1>4

\* What an act leaves of the plan and of what ran.
Leaves(outcome, par, tried, entries) ==
  /\ plan'.steps = plan.steps /\ plan'.delegable = plan.delegable /\ Shaped'
  /\ plan'.index = NextIndex(par \cup tried, outcome) /\ plan'.index \in Indexes(plan)
  /\ outcomes' \subseteq Succeeds \cup Failures
  /\ pending' \subseteq DOMAIN plan.steps
  /\ ran' \in Runs(plan) /\ Len(ran) \in Nat /\ Len(entries) \in Nat /\ Len(ran') = Len(ran) + Len(entries)
  /\ \A k \in 1..Len(ran) + Len(entries) :
       ran'[k] = IF k <= Len(ran) THEN ran[k] ELSE entries[k - Len(ran)]

LEMMA ActLeaves ==
  ASSUME GraphInv, NEW outcome, NEW par, NEW tried, NEW order, NEW entries, Acts(outcome, par, tried, order, entries)
  PROVE  Leaves(outcome, par, tried, entries)
<1>1. /\ plan'.steps = plan.steps /\ plan'.delegable = plan.delegable /\ Shaped'
      /\ plan'.index = NextIndex(par \cup tried, outcome)
  <2>1. PICK ss, d, i : plan = [steps |-> ss, delegable |-> d, index |-> i]
    BY DEF GraphInv, Shaped
  <2>2. PICK j : j = NextIndex(par \cup tried, outcome)
    OBVIOUS
  <2>3. plan' = [plan EXCEPT !.index = j]
    BY <2>2 DEF Acts
  <2>4. PICK q : q = [plan EXCEPT !.index = j]
    OBVIOUS
  <2>5. q = [steps |-> ss, delegable |-> d, index |-> j]
    BY <2>1, <2>4
  <2>6. plan' = q
    BY <2>3, <2>4
  <2>7. QED
    BY <2>1, <2>2, <2>5, <2>6 DEF Shaped
<1>2. /\ par \subseteq pending /\ tried \subseteq pending /\ entries \in Runs(plan)
      /\ Successes(par \cup tried, outcome) \in Nat
  BY Entries DEF Tries
<1>3. plan'.index \in Indexes(plan)
  <2>1. PICK executed : executed = par \cup tried
    OBVIOUS
  <2>2. executed \subseteq pending /\ Successes(executed, outcome) \in Nat
    BY <1>2, <2>1
  <2>3. NextIndex(executed, outcome) \in Indexes(plan)
    BY <2>2, ActIndex
  <2>4. QED
    BY <1>1, <2>1, <2>3
<1>4. outcomes' \subseteq Succeeds \cup Failures
  <2>1. outcomes \subseteq Succeeds \cup Failures
    BY GraphTypes
  <2>2. outcome \in [pending -> Succeeds \cup Failures] /\ outcomes' = outcomes \cup {outcome[i] : i \in par \cup tried}
    BY DEF Acts
  <2>3. QED
    BY <1>2, <2>1, <2>2
<1>5. pending' \subseteq DOMAIN plan.steps
  <2>1. pending \subseteq DOMAIN plan.steps
    BY GraphTypes
  <2>2. QED
    BY <2>1 DEF Acts
<1>6. /\ ran' \in Runs(plan) /\ Len(ran) \in Nat /\ Len(entries) \in Nat /\ Len(ran') = Len(ran) + Len(entries)
      /\ \A k \in 1..Len(ran) + Len(entries) :
           ran'[k] = IF k <= Len(ran) THEN ran[k] ELSE entries[k - Len(ran)]
  <2>1. PICK R : Runs(plan) = Seq(R)
    BY DEF Runs
  <2>2. ran \in Seq(R) /\ entries \in Seq(R)
    BY <1>2, <2>1, GraphTypes
  <2>3. ran' = ran \o entries
    BY DEF Acts
  <2>4. QED
    BY <2>1, <2>2, <2>3, ConcatProperties, LenProperties
<1>7. QED
  BY <1>1, <1>3, <1>4, <1>5, <1>6 DEF Leaves

\* What ran after a first act did so in turn, and the index stands where the next one begins.
LEMMA FirstTurn ==
  ASSUME GraphInv, NEW outcome, NEW par, NEW tried, NEW order, NEW entries, Acts(outcome, par, tried, order, entries),
         OneByOne(plan), pending = DOMAIN plan.steps, pending # {}, plan.index = 1, ran = <<>>
  PROVE  InTurn' /\ BeforeObserve'
<1>1. PICK b \in 1..Len(plan.steps) : Begins(outcome, par, tried, order, b)
  BY FirstAct
<1>2. PICK n \in Nat : n = Len(plan.steps) /\ b \in 1..n
  BY GraphTypes
<1>3. b \in Nat /\ b >= 1
  BY <1>2
<1>4. Len(ran') = b /\ \A k \in 1..b : ran'[k].step = k /\ ran'[k].ok = (outcome[k] \in Succeeds)
  <2>1. Len(ran) = 0
    BY EmptySeq
  <2>2. Len(entries) = b /\ \A k \in 1..b : entries[k] = [step |-> order[k], ok |-> outcome[order[k]] \in Succeeds]
    <3>1. Tries(outcome, par, tried, order, entries)
      BY Entries
    <3>2. QED
      BY <1>1, <3>1 DEF Tries, Begins
  <2>3. \A k \in 1..b : entries[k] = [step |-> k, ok |-> outcome[k] \in Succeeds]
    BY <1>1, <2>2 DEF Begins
  <2>4. /\ Len(ran') = Len(ran) + Len(entries)
        /\ \A k \in 1..Len(ran) + Len(entries) :
             ran'[k] = IF k <= Len(ran) THEN ran[k] ELSE entries[k - Len(ran)]
    <3>1. Leaves(outcome, par, tried, entries)
      BY ActLeaves
    <3>2. QED
      BY <3>1 DEF Leaves
  <2>5. Len(ran') = b
    BY <1>3, <2>1, <2>2, <2>4
  <2>6. ASSUME NEW k \in 1..b PROVE ran'[k] = entries[k]
    <3>1. k \in 1..Len(ran) + Len(entries) /\ ~ (k <= Len(ran)) /\ k - Len(ran) = k
      BY <1>3, <2>1, <2>2
    <3>2. QED
      BY <2>4, <3>1
  <2>7. PICK m : m = ran'
    OBVIOUS
  <2>8. \A k \in 1..b : m[k] = [step |-> k, ok |-> outcome[k] \in Succeeds]
    BY <2>3, <2>6, <2>7
  <2>9. ASSUME NEW k \in 1..b PROVE m[k].step = k /\ m[k].ok = (outcome[k] \in Succeeds)
    <3>1. PICK good : good = (outcome[k] \in Succeeds)
      OBVIOUS
    <3>2. m[k] = [step |-> k, ok |-> good]
      BY <2>8, <3>1
    <3>3. m[k].step = k /\ m[k].ok = good
      BY <3>2
    <3>4. QED
      BY <3>1, <3>3
  <2>10. QED
    BY <2>5, <2>7, <2>9
<1>5. PICK m : m = ran'
  OBVIOUS
<1>6. Len(m) = b /\ \A k \in 1..b : m[k].step = k /\ m[k].ok = (outcome[k] \in Succeeds)
  BY <1>4, <1>5
<1>7. InTurn'
  <2>1. ASSUME NEW k \in 1..b - 1 PROVE m[k + 1].step = m[k].step + 1
    <3>1. k \in 1..b /\ k + 1 \in 1..b
      BY <1>3
    <3>2. QED
      BY <1>6, <3>1
  <2>2. m[1].step = 1
    BY <1>3, <1>6
  <2>3. QED
    BY <1>5, <1>6, <2>1, <2>2 DEF InTurn
<1>8. m # <<>>
  BY <1>3, <1>6, EmptySeq
<1>9. m[b].step = b /\ m[b].ok = (outcome[b] \in Succeeds)
  BY <1>3, <1>6
<1>10. LastStep' = b
  BY <1>5, <1>6, <1>9 DEF LastStep
<1>11. PICK c \in Nat : c = Successes(par \cup tried, outcome)
  BY Entries DEF Tries
<1>12. plan'.index = IF c = 0 THEN 1 ELSE IF n < c THEN n ELSE c
  <2>1. plan'.index = NextIndex(par \cup tried, outcome)
    <3>1. Leaves(outcome, par, tried, entries)
      BY ActLeaves
    <3>2. QED
      BY <3>1 DEF Leaves
  <2>2. 1 + c - 1 = c
    BY <1>11
  <2>3. QED
    BY <1>2, <1>11, <2>1, <2>2 DEF NextIndex, Smaller
<1>13. CASE outcome[b] \in Succeeds
  <2>1. plan'.index = b
    BY <1>1, <1>2, <1>3, <1>11, <1>12, <1>13 DEF Begins
  <2>2. LastStep' = plan'.index
    BY <1>10, <2>1
  <2>3. QED
    BY <1>5, <1>7, <1>8, <2>2 DEF BeforeObserve
<1>14. CASE outcome[b] \notin Succeeds
  <2>1. c = b - 1
    BY <1>1, <1>11, <1>14 DEF Begins
  <2>2. CASE b = 1
    <3>1. plan'.index = b
      BY <1>12, <2>1, <2>2
    <3>2. LastStep' = plan'.index
      BY <1>10, <3>1
    <3>3. QED
      BY <1>5, <1>7, <1>8, <3>2 DEF BeforeObserve
  <2>3. CASE b # 1
    <3>1. plan'.index + 1 = b
      BY <1>2, <1>3, <1>12, <2>1, <2>3
    <3>2. b - 1 \in 1..b /\ b - 1 # b
      BY <1>3, <2>3
    <3>3. m[b - 1].step # b
      BY <1>6, <3>2
    <3>4. ~ m[b].ok
      BY <1>9, <1>14
    <3>5. Retries(plan.index + 1)'
      BY <1>5, <1>6, <1>10, <3>1, <3>3, <3>4 DEF Retries
    <3>6. QED
      BY <1>5, <1>7, <1>8, <3>5 DEF BeforeObserve
  <2>4. QED
    BY <2>2, <2>3
<1>15. QED
  BY <1>13, <1>14

\* What ran after another act did so in turn: it took the step the index stands at.
LEMMA NextTurn ==
  ASSUME GraphInv, NEW outcome, NEW par, NEW tried, NEW order, NEW entries, Acts(outcome, par, tried, order, entries),
         InTurn, ran # <<>>, pending = {plan.index}, LastStep = plan.index - 1 \/ Retries(plan.index)
  PROVE  InTurn' /\ BeforeObserve'
<1>1. /\ GoesOn(outcome, par, tried, order) /\ Tries(outcome, par, tried, order, entries)
      /\ Leaves(outcome, par, tried, entries)
  BY NextAct, Entries, ActLeaves
<1>2. PICK l \in Nat : l = Len(ran) /\ l # 0
  <2>1. ran \in Runs(plan)
    BY GraphTypes
  <2>2. Len(ran) \in Nat \ {0}
    BY <2>1, EmptySeq DEF Runs
  <2>3. QED
    BY <2>2
<1>3. PICK i \in Nat : i = plan.index
  BY GraphTypes
<1>4. PICK m : m = ran'
  OBVIOUS
<1>5. Len(m) = l + 1 /\ (\A k \in 1..l : m[k] = ran[k]) /\ m[l + 1].step = i
  <2>1. Len(entries) = 1 /\ entries[1] = [step |-> i, ok |-> outcome[order[1]] \in Succeeds]
    BY <1>1, <1>3 DEF Tries, GoesOn
  <2>2. entries[1].step = i
    BY <2>1
  <2>3. /\ Len(m) = l + 1
        /\ \A k \in 1..l + 1 : m[k] = IF k <= l THEN ran[k] ELSE entries[k - l]
    BY <1>1, <1>2, <1>4, <2>1 DEF Leaves
  <2>4. \A k \in 1..l : k \in 1..l + 1 /\ k <= l
    BY <1>2
  <2>5. l + 1 \in 1..l + 1 /\ ~ (l + 1 <= l) /\ (l + 1) - l = 1
    BY <1>2
  <2>6. m[l + 1] = entries[1]
    BY <2>3, <2>5
  <2>7. QED
    BY <2>2, <2>3, <2>4, <2>6
<1>6. \/ ran[l].step = i - 1
      \/ ran[l].step = i /\ ~ ran[l].ok /\ (l > 1 => ran[l - 1].step # i)
  BY <1>2, <1>3 DEF LastStep, Retries
<1>7. /\ \A k \in 1..l - 1 :
           \/ ran[k + 1].step = ran[k].step + 1
           \/ /\ ran[k + 1].step = ran[k].step /\ ~ ran[k].ok
              /\ k > 1 => ran[k - 1].step # ran[k].step
      /\ ran[1].step = 1
  BY <1>2 DEF InTurn
<1>8. ASSUME NEW k \in 1..l
      PROVE  \/ m[k + 1].step = m[k].step + 1
             \/ /\ m[k + 1].step = m[k].step /\ ~ m[k].ok
                /\ k > 1 => m[k - 1].step # m[k].step
  <2>1. k \in Nat /\ m[k] = ran[k] /\ (k > 1 => m[k - 1] = ran[k - 1])
    <3>1. k > 1 => k - 1 \in 1..l
      BY <1>2
    <3>2. QED
      BY <1>5, <3>1
  <2>2. CASE k = l
    <3>1. m[k + 1].step = i
      BY <1>5, <2>2
    <3>2. CASE ran[l].step = i - 1
      <4>1. m[k].step + 1 = i
        BY <1>3, <2>1, <2>2, <3>2
      <4>2. QED
        BY <3>1, <4>1
    <3>3. CASE ran[l].step = i /\ ~ ran[l].ok /\ (l > 1 => ran[l - 1].step # i)
      BY <2>1, <2>2, <3>1, <3>3
    <3>4. QED
      BY <1>6, <3>2, <3>3
  <2>3. CASE k # l
    <3>1. k \in 1..l - 1 /\ k + 1 \in 1..l
      BY <1>2, <2>3
    <3>2. m[k + 1] = ran[k + 1]
      BY <1>5, <3>1
    <3>3. QED
      BY <1>7, <2>1, <3>1, <3>2
  <2>4. QED
    BY <2>2, <2>3
<1>9. InTurn'
  <2>1. 1..Len(m) - 1 = 1..l
    BY <1>2, <1>5
  <2>2. m[1].step = 1
    BY <1>2, <1>5, <1>7
  <2>3. QED
    BY <1>4, <1>8, <2>1, <2>2 DEF InTurn
<1>10. plan'.index = i
  <2>1. plan'.index = NextIndex(par \cup tried, outcome) /\ Successes(par \cup tried, outcome) \in {0, 1}
    BY <1>1 DEF Leaves, GoesOn
  <2>2. PICK n \in Nat : n = Len(plan.steps) /\ i <= n
    BY <1>3, GraphTypes
  <2>3. i + 1 - 1 = i /\ (n < i => n = i)
    BY <2>2
  <2>4. QED
    BY <1>3, <2>1, <2>2, <2>3 DEF NextIndex, Smaller
<1>11. LastStep' = i
  BY <1>4, <1>5 DEF LastStep
<1>12. m # <<>>
  BY <1>2, <1>5, EmptySeq
<1>13. QED
  BY <1>4, <1>9, <1>10, <1>11, <1>12 DEF BeforeObserve

LEMMA ActStep == ASSUME GraphInv, PaceInv', Act PROVE GraphInv'
<1>1. /\ \E outcome, par, tried, order, entries : Acts(outcome, par, tried, order, entries)
      /\ UNCHANGED <<able, iteration, error, planned, refused>> /\ node' = "observe" /\ node = "act"
      /\ able.executor /\ steps < RecursionLimit /\ steps' = steps + 1
  BY ActTaken
<1>2. PICK outcome, par, tried, order, entries : Acts(outcome, par, tried, order, entries)
  BY <1>1
<1>3. Leaves(outcome, par, tried, entries)
  BY <1>2, ActLeaves
<1>4. plan'.steps = plan.steps /\ plan'.delegable = plan.delegable /\ Shaped'
  BY <1>3 DEF Leaves
<1>5. GraphTypeOK'
  <2>1. plan.steps \in Steps /\ plan.delegable \in BOOLEAN /\ error \in BOOLEAN /\ refused \in BOOLEAN
    BY GraphTypes
  <2>2. plan'.index \in Indexes(plan') /\ pending' \subseteq DOMAIN plan'.steps /\ ran' \in Runs(plan')
    BY <1>3, <1>4 DEF Leaves, Indexes, Runs
  <2>3. outcomes' \subseteq Succeeds \cup Failures
    BY <1>3 DEF Leaves
  <2>4. QED
    BY <1>1, <1>4, <2>1, <2>2, <2>3, NodeTypes
<1>6. Turns'
  <2>1. Plain' => Plain
    BY <1>4 DEF Plain, OneByOne
  <2>2. ASSUME Plain PROVE InTurn' /\ BeforeObserve'
    <3>1. InTurn /\ BeforeAct /\ OneByOne(plan)
      BY <1>1, <2>2 DEF GraphInv, Turns, Plain
    <3>2. CASE ran = <<>>
      <4>1. pending = DOMAIN plan.steps /\ plan.index = 1 /\ pending # {}
        BY <1>1, <3>1, <3>2 DEF BeforeAct
      <4>2. QED
        BY <1>2, <3>1, <3>2, <4>1, FirstTurn
    <3>3. CASE ran # <<>>
      <4>1. pending = {plan.index} /\ (LastStep = plan.index - 1 \/ Retries(plan.index))
        BY <3>1, <3>3 DEF BeforeAct
      <4>2. QED
        BY <1>2, <3>1, <3>3, <4>1, NextTurn
    <3>4. QED
      BY <3>2, <3>3
  <2>3. able'.executor /\ node' # "act" /\ node' # "delegate"
    BY <1>1
  <2>4. QED
    BY <2>1, <2>2, <2>3 DEF Turns
<1>7. QED
  BY <1>4, <1>5, <1>6 DEF GraphInv

LEMMA InitGraph == GraphInit => GraphInv
<1>1. SUFFICES ASSUME GraphInit PROVE GraphInv
  OBVIOUS
<1>2. /\ able \in [llm : BOOLEAN, executor : BOOLEAN, delegator : BOOLEAN]
      /\ node = "start" /\ plan = NoPlan /\ pending = {} /\ outcomes = {} /\ iteration = 0
      /\ error = FALSE /\ steps = 0 /\ planned = 0 /\ ran = <<>> /\ refused = FALSE
  BY <1>1 DEF GraphInit
<1>3. plan.steps = <<>> /\ plan.delegable = FALSE /\ plan.index = 1
  BY <1>2 DEF NoPlan
<1>4. GraphTypeOK
  <2>1. plan.steps \in Seq([tool : Tools, parallel : BOOLEAN]) /\ ran \in Seq([step : DOMAIN plan.steps, ok : BOOLEAN])
    BY <1>2, <1>3, EmptySeq
  <2>2. plan.index \in 1..(IF plan.steps = <<>> THEN 1 ELSE Len(plan.steps))
    BY <1>3
  <2>3. iteration \in 0..MaxIterations /\ steps \in 0..RecursionLimit
    BY <1>2, GraphAssumption
  <2>4. QED
    BY <1>2, <1>3, <2>1, <2>2, <2>3 DEF GraphTypeOK, Nodes
<1>5. Shaped
  BY <1>2, <1>3 DEF Shaped, NoPlan
<1>6. Turns
  <2>1. 1..Len(ran) - 1 = {}
    BY <1>2, EmptySeq
  <2>2. InTurn
    BY <1>2, <2>1 DEF InTurn
  <2>3. QED
    BY <1>2, <2>2 DEF Turns
<1>7. QED
  BY <1>1, <1>4, <1>5, <1>6, InitPace DEF GraphInv

LEMMA NextGraph == GraphInv /\ [GraphNext]_graphVars => GraphInv'
<1>1. SUFFICES ASSUME GraphInv, [GraphNext]_graphVars PROVE GraphInv'
  OBVIOUS
<1>2. PaceInv'
  BY <1>1, NextPace DEF GraphInv
<1>3. CASE UNCHANGED graphVars
  <2>1. GraphTypeOK'
    BY <1>1, <1>3 DEF graphVars, GraphInv, GraphTypeOK
  <2>2. Shaped'
    BY <1>1, <1>3 DEF graphVars, GraphInv, Shaped
  <2>3. Turns => Turns'
    BY <1>3 DEF graphVars, Turns, Plain, OneByOne, InTurn, BeforeAct, BeforeObserve, Retries, LastStep
  <2>4. QED
    BY <1>1, <1>2, <2>1, <2>2, <2>3 DEF GraphInv
<1>4. CASE \E p \in Plans : Plan(p)
  BY <1>1, <1>2, <1>4, PlanStep
<1>5. CASE Act
  BY <1>1, <1>2, <1>5, ActStep
<1>6. CASE ObserveContinues
  BY <1>1, <1>2, <1>6, ContinueStep
<1>7. CASE \/ Start \/ PlanFails \/ ActUnconfigured \/ Delegate \/ Reflect \/ Respond \/ OutOfSteps
           \/ ObserveReplans \/ ObserverRefuses \/ ObserveNextRound \/ ObserveCompletes
  BY <1>1, <1>2, <1>7, KeepsStep
<1>8. QED
  BY <1>1, <1>3, <1>4, <1>5, <1>6, <1>7 DEF GraphNext, Node, Observe

\* Whatever the plans are, every variable stays in its set, and a plan without parallel
\* actions runs its steps in order: none is passed over, and only one that failed runs again,
\* once and at once (nodes.py:3062, 3551).
THEOREM RunsInTurn == GraphSpec => []StepsInTurn
<1>1. GraphInv => StepsInTurn
  <2>1. ASSUME GraphInv PROVE GraphTypeOK /\ (Plain => InTurn)
    BY <2>1 DEF GraphInv, Turns
  <2>2. QED
    BY <2>1 DEF StepsInTurn, Plain, InTurn
<1>2. QED
  BY <1>1, InitGraph, NextGraph, PTL DEF GraphSpec

-----------------------------------------------------------------------------
(* SandboxPool: types, and who holds what *)

PCs == {"none", "init", "acquire", "create", "run", "trim"}

LEMMA HappensType ==
  ASSUME TypeOK, NEW kind \in EventKinds, NEW max, Happens(kind, max)
  PROVE  events' \in [EventKinds -> Nat]
BY DEF TypeOK, Happens

LEMMA GoType ==
  ASSUME TypeOK, NEW c \in Callers, NEW pc \in PCs, NEW n \in Nat, made <= n,
         NEW box \in 0..n, Go(c, pc, box)
  PROVE  call' \in [Callers -> [pc : PCs, box : 0..n]]
<1>1. ASSUME NEW d \in Callers PROVE call[d] \in [pc : PCs, box : 0..n]
  BY DEF TypeOK, PCs
<1>2. At(pc, box) \in [pc : PCs, box : 0..n]
  BY DEF At
<1>3. call' = [d \in Callers |-> IF d = c THEN At(pc, box) ELSE call[d]]
  BY DEF TypeOK, Go
<1>4. QED
  BY <1>1, <1>2, <1>3

LEMMA CalmType ==
  ASSUME TypeOK, NEW c \in Callers, NEW n \in Nat, made <= n,
         call' = [call EXCEPT ![c] = Calm]
  PROVE  call' \in [Callers -> [pc : PCs, box : 0..n]]
<1>1. Calm = At("none", NoBox) /\ "none" \in PCs /\ NoBox \in 0..n
  BY DEF Calm, At, PCs, NoBox
<1>2. Go(c, "none", NoBox)
  BY <1>1 DEF Go
<1>3. QED
  BY <1>1, <1>2, GoType

LEMMA CalmSame ==
  ASSUME TypeOK, NEW c \in Callers, call' = [call EXCEPT ![c] = Calm]
  PROVE  call' \in [Callers -> [pc : PCs, box : 0..made]]
<1>1. made \in Nat /\ made <= made
  BY DEF TypeOK
<1>2. QED
  BY <1>1, CalmType

-----------------------------------------------------------------------------
(* Type correctness *)

LEMMA InitType == Init => TypeOK
<1> SUFFICES ASSUME Init PROVE TypeOK
  OBVIOUS
<1>1. made = 0 /\ Calm \in [pc : PCs, box : 0..made]
  BY DEF Init, Calm, NoBox, PCs
<1>2. call \in [Callers -> [pc : PCs, box : 0..made]]
  BY <1>1 DEF Init
<1>3. events \in [EventKinds -> Nat]
  BY DEF Init
<1>4. made \in Nat /\ pool \subseteq 1..made /\ stopped \subseteq 1..made
  BY DEF Init
<1>5. closing \subseteq 1..made /\ busy \subseteq 1..made
  BY DEF Init
<1>6. lock \in BOOLEAN /\ shutting \in BOOLEAN /\ initialized \in BOOLEAN
  BY DEF Init
<1>7. QED
  BY <1>1, <1>2, <1>3, <1>4, <1>5, <1>6 DEF TypeOK, PCs

LEMMA CallType == ASSUME TypeOK, NEW c \in Callers, Call(c) PROVE TypeOK'
<1>1. call' \in [Callers -> [pc : PCs, box : 0..made]]
  <2>1. (IF initialized THEN "acquire" ELSE "init") \in PCs
    BY DEF PCs
  <2>2. made \in Nat /\ NoBox \in 0..made
    BY DEF TypeOK, NoBox
  <2>3. QED
    BY <2>1, <2>2, GoType DEF Call
<1>2. events' \in [EventKinds -> Nat]
  BY HappensType DEF Call, EventKinds
<1>3. QED
  BY <1>1, <1>2 DEF Call, TypeOK, PCs

LEMMA InitializeWithType ==
  ASSUME TypeOK, NEW c \in Callers, NEW n \in Nat, InitializeWith(c, n),
         events' \in [EventKinds -> Nat]
  PROVE  TypeOK'
<1>1. made' \in Nat /\ made <= made' /\ made \in Nat
  BY DEF TypeOK, InitializeWith
<1>2. call' \in [Callers -> [pc : PCs, box : 0..made']]
  BY <1>1, GoType DEF InitializeWith, NoBox, PCs
<1>3. pool' \subseteq 1..made'
  BY <1>1 DEF TypeOK, InitializeWith
<1>4. stopped' \subseteq 1..made' /\ closing' \subseteq 1..made' /\ busy' \subseteq 1..made'
  BY <1>1 DEF TypeOK, InitializeWith
<1>5. QED
  BY <1>1, <1>2, <1>3, <1>4 DEF TypeOK, InitializeWith, PCs

LEMMA InitializeType ==
  ASSUME TypeOK, NEW c \in Callers, Initialize(c) \/ InitializePartly(c)
  PROVE  TypeOK'
<1>1. CASE Initialize(c)
  <2>1. events' \in [EventKinds -> Nat]
    BY <1>1 DEF Initialize, TypeOK, EventKinds
  <2>2. QED
    BY <1>1, <2>1, InitializeWithType, PoolAssumption DEF Initialize
<1>2. CASE InitializePartly(c)
  <2>1. events' \in [EventKinds -> Nat]
    <3>1. events' = [events EXCEPT !["faults"] = events["faults"] + 1,
                                   !["inits"] = events["inits"] + 1]
      BY <1>2 DEF InitializePartly
    <3>2. events \in [EventKinds -> Nat] /\ "faults" \in EventKinds /\ "inits" \in EventKinds
      BY DEF TypeOK, EventKinds
    <3>3. QED
      BY <3>1, <3>2
  <2>2. PICK n \in 0..PoolSize - 1 : InitializeWith(c, n)
    BY <1>2 DEF InitializePartly
  <2>3. n \in Nat
    BY <2>2, PoolAssumption
  <2>4. QED
    BY <2>1, <2>2, <2>3, InitializeWithType
<1>3. QED
  BY <1>1, <1>2

LEMMA AcquireType ==
  ASSUME TypeOK, NEW c \in Callers, AcquireIdle(c) \/ AcquireGrow(c) \/ AcquireRefused(c)
  PROVE  TypeOK'
<1> made \in Nat /\ NoBox \in 0..made
  BY DEF TypeOK, NoBox
<1>1. CASE AcquireIdle(c)
  <2>1. PICK s \in Idles : busy' = busy \cup {s} /\ Go(c, "run", s)
    BY <1>1 DEF AcquireIdle
  <2>2. s \in 1..made
    BY DEF Idles, TypeOK
  <2>3. call' \in [Callers -> [pc : PCs, box : 0..made]]
    BY <2>1, <2>2, GoType DEF PCs
  <2>4. busy' \subseteq 1..made
    BY <2>1, <2>2 DEF TypeOK
  <2>5. QED
    BY <1>1, <2>3, <2>4 DEF TypeOK, PCs, AcquireIdle
<1>2. CASE AcquireGrow(c)
  <2>1. call' \in [Callers -> [pc : PCs, box : 0..made]]
    BY <1>2, GoType DEF AcquireGrow, PCs
  <2>2. QED
    BY <1>2, <2>1 DEF TypeOK, PCs, AcquireGrow
<1>3. CASE AcquireRefused(c)
  <2>1. call' \in [Callers -> [pc : PCs, box : 0..made]]
    BY <1>3, CalmSame DEF AcquireRefused
  <2>2. QED
    BY <1>3, <2>1 DEF TypeOK, PCs, AcquireRefused
<1>4. QED
  BY <1>1, <1>2, <1>3

LEMMA CreateType ==
  ASSUME TypeOK, NEW c \in Callers, Created(c) \/ CreateFails(c)
  PROVE  TypeOK'
<1> made \in Nat /\ NoBox \in 0..made
  BY DEF TypeOK, NoBox
<1>1. CASE Created(c)
  <2>1. made' = made + 1
    BY <1>1 DEF Created
  <2>2. call' \in [Callers -> [pc : PCs, box : 0..made']]
    BY <1>1, <2>1, GoType DEF Created, PCs
  <2>3. pool' \subseteq 1..made' /\ busy' \subseteq 1..made'
    BY <1>1, <2>1 DEF Created, TypeOK
  <2>4. stopped' \subseteq 1..made' /\ closing' \subseteq 1..made'
    BY <1>1, <2>1 DEF Created, TypeOK
  <2>5. QED
    <3>1. lock' \in BOOLEAN /\ shutting' \in BOOLEAN /\ initialized' \in BOOLEAN
      BY <1>1 DEF Created, TypeOK
    <3>2. events' \in [EventKinds -> Nat] /\ made' \in Nat
      BY <1>1, <2>1 DEF Created, TypeOK
    <3>3. QED
      BY <2>2, <2>3, <2>4, <3>1, <3>2 DEF TypeOK, PCs
<1>2. CASE CreateFails(c)
  <2>1. call' \in [Callers -> [pc : PCs, box : 0..made]]
    BY <1>2, CalmSame DEF CreateFails
  <2>2. events' \in [EventKinds -> Nat]
    BY <1>2, HappensType DEF CreateFails, Fault, EventKinds
  <2>3. QED
    BY <1>2, <2>1, <2>2 DEF TypeOK, PCs, CreateFails
<1>3. QED
  BY <1>1, <1>2

LEMMA ReleaseType ==
  ASSUME TypeOK, NEW c \in Callers, Ran(c) \/ Trim(c) \/ TrimFails(c)
  PROVE  TypeOK'
<1> made \in Nat /\ NoBox \in 0..made /\ call[c].box \in 0..made
  BY DEF TypeOK, NoBox
<1>0. Excess(c) \subseteq 1..made
  BY DEF Excess, Idles, TypeOK
<1>1. CASE Ran(c)
  <2>1. call' \in [Callers -> [pc : PCs, box : 0..made]]
    BY <1>1, GoType DEF Ran, PCs
  <2>2. QED
    BY <1>1, <2>1 DEF TypeOK, PCs, Ran
<1>2. CASE Trim(c)
  <2>1. call' \in [Callers -> [pc : PCs, box : 0..made]]
    BY <1>2, CalmSame DEF Trim
  <2>2. pool' \subseteq 1..made /\ stopped' \subseteq 1..made
    BY <1>0, <1>2 DEF Trim, TypeOK
  <2>3. QED
    BY <1>2, <2>1, <2>2 DEF TypeOK, PCs, Trim
<1>3. CASE TrimFails(c)
  <2>1. call' \in [Callers -> [pc : PCs, box : 0..made]]
    BY <1>3, CalmSame DEF TrimFails
  <2>2. stopped' \subseteq 1..made
    BY <1>0, <1>3 DEF TrimFails, TypeOK
  <2>3. events' \in [EventKinds -> Nat]
    BY <1>3, HappensType DEF TrimFails, Fault, EventKinds
  <2>4. QED
    BY <1>3, <2>1, <2>2, <2>3 DEF TypeOK, PCs, TrimFails
<1>4. QED
  BY <1>1, <1>2, <1>3

LEMMA CancelledType == ASSUME TypeOK, NEW c \in Callers, Cancelled(c) PROVE TypeOK'
<1>1. made \in Nat /\ made' \in Nat /\ made <= made'
  BY PoolAssumption DEF TypeOK, Cancelled
<1>2. call' \in [Callers -> [pc : PCs, box : 0..made']]
  BY <1>1, CalmType DEF Cancelled
<1>3. events' \in [EventKinds -> Nat]
  BY HappensType DEF Cancelled, EventKinds
<1>4. pool' \subseteq 1..made' /\ stopped' \subseteq 1..made'
  BY <1>1 DEF TypeOK, Cancelled
<1>5. closing' \subseteq 1..made' /\ busy' \subseteq 1..made'
  BY <1>1 DEF TypeOK, Cancelled
<1>6. lock' \in BOOLEAN
  BY DEF TypeOK, Cancelled
<1>7. QED
  BY <1>1, <1>2, <1>3, <1>4, <1>5, <1>6 DEF TypeOK, PCs, Cancelled

LEMMA ShutdownType ==
  ASSUME TypeOK, Shutdown \/ ShutdownDone \/ \E s \in closing : Destroy(s) \/ DestroyFails(s)
  PROVE  TypeOK'
<1>1. CASE Shutdown
  <2>1. events' \in [EventKinds -> Nat]
    BY <1>1, HappensType DEF Shutdown, EventKinds
  <2>2. QED
    BY <1>1, <2>1 DEF TypeOK, Shutdown
<1>2. CASE ShutdownDone
  BY <1>2 DEF TypeOK, ShutdownDone
<1>3. ASSUME NEW s \in closing, Destroy(s) PROVE TypeOK'
  BY <1>3 DEF TypeOK, Destroy
<1>4. ASSUME NEW s \in closing, DestroyFails(s) PROVE TypeOK'
  <2>1. events' \in [EventKinds -> Nat]
    BY <1>4, HappensType DEF DestroyFails, Fault, EventKinds
  <2>2. stopped' \subseteq 1..made
    BY <1>4 DEF TypeOK, DestroyFails
  <2>3. QED
    BY <1>4, <2>1, <2>2 DEF TypeOK, DestroyFails
<1>5. QED
  BY <1>1, <1>2, <1>3, <1>4

LEMMA NextType == TypeOK /\ [Next]_vars => TypeOK'
<1> SUFFICES ASSUME TypeOK, [Next]_vars PROVE TypeOK'
  OBVIOUS
<1>1. CASE UNCHANGED vars
  BY <1>1 DEF TypeOK, vars
<1>2. CASE Next
  BY <1>2, CallType, InitializeType, AcquireType, CreateType, ReleaseType, CancelledType,
     ShutdownType DEF Next, Execute
<1>3. QED
  BY <1>1, <1>2

\* Every variable of the pool keeps its type, for any callers and pool size.
THEOREM TypeCorrect == Spec => []TypeOK
BY InitType, NextType, PTL DEF Spec

-----------------------------------------------------------------------------
(* Safety *)

\* The exclusive holding of sandboxes rests on BUSY covering every running command,
\* and the safety of trimming on nothing being destroyed but the idle.
ClosingOnlyInShutdown == events.shutdowns = 0 => closing = {}
SafeInv == Exclusive /\ LockHasHolder /\ RunningInPool /\ ClosingOnlyInShutdown

LEMMA InitSafe == Init => SafeInv
BY DEF Init, SafeInv, Exclusive, LockHasHolder, RunningInPool, ClosingOnlyInShutdown,
   Running, Calm

\* What a caller's step does to the caller itself and to the others.
LEMMA GoAt ==
  ASSUME TypeOK, NEW c \in Callers, NEW pc, NEW box, Go(c, pc, box)
  PROVE  /\ call'[c].pc = pc /\ call'[c].box = box
         /\ \A d \in Callers \ {c} : call'[d] = call[d]
BY DEF TypeOK, Go, At

LEMMA CalmAt ==
  ASSUME TypeOK, NEW c \in Callers, call' = [call EXCEPT ![c] = Calm]
  PROVE  /\ call'[c].pc = "none"
         /\ \A d \in Callers \ {c} : call'[d] = call[d]
BY DEF TypeOK, Calm

LEMMA ShutdownCount ==
  ASSUME TypeOK, NEW kind \in EventKinds, NEW max, Happens(kind, max)
  PROVE  events'.shutdowns = 0 => events.shutdowns = 0
BY DEF TypeOK, Happens, EventKinds

\* A step of c that neither runs, creates nor shrinks anything keeps everything.
LEMMA QuietSafe ==
  ASSUME TypeOK, SafeInv, NEW c \in Callers,
         call'[c].pc \notin {"run", "create"},
         \A d \in Callers \ {c} : call'[d] = call[d],
         busy' = busy, pool \subseteq pool', closing' = closing,
         events'.shutdowns = 0 => events.shutdowns = 0,
         lock' = (lock /\ call[c].pc # "create")
  PROVE  SafeInv'
<1>1. \A d \in Callers : Running(d)' => d # c /\ Running(d) /\ call'[d] = call[d]
  BY DEF Running
<1>2. Exclusive'
  BY <1>1 DEF SafeInv, Exclusive, Running
<1>3. RunningInPool'
  BY <1>1 DEF SafeInv, RunningInPool
<1>4. LockHasHolder'
  BY DEF SafeInv, LockHasHolder, TypeOK
<1>5. QED
  BY <1>2, <1>3, <1>4 DEF SafeInv, ClosingOnlyInShutdown

LEMMA QuietStepsSafe ==
  ASSUME TypeOK, SafeInv, NEW c \in Callers,
         \/ Call(c) \/ Initialize(c) \/ InitializePartly(c) \/ AcquireRefused(c)
         \/ CreateFails(c) \/ Cancelled(c)
  PROVE  SafeInv'
<1> lock \in BOOLEAN
  BY DEF TypeOK
<1>1. CASE Call(c)
  <2>1. call'[c].pc \in {"init", "acquire"} /\ \A d \in Callers \ {c} : call'[d] = call[d]
    BY <1>1, GoAt DEF Call
  <2>2. events'.shutdowns = 0 => events.shutdowns = 0
    BY <1>1, ShutdownCount DEF Call, EventKinds
  <2>3. QED
    BY <1>1, <2>1, <2>2, QuietSafe DEF Call
<1>2. ASSUME NEW n \in Nat, InitializeWith(c, n), events'.shutdowns = events.shutdowns
      PROVE  SafeInv'
  <2>1. call'[c].pc = "acquire" /\ \A d \in Callers \ {c} : call'[d] = call[d]
    BY <1>2, GoAt DEF InitializeWith
  <2>2. QED
    BY <1>2, <2>1, QuietSafe DEF InitializeWith
<1>3. CASE Initialize(c)
  <2>1. events'.shutdowns = events.shutdowns
    BY <1>3 DEF Initialize, TypeOK, EventKinds
  <2>2. QED
    BY <1>2, <1>3, <2>1, PoolAssumption DEF Initialize
<1>4. CASE InitializePartly(c)
  <2>1. events'.shutdowns = events.shutdowns
    BY <1>4 DEF InitializePartly, TypeOK, EventKinds
  <2>2. PICK n \in 0..PoolSize - 1 : InitializeWith(c, n)
    BY <1>4 DEF InitializePartly
  <2>3. n \in Nat
    BY <2>2, PoolAssumption
  <2>4. QED
    BY <1>2, <2>1, <2>2, <2>3
<1>5. CASE AcquireRefused(c)
  BY <1>5, CalmAt, QuietSafe DEF AcquireRefused
<1>6. CASE CreateFails(c)
  <2>1. events'.shutdowns = 0 => events.shutdowns = 0
    BY <1>6, ShutdownCount DEF CreateFails, Fault, EventKinds
  <2>2. QED
    BY <1>6, <2>1, CalmAt, QuietSafe DEF CreateFails
<1>7. CASE Cancelled(c)
  <2>1. events'.shutdowns = 0 => events.shutdowns = 0
    BY <1>7, ShutdownCount DEF Cancelled, EventKinds
  <2>2. call'[c].pc = "none" /\ \A d \in Callers \ {c} : call'[d] = call[d]
    BY <1>7, CalmAt DEF Cancelled
  <2>3. QED
    BY <1>7, <2>1, <2>2, QuietSafe DEF Cancelled
<1>8. QED
  BY <1>1, <1>3, <1>4, <1>5, <1>6, <1>7

\* A caller gets a sandbox that nobody runs: an idle one, or a new one.
LEMMA TakeSafe ==
  ASSUME TypeOK, SafeInv, NEW c \in Callers, NEW s, s \notin busy,
         call'[c].pc = "run", call'[c].box = s,
         \A d \in Callers \ {c} : call'[d] = call[d],
         busy' = busy \cup {s}, pool \subseteq pool', s \in pool',
         closing' = closing, events' = events,
         lock' = (lock /\ call[c].pc # "create")
  PROVE  SafeInv'
<1>1. \A d \in Callers : Running(d)' => d = c \/ (Running(d) /\ call'[d] = call[d])
  BY DEF Running
<1>2. \A d \in Callers : Running(d) => call[d].box # s
  BY DEF SafeInv, Exclusive
<1>3. Exclusive'
  BY <1>1, <1>2 DEF SafeInv, Exclusive
<1>4. RunningInPool'
  BY <1>1 DEF SafeInv, RunningInPool
<1>5. LockHasHolder'
  BY DEF SafeInv, LockHasHolder, TypeOK
<1>6. QED
  BY <1>3, <1>4, <1>5 DEF SafeInv, ClosingOnlyInShutdown

LEMMA AcquireSafe ==
  ASSUME TypeOK, SafeInv, NEW c \in Callers, AcquireIdle(c) \/ AcquireGrow(c) \/ Created(c)
  PROVE  SafeInv'
<1> lock \in BOOLEAN
  BY DEF TypeOK
<1>1. CASE AcquireIdle(c)
  <2>1. PICK s \in Idles : busy' = busy \cup {s} /\ Go(c, "run", s)
    BY <1>1 DEF AcquireIdle
  <2>2. QED
    BY <1>1, <2>1, GoAt, TakeSafe DEF AcquireIdle, Idles
<1>2. CASE AcquireGrow(c)
  <2>1. call'[c].pc = "create" /\ \A d \in Callers \ {c} : call'[d] = call[d]
    BY <1>2, GoAt DEF AcquireGrow
  <2>2. \A d \in Callers : Running(d)' => d # c /\ Running(d) /\ call'[d] = call[d]
    BY <2>1 DEF Running
  <2>3. \A d \in Callers : call[d].pc # "create"
    BY <1>2 DEF AcquireGrow, SafeInv, LockHasHolder
  <2>4. LockHasHolder'
    BY <1>2, <2>1, <2>3 DEF AcquireGrow, LockHasHolder
  <2>5. Exclusive' /\ RunningInPool'
    BY <1>2, <2>2 DEF AcquireGrow, SafeInv, Exclusive, RunningInPool
  <2>6. QED
    BY <1>2, <2>4, <2>5 DEF AcquireGrow, SafeInv, ClosingOnlyInShutdown
<1>3. CASE Created(c)
  <2>1. made + 1 \notin busy
    BY DEF TypeOK
  <2>2. QED
    BY <1>3, <2>1, GoAt, TakeSafe DEF Created
<1>4. QED
  BY <1>1, <1>2, <1>3

LEMMA ReleaseSafe ==
  ASSUME TypeOK, SafeInv, NEW c \in Callers, Ran(c) \/ Trim(c) \/ TrimFails(c)
  PROVE  SafeInv'
<1> lock \in BOOLEAN
  BY DEF TypeOK
<1>1. CASE Ran(c)
  <2>1. call'[c].pc = "trim" /\ \A d \in Callers \ {c} : call'[d] = call[d]
    BY <1>1, GoAt DEF Ran
  <2>2. \A d \in Callers : Running(d)' => d # c /\ Running(d) /\ call'[d] = call[d]
    BY <2>1 DEF Running
  <2>3. \A d \in Callers : Running(d)' => call[d].box # call[c].box
    BY <1>1, <2>2 DEF Ran, SafeInv, Exclusive, Running
  <2>4. Exclusive'
    BY <1>1, <2>2, <2>3 DEF Ran, SafeInv, Exclusive
  <2>5. RunningInPool'
    BY <1>1, <2>2 DEF Ran, SafeInv, RunningInPool
  <2>6. LockHasHolder'
    BY <1>1, <2>1 DEF Ran, SafeInv, LockHasHolder
  <2>7. QED
    BY <1>1, <2>4, <2>5, <2>6 DEF Ran, SafeInv, ClosingOnlyInShutdown
<1>2. CASE Trim(c)
  <2>1. call'[c].pc = "none" /\ \A d \in Callers \ {c} : call'[d] = call[d]
    BY <1>2, CalmAt DEF Trim
  <2>2. \A d \in Callers : Running(d)' => d # c /\ Running(d) /\ call'[d] = call[d]
    BY <2>1 DEF Running
  <2>3. pool \cap busy \subseteq pool'
    BY <1>2 DEF Trim, Excess, Idles
  <2>4. Exclusive'
    BY <1>2, <2>2 DEF Trim, SafeInv, Exclusive
  <2>5. RunningInPool'
    BY <1>2, <2>2, <2>3 DEF Trim, SafeInv, RunningInPool, Exclusive
  <2>6. LockHasHolder'
    BY <1>2, <2>1 DEF Trim, SafeInv, LockHasHolder
  <2>7. QED
    BY <1>2, <2>4, <2>5, <2>6 DEF Trim, SafeInv, ClosingOnlyInShutdown
<1>3. CASE TrimFails(c)
  <2>1. events'.shutdowns = 0 => events.shutdowns = 0
    BY <1>3, ShutdownCount DEF TrimFails, Fault, EventKinds
  <2>2. call'[c].pc = "none" /\ \A d \in Callers \ {c} : call'[d] = call[d]
    BY <1>3, CalmAt DEF TrimFails
  <2>3. QED
    BY <1>3, <2>1, <2>2, QuietSafe DEF TrimFails
<1>4. QED
  BY <1>1, <1>2, <1>3

LEMMA ShutdownSafe ==
  ASSUME TypeOK, SafeInv,
         Shutdown \/ ShutdownDone \/ \E s \in closing : Destroy(s) \/ DestroyFails(s)
  PROVE  SafeInv'
<1>1. UNCHANGED <<call, busy, lock>>
  BY DEF Shutdown, ShutdownDone, Destroy, DestroyFails
<1>2. Exclusive' /\ LockHasHolder'
  BY <1>1 DEF SafeInv, Exclusive, LockHasHolder, Running
<1>3. events'.shutdowns = 0 => UNCHANGED <<pool, closing>> /\ events.shutdowns = 0
  <2>1. CASE Shutdown
    BY <2>1 DEF Shutdown, Happens, TypeOK, EventKinds
  <2>2. CASE ShutdownDone
    BY <2>2 DEF ShutdownDone
  <2>3. ASSUME NEW s \in closing, Destroy(s) \/ DestroyFails(s)
        PROVE  events'.shutdowns # 0
    <3>1. events.shutdowns # 0
      BY <2>3 DEF SafeInv, ClosingOnlyInShutdown
    <3>2. events'.shutdowns = 0 => events.shutdowns = 0
      BY <2>3, ShutdownCount DEF Destroy, DestroyFails, Fault, EventKinds
    <3>3. QED
      BY <3>1, <3>2
  <2>4. QED
    BY <2>1, <2>2, <2>3
<1>4. RunningInPool' /\ ClosingOnlyInShutdown'
  BY <1>1, <1>3 DEF SafeInv, RunningInPool, ClosingOnlyInShutdown, Running
<1>5. QED
  BY <1>2, <1>4 DEF SafeInv

LEMMA NextSafe == TypeOK /\ SafeInv /\ [Next]_vars => SafeInv'
<1> SUFFICES ASSUME TypeOK, SafeInv, [Next]_vars PROVE SafeInv'
  OBVIOUS
<1>1. CASE UNCHANGED vars
  BY <1>1 DEF vars, SafeInv, Exclusive, LockHasHolder, RunningInPool, ClosingOnlyInShutdown, Running
<1>2. CASE Next
  BY <1>2, QuietStepsSafe, AcquireSafe, ReleaseSafe, ShutdownSafe DEF Next, Execute
<1>3. QED
  BY <1>1, <1>2

LEMMA SpecSafe == Spec => []SafeInv
BY InitType, NextType, InitSafe, NextSafe, PTL DEF Spec

\* No container runs the commands of two callers, and a running one is BUSY.
THEOREM SandboxesExclusive == Spec => []Exclusive
<1>1. SafeInv => Exclusive
  BY DEF SafeInv
<1>2. QED
  BY <1>1, SpecSafe, PTL

\* The pool's lock always has exactly one holder while it is held.
THEOREM LockNeverLost == Spec => []LockHasHolder
<1>1. SafeInv => LockHasHolder
  BY DEF SafeInv
<1>2. QED
  BY <1>1, SpecSafe, PTL

\* Removing excess sandboxes never takes the one a command is running in.
THEOREM TrimSparesRunning == Spec => []RunningInPool
<1>1. SafeInv => RunningInPool
  BY DEF SafeInv
<1>2. QED
  BY <1>1, SpecSafe, PTL

-----------------------------------------------------------------------------
(* The size of the pool.  The container that is being created has its place   *)
(* reserved by the lock, and who passed initialize has an initialization      *)
(* behind it.                                                                 *)

Reserved == IF lock THEN 1 ELSE 0
Room == PoolSize * (1 + events["inits"])
Initializers ==
  /\ initialized => events["inits"] >= 1
  /\ \A c \in Callers : call[c].pc \in {"acquire", "create", "run", "trim"} => events["inits"] >= 1
RoomInv == Initializers /\ Cardinality(pool) + Reserved <= Room

LEMMA PoolFinite == TypeOK => IsFiniteSet(pool) /\ Cardinality(pool) \in Nat /\ Reserved \in {0, 1} /\ Room \in Nat
<1> SUFFICES ASSUME TypeOK
             PROVE  IsFiniteSet(pool) /\ Cardinality(pool) \in Nat /\ Reserved \in {0, 1} /\ Room \in Nat
  OBVIOUS
<1>1. IsFiniteSet(1..made) /\ pool \in SUBSET (1..made)
  BY FS_Interval DEF TypeOK
<1>2. IsFiniteSet(pool)
  BY <1>1, FS_Subset
<1>3. \A n, k \in Nat : n * (1 + k) \in Nat
  OBVIOUS
<1>4. events["inits"] \in Nat /\ PoolSize \in Nat
  BY PoolAssumption DEF TypeOK, EventKinds
<1>5. QED
  BY <1>2, <1>3, <1>4, FS_CardinalityType DEF Reserved, Room

\* Nothing but an initialization changes the count of initializations.
LEMMA InitsStay ==
  ASSUME TypeOK, NEW kind \in EventKinds \ {"inits"}, NEW max, Happens(kind, max)
  PROVE  events'["inits"] = events["inits"]
BY DEF TypeOK, Happens, EventKinds

\* A step of c that brings no container and takes no lock.
LEMMA NoGrowth ==
  ASSUME TypeOK, RoomInv, pool' \subseteq pool, lock' => lock, events'["inits"] = events["inits"],
         initialized' => initialized,
         \A d \in Callers : \/ call'[d].pc \in {"none", "init"}
                            \/ call[d].pc \in {"acquire", "create", "run", "trim"}
                            \/ initialized
  PROVE  RoomInv'
<1>1. IsFiniteSet(pool) /\ pool' \in SUBSET pool
  BY PoolFinite
<1>2. Cardinality(pool') <= Cardinality(pool) /\ Cardinality(pool') \in Nat
  BY <1>1, FS_Subset, FS_CardinalityType
<1>3. Reserved' <= Reserved /\ Room' = Room
  BY DEF Reserved, Room
<1>4. Cardinality(pool) \in Nat /\ Reserved \in {0, 1} /\ Reserved' \in {0, 1} /\ Room \in Nat
  BY PoolFinite DEF Reserved
<1>5. Cardinality(pool') + Reserved' <= Room'
  BY <1>2, <1>3, <1>4 DEF RoomInv
<1>6. Initializers'
  BY DEF RoomInv, Initializers
<1>7. QED
  BY <1>5, <1>6 DEF RoomInv

LEMMA InitializeRoom ==
  ASSUME TypeOK, RoomInv, NEW c \in Callers, Initialize(c) \/ InitializePartly(c)
  PROVE  RoomInv'
<1>1. events'["inits"] = events["inits"] + 1 /\ events["inits"] \in Nat
  BY DEF Initialize, InitializePartly, TypeOK, EventKinds
<1>2. PICK n \in 0..PoolSize : InitializeWith(c, n)
  BY PoolAssumption DEF Initialize, InitializePartly
<1>3. IsFiniteSet(pool) /\ Cardinality(pool) \in Nat /\ Reserved \in {0, 1} /\ Room \in Nat
  BY PoolFinite
<1>4. Cardinality(pool') <= Cardinality(pool) + n /\ Cardinality(pool') \in Nat
  <2> DEFINE new == (made + 1)..(made + n)
  <2>1. made \in Nat /\ n \in Nat /\ pool' = pool \cup new
    BY <1>2, PoolAssumption DEF InitializeWith, TypeOK
  <2>2. IsFiniteSet(new) /\ Cardinality(new) = n
    BY <2>1, FS_Interval
  <2> HIDE DEF new
  <2>3. pool \cap new \in SUBSET pool
    OBVIOUS
  <2>4. Cardinality(pool \cap new) \in Nat
    BY <1>3, <2>3, FS_Subset, FS_CardinalityType
  <2>5. /\ IsFiniteSet(pool \cup new)
        /\ Cardinality(pool \cup new) = Cardinality(pool) + Cardinality(new) - Cardinality(pool \cap new)
    BY <1>3, <2>2, FS_Union
  <2>6. Cardinality(pool \cup new) \in Nat
    BY <2>5, FS_CardinalityType
  <2>7. QED
    BY <1>3, <2>1, <2>2, <2>4, <2>5, <2>6
<1>5. Room' = Room + PoolSize
  <2>1. \A p, k \in Nat : p * (1 + (k + 1)) = p * (1 + k) + p
    OBVIOUS
  <2>2. QED
    BY <1>1, <2>1, PoolAssumption DEF Room
<1>6. Reserved' = Reserved
  BY <1>2 DEF InitializeWith, Reserved
<1>7. Cardinality(pool') + Reserved' <= Room'
  BY <1>2, <1>3, <1>4, <1>5, <1>6, PoolAssumption DEF RoomInv
<1>8. Initializers'
  <2>1. events'["inits"] >= 1
    BY <1>1
  <2>2. QED
    BY <2>1 DEF Initializers
<1>9. QED
  BY <1>7, <1>8 DEF RoomInv

LEMMA GrowRoom ==
  ASSUME TypeOK, RoomInv, NEW c \in Callers, AcquireGrow(c)
  PROVE  RoomInv'
<1>1. UNCHANGED <<pool, initialized, events>> /\ Cardinality(pool) < 2 * PoolSize /\ call[c].pc = "acquire"
  BY DEF AcquireGrow, MayGrow
<1>2. events["inits"] >= 1 /\ events["inits"] \in Nat
  BY <1>1 DEF RoomInv, Initializers, TypeOK, EventKinds
<1>3. 2 * PoolSize <= Room
  <2>1. \A p, k \in Nat : k >= 1 => 2 * p <= p * (1 + k)
    <3>1. TAKE p, k \in Nat
    <3>2. HAVE k >= 1
    <3>3. PICK j \in Nat : k = j + 1
      <4>1. k - 1 \in Nat /\ k = (k - 1) + 1
        BY <3>2
      <4>2. QED
        BY <4>1
    <3>4. p * (1 + k) = 2 * p + p * j /\ p * j \in Nat
      BY <3>3
    <3>5. QED
      BY <3>4
  <2>2. QED
    BY <1>2, <2>1, PoolAssumption DEF Room
<1>4. Reserved' \in {0, 1} /\ Room' = Room /\ Cardinality(pool) \in Nat /\ Room \in Nat
  BY <1>1, PoolFinite DEF Reserved, Room
<1>5. Cardinality(pool') + Reserved' <= Room'
  BY <1>1, <1>3, <1>4, PoolAssumption
<1>6. Initializers'
  BY <1>1, <1>2 DEF RoomInv, Initializers
<1>7. QED
  BY <1>5, <1>6 DEF RoomInv

\* The container takes the place the lock has kept.
LEMMA CreatedRoom ==
  ASSUME TypeOK, SafeInv, RoomInv, NEW c \in Callers, Created(c)
  PROVE  RoomInv'
<1>1. /\ UNCHANGED <<initialized, events>> /\ call[c].pc = "create" /\ pool' = pool \cup {made + 1}
      /\ lock' = FALSE
  BY DEF Created
<1>2. lock
  BY <1>1 DEF SafeInv, LockHasHolder
<1>3. IsFiniteSet(pool) /\ Cardinality(pool) \in Nat /\ Room \in Nat
  BY PoolFinite
<1>4. Cardinality(pool') <= Cardinality(pool) + 1 /\ Cardinality(pool') \in Nat
  <2>1. /\ IsFiniteSet(pool \cup {made + 1})
        /\ Cardinality(pool \cup {made + 1}) = IF made + 1 \in pool THEN Cardinality(pool) ELSE Cardinality(pool) + 1
    BY <1>3, FS_AddElement
  <2>2. Cardinality(pool \cup {made + 1}) \in Nat
    BY <2>1, FS_CardinalityType
  <2>3. QED
    BY <1>1, <1>3, <2>1, <2>2
<1>5. Reserved = 1 /\ Reserved' = 0 /\ Room' = Room
  BY <1>1, <1>2 DEF Reserved, Room
<1>6. Cardinality(pool') + Reserved' <= Room'
  BY <1>3, <1>4, <1>5 DEF RoomInv
<1>7. Initializers'
  BY <1>1 DEF RoomInv, Initializers
<1>8. QED
  BY <1>6, <1>7 DEF RoomInv

LEMMA OtherRoom ==
  ASSUME TypeOK, RoomInv, NEW c \in Callers,
         \/ Call(c) \/ AcquireIdle(c) \/ AcquireRefused(c) \/ CreateFails(c)
         \/ Ran(c) \/ Trim(c) \/ TrimFails(c) \/ Cancelled(c)
  PROVE  RoomInv'
<1>0. \A d \in Callers : call[d].pc \in {"none", "init", "acquire", "create", "run", "trim"}
  BY DEF TypeOK
<1>1. pool' \subseteq pool /\ (lock' => lock) /\ UNCHANGED initialized
  <2>1. pool' \subseteq pool /\ UNCHANGED initialized
    BY DEF Call, AcquireIdle, AcquireRefused, CreateFails, Ran, Trim, TrimFails, Cancelled
  <2>2. lock' = lock \/ lock' = FALSE \/ (Cancelled(c) /\ lock' = (lock /\ call[c].pc # "create"))
    BY DEF Call, AcquireIdle, AcquireRefused, CreateFails, Ran, Trim, TrimFails, Cancelled
  <2>3. lock' => lock
    BY <2>2
  <2>4. QED
    BY <2>1, <2>3
<1>2. events'["inits"] = events["inits"]
  BY InitsStay DEF Call, AcquireIdle, AcquireRefused, CreateFails, Fault, Ran, Trim, TrimFails, Cancelled, EventKinds
<1>3. ASSUME NEW pc, NEW box, Go(c, pc, box),
             pc \in {"none", "init"} \/ call[c].pc \in {"acquire", "create", "run", "trim"} \/ initialized
      PROVE  RoomInv'
  <2>1. call'[c].pc = pc /\ \A d \in Callers \ {c} : call'[d] = call[d]
    BY <1>3, GoAt
  <2>2. \A d \in Callers : \/ call'[d].pc \in {"none", "init"}
                           \/ call[d].pc \in {"acquire", "create", "run", "trim"}
                           \/ initialized
    BY <1>0, <1>3, <2>1
  <2>3. QED
    BY <1>1, <1>2, <2>2, NoGrowth
<1>4. ASSUME call' = [call EXCEPT ![c] = Calm] PROVE RoomInv'
  <2>1. call'[c].pc = "none" /\ \A d \in Callers \ {c} : call'[d] = call[d]
    BY <1>4, CalmAt
  <2>2. \A d \in Callers : \/ call'[d].pc \in {"none", "init"}
                           \/ call[d].pc \in {"acquire", "create", "run", "trim"}
                           \/ initialized
    BY <1>0, <2>1
  <2>3. QED
    BY <1>1, <1>2, <2>2, NoGrowth
<1>5. CASE Call(c)
  BY <1>3, <1>5 DEF Call
<1>6. CASE AcquireIdle(c)
  BY <1>3, <1>6 DEF AcquireIdle
<1>7. CASE Ran(c)
  BY <1>3, <1>7 DEF Ran
<1>8. CASE AcquireRefused(c) \/ CreateFails(c) \/ Trim(c) \/ TrimFails(c) \/ Cancelled(c)
  BY <1>4, <1>8 DEF AcquireRefused, CreateFails, Trim, TrimFails, Cancelled
<1>9. QED
  BY <1>5, <1>6, <1>7, <1>8

LEMMA ShutdownRoom ==
  ASSUME TypeOK, RoomInv,
         Shutdown \/ ShutdownDone \/ \E s \in closing : Destroy(s) \/ DestroyFails(s)
  PROVE  RoomInv'
<1>1. /\ pool' \subseteq pool /\ UNCHANGED <<call, lock>> /\ (initialized' => initialized)
  BY DEF Shutdown, ShutdownDone, Destroy, DestroyFails
<1>2. events'["inits"] = events["inits"]
  BY InitsStay DEF Shutdown, ShutdownDone, Destroy, DestroyFails, Fault, EventKinds
<1>3. \A d \in Callers : call[d].pc \in {"none", "init", "acquire", "create", "run", "trim"}
  BY DEF TypeOK
<1>4. QED
  BY <1>1, <1>2, <1>3, NoGrowth

LEMMA InitRoom == Init => RoomInv
<1> SUFFICES ASSUME Init
             PROVE  RoomInv
  OBVIOUS
<1>1. Cardinality(pool) = 0 /\ Reserved = 0
  BY FS_EmptySet DEF Init, Reserved
<1>2. Room \in Nat
  BY InitType, PoolFinite
<1>3. Initializers
  BY DEF Init, Initializers, Calm
<1>4. QED
  BY <1>1, <1>2, <1>3 DEF RoomInv

LEMMA NextRoom == TypeOK /\ SafeInv /\ RoomInv /\ [Next]_vars => RoomInv'
<1> SUFFICES ASSUME TypeOK, SafeInv, RoomInv, [Next]_vars PROVE RoomInv'
  OBVIOUS
<1>1. CASE UNCHANGED vars
  BY <1>1 DEF vars, RoomInv, Initializers, Reserved, Room
<1>2. CASE Next
  BY <1>2, InitializeRoom, GrowRoom, CreatedRoom, OtherRoom, ShutdownRoom DEF Next, Execute
<1>3. QED
  BY <1>1, <1>2

\* The pool holds at most twice its size, and its size more for each further
\* initialization that overlapped the first or followed a shutdown.
THEOREM PoolBounded == Spec => []OverflowBounded
<1>1. TypeOK /\ RoomInv => OverflowBounded
  BY PoolFinite DEF RoomInv, Room, OverflowBounded
<1>2. QED
  BY <1>1, InitType, NextType, InitRoom, NextRoom, SpecSafe, PTL DEF Spec
=============================================================================
