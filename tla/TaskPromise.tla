----------------------------- MODULE TaskPromise -----------------------------
(***************************************************************************)
(* What the task queue promises for each task on its own: it is admitted    *)
(* once; while it is live it can be answered, buried or dropped; only a     *)
(* buried task can come back; and what is gone never runs again.            *)
(***************************************************************************)
CONSTANT Tasks
VARIABLES place,     \* "new", "live", "dead" (buried) or "gone"
          answered   \* has a result of the task been published

vars == <<place, answered>>

Init ==
  /\ place = [t \in Tasks |-> "new"]
  /\ answered = [t \in Tasks |-> FALSE]

Moves == {<<"new", "live">>, <<"new", "gone">>, <<"live", "dead">>, <<"live", "gone">>,
          <<"dead", "live">>, <<"dead", "gone">>}

\* A task stays where it is or makes one move; an answer comes from a live task,
\* is not taken back, and the task is not buried in the same step.
TaskStep(t) ==
  /\ place'[t] = place[t] \/ <<place[t], place'[t]>> \in Moves
  /\ answered[t] => answered'[t]
  /\ answered'[t] /\ ~ answered[t] => place[t] = "live" /\ place'[t] \in {"live", "gone"}

\* One command can move several tasks: a deletion, the death of a consumer.
Next ==
  /\ DOMAIN place' = Tasks /\ DOMAIN answered' = Tasks
  /\ \A t \in Tasks : TaskStep(t)

Spec == Init /\ [][Next]_vars
=============================================================================
