--------------------------- MODULE RequestPromise ---------------------------
(***************************************************************************)
(* What the link promises for each request on its own: the service runs at  *)
(* most once, the call ends at most once, and an answer is the one the      *)
(* service gave.  A call may fail although the service did its work.        *)
(***************************************************************************)
CONSTANT Requests
VARIABLES call,    \* "new", "waiting", "ok", "error" (the service's), "failed" (the link's)
          served   \* "none", "completed" or "failed"

vars == <<call, served>>

Init ==
  /\ call = [r \in Requests |-> "new"]
  /\ served = [r \in Requests |-> "none"]

Ended(r) == call[r] \in {"ok", "error", "failed"}

Step(r) ==
  /\ call'[r] # call[r] => /\ ~ Ended(r) /\ call'[r] # "new"
                            /\ call[r] = "new" => call'[r] \in {"waiting", "failed"}
  /\ call'[r] = "ok" => served[r] = "completed"
  /\ call'[r] = "error" => served[r] = "failed"
  /\ served'[r] # served[r] => served[r] = "none" /\ call[r] # "new"

Next ==
  /\ DOMAIN call' = Requests /\ DOMAIN served' = Requests
  /\ \A r \in Requests : Step(r)

Spec == Init /\ [][Next]_vars
=============================================================================
