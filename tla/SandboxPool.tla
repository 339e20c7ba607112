----------------------------- MODULE SandboxPool -----------------------------
(***************************************************************************)
(* The pool of sandbox containers of the Python runtime: SandboxPool and    *)
(* the way SandboxManager.execute_code and execute_shell use it             *)
(* (runtime/src/sandbox/manager.py).                                        *)
(*                                                                          *)
(* Callers are asyncio tasks: a step runs from one suspension to the next.  *)
(* Suspensions are the pool's lock when it is taken, and the threads that   *)
(* create a container or run a command; cleanup, stop and remove call       *)
(* Docker without suspending.  A caller may be cancelled while suspended.   *)
(***************************************************************************)
EXTENDS Integers, FiniteSets

CONSTANTS
  Callers,      \* tasks that execute code
  PoolSize,
  MaxCalls, MaxFaults, MaxCancels, MaxShutdowns   \* bounds of the model

ASSUME PoolAssumption ==
  /\ PoolSize \in Nat \ {0}
  /\ {MaxCalls, MaxFaults, MaxCancels, MaxShutdowns} \subseteq Nat

VARIABLES
  pool,         \* keys of SandboxPool.sandboxes
  busy,         \* sandboxes whose status is BUSY; the others are IDLE
  made,         \* containers started so far
  stopped,      \* containers that Docker has stopped
  lock,         \* is SandboxPool.lock held across a suspension
  call,         \* where each caller is, and the sandbox it has
  closing,      \* sandboxes shutdown() has listed and not yet destroyed
  shutting,     \* is shutdown() under way
  initialized,  \* SandboxManager._initialized
  events        \* events so far

vars == <<pool, busy, made, stopped, lock, call, closing, shutting, initialized, events>>

NoBox == 0   \* sandboxes are numbered as they are made, from 1
Calm == [pc |-> "none", box |-> NoBox]
At(pc, box) == [pc |-> pc, box |-> box]
EventKinds == {"calls", "faults", "cancels", "shutdowns", "inits"}

Init ==
  /\ pool = {}
  /\ busy = {}
  /\ made = 0
  /\ stopped = {}
  /\ lock = FALSE
  /\ call = [c \in Callers |-> Calm]
  /\ closing = {}
  /\ shutting = FALSE
  /\ initialized = FALSE
  /\ events = [e \in EventKinds |-> 0]

Happens(kind, max) == events[kind] < max /\ events' = [events EXCEPT ![kind] = @ + 1]
Fault == Happens("faults", MaxFaults)
Go(c, pc, box) == call' = [call EXCEPT ![c] = At(pc, box)]

-----------------------------------------------------------------------------
(* initialize: the flag is read, then the containers are created in threads. *)

Call(c) ==
  /\ call[c].pc = "none"
  /\ Happens("calls", MaxCalls)
  /\ Go(c, IF initialized THEN "acquire" ELSE "init", NoBox)
  /\ UNCHANGED <<pool, busy, made, stopped, lock, closing, shutting, initialized>>

\* gather has returned: what was created joins the pool, all at once.  Creations
\* that failed are logged, and the pool is smaller.
InitializeWith(c, n) ==
  /\ call[c].pc = "init"
  /\ made' = made + n
  /\ pool' = pool \cup (made + 1)..(made + n)
  /\ initialized' = TRUE
  /\ Go(c, "acquire", NoBox)
  /\ UNCHANGED <<busy, stopped, lock, closing, shutting>>

Initialize(c) == InitializeWith(c, PoolSize) /\ events' = [events EXCEPT !.inits = @ + 1]

InitializePartly(c) ==
  /\ events.faults < MaxFaults
  /\ events' = [events EXCEPT !.faults = @ + 1, !.inits = @ + 1]
  /\ \E n \in 0..PoolSize - 1 : InitializeWith(c, n)

-----------------------------------------------------------------------------
(* acquire, under the lock *)

Idles == pool \ busy
\* The dict keeps the order of creation.
First(s) == \A i \in Idles : s <= i

\* Variant for sensitivity: the sandbox is handed out without being marked.
AcquireUnmarked(c) ==
  /\ call[c].pc = "acquire" /\ ~ lock
  /\ \E s \in Idles : First(s) /\ Go(c, "run", s)
  /\ UNCHANGED <<pool, busy, made, stopped, lock, closing, shutting, initialized, events>>

AcquireIdle(c) ==
  /\ call[c].pc = "acquire" /\ ~ lock
  /\ \E s \in Idles :
       /\ First(s)
       /\ busy' = busy \cup {s}
       /\ Go(c, "run", s)
  /\ UNCHANGED <<pool, made, stopped, lock, closing, shutting, initialized, events>>

\* Variant for sensitivity: one container above the overflow.
MayGrowOnceMore == Cardinality(pool) <= 2 * PoolSize
\* "Allow 2x overflow".
MayGrow == Cardinality(pool) < 2 * PoolSize

AcquireGrow(c) ==
  /\ call[c].pc = "acquire" /\ ~ lock
  /\ Idles = {} /\ MayGrow
  /\ lock' = TRUE
  /\ Go(c, "create", NoBox)
  /\ UNCHANGED <<pool, busy, made, stopped, closing, shutting, initialized, events>>

AcquireRefused(c) ==
  /\ call[c].pc = "acquire" /\ ~ lock
  /\ Idles = {} /\ ~ MayGrow
  /\ call' = [call EXCEPT ![c] = Calm]
  /\ UNCHANGED <<pool, busy, made, stopped, lock, closing, shutting, initialized, events>>

\* Variant for sensitivity: the number of the new container is not used up.
CreatedUncounted(c) ==
  /\ call[c].pc = "create"
  /\ made' = made
  /\ pool' = pool \cup {made + 1}
  /\ busy' = busy \cup {made + 1}
  /\ Go(c, "run", made + 1)
  /\ lock' = FALSE
  /\ UNCHANGED <<stopped, closing, shutting, initialized, events>>

Created(c) ==
  /\ call[c].pc = "create"
  /\ made' = made + 1
  /\ pool' = pool \cup {made + 1}
  /\ busy' = busy \cup {made + 1}
  /\ Go(c, "run", made + 1)
  /\ lock' = FALSE
  /\ UNCHANGED <<stopped, closing, shutting, initialized, events>>

\* Variant for sensitivity: the lock is not released when the creation raises.
CreateFailsLocked(c) ==
  /\ call[c].pc = "create"
  /\ Fault
  /\ call' = [call EXCEPT ![c] = Calm]
  /\ UNCHANGED <<pool, busy, made, stopped, lock, closing, shutting, initialized>>

CreateFails(c) ==
  /\ call[c].pc = "create"
  /\ Fault
  /\ call' = [call EXCEPT ![c] = Calm]
  /\ lock' = FALSE
  /\ UNCHANGED <<pool, busy, made, stopped, closing, shutting, initialized>>

-----------------------------------------------------------------------------
(* execute and release *)

\* However the command ends - result, timeout, error (status ERROR), failed upload,
\* cancellation - the finally clause calls release, which cleans up and sets the
\* status to IDLE before it can suspend.
Ran(c) ==
  /\ call[c].pc = "run"
  /\ busy' = busy \ {call[c].box}
  /\ Go(c, "trim", call[c].box)
  /\ UNCHANGED <<pool, made, stopped, lock, closing, shutting, initialized, events>>

\* Variant for sensitivity: any other sandbox counts as excess, idle or not.
ExcessAnyone(c) == IF Cardinality(pool) > PoolSize THEN pool \ {call[c].box} ELSE {}
\* One of the idle others, if the pool is too large.
Excess(c) == IF Cardinality(pool) > PoolSize THEN Idles \ {call[c].box} ELSE {}

Trim(c) ==
  /\ call[c].pc = "trim" /\ ~ lock
  /\ IF Excess(c) = {} THEN UNCHANGED <<pool, stopped>>
     ELSE \E s \in Excess(c) : pool' = pool \ {s} /\ stopped' = stopped \cup {s}
  /\ call' = [call EXCEPT ![c] = Calm]
  /\ UNCHANGED <<busy, made, lock, closing, shutting, initialized, events>>

\* Docker fails in stop, or in remove after the stop: the sandbox keeps its place.
TrimFails(c) ==
  /\ call[c].pc = "trim" /\ ~ lock
  /\ Fault
  /\ \E s \in Excess(c) : stopped' \in {stopped, stopped \cup {s}}
  /\ call' = [call EXCEPT ![c] = Calm]
  /\ UNCHANGED <<pool, busy, made, lock, closing, shutting, initialized>>

\* Cancelled while waiting: nothing, or a container that its thread still starts
\* and nobody records, or a release without its trim.
Cancelled(c) ==
  /\ call[c].pc \in {"acquire", "init", "create", "trim"}
  /\ call[c].pc \in {"acquire", "trim"} => lock
  /\ Happens("cancels", MaxCancels)
  /\ made' = made + CASE call[c].pc = "create" -> 1
                      [] call[c].pc = "init" -> PoolSize
                      [] OTHER -> 0
  /\ lock' = (lock /\ call[c].pc # "create")
  /\ call' = [call EXCEPT ![c] = Calm]
  /\ UNCHANGED <<pool, busy, stopped, closing, shutting, initialized>>

-----------------------------------------------------------------------------
(* shutdown, without the lock *)

Shutdown ==
  /\ initialized /\ ~ shutting
  /\ Happens("shutdowns", MaxShutdowns)
  /\ shutting' = TRUE
  /\ closing' = pool
  /\ UNCHANGED <<pool, busy, made, stopped, lock, call, initialized>>

\* _destroy_sandbox; a sandbox that has left the pool meanwhile is a caught KeyError.
Destroy(s) ==
  /\ s \in closing
  /\ closing' = closing \ {s}
  /\ pool' = pool \ {s}
  /\ stopped' = stopped \cup {s}
  /\ UNCHANGED <<busy, made, lock, call, shutting, initialized, events>>

DestroyFails(s) ==
  /\ s \in closing
  /\ Fault
  /\ closing' = closing \ {s}
  /\ stopped' \in {stopped, stopped \cup {s}}
  /\ UNCHANGED <<pool, busy, made, lock, call, shutting, initialized>>

ShutdownDone ==
  /\ shutting /\ closing = {}
  /\ shutting' = FALSE
  /\ initialized' = FALSE
  /\ UNCHANGED <<pool, busy, made, stopped, lock, call, closing, events>>

Execute(c) ==
  \/ Initialize(c) \/ InitializePartly(c)
  \/ AcquireIdle(c) \/ AcquireGrow(c) \/ AcquireRefused(c) \/ Created(c) \/ CreateFails(c)
  \/ Ran(c) \/ Trim(c) \/ TrimFails(c)

Next ==
  \/ \E c \in Callers : Call(c) \/ Execute(c) \/ Cancelled(c)
  \/ Shutdown \/ ShutdownDone
  \/ \E s \in closing : Destroy(s) \/ DestroyFails(s)

Spec == Init /\ [][Next]_vars

\* Commands are bounded by their timeout, Docker answers, and the lock is FIFO.
FairSpec == Spec /\ \A c \in Callers : SF_vars(Execute(c))

-----------------------------------------------------------------------------
(* Properties *)

\* Types of the pool, its sandboxes and the calls of SandboxManager.
TypeOK ==
  /\ made \in Nat /\ pool \subseteq 1..made /\ stopped \subseteq 1..made /\ closing \subseteq 1..made
  /\ busy \subseteq 1..made
  /\ lock \in BOOLEAN /\ shutting \in BOOLEAN /\ initialized \in BOOLEAN
  /\ call \in [Callers -> [pc : {"none", "init", "acquire", "create", "run", "trim"},
                           box : 0..made]]
  /\ events \in [EventKinds -> Nat]

Running(c) == call[c].pc = "run"

\* A container runs the command of one caller at a time, and no other path of the
\* pool takes it for idle meanwhile (manager.py:278-319).
Exclusive ==
  /\ \A c \in Callers : Running(c) => call[c].box \in busy
  /\ \A c, d \in Callers : Running(c) /\ Running(d) /\ c # d => call[c].box # call[d].box

\* Trimming never takes the container of a running command from under it; only
\* shutdown does (manager.py:309-319).
RunningInPool == events.shutdowns = 0 => \A c \in Callers : Running(c) => call[c].box \in pool

\* The lock is held across a suspension by exactly the one caller that creates a
\* container, so it is never left behind (manager.py:278-290).
LockHasHolder ==
  /\ lock <=> \E c \in Callers : call[c].pc = "create"
  /\ \A c, d \in Callers : call[c].pc = "create" /\ call[d].pc = "create" => c = d

\* The pool never holds more than twice its size, and its size more for each of the
\* first calls that overlapped and initialized it again (manager.py:286, 407).
OverflowBounded == Cardinality(pool) <= PoolSize * (1 + events.inits)

\* Every call of execute_code returns or raises.
CallsEnd == \A c \in Callers : call[c].pc # "none" ~> call[c].pc = "none"
=============================================================================
