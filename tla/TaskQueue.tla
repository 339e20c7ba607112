------------------------------ MODULE TaskQueue ------------------------------
(***************************************************************************)
(* The Redis task queue of the Python runtime: TaskProducer.enqueue and    *)
(* wait_for_result (runtime/src/queue/producer.py), TaskConsumer's poll     *)
(* loop, its concurrent _process_task coroutines with retry and dead        *)
(* letter, and the dead-letter administration                               *)
(* (runtime/src/queue/consumer.py).                                         *)
(*                                                                          *)
(* Every await of a Redis command or of the handler is a point where other  *)
(* coroutines and processes run, so it separates two actions.  A Redis      *)
(* command may fail with the command applied or not (the connection broke   *)
(* before or after the server executed it), and a consumer process may die. *)
(***************************************************************************)
EXTENDS Integers, Sequences, FiniteSets

CONSTANTS
  Tasks,        \* task ids, each enqueued by one call of enqueue
  Sessions,     \* session ids: a result channel each
  SessionOf,    \* the session a task belongs to
  Awaited,      \* tasks whose producer calls wait_for_result
  Consumers,    \* TaskConsumer processes
  Slots,        \* names for the coroutines of self._tasks of one consumer
  Admins,       \* callers of retry_dead_letter
  NoTask,       \* what a queue element that does not parse stands for
  MaxConcurrent, MaxRetryAttempts, MaxQueueLength,
  MaxFaults, MaxCrashes, MaxGarbage, MaxRequeues, MaxStops, MaxClears
                \* bounds of the model on environment events

ASSUME ConstantsAssumption ==
  /\ IsFiniteSet(Tasks) /\ IsFiniteSet(Slots)
  /\ NoTask \notin Tasks
  /\ SessionOf \in [Tasks -> Sessions]
  /\ Awaited \subseteq Tasks
  /\ MaxConcurrent \in Nat \ {0} /\ MaxConcurrent < Cardinality(Slots)
  /\ MaxRetryAttempts \in Nat
  /\ MaxQueueLength \in Nat \ {0}

ASSUME BoundsAssumption ==
  {MaxFaults, MaxCrashes, MaxGarbage, MaxRequeues, MaxStops, MaxClears} \subseteq Nat

VARIABLES
  queue,     \* the Redis list, oldest element first (LPUSH appends, BRPOP takes the head)
  dead,      \* the dead-letter list, as a set: failedAt orders its entries
  enq,       \* where each task's enqueue call is
  loop,      \* where each consumer's start() loop is
  running,   \* TaskConsumer._running
  permits,   \* the free permits of TaskConsumer._semaphore
  job,       \* each coroutine of _process_task
  admin,     \* where each retry_dead_letter call is
  waiter,    \* where each wait_for_result call is, and the message it will return
  done,      \* tasks whose handler result has been published
  cleared,   \* tasks an administrator has deleted
  tries,     \* times a task's handler has been started
  requeued,  \* times a task has been put back by retry_dead_letter
  events     \* environment events so far, and the clock of failed_at

vars == <<queue, dead, enq, loop, running, permits, job, admin, waiter, done,
          cleared, tries, requeued, events>>

Workers == Consumers \X Slots
Retries == 0..MaxRetryAttempts
Messages == [task : Tasks, retry : Retries]       \* TaskMessage, metadata.retry_count
Garbage == [task |-> NoTask, retry |-> 0]
Letters == [task : Tasks, retry : Retries, failedAt : Nat]
Results == [task : Tasks, ok : BOOLEAN]           \* what _publish_result sends

Idle == [pc |-> "idle"]
JobStates == {"handling", "publishing", "failed", "reporting"}
Jobs == {Idle} \cup [pc : JobStates, task : Tasks, retry : Retries]
NoCall == [pc |-> "none"]
AdminCalls == {NoCall} \cup [pc : {"found", "removed"}, item : Letters]
NoMsg == [none |-> TRUE]
Waiters == [st : {"none", "waiting", "returned"}, msg : Results \cup {NoMsg}]

EventKinds == {"faults", "crashes", "garbage", "requeues", "stops", "clears", "letters"}

Init ==
  /\ queue = <<>>
  /\ dead = {}
  /\ enq = [t \in Tasks |-> "new"]
  /\ loop = [c \in Consumers |-> "check"]
  /\ running = [c \in Consumers |-> TRUE]
  /\ permits = [c \in Consumers |-> MaxConcurrent]
  /\ job = [c \in Consumers |-> [s \in Slots |-> Idle]]
  /\ admin = [a \in Admins |-> NoCall]
  /\ waiter = [t \in Tasks |-> [st |-> "none", msg |-> NoMsg]]
  /\ done = {}
  /\ cleared = {}
  /\ tries = [t \in Tasks |-> 0]
  /\ requeued = [t \in Tasks |-> 0]
  /\ events = [k \in EventKinds |-> 0]

Count(kind) == events' = [events EXCEPT ![kind] = @ + 1]
Fault == events.faults < MaxFaults /\ Count("faults")

-----------------------------------------------------------------------------
(* TaskProducer *)

prodRest == <<dead, loop, running, permits, job, admin, done, cleared, tries, requeued>>

\* LLEN and the comparison with max_queue_length.
EnqueueCheck(t) ==
  /\ enq[t] = "new"
  /\ enq' = [enq EXCEPT ![t] = IF Len(queue) >= MaxQueueLength THEN "rejected" ELSE "checked"]
  /\ UNCHANGED <<prodRest, queue, waiter, events>>

\* LPUSH, in a later round trip than the LLEN.
EnqueuePush(t) ==
  /\ enq[t] = "checked"
  /\ enq' = [enq EXCEPT ![t] = "accepted"]
  /\ queue' = Append(queue, [task |-> t, retry |-> 0])
  /\ UNCHANGED <<prodRest, waiter, events>>

EnqueueError(t) ==
  /\ enq[t] = "checked"
  /\ Fault
  /\ enq' = [enq EXCEPT ![t] = "error"]
  /\ queue' \in {queue, Append(queue, [task |-> t, retry |-> 0])}
  /\ UNCHANGED <<prodRest, waiter>>

\* The producer subscribes to its session's channel once enqueue has returned.
WaitSubscribe(t) ==
  /\ t \in Awaited /\ enq[t] = "accepted" /\ waiter[t].st = "none"
  /\ waiter' = [waiter EXCEPT ![t].st = "waiting"]
  /\ UNCHANGED <<prodRest, queue, enq, events>>

\* get_message returns the first message of the channel, or the deadline has passed
\* (the deadline is compared before the next get_message).
WaitReturn(t) ==
  /\ waiter[t].st = "waiting" /\ waiter[t].msg # NoMsg
  /\ waiter' = [waiter EXCEPT ![t].st = "returned"]
  /\ UNCHANGED <<prodRest, queue, enq, events>>

WaitTimeout(t) ==
  /\ waiter[t].st = "waiting"
  /\ waiter' = [waiter EXCEPT ![t] = [st |-> "returned", msg |-> NoMsg]]
  /\ UNCHANGED <<prodRest, queue, enq, events>>

\* DEL of the queue; the LLEN before it only feeds the returned number.
ClearQueue ==
  /\ events.clears < MaxClears /\ Count("clears")
  /\ queue' = <<>>
  /\ cleared' = cleared \cup {t \in Tasks : \E i \in DOMAIN queue : queue[i].task = t}
  /\ UNCHANGED <<dead, enq, loop, running, permits, job, admin, waiter, done, tries, requeued>>

\* Something that is not a task reaches the list from another writer.
PushGarbage ==
  /\ events.garbage < MaxGarbage /\ Count("garbage")
  /\ queue' = Append(queue, Garbage)
  /\ UNCHANGED <<prodRest, enq, waiter>>

-----------------------------------------------------------------------------
(* TaskConsumer: the poll loop *)

loopRest == <<dead, enq, admin, waiter, done, cleared, requeued>>

LoopCheck(c) ==
  /\ loop[c] = "check"
  /\ loop' = [loop EXCEPT ![c] = IF running[c] THEN "acquire" ELSE "draining"]
  /\ UNCHANGED <<loopRest, queue, running, permits, job, tries, events>>

Acquire(c) ==
  /\ loop[c] = "acquire" /\ permits[c] > 0
  /\ permits' = [permits EXCEPT ![c] = @ - 1]
  /\ loop' = [loop EXCEPT ![c] = "polling"]
  /\ UNCHANGED <<loopRest, queue, running, job, tries, events>>

Release(c) == permits' = [permits EXCEPT ![c] = @ + 1]

\* BRPOP returned a task: create_task(self._process_task(task)).
PopTask(c, s) ==
  /\ loop[c] = "polling" /\ queue # <<>> /\ Head(queue) # Garbage
  /\ job[c][s] = Idle
  /\ LET m == Head(queue)
     IN  /\ job' = [job EXCEPT ![c][s] = [pc |-> "handling", task |-> m.task, retry |-> m.retry]]
         /\ tries' = [tries EXCEPT ![m.task] = @ + 1]
  /\ queue' = Tail(queue)
  /\ loop' = [loop EXCEPT ![c] = "check"]
  /\ UNCHANGED <<loopRest, running, permits, events>>

\* Variant for sensitivity: the JSONDecodeError branch forgets to release.
PopGarbageKeepsPermit(c) ==
  /\ loop[c] = "polling" /\ queue # <<>> /\ Head(queue) = Garbage
  /\ queue' = Tail(queue)
  /\ loop' = [loop EXCEPT ![c] = "check"]
  /\ UNCHANGED <<loopRest, running, permits, job, tries, events>>

\* BRPOP returned something json.loads or from_dict rejects.
PopGarbage(c) ==
  /\ loop[c] = "polling" /\ queue # <<>> /\ Head(queue) = Garbage
  /\ queue' = Tail(queue)
  /\ Release(c)
  /\ loop' = [loop EXCEPT ![c] = "check"]
  /\ UNCHANGED <<loopRest, running, job, tries, events>>

\* Variant for sensitivity: the timeout branch forgets to release.
PopTimeoutKeepsPermit(c) ==
  /\ loop[c] = "polling" /\ queue = <<>>
  /\ loop' = [loop EXCEPT ![c] = "check"]
  /\ UNCHANGED <<loopRest, queue, running, permits, job, tries, events>>

\* BRPOP timed out on an empty list.
PopTimeout(c) ==
  /\ loop[c] = "polling" /\ queue = <<>>
  /\ Release(c)
  /\ loop' = [loop EXCEPT ![c] = "check"]
  /\ UNCHANGED <<loopRest, queue, running, job, tries, events>>

\* BRPOP failed, before or after the server took the element off the list;
\* the loop reconnects and goes round.
PopError(c) ==
  /\ loop[c] = "polling"
  /\ Fault
  /\ queue' \in {queue} \cup (IF queue = <<>> THEN {} ELSE {Tail(queue)})
  /\ Release(c)
  /\ loop' = [loop EXCEPT ![c] = "check"]
  /\ UNCHANGED <<loopRest, running, job, tries>>

Stop(c) ==
  /\ running[c] /\ loop[c] \in {"check", "acquire", "polling"}
  /\ events.stops < MaxStops /\ Count("stops")
  /\ running' = [running EXCEPT ![c] = FALSE]
  /\ UNCHANGED <<loopRest, queue, loop, permits, job, tries>>

\* gather(*self._tasks) has finished: start() returns.
Drained(c) ==
  /\ loop[c] = "draining" /\ \A s \in Slots : job[c][s] = Idle
  /\ loop' = [loop EXCEPT ![c] = "stopped"]
  /\ UNCHANGED <<loopRest, queue, running, permits, job, tries, events>>

\* The process dies with everything it holds.
Crash(c) ==
  /\ loop[c] \notin {"stopped", "down"}
  /\ events.crashes < MaxCrashes /\ Count("crashes")
  /\ loop' = [loop EXCEPT ![c] = "down"]
  /\ job' = [job EXCEPT ![c] = [s \in Slots |-> Idle]]
  /\ UNCHANGED <<loopRest, queue, running, permits, tries>>

\* start() in a new process, or again after a stop.
Start(c) ==
  /\ loop[c] \in {"stopped", "down"}
  /\ loop' = [loop EXCEPT ![c] = "check"]
  /\ running' = [running EXCEPT ![c] = TRUE]
  /\ permits' = [permits EXCEPT ![c] = MaxConcurrent]
  /\ UNCHANGED <<loopRest, queue, job, tries, events>>

-----------------------------------------------------------------------------
(* TaskConsumer: one _process_task coroutine *)

jobRest == <<enq, loop, running, admin, cleared, tries, requeued>>

\* A message on the session's channel reaches every waiter that has none yet.
Publish(r) ==
  waiter' = [t \in Tasks |->
     IF /\ waiter[t].st = "waiting" /\ waiter[t].msg = NoMsg
        /\ SessionOf[t] = SessionOf[r.task]
     THEN [waiter[t] EXCEPT !.msg = r] ELSE waiter[t]]

\* Only the pc of the coroutine changes.
Goto(c, s, pc) == job' = [job EXCEPT ![c][s].pc = pc]
\* The finally clause: the coroutine ends and gives its permit back.
Finish(c, s) == job' = [job EXCEPT ![c][s] = Idle] /\ Release(c)

HandlerReturns(c, s) ==
  /\ job[c][s].pc = "handling"
  /\ Goto(c, s, "publishing")
  /\ UNCHANGED <<jobRest, queue, dead, permits, waiter, done, events>>

HandlerRaises(c, s) ==
  /\ job[c][s].pc = "handling"
  /\ Goto(c, s, "failed")
  /\ UNCHANGED <<jobRest, queue, dead, permits, waiter, done, events>>

PublishResult(c, s) ==
  /\ job[c][s].pc = "publishing"
  /\ done' = done \cup {job[c][s].task}
  /\ Publish([task |-> job[c][s].task, ok |-> TRUE])
  /\ Finish(c, s)
  /\ UNCHANGED <<jobRest, queue, dead, events>>

\* The publication raises inside the try: it counts as a failure of the task,
\* even when Redis has delivered the message.
PublishError(c, s) ==
  /\ job[c][s].pc = "publishing"
  /\ Fault
  /\ Goto(c, s, "failed")
  /\ \/ done' = done \cup {job[c][s].task} /\ Publish([task |-> job[c][s].task, ok |-> TRUE])
     \/ UNCHANGED <<done, waiter>>
  /\ UNCHANGED <<jobRest, queue, dead, permits>>

\* Variants for sensitivity: the retry limit compared one too late or one too early,
\* the retry not counted, and the retry not pushed.
CanRetryOnceMore(j) == j.retry <= MaxRetryAttempts
AgainUncounted(j) == Append(queue, [task |-> j.task, retry |-> j.retry])
AgainLost(j) == queue

CanRetry(j) == j.retry < MaxRetryAttempts
Again(j) == Append(queue, [task |-> j.task, retry |-> j.retry + 1])
Letter(j) == [task |-> j.task, retry |-> j.retry, failedAt |-> events.letters]

RetryTask(c, s) ==
  /\ job[c][s].pc = "failed" /\ CanRetry(job[c][s])
  /\ queue' = Again(job[c][s])
  /\ Goto(c, s, "reporting")
  /\ UNCHANGED <<jobRest, dead, permits, waiter, done, events>>

MoveToDeadLetter(c, s) ==
  /\ job[c][s].pc = "failed" /\ ~CanRetry(job[c][s])
  /\ dead' = dead \cup {Letter(job[c][s])}
  /\ Count("letters")
  /\ Goto(c, s, "reporting")
  /\ UNCHANGED <<jobRest, queue, permits, waiter, done>>

\* The LPUSH of the except clause raises: the coroutine ends through finally.
RequeueError(c, s) ==
  /\ job[c][s].pc = "failed"
  /\ events.faults < MaxFaults
  /\ \/ UNCHANGED <<queue, dead>> /\ Count("faults")
     \/ CanRetry(job[c][s]) /\ queue' = Again(job[c][s]) /\ UNCHANGED dead /\ Count("faults")
     \/ /\ ~CanRetry(job[c][s])
        /\ dead' = dead \cup {Letter(job[c][s])}
        /\ UNCHANGED queue
        /\ events' = [events EXCEPT !.faults = @ + 1, !.letters = @ + 1]
  /\ Finish(c, s)
  /\ UNCHANGED <<jobRest, waiter, done>>

ReportFailure(c, s) ==
  /\ job[c][s].pc = "reporting"
  /\ Publish([task |-> job[c][s].task, ok |-> FALSE])
  /\ Finish(c, s)
  /\ UNCHANGED <<jobRest, queue, dead, done, events>>

ReportError(c, s) ==
  /\ job[c][s].pc = "reporting"
  /\ Fault
  /\ Finish(c, s)
  /\ UNCHANGED <<jobRest, queue, dead, waiter, done>>

-----------------------------------------------------------------------------
(* Dead-letter administration *)

adminRest == <<enq, loop, running, permits, job, waiter, done, tries>>

\* LRANGE, and the first entry of the task: the newest.
RetryFind(a, t) ==
  /\ admin[a] = NoCall
  /\ events.requeues < MaxRequeues /\ Count("requeues")
  /\ \E d \in dead :
       /\ d.task = t /\ \A e \in dead : e.task = t => e.failedAt <= d.failedAt
       /\ admin' = [admin EXCEPT ![a] = [pc |-> "found", item |-> d]]
  /\ UNCHANGED <<adminRest, queue, dead, cleared, requeued>>

\* Variant for sensitivity: the entry stays in the dead-letter list.
RetryRemoveKeepsEntry(a) ==
  /\ admin[a].pc = "found"
  /\ admin' = [admin EXCEPT ![a].pc = "removed"]
  /\ UNCHANGED <<adminRest, queue, dead, cleared, requeued, events>>

\* LREM: the number of removed entries is not looked at.
RetryRemove(a) ==
  /\ admin[a].pc = "found"
  /\ dead' = dead \ {admin[a].item}
  /\ admin' = [admin EXCEPT ![a].pc = "removed"]
  /\ UNCHANGED <<adminRest, queue, cleared, requeued, events>>

RetryRequeue(a) ==
  /\ admin[a].pc = "removed"
  /\ queue' = Append(queue, [task |-> admin[a].item.task, retry |-> 0])
  /\ requeued' = [requeued EXCEPT ![admin[a].item.task] = @ + 1]
  /\ admin' = [admin EXCEPT ![a] = NoCall]
  /\ UNCHANGED <<adminRest, dead, cleared, events>>

\* LREM or LPUSH fails, or the caller dies, applied or not.
RetryError(a) ==
  /\ admin[a] # NoCall
  /\ Fault
  /\ \/ /\ admin[a].pc = "found"
        /\ dead' \in {dead, dead \ {admin[a].item}}
        /\ UNCHANGED <<queue, requeued>>
     \/ /\ admin[a].pc = "removed"
        /\ \/ UNCHANGED <<queue, requeued>>
           \/ /\ queue' = Append(queue, [task |-> admin[a].item.task, retry |-> 0])
              /\ requeued' = [requeued EXCEPT ![admin[a].item.task] = @ + 1]
        /\ UNCHANGED dead
  /\ admin' = [admin EXCEPT ![a] = NoCall]
  /\ UNCHANGED <<adminRest, cleared>>

ClearDeadLetters ==
  /\ events.clears < MaxClears /\ Count("clears")
  /\ dead' = {}
  /\ cleared' = cleared \cup {d.task : d \in dead}
  /\ UNCHANGED <<adminRest, queue, admin, requeued>>

-----------------------------------------------------------------------------
Producer ==
  \/ \E t \in Tasks : \/ EnqueueCheck(t) \/ EnqueuePush(t) \/ EnqueueError(t)
                      \/ WaitSubscribe(t) \/ WaitReturn(t) \/ WaitTimeout(t)
  \/ ClearQueue
  \/ PushGarbage

PollLoop(c) ==
  \/ LoopCheck(c) \/ Acquire(c) \/ PopGarbage(c) \/ PopTimeout(c) \/ PopError(c)
  \/ Stop(c) \/ Drained(c) \/ Crash(c) \/ Start(c)
  \/ \E s \in Slots : PopTask(c, s)

ProcessTask(c, s) ==
  \/ HandlerReturns(c, s) \/ HandlerRaises(c, s)
  \/ PublishResult(c, s) \/ PublishError(c, s)
  \/ RetryTask(c, s) \/ MoveToDeadLetter(c, s) \/ RequeueError(c, s)
  \/ ReportFailure(c, s) \/ ReportError(c, s)

DeadLetters ==
  \/ \E a \in Admins : \/ \E t \in Tasks : RetryFind(a, t)
                       \/ RetryRemove(a) \/ RetryRequeue(a) \/ RetryError(a)
  \/ ClearDeadLetters

Next ==
  \/ Producer
  \/ \E c \in Consumers : PollLoop(c) \/ \E s \in Slots : ProcessTask(c, s)
  \/ DeadLetters

Spec == Init /\ [][Next]_vars

\* The event loop runs every coroutine that can go on, a handler ends, and a
\* restart policy brings a dead consumer back.
ConsumerRuns(c) ==
  /\ WF_vars(LoopCheck(c)) /\ WF_vars(Acquire(c)) /\ WF_vars(Start(c))
  /\ WF_vars(PopGarbage(c) \/ PopTimeout(c) \/ PopError(c) \/ \E s \in Slots : PopTask(c, s))
  /\ \A s \in Slots : WF_vars(ProcessTask(c, s))
Fairness ==
  /\ \A c \in Consumers : ConsumerRuns(c)
  /\ \A t \in Tasks : WF_vars(EnqueuePush(t))
  /\ \A a \in Admins : WF_vars(RetryRemove(a) \/ RetryRequeue(a) \/ RetryError(a))
FairSpec == Spec /\ Fairness
-----------------------------------------------------------------------------
(* Where the copies of a task are *)

Holding == {"handling", "publishing", "failed"}
QueuedAt(i, t) == i \in DOMAIN queue /\ queue[i].task = t
HeldBy(w, t) == job[w[1]][w[2]].pc \in Holding /\ job[w[1]][w[2]].task = t
\* An administrator's copy is one of its own once the entry is out of the list.
AdminHolds(a, t) ==
  admin[a] # NoCall /\ admin[a].item.task = t /\ admin[a].item \notin dead
Buried(t) == \E d \in dead : d.task = t
Live(t) ==
  \/ \E i \in DOMAIN queue : QueuedAt(i, t)
  \/ \E w \in Workers : HeldBy(w, t)
  \/ \E a \in Admins : AdminHolds(a, t)
Busy(c) == {s \in Slots : job[c][s] # Idle}
Polling(c) == IF loop[c] = "polling" THEN 1 ELSE 0

(* Properties *)

\* Every variable stays in its set.
TypeOK ==
  /\ queue \in Seq(Messages \cup {Garbage})
  /\ dead \subseteq Letters
  /\ enq \in [Tasks -> {"new", "checked", "accepted", "rejected", "error"}]
  /\ loop \in [Consumers -> {"check", "acquire", "polling", "draining", "stopped", "down"}]
  /\ running \in [Consumers -> BOOLEAN]
  /\ permits \in [Consumers -> Nat]
  /\ job \in [Consumers -> [Slots -> Jobs]]
  /\ admin \in [Admins -> AdminCalls]
  /\ waiter \in [Tasks -> Waiters]
  /\ done \subseteq Tasks /\ cleared \subseteq Tasks
  /\ tries \in [Tasks -> Nat] /\ requeued \in [Tasks -> Nat]
  /\ events \in [EventKinds -> Nat]

\* No path of _poll_and_process and _process_task loses or doubles a permit:
\* the free permits, the one a poll holds and one per coroutine add up to
\* max_concurrent in every live consumer.
SemaphoreAccounting ==
  \A c \in Consumers : loop[c] # "down" =>
    permits[c] + Polling(c) + Cardinality(Busy(c)) = MaxConcurrent

\* With one administrator a task is never in two places at once - two list
\* elements, two coroutines, the list and the dead letters - whatever fails,
\* so two consumers never execute the same task concurrently.
SingleCopy ==
  \A t \in Tasks :
    /\ \A i, k \in DOMAIN queue : QueuedAt(i, t) /\ QueuedAt(k, t) => i = k
    /\ \A w, x \in Workers : HeldBy(w, t) /\ HeldBy(x, t) => w = x
    /\ \A d, e \in dead : d.task = t /\ e.task = t => d = e
    /\ \A i \in DOMAIN queue, w \in Workers : ~ (QueuedAt(i, t) /\ HeldBy(w, t))
    /\ \A a \in Admins : AdminHolds(a, t) =>
         ~ Buried(t) /\ \A i \in DOMAIN queue, w \in Workers : ~ QueuedAt(i, t) /\ ~ HeldBy(w, t)
    /\ Buried(t) => \A i \in DOMAIN queue, w \in Workers : ~ QueuedAt(i, t) /\ ~ HeldBy(w, t)

\* A handler runs at most max_retry_attempts + 1 times per admission of the task
\* to the queue, over all consumers, crashes and Redis failures.
ExecutionsBounded ==
  \A t \in Tasks : tries[t] <= (MaxRetryAttempts + 1) * (1 + requeued[t])

\* An accepted task disappears only with a failure, and one failure takes no
\* more than it can hold: a crash the consumer's permits, a Redis error one task.
LossBounded ==
  Cardinality({t \in Tasks : enq[t] = "accepted" /\ t \notin done \cup cleared
                               /\ ~ Live(t) /\ ~ Buried(t)})
    <= events.crashes * MaxConcurrent + events.faults

\* Every accepted task ends: its result is published, it is buried or deleted,
\* or a failure took it.
EverythingSettles ==
  \A t \in Tasks : enq[t] = "accepted" ~> ~ Live(t)

\* Per task, the queue keeps the promise of TaskPromise.
Place(t) ==
  IF Live(t) THEN "live"
  ELSE IF Buried(t) THEN "dead"
  ELSE IF enq[t] \in {"new", "checked"} THEN "new" ELSE "gone"
Promise == INSTANCE TaskPromise WITH place <- [t \in Tasks |-> Place(t)],
                                     answered <- [t \in Tasks |-> t \in done]
KeepsPromise == Promise!Spec
=============================================================================
