-------------------------- MODULE TaskQueue_proofs --------------------------
(***************************************************************************)
(* Proofs about TaskQueue, for any number of tasks, consumers and slots.    *)
(***************************************************************************)
EXTENDS TaskQueue, FiniteSetTheorems, SequenceTheorems, TLAPS

Elements == Messages \cup {Garbage}

\* What a well-typed coroutine that runs carries.
LEMMA BusyJobType ==
  ASSUME TypeOK, NEW c \in Consumers, NEW s \in Slots, job[c][s].pc \in JobStates
  PROVE  /\ job[c][s] \in [pc : JobStates, task : Tasks, retry : Retries]
         /\ job[c][s] # Idle
         /\ job[c][s].task \in Tasks /\ job[c][s].retry \in Retries
BY DEF TypeOK, Jobs, Idle, JobStates

LEMMA PublishType ==
  ASSUME TypeOK, NEW r \in Results, Publish(r)
  PROVE  waiter' \in [Tasks -> Waiters]
BY DEF TypeOK, Publish, Waiters

LEMMA CountType ==
  ASSUME TypeOK, NEW k \in EventKinds, Count(k)
  PROVE  events' \in [EventKinds -> Nat]
BY DEF TypeOK, Count

LEMMA ElementTypes ==
  /\ \A t \in Tasks : [task |-> t, retry |-> 0] \in Elements
  /\ Garbage \in Elements
BY ConstantsAssumption DEF Elements, Messages, Retries

LEMMA GotoType ==
  ASSUME TypeOK, NEW c \in Consumers, NEW s \in Slots, NEW pc \in JobStates,
         job[c][s].pc \in JobStates, Goto(c, s, pc)
  PROVE  job' \in [Consumers -> [Slots -> Jobs]]
<1>1. job[c][s] \in [pc : JobStates, task : Tasks, retry : Retries]
  BY BusyJobType
<1>2. [job[c][s] EXCEPT !.pc = pc] \in Jobs
  BY <1>1 DEF Jobs
<1>3. job' = [job EXCEPT ![c] = [job[c] EXCEPT ![s] = [job[c][s] EXCEPT !.pc = pc]]]
  BY DEF Goto
<1>4. QED
  BY <1>2, <1>3 DEF TypeOK

LEMMA FinishType ==
  ASSUME TypeOK, NEW c \in Consumers, NEW s \in Slots, Finish(c, s)
  PROVE  /\ job' \in [Consumers -> [Slots -> Jobs]]
         /\ permits' \in [Consumers -> Nat]
BY DEF TypeOK, Finish, Release, Jobs

\* The parts of the queue that a failed task can become.
LEMMA RequeueTypes ==
  ASSUME TypeOK, NEW c \in Consumers, NEW s \in Slots, job[c][s].pc = "failed"
  PROVE  /\ CanRetry(job[c][s]) => Again(job[c][s]) \in Seq(Elements)
         /\ Letter(job[c][s]) \in Letters
<1>1. job[c][s].task \in Tasks /\ job[c][s].retry \in Retries
  BY BusyJobType DEF JobStates
<1>2. CanRetry(job[c][s]) => job[c][s].retry + 1 \in Retries
  BY <1>1, ConstantsAssumption DEF CanRetry, Retries
<1>3. CanRetry(job[c][s]) => [task |-> job[c][s].task, retry |-> job[c][s].retry + 1] \in Elements
  BY <1>1, <1>2 DEF Elements, Messages
<1>4. CanRetry(job[c][s]) => Again(job[c][s]) \in Seq(Elements)
  <2>1. queue \in Seq(Elements)
    BY DEF TypeOK, Elements
  <2>2. ASSUME NEW m \in Elements
        PROVE  Append(queue, m) \in Seq(Elements)
    BY <2>1
  <2>3. QED
    BY <1>3, <2>2 DEF Again
<1>5. events.letters \in Nat
  BY DEF TypeOK, EventKinds
<1>6. Letter(job[c][s]) \in Letters
  BY <1>1, <1>5 DEF Letter, Letters
<1>7. QED
  BY <1>4, <1>6

-----------------------------------------------------------------------------
(* Type correctness *)

LEMMA InitType == Init => TypeOK
<1>1. ASSUME Init
      PROVE  TypeOK
  BY <1>1, ConstantsAssumption DEF Init, TypeOK, Jobs, AdminCalls, Waiters, Messages
<1>2. QED
  BY <1>1

LEMMA ProducerType == TypeOK /\ Producer => TypeOK'
<1> SUFFICES ASSUME TypeOK, Producer
             PROVE  TypeOK'
  OBVIOUS
<1> USE DEF TypeOK, prodRest
<1>0. queue \in Seq(Elements) /\ \A m \in Elements : Append(queue, m) \in Seq(Elements)
  BY DEF Elements
<1>1. ASSUME NEW t \in Tasks, EnqueueCheck(t)
      PROVE  TypeOK'
  BY <1>1 DEF EnqueueCheck
<1>2. ASSUME NEW t \in Tasks, EnqueuePush(t)
      PROVE  TypeOK'
  <2>1. queue' \in Seq(Elements)
    BY <1>0, <1>2, ElementTypes DEF EnqueuePush
  <2>2. QED
    BY <1>2, <2>1 DEF EnqueuePush, Elements
<1>3. ASSUME NEW t \in Tasks, EnqueueError(t)
      PROVE  TypeOK'
  <2>1. queue' \in Seq(Elements)
    BY <1>0, <1>3, ElementTypes DEF EnqueueError
  <2>2. events' \in [EventKinds -> Nat]
    BY <1>3, CountType DEF EnqueueError, Fault, EventKinds
  <2>3. QED
    BY <1>3, <2>1, <2>2 DEF EnqueueError, Elements
<1>4. ASSUME NEW t \in Tasks, WaitSubscribe(t) \/ WaitReturn(t) \/ WaitTimeout(t)
      PROVE  TypeOK'
  <2>1. waiter' \in [Tasks -> Waiters]
    <3>1. /\ [waiter[t] EXCEPT !.st = "waiting"] \in Waiters
          /\ [waiter[t] EXCEPT !.st = "returned"] \in Waiters
          /\ [st |-> "returned", msg |-> NoMsg] \in Waiters
      BY DEF Waiters
    <3>2. \/ waiter' = [waiter EXCEPT ![t] = [waiter[t] EXCEPT !.st = "waiting"]]
          \/ waiter' = [waiter EXCEPT ![t] = [waiter[t] EXCEPT !.st = "returned"]]
          \/ waiter' = [waiter EXCEPT ![t] = [st |-> "returned", msg |-> NoMsg]]
      BY <1>4 DEF WaitSubscribe, WaitReturn, WaitTimeout
    <3>3. QED
      BY <3>1, <3>2
  <2>2. UNCHANGED <<prodRest, queue, enq, events>>
    BY <1>4 DEF WaitSubscribe, WaitReturn, WaitTimeout
  <2>3. QED
    BY <2>1, <2>2
<1>5. CASE ClearQueue
  <2>1. events' \in [EventKinds -> Nat]
    BY <1>5, CountType DEF ClearQueue, EventKinds
  <2>2. QED
    BY <1>5, <2>1 DEF ClearQueue
<1>6. CASE PushGarbage
  <2>1. events' \in [EventKinds -> Nat]
    BY <1>6, CountType DEF PushGarbage, EventKinds
  <2>2. queue' \in Seq(Elements)
    BY <1>0, <1>6, ElementTypes DEF PushGarbage
  <2>3. QED
    BY <1>6, <2>1, <2>2 DEF PushGarbage, Elements
<1>7. QED
  BY <1>1, <1>2, <1>3, <1>4, <1>5, <1>6 DEF Producer

LEMMA PollLoopType ==
  ASSUME TypeOK, NEW c \in Consumers, PollLoop(c)
  PROVE  TypeOK'
<1> USE DEF TypeOK, loopRest
<1>0. /\ queue # <<>> => Tail(queue) \in Seq(Messages \cup {Garbage})
      /\ Release(c) => permits' \in [Consumers -> Nat]
  <2>1. \A S : \A q \in Seq(S) : q # <<>> => Tail(q) \in Seq(S)
    OBVIOUS
  <2>2. Release(c) => permits' \in [Consumers -> Nat]
    BY DEF Release
  <2>3. QED
    BY <2>1, <2>2
<1>1. CASE LoopCheck(c)
  BY <1>1 DEF LoopCheck
<1>9. CASE Drained(c)
  BY <1>9 DEF Drained
<1>10. CASE Start(c)
  <2>1. permits' \in [Consumers -> Nat]
    BY <1>10, ConstantsAssumption DEF Start
  <2>2. QED
    BY <1>10, <2>1 DEF Start
<1>8. CASE Acquire(c)
  <2>1. permits[c] - 1 \in Nat
    BY <1>8 DEF Acquire
  <2>2. permits' \in [Consumers -> Nat]
    BY <1>8, <2>1 DEF Acquire
  <2>3. QED
    BY <1>8, <2>2 DEF Acquire
<1>2. CASE PopGarbage(c) \/ PopTimeout(c)
  <2>1. queue' \in Seq(Messages \cup {Garbage})
    BY <1>0, <1>2 DEF PopGarbage, PopTimeout
  <2>2. permits' \in [Consumers -> Nat]
    BY <1>0, <1>2 DEF PopGarbage, PopTimeout
  <2>3. QED
    BY <1>2, <2>1, <2>2 DEF PopGarbage, PopTimeout
<1>3. CASE PopError(c)
  <2>1. queue' \in Seq(Messages \cup {Garbage})
    BY <1>0, <1>3 DEF PopError
  <2>2. events' \in [EventKinds -> Nat]
    BY <1>3, CountType DEF PopError, Fault, EventKinds
  <2>3. QED
    BY <1>3, <2>1, <2>2 DEF PopError, Release
<1>4. CASE Stop(c)
  <2>1. events' \in [EventKinds -> Nat]
    BY <1>4, CountType DEF Stop, EventKinds
  <2>2. QED
    BY <1>4, <2>1 DEF Stop
<1>5. CASE Crash(c)
  <2>1. events' \in [EventKinds -> Nat]
    BY <1>5, CountType DEF Crash, EventKinds
  <2>2. job' \in [Consumers -> [Slots -> Jobs]]
    BY <1>5 DEF Crash, Jobs
  <2>3. QED
    BY <1>5, <2>1, <2>2 DEF Crash
<1>6. ASSUME NEW s \in Slots, PopTask(c, s)
      PROVE  TypeOK'
  <2>1. Head(queue) \in Messages /\ Tail(queue) \in Seq(Messages \cup {Garbage})
    BY <1>6 DEF PopTask
  <2>2. [pc |-> "handling", task |-> Head(queue).task, retry |-> Head(queue).retry] \in Jobs
    BY <2>1 DEF Messages, Jobs, JobStates
  <2>3. job' \in [Consumers -> [Slots -> Jobs]]
    BY <1>6, <2>2 DEF PopTask
  <2>4. tries' \in [Tasks -> Nat]
    BY <1>6, <2>1 DEF PopTask, Messages
  <2>5. QED
    BY <1>6, <2>1, <2>3, <2>4 DEF PopTask
<1>7. QED
  BY <1>1, <1>2, <1>3, <1>4, <1>5, <1>6, <1>8, <1>9, <1>10 DEF PollLoop

LEMMA ProcessTaskType ==
  ASSUME TypeOK, NEW c \in Consumers, NEW s \in Slots, ProcessTask(c, s)
  PROVE  TypeOK'
<1> USE DEF jobRest
<1>0. \A ok \in BOOLEAN : job[c][s].pc \in JobStates => [task |-> job[c][s].task, ok |-> ok] \in Results
  BY BusyJobType DEF Results
<1>1. CASE HandlerReturns(c, s) \/ HandlerRaises(c, s)
  <2>1. job' \in [Consumers -> [Slots -> Jobs]]
    BY <1>1, GotoType DEF HandlerReturns, HandlerRaises, JobStates
  <2>2. QED
    BY <1>1, <2>1 DEF HandlerReturns, HandlerRaises, TypeOK
<1>2. CASE PublishResult(c, s)
  <2>1. job[c][s].task \in Tasks
    BY <1>2, BusyJobType DEF PublishResult, JobStates
  <2>2. waiter' \in [Tasks -> Waiters]
    BY <1>0, <1>2, PublishType DEF PublishResult, JobStates
  <2>3. job' \in [Consumers -> [Slots -> Jobs]] /\ permits' \in [Consumers -> Nat]
    BY <1>2, FinishType DEF PublishResult
  <2>4. QED
    BY <1>2, <2>1, <2>2, <2>3 DEF PublishResult, TypeOK
<1>3. CASE PublishError(c, s)
  <2>1. job[c][s].task \in Tasks
    BY <1>3, BusyJobType DEF PublishError, JobStates
  <2>2. waiter' \in [Tasks -> Waiters]
    <3>1. CASE UNCHANGED waiter
      BY <3>1 DEF TypeOK
    <3>2. CASE Publish([task |-> job[c][s].task, ok |-> TRUE])
      BY <1>0, <1>3, <3>2, PublishType DEF PublishError, JobStates
    <3>3. QED
      BY <1>3, <3>1, <3>2 DEF PublishError
  <2>3. job' \in [Consumers -> [Slots -> Jobs]]
    BY <1>3, GotoType DEF PublishError, JobStates
  <2>4. events' \in [EventKinds -> Nat]
    BY <1>3, CountType DEF PublishError, Fault, EventKinds
  <2>5. QED
    BY <1>3, <2>1, <2>2, <2>3, <2>4 DEF PublishError, TypeOK
<1>4. CASE RetryTask(c, s)
  <2>1. queue' \in Seq(Elements)
    BY <1>4, RequeueTypes DEF RetryTask
  <2>2. job' \in [Consumers -> [Slots -> Jobs]]
    BY <1>4, GotoType DEF RetryTask, JobStates
  <2>3. QED
    BY <1>4, <2>1, <2>2 DEF RetryTask, TypeOK, Elements
<1>5. CASE MoveToDeadLetter(c, s)
  <2>1. dead' \subseteq Letters
    BY <1>5, RequeueTypes DEF MoveToDeadLetter, TypeOK
  <2>2. job' \in [Consumers -> [Slots -> Jobs]]
    BY <1>5, GotoType DEF MoveToDeadLetter, JobStates
  <2>3. events' \in [EventKinds -> Nat]
    BY <1>5, CountType DEF MoveToDeadLetter, EventKinds
  <2>4. QED
    BY <1>5, <2>1, <2>2, <2>3 DEF MoveToDeadLetter, TypeOK
<1>6. CASE RequeueError(c, s)
  <2>1. queue' \in Seq(Elements)
    BY <1>6, RequeueTypes DEF RequeueError, TypeOK, Elements
  <2>2. dead' \subseteq Letters
    BY <1>6, RequeueTypes DEF RequeueError, TypeOK
  <2>3. events' \in [EventKinds -> Nat]
    <3>1. CASE Count("faults")
      BY <3>1, CountType DEF EventKinds
    <3>2. CASE events' = [events EXCEPT !.faults = @ + 1, !.letters = @ + 1]
      <4>1. events \in [EventKinds -> Nat] /\ "faults" \in EventKinds /\ "letters" \in EventKinds
        BY DEF TypeOK, EventKinds
      <4>2. events' = [k \in EventKinds |->
                         IF k = "letters" THEN events["letters"] + 1
                         ELSE IF k = "faults" THEN events["faults"] + 1 ELSE events[k]]
        BY <3>2, <4>1, Zenon
      <4>3. QED
        BY <4>1, <4>2
    <3>3. QED
      BY <1>6, <3>1, <3>2 DEF RequeueError
  <2>4. job' \in [Consumers -> [Slots -> Jobs]] /\ permits' \in [Consumers -> Nat]
    BY <1>6, FinishType DEF RequeueError
  <2>5. QED
    BY <1>6, <2>1, <2>2, <2>3, <2>4 DEF RequeueError, TypeOK, Elements
<1>7. CASE ReportFailure(c, s)
  <2>1. waiter' \in [Tasks -> Waiters]
    BY <1>0, <1>7, PublishType DEF ReportFailure, JobStates
  <2>2. job' \in [Consumers -> [Slots -> Jobs]] /\ permits' \in [Consumers -> Nat]
    BY <1>7, FinishType DEF ReportFailure
  <2>3. QED
    BY <1>7, <2>1, <2>2 DEF ReportFailure, TypeOK
<1>8. CASE ReportError(c, s)
  <2>1. events' \in [EventKinds -> Nat]
    BY <1>8, CountType DEF ReportError, Fault, EventKinds
  <2>2. job' \in [Consumers -> [Slots -> Jobs]] /\ permits' \in [Consumers -> Nat]
    BY <1>8, FinishType DEF ReportError
  <2>3. QED
    BY <1>8, <2>1, <2>2 DEF ReportError, TypeOK
<1>9. QED
  BY <1>1, <1>2, <1>3, <1>4, <1>5, <1>6, <1>7, <1>8 DEF ProcessTask

LEMMA DeadLettersType == TypeOK /\ DeadLetters => TypeOK'
<1> SUFFICES ASSUME TypeOK, DeadLetters
             PROVE  TypeOK'
  OBVIOUS
<1> USE DEF adminRest
<1>0. ASSUME NEW a \in Admins, admin[a] # NoCall
      PROVE  /\ admin[a] \in [pc : {"found", "removed"}, item : Letters]
             /\ admin[a].item.task \in Tasks
             /\ Append(queue, [task |-> admin[a].item.task, retry |-> 0]) \in Seq(Elements)
  <2>1. admin[a] \in [pc : {"found", "removed"}, item : Letters] /\ admin[a].item.task \in Tasks
    BY <1>0 DEF TypeOK, AdminCalls, Letters
  <2>2. queue \in Seq(Elements)
    BY DEF TypeOK, Elements
  <2>3. ASSUME NEW m \in Elements
        PROVE  Append(queue, m) \in Seq(Elements)
    BY <2>2
  <2>4. QED
    BY <2>1, <2>3, ElementTypes
<1>1. ASSUME NEW a \in Admins, NEW t \in Tasks, RetryFind(a, t)
      PROVE  TypeOK'
  <2>1. admin' \in [Admins -> AdminCalls]
    BY <1>1 DEF RetryFind, TypeOK, AdminCalls
  <2>2. events' \in [EventKinds -> Nat]
    BY <1>1, CountType DEF RetryFind, EventKinds
  <2>3. QED
    BY <1>1, <2>1, <2>2 DEF RetryFind, TypeOK
<1>2. ASSUME NEW a \in Admins, RetryRemove(a)
      PROVE  TypeOK'
  <2>1. admin[a] # NoCall
    BY <1>2 DEF RetryRemove, NoCall
  <2>2. [admin[a] EXCEPT !.pc = "removed"] \in AdminCalls
    BY <1>0, <2>1 DEF AdminCalls
  <2>3. QED
    BY <1>2, <2>2 DEF RetryRemove, TypeOK
<1>3. ASSUME NEW a \in Admins, RetryRequeue(a)
      PROVE  TypeOK'
  <2>1. admin[a] # NoCall
    BY <1>3 DEF RetryRequeue, NoCall
  <2>2. queue' \in Seq(Elements)
    BY <1>0, <1>3, <2>1 DEF RetryRequeue
  <2>3. requeued' \in [Tasks -> Nat]
    BY <1>0, <1>3, <2>1 DEF RetryRequeue, TypeOK
  <2>4. admin' \in [Admins -> AdminCalls]
    BY <1>3 DEF RetryRequeue, TypeOK, AdminCalls
  <2>5. QED
    BY <1>3, <2>2, <2>3, <2>4 DEF RetryRequeue, TypeOK, Elements
<1>4. ASSUME NEW a \in Admins, RetryError(a)
      PROVE  TypeOK'
  <2>1. queue' \in Seq(Elements)
    BY <1>0, <1>4 DEF RetryError, TypeOK, Elements
  <2>2. requeued' \in [Tasks -> Nat]
    BY <1>0, <1>4 DEF RetryError, TypeOK
  <2>3. admin' \in [Admins -> AdminCalls]
    BY <1>4 DEF RetryError, TypeOK, AdminCalls
  <2>4. events' \in [EventKinds -> Nat]
    BY <1>4, CountType DEF RetryError, Fault, EventKinds
  <2>5. dead' \subseteq Letters
    BY <1>4 DEF RetryError, TypeOK
  <2>6. QED
    BY <1>4, <2>1, <2>2, <2>3, <2>4, <2>5 DEF RetryError, TypeOK, Elements
<1>5. CASE ClearDeadLetters
  <2>1. events' \in [EventKinds -> Nat]
    BY <1>5, CountType DEF ClearDeadLetters, EventKinds
  <2>2. cleared' \subseteq Tasks
    BY <1>5 DEF ClearDeadLetters, TypeOK, Letters
  <2>3. QED
    BY <1>5, <2>1, <2>2 DEF ClearDeadLetters, TypeOK
<1>6. QED
  BY <1>1, <1>2, <1>3, <1>4, <1>5 DEF DeadLetters

LEMMA NextType == TypeOK /\ [Next]_vars => TypeOK'
<1> SUFFICES ASSUME TypeOK, [Next]_vars
             PROVE  TypeOK'
  OBVIOUS
<1>1. CASE UNCHANGED vars
  BY <1>1 DEF vars, TypeOK
<1>2. CASE Next
  BY <1>2, ProducerType, PollLoopType, ProcessTaskType, DeadLettersType DEF Next
<1>3. QED
  BY <1>1, <1>2

\* Every variable of the queue, its producers, consumers and administrators keeps
\* its type: retry counts never pass max_retry_attempts, permits never go negative.
THEOREM TypeCorrect == Spec => []TypeOK
<1>1. QED
  BY InitType, NextType, PTL DEF Spec

-----------------------------------------------------------------------------
(* The semaphore.  SemaphoreAccounting alone is not inductive: a restart sets *)
(* the permits to MaxConcurrent, which is right only because a consumer that  *)
(* has stopped or died has no coroutine left.                                 *)

Balanced(c) ==
  /\ loop[c] # "down" => permits[c] + Polling(c) + Cardinality(Busy(c)) = MaxConcurrent
  /\ loop[c] \in {"down", "stopped"} => Busy(c) = {}
AllBalanced == \A c \in Consumers : Balanced(c)

LEMMA BusyFinite ==
  ASSUME NEW c \in Consumers
  PROVE  IsFiniteSet(Busy(c)) /\ Cardinality(Busy(c)) \in Nat
<1>1. Busy(c) \subseteq Slots
  BY DEF Busy
<1>2. QED
  BY <1>1, ConstantsAssumption, FS_Subset, FS_CardinalityType

\* Only a consumer's own steps touch its loop, permits and coroutines.
LEMMA OthersBalanced ==
  ASSUME AllBalanced, NEW c \in Consumers,
         loop'[c] = loop[c], permits'[c] = permits[c], job'[c] = job[c]
  PROVE  Balanced(c)'
<1>1. Busy(c)' = Busy(c) /\ Polling(c)' = Polling(c)
  BY DEF Busy, Polling
<1>2. QED
  BY <1>1 DEF AllBalanced, Balanced

\* A coroutine that starts or ends changes the count of busy slots by one.
LEMMA SlotTaken ==
  ASSUME TypeOK, NEW c \in Consumers, NEW s \in Slots, job[c][s] = Idle, job'[c][s] # Idle,
         \A u \in Slots \ {s} : job'[c][u] = job[c][u]
  PROVE  Cardinality(Busy(c)') = Cardinality(Busy(c)) + 1
<1>1. s \notin Busy(c) /\ Busy(c)' = Busy(c) \cup {s}
  BY DEF Busy
<1>2. QED
  BY <1>1, BusyFinite, FS_AddElement

LEMMA SlotFreed ==
  ASSUME TypeOK, NEW c \in Consumers, NEW s \in Slots, job[c][s] # Idle, job'[c][s] = Idle,
         \A u \in Slots \ {s} : job'[c][u] = job[c][u]
  PROVE  Cardinality(Busy(c)') = Cardinality(Busy(c)) - 1
<1>1. s \in Busy(c) /\ Busy(c)' = Busy(c) \ {s}
  BY DEF Busy
<1>2. QED
  BY <1>1, BusyFinite, FS_RemoveElement

LEMMA InitBalanced == Init => AllBalanced
<1> SUFFICES ASSUME Init, NEW c \in Consumers
             PROVE  Balanced(c)
  BY DEF AllBalanced
<1>1. Busy(c) = {} /\ Polling(c) = 0 /\ permits[c] = MaxConcurrent
  BY DEF Init, Busy, Polling, Idle
<1>2. QED
  BY <1>1, FS_EmptySet, ConstantsAssumption DEF Balanced

\* The loop of c: a permit goes from the semaphore to the poll and from the poll to
\* the new coroutine or back.
LEMMA PollLoopBalanced ==
  ASSUME TypeOK, AllBalanced, NEW c \in Consumers, PollLoop(c)
  PROVE  Balanced(c)'
<1>0. /\ permits[c] \in Nat /\ Cardinality(Busy(c)) \in Nat /\ MaxConcurrent \in Nat
      /\ Balanced(c)
      /\ loop[c] \in {"check", "acquire", "polling", "draining", "stopped", "down"}
  BY BusyFinite, ConstantsAssumption DEF TypeOK, AllBalanced
<1>1. CASE job' = job
  <2>1. Busy(c)' = Busy(c)
    BY <1>1 DEF Busy
  <2>2. CASE LoopCheck(c) \/ Stop(c)
    BY <1>0, <2>1, <2>2 DEF LoopCheck, Stop, Balanced, Polling, TypeOK
  <2>3. CASE Acquire(c)
    BY <1>0, <2>1, <2>3 DEF Acquire, Balanced, Polling, TypeOK
  <2>4. CASE PopGarbage(c) \/ PopTimeout(c) \/ PopError(c)
    BY <1>0, <2>1, <2>4 DEF PopGarbage, PopTimeout, PopError, Release, Balanced, Polling, TypeOK
  <2>5. CASE Drained(c)
    <3>1. Busy(c) = {}
      BY <2>5 DEF Drained, Busy
    <3>2. QED
      BY <1>0, <2>1, <2>5, <3>1 DEF Drained, Balanced, Polling, TypeOK
  <2>6. CASE Start(c)
    <3>1. Busy(c) = {} /\ Cardinality(Busy(c)) = 0
      BY <1>0, <2>6, FS_EmptySet DEF Start, Balanced
    <3>2. loop'[c] = "check" /\ permits'[c] = MaxConcurrent
      BY <2>6 DEF Start, TypeOK
    <3>3. QED
      BY <1>0, <2>1, <3>1, <3>2 DEF Balanced, Polling
  <2>7. CASE Crash(c)
    <3>1. Busy(c)' = {} /\ loop'[c] = "down"
      BY <2>7 DEF Crash, Busy, TypeOK
    <3>2. QED
      BY <3>1 DEF Balanced
  <2>8. CASE \E s \in Slots : PopTask(c, s)
    <3>1. PICK s \in Slots : PopTask(c, s)
      BY <2>8
    <3>2. job'[c][s] # Idle /\ job[c][s] = Idle
      BY <3>1 DEF PopTask, TypeOK, Idle
    <3>3. QED
      BY <1>1, <3>2
  <2>9. QED
    BY <2>2, <2>3, <2>4, <2>5, <2>6, <2>7, <2>8 DEF PollLoop
<1>2. CASE Crash(c)
  <2>1. Busy(c)' = {} /\ loop'[c] = "down"
    BY <1>2 DEF Crash, Busy, TypeOK
  <2>2. QED
    BY <2>1 DEF Balanced
<1>3. ASSUME NEW s \in Slots, PopTask(c, s)
      PROVE  Balanced(c)'
  <2>1. /\ job[c][s] = Idle /\ job'[c][s] # Idle
        /\ \A u \in Slots \ {s} : job'[c][u] = job[c][u]
    BY <1>3 DEF PopTask, TypeOK, Idle
  <2>2. Cardinality(Busy(c)') = Cardinality(Busy(c)) + 1
    BY <2>1, SlotTaken
  <2>3. loop[c] = "polling" /\ loop'[c] = "check" /\ permits'[c] = permits[c]
    BY <1>3 DEF PopTask, TypeOK
  <2>4. QED
    BY <1>0, <2>2, <2>3 DEF Balanced, Polling
<1>4. QED
  BY <1>1, <1>2, <1>3 DEF PollLoop, LoopCheck, Acquire, PopGarbage, PopTimeout, PopError, Stop,
     Drained, Start

\* A coroutine keeps its permit until finally gives it back.
LEMMA ProcessTaskBalanced ==
  ASSUME TypeOK, AllBalanced, NEW c \in Consumers, NEW s \in Slots, ProcessTask(c, s)
  PROVE  Balanced(c)'
<1>0. /\ permits[c] \in Nat /\ Cardinality(Busy(c)) \in Nat /\ MaxConcurrent \in Nat
      /\ Balanced(c) /\ loop' = loop
      /\ job[c][s].pc \in JobStates
  BY BusyFinite, ConstantsAssumption
     DEF TypeOK, AllBalanced, ProcessTask, HandlerReturns, HandlerRaises, PublishResult,
         PublishError, RetryTask, MoveToDeadLetter, RequeueError, ReportFailure, ReportError,
         jobRest, JobStates
<1>1. job[c][s] # Idle /\ s \in Busy(c)
  BY <1>0, BusyJobType DEF Busy
<1>2. loop[c] \notin {"down", "stopped"}
  BY <1>0, <1>1 DEF Balanced
<1>3. CASE /\ permits' = permits
           /\ \E pc \in JobStates : Goto(c, s, pc)
  <2>1. PICK pc \in JobStates : Goto(c, s, pc)
    BY <1>3
  <2>2. job[c][s] \in [pc : JobStates, task : Tasks, retry : Retries]
    BY <1>0, BusyJobType
  <2>3. [job[c][s] EXCEPT !.pc = pc] # Idle
    BY <2>2 DEF Idle, JobStates
  <2>4. job'[c][s] # Idle /\ \A u \in Slots \ {s} : job'[c][u] = job[c][u]
    BY <2>1, <2>3 DEF Goto, TypeOK
  <2>5. Busy(c)' = Busy(c)
    BY <1>1, <2>4 DEF Busy
  <2>6. QED
    BY <1>0, <1>3, <2>5 DEF Balanced, Polling
<1>4. CASE Finish(c, s)
  <2>1. job'[c][s] = Idle /\ \A u \in Slots \ {s} : job'[c][u] = job[c][u]
    BY <1>4 DEF Finish, TypeOK
  <2>2. Cardinality(Busy(c)') = Cardinality(Busy(c)) - 1
    BY <1>1, <2>1, SlotFreed
  <2>3. permits'[c] = permits[c] + 1
    BY <1>4 DEF Finish, Release, TypeOK
  <2>4. QED
    BY <1>0, <1>2, <2>2, <2>3 DEF Balanced, Polling
<1>5. QED
  BY <1>3, <1>4 DEF ProcessTask, HandlerReturns, HandlerRaises, PublishResult, PublishError,
     RetryTask, MoveToDeadLetter, RequeueError, ReportFailure, ReportError, JobStates

\* The steps of c leave the other consumers alone.
LEMMA OthersUntouched ==
  ASSUME TypeOK, NEW c \in Consumers, NEW d \in Consumers, d # c,
         PollLoop(c) \/ \E s \in Slots : ProcessTask(c, s)
  PROVE  loop'[d] = loop[d] /\ permits'[d] = permits[d] /\ job'[d] = job[d]
<1>1. CASE PollLoop(c)
  BY <1>1 DEF TypeOK, PollLoop, LoopCheck, Acquire, PopGarbage, PopTimeout, PopError, Stop,
     Drained, Start, Crash, PopTask, Release
<1>2. ASSUME NEW s \in Slots, ProcessTask(c, s)
      PROVE  loop'[d] = loop[d] /\ permits'[d] = permits[d] /\ job'[d] = job[d]
  BY <1>2 DEF TypeOK, jobRest, ProcessTask, HandlerReturns, HandlerRaises, PublishResult,
     PublishError, RetryTask, MoveToDeadLetter, RequeueError, ReportFailure, ReportError,
     Goto, Finish, Release
<1>3. QED
  BY <1>1, <1>2

LEMMA NextBalanced == TypeOK /\ AllBalanced /\ [Next]_vars => AllBalanced'
<1> SUFFICES ASSUME TypeOK, AllBalanced, [Next]_vars, NEW d \in Consumers
             PROVE  Balanced(d)'
  BY DEF AllBalanced
<1>1. CASE UNCHANGED <<loop, permits, job>>
  BY <1>1, OthersBalanced
<1>2. ASSUME NEW c \in Consumers, PollLoop(c) \/ \E s \in Slots : ProcessTask(c, s)
      PROVE  Balanced(d)'
  <2>1. CASE c = d
    BY <1>2, <2>1, PollLoopBalanced, ProcessTaskBalanced
  <2>2. CASE c # d
    BY <1>2, <2>2, OthersUntouched, OthersBalanced
  <2>3. QED
    BY <2>1, <2>2
<1>3. CASE Producer \/ DeadLetters
  <2>1. UNCHANGED <<loop, permits, job>>
    BY <1>3 DEF Producer, EnqueueCheck, EnqueuePush, EnqueueError, WaitSubscribe, WaitReturn,
       WaitTimeout, ClearQueue, PushGarbage, prodRest, DeadLetters, RetryFind, RetryRemove,
       RetryRequeue, RetryError, ClearDeadLetters, adminRest
  <2>2. QED
    BY <1>1, <2>1
<1>4. QED
  BY <1>1, <1>2, <1>3 DEF Next, vars

\* In every live consumer the free permits, the one a poll holds and one per running
\* coroutine add up to max_concurrent, so no path leaks or doubles a permit.
THEOREM SemaphoreBalanced == Spec => []SemaphoreAccounting
<1>1. AllBalanced => SemaphoreAccounting
  BY DEF AllBalanced, Balanced, SemaphoreAccounting
<1>2. Spec => [](TypeOK /\ AllBalanced)
  BY InitType, NextType, InitBalanced, NextBalanced, PTL DEF Spec
<1>3. QED
  BY <1>1, <1>2, PTL
-----------------------------------------------------------------------------
(* One copy.  A task has one element of the list, one coroutine, one letter or *)
(* one administrator who has taken its letter; the letters are dated, so that  *)
(* an administrator's letter is not written again behind its back; and a task  *)
(* that was not pushed is nowhere.                                             *)

OneAdmin == \A a, b \in Admins : a = b

Has(q, t) == \E i \in DOMAIN q : q[i].task = t
HasOnce(q, t) == \A i, k \in DOMAIN q : q[i].task = t /\ q[k].task = t => i = k
Holds(c, s, t) == job[c][s].pc \in Holding /\ job[c][s].task = t
Held(t) == \E c \in Consumers, s \in Slots : Holds(c, s, t)
Taken(t) == \E a \in Admins : AdminHolds(a, t)

OneCopy(t) ==
  /\ HasOnce(queue, t)
  /\ \A c, d \in Consumers, s, u \in Slots : Holds(c, s, t) /\ Holds(d, u, t) => c = d /\ s = u
  /\ \A d, e \in dead : d.task = t /\ e.task = t => d = e
  /\ ~ (Has(queue, t) /\ Held(t)) /\ ~ (Has(queue, t) /\ Buried(t)) /\ ~ (Held(t) /\ Buried(t))
  /\ Taken(t) => ~ Has(queue, t) /\ ~ Held(t) /\ ~ Buried(t)
Unpushed == {"new", "checked", "rejected"}
Fresh(t) == enq[t] \in Unpushed => ~ Has(queue, t) /\ ~ Held(t) /\ ~ Buried(t) /\ ~ Taken(t)
Dated ==
  /\ \A d \in dead : d.failedAt < events["letters"]
  /\ \A a \in Admins : admin[a] # NoCall =>
       /\ admin[a].item.failedAt < events["letters"]
       /\ admin[a].pc = "removed" => admin[a].item \notin dead
CopyInv == TypeOK /\ Dated /\ \A t \in Tasks : OneCopy(t) /\ Fresh(t)

LEMMA HasAdded ==
  ASSUME NEW S, NEW q \in Seq(S), NEW e \in S, NEW t
  PROVE  /\ Has(Append(q, e), t) <=> Has(q, t) \/ e.task = t
         /\ HasOnce(q, t) /\ ~ (e.task = t /\ Has(q, t)) => HasOnce(Append(q, e), t)
<1> DEFINE r == Append(q, e)
           n == Len(q)
<1>1. /\ n \in Nat /\ DOMAIN q = 1..n /\ DOMAIN r = 1..n + 1
      /\ \A i \in DOMAIN q : r[i] = q[i]
      /\ r[n + 1] = e
  <2>1. /\ r \in Seq(S) /\ Len(r) = Len(q) + 1
        /\ \A i \in 1..Len(q) : r[i] = q[i]
        /\ r[Len(q) + 1] = e
    BY AppendProperties
  <2>2. Len(q) \in Nat /\ DOMAIN q = 1..Len(q) /\ DOMAIN r = 1..Len(r)
    BY <2>1, LenProperties
  <2>3. QED
    BY <2>1, <2>2
<1> HIDE DEF r, n
<1>2. Has(r, t) => Has(q, t) \/ e.task = t
  BY <1>1 DEF Has
<1>3. Has(q, t) \/ e.task = t => Has(r, t)
  <2>1. n + 1 \in DOMAIN r /\ \A i \in DOMAIN q : i \in DOMAIN r
    BY <1>1
  <2>2. QED
    BY <1>1, <2>1 DEF Has
<1>4. ASSUME HasOnce(q, t), ~ (e.task = t /\ Has(q, t))
      PROVE  HasOnce(r, t)
  BY <1>1, <1>4 DEF HasOnce, Has
<1>5. QED
  BY <1>2, <1>3, <1>4 DEF r

LEMMA HasBehind ==
  ASSUME NEW S, NEW q \in Seq(S), q # <<>>, NEW t
  PROVE  /\ Has(Tail(q), t) => Has(q, t)
         /\ HasOnce(q, t) => HasOnce(Tail(q), t) /\ (Head(q).task = t => Has(q, t) /\ ~ Has(Tail(q), t))
<1>1. /\ Len(q) \in Nat \ {0} /\ DOMAIN q = 1..Len(q) /\ DOMAIN Tail(q) = 1..Len(q) - 1
      /\ Head(q) = q[1] /\ \A i \in DOMAIN Tail(q) : Tail(q)[i] = q[i + 1]
  <2>1. /\ Tail(q) \in Seq(S) /\ Len(Tail(q)) = Len(q) - 1
        /\ \A i \in 1..Len(Tail(q)) : Tail(q)[i] = q[i + 1]
    BY HeadTailProperties
  <2>2. Len(q) \in Nat \ {0}
    BY EmptySeq
  <2>3. DOMAIN q = 1..Len(q) /\ DOMAIN Tail(q) = 1..Len(Tail(q))
    BY <2>1, LenProperties
  <2>4. Head(q) = q[1]
    OBVIOUS
  <2>5. QED
    BY <2>1, <2>2, <2>3, <2>4
<1>2. \A i \in DOMAIN Tail(q) : i + 1 \in DOMAIN q /\ i + 1 # 1
  BY <1>1
<1>3. Has(Tail(q), t) => Has(q, t)
  BY <1>1, <1>2 DEF Has
<1>4. ASSUME HasOnce(q, t) PROVE HasOnce(Tail(q), t)
  <2>1. ASSUME NEW i \in DOMAIN Tail(q), NEW k \in DOMAIN Tail(q), Tail(q)[i].task = t, Tail(q)[k].task = t
        PROVE  i = k
    <3>1. i + 1 = k + 1
      BY <1>1, <1>2, <1>4, <2>1 DEF HasOnce
    <3>2. QED
      BY <1>1, <3>1
  <2>2. QED
    BY <2>1 DEF HasOnce
<1>5. ASSUME HasOnce(q, t), Head(q).task = t PROVE Has(q, t) /\ ~ Has(Tail(q), t)
  <2>1. 1 \in DOMAIN q
    BY <1>1
  <2>2. QED
    BY <1>1, <1>2, <1>5, <2>1 DEF Has, HasOnce
<1>6. QED
  BY <1>3, <1>4, <1>5

\* A step that makes no new copy of t.
LEMMA Fewer ==
  ASSUME NEW t, OneCopy(t), Fresh(t),
         HasOnce(queue', t), Has(queue', t) => Has(queue, t),
         \A c \in Consumers, s \in Slots : Holds(c, s, t)' => Holds(c, s, t),
         \A d \in dead' : d.task = t => d \in dead,
         Taken(t)' => Taken(t),
         enq'[t] \in Unpushed => enq[t] \in Unpushed
  PROVE  OneCopy(t)' /\ Fresh(t)'
BY DEF OneCopy, Fresh, Held, Buried

\* What a coroutine holds after it goes on or ends.
LEMMA GotoHolds ==
  ASSUME TypeOK, NEW c \in Consumers, NEW s \in Slots, NEW pc, job[c][s].pc \in JobStates, Goto(c, s, pc)
  PROVE  \A d \in Consumers, u \in Slots : \A t :
           Holds(d, u, t)' <=> IF d = c /\ u = s THEN pc \in Holding /\ job[c][s].task = t ELSE Holds(d, u, t)
<1>1. job[c][s] \in [pc : JobStates, task : Tasks, retry : Retries]
  BY BusyJobType
<1>2. job' = [job EXCEPT ![c] = [job[c] EXCEPT ![s] = [job[c][s] EXCEPT !.pc = pc]]]
  BY DEF Goto
<1>3. job'[c][s].pc = pc /\ job'[c][s].task = job[c][s].task
  BY <1>1, <1>2 DEF TypeOK
<1>4. \A d \in Consumers, u \in Slots : ~ (d = c /\ u = s) => job'[d][u] = job[d][u]
  BY <1>2 DEF TypeOK
<1>5. QED
  BY <1>3, <1>4 DEF Holds

LEMMA FinishHolds ==
  ASSUME TypeOK, NEW c \in Consumers, NEW s \in Slots, Finish(c, s)
  PROVE  \A d \in Consumers, u \in Slots : \A t : Holds(d, u, t)' <=> ~ (d = c /\ u = s) /\ Holds(d, u, t)
<1>1. job'[c][s] = Idle
  BY DEF Finish, TypeOK
<1>2. \A d \in Consumers, u \in Slots : ~ (d = c /\ u = s) => job'[d][u] = job[d][u]
  BY DEF Finish, TypeOK
<1>3. Idle.pc \notin Holding
  BY DEF Idle, Holding
<1>4. QED
  BY <1>1, <1>2, <1>3 DEF Holds

Copies == \A t \in Tasks : OneCopy(t) /\ Fresh(t)

\* An administrator's hold depends on the letters and on the administrator only.
LEMMA TakenStays ==
  ASSUME UNCHANGED admin, dead \subseteq dead', NEW t, Taken(t)'
  PROVE  Taken(t)
BY DEF Taken, AdminHolds

LEMMA DatedStays ==
  ASSUME Dated, UNCHANGED <<admin, dead>>, events'["letters"] = events["letters"]
  PROVE  Dated'
BY DEF Dated

LEMMA Letterless ==
  ASSUME TypeOK, NEW k \in EventKinds \ {"letters"}, Count(k)
  PROVE  events'["letters"] = events["letters"]
BY DEF TypeOK, Count, EventKinds

\* The element goes back to the list and the coroutine forgets the task.
LEMMA BackToQueue ==
  ASSUME CopyInv, NEW c \in Consumers, NEW s \in Slots, Holds(c, s, job[c][s].task),
         NEW e \in Elements, e.task = job[c][s].task, queue' = Append(queue, e),
         \A d \in Consumers, u \in Slots : \A t : Holds(d, u, t)' => ~ (d = c /\ u = s) /\ Holds(d, u, t),
         UNCHANGED <<dead, admin, enq>>
  PROVE  Copies'
<1> DEFINE x == job[c][s].task
<1>1. queue \in Seq(Elements)
  BY DEF CopyInv, TypeOK, Elements
<1>2. ASSUME NEW t \in Tasks PROVE OneCopy(t)' /\ Fresh(t)'
  <2>1. OneCopy(t) /\ Fresh(t) /\ (Taken(t)' => Taken(t)) /\ (Buried(t)' <=> Buried(t))
    BY TakenStays DEF CopyInv, Buried
  <2>2. /\ Has(queue', t) <=> Has(queue, t) \/ e.task = t
        /\ HasOnce(queue, t) /\ ~ (e.task = t /\ Has(queue, t)) => HasOnce(queue', t)
    BY <1>1, HasAdded
  <2>3. CASE t = e.task
    <3>1. Held(t) /\ Holds(c, s, t)
      BY <2>3 DEF Held
    <3>2. ~ Has(queue, t) /\ ~ Buried(t) /\ ~ Taken(t) /\ HasOnce(queue, t) /\ enq[t] \notin Unpushed
      BY <2>1, <3>1 DEF OneCopy, Fresh
    <3>3. \A d \in Consumers, u \in Slots : ~ Holds(d, u, t)'
      BY <2>1, <3>1 DEF OneCopy
    <3>4. ~ Held(t)'
      BY <3>3 DEF Held
    <3>5. OneCopy(t)'
      BY <2>1, <2>2, <3>2, <3>3, <3>4 DEF OneCopy
    <3>6. QED
      BY <3>2, <3>5 DEF Fresh
  <2>4. CASE t # e.task
    <3>1. HasOnce(queue', t) /\ (Has(queue', t) => Has(queue, t))
      BY <2>1, <2>2, <2>4 DEF OneCopy
    <3>2. QED
      BY <2>1, <3>1, Fewer
  <2>5. QED
    BY <2>3, <2>4
<1>3. QED
  BY <1>2 DEF Copies

\* The task becomes a new letter and the coroutine forgets it.
LEMMA ToDead ==
  ASSUME CopyInv, NEW c \in Consumers, NEW s \in Slots, job[c][s].pc = "failed",
         dead' = dead \cup {Letter(job[c][s])},
         \A d \in Consumers, u \in Slots : \A t : Holds(d, u, t)' => ~ (d = c /\ u = s) /\ Holds(d, u, t),
         UNCHANGED <<queue, admin, enq>>
  PROVE  Copies'
<1> DEFINE x == job[c][s].task
           l == Letter(job[c][s])
<1>1. l.task = x /\ Holds(c, s, x)
  BY DEF Letter, Holds, Holding
<1> HIDE DEF l, x
<1>2. ASSUME NEW t \in Tasks PROVE OneCopy(t)' /\ Fresh(t)'
  <2>1. OneCopy(t) /\ Fresh(t) /\ (Taken(t)' => Taken(t)) /\ dead' = dead \cup {l}
    BY TakenStays DEF CopyInv, l
  <2>2. CASE t = x
    <3>1. Held(t) /\ Holds(c, s, t)
      BY <1>1, <2>2 DEF Held
    <3>2. ~ Has(queue, t) /\ ~ Buried(t) /\ ~ Taken(t) /\ HasOnce(queue, t) /\ enq[t] \notin Unpushed
      BY <2>1, <3>1 DEF OneCopy, Fresh
    <3>3. \A d \in Consumers, u \in Slots : ~ Holds(d, u, t)'
      BY <2>1, <3>1 DEF OneCopy
    <3>4. ~ Held(t)'
      BY <3>3 DEF Held
    <3>5. \A d, e \in dead' : d.task = t /\ e.task = t => d = e
      BY <2>1, <3>2 DEF Buried
    <3>6. OneCopy(t)'
      BY <2>1, <3>2, <3>3, <3>4, <3>5 DEF OneCopy
    <3>7. QED
      BY <3>2, <3>6 DEF Fresh
  <2>3. CASE t # x
    <3>1. \A d \in dead' : d.task = t => d \in dead
      BY <1>1, <2>1, <2>3
    <3>2. HasOnce(queue', t) /\ (Has(queue', t) => Has(queue, t))
      BY <2>1 DEF OneCopy
    <3>3. QED
      BY <2>1, <3>1, <3>2, Fewer
  <2>4. QED
    BY <2>2, <2>3
<1>3. QED
  BY <1>2 DEF Copies

\* Only the coroutine's own state changes, and it holds nothing new.
LEMMA CopiesStay ==
  ASSUME CopyInv, UNCHANGED <<queue, dead, admin, enq>>,
         \A d \in Consumers, u \in Slots : \A t : Holds(d, u, t)' => Holds(d, u, t)
  PROVE  Copies'
<1>1. ASSUME NEW t \in Tasks PROVE OneCopy(t)' /\ Fresh(t)'
  <2>1. OneCopy(t) /\ Fresh(t) /\ (Taken(t)' => Taken(t))
    BY TakenStays DEF CopyInv
  <2>2. HasOnce(queue', t) /\ (Has(queue', t) => Has(queue, t))
    BY <2>1 DEF OneCopy
  <2>3. QED
    BY <2>1, <2>2, Fewer
<1>2. QED
  BY <1>1 DEF Copies

\* A new letter is dated later than all others.
LEMMA DatedLater ==
  ASSUME TypeOK, Dated, NEW c \in Consumers, NEW s \in Slots, job[c][s].pc = "failed", UNCHANGED admin,
         dead' = dead \cup {Letter(job[c][s])}, events'["letters"] = events["letters"] + 1
  PROVE  Dated'
<1> DEFINE l == Letter(job[c][s])
           n == events["letters"]
<1>1. n \in Nat /\ l.failedAt = n /\ dead' = dead \cup {l} /\ \A d \in dead : d.failedAt \in Nat
  BY DEF TypeOK, EventKinds, Letter, Letters
<1>2. \A a \in Admins : admin[a] # NoCall => admin[a].item.failedAt \in Nat
  BY DEF TypeOK, AdminCalls, Letters
<1> HIDE DEF l
<1>3. n < n + 1
  BY <1>1
<1>4. \A d \in dead' : d.failedAt < events'["letters"]
  BY <1>1, <1>3 DEF Dated
<1>5. ASSUME NEW a \in Admins, admin[a] # NoCall
      PROVE  /\ admin[a].item.failedAt < events'["letters"]
             /\ admin[a].pc = "removed" => admin[a].item \notin dead'
  BY <1>1, <1>2, <1>5 DEF Dated
<1>6. QED
  BY <1>4, <1>5 DEF Dated

LEMMA ProcessTaskCopies ==
  ASSUME CopyInv, NEW c \in Consumers, NEW s \in Slots, ProcessTask(c, s)
  PROVE  Dated' /\ Copies'
<1>1. TypeOK /\ Dated /\ UNCHANGED <<enq, admin>>
  BY DEF CopyInv, ProcessTask, HandlerReturns, HandlerRaises, PublishResult, PublishError, RetryTask,
         MoveToDeadLetter, RequeueError, ReportFailure, ReportError, jobRest
<1>2. CASE HandlerReturns(c, s) \/ HandlerRaises(c, s) \/ PublishError(c, s)
  <2>1. /\ Goto(c, s, "publishing") \/ Goto(c, s, "failed")
        /\ job[c][s].pc \in JobStates \cap Holding /\ UNCHANGED <<queue, dead>>
    BY <1>2 DEF HandlerReturns, HandlerRaises, PublishError, JobStates, Holding
  <2>2. \A d \in Consumers, u \in Slots : \A t : Holds(d, u, t)' => Holds(d, u, t)
    <3>1. PICK pc : Goto(c, s, pc)
      BY <2>1
    <3>2. \A d \in Consumers, u \in Slots : \A t :
            Holds(d, u, t)' <=> IF d = c /\ u = s THEN pc \in Holding /\ job[c][s].task = t ELSE Holds(d, u, t)
      BY <1>1, <2>1, <3>1, GotoHolds
    <3>3. \A t : job[c][s].task = t => Holds(c, s, t)
      BY <2>1 DEF Holds
    <3>4. QED
      BY <3>2, <3>3
  <2>3. events'["letters"] = events["letters"]
    BY <1>1, <1>2, Letterless DEF HandlerReturns, HandlerRaises, PublishError, Fault, EventKinds
  <2>4. QED
    BY <1>1, <2>1, <2>2, <2>3, CopiesStay, DatedStays
<1>3. CASE PublishResult(c, s) \/ ReportFailure(c, s) \/ ReportError(c, s)
  <2>1. Finish(c, s) /\ UNCHANGED <<queue, dead>>
    BY <1>3 DEF PublishResult, ReportFailure, ReportError
  <2>2. events'["letters"] = events["letters"]
    BY <1>1, <1>3, Letterless DEF PublishResult, ReportFailure, ReportError, Fault, EventKinds
  <2>3. QED
    BY <1>1, <2>1, <2>2, FinishHolds, CopiesStay, DatedStays
<1>4. CASE job[c][s].pc = "failed"
  <2> DEFINE e == [task |-> job[c][s].task, retry |-> job[c][s].retry + 1]
  <2>1. /\ job[c][s].task \in Tasks /\ job[c][s].retry \in Retries /\ job[c][s].pc \in JobStates
        /\ Holds(c, s, job[c][s].task)
    BY <1>1, <1>4, BusyJobType DEF JobStates, Holds, Holding
  <2>2. CanRetry(job[c][s]) => e \in Elements
    BY <2>1, ConstantsAssumption DEF CanRetry, Elements, Messages, Retries
  <2>3. e.task = job[c][s].task /\ Again(job[c][s]) = Append(queue, e)
    BY DEF Again
  <2> HIDE DEF e
  <2>4. ASSUME Goto(c, s, "reporting") \/ Finish(c, s)
        PROVE  \A d \in Consumers, u \in Slots : \A t : Holds(d, u, t)' => ~ (d = c /\ u = s) /\ Holds(d, u, t)
    BY <1>1, <2>1, <2>4, GotoHolds, FinishHolds DEF Holding
  <2>5. CASE RetryTask(c, s)
    BY <1>1, <2>1, <2>2, <2>3, <2>4, <2>5, BackToQueue, DatedStays DEF RetryTask
  <2>6. CASE MoveToDeadLetter(c, s)
    <3>1. events'["letters"] = events["letters"] + 1
      BY <1>1, <2>6 DEF MoveToDeadLetter, Count, TypeOK, EventKinds
    <3>2. QED
      BY <1>1, <1>4, <2>4, <2>6, <3>1, ToDead, DatedLater DEF MoveToDeadLetter
  <2>7. CASE RequeueError(c, s)
    <3>1. Finish(c, s)
      BY <2>7 DEF RequeueError
    <3>2. CASE UNCHANGED <<queue, dead>> /\ Count("faults")
      <4>1. events'["letters"] = events["letters"]
        BY <1>1, <3>2, Letterless DEF EventKinds
      <4>2. \A d \in Consumers, u \in Slots : \A t : Holds(d, u, t)' => Holds(d, u, t)
        BY <2>4, <3>1
      <4>3. QED
        BY <1>1, <3>2, <4>1, <4>2, CopiesStay, DatedStays
    <3>3. CASE CanRetry(job[c][s]) /\ queue' = Again(job[c][s]) /\ UNCHANGED dead /\ Count("faults")
      <4>1. events'["letters"] = events["letters"]
        BY <1>1, <3>3, Letterless DEF EventKinds
      <4>2. QED
        BY <1>1, <2>1, <2>2, <2>3, <2>4, <3>1, <3>3, <4>1, BackToQueue, DatedStays
    <3>4. CASE /\ dead' = dead \cup {Letter(job[c][s])} /\ UNCHANGED queue
               /\ events' = [events EXCEPT !.faults = @ + 1, !.letters = @ + 1]
      <4>1. events'["letters"] = events["letters"] + 1
        <5>1. events \in [EventKinds -> Nat] /\ "letters" \in EventKinds
          BY <1>1 DEF TypeOK, EventKinds
        <5>2. QED
          BY <3>4, <5>1
      <4>2. QED
        BY <1>1, <1>4, <2>4, <3>1, <3>4, <4>1, ToDead, DatedLater
    <3>5. QED
      BY <2>7, <3>2, <3>3, <3>4 DEF RequeueError
  <2>8. CASE ~ (RetryTask(c, s) \/ MoveToDeadLetter(c, s) \/ RequeueError(c, s))
    BY <1>2, <1>3, <2>8 DEF ProcessTask
  <2>9. QED
    BY <2>5, <2>6, <2>7, <2>8
<1>5. QED
  BY <1>2, <1>3, <1>4 DEF ProcessTask, RetryTask, MoveToDeadLetter, RequeueError

\* A poll takes the oldest element, for a coroutine or to drop it; a crash drops coroutines.
LEMMA PollLoopCopies ==
  ASSUME CopyInv, NEW c \in Consumers, PollLoop(c)
  PROVE  Dated' /\ Copies'
<1>1. /\ TypeOK /\ Dated /\ UNCHANGED <<enq, admin, dead>> /\ queue \in Seq(Elements)
  BY DEF CopyInv, TypeOK, Elements, PollLoop, LoopCheck, Acquire, PopGarbage, PopTimeout, PopError, Stop,
         Drained, Start, Crash, PopTask, loopRest
<1>2. events'["letters"] = events["letters"]
  BY <1>1, Letterless DEF PollLoop, LoopCheck, Acquire, PopGarbage, PopTimeout, PopError, Stop,
         Drained, Start, Crash, PopTask, Fault, EventKinds
<1>3. Dated'
  BY <1>1, <1>2, DatedStays
<1>4. ASSUME \/ UNCHANGED queue
             \/ queue # <<>> /\ queue' = Tail(queue),
             \A d \in Consumers, u \in Slots : \A t : Holds(d, u, t)' => Holds(d, u, t)
      PROVE  Copies'
  <2>1. ASSUME NEW t \in Tasks PROVE OneCopy(t)' /\ Fresh(t)'
    <3>1. OneCopy(t) /\ Fresh(t) /\ (Taken(t)' => Taken(t))
      BY <1>1, TakenStays DEF CopyInv
    <3>2. HasOnce(queue', t) /\ (Has(queue', t) => Has(queue, t))
      <4>1. CASE UNCHANGED queue
        BY <3>1, <4>1 DEF OneCopy
      <4>2. CASE queue # <<>> /\ queue' = Tail(queue)
        BY <1>1, <3>1, <4>2, HasBehind DEF OneCopy
      <4>3. QED
        BY <1>4, <4>1, <4>2
    <3>3. QED
      BY <1>1, <1>4, <3>1, <3>2, Fewer
  <2>2. QED
    BY <2>1 DEF Copies
<1>5. CASE Crash(c)
  <2>1. /\ \A d \in Consumers \ {c} : job'[d] = job[d]
        /\ \A u \in Slots : job'[c][u] = Idle
    BY <1>1, <1>5 DEF Crash, TypeOK
  <2>2. Idle.pc \notin Holding
    BY DEF Idle, Holding
  <2>3. \A d \in Consumers, u \in Slots : \A t : Holds(d, u, t)' => Holds(d, u, t)
    BY <2>1, <2>2 DEF Holds
  <2>4. QED
    BY <1>3, <1>4, <1>5, <2>3 DEF Crash
<1>6. CASE LoopCheck(c) \/ Acquire(c) \/ PopGarbage(c) \/ PopTimeout(c) \/ PopError(c) \/ Stop(c) \/ Drained(c) \/ Start(c)
  <2>1. UNCHANGED job
    BY <1>6 DEF LoopCheck, Acquire, PopGarbage, PopTimeout, PopError, Stop, Drained, Start
  <2>2. \A d \in Consumers, u \in Slots : \A t : Holds(d, u, t)' => Holds(d, u, t)
    BY <2>1 DEF Holds
  <2>3. UNCHANGED queue \/ (queue # <<>> /\ queue' = Tail(queue))
    BY <1>6 DEF LoopCheck, Acquire, PopGarbage, PopTimeout, PopError, Stop, Drained, Start
  <2>4. QED
    BY <1>3, <1>4, <2>2, <2>3
<1>7. ASSUME NEW s \in Slots, PopTask(c, s) PROVE Copies'
  <2> DEFINE m == Head(queue)
             j == [pc |-> "handling", task |-> m.task, retry |-> m.retry]
  <2>1. /\ queue # <<>> /\ queue' = Tail(queue) /\ job' = [job EXCEPT ![c][s] = j] /\ job[c][s] = Idle
    BY <1>7 DEF PopTask
  <2>2. j.pc \in Holding /\ j.task = m.task /\ Idle.pc \notin Holding
    BY DEF Idle, Holding
  <2> HIDE DEF m, j
  <2>3. job'[c][s] = j /\ \A d \in Consumers, u \in Slots : ~ (d = c /\ u = s) => job'[d][u] = job[d][u]
    BY <1>1, <2>1 DEF TypeOK
  <2>4. \A d \in Consumers, u \in Slots : \A t :
          Holds(d, u, t)' => (d = c /\ u = s /\ t = m.task) \/ (~ (d = c /\ u = s) /\ Holds(d, u, t))
    BY <2>2, <2>3 DEF Holds
  <2>5. ASSUME NEW t \in Tasks PROVE OneCopy(t)' /\ Fresh(t)'
    <3>1. OneCopy(t) /\ Fresh(t) /\ (Taken(t)' => Taken(t)) /\ (Buried(t)' <=> Buried(t))
      BY <1>1, TakenStays DEF CopyInv, Buried
    <3>2. /\ Has(queue', t) => Has(queue, t)
          /\ HasOnce(queue', t) /\ (m.task = t => Has(queue, t) /\ ~ Has(queue', t))
      BY <1>1, <2>1, <3>1, HasBehind DEF OneCopy, m
    <3>3. CASE t = m.task
      <4>1. Has(queue, t) /\ ~ Has(queue', t) /\ ~ Held(t) /\ ~ Buried(t) /\ ~ Taken(t) /\ enq[t] \notin Unpushed
        BY <3>1, <3>2, <3>3 DEF OneCopy, Fresh
      <4>2. \A d \in Consumers, u \in Slots : Holds(d, u, t)' => d = c /\ u = s
        BY <2>4, <4>1 DEF Held
      <4>3. OneCopy(t)'
        BY <1>1, <3>1, <3>2, <4>1, <4>2 DEF OneCopy
      <4>4. QED
        BY <1>1, <4>1, <4>3 DEF Fresh
    <3>4. CASE t # m.task
      <4>1. \A d \in Consumers, u \in Slots : Holds(d, u, t)' => Holds(d, u, t)
        BY <2>4, <3>4
      <4>2. QED
        BY <1>1, <3>1, <3>2, <4>1, Fewer
    <3>5. QED
      BY <3>3, <3>4
  <2>6. QED
    BY <2>5 DEF Copies
<1>8. QED
  BY <1>3, <1>5, <1>6, <1>7 DEF PollLoop

\* The list loses elements or gets one of a task that was nowhere.
LEMMA ProducerCopies ==
  ASSUME CopyInv, Producer
  PROVE  Dated' /\ Copies'
<1>1. /\ TypeOK /\ Dated /\ UNCHANGED <<job, admin, dead>> /\ queue \in Seq(Elements)
  BY DEF CopyInv, TypeOK, Elements, Producer, EnqueueCheck, EnqueuePush, EnqueueError, WaitSubscribe, WaitReturn,
         WaitTimeout, ClearQueue, PushGarbage, prodRest
<1>2. events'["letters"] = events["letters"]
  BY <1>1, Letterless DEF Producer, EnqueueCheck, EnqueuePush, EnqueueError, WaitSubscribe, WaitReturn,
         WaitTimeout, ClearQueue, PushGarbage, Fault, EventKinds
<1>3. Dated'
  BY <1>1, <1>2, DatedStays
<1>4. \A d \in Consumers, u \in Slots : \A t : Holds(d, u, t)' <=> Holds(d, u, t)
  BY <1>1 DEF Holds
<1>5. \A t : (Taken(t)' => Taken(t)) /\ (Buried(t)' <=> Buried(t)) /\ (Held(t)' <=> Held(t))
  BY <1>1, <1>4, TakenStays DEF Buried, Held
<1>6. ASSUME NEW x \in Tasks \cup {NoTask}, NEW n, [task |-> x, retry |-> n] \in Elements,
             queue' = Append(queue, [task |-> x, retry |-> n]),
             x \in Tasks => enq[x] \in Unpushed /\ enq'[x] \notin Unpushed,
             \A t \in Tasks \ {x} : enq'[t] = enq[t]
      PROVE  Copies'
  <2> DEFINE e == [task |-> x, retry |-> n]
  <2>1. ASSUME NEW t \in Tasks PROVE OneCopy(t)' /\ Fresh(t)'
    <3>1. OneCopy(t) /\ Fresh(t)
      BY DEF CopyInv
    <3>2. /\ Has(queue', t) <=> Has(queue, t) \/ x = t
          /\ HasOnce(queue, t) /\ ~ (x = t /\ Has(queue, t)) => HasOnce(queue', t)
      <4>1. e.task = x /\ e \in Elements /\ queue' = Append(queue, e)
        BY <1>6
      <4> HIDE DEF e
      <4>2. QED
        BY <1>1, <4>1, HasAdded
    <3>3. CASE t = x
      <4>1. ~ Has(queue, t) /\ ~ Held(t) /\ ~ Buried(t) /\ ~ Taken(t) /\ enq'[t] \notin Unpushed
        BY <1>6, <3>1, <3>3 DEF Fresh
      <4>2. OneCopy(t)'
        BY <1>1, <1>4, <1>5, <3>1, <3>2, <4>1 DEF OneCopy
      <4>3. QED
        BY <4>1, <4>2 DEF Fresh
    <3>4. CASE t # x
      <4>1. HasOnce(queue', t) /\ (Has(queue', t) => Has(queue, t)) /\ enq'[t] = enq[t]
        BY <1>6, <3>1, <3>2, <3>4 DEF OneCopy
      <4>2. QED
        BY <1>1, <1>4, <1>5, <3>1, <4>1, Fewer
    <3>5. QED
      BY <3>3, <3>4
  <2>2. QED
    BY <2>1 DEF Copies
<1>7. ASSUME queue' \in {queue, <<>>}, \A t \in Tasks : enq'[t] \in Unpushed => enq[t] \in Unpushed
      PROVE  Copies'
  <2>1. \A t : HasOnce(<<>>, t) /\ ~ Has(<<>>, t)
    BY DEF Has, HasOnce
  <2>2. ASSUME NEW t \in Tasks PROVE OneCopy(t)' /\ Fresh(t)'
    <3>1. OneCopy(t) /\ Fresh(t) /\ HasOnce(queue', t) /\ (Has(queue', t) => Has(queue, t))
      BY <1>7, <2>1 DEF CopyInv, OneCopy
    <3>2. QED
      BY <1>1, <1>4, <1>5, <1>7, <3>1, Fewer
  <2>3. QED
    BY <2>2 DEF Copies
<1>8. ASSUME NEW t \in Tasks, EnqueuePush(t) \/ EnqueueError(t) PROVE Copies'
  <2>1. /\ enq[t] = "checked"
        /\ \/ enq' = [enq EXCEPT ![t] = "accepted"]
           \/ enq' = [enq EXCEPT ![t] = "error"]
        /\ \/ queue' = queue
           \/ queue' = Append(queue, [task |-> t, retry |-> 0])
    BY <1>8 DEF EnqueuePush, EnqueueError
  <2>2. enq[t] \in Unpushed /\ enq'[t] \notin Unpushed /\ \A x \in Tasks \ {t} : enq'[x] = enq[x]
    BY <1>1, <2>1 DEF TypeOK, Unpushed
  <2>3. CASE queue' = queue
    BY <1>7, <2>2, <2>3
  <2>4. CASE queue' = Append(queue, [task |-> t, retry |-> 0])
    BY <1>6, <2>2, <2>4, ElementTypes
  <2>5. QED
    BY <2>1, <2>3, <2>4
<1>9. ASSUME NEW t \in Tasks, EnqueueCheck(t) PROVE Copies'
  <2>1. enq[t] \in Unpushed /\ \A x \in Tasks \ {t} : enq'[x] = enq[x]
    BY <1>1, <1>9 DEF EnqueueCheck, TypeOK, Unpushed
  <2>2. queue' = queue
    BY <1>9 DEF EnqueueCheck
  <2>3. QED
    BY <1>7, <2>1, <2>2
<1>10. ASSUME NEW t \in Tasks, WaitSubscribe(t) \/ WaitReturn(t) \/ WaitTimeout(t) PROVE Copies'
  BY <1>7, <1>10 DEF WaitSubscribe, WaitReturn, WaitTimeout
<1>11. CASE ClearQueue
  <2>1. queue' = <<>> /\ UNCHANGED enq
    BY <1>11 DEF ClearQueue
  <2>2. Copies'
    BY <1>7, <2>1
  <2>3. QED
    BY <1>3, <2>2
<1>12. CASE PushGarbage
  <2>1. queue' = Append(queue, [task |-> NoTask, retry |-> 0]) /\ UNCHANGED enq
    BY <1>12 DEF PushGarbage, Garbage
  <2>2. [task |-> NoTask, retry |-> 0] \in Elements /\ NoTask \notin Tasks
    BY ElementTypes, ConstantsAssumption DEF Garbage
  <2>3. Copies'
    BY <1>6, <2>1, <2>2
  <2>4. QED
    BY <1>3, <2>3
<1>13. QED
  BY <1>3, <1>8, <1>9, <1>10, <1>11, <1>12 DEF Producer

\* The administrator's letter: in the dead letters, taken, or pushed.
LEMMA DeadLettersCopies ==
  ASSUME OneAdmin, CopyInv, DeadLetters
  PROVE  Dated' /\ Copies'
<1>1. /\ TypeOK /\ Dated /\ UNCHANGED <<job, enq>> /\ queue \in Seq(Elements)
  BY DEF CopyInv, TypeOK, Elements, DeadLetters, RetryFind, RetryRemove, RetryRequeue, RetryError,
         ClearDeadLetters, adminRest
<1>2. events'["letters"] = events["letters"]
  BY <1>1, Letterless DEF DeadLetters, RetryFind, RetryRemove, RetryRequeue, RetryError, ClearDeadLetters,
         Fault, EventKinds
<1>3. \A d \in Consumers, u \in Slots : \A t : Holds(d, u, t)' <=> Holds(d, u, t)
  BY <1>1 DEF Holds
<1>4. \A t : Held(t)' <=> Held(t)
  BY <1>3 DEF Held
<1>5. ASSUME NEW t \in Tasks, dead' \subseteq dead, HasOnce(queue', t), Has(queue', t) => Has(queue, t),
             Taken(t)' => Taken(t)
      PROVE  OneCopy(t)' /\ Fresh(t)'
  BY <1>1, <1>3, <1>5, Fewer DEF CopyInv
<1>6. ASSUME NEW a \in Admins, NEW x \in Tasks, RetryFind(a, x) PROVE Dated' /\ Copies'
  <2>1. PICK d \in dead : admin' = [admin EXCEPT ![a] = [pc |-> "found", item |-> d]]
    BY <1>6 DEF RetryFind
  <2>2. admin'[a] = [pc |-> "found", item |-> d] /\ UNCHANGED <<queue, dead>>
    BY <1>1, <1>6, <2>1 DEF RetryFind, TypeOK
  <2>3. \A b \in Admins : admin'[b].pc = "found" /\ admin'[b].item = d
    BY <2>2 DEF OneAdmin
  <2>4. \A t : ~ Taken(t)'
    BY <2>2, <2>3 DEF Taken, AdminHolds
  <2>5. Dated'
    BY <1>1, <1>2, <2>2, <2>3 DEF Dated
  <2>6. ASSUME NEW t \in Tasks PROVE OneCopy(t)' /\ Fresh(t)'
    BY <1>5, <2>2, <2>4 DEF CopyInv, OneCopy
  <2>7. QED
    BY <2>5, <2>6 DEF Copies
<1>7. ASSUME NEW a \in Admins, RetryRemove(a) PROVE Dated' /\ Copies'
  <2> DEFINE i == admin[a].item
             n == [admin[a] EXCEPT !.pc = "removed"]
  <2>1. admin[a].pc = "found" /\ dead' = dead \ {i} /\ admin' = [admin EXCEPT ![a] = n] /\ UNCHANGED queue
    BY <1>7 DEF RetryRemove
  <2>2. admin[a] # NoCall
    BY <2>1 DEF NoCall
  <2>3. admin[a] \in [pc : {"found", "removed"}, item : Letters]
    BY <1>1, <2>2 DEF TypeOK, AdminCalls
  <2>4. n.item = i /\ n # NoCall /\ i \in Letters
    BY <2>3 DEF NoCall
  <2> HIDE DEF n, i
  <2>5. \A b \in Admins : admin'[b] = n /\ admin[b] = admin[a]
    BY <1>1, <2>1 DEF OneAdmin, TypeOK
  <2>6. i \notin dead' /\ i.failedAt < events["letters"]
    BY <1>1, <2>1, <2>2 DEF Dated, i
  <2>7. Dated'
    BY <1>1, <1>2, <2>1, <2>4, <2>5, <2>6 DEF Dated
  <2>8. ASSUME NEW t \in Tasks PROVE OneCopy(t)' /\ Fresh(t)'
    <3>1. OneCopy(t) /\ Fresh(t)
      BY DEF CopyInv
    <3>2. CASE t = i.task
      <4>1. Buried(t) \/ Taken(t)
        <5>1. CASE i \in dead
          BY <3>2, <5>1 DEF Buried
        <5>2. CASE i \notin dead
          BY <2>2, <3>2, <5>2 DEF Taken, AdminHolds, i
        <5>3. QED
          BY <5>1, <5>2
      <4>2. ~ Has(queue, t) /\ ~ Held(t) /\ enq[t] \notin Unpushed
        BY <3>1, <4>1 DEF OneCopy, Fresh
      <4>3. ~ Buried(t)'
        <5>1. CASE i \in dead
          BY <2>1, <3>1, <3>2, <5>1 DEF OneCopy, Buried
        <5>2. CASE i \notin dead
          <6>1. Taken(t)
            BY <2>2, <3>2, <5>2 DEF Taken, AdminHolds, i
          <6>2. QED
            BY <2>1, <3>1, <6>1 DEF OneCopy, Buried
        <5>3. QED
          BY <5>1, <5>2
      <4>4. HasOnce(queue', t) /\ ~ Has(queue', t) /\ ~ Held(t)'
        BY <1>4, <2>1, <3>1, <4>2 DEF OneCopy
      <4>5. OneCopy(t)'
        BY <1>3, <2>1, <3>1, <4>3, <4>4 DEF OneCopy
      <4>6. QED
        BY <1>1, <4>2, <4>5 DEF Fresh
    <3>3. CASE t # i.task
      <4>1. ~ Taken(t)'
        BY <2>4, <2>5, <3>3 DEF Taken, AdminHolds
      <4>2. QED
        BY <1>5, <2>1, <3>1, <4>1 DEF OneCopy
    <3>4. QED
      BY <3>2, <3>3
  <2>9. QED
    BY <2>7, <2>8 DEF Copies
<1>8. ASSUME NEW a \in Admins, RetryRequeue(a) \/ RetryError(a) PROVE Dated' /\ Copies'
  <2> DEFINE x == admin[a].item.task
             e == [task |-> x, retry |-> 0]
  <2>1. /\ admin[a] # NoCall /\ admin' = [admin EXCEPT ![a] = NoCall] /\ dead' \subseteq dead
        /\ \/ UNCHANGED queue
           \/ admin[a].pc = "removed" /\ queue' = Append(queue, e) /\ UNCHANGED dead
    BY <1>8 DEF RetryRequeue, RetryError, NoCall
  <2>2. \A b \in Admins : admin'[b] = NoCall
    BY <1>1, <2>1 DEF OneAdmin, TypeOK
  <2>3. \A t : ~ Taken(t)'
    BY <2>2 DEF Taken, AdminHolds
  <2>4. Dated'
    BY <1>1, <1>2, <2>1, <2>2 DEF Dated
  <2>5. CASE UNCHANGED queue
    BY <1>5, <2>1, <2>3, <2>4, <2>5 DEF CopyInv, OneCopy, Copies
  <2>6. CASE admin[a].pc = "removed" /\ queue' = Append(queue, e) /\ UNCHANGED dead
    <3>1. x \in Tasks /\ e \in Elements /\ e.task = x /\ Taken(x)
      <4>1. admin[a].item \in Letters /\ admin[a].item \notin dead
        BY <1>1, <2>1, <2>6 DEF TypeOK, AdminCalls, Dated
      <4>2. x \in Tasks
        BY <4>1 DEF Letters
      <4>3. QED
        BY <2>1, <4>1, <4>2, ElementTypes DEF Taken, AdminHolds
    <3> HIDE DEF x, e
    <3>2. ASSUME NEW t \in Tasks PROVE OneCopy(t)' /\ Fresh(t)'
      <4>1. OneCopy(t) /\ Fresh(t)
        BY DEF CopyInv
      <4>2. /\ Has(queue', t) <=> Has(queue, t) \/ x = t
            /\ HasOnce(queue, t) /\ ~ (x = t /\ Has(queue, t)) => HasOnce(queue', t)
        BY <1>1, <2>6, <3>1, HasAdded
      <4>3. CASE t = x
        <5>1. ~ Has(queue, t) /\ ~ Held(t) /\ ~ Buried(t) /\ enq[t] \notin Unpushed
          BY <3>1, <4>1, <4>3 DEF OneCopy, Fresh
        <5>2. ~ Held(t)' /\ ~ Buried(t)' /\ HasOnce(queue', t)
          BY <1>4, <2>1, <4>1, <4>2, <5>1 DEF OneCopy, Buried
        <5>3. OneCopy(t)'
          BY <1>3, <2>1, <2>3, <4>1, <5>2 DEF OneCopy
        <5>4. QED
          BY <1>1, <5>1, <5>3 DEF Fresh
      <4>4. CASE t # x
        <5>1. HasOnce(queue', t) /\ (Has(queue', t) => Has(queue, t))
          BY <4>1, <4>2, <4>4 DEF OneCopy
        <5>2. QED
          BY <1>5, <2>1, <2>3, <5>1
      <4>5. QED
        BY <4>3, <4>4
    <3>3. QED
      BY <2>4, <3>2 DEF Copies
  <2>7. QED
    BY <2>1, <2>5, <2>6
<1>9. CASE ClearDeadLetters
  <2>1. dead' = {} /\ UNCHANGED <<queue, admin>>
    BY <1>9 DEF ClearDeadLetters
  <2>2. Dated'
    BY <1>1, <1>2, <2>1 DEF Dated
  <2>3. ASSUME NEW t \in Tasks PROVE OneCopy(t)' /\ Fresh(t)'
    <3>1. OneCopy(t) /\ Fresh(t)
      BY DEF CopyInv
    <3>2. CASE Taken(t)' => Taken(t)
      BY <1>5, <2>1, <3>1, <3>2 DEF OneCopy
    <3>3. CASE Taken(t)' /\ ~ Taken(t)
      <4>1. PICK a \in Admins : admin[a] # NoCall /\ admin[a].item.task = t
        BY <2>1, <3>3 DEF Taken, AdminHolds
      <4>2. Buried(t)
        BY <3>3, <4>1 DEF Taken, AdminHolds, Buried
      <4>3. ~ Has(queue, t) /\ ~ Held(t) /\ enq[t] \notin Unpushed
        BY <3>1, <4>2 DEF OneCopy, Fresh
      <4>4. ~ Held(t)' /\ ~ Buried(t)' /\ ~ Has(queue', t) /\ HasOnce(queue', t)
        BY <1>4, <2>1, <3>1, <4>3 DEF OneCopy, Buried
      <4>5. OneCopy(t)'
        BY <1>3, <2>1, <3>1, <4>4 DEF OneCopy
      <4>6. QED
        BY <1>1, <4>3, <4>5 DEF Fresh
    <3>4. QED
      BY <3>2, <3>3
  <2>4. QED
    BY <2>2, <2>3 DEF Copies
<1>10. QED
  BY <1>6, <1>7, <1>8, <1>9 DEF DeadLetters

LEMMA InitCopies == Init => CopyInv
<1> SUFFICES ASSUME Init
             PROVE  CopyInv
  OBVIOUS
<1>1. TypeOK
  BY InitType
<1>2. Dated
  BY DEF Init, Dated
<1>3. ASSUME NEW t \in Tasks PROVE OneCopy(t) /\ Fresh(t)
  <2>1. ~ Has(queue, t) /\ HasOnce(queue, t)
    BY DEF Init, Has, HasOnce
  <2>2. \A c \in Consumers, s \in Slots : ~ Holds(c, s, t)
    BY DEF Init, Holds, Holding, Idle
  <2>3. dead = {} /\ ~ Taken(t) /\ ~ Buried(t)
    BY DEF Init, Taken, AdminHolds, Buried
  <2>4. QED
    BY <2>1, <2>2, <2>3 DEF OneCopy, Fresh, Held
<1>4. QED
  BY <1>1, <1>2, <1>3 DEF CopyInv

LEMMA NextCopies ==
  ASSUME OneAdmin
  PROVE  CopyInv /\ [Next]_vars => CopyInv'
<1> SUFFICES ASSUME CopyInv, [Next]_vars
             PROVE  CopyInv'
  OBVIOUS
<1>1. TypeOK'
  BY NextType DEF CopyInv
<1>2. CASE UNCHANGED vars
  <2>1. UNCHANGED <<queue, dead, enq, job, admin, events>>
    BY <1>2 DEF vars
  <2>2. Dated'
    BY <2>1 DEF CopyInv, Dated
  <2>3. ASSUME NEW t \in Tasks PROVE OneCopy(t)' /\ Fresh(t)'
    <3>1. OneCopy(t) /\ Fresh(t)
      BY DEF CopyInv
    <3>2. \A c \in Consumers, s \in Slots : Holds(c, s, t)' <=> Holds(c, s, t)
      BY <2>1 DEF Holds
    <3>3. HasOnce(queue', t) /\ (Has(queue', t) => Has(queue, t)) /\ (Taken(t)' => Taken(t))
      BY <2>1, <3>1, TakenStays DEF OneCopy
    <3>4. QED
      BY <2>1, <3>1, <3>2, <3>3, Fewer
  <2>4. QED
    BY <1>1, <2>2, <2>3 DEF CopyInv
<1>3. CASE Next
  <2>1. Dated' /\ Copies'
    BY <1>3, ProducerCopies, PollLoopCopies, ProcessTaskCopies, DeadLettersCopies DEF Next
  <2>2. QED
    BY <1>1, <2>1 DEF CopyInv, Copies
<1>4. QED
  BY <1>2, <1>3

LEMMA CopiesSingle == CopyInv => SingleCopy
<1> SUFFICES ASSUME CopyInv, NEW t \in Tasks
             PROVE  /\ \A i, k \in DOMAIN queue : QueuedAt(i, t) /\ QueuedAt(k, t) => i = k
                    /\ \A w, x \in Workers : HeldBy(w, t) /\ HeldBy(x, t) => w = x
                    /\ \A d, e \in dead : d.task = t /\ e.task = t => d = e
                    /\ \A i \in DOMAIN queue, w \in Workers : ~ (QueuedAt(i, t) /\ HeldBy(w, t))
                    /\ \A a \in Admins : AdminHolds(a, t) =>
                         /\ ~ Buried(t)
                         /\ \A i \in DOMAIN queue, w \in Workers : ~ QueuedAt(i, t) /\ ~ HeldBy(w, t)
                    /\ Buried(t) => \A i \in DOMAIN queue, w \in Workers : ~ QueuedAt(i, t) /\ ~ HeldBy(w, t)
  BY DEF SingleCopy
<1>1. OneCopy(t)
  BY DEF CopyInv
<1>2. \A i \in DOMAIN queue : QueuedAt(i, t) <=> queue[i].task = t
  BY DEF QueuedAt
<1>3. \A i \in DOMAIN queue : QueuedAt(i, t) => Has(queue, t)
  BY DEF QueuedAt, Has
<1>4. ASSUME NEW w \in Workers
      PROVE  /\ w = <<w[1], w[2]>> /\ w[1] \in Consumers /\ w[2] \in Slots
             /\ HeldBy(w, t) <=> Holds(w[1], w[2], t)
             /\ HeldBy(w, t) => Held(t)
  <2>1. w = <<w[1], w[2]>> /\ w[1] \in Consumers /\ w[2] \in Slots
    BY DEF Workers
  <2>2. HeldBy(w, t) <=> Holds(w[1], w[2], t)
    BY DEF HeldBy, Holds
  <2>3. QED
    BY <2>1, <2>2 DEF Held
<1>5. \A a \in Admins : AdminHolds(a, t) => Taken(t)
  BY DEF Taken
<1>6. \A i, k \in DOMAIN queue : QueuedAt(i, t) /\ QueuedAt(k, t) => i = k
  BY <1>1, <1>2 DEF OneCopy, HasOnce
<1>7. \A w, x \in Workers : HeldBy(w, t) /\ HeldBy(x, t) => w = x
  <2> SUFFICES ASSUME NEW w \in Workers, NEW x \in Workers, HeldBy(w, t), HeldBy(x, t)
               PROVE  w = x
    OBVIOUS
  <2>1. w[1] = x[1] /\ w[2] = x[2]
    BY <1>1, <1>4 DEF OneCopy
  <2>2. QED
    BY <1>4, <2>1
<1>8. QED
  BY <1>1, <1>3, <1>4, <1>5, <1>6, <1>7 DEF OneCopy

\* With one administrator a task never has two copies: no crash, Redis error or
\* clearing of a list makes two consumers execute it concurrently, or leaves it in
\* the queue and among the dead letters.
THEOREM OneCopyOnly ==
  ASSUME OneAdmin
  PROVE  Spec => []SingleCopy
<1>1. QED
  BY InitCopies, NextCopies, CopiesSingle, PTL DEF Spec

-----------------------------------------------------------------------------
(* The promise.  Where a task can come from: an element of the list from a   *)
(* producer, a failed coroutine or an administrator; a coroutine from the    *)
(* list; a letter from a failed coroutine; an administrator from a letter.   *)

Awaiting == {"new", "checked"}
Traced(t) ==
  /\ Has(queue', t) => Has(queue, t) \/ Held(t) \/ Taken(t) \/ enq[t] = "checked"
  /\ Held(t)' => Held(t) \/ Has(queue, t)
  /\ Taken(t)' => Taken(t) \/ Buried(t)
  /\ Buried(t)' => Buried(t) \/ Held(t)
  /\ enq'[t] \in Awaiting => enq[t] \in Awaiting
  /\ t \in done' \ done => Held(t) /\ (Buried(t)' => Buried(t))
  /\ done \subseteq done'

LEMMA LivePlaces == \A t : Live(t) <=> Has(queue, t) \/ Held(t) \/ Taken(t)
<1> TAKE t
<1>1. (\E i \in DOMAIN queue : QueuedAt(i, t)) <=> Has(queue, t)
  BY DEF QueuedAt, Has
<1>2. ASSUME NEW w \in Workers, HeldBy(w, t) PROVE Held(t)
  BY <1>2 DEF Workers, HeldBy, Held, Holds
<1>3. ASSUME NEW c \in Consumers, NEW s \in Slots, Holds(c, s, t) PROVE \E w \in Workers : HeldBy(w, t)
  <2>1. <<c, s>> \in Workers /\ HeldBy(<<c, s>>, t)
    BY <1>3 DEF Workers, HeldBy, Holds
  <2>2. QED
    BY <2>1
<1>4. (\E w \in Workers : HeldBy(w, t)) <=> Held(t)
  BY <1>2, <1>3 DEF Held
<1>5. QED
  BY <1>1, <1>4 DEF Live, Taken

LEMMA LivePlacesLater == (\A t : Live(t) <=> Has(queue, t) \/ Held(t) \/ Taken(t))'
BY LivePlaces, PTL

LEMMA ProducerTraced ==
  ASSUME TypeOK, Producer, NEW t \in Tasks
  PROVE  Traced(t)
<1>1. UNCHANGED <<job, admin, dead, done>> /\ queue \in Seq(Elements)
  BY DEF TypeOK, Elements, Producer, EnqueueCheck, EnqueuePush, EnqueueError, WaitSubscribe, WaitReturn,
         WaitTimeout, ClearQueue, PushGarbage, prodRest
<1>2. (Held(t)' <=> Held(t)) /\ (Buried(t)' <=> Buried(t)) /\ (Taken(t)' <=> Taken(t))
  BY <1>1 DEF Held, Holds, Buried, Taken, AdminHolds
<1>3. ASSUME Has(queue', t) => Has(queue, t) \/ enq[t] = "checked", enq'[t] \in Awaiting => enq[t] \in Awaiting
      PROVE  Traced(t)
  BY <1>1, <1>2, <1>3 DEF Traced
<1>4. ASSUME NEW x \in Tasks, EnqueuePush(x) \/ EnqueueError(x) PROVE Traced(t)
  <2> DEFINE e == [task |-> x, retry |-> 0]
  <2>1. /\ enq[x] = "checked"
        /\ \/ enq' = [enq EXCEPT ![x] = "accepted"]
           \/ enq' = [enq EXCEPT ![x] = "error"]
        /\ \/ queue' = queue
           \/ queue' = Append(queue, e)
    BY <1>4 DEF EnqueuePush, EnqueueError
  <2>2. enq'[t] \in Awaiting => enq[t] \in Awaiting
    BY <2>1 DEF TypeOK, Awaiting
  <2>3. e \in Elements /\ e.task = x
    BY ElementTypes
  <2> HIDE DEF e
  <2>4. Has(Append(queue, e), t) => Has(queue, t) \/ x = t
    BY <1>1, <2>3, HasAdded
  <2>5. QED
    BY <1>3, <2>1, <2>2, <2>4
<1>5. ASSUME NEW x \in Tasks,
             EnqueueCheck(x) \/ WaitSubscribe(x) \/ WaitReturn(x) \/ WaitTimeout(x)
      PROVE  Traced(t)
  BY <1>3, <1>5 DEF EnqueueCheck, WaitSubscribe, WaitReturn, WaitTimeout, TypeOK, Awaiting
<1>6. CASE ClearQueue
  <2>1. queue' = <<>> /\ UNCHANGED enq
    BY <1>6 DEF ClearQueue
  <2>2. ~ Has(queue', t)
    BY <2>1 DEF Has
  <2>3. QED
    BY <1>3, <2>1, <2>2
<1>7. CASE PushGarbage
  <2>1. queue' = Append(queue, Garbage) /\ UNCHANGED enq
    BY <1>7 DEF PushGarbage
  <2>2. Garbage \in Elements /\ Garbage.task # t
    BY ElementTypes, ConstantsAssumption DEF Garbage
  <2>3. Has(queue', t) => Has(queue, t)
    BY <1>1, <2>1, <2>2, HasAdded
  <2>4. QED
    BY <1>3, <2>1, <2>3
<1>8. QED
  BY <1>4, <1>5, <1>6, <1>7 DEF Producer

LEMMA PollLoopTraced ==
  ASSUME TypeOK, NEW c \in Consumers, PollLoop(c), NEW t \in Tasks
  PROVE  Traced(t)
<1>1. /\ UNCHANGED <<enq, admin, dead, done>> /\ queue \in Seq(Elements)
      /\ \/ UNCHANGED queue
         \/ queue # <<>> /\ queue' = Tail(queue)
  BY DEF TypeOK, Elements, PollLoop, LoopCheck, Acquire, PopGarbage, PopTimeout, PopError, Stop,
         Drained, Start, Crash, PopTask, loopRest
<1>2. (Buried(t)' <=> Buried(t)) /\ (Taken(t)' <=> Taken(t))
  BY <1>1 DEF Buried, Taken, AdminHolds
<1>3. Has(queue', t) => Has(queue, t)
  BY <1>1, HasBehind
<1>4. Held(t)' => Held(t) \/ Has(queue, t)
  <2>1. ASSUME NEW d \in Consumers, NEW u \in Slots, Holds(d, u, t)' PROVE Holds(d, u, t) \/ Has(queue, t)
    <3>1. CASE job'[d][u] = job[d][u]
      BY <2>1, <3>1 DEF Holds
    <3>2. CASE Crash(c)
      <4>1. job'[d][u] = IF d = c THEN Idle ELSE job[d][u]
        BY <3>2 DEF Crash, TypeOK
      <4>2. Idle.pc \notin Holding
        BY DEF Idle, Holding
      <4>3. QED
        BY <2>1, <4>1, <4>2 DEF Holds
    <3>3. CASE LoopCheck(c) \/ Acquire(c) \/ PopGarbage(c) \/ PopTimeout(c) \/ PopError(c)
               \/ Stop(c) \/ Drained(c) \/ Start(c)
      <4>1. UNCHANGED job
        BY <3>3 DEF LoopCheck, Acquire, PopGarbage, PopTimeout, PopError, Stop, Drained, Start
      <4>2. QED
        BY <3>1, <4>1
    <3>4. ASSUME NEW s \in Slots, PopTask(c, s) PROVE Holds(d, u, t) \/ Has(queue, t)
      <4> DEFINE m == Head(queue)
                 j == [pc |-> "handling", task |-> m.task, retry |-> m.retry]
      <4>1. queue # <<>> /\ job' = [job EXCEPT ![c][s] = j]
        BY <3>4 DEF PopTask
      <4>2. j.task = m.task
        OBVIOUS
      <4> HIDE DEF j
      <4>3. job'[d][u] = IF d = c /\ u = s THEN j ELSE job[d][u]
        BY <4>1 DEF TypeOK
      <4>4. 1 \in DOMAIN queue /\ queue[1] = m
        BY <1>1, <4>1, EmptySeq, LenProperties
      <4> HIDE DEF m
      <4>5. CASE d = c /\ u = s
        <5>1. m.task = t
          BY <2>1, <4>2, <4>3, <4>5 DEF Holds
        <5>2. QED
          BY <4>4, <5>1 DEF Has
      <4>6. CASE ~ (d = c /\ u = s)
        BY <3>1, <4>3, <4>6
      <4>7. QED
        BY <4>5, <4>6
    <3>5. QED
      BY <3>2, <3>3, <3>4 DEF PollLoop
  <2>2. QED
    BY <2>1 DEF Held
<1>5. QED
  BY <1>1, <1>2, <1>3, <1>4 DEF Traced

LEMMA ProcessTaskTraced ==
  ASSUME TypeOK, NEW c \in Consumers, NEW s \in Slots, ProcessTask(c, s), NEW t \in Tasks
  PROVE  Traced(t)
<1> DEFINE x == job[c][s].task
           e == [task |-> x, retry |-> job[c][s].retry + 1]
           l == Letter(job[c][s])
<1>1. /\ UNCHANGED <<enq, admin>> /\ queue \in Seq(Elements)
      /\ job[c][s].pc \in JobStates
      /\ Finish(c, s) \/ \E pc : Goto(c, s, pc) /\ (pc \in Holding => job[c][s].pc \in Holding)
  BY DEF TypeOK, Elements, ProcessTask, HandlerReturns, HandlerRaises, PublishResult, PublishError, RetryTask,
         MoveToDeadLetter, RequeueError, ReportFailure, ReportError, jobRest, JobStates, Holding
<1>2. /\ \/ UNCHANGED queue
         \/ job[c][s].pc = "failed" /\ queue' = Append(queue, e) /\ CanRetry(job[c][s])
      /\ \/ UNCHANGED dead
         \/ job[c][s].pc = "failed" /\ dead' = dead \cup {l}
      /\ \/ UNCHANGED done
         \/ job[c][s].pc = "publishing" /\ done' = done \cup {x} /\ UNCHANGED dead
  BY DEF ProcessTask, HandlerReturns, HandlerRaises, PublishResult, PublishError, RetryTask,
         MoveToDeadLetter, RequeueError, ReportFailure, ReportError, Again
<1>3. e.task = x /\ l.task = x
  BY DEF Letter
<1>4. CanRetry(job[c][s]) => e \in Elements
  <2>1. x \in Tasks /\ job[c][s].retry \in Retries
    BY <1>1, BusyJobType
  <2>2. QED
    BY <2>1, ConstantsAssumption DEF CanRetry, Elements, Messages, Retries
<1> HIDE DEF x, e, l
<1>5. job[c][s].pc \in Holding => Held(x)
  BY DEF Held, Holds, x
<1>6. Held(t)' => Held(t)
  <2>1. \A d \in Consumers, u \in Slots : Holds(d, u, t)' => Holds(d, u, t)
    <3>1. CASE Finish(c, s)
      BY <3>1, FinishHolds
    <3>2. ASSUME NEW pc, Goto(c, s, pc), pc \in Holding => job[c][s].pc \in Holding
          PROVE  \A d \in Consumers, u \in Slots : Holds(d, u, t)' => Holds(d, u, t)
      <4>1. \A d \in Consumers, u \in Slots : \A y :
              Holds(d, u, y)' <=> IF d = c /\ u = s THEN pc \in Holding /\ job[c][s].task = y ELSE Holds(d, u, y)
        BY <1>1, <3>2, GotoHolds
      <4>2. pc \in Holding /\ job[c][s].task = t => Holds(c, s, t)
        BY <3>2 DEF Holds
      <4>3. QED
        BY <4>1, <4>2
    <3>3. QED
      BY <1>1, <3>1, <3>2
  <2>2. QED
    BY <2>1 DEF Held
<1>7. Has(queue', t) => Has(queue, t) \/ Held(t)
  <2>1. CASE UNCHANGED queue
    BY <2>1
  <2>2. CASE job[c][s].pc = "failed" /\ queue' = Append(queue, e) /\ CanRetry(job[c][s])
    BY <1>1, <1>3, <1>4, <1>5, <2>2, HasAdded DEF Holding
  <2>3. QED
    BY <1>2, <2>1, <2>2
<1>8. Buried(t)' => Buried(t) \/ Held(t)
  BY <1>2, <1>3, <1>5 DEF Buried, Holding
<1>9. Taken(t)' => Taken(t)
  BY <1>1, <1>2, TakenStays
<1>10. (t \in done' \ done => Held(t) /\ (Buried(t)' => Buried(t))) /\ done \subseteq done'
  BY <1>2, <1>5 DEF Buried, Holding
<1>11. QED
  BY <1>1, <1>6, <1>7, <1>8, <1>9, <1>10 DEF Traced

LEMMA DeadLettersTraced ==
  ASSUME TypeOK, Dated, DeadLetters, NEW t \in Tasks
  PROVE  Traced(t)
<1>1. UNCHANGED <<job, enq, done>> /\ queue \in Seq(Elements) /\ dead' \subseteq dead
  BY DEF TypeOK, Elements, DeadLetters, RetryFind, RetryRemove, RetryRequeue, RetryError,
         ClearDeadLetters, adminRest
<1>2. (Held(t)' <=> Held(t)) /\ (Buried(t)' => Buried(t))
  BY <1>1 DEF Held, Holds, Buried
<1>3. ASSUME Has(queue', t) => Has(queue, t) \/ Taken(t), Taken(t)' => Taken(t) \/ Buried(t)
      PROVE  Traced(t)
  BY <1>1, <1>2, <1>3 DEF Traced
<1>4. ASSUME \A a \in Admins :
               \/ admin'[a] = NoCall
               \/ admin'[a].item \in dead'
               \/ /\ admin[a] # NoCall
                  /\ admin'[a].item = admin[a].item
      PROVE  Taken(t)' => Taken(t) \/ Buried(t)
  BY <1>4 DEF Taken, AdminHolds, Buried
<1>5. ASSUME NEW a \in Admins, NEW x \in Tasks, RetryFind(a, x) PROVE Traced(t)
  <2>1. PICK d \in dead : admin' = [admin EXCEPT ![a] = [pc |-> "found", item |-> d]]
    BY <1>5 DEF RetryFind
  <2>2. UNCHANGED <<queue, dead>>
    BY <1>5 DEF RetryFind
  <2>3. admin'[a].item = d /\ \A b \in Admins \ {a} : admin'[b] = admin[b]
    BY <2>1 DEF TypeOK
  <2>4. Taken(t)' => Taken(t)
    <3>1. ASSUME NEW b \in Admins, AdminHolds(b, t)' PROVE AdminHolds(b, t)
      <4>1. b # a
        BY <2>2, <2>3, <3>1 DEF AdminHolds
      <4>2. QED
        BY <2>2, <2>3, <3>1, <4>1 DEF AdminHolds
    <3>2. QED
      BY <3>1 DEF Taken
  <2>5. QED
    BY <1>3, <2>2, <2>4
<1>6. ASSUME NEW a \in Admins, RetryRemove(a) PROVE Traced(t)
  <2> DEFINE n == [admin[a] EXCEPT !.pc = "removed"]
  <2>1. admin[a].pc = "found" /\ admin' = [admin EXCEPT ![a] = n] /\ UNCHANGED queue
    BY <1>6 DEF RetryRemove
  <2>2. admin[a] # NoCall
    BY <2>1 DEF NoCall
  <2>3. admin[a] \in [pc : {"found", "removed"}, item : Letters]
    BY <2>2 DEF TypeOK, AdminCalls
  <2>4. n.item = admin[a].item
    BY <2>3
  <2> HIDE DEF n
  <2>5. \A b \in Admins : admin'[b] = IF b = a THEN n ELSE admin[b]
    BY <2>1 DEF TypeOK
  <2>6. QED
    BY <1>3, <1>4, <2>1, <2>2, <2>4, <2>5
<1>7. ASSUME NEW a \in Admins, RetryRequeue(a) \/ RetryError(a) PROVE Traced(t)
  <2> DEFINE e == [task |-> admin[a].item.task, retry |-> 0]
  <2>1. /\ admin[a] # NoCall /\ admin' = [admin EXCEPT ![a] = NoCall]
        /\ \/ UNCHANGED queue
           \/ admin[a].pc = "removed" /\ queue' = Append(queue, e)
    BY <1>7 DEF RetryRequeue, RetryError, NoCall
  <2>2. \A b \in Admins : admin'[b] = IF b = a THEN NoCall ELSE admin[b]
    BY <2>1 DEF TypeOK
  <2>3. Taken(t)' => Taken(t) \/ Buried(t)
    BY <1>4, <2>2
  <2>4. admin[a].item.task \in Tasks /\ e.task = admin[a].item.task
    BY <2>1 DEF TypeOK, AdminCalls, Letters
  <2>5. e \in Elements
    BY <2>4, ElementTypes
  <2> HIDE DEF e
  <2>6. CASE UNCHANGED queue
    BY <1>3, <2>3, <2>6
  <2>7. CASE admin[a].pc = "removed" /\ queue' = Append(queue, e)
    <3>1. Taken(admin[a].item.task)
      BY <2>1, <2>7 DEF Taken, AdminHolds, Dated
    <3>2. Has(queue', t) => Has(queue, t) \/ Taken(t)
      BY <1>1, <2>4, <2>5, <2>7, <3>1, HasAdded
    <3>3. QED
      BY <1>3, <2>3, <3>2
  <2>8. QED
    BY <2>1, <2>6, <2>7
<1>8. CASE ClearDeadLetters
  <2>1. UNCHANGED <<queue, admin>>
    BY <1>8 DEF ClearDeadLetters
  <2>2. QED
    BY <1>3, <1>4, <2>1
<1>9. QED
  BY <1>5, <1>6, <1>7, <1>8 DEF DeadLetters

LEMMA NextTraced ==
  ASSUME TypeOK, Dated, [Next]_vars, NEW t \in Tasks
  PROVE  Traced(t)
<1>1. CASE UNCHANGED vars
  <2>1. UNCHANGED <<queue, dead, enq, job, admin, done>>
    BY <1>1 DEF vars
  <2>2. QED
    BY <2>1 DEF Traced, Held, Holds, Taken, AdminHolds, Buried
<1>2. CASE Next
  BY <1>2, ProducerTraced, PollLoopTraced, ProcessTaskTraced, DeadLettersTraced DEF Next
<1>3. QED
  BY <1>1, <1>2

\* A step the trace allows is a move the promise allows.
LEMMA TracedStep ==
  ASSUME CopyInv, CopyInv', NEW t \in Tasks, Traced(t)
  PROVE  /\ \/ Place(t)' = Place(t)
            \/ <<Place(t), Place(t)'>> \in Promise!Moves
         /\ t \in done => t \in done'
         /\ t \in done' /\ t \notin done => Place(t) = "live" /\ Place(t)' \in {"live", "gone"}
<1>1. (Live(t) <=> Has(queue, t) \/ Held(t) \/ Taken(t)) /\ ~ (Live(t) /\ Buried(t))
  BY LivePlaces DEF CopyInv, OneCopy
<1>2. (Live(t)' <=> Has(queue', t) \/ Held(t)' \/ Taken(t)') /\ ~ (Live(t)' /\ Buried(t)')
  <2>1. Live(t)' <=> Has(queue', t) \/ Held(t)' \/ Taken(t)'
    BY LivePlacesLater
  <2>2. OneCopy(t)'
    BY DEF CopyInv
  <2>3. QED
    BY <2>1, <2>2 DEF OneCopy
<1>3. enq[t] \in Awaiting => ~ Live(t) /\ ~ Buried(t)
  BY <1>1 DEF CopyInv, Fresh, Unpushed, Awaiting
<1>4. enq'[t] \in Awaiting => enq[t] \in Awaiting /\ ~ Live(t)' /\ ~ Buried(t)'
  <2>1. Fresh(t)'
    BY DEF CopyInv
  <2>2. QED
    BY <1>2, <2>1 DEF Traced, Fresh, Unpushed, Awaiting
<1>5. /\ Live(t)' => Live(t) \/ Buried(t) \/ enq[t] \in Awaiting
      /\ Buried(t)' => Live(t) \/ Buried(t)
  BY <1>1, <1>2 DEF Traced, Awaiting
<1>6. /\ Place(t) = IF Live(t) THEN "live" ELSE IF Buried(t) THEN "dead" ELSE IF enq[t] \in Awaiting THEN "new" ELSE "gone"
      /\ Place(t)' = IF Live(t)' THEN "live" ELSE IF Buried(t)' THEN "dead" ELSE IF enq'[t] \in Awaiting THEN "new" ELSE "gone"
  BY DEF Place, Awaiting
<1>7. \/ Place(t)' = Place(t)
      \/ <<Place(t), Place(t)'>> \in Promise!Moves
  BY <1>1, <1>2, <1>3, <1>4, <1>5, <1>6 DEF Promise!Moves
<1>8. t \in done' /\ t \notin done => Place(t) = "live" /\ Place(t)' \in {"live", "gone"}
  BY <1>1, <1>3, <1>4, <1>6 DEF Traced
<1>9. QED
  BY <1>7, <1>8 DEF Traced

\* With one administrator the queue keeps the promise of TaskPromise: per task, one
\* admission, then live, answered, buried, back from the dead letters or gone; what
\* is gone never runs again and an answer is never taken back.
THEOREM QueueKeepsPromise ==
  ASSUME OneAdmin
  PROVE  Spec => KeepsPromise
<1>1. Init => Promise!Init
  <2> SUFFICES ASSUME Init
               PROVE  Promise!Init
    OBVIOUS
  <2>1. \A t \in Tasks : Place(t) = "new" /\ (t \in done) = FALSE
    <3> SUFFICES ASSUME NEW t \in Tasks
                 PROVE  Place(t) = "new" /\ (t \in done) = FALSE
      OBVIOUS
    <3>1. enq[t] = "new" /\ t \notin done
      BY DEF Init
    <3>2. ~ Has(queue, t) /\ ~ Held(t) /\ ~ Taken(t) /\ ~ Buried(t)
      BY <3>1, InitCopies DEF CopyInv, Fresh, Unpushed
    <3>3. QED
      BY <3>1, <3>2, LivePlaces DEF Place
  <2>2. QED
    BY <2>1 DEF Promise!Init
<1>2. CopyInv /\ CopyInv' /\ [Next]_vars => [Promise!Next]_(Promise!vars)
  <2> SUFFICES ASSUME CopyInv, CopyInv', [Next]_vars
               PROVE  Promise!Next
    OBVIOUS
  <2>1. ASSUME NEW t \in Tasks PROVE Promise!TaskStep(t)
    <3>1. Traced(t)
      BY NextTraced DEF CopyInv
    <3>2. QED
      BY <3>1, TracedStep DEF Promise!TaskStep
  <2>2. QED
    BY <2>1 DEF Promise!Next
<1>3. QED
  BY <1>1, <1>2, InitCopies, NextCopies, PTL DEF Spec, KeepsPromise, Promise!Spec

-----------------------------------------------------------------------------
(* The executions.  Every return from the dead letters admits a task for      *)
(* MaxRetryAttempts + 1 more executions; a copy in the list or in a coroutine *)
(* carries in its retry count how many of them it has used, and the copy is   *)
(* the only one.                                                              *)

In(q, m) == \E i \in DOMAIN q : q[i] = m
Admitted(t) == (MaxRetryAttempts + 1) * requeued[t]
Counted(t) ==
  /\ tries[t] <= Admitted(t) + MaxRetryAttempts + 1
  /\ \A m \in Messages : In(queue, m) /\ m.task = t => tries[t] <= Admitted(t) + m.retry
  /\ \A c \in Consumers, s \in Slots : Holds(c, s, t) => tries[t] <= Admitted(t) + job[c][s].retry + 1
  /\ enq[t] \in Unpushed => tries[t] = 0
CountInv == \A t \in Tasks : Counted(t)

LEMMA AdmittedGrows ==
  ASSUME TypeOK, NEW t \in Tasks
  PROVE  /\ Admitted(t) \in Nat
         /\ requeued'[t] = requeued[t] => Admitted(t)' = Admitted(t)
         /\ requeued'[t] = requeued[t] + 1 => Admitted(t)' = Admitted(t) + MaxRetryAttempts + 1
<1>1. requeued[t] \in Nat /\ MaxRetryAttempts \in Nat
  BY ConstantsAssumption DEF TypeOK
<1>2. \A n, k \in Nat : (n + 1) * k \in Nat /\ (n + 1) * (k + 1) = (n + 1) * k + n + 1
  OBVIOUS
<1>3. QED
  BY <1>1, <1>2 DEF Admitted

LEMMA InAdded ==
  ASSUME NEW S, NEW q \in Seq(S), NEW e \in S, NEW m, In(Append(q, e), m)
  PROVE  In(q, m) \/ m = e
<1>1. /\ Append(q, e) \in Seq(S) /\ Len(Append(q, e)) = Len(q) + 1
      /\ \A i \in 1..Len(q) : Append(q, e)[i] = q[i]
      /\ Append(q, e)[Len(q) + 1] = e
  BY AppendProperties
<1>2. Len(q) \in Nat /\ DOMAIN q = 1..Len(q) /\ DOMAIN Append(q, e) = 1..Len(q) + 1
  BY <1>1, LenProperties
<1>3. PICK i \in DOMAIN Append(q, e) : Append(q, e)[i] = m
  BY DEF In
<1>4. CASE i = Len(q) + 1
  BY <1>1, <1>3, <1>4
<1>5. CASE i # Len(q) + 1
  <2>1. i \in 1..Len(q)
    BY <1>2, <1>5
  <2>2. QED
    BY <1>1, <1>2, <1>3, <2>1 DEF In
<1>6. QED
  BY <1>4, <1>5

LEMMA InBehind ==
  ASSUME NEW S, NEW q \in Seq(S), q # <<>>
  PROVE  In(q, Head(q)) /\ \A m : In(Tail(q), m) => In(q, m)
<1>1. /\ Tail(q) \in Seq(S) /\ Len(Tail(q)) = Len(q) - 1
      /\ \A i \in 1..Len(Tail(q)) : Tail(q)[i] = q[i + 1]
  BY HeadTailProperties
<1>2. Len(q) \in Nat \ {0} /\ DOMAIN q = 1..Len(q) /\ DOMAIN Tail(q) = 1..Len(q) - 1
  BY <1>1, EmptySeq, LenProperties
<1>3. Head(q) = q[1] /\ 1 \in DOMAIN q
  BY <1>2
<1>4. \A i \in DOMAIN Tail(q) : i + 1 \in DOMAIN q /\ Tail(q)[i] = q[i + 1]
  BY <1>1, <1>2
<1>5. QED
  BY <1>3, <1>4 DEF In

\* A step that starts no handler and admits no task: what is new in the list has
\* counted its executions.
LEMMA Recount ==
  ASSUME TypeOK, NEW t \in Tasks, Counted(t), tries'[t] = tries[t], requeued'[t] = requeued[t],
         \A m \in Messages : In(queue', m) /\ m.task = t => \/ In(queue, m)
                                                            \/ tries[t] <= Admitted(t) + m.retry,
         \A c \in Consumers, s \in Slots :
           Holds(c, s, t)' => Holds(c, s, t) /\ job'[c][s].retry = job[c][s].retry,
         enq'[t] \in Unpushed => enq[t] \in Unpushed
  PROVE  Counted(t)'
<1>1. Admitted(t)' = Admitted(t)
  BY AdmittedGrows
<1>2. \A m \in Messages : In(queue', m) /\ m.task = t => tries'[t] <= Admitted(t)' + m.retry
  BY <1>1 DEF Counted
<1>3. \A c \in Consumers, s \in Slots : Holds(c, s, t)' => tries'[t] <= Admitted(t)' + job'[c][s].retry + 1
  BY <1>1 DEF Counted
<1>4. QED
  BY <1>1, <1>2, <1>3 DEF Counted

LEMMA HoldsStay ==
  ASSUME UNCHANGED job
  PROVE  \A c \in Consumers, s \in Slots : \A t :
           Holds(c, s, t)' => Holds(c, s, t) /\ job'[c][s].retry = job[c][s].retry
BY DEF Holds

LEMMA InitCounted == Init => CountInv
<1> SUFFICES ASSUME Init, NEW t \in Tasks
             PROVE  Counted(t)
  BY DEF CountInv
<1>1. tries[t] = 0 /\ Admitted(t) \in Nat /\ MaxRetryAttempts \in Nat
  BY InitType, AdmittedGrows, ConstantsAssumption DEF Init
<1>2. \A m \in Messages : ~ In(queue, m)
  BY DEF Init, In
<1>3. \A c \in Consumers, s \in Slots : ~ Holds(c, s, t)
  BY DEF Init, Holds, Holding, Idle
<1>4. QED
  BY <1>1, <1>2, <1>3 DEF Counted

LEMMA ProducerCounted ==
  ASSUME CopyInv, Producer, NEW t \in Tasks, Counted(t)
  PROVE  Counted(t)'
<1>1. TypeOK /\ UNCHANGED <<job, tries, requeued>> /\ queue \in Seq(Elements)
  BY DEF CopyInv, TypeOK, Elements, Producer, EnqueueCheck, EnqueuePush, EnqueueError, WaitSubscribe, WaitReturn,
         WaitTimeout, ClearQueue, PushGarbage, prodRest
<1>2. \A c \in Consumers, s \in Slots : Holds(c, s, t)' => Holds(c, s, t) /\ job'[c][s].retry = job[c][s].retry
  BY <1>1, HoldsStay
<1>3. ASSUME \A m \in Messages : In(queue', m) /\ m.task = t => \/ In(queue, m)
                                                                \/ tries[t] <= Admitted(t) + m.retry,
             enq'[t] \in Unpushed => enq[t] \in Unpushed
      PROVE  Counted(t)'
  BY <1>1, <1>2, <1>3, Recount
<1>4. ASSUME NEW x \in Tasks, EnqueuePush(x) \/ EnqueueError(x) PROVE Counted(t)'
  <2> DEFINE e == [task |-> x, retry |-> 0]
  <2>1. /\ enq[x] = "checked"
        /\ \/ enq' = [enq EXCEPT ![x] = "accepted"]
           \/ enq' = [enq EXCEPT ![x] = "error"]
        /\ \/ queue' = queue
           \/ queue' = Append(queue, e)
    BY <1>4 DEF EnqueuePush, EnqueueError
  <2>2. enq'[t] \in Unpushed => enq[t] \in Unpushed
    BY <1>1, <2>1 DEF TypeOK, Unpushed
  <2>3. e.task = x /\ e.retry = 0 /\ e \in Elements
    BY ElementTypes
  <2> HIDE DEF e
  <2>4. x = t => tries[t] <= Admitted(t) + e.retry
    <3>1. x = t => tries[t] = 0
      BY <2>1 DEF Counted, Unpushed
    <3>2. QED
      BY <1>1, <2>3, <3>1, AdmittedGrows
  <2>5. \A m : In(Append(queue, e), m) => In(queue, m) \/ m = e
    BY <1>1, <2>3, InAdded
  <2>6. QED
    BY <1>3, <2>1, <2>2, <2>3, <2>4, <2>5
<1>5. ASSUME NEW x \in Tasks,
             EnqueueCheck(x) \/ WaitSubscribe(x) \/ WaitReturn(x) \/ WaitTimeout(x)
      PROVE  Counted(t)'
  <2>1. UNCHANGED queue /\ (enq'[t] \in Unpushed => enq[t] \in Unpushed)
    BY <1>1, <1>5 DEF EnqueueCheck, WaitSubscribe, WaitReturn, WaitTimeout, TypeOK, Unpushed
  <2>2. QED
    BY <1>3, <2>1
<1>6. CASE ClearQueue
  <2>1. queue' = <<>> /\ UNCHANGED enq
    BY <1>6 DEF ClearQueue
  <2>2. \A m : ~ In(queue', m)
    BY <2>1 DEF In
  <2>3. QED
    BY <1>3, <2>1, <2>2
<1>7. CASE PushGarbage
  <2>1. queue' = Append(queue, Garbage) /\ UNCHANGED enq
    BY <1>7 DEF PushGarbage
  <2>2. Garbage \in Elements /\ Garbage.task # t
    BY ElementTypes, ConstantsAssumption DEF Garbage
  <2>3. \A m : In(queue', m) => In(queue, m) \/ m = Garbage
    BY <1>1, <2>1, <2>2, InAdded
  <2>4. QED
    BY <1>3, <2>1, <2>2, <2>3
<1>8. QED
  BY <1>4, <1>5, <1>6, <1>7 DEF Producer

LEMMA PollLoopCounted ==
  ASSUME CopyInv, NEW c \in Consumers, PollLoop(c), NEW t \in Tasks, Counted(t)
  PROVE  Counted(t)'
<1>1. /\ TypeOK /\ UNCHANGED <<enq, requeued>> /\ queue \in Seq(Elements)
      /\ \/ UNCHANGED queue
         \/ queue # <<>> /\ queue' = Tail(queue)
  BY DEF CopyInv, TypeOK, Elements, PollLoop, LoopCheck, Acquire, PopGarbage, PopTimeout, PopError, Stop,
         Drained, Start, Crash, PopTask, loopRest
<1>2. \A m : In(queue', m) => In(queue, m)
  BY <1>1, InBehind
<1>3. ASSUME tries'[t] = tries[t],
             \A d \in Consumers, u \in Slots :
               Holds(d, u, t)' => Holds(d, u, t) /\ job'[d][u].retry = job[d][u].retry
      PROVE  Counted(t)'
  BY <1>1, <1>2, <1>3, Recount
<1>4. CASE Crash(c)
  <2>1. \A d \in Consumers, u \in Slots : job'[d][u] = IF d = c THEN Idle ELSE job[d][u]
    BY <1>1, <1>4 DEF Crash, TypeOK
  <2>2. Idle.pc \notin Holding
    BY DEF Idle, Holding
  <2>3. \A d \in Consumers, u \in Slots :
          Holds(d, u, t)' => Holds(d, u, t) /\ job'[d][u].retry = job[d][u].retry
    BY <2>1, <2>2 DEF Holds
  <2>4. QED
    BY <1>3, <1>4, <2>3 DEF Crash
<1>5. CASE LoopCheck(c) \/ Acquire(c) \/ PopGarbage(c) \/ PopTimeout(c) \/ PopError(c) \/ Stop(c) \/ Drained(c) \/ Start(c)
  <2>1. UNCHANGED <<job, tries>>
    BY <1>5 DEF LoopCheck, Acquire, PopGarbage, PopTimeout, PopError, Stop, Drained, Start
  <2>2. QED
    BY <1>3, <2>1, HoldsStay
<1>6. ASSUME NEW s \in Slots, PopTask(c, s) PROVE Counted(t)'
  <2> DEFINE m == Head(queue)
             j == [pc |-> "handling", task |-> m.task, retry |-> m.retry]
  <2>1. /\ queue # <<>> /\ queue' = Tail(queue) /\ m # Garbage
        /\ job' = [job EXCEPT ![c][s] = j] /\ tries' = [tries EXCEPT ![m.task] = @ + 1]
    BY <1>6 DEF PopTask
  <2>2. In(queue, m)
    BY <1>1, <2>1, InBehind
  <2>3. m \in Messages
    BY <1>1, <2>1 DEF Elements
  <2>4. m.task \in Tasks /\ m.retry \in Retries
    BY <2>3 DEF Messages
  <2>5. j.task = m.task /\ j.retry = m.retry
    OBVIOUS
  <2>6. m.task = t /\ OneCopy(t) => Has(queue, t) /\ ~ Has(queue', t)
    BY <1>1, <2>1, HasBehind DEF OneCopy
  <2> HIDE DEF m, j
  <2>7. \A d \in Consumers, u \in Slots : job'[d][u] = IF d = c /\ u = s THEN j ELSE job[d][u]
    BY <1>1, <2>1 DEF TypeOK
  <2>8. CASE m.task = t
    <3>1. Has(queue, t) /\ ~ Has(queue', t) /\ ~ Held(t) /\ enq[t] \notin Unpushed
      BY <2>6, <2>8 DEF CopyInv, OneCopy, Fresh
    <3>2. \A x : In(queue', x) => x.task # t
      BY <3>1 DEF In, Has
    <3>3. tries'[t] = tries[t] + 1 /\ tries[t] \in Nat
      BY <1>1, <2>1, <2>8 DEF TypeOK
    <3>4. tries[t] <= Admitted(t) + m.retry
      BY <2>2, <2>3, <2>8 DEF Counted
    <3>5. Admitted(t)' = Admitted(t) /\ Admitted(t) \in Nat /\ m.retry \in 0..MaxRetryAttempts
      BY <1>1, <2>4, AdmittedGrows DEF Retries
    <3>6. \A d \in Consumers, u \in Slots : Holds(d, u, t)' => job'[d][u].retry = m.retry
      <4>1. ASSUME NEW d \in Consumers, NEW u \in Slots, Holds(d, u, t)' PROVE d = c /\ u = s
        BY <2>7, <3>1, <4>1 DEF Held, Holds
      <4>2. QED
        BY <2>5, <2>7, <4>1
    <3>7. tries'[t] <= Admitted(t)' + m.retry + 1 /\ tries'[t] <= Admitted(t)' + MaxRetryAttempts + 1
      BY <3>3, <3>4, <3>5, ConstantsAssumption
    <3>8. enq'[t] \notin Unpushed
      BY <1>1, <3>1
    <3>9. QED
      BY <3>2, <3>6, <3>7, <3>8 DEF Counted
  <2>9. CASE m.task # t
    <3>1. tries'[t] = tries[t]
      BY <1>1, <2>1, <2>9 DEF TypeOK
    <3>2. \A d \in Consumers, u \in Slots :
            Holds(d, u, t)' => Holds(d, u, t) /\ job'[d][u].retry = job[d][u].retry
      BY <2>5, <2>7, <2>9 DEF Holds
    <3>3. QED
      BY <1>3, <3>1, <3>2
  <2>10. QED
    BY <2>8, <2>9
<1>7. QED
  BY <1>4, <1>5, <1>6 DEF PollLoop

LEMMA ProcessTaskCounted ==
  ASSUME CopyInv, NEW c \in Consumers, NEW s \in Slots, ProcessTask(c, s), NEW t \in Tasks, Counted(t)
  PROVE  Counted(t)'
<1> DEFINE x == job[c][s].task
           e == [task |-> x, retry |-> job[c][s].retry + 1]
<1>1. /\ TypeOK /\ UNCHANGED <<enq, tries, requeued>> /\ queue \in Seq(Elements)
      /\ job[c][s].pc \in JobStates
      /\ Finish(c, s) \/ \E pc : Goto(c, s, pc) /\ (pc \in Holding => job[c][s].pc \in Holding)
  BY DEF CopyInv, TypeOK, Elements, ProcessTask, HandlerReturns, HandlerRaises, PublishResult, PublishError,
         RetryTask, MoveToDeadLetter, RequeueError, ReportFailure, ReportError, jobRest, JobStates, Holding
<1>2. \/ UNCHANGED queue
      \/ job[c][s].pc = "failed" /\ queue' = Append(queue, e) /\ CanRetry(job[c][s])
  BY DEF ProcessTask, HandlerReturns, HandlerRaises, PublishResult, PublishError, RetryTask,
         MoveToDeadLetter, RequeueError, ReportFailure, ReportError, Again
<1>3. x \in Tasks /\ job[c][s].retry \in Retries
  BY <1>1, BusyJobType
<1>4. e.task = x /\ e.retry = job[c][s].retry + 1 /\ (CanRetry(job[c][s]) => e \in Elements)
  BY <1>3, ConstantsAssumption DEF CanRetry, Elements, Messages, Retries
<1> HIDE DEF x, e
<1>5. \A d \in Consumers, u \in Slots :
        Holds(d, u, t)' => Holds(d, u, t) /\ job'[d][u].retry = job[d][u].retry
  <2>1. CASE Finish(c, s)
    <3>1. \A d \in Consumers, u \in Slots : ~ (d = c /\ u = s) => job'[d][u] = job[d][u]
      BY <1>1, <2>1 DEF Finish, TypeOK
    <3>2. QED
      BY <1>1, <2>1, <3>1, FinishHolds
  <2>2. ASSUME NEW pc, Goto(c, s, pc), pc \in Holding => job[c][s].pc \in Holding
        PROVE  \A d \in Consumers, u \in Slots :
                 Holds(d, u, t)' => Holds(d, u, t) /\ job'[d][u].retry = job[d][u].retry
    <3>1. job[c][s] \in [pc : JobStates, task : Tasks, retry : Retries]
      BY <1>1, BusyJobType
    <3>2. job' = [job EXCEPT ![c] = [job[c] EXCEPT ![s] = [job[c][s] EXCEPT !.pc = pc]]]
      BY <2>2 DEF Goto
    <3>3. job'[c][s].pc = pc /\ job'[c][s].task = job[c][s].task /\ job'[c][s].retry = job[c][s].retry
      BY <1>1, <3>1, <3>2 DEF TypeOK
    <3>4. \A d \in Consumers, u \in Slots : ~ (d = c /\ u = s) => job'[d][u] = job[d][u]
      BY <1>1, <3>2 DEF TypeOK
    <3>5. QED
      BY <2>2, <3>3, <3>4 DEF Holds
  <2>3. QED
    BY <1>1, <2>1, <2>2
<1>6. CASE UNCHANGED queue
  BY <1>1, <1>5, <1>6, Recount
<1>7. CASE job[c][s].pc = "failed" /\ queue' = Append(queue, e) /\ CanRetry(job[c][s])
  <2>1. \A m : In(queue', m) => In(queue, m) \/ m = e
    BY <1>1, <1>4, <1>7, InAdded
  <2>2. x = t => tries[t] <= Admitted(t) + e.retry
    <3>1. x = t => Holds(c, s, t)
      BY <1>7 DEF Holds, Holding, x
    <3>2. x = t => tries[t] <= Admitted(t) + job[c][s].retry + 1
      BY <3>1 DEF Counted
    <3>3. QED
      BY <1>1, <1>3, <1>4, <3>2, AdmittedGrows, ConstantsAssumption DEF Retries
  <2>3. QED
    BY <1>1, <1>4, <1>5, <2>1, <2>2, Recount
<1>8. QED
  BY <1>2, <1>6, <1>7

LEMMA DeadLettersCounted ==
  ASSUME CopyInv, DeadLetters, NEW t \in Tasks, Counted(t)
  PROVE  Counted(t)'
<1>1. TypeOK /\ UNCHANGED <<job, enq, tries>> /\ queue \in Seq(Elements)
  BY DEF CopyInv, TypeOK, Elements, DeadLetters, RetryFind, RetryRemove, RetryRequeue, RetryError,
         ClearDeadLetters, adminRest
<1>2. \A c \in Consumers, s \in Slots : Holds(c, s, t)' => Holds(c, s, t) /\ job'[c][s].retry = job[c][s].retry
  BY <1>1, HoldsStay
<1>3. CASE UNCHANGED <<queue, requeued>>
  BY <1>1, <1>2, <1>3, Recount
<1>4. ASSUME NEW a \in Admins, admin[a] # NoCall,
             queue' = Append(queue, [task |-> admin[a].item.task, retry |-> 0]),
             requeued' = [requeued EXCEPT ![admin[a].item.task] = @ + 1]
      PROVE  Counted(t)'
  <2> DEFINE x == admin[a].item.task
             e == [task |-> x, retry |-> 0]
  <2>1. x \in Tasks
    BY <1>1, <1>4 DEF TypeOK, AdminCalls, Letters
  <2>2. e \in Elements /\ e.task = x /\ e.retry = 0
    BY <2>1, ElementTypes
  <2>3. queue' = Append(queue, e)
    BY <1>4
  <2> HIDE DEF e
  <2>4. \A m : In(queue', m) => In(queue, m) \/ m = e
    BY <1>1, <2>2, <2>3, InAdded
  <2>5. CASE x = t
    <3>1. requeued'[t] = requeued[t] + 1
      BY <1>1, <1>4, <2>5 DEF TypeOK
    <3>2. Admitted(t)' = Admitted(t) + MaxRetryAttempts + 1 /\ Admitted(t) \in Nat /\ MaxRetryAttempts \in Nat
      BY <1>1, <3>1, AdmittedGrows, ConstantsAssumption
    <3>3. tries'[t] <= Admitted(t)' /\ tries'[t] \in Nat /\ tries'[t] = tries[t]
      BY <1>1, <3>2 DEF Counted, TypeOK
    <3>4. \A m \in Messages : tries'[t] <= Admitted(t)' + m.retry
      <4>1. \A m \in Messages : m.retry \in Nat
        BY ConstantsAssumption DEF Messages, Retries
      <4>2. QED
        BY <3>2, <3>3, <4>1
    <3>5. \A c \in Consumers, s \in Slots : Holds(c, s, t)' => tries'[t] <= Admitted(t)' + job'[c][s].retry + 1
      <4>1. ASSUME NEW c \in Consumers, NEW s \in Slots, Holds(c, s, t)
            PROVE  job[c][s].retry \in Nat
        <5>1. job[c][s].pc \in JobStates
          BY <4>1 DEF Holds, Holding, JobStates
        <5>2. QED
          BY <1>1, <5>1, BusyJobType, ConstantsAssumption DEF Retries
      <4>2. QED
        BY <1>1, <1>2, <3>2, <3>3, <4>1
    <3>6. tries'[t] <= Admitted(t)' + MaxRetryAttempts + 1
      BY <3>2, <3>3
    <3>7. enq'[t] \in Unpushed => tries'[t] = 0
      BY <1>1 DEF Counted
    <3>8. QED
      BY <3>4, <3>5, <3>6, <3>7 DEF Counted
  <2>6. CASE x # t
    <3>1. requeued'[t] = requeued[t]
      BY <1>1, <1>4, <2>6 DEF TypeOK
    <3>2. QED
      BY <1>1, <1>2, <2>2, <2>4, <2>6, <3>1, Recount
  <2>7. QED
    BY <2>5, <2>6
<1>5. ASSUME NEW a \in Admins, RetryRequeue(a) \/ RetryError(a) PROVE Counted(t)'
  <2>1. admin[a] # NoCall
    BY <1>5 DEF RetryRequeue, RetryError, NoCall
  <2>2. \/ UNCHANGED <<queue, requeued>>
        \/ /\ queue' = Append(queue, [task |-> admin[a].item.task, retry |-> 0])
           /\ requeued' = [requeued EXCEPT ![admin[a].item.task] = @ + 1]
    BY <1>5 DEF RetryRequeue, RetryError
  <2>3. QED
    BY <1>3, <1>4, <2>1, <2>2
<1>6. QED
  BY <1>3, <1>5 DEF DeadLetters, RetryFind, RetryRemove, ClearDeadLetters

LEMMA NextCounted == CopyInv /\ CountInv /\ [Next]_vars => CountInv'
<1> SUFFICES ASSUME CopyInv, CountInv, [Next]_vars, NEW t \in Tasks
             PROVE  Counted(t)'
  BY DEF CountInv
<1>1. Counted(t)
  BY DEF CountInv
<1>2. CASE UNCHANGED vars
  <2>1. UNCHANGED <<queue, job, enq, tries, requeued>>
    BY <1>2 DEF vars
  <2>2. QED
    BY <1>1, <2>1, HoldsStay, Recount DEF CopyInv
<1>3. CASE Next
  BY <1>1, <1>3, ProducerCounted, PollLoopCounted, ProcessTaskCounted, DeadLettersCounted DEF Next
<1>4. QED
  BY <1>2, <1>3

LEMMA CountedBound == TypeOK /\ CountInv => ExecutionsBounded
<1> SUFFICES ASSUME TypeOK, CountInv, NEW t \in Tasks
             PROVE  tries[t] <= (MaxRetryAttempts + 1) * (1 + requeued[t])
  BY DEF ExecutionsBounded
<1>1. tries[t] <= (MaxRetryAttempts + 1) * requeued[t] + MaxRetryAttempts + 1
  BY DEF CountInv, Counted, Admitted
<1>2. \A n, k \in Nat : (n + 1) * (1 + k) = (n + 1) * k + n + 1
  OBVIOUS
<1>3. QED
  BY <1>1, <1>2, ConstantsAssumption DEF TypeOK

\* With one administrator a task's handler starts at most max_retry_attempts + 1 times
\* for its admission and as often again for each return from the dead letters, over
\* all consumers, crashes and Redis failures.
THEOREM ExecutionsCounted ==
  ASSUME OneAdmin
  PROVE  Spec => []ExecutionsBounded
<1>1. CopyInv => TypeOK
  BY DEF CopyInv
<1>2. QED
  BY <1>1, InitCopies, NextCopies, InitCounted, NextCounted, CountedBound, PTL DEF Spec
-----------------------------------------------------------------------------
(* The losses.  A task goes missing where its only copy leaves the list, the   *)
(* coroutine, the letters or the administrator and arrives nowhere: a step     *)
(* that fails does so to the one task it handles, a crash to those of the      *)
(* consumer's coroutines, which have a permit each.                            *)

Missing(t) ==
  enq[t] = "accepted" /\ t \notin done \cup cleared /\ ~ Has(queue, t) /\ ~ Held(t) /\ ~ Taken(t) /\ ~ Buried(t)
Lost == {t \in Tasks : Missing(t)}
Losses == events["crashes"] * MaxConcurrent + events["faults"]

\* What a step does to the tasks that are not missing, and what it counts.
Harmless ==
  /\ \A t \in Tasks : Missing(t)' => Missing(t)
  /\ events'["crashes"] >= events["crashes"] /\ events'["faults"] >= events["faults"]
FaultAt(x) ==
  /\ \A t \in Tasks : Missing(t)' => Missing(t) \/ t = x
  /\ events'["crashes"] = events["crashes"] /\ events'["faults"] = events["faults"] + 1
CrashOf(c) ==
  /\ loop[c] # "down"
  /\ \A t \in Tasks : Missing(t)' => Missing(t) \/ \E s \in Slots : Holds(c, s, t)
  /\ events'["crashes"] = events["crashes"] + 1 /\ events'["faults"] = events["faults"]

\* What the steps count.
LEMMA CountsOne ==
  ASSUME TypeOK, NEW k \in EventKinds, Count(k)
  PROVE  /\ k = "faults" => events'["crashes"] = events["crashes"] /\ events'["faults"] = events["faults"] + 1
         /\ k = "crashes" => events'["crashes"] = events["crashes"] + 1 /\ events'["faults"] = events["faults"]
         /\ events'["crashes"] >= events["crashes"] /\ events'["faults"] >= events["faults"]
<1>1. events \in [EventKinds -> Nat] /\ "crashes" \in EventKinds /\ "faults" \in EventKinds
  BY DEF TypeOK, EventKinds
<1>2. events["crashes"] \in Nat /\ events["faults"] \in Nat
  BY <1>1
<1>3. \A j \in EventKinds : events'[j] = IF j = k THEN events[j] + 1 ELSE events[j]
  BY <1>1 DEF Count
<1>4. QED
  BY <1>1, <1>2, <1>3

LEMMA CountsNothing ==
  ASSUME TypeOK, UNCHANGED events
  PROVE  events'["crashes"] >= events["crashes"] /\ events'["faults"] >= events["faults"]
BY DEF TypeOK, EventKinds

\* What is in a list is its oldest element or behind it.
LEMMA HasOldest ==
  ASSUME NEW S, NEW q \in Seq(S), q # <<>>, NEW t, Has(q, t)
  PROVE  Head(q).task = t \/ Has(Tail(q), t)
<1>1. /\ Len(q) \in Nat \ {0} /\ DOMAIN q = 1..Len(q) /\ DOMAIN Tail(q) = 1..Len(q) - 1
      /\ Head(q) = q[1] /\ \A i \in DOMAIN Tail(q) : Tail(q)[i] = q[i + 1]
  <2>1. /\ Tail(q) \in Seq(S) /\ Len(Tail(q)) = Len(q) - 1
        /\ \A i \in 1..Len(Tail(q)) : Tail(q)[i] = q[i + 1]
    BY HeadTailProperties
  <2>2. Len(q) \in Nat \ {0}
    BY EmptySeq
  <2>3. DOMAIN q = 1..Len(q) /\ DOMAIN Tail(q) = 1..Len(Tail(q))
    BY <2>1, LenProperties
  <2>4. Head(q) = q[1]
    OBVIOUS
  <2>5. QED
    BY <2>1, <2>2, <2>3, <2>4
<1>2. PICK i \in DOMAIN q : q[i].task = t
  BY DEF Has
<1>3. CASE i = 1
  BY <1>1, <1>2, <1>3
<1>4. CASE i # 1
  <2>1. i - 1 \in DOMAIN Tail(q) /\ (i - 1) + 1 = i
    BY <1>1, <1>4
  <2>2. Tail(q)[i - 1].task = t
    BY <1>1, <1>2, <2>1
  <2>3. QED
    BY <2>1, <2>2 DEF Has
<1>5. QED
  BY <1>3, <1>4

LEMMA ProducerHarmless ==
  ASSUME TypeOK, Producer
  PROVE  Harmless
<1>1. UNCHANGED <<job, admin, dead, done>> /\ cleared \subseteq cleared' /\ queue \in Seq(Elements)
  BY DEF TypeOK, Elements, Producer, EnqueueCheck, EnqueuePush, EnqueueError, WaitSubscribe, WaitReturn,
         WaitTimeout, ClearQueue, PushGarbage, prodRest
<1>2. \A t : (Held(t)' <=> Held(t)) /\ (Buried(t)' <=> Buried(t)) /\ (Taken(t)' <=> Taken(t))
  BY <1>1 DEF Held, Holds, Buried, Taken, AdminHolds
<1>3. events'["crashes"] >= events["crashes"] /\ events'["faults"] >= events["faults"]
  BY CountsOne, CountsNothing
     DEF Producer, EnqueueCheck, EnqueuePush, EnqueueError, WaitSubscribe, WaitReturn, WaitTimeout, ClearQueue,
         PushGarbage, Fault, EventKinds
<1>4. ASSUME NEW t \in Tasks, Missing(t)',
             Has(queue, t) => Has(queue', t) \/ t \in cleared',
             enq'[t] = "accepted" => enq[t] = "accepted" \/ Has(queue', t)
      PROVE  Missing(t)
  BY <1>1, <1>2, <1>4 DEF Missing
<1>5. ASSUME NEW x \in Tasks, EnqueuePush(x) \/ EnqueueError(x), NEW t \in Tasks, Missing(t)' PROVE Missing(t)
  <2> DEFINE e == [task |-> x, retry |-> 0]
  <2>1. \/ enq' = [enq EXCEPT ![x] = "accepted"] /\ queue' = Append(queue, e)
        \/ enq' = [enq EXCEPT ![x] = "error"] /\ queue' \in {queue, Append(queue, e)}
    BY <1>5 DEF EnqueuePush, EnqueueError
  <2>2. e \in Elements /\ e.task = x
    BY ElementTypes
  <2> HIDE DEF e
  <2>3. Has(Append(queue, e), t) <=> Has(queue, t) \/ x = t
    BY <1>1, <2>2, HasAdded
  <2>4. enq'[t] = "accepted" => enq[t] = "accepted" \/ (t = x /\ queue' = Append(queue, e))
    BY <2>1 DEF TypeOK
  <2>5. QED
    BY <1>4, <1>5, <2>1, <2>3, <2>4
<1>6. ASSUME NEW x \in Tasks, EnqueueCheck(x) \/ WaitSubscribe(x) \/ WaitReturn(x) \/ WaitTimeout(x),
             NEW t \in Tasks, Missing(t)'
      PROVE  Missing(t)
  <2>1. UNCHANGED queue /\ (enq'[t] = "accepted" => enq[t] = "accepted")
    BY <1>6 DEF EnqueueCheck, WaitSubscribe, WaitReturn, WaitTimeout, TypeOK
  <2>2. QED
    BY <1>4, <1>6, <2>1
<1>7. ASSUME ClearQueue, NEW t \in Tasks, Missing(t)' PROVE Missing(t)
  <2>1. UNCHANGED enq /\ (Has(queue, t) => t \in cleared')
    BY <1>7 DEF ClearQueue, Has
  <2>2. QED
    BY <1>4, <1>7, <2>1
<1>8. ASSUME PushGarbage, NEW t \in Tasks, Missing(t)' PROVE Missing(t)
  <2>1. queue' = Append(queue, Garbage) /\ UNCHANGED enq /\ Garbage \in Elements
    BY <1>8, ElementTypes DEF PushGarbage
  <2>2. Has(queue, t) => Has(queue', t)
    BY <1>1, <2>1, HasAdded
  <2>3. QED
    BY <1>4, <1>8, <2>1, <2>2
<1>9. QED
  BY <1>3, <1>5, <1>6, <1>7, <1>8 DEF Producer, Harmless

\* The list loses its oldest element to a coroutine, or to an error.
LEMMA PollLoopLoses ==
  ASSUME TypeOK, NEW c \in Consumers, PollLoop(c)
  PROVE  Harmless \/ CrashOf(c) \/ \E x : FaultAt(x)
<1>1. UNCHANGED <<enq, admin, dead, done, cleared>> /\ queue \in Seq(Elements)
  BY DEF TypeOK, Elements, PollLoop, LoopCheck, Acquire, PopGarbage, PopTimeout, PopError, Stop,
         Drained, Start, Crash, PopTask, loopRest
<1>2. \A t : (Buried(t)' <=> Buried(t)) /\ (Taken(t)' <=> Taken(t))
  BY <1>1 DEF Buried, Taken, AdminHolds
<1>3. ASSUME NEW t \in Tasks, Missing(t)' PROVE Missing(t) \/ (Has(queue, t) /\ ~ Has(queue', t)) \/ (Held(t) /\ ~ Held(t)')
  BY <1>1, <1>2, <1>3 DEF Missing
<1>4. ASSUME UNCHANGED job PROVE \A t : Held(t)' <=> Held(t)
  BY <1>4 DEF Held, Holds
<1>5. CASE LoopCheck(c) \/ Acquire(c) \/ PopTimeout(c) \/ Stop(c) \/ Drained(c) \/ Start(c)
  <2>1. UNCHANGED <<queue, job>>
    BY <1>5 DEF LoopCheck, Acquire, PopTimeout, Stop, Drained, Start
  <2>2. events'["crashes"] >= events["crashes"] /\ events'["faults"] >= events["faults"]
    BY <1>5, CountsOne, CountsNothing DEF LoopCheck, Acquire, PopTimeout, Stop, Drained, Start, EventKinds
  <2>3. QED
    BY <1>3, <1>4, <2>1, <2>2 DEF Harmless
<1>6. CASE PopGarbage(c)
  <2>1. UNCHANGED <<job, events>> /\ queue # <<>> /\ Head(queue) = Garbage /\ queue' = Tail(queue)
    BY <1>6 DEF PopGarbage
  <2>2. \A t \in Tasks : Garbage.task # t
    BY ConstantsAssumption DEF Garbage
  <2>3. \A t \in Tasks : Has(queue, t) => Has(queue', t)
    BY <1>1, <2>1, <2>2, HasOldest
  <2>4. QED
    BY <1>3, <1>4, <2>1, <2>3, CountsNothing DEF Harmless
<1>7. CASE PopError(c)
  <2>1. UNCHANGED job /\ Count("faults") /\ (queue' = queue \/ (queue # <<>> /\ queue' = Tail(queue)))
    BY <1>7 DEF PopError, Fault
  <2>2. \A t \in Tasks : Has(queue, t) => Has(queue', t) \/ Head(queue).task = t
    BY <1>1, <2>1, HasOldest
  <2>3. events'["crashes"] = events["crashes"] /\ events'["faults"] = events["faults"] + 1
    BY <2>1, CountsOne DEF EventKinds
  <2>4. FaultAt(Head(queue).task)
    BY <1>3, <1>4, <2>1, <2>2, <2>3 DEF FaultAt
  <2>5. QED
    BY <2>4
<1>8. CASE Crash(c)
  <2>1. loop[c] # "down" /\ UNCHANGED queue /\ Count("crashes")
    BY <1>8 DEF Crash
  <2>2. \A d \in Consumers : d # c => job'[d] = job[d]
    BY <1>8 DEF Crash, TypeOK
  <2>3. \A t : Held(t) => Held(t)' \/ \E s \in Slots : Holds(c, s, t)
    BY <2>2 DEF Held, Holds
  <2>4. events'["crashes"] = events["crashes"] + 1 /\ events'["faults"] = events["faults"]
    BY <2>1, CountsOne DEF EventKinds
  <2>5. QED
    BY <1>3, <2>1, <2>3, <2>4 DEF CrashOf
<1>9. ASSUME NEW s \in Slots, PopTask(c, s) PROVE Harmless
  <2> DEFINE m == Head(queue)
             j == [pc |-> "handling", task |-> m.task, retry |-> m.retry]
  <2>1. queue # <<>> /\ queue' = Tail(queue) /\ job[c][s] = Idle /\ job' = [job EXCEPT ![c][s] = j] /\ UNCHANGED events
    BY <1>9 DEF PopTask
  <2>2. j.task = m.task /\ j.pc \in Holding
    BY DEF Holding
  <2> HIDE DEF j
  <2>3. \A d \in Consumers, u \in Slots : job'[d][u] = IF d = c /\ u = s THEN j ELSE job[d][u]
    BY <2>1 DEF TypeOK
  <2>4. \A t \in Tasks : Has(queue, t) => Has(queue', t) \/ m.task = t
    BY <1>1, <2>1, HasOldest
  <2> HIDE DEF m
  <2>5. \A t : m.task = t => Held(t)'
    BY <2>2, <2>3 DEF Held, Holds
  <2>6. ASSUME NEW t, Held(t) PROVE Held(t)'
    <3>1. PICK d \in Consumers, u \in Slots : Holds(d, u, t)
      BY <2>6 DEF Held
    <3>2. ~ (d = c /\ u = s)
      BY <2>1, <3>1 DEF Holds, Holding, Idle
    <3>3. Holds(d, u, t)'
      BY <2>3, <3>1, <3>2 DEF Holds
    <3>4. QED
      BY <3>3 DEF Held
  <2>7. \A t \in Tasks : Missing(t)' => Missing(t)
    <3>1. \A t : Missing(t)' => ~ Held(t)'
      BY DEF Missing
    <3>2. QED
      BY <1>3, <2>4, <2>5, <2>6, <3>1
  <2>8. QED
    BY <2>1, <2>7, CountsNothing DEF Harmless
<1>10. QED
  BY <1>5, <1>6, <1>7, <1>8, <1>9 DEF PollLoop

\* A coroutine hands its task on, or an error takes that task.
LEMMA ProcessTaskLoses ==
  ASSUME TypeOK, NEW c \in Consumers, NEW s \in Slots, ProcessTask(c, s)
  PROVE  Harmless \/ \E x : FaultAt(x)
<1> DEFINE x == job[c][s].task
           e == [task |-> x, retry |-> job[c][s].retry + 1]
           l == Letter(job[c][s])
<1>1. /\ UNCHANGED <<enq, admin, cleared>> /\ queue \in Seq(Elements)
      /\ job[c][s].pc \in JobStates
      /\ \/ Finish(c, s)
         \/ Goto(c, s, "reporting")
         \/ job[c][s].pc \in Holding /\ \E pc \in Holding : Goto(c, s, pc)
      /\ done \subseteq done'
  BY DEF TypeOK, Elements, ProcessTask, HandlerReturns, HandlerRaises, PublishResult, PublishError, RetryTask,
         MoveToDeadLetter, RequeueError, ReportFailure, ReportError, jobRest, JobStates, Holding
<1>2. /\ UNCHANGED queue \/ (CanRetry(job[c][s]) /\ job[c][s].pc \in JobStates /\ queue' = Append(queue, e))
      /\ UNCHANGED dead \/ dead' = dead \cup {l}
  BY <1>1 DEF ProcessTask, HandlerReturns, HandlerRaises, PublishResult, PublishError, RetryTask,
         MoveToDeadLetter, RequeueError, ReportFailure, ReportError, Again
<1>3. e.task = x /\ l.task = x /\ x \in Tasks
  BY <1>1, BusyJobType DEF Letter
<1>4. CanRetry(job[c][s]) => e \in Elements
  <2>1. x \in Tasks /\ job[c][s].retry \in Retries
    BY <1>1, BusyJobType
  <2>2. QED
    BY <2>1, ConstantsAssumption DEF CanRetry, Elements, Messages, Retries
<1> HIDE DEF x, e, l
<1>5. \A t : Has(queue, t) => Has(queue', t)
  BY <1>1, <1>2, <1>4, HasAdded
<1>6. \A t : (Buried(t) => Buried(t)') /\ (Taken(t) => Taken(t)' \/ Buried(t)')
  <2>1. \A t : Buried(t) => Buried(t)'
    BY <1>2 DEF Buried
  <2>2. ASSUME NEW t, NEW a \in Admins, AdminHolds(a, t) PROVE Taken(t)' \/ Buried(t)'
    BY <1>1, <2>2 DEF AdminHolds, Taken, Buried
  <2>3. QED
    BY <2>1, <2>2 DEF Taken
<1>7. ASSUME NEW t, Held(t) PROVE Held(t)' \/ (t = x /\ job[c][s].pc \in Holding)
  <2>1. PICK d \in Consumers, u \in Slots : Holds(d, u, t)
    BY <1>7 DEF Held
  <2>2. CASE d = c /\ u = s
    BY <2>1, <2>2 DEF Holds, x
  <2>3. CASE ~ (d = c /\ u = s)
    <3>1. Holds(d, u, t)'
      <4>1. CASE Finish(c, s)
        BY <2>1, <2>3, <4>1, FinishHolds
      <4>2. ASSUME NEW pc, Goto(c, s, pc) PROVE Holds(d, u, t)'
        BY <1>1, <2>1, <2>3, <4>2, GotoHolds
      <4>3. QED
        BY <1>1, <4>1, <4>2
    <3>2. QED
      BY <3>1 DEF Held
  <2>4. QED
    BY <2>2, <2>3
<1>8. ASSUME NEW t \in Tasks, Missing(t)'
      PROVE  Missing(t) \/ (t = x /\ job[c][s].pc \in Holding)
  BY <1>1, <1>5, <1>6, <1>7, <1>8 DEF Missing
<1>9. CASE RequeueError(c, s)
  <2>1. events \in [EventKinds -> Nat] /\ "crashes" \in EventKinds /\ "faults" \in EventKinds
    BY DEF TypeOK, EventKinds
  <2>2. Count("faults") \/ events' = [events EXCEPT !.faults = @ + 1, !.letters = @ + 1]
    BY <1>9 DEF RequeueError
  <2>3. events'["crashes"] = events["crashes"] /\ events'["faults"] = events["faults"] + 1
    BY <2>1, <2>2, CountsOne
  <2>4. FaultAt(x)
    BY <1>8, <2>3 DEF FaultAt
  <2>5. QED
    BY <2>4
<1>10. CASE ~ RequeueError(c, s)
  <2>1. events'["crashes"] >= events["crashes"] /\ events'["faults"] >= events["faults"]
    BY <1>10, CountsOne, CountsNothing
       DEF ProcessTask, HandlerReturns, HandlerRaises, PublishResult, PublishError, RetryTask,
           MoveToDeadLetter, ReportFailure, ReportError, Fault, EventKinds
  <2>2. ASSUME NEW t, t = x, job[c][s].pc \in Holding
        PROVE  Held(t)' \/ Has(queue', t) \/ Buried(t)' \/ t \in done'
    <3>1. CASE HandlerReturns(c, s) \/ HandlerRaises(c, s) \/ PublishError(c, s)
      <4>1. PICK pc \in Holding : Goto(c, s, pc)
        BY <3>1 DEF HandlerReturns, HandlerRaises, PublishError, Holding
      <4>2. Holds(c, s, t)'
        BY <1>1, <2>2, <4>1, GotoHolds DEF x
      <4>3. QED
        BY <4>2 DEF Held
    <3>2. CASE PublishResult(c, s)
      BY <2>2, <3>2 DEF PublishResult, x
    <3>3. CASE RetryTask(c, s)
      <4>1. queue' = Append(queue, e) /\ e \in Elements
        BY <1>4, <3>3 DEF RetryTask, Again, e, x
      <4>2. QED
        BY <1>1, <1>3, <2>2, <4>1, HasAdded
    <3>4. CASE MoveToDeadLetter(c, s)
      BY <1>3, <2>2, <3>4 DEF MoveToDeadLetter, Buried, l
    <3>5. CASE ReportFailure(c, s) \/ ReportError(c, s)
      BY <2>2, <3>5 DEF ReportFailure, ReportError, Holding
    <3>6. QED
      BY <1>10, <3>1, <3>2, <3>3, <3>4, <3>5 DEF ProcessTask
  <2>3. \A t \in Tasks : Missing(t)' => Missing(t)
    BY <1>8, <2>2 DEF Missing
  <2>4. QED
    BY <2>1, <2>3 DEF Harmless
<1>11. QED
  BY <1>9, <1>10

\* An administrator hands the letter on, or an error takes it.
LEMMA DeadLettersLoses ==
  ASSUME TypeOK, DeadLetters
  PROVE  Harmless \/ \E x : FaultAt(x)
<1>1. /\ UNCHANGED <<job, enq, done>> /\ queue \in Seq(Elements) /\ cleared \subseteq cleared'
      /\ dead' \subseteq dead
  BY DEF TypeOK, Elements, DeadLetters, RetryFind, RetryRemove, RetryRequeue, RetryError,
         ClearDeadLetters, adminRest
<1>2. \A t : Held(t)' <=> Held(t)
  BY <1>1 DEF Held, Holds
<1>3. ASSUME NEW t \in Tasks, Missing(t)',
             Has(queue, t) => Has(queue', t), Taken(t) => Taken(t)' \/ Has(queue', t),
             Buried(t) => Buried(t)' \/ Taken(t)' \/ t \in cleared'
      PROVE  Missing(t)
  BY <1>1, <1>2, <1>3 DEF Missing
<1>4. ASSUME NEW t, NEW a \in Admins, AdminHolds(a, t), admin'[a] = admin[a] PROVE Taken(t)'
  BY <1>1, <1>4 DEF AdminHolds, Taken
<1>5. ASSUME NEW a \in Admins, NEW x \in Tasks, RetryFind(a, x) PROVE Harmless
  <2>1. UNCHANGED <<queue, dead>> /\ admin[a] = NoCall /\ \A b \in Admins \ {a} : admin'[b] = admin[b]
    BY <1>5 DEF RetryFind, TypeOK
  <2>2. \A t : Taken(t) => Taken(t)'
    BY <1>4, <2>1 DEF Taken, AdminHolds
  <2>3. \A t : Buried(t) => Buried(t)'
    BY <2>1 DEF Buried
  <2>4. events'["crashes"] >= events["crashes"] /\ events'["faults"] >= events["faults"]
    BY <1>5, CountsOne DEF RetryFind, EventKinds
  <2>5. QED
    BY <1>3, <2>1, <2>2, <2>3, <2>4 DEF Harmless
<1>6. ASSUME NEW a \in Admins, RetryRemove(a) PROVE Harmless
  <2> DEFINE i == admin[a].item
             n == [admin[a] EXCEPT !.pc = "removed"]
  <2>1. /\ admin[a].pc = "found" /\ dead' = dead \ {i} /\ admin' = [admin EXCEPT ![a] = n]
        /\ UNCHANGED <<queue, events>>
    BY <1>6 DEF RetryRemove
  <2>2. admin[a] # NoCall
    BY <2>1 DEF NoCall
  <2>3. admin[a] \in [pc : {"found", "removed"}, item : Letters]
    BY <2>2 DEF TypeOK, AdminCalls
  <2>4. n.item = i /\ n # NoCall
    BY <2>3 DEF NoCall
  <2> HIDE DEF n
  <2>5. \A b \in Admins : admin'[b] = IF b = a THEN n ELSE admin[b]
    BY <2>1 DEF TypeOK
  <2>6. \A t : t = i.task => Taken(t)'
    BY <2>1, <2>4, <2>5 DEF Taken, AdminHolds
  <2>7. \A t : Taken(t) => Taken(t)'
    BY <1>4, <2>5, <2>6 DEF Taken, AdminHolds
  <2>8. \A t : Buried(t) => Buried(t)' \/ Taken(t)'
    BY <2>1, <2>6 DEF Buried
  <2>9. QED
    BY <1>3, <2>1, <2>7, <2>8, CountsNothing DEF Harmless
<1>7. ASSUME NEW a \in Admins, RetryRequeue(a) \/ RetryError(a) PROVE Harmless \/ \E x : FaultAt(x)
  <2> DEFINE x == admin[a].item.task
             e == [task |-> x, retry |-> 0]
  <2>1. /\ admin[a] # NoCall /\ admin' = [admin EXCEPT ![a] = NoCall] /\ dead \ {admin[a].item} \subseteq dead'
        /\ UNCHANGED queue \/ queue' = Append(queue, e)
    BY <1>7 DEF RetryRequeue, RetryError, NoCall
  <2>2. x \in Tasks /\ e \in Elements /\ e.task = x
    BY <2>1, ElementTypes DEF TypeOK, AdminCalls, Letters
  <2>3. \A b \in Admins \ {a} : admin'[b] = admin[b]
    BY <2>1 DEF TypeOK
  <2>4. RetryRequeue(a) => queue' = Append(queue, e) /\ UNCHANGED <<dead, events>>
    BY DEF RetryRequeue
  <2>5. RetryError(a) => events'["crashes"] = events["crashes"] /\ events'["faults"] = events["faults"] + 1
    BY CountsOne DEF RetryError, Fault, EventKinds
  <2>6. \A t : Taken(t) => Taken(t)' \/ t = x
    BY <1>4, <2>3 DEF Taken, AdminHolds
  <2>7. \A t : Buried(t) => Buried(t)' \/ t = x
    BY <2>1 DEF Buried
  <2> HIDE DEF e, x
  <2>8. \A t : Has(queue, t) => Has(queue', t)
    BY <1>1, <2>1, <2>2, HasAdded
  <2>9. CASE RetryRequeue(a)
    <3>1. Has(queue', x) /\ \A t : Buried(t) => Buried(t)'
      BY <1>1, <2>2, <2>4, <2>9, HasAdded DEF Buried
    <3>2. QED
      BY <1>3, <2>4, <2>6, <2>8, <2>9, <3>1, CountsNothing DEF Harmless
  <2>10. CASE RetryError(a)
    <3>1. FaultAt(x)
      BY <1>3, <2>5, <2>6, <2>7, <2>8, <2>10 DEF FaultAt
    <3>2. QED
      BY <3>1
  <2>11. QED
    BY <1>7, <2>9, <2>10
<1>8. CASE ClearDeadLetters
  <2>1. UNCHANGED <<queue, admin>> /\ cleared' = cleared \cup {d.task : d \in dead}
    BY <1>8 DEF ClearDeadLetters
  <2>2. \A t : Taken(t) => Taken(t)'
    BY <1>4, <2>1 DEF Taken
  <2>3. \A t : Buried(t) => t \in cleared'
    BY <2>1 DEF Buried
  <2>4. events'["crashes"] >= events["crashes"] /\ events'["faults"] >= events["faults"]
    BY <1>8, CountsOne DEF ClearDeadLetters, EventKinds
  <2>5. QED
    BY <1>3, <2>1, <2>2, <2>3, <2>4 DEF Harmless
<1>9. QED
  BY <1>5, <1>6, <1>7, <1>8 DEF DeadLetters

LossInv == Cardinality(Lost) <= Losses

LEMMA LostFinite == IsFiniteSet(Lost) /\ Cardinality(Lost) \in Nat
<1>1. Lost \subseteq Tasks
  BY DEF Lost
<1>2. QED
  BY <1>1, ConstantsAssumption, FS_Subset, FS_CardinalityType

\* A live consumer runs no more coroutines than it has permits, so a crash takes no more tasks.
LEMMA CrashTakes ==
  ASSUME TypeOK, AllBalanced, NEW c \in Consumers, CrashOf(c)
  PROVE  Cardinality(Lost') <= Cardinality(Lost) + MaxConcurrent
<1> DEFINE S == {s \in Slots : job[c][s].pc \in Holding}
           f == [s \in S |-> job[c][s].task]
           T == {job[c][s].task : s \in S}
<1>1. S \subseteq Busy(c)
  BY DEF Busy, Idle, Holding
<1>2. IsFiniteSet(S) /\ Cardinality(S) \in Nat /\ Cardinality(S) <= Cardinality(Busy(c))
  BY <1>1, BusyFinite, FS_Subset, FS_CardinalityType
<1>3. Cardinality(Busy(c)) <= MaxConcurrent
  <2>1. permits[c] \in Nat /\ Polling(c) \in {0, 1} /\ Cardinality(Busy(c)) \in Nat /\ MaxConcurrent \in Nat
    BY BusyFinite, ConstantsAssumption DEF TypeOK, Polling
  <2>2. permits[c] + Polling(c) + Cardinality(Busy(c)) = MaxConcurrent
    BY DEF AllBalanced, Balanced, CrashOf
  <2>3. QED
    BY <2>1, <2>2
<1>4. IsFiniteSet(T) /\ Cardinality(T) \in Nat /\ Cardinality(T) <= Cardinality(S)
  <2>1. f \in [S -> T] /\ \A t \in T : \E s \in S : f[s] = t
    OBVIOUS
  <2>2. f \in Surjection(S, T)
    BY <2>1 DEF Surjection
  <2> HIDE DEF S, f, T
  <2>3. QED
    BY <1>2, <2>2, FS_Surjection, FS_CardinalityType
<1>5. Lost' \subseteq Lost \cup T
  <2>1. ASSUME NEW t \in Lost' PROVE t \in Lost \cup T
    <3>1. t \in Tasks /\ Missing(t)'
      BY <2>1 DEF Lost
    <3>2. CASE Missing(t)
      BY <3>1, <3>2 DEF Lost
    <3>3. CASE \E s \in Slots : Holds(c, s, t)
      BY <3>3 DEF Holds
    <3>4. QED
      BY <3>1, <3>2, <3>3 DEF CrashOf
  <2>2. QED
    BY <2>1
<1> HIDE DEF S, T
<1>6. IsFiniteSet(Lost \cup T) /\ Cardinality(Lost \cup T) \in Nat
      /\ Cardinality(Lost \cup T) <= Cardinality(Lost) + Cardinality(T)
  <2>1. IsFiniteSet(Lost \cap T) /\ Cardinality(Lost \cap T) \in Nat
    BY LostFinite, FS_Intersection, FS_CardinalityType
  <2>2. IsFiniteSet(Lost \cup T) /\ Cardinality(Lost \cup T) = Cardinality(Lost) + Cardinality(T) - Cardinality(Lost \cap T)
    BY <1>4, LostFinite, FS_Union
  <2>3. Cardinality(Lost \cup T) \in Nat
    BY <2>2, FS_CardinalityType
  <2>4. QED
    BY <1>4, <2>1, <2>2, <2>3, LostFinite
<1>7. Cardinality(Lost') <= Cardinality(Lost \cup T) /\ Cardinality(Lost') \in Nat
  BY <1>5, <1>6, FS_Subset, FS_CardinalityType
<1>8. QED
  BY <1>2, <1>3, <1>4, <1>6, <1>7, BusyFinite, LostFinite, ConstantsAssumption

LEMMA InitLoss == Init => LossInv
<1> SUFFICES ASSUME Init PROVE LossInv
  OBVIOUS
<1>1. Lost = {}
  BY DEF Init, Lost, Missing
<1>2. events["crashes"] = 0 /\ events["faults"] = 0
  BY DEF Init, EventKinds
<1>3. Losses = 0
  BY <1>2, ConstantsAssumption DEF Losses
<1>4. QED
  BY <1>1, <1>3, FS_EmptySet DEF LossInv

LEMMA NextLoss == TypeOK /\ TypeOK' /\ AllBalanced /\ LossInv /\ [Next]_vars => LossInv'
<1> SUFFICES ASSUME TypeOK, TypeOK', AllBalanced, LossInv, [Next]_vars
             PROVE  LossInv'
  OBVIOUS
<1> DEFINE k == events["crashes"]
           n == events["faults"]
<1>1. k \in Nat /\ n \in Nat /\ k' \in Nat /\ n' \in Nat /\ MaxConcurrent \in Nat
  BY ConstantsAssumption DEF TypeOK, EventKinds
<1>2. /\ Cardinality(Lost) \in Nat /\ IsFiniteSet(Lost) /\ Cardinality(Lost) <= k * MaxConcurrent + n
      /\ LossInv' <=> Cardinality(Lost') <= k' * MaxConcurrent + n'
  BY LostFinite DEF LossInv, Losses
<1>3. k * MaxConcurrent \in Nat /\ k' * MaxConcurrent \in Nat /\ (k + 1) * MaxConcurrent = k * MaxConcurrent + MaxConcurrent
  BY <1>1
<1>4. k' >= k => k' * MaxConcurrent >= k * MaxConcurrent
  <2>1. \A i, j, m \in Nat : i >= j => i * m >= j * m
    OBVIOUS
  <2>2. QED
    BY <1>1, <2>1
<1>5. CASE Harmless
  <2>1. Lost' \subseteq Lost
    BY <1>5 DEF Harmless, Lost
  <2>2. Cardinality(Lost') \in Nat /\ Cardinality(Lost') <= Cardinality(Lost)
    BY <1>2, <2>1, FS_Subset, FS_CardinalityType
  <2>3. k' >= k /\ n' >= n
    BY <1>5 DEF Harmless
  <2> HIDE DEF k, n
  <2>4. QED
    BY <1>1, <1>2, <1>3, <1>4, <2>2, <2>3
<1>6. ASSUME NEW x, FaultAt(x) PROVE LossInv'
  <2>1. Lost' \subseteq Lost \cup {x}
    BY <1>6 DEF FaultAt, Lost
  <2>2. IsFiniteSet(Lost \cup {x}) /\ Cardinality(Lost \cup {x}) <= Cardinality(Lost) + 1
    <3>1. IsFiniteSet(Lost \cup {x})
          /\ Cardinality(Lost \cup {x}) = IF x \in Lost THEN Cardinality(Lost) ELSE Cardinality(Lost) + 1
      BY <1>2, FS_AddElement
    <3>2. QED
      BY <1>2, <3>1
  <2>3. /\ Cardinality(Lost') \in Nat /\ Cardinality(Lost \cup {x}) \in Nat
        /\ Cardinality(Lost') <= Cardinality(Lost \cup {x})
    BY <2>1, <2>2, FS_Subset, FS_CardinalityType
  <2>4. k' = k /\ n' = n + 1
    BY <1>6 DEF FaultAt
  <2> HIDE DEF k, n
  <2>5. QED
    BY <1>1, <1>2, <1>3, <2>2, <2>3, <2>4
<1>7. ASSUME NEW c \in Consumers, CrashOf(c) PROVE LossInv'
  <2>1. Cardinality(Lost') <= Cardinality(Lost) + MaxConcurrent
    BY <1>7, CrashTakes
  <2>2. k' = k + 1 /\ n' = n
    BY <1>7 DEF CrashOf
  <2>3. Cardinality(Lost') \in Nat
    <3>1. Lost' \subseteq Tasks
      BY DEF Lost
    <3>2. QED
      BY <3>1, ConstantsAssumption, FS_Subset, FS_CardinalityType
  <2> HIDE DEF k, n
  <2>4. QED
    BY <1>1, <1>2, <1>3, <2>1, <2>2, <2>3
<1>8. CASE UNCHANGED vars
  <2>1. \A t : Missing(t)' <=> Missing(t)
    BY <1>8 DEF vars, Missing, Held, Holds, Taken, AdminHolds, Buried
  <2>2. Harmless
    BY <1>8, <2>1, CountsNothing DEF vars, Harmless
  <2>3. QED
    BY <1>5, <2>2
<1>9. CASE Next
  BY <1>5, <1>6, <1>7, <1>9, ProducerHarmless, PollLoopLoses, ProcessTaskLoses, DeadLettersLoses DEF Next
<1>10. QED
  BY <1>8, <1>9

\* An accepted task that is neither answered nor deleted is in the list, in a coroutine,
\* with an administrator or a letter, except for one task per Redis failure and
\* max_concurrent tasks per crash of a consumer; for any number of administrators.
THEOREM LossesBounded == Spec => []LossBounded
<1>1. LossInv => LossBounded
  <2>1. Lost = {t \in Tasks : enq[t] = "accepted" /\ t \notin done \cup cleared /\ ~ Live(t) /\ ~ Buried(t)}
    BY LivePlaces DEF Lost, Missing
  <2>2. QED
    BY <2>1 DEF LossInv, Losses, LossBounded
<1>2. Spec => [](TypeOK /\ AllBalanced /\ LossInv)
  BY InitType, NextType, InitBalanced, NextBalanced, InitLoss, NextLoss, PTL DEF Spec
<1>3. QED
  BY <1>1, <1>2, PTL

=============================================================================
