------------------------------- MODULE Gateway -------------------------------
(***************************************************************************)
(* Chats of the gateway: every message of a user may start a task, a task  *)
(* asks for approval of its risky actions, the user answers in the chat,   *)
(* and an approval runs the task again under the message it was asked for. *)
(*                                                                         *)
(* The gateway is one process.  Each webhook and each task is a coroutine; *)
(* the steps between two awaits that suspend are one action here.  A       *)
(* webhook that is delivered twice is two messages: the event is dropped,  *)
(* the message is not.                                                     *)
(*                                                                         *)
(* Abstracted: texts and files, the addressing policy (a message starts a  *)
(* task or not), the plan sent while a task runs, the notice sent before a *)
(* task resumes, and what a tool does (an action that is granted, or       *)
(* already asked for, changes nothing here).  The lists of approvals are   *)
(* longer than the instances need.                                         *)
(***************************************************************************)
EXTENDS Naturals, FiniteSets, SequencesExt

CONSTANTS
  Chats,        \* conversations
  Commands,     \* coroutines that handle a verdict
  PageSize,     \* messages of a chat a lookup reads, 500 in the code
  MaxInputs,    \* bounds: messages and verdicts of users,
  MaxApprovals, \* approvals asked for,
  MaxFailures   \* and exceptions, timeouts and crashes

ASSUME GatewayAssumption ==
  {PageSize, MaxInputs, MaxApprovals, MaxFailures} \subseteq Nat

VARIABLES
  messages,   \* the context messages of users, of all chats, in order of insertion
  version,    \* the number of context messages of each chat, those of the assistant included
  runs,       \* the rows of task runs, with the coroutines that serve them
  approvals,  \* the rows of approvals, in order of insertion
  command,    \* what each coroutine with a verdict still has to do
  count       \* what has happened so far, against the bounds

vars == <<messages, version, runs, approvals, command, count>>

Idle == [chat |-> "none", kind |-> "none", verdict |-> "none", left |-> {}, granted |-> {}, open |-> FALSE, seen |-> 0]

Init ==
  /\ messages = <<>> /\ version = [c \in Chats |-> 0]
  /\ runs = <<>> /\ approvals = <<>>
  /\ command = [h \in Commands |-> Idle]
  /\ count = [inputs |-> 0, failures |-> 0]

-----------------------------------------------------------------------------
(* Conversations *)

\* append_context_message: the next version of the conversation.
Appended(c) == version' = [version EXCEPT ![c] = @ + 1]
AppendUser(c, kind) ==
  /\ messages' = Append(messages, [chat |-> c, kind |-> kind, version |-> version[c] + 1])
  /\ Appended(c)

\* The oldest messages of a chat are read, up to the size of a page.
Page(c) == {m \in DOMAIN messages : messages[m].chat = c /\ messages[m].version <= PageSize}

Newest(numbers) == IF numbers = {} THEN 0 ELSE CHOOSE m \in numbers : \A n \in numbers : n <= m

\* Variant for sensitivity: the message a resumed task adds is the latest too.
LatestOfAll(c) == Newest({m \in Page(c) : messages[m].kind \in {"user", "resume"}})

\* The latest message of the user that is not there because a task resumed, or 0.
Latest(c) == Newest({m \in Page(c) : messages[m].kind = "user"})

Receiving == count.inputs < MaxInputs /\ count' = [count EXCEPT !.inputs = @ + 1]

\* A run: its own message, the message its approvals belong to, and the command that
\* resumed it, if any.
NewRun(c, message, scope, cause) ==
  [chat |-> c, message |-> message, scope |-> scope, cause |-> cause,
   status |-> "queued", watcher |-> "scheduled", task |-> "none", told |-> <<>>]

NoCause == [kind |-> "message", granted |-> {}, open |-> FALSE, overtaken |-> FALSE, paged |-> FALSE]

\* A message that is no verdict: recorded, and if it is addressed to the bot, run.
Message(c, addressed) ==
  /\ Receiving
  /\ AppendUser(c, "user")
  /\ runs' = IF addressed
             THEN Append(runs, NewRun(c, Len(messages) + 1, Len(messages) + 1, NoCause))
             ELSE runs
  /\ UNCHANGED <<approvals, command>>

-----------------------------------------------------------------------------
(* The task of a run: run_task_once with the hook of approvals *)

Working(r) == r \in DOMAIN runs /\ runs[r].task = "working"

\* What an approval is asked for: an action under the message of the run, or under the
\* session when the parameters of the action name it.
KeyOf(r, named) ==
  IF named THEN [of |-> "session", number |-> r] ELSE [of |-> "message", number |-> runs[r].scope]

\* Variant for sensitivity: approvals that are still pending are not looked for.
AnsweredOnly(key) == \E a \in DOMAIN approvals : approvals[a].key = key /\ approvals[a].status = "approved"

Answered(key) ==
  \E a \in DOMAIN approvals : approvals[a].key = key /\ approvals[a].status \in {"approved", "pending"}

\* A risky action is not granted yet, nor asked for.
Ask(r, named) ==
  /\ Working(r) /\ Len(approvals) < MaxApprovals
  /\ ~ Answered(KeyOf(r, named))
  /\ approvals' = Append(approvals, [key |-> KeyOf(r, named), scope |-> runs[r].scope, status |-> "pending"])
  /\ UNCHANGED <<messages, version, runs, command, count>>

\* A task that nobody waits for ends.
OrphanEnds(r) ==
  /\ Working(r) /\ runs[r].watcher # "waiting"
  /\ runs' = [runs EXCEPT ![r].task = "gone"]
  /\ UNCHANGED <<messages, version, approvals, command, count>>

-----------------------------------------------------------------------------
(* The coroutine that watches a run *)

Failing == count.failures < MaxFailures /\ count' = [count EXCEPT !.failures = @ + 1]

Begin(r) ==
  /\ runs[r].watcher = "scheduled"
  /\ runs' = [runs EXCEPT ![r].watcher = "waiting", ![r].status = "running", ![r].task = "working"]
  /\ UNCHANGED <<messages, version, approvals, command, count>>

\* The row and the context message of an outcome, before it is sent.
Conclude(r, status, kind, watcher, task) ==
  /\ runs' = [runs EXCEPT ![r].status = status, ![r].watcher = watcher, ![r].task = task,
                          ![r].told = Append(@, kind)]
  /\ Appended(runs[r].chat)
  /\ UNCHANGED <<messages, approvals, command>>

\* Variant for sensitivity: a task that ends after its deadline reports as well.
ReturnLate(r) ==
  /\ Working(r)
  /\ Conclude(r, "done", "result", "sending", "gone")
  /\ UNCHANGED count

Return(r) ==
  /\ Working(r) /\ runs[r].watcher = "waiting"
  /\ Conclude(r, "done", "result", "sending", "gone")
  /\ UNCHANGED count

\* The poll finds an approval asked for under the session of the run: the task is cancelled.
AwaitApproval(r) ==
  /\ Working(r) /\ runs[r].watcher = "waiting"
  /\ \E a \in DOMAIN approvals : approvals[a].key = KeyOf(r, TRUE) /\ approvals[a].status = "pending"
  /\ Conclude(r, "awaiting_approval", "waiting", "sending", "gone")
  /\ UNCHANGED count

\* The deadline passes: the run has failed, its task goes on.
Timeout(r) ==
  /\ Working(r) /\ runs[r].watcher = "waiting" /\ Failing
  /\ Conclude(r, "failed", "timeout", "closing", "working")

\* The task raises.
Break(r) ==
  /\ Working(r) /\ runs[r].watcher = "waiting" /\ Failing
  /\ Conclude(r, "failed", "error", "closing", "gone")

Sent(r) ==
  /\ runs[r].watcher \in {"sending", "closing"}
  /\ runs' = [runs EXCEPT ![r].watcher = "over"]
  /\ UNCHANGED <<messages, version, approvals, command, count>>

\* Sending an outcome raises: the run has failed after all, and says so.
SendRaises(r) ==
  /\ runs[r].watcher = "sending" /\ Failing
  /\ Conclude(r, "failed", "error", "closing", runs[r].task)

-----------------------------------------------------------------------------
(* Verdicts *)

Pending == {a \in DOMAIN approvals : approvals[a].status = "pending"}
Scoped(c) == {a \in Pending : Latest(c) # 0 /\ approvals[a].scope = Latest(c)}

\* "agree" takes all that is pending for the latest message of the chat, or else the
\* newest of all; "agree to all" all of these, or else everything.
Targets(c, kind) ==
  IF Scoped(c) # {} THEN Scoped(c)
  ELSE IF kind = "plain" /\ Pending # {} THEN {Newest(Pending)} ELSE Pending

\* What is open for the last message the user has written, wherever it is stored.
Open(c) ==
  LET last == Newest({m \in DOMAIN messages : messages[m].chat = c /\ messages[m].kind = "user"})
  IN \E a \in Pending : approvals[a].key = [of |-> "message", number |-> last]

\* The list is read once and its first approval resolved; the others follow in its order.
Oldest(numbers) == CHOOSE a \in numbers : \A b \in numbers : a <= b
Command(h, c, kind, targets, verdict) ==
  /\ command[h] = Idle /\ targets # {} /\ Receiving
  /\ approvals' = [approvals EXCEPT ![Oldest(targets)].status = verdict]
  /\ command' = [command EXCEPT ![h] =
       [chat |-> c, kind |-> kind, verdict |-> verdict, left |-> targets \ {Oldest(targets)}, granted |-> targets,
        open |-> Open(c), seen |-> Len(messages)]]
  /\ UNCHANGED <<messages, version, runs>>

\* resolve writes the verdict over whatever the status was.
ResolveNext(h) ==
  /\ command[h].left # {}
  /\ approvals' = [approvals EXCEPT ![Oldest(command[h].left)].status = command[h].verdict]
  /\ command' = [command EXCEPT ![h].left = @ \ {Oldest(@)}]
  /\ UNCHANGED <<messages, version, runs, count>>

Resolved(h, verdict) == command[h].chat # "none" /\ command[h].left = {} /\ command[h].verdict = verdict

Dismiss(h) ==
  /\ Resolved(h, "rejected")
  /\ command' = [command EXCEPT ![h] = Idle]
  /\ UNCHANGED <<messages, version, runs, approvals, count>>

Cause(h) ==
  LET c == command[h].chat IN
  [kind |-> command[h].kind, granted |-> command[h].granted, open |-> command[h].open,
   overtaken |-> \E m \in DOMAIN messages : m > command[h].seen /\ messages[m].chat = c /\ messages[m].kind = "user",
   paged |-> version[c] > PageSize]

\* The latest message of the user is run again, under its own number.
Resume(h) ==
  /\ Resolved(h, "approved")
  /\ LET c == command[h].chat
     IN IF Latest(c) = 0 THEN UNCHANGED <<messages, version, runs>>
        ELSE /\ AppendUser(c, "resume")
             /\ runs' = Append(runs, NewRun(c, Len(messages) + 1, Latest(c), Cause(h)))
  /\ command' = [command EXCEPT ![h] = Idle]
  /\ UNCHANGED <<approvals, count>>

-----------------------------------------------------------------------------
\* The process starts again: rows stay, coroutines do not.
Crash ==
  /\ Failing
  /\ runs' = [r \in DOMAIN runs |-> [runs[r] EXCEPT !.watcher = IF @ = "over" THEN @ ELSE "lost",
                                                    !.task = "gone"]]
  /\ command' = [h \in Commands |-> Idle]
  /\ UNCHANGED <<messages, version, approvals>>

Task(r) == (\E named \in BOOLEAN : Ask(r, named)) \/ OrphanEnds(r)
Watch(r) ==
  \/ Begin(r) \/ Return(r) \/ AwaitApproval(r) \/ Timeout(r) \/ Break(r) \/ Sent(r) \/ SendRaises(r)
Verdict(h, c, verdict) ==
  \/ \E kind \in {"plain", "all"} : Command(h, c, kind, Targets(c, kind), verdict)
  \/ \E a \in DOMAIN approvals : Command(h, c, "one", {a}, verdict)

Next ==
  \/ \E c \in Chats, addressed \in BOOLEAN : Message(c, addressed)
  \/ \E r \in DOMAIN runs : Task(r) \/ Watch(r)
  \/ \E h \in Commands :
       \/ \E c \in Chats, verdict \in {"approved", "rejected"} : Verdict(h, c, verdict)
       \/ ResolveNext(h) \/ Dismiss(h) \/ Resume(h)
  \/ Crash

Spec == Init /\ [][Next]_vars

-----------------------------------------------------------------------------
(* Properties *)

Outcomes == {"result", "waiting", "timeout", "error"}
Causes == [kind : {"message", "plain", "all", "one"}, granted : SUBSET (1..MaxApprovals),
           open : BOOLEAN, overtaken : BOOLEAN, paged : BOOLEAN]

TypeOK ==
  /\ messages \in Seq([chat : Chats, kind : {"user", "resume"}, version : Nat])
  /\ version \in [Chats -> Nat]
  /\ runs \in Seq([chat : Chats, message : DOMAIN messages, scope : DOMAIN messages, cause : Causes,
                   status : {"queued", "running", "awaiting_approval", "done", "failed"},
                   watcher : {"scheduled", "waiting", "sending", "closing", "over", "lost"},
                   task : {"none", "working", "gone"}, told : Seq(Outcomes)])
  /\ approvals \in Seq([key : [of : {"session", "message"}, number : Nat], scope : DOMAIN messages,
                        status : {"pending", "approved", "rejected"}])
  /\ command \in [Commands -> [chat : Chats \cup {"none"}, kind : {"none", "plain", "all", "one"},
                               verdict : {"none", "approved", "rejected"}, left : SUBSET (DOMAIN approvals),
                               granted : SUBSET (DOMAIN approvals), open : BOOLEAN, seen : 0..Len(messages)]]
  /\ count.inputs \in 0..MaxInputs /\ count.failures \in 0..MaxFailures

\* No two approvals of one action are pending at once, although a task, the tasks resumed
\* beside it and a task that outlived its deadline all ask (local_runtime.py:1043-1068).
OneOpenApproval ==
  \A a, b \in DOMAIN approvals :
    approvals[a].status = "pending" /\ approvals[b].status = "pending" /\ approvals[a].key = approvals[b].key
    => a = b

StatusAfter(kind) ==
  IF kind = "result" THEN "done" ELSE IF kind = "waiting" THEN "awaiting_approval" ELSE "failed"

\* The state keeps its types, and the row of a run ends as its chat was told: nothing is
\* told of a run under way, the last thing told is its status, and a second is told only
\* when sending the first raised (context_service.py:434-585).  A task that outlives its
\* deadline tells nothing.
OutcomesTold ==
  /\ TypeOK
  /\ \A r \in DOMAIN runs :
       LET told == runs[r].told IN
       /\ told = <<>> <=> runs[r].status \in {"queued", "running"}
       /\ told # <<>> => runs[r].status = StatusAfter(Last(told))
       /\ Len(told) > 1 => Len(told) = 2 /\ told[1] \in {"result", "waiting"} /\ told[2] = "error"

\* An answer in the chat that runs a task again has granted what that task asks for, if
\* something was open for the last message of the user, no other message came meanwhile
\* and the chat fits in a page (manager.py:1018-1047, 1115-1153).
GrantReachesItsRun ==
  \A r \in DOMAIN runs :
    LET cause == runs[r].cause IN
    cause.kind \in {"plain", "all"} /\ cause.open /\ ~ cause.overtaken /\ ~ cause.paged =>
      \E a \in cause.granted : approvals[a].key = [of |-> "message", number |-> runs[r].scope]
=============================================================================
