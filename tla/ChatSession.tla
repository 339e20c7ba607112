----------------------------- MODULE ChatSession -----------------------------
(***************************************************************************)
(* The chats of one session from the HTTP request to the end of its event   *)
(* stream: the chat service and the SSE relay of the control plane          *)
(* (chat.service.ts, sse-relay.ts, ws-server.ts), the dispatch of the       *)
(* execution plane's WebSocket client (ws/client.py), SessionManager and    *)
(* the runs of SemiGraphAdapter (session/manager.py, semigraph_adapter.py). *)
(*                                                                          *)
(* The link is up throughout and FIFO in both directions (ControlPlaneLink  *)
(* models its failures).  In the execution plane a step of a task runs to   *)
(* its next suspension, and tasks begin in the order they were created.     *)
(***************************************************************************)
EXTENDS Integers, Sequences, FiniteSets, SequencesExt

CONSTANTS
  Chats,        \* POST /chat requests on the session, with one message each
  NoChat,
  MaxStreams,   \* MAX_SSE_CONNECTIONS_PER_USER
  MaxPending,   \* messages the client keeps for a session without handlers
  MaxLeaves, MaxFaults   \* bounds of the model

ASSUME ChatAssumption ==
  /\ IsFiniteSet(Chats) /\ NoChat \notin Chats
  /\ MaxStreams \in Nat \ {0} /\ MaxPending \in Nat \ {0}
  /\ {MaxLeaves, MaxFaults} \subseteq Nat

VARIABLES
  chat,       \* where each request's handler is
  stream,     \* the SSE connection of each request
  down, up,   \* the WebSocket, towards and from the execution plane
  ready,      \* tasks created and not yet begun, oldest first
  enriching,  \* start_session tasks that wait for skill packages
  tasks,      \* _task of each adapter made so far; the last one is in SessionManager.adapters
  pending,    \* pending_session_messages of the session
  run,        \* each message's _run: where it is, and has it been cancelled
  said,       \* terminal events each run has sent
  storing,    \* runs whose answer handleSSEEvent is storing
  events      \* leaves and faults so far

plane == <<chat, stream>>
runtime == <<ready, enriching, tasks, pending>>
vars == <<chat, stream, down, up, ready, enriching, tasks, pending, run, said, storing, events>>

Kinds == {"complete", "cancelled", "error"}     \* execution_complete with and without "cancelled", execution_error
RunStates == {"none", "created", "working", "saving", "cancelled", "failed", "over"}

Init ==
  /\ chat = [c \in Chats |-> "new"]
  /\ stream = [c \in Chats |-> "none"]
  /\ down = <<>> /\ up = <<>>
  /\ ready = <<>> /\ enriching = {} /\ tasks = <<>> /\ pending = <<>>
  /\ run = [c \in Chats |-> [st |-> "none", hit |-> FALSE]]
  /\ said = [c \in Chats |-> <<>>]
  /\ storing = {}
  /\ events = [leaves |-> 0, faults |-> 0]

-----------------------------------------------------------------------------
(* The control plane: the request *)

Streaming == {c \in Chats : stream[c] = "open"}

\* createSSEConnection, or its refusal.
Open(c) ==
  /\ chat[c] = "new"
  /\ IF Cardinality(Streaming) >= MaxStreams
     THEN chat' = [chat EXCEPT ![c] = "refused"] /\ UNCHANGED stream
     ELSE chat' = [chat EXCEPT ![c] = "open"] /\ stream' = [stream EXCEPT ![c] = "open"]
  /\ UNCHANGED <<down, up, runtime, run, said, storing, events>>

\* closeSSEConnection, the close listener registered first.
Deactivated(c) == [stream EXCEPT ![c] = "left"]

\* The close listener registered last, once the message is sent: a cancel if the
\* connection is still active.
CancelIfActive(c, s) ==
  IF chat[c] = "sent" /\ s[c] = "open" THEN <<[kind |-> "cancel", chat |-> c]>> ELSE <<>>

\* The client goes: both listeners run, in the order of their registration.
Leave(c) ==
  /\ stream[c] = "open"
  /\ events.leaves < MaxLeaves /\ events' = [events EXCEPT !.leaves = @ + 1]
  /\ stream' = Deactivated(c)
  /\ down' = down \o CancelIfActive(c, Deactivated(c))
  /\ UNCHANGED <<chat, up, runtime, run, said, storing>>

\* After several awaits, in one go: sendStartSession and sendUserMessage.
Dispatch(c) ==
  /\ chat[c] = "open"
  /\ chat' = [chat EXCEPT ![c] = "sent"]
  /\ down' = down \o <<[kind |-> "start", chat |-> c], [kind |-> "message", chat |-> c]>>
  /\ UNCHANGED <<stream, up, runtime, run, said, storing, events>>

-----------------------------------------------------------------------------
(* The control plane: terminal events *)

\* forwardSSE and closeSessionConnections: every stream of the session ends with it.
EndStreams == stream' = [c \in Chats |-> IF c \in Streaming THEN "ended" ELSE stream[c]]

\* An answer is stored before it is forwarded; its handler waits, the next one does not.
RecvComplete ==
  /\ up # <<>> /\ Head(up).kind = "complete"
  /\ storing' = storing \cup {Head(up).chat}
  /\ up' = Tail(up)
  /\ UNCHANGED <<plane, down, runtime, run, said, events>>

\* Without a final response nothing is stored.
RecvOther ==
  /\ up # <<>> /\ Head(up).kind # "complete"
  /\ EndStreams
  /\ up' = Tail(up)
  /\ UNCHANGED <<chat, down, runtime, run, said, storing, events>>

\* Variant for sensitivity: only the stream of the answered chat is closed.
StoredOwn(c) ==
  /\ c \in storing
  /\ storing' = storing \ {c}
  /\ stream' = [stream EXCEPT ![c] = IF c \in Streaming THEN "ended" ELSE @]
  /\ UNCHANGED <<chat, down, up, runtime, run, said, events>>

\* addMessage has returned or failed; the event is forwarded all the same.
Stored(c) ==
  /\ c \in storing
  /\ storing' = storing \ {c}
  /\ EndStreams
  /\ UNCHANGED <<chat, down, up, runtime, run, said, events>>

-----------------------------------------------------------------------------
(* The execution plane: dispatch and SessionManager *)

Task(kind, c) == [kind |-> kind, chat |-> c]
HasSession == tasks # <<>>

\* del queued[:-20]
KeepNewest(s) == IF Len(s) > MaxPending THEN Tail(s) ELSE s

\* _listen_loop: create_task(handler), or keep a message that has no handler yet.
Receive ==
  /\ down # <<>>
  /\ LET m == Head(down)
     IN  IF m.kind = "message" /\ ~ HasSession
         THEN pending' = KeepNewest(Append(pending, m.chat)) /\ UNCHANGED ready
         ELSE ready' = Append(ready, m) /\ UNCHANGED pending
  /\ down' = Tail(down)
  /\ UNCHANGED <<plane, up, enriching, tasks, run, said, storing, events>>

\* Variant for sensitivity: the kept messages are forgotten.
FlushNothing == <<>>
\* register_session_handlers: one task for each kept message.
Flush == [i \in DOMAIN pending |-> Task("message", pending[i])]

\* A new adapter replaces what is in SessionManager.adapters; starting it never suspends.
Register(rest) ==
  /\ tasks' = Append(tasks, NoChat)
  /\ ready' = rest \o Flush
  /\ pending' = <<>>

NextIs(kind) == ready # <<>> /\ Head(ready).kind = kind

\* start_session, up to its first request for a skill package if there is one.
BeginStart ==
  /\ NextIs("start")
  /\ \/ HasSession /\ ready' = Tail(ready) /\ UNCHANGED <<enriching, tasks, pending>>
     \/ ~ HasSession /\ Register(Tail(ready)) /\ UNCHANGED enriching
     \/ /\ ~ HasSession
        /\ enriching' = enriching \cup {Head(ready).chat}
        /\ ready' = Tail(ready)
        /\ UNCHANGED <<tasks, pending>>
  /\ UNCHANGED <<plane, down, up, run, said, storing, events>>

\* The rest of start_session does not look for the session again.
Enriched(c) ==
  /\ c \in enriching
  /\ enriching' = enriching \ {c}
  /\ Register(ready)
  /\ UNCHANGED <<plane, down, up, run, said, storing, events>>

\* Variant for sensitivity: the run under way is left alone.
CancelNothing(r, old) == r
\* handle_user_message: self._task.cancel()
CancelRun(r, old) == IF old # NoChat /\ r[old].st # "over" THEN [r EXCEPT ![old].hit = TRUE] ELSE r

\* Variant for sensitivity: the new task is stored before the old one is cancelled.
BeginMessageSwapped ==
  /\ NextIs("message")
  /\ LET c == Head(ready).chat
     IN  /\ run' = [run EXCEPT ![c] = [st |-> "created", hit |-> TRUE]]
         /\ tasks' = [tasks EXCEPT ![Len(tasks)] = c]
         /\ ready' = Append(Tail(ready), Task("run", c))
  /\ UNCHANGED <<plane, down, up, enriching, pending, said, storing, events>>

BeginMessage ==
  /\ NextIs("message")
  /\ LET c == Head(ready).chat
     IN  /\ run' = [CancelRun(run, Last(tasks)) EXCEPT ![c].st = "created"]
         /\ tasks' = [tasks EXCEPT ![Len(tasks)] = c]
         /\ ready' = Append(Tail(ready), Task("run", c))
  /\ UNCHANGED <<plane, down, up, enriching, pending, said, storing, events>>

-----------------------------------------------------------------------------
(* The execution plane: a run *)

Say(c, kind) ==
  /\ said' = [said EXCEPT ![c] = Append(@, kind)]
  /\ up' = Append(up, [chat |-> c, kind |-> kind])
Moves(c, from, to) == run[c].st \in from /\ run' = [run EXCEPT ![c] = [st |-> to, hit |-> FALSE]]

\* The first step of _run; a task cancelled before it never enters its body.
BeginRun ==
  /\ NextIs("run")
  /\ LET c == Head(ready).chat
     IN  Moves(c, {"created"}, IF run[c].hit THEN "over" ELSE "working")
  /\ ready' = Tail(ready)
  /\ UNCHANGED <<plane, down, up, enriching, tasks, pending, said, storing, events>>

Completes(c) ==
  /\ ~ run[c].hit /\ Moves(c, {"working"}, "saving")
  /\ Say(c, "complete")
  /\ UNCHANGED <<plane, down, runtime, storing, events>>

Fails(c) ==
  /\ ~ run[c].hit /\ Moves(c, {"working"}, "failed")
  /\ Say(c, "error")
  /\ UNCHANGED <<plane, down, runtime, storing, events>>

\* task.completed, the checkpoint or the snapshot raises: the except clause reports again.
SaveFails(c) ==
  /\ ~ run[c].hit /\ Moves(c, {"saving"}, "failed")
  /\ events.faults < MaxFaults /\ events' = [events EXCEPT !.faults = @ + 1]
  /\ Say(c, "error")
  /\ UNCHANGED <<plane, down, runtime, storing>>

\* CancelledError inside the try, which covers the saving after the completion.
Cancelled(c) ==
  /\ run[c].hit /\ Moves(c, {"working", "saving"}, "cancelled")
  /\ Say(c, "cancelled")
  /\ UNCHANGED <<plane, down, runtime, storing, events>>

\* The end of the try, or of an except clause that ends normally, with an exception
\* or cancelled.  The finally clause reports nothing.
RunEnds(c) ==
  /\ run[c].st = "saving" => ~ run[c].hit
  /\ Moves(c, {"saving", "failed", "cancelled"}, "over")
  /\ UNCHANGED <<plane, down, up, runtime, said, storing, events>>

RunStep(c) == Completes(c) \/ Fails(c) \/ SaveFails(c) \/ Cancelled(c) \/ RunEnds(c)
-----------------------------------------------------------------------------
ControlPlane ==
  \/ \E c \in Chats : Open(c) \/ Leave(c) \/ Dispatch(c) \/ Stored(c)
  \/ RecvComplete \/ RecvOther
ExecutionPlane ==
  \/ Receive \/ BeginStart \/ BeginMessage \/ BeginRun
  \/ \E c \in Chats : Enriched(c) \/ RunStep(c)
Next == ControlPlane \/ ExecutionPlane

Spec == Init /\ [][Next]_vars

\* Both event loops run what is ready, requests for skill packages are answered or
\* time out, a run ends, and so does a query to the database.
Fairness ==
  /\ WF_vars(RecvComplete \/ RecvOther) /\ WF_vars(Receive)
  /\ WF_vars(BeginStart \/ BeginMessage \/ BeginRun)
  /\ \A c \in Chats : WF_vars(Dispatch(c)) /\ WF_vars(Stored(c))
                        /\ WF_vars(Enriched(c)) /\ WF_vars(RunStep(c))
FairSpec == Spec /\ Fairness

-----------------------------------------------------------------------------
(* Properties *)

\* Every variable stays in its set, and the client keeps no more messages than it may.
TypeOK ==
  /\ chat \in [Chats -> {"new", "open", "refused", "sent"}]
  /\ stream \in [Chats -> {"none", "open", "left", "ended"}]
  /\ down \in Seq([kind : {"start", "message"}, chat : Chats])
  /\ up \in Seq([chat : Chats, kind : Kinds])
  /\ ready \in Seq([kind : {"start", "message", "run"}, chat : Chats])
  /\ enriching \subseteq Chats /\ storing \subseteq Chats
  /\ tasks \in Seq(Chats \cup {NoChat})
  /\ pending \in Seq(Chats) /\ Len(pending) <= MaxPending
  /\ run \in [Chats -> [st : RunStates, hit : BOOLEAN]]
  /\ said \in [Chats -> Seq(Kinds)]
  /\ events \in [leaves : 0..MaxLeaves, faults : 0..MaxFaults]

\* The state keeps its types, and a run that can still report is the task of its adapter or has been told to stop:
\* however messages interleave, no superseded run goes on (semigraph_adapter.py:447).
SupersededIsCancelled ==
  /\ TypeOK
  /\ \A c \in Chats : run[c].st \in {"created", "working", "saving"} =>
       run[c].hit \/ \E a \in DOMAIN tasks : tasks[a] = c

\* A run that ends without a word was superseded: the newest message of an adapter
\* always gets a terminal event (semigraph_adapter.py:478-686).
OnlySupersededAreSilent ==
  \A c \in Chats : run[c].st = "over" /\ said[c] = <<>> => \A a \in DOMAIN tasks : tasks[a] # c

\* The stream of a message that was sent stays open only while something is under way
\* that will end it: no interleaving forgets a stream.
NoStreamForgotten ==
  (\E c \in Streaming : chat[c] = "sent") =>
    \/ down # <<>> \/ pending # <<>> \/ ready # <<>> \/ enriching # {}
    \/ up # <<>> \/ storing # {}
    \/ \E d \in Chats : run[d].st = "working"

\* Every stream ends, whoever's event ends it.
EveryStreamEnds == \A c \in Chats : stream[c] = "open" ~> stream[c] # "open"

=============================================================================
