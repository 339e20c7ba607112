-------------------------- MODULE ControlPlaneLink --------------------------
(***************************************************************************)
(* The link between one user's execution plane and the control plane:       *)
(* ControlPlaneClient (runtime/src/ws/client.py) with its listen loop,      *)
(* reconnection and resume, and the WebSocket server's per-connection       *)
(* handshake, registration, request handling and result cache               *)
(* (apps/api/src/ws/ws-server.ts).                                          *)
(*                                                                          *)
(* Each end notices the loss of a socket on its own: what was in flight     *)
(* towards it is gone, and its close event runs later than, or without, the *)
(* other's.  Listener and reconnection tasks are named by the socket whose  *)
(* init message spawned them; task 0 is the call of connect().              *)
(***************************************************************************)
EXTENDS Integers, Sequences, FiniteSets

CONSTANTS
  Requests,     \* message ids, each sent by one call of request()
  MaxTries,     \* len(_reconnect_delays)
  CacheLimit, CacheEvict,   \* requestResults: above the limit, the oldest go
  MaxSockets, MaxCuts, MaxRefusals, MaxCloses   \* bounds of the model

ASSUME LinkAssumption ==
  /\ IsFiniteSet(Requests)
  /\ {MaxTries, MaxSockets, CacheLimit, CacheEvict} \subseteq Nat \ {0}
  /\ {MaxCuts, MaxRefusals, MaxCloses} \subseteq Nat
  /\ CacheEvict <= CacheLimit

Sockets == 1..MaxSockets
TaskIds == 0..MaxSockets

VARIABLES
  wire,        \* the client's side of each socket
  peer,        \* the server's side of each socket
  up, down,    \* messages in flight to the server, to the client
  conn,        \* VMConnection.status of each socket, and the stages before it
  registered,  \* WSServer.connections.get(userId): a socket or 0
  cached,      \* VMConnection.requestResults
  serving,     \* requests the server is awaiting a service for
  outcome,     \* what serving a request gave
  ws,          \* ControlPlaneClient.ws
  task,        \* listen and reconnection tasks
  listener,    \* _listen_task
  resume,      \* _resume_future: the task name it was made for, or 0
  future,      \* those futures
  req,         \* each request() call
  pending,     \* keys of pending_requests
  gaveUp,      \* a reconnection has used up its delays
  events       \* environment events so far

server == <<conn, registered, cached, serving, outcome>>
client == <<ws, task, listener, resume, future, req, pending, gaveUp>>
vars == <<wire, peer, up, down, server, client, events>>

Statuses == {"completed", "failed"}
Off == [pc |-> "off", sock |-> 0, tries |-> 0]
Dead == [Off EXCEPT !.pc = "dead"]
Working == {"start", "recv", "sleep", "init", "resume"}
NoFuture == [st |-> "none", results |-> <<>>]
Waiting == [st |-> "waiting", results |-> <<>>]
EventKinds == {"dials", "cuts", "refusals", "closes"}

Init ==
  /\ wire = [k \in Sockets |-> "none"]
  /\ peer = [k \in Sockets |-> "none"]
  /\ up = [k \in Sockets |-> <<>>]
  /\ down = [k \in Sockets |-> <<>>]
  /\ conn = [k \in Sockets |-> "none"]
  /\ registered = 0
  /\ cached = [k \in Sockets |-> <<>>]
  /\ serving = [k \in Sockets |-> {}]
  /\ outcome = [r \in Requests |-> "none"]
  /\ ws = 0
  /\ task = [p \in TaskIds |-> IF p = 0 THEN [Off EXCEPT !.pc = "sleep"] ELSE Off]
  /\ listener = 0
  /\ resume = 0
  /\ future = [k \in Sockets |-> NoFuture]
  /\ req = [r \in Requests |-> "new"]
  /\ pending = {}
  /\ gaveUp = FALSE
  /\ events = [e \in EventKinds |-> 0]

Bound(kind, max) == events[kind] < max /\ events' = [events EXCEPT ![kind] = @ + 1]

-----------------------------------------------------------------------------
(* The wire: what is sent to a side that is gone is lost. *)

ToServer(k, m) == up' = IF peer[k] = "closed" THEN up ELSE [up EXCEPT ![k] = Append(@, m)]
ToClient(k, m) == down' = IF wire[k] = "open" /\ peer[k] = "open"
                          THEN [down EXCEPT ![k] = Append(@, m)] ELSE down

TakeUp(k, type) ==
  /\ peer[k] # "closed" /\ up[k] # <<>> /\ Head(up[k]).type = type
  /\ up' = [up EXCEPT ![k] = Tail(@)]
TakeDown(k, type) ==
  /\ wire[k] = "open" /\ down[k] # <<>> /\ Head(down[k]).type = type
  /\ down' = [down EXCEPT ![k] = Tail(@)]

\* The client's library sees the socket closed: by the server's close, or a cut.
ClientCut(k) ==
  /\ wire[k] = "open"
  /\ \/ peer[k] # "open" /\ UNCHANGED events
     \/ peer[k] = "open" /\ Bound("cuts", MaxCuts)
  /\ wire' = [wire EXCEPT ![k] = "closed"]
  /\ down' = [down EXCEPT ![k] = <<>>]
  /\ UNCHANGED <<peer, up, server, client>>

\* ws.on('close'): attached once authenticated, it deletes the user's
\* registration whichever socket that is.
ServerCut(k) ==
  /\ peer[k] \in {"open", "closing"}
  /\ \/ wire[k] = "closed" /\ UNCHANGED events
     \/ wire[k] = "open" /\ Bound("cuts", MaxCuts)
  /\ peer' = [peer EXCEPT ![k] = "closed"]
  /\ up' = [up EXCEPT ![k] = <<>>]
  /\ IF conn[k] \in {"ready", "disconnected"}
     THEN /\ conn' = [conn EXCEPT ![k] = "disconnected"]
          /\ registered' = 0
     ELSE UNCHANGED <<conn, registered>>
  /\ UNCHANGED <<wire, down, cached, serving, outcome, client>>

-----------------------------------------------------------------------------
(* WSServer *)

\* once('message'): the first message starts validateAuth, which awaits the database.
Auth(k) ==
  /\ conn[k] = "accepting"
  /\ TakeUp(k, "auth")
  /\ conn' = [conn EXCEPT ![k] = "authing"]
  /\ UNCHANGED <<wire, peer, down, registered, cached, serving, outcome, client, events>>

Accept(k) ==
  /\ conn[k] = "authing"
  /\ conn' = [conn EXCEPT ![k] = "ready"]
  /\ registered' = k
  /\ ToClient(k, [type |-> "init"])
  /\ UNCHANGED <<wire, peer, up, cached, serving, outcome, client, events>>

Refuse(k) ==
  /\ conn[k] = "authing"
  /\ Bound("refusals", MaxRefusals)
  /\ conn' = [conn EXCEPT ![k] = "refused"]
  /\ peer' = [peer EXCEPT ![k] = IF @ = "open" THEN "closing" ELSE @]
  /\ UNCHANGED <<wire, up, down, registered, cached, serving, outcome, client>>

\* Between the first message and the acceptance nobody listens for messages.
DropEarly(k) ==
  /\ conn[k] \in {"authing", "refused"} /\ peer[k] # "closed" /\ up[k] # <<>>
  /\ up' = [up EXCEPT ![k] = Tail(@)]
  /\ UNCHANGED <<wire, peer, down, server, client, events>>

HandleRequest(k) ==
  /\ conn[k] \in {"ready", "disconnected"}
  /\ TakeUp(k, "request")
  /\ serving' = [serving EXCEPT ![k] = @ \cup {Head(up[k]).id}]
  /\ UNCHANGED <<wire, peer, down, conn, registered, cached, outcome, client, events>>

\* cacheRequestResult: over the limit the oldest CacheEvict entries go.
Cache(results, entry) ==
  LET all == Append(results, entry)
  IN IF Len(all) > CacheLimit THEN SubSeq(all, CacheEvict + 1, Len(all)) ELSE all

Respond(k, r, status) ==
  /\ r \in serving[k]
  /\ serving' = [serving EXCEPT ![k] = @ \ {r}]
  /\ outcome' = [outcome EXCEPT ![r] = status]
  /\ cached' = [cached EXCEPT ![k] = Cache(@, [id |-> r, status |-> status])]
  /\ ToClient(k, [type |-> "response", id |-> r, status |-> status])
  /\ UNCHANGED <<wire, peer, up, conn, registered, client, events>>

\* Variant for sensitivity: unknown requests count as done.
LookupOptimist(k, r) ==
  IF \E i \in DOMAIN cached[k] : cached[k][i].id = r
  THEN cached[k][CHOOSE i \in DOMAIN cached[k] : cached[k][i].id = r].status
  ELSE "completed"

\* handleResume looks a request up in the results of its own connection.
Lookup(k, r) ==
  IF \E i \in DOMAIN cached[k] : cached[k][i].id = r
  THEN cached[k][CHOOSE i \in DOMAIN cached[k] : cached[k][i].id = r].status
  ELSE "lost"

HandleResume(k) ==
  /\ conn[k] \in {"ready", "disconnected"}
  /\ TakeUp(k, "resume")
  /\ ToClient(k, [type |-> "resume_response",
                  results |-> [r \in Head(up[k]).ids |-> Lookup(k, r)]])
  /\ UNCHANGED <<wire, peer, server, client, events>>

\* No heartbeat for 30 s: the client is gone, or silent long enough.
HeartbeatTimeout(k) ==
  /\ registered = k /\ conn[k] = "ready"
  /\ \/ wire[k] = "closed" /\ UNCHANGED events
     \/ wire[k] = "open" /\ Bound("cuts", MaxCuts)
  /\ conn' = [conn EXCEPT ![k] = "disconnected"]
  /\ peer' = [peer EXCEPT ![k] = IF @ = "open" THEN "closing" ELSE @]
  /\ registered' = 0
  /\ UNCHANGED <<wire, up, down, cached, serving, outcome, client>>

Server(k) ==
  \/ Auth(k) \/ Accept(k) \/ Refuse(k) \/ DropEarly(k)
  \/ HandleRequest(k) \/ HandleResume(k) \/ HeartbeatTimeout(k)
  \/ \E r \in Requests, status \in Statuses : Respond(k, r, status)

-----------------------------------------------------------------------------
(* ControlPlaneClient: connecting and reconnecting *)

\* Variant for sensitivity: a give-up that forgets the pending requests without failing them.
FailAttemptForgets(p, tasks) ==
  LET last == p = 0 \/ task[p].tries + 1 = MaxTries
  IN /\ task' = [tasks EXCEPT ![p] =
                   IF last THEN Dead ELSE [Off EXCEPT !.pc = "sleep", !.tries = task[p].tries + 1]]
     /\ resume' = 0
     /\ gaveUp' = (gaveUp \/ last)
     /\ pending' = IF last THEN {} ELSE pending
     /\ UNCHANGED req

\* A failed attempt: the finally clause of _reconnect clears the resume future,
\* whoever made it, and the next delay begins; after the last one every pending
\* request fails.  connect() just raises.
FailAttempt(p, tasks) ==
  IF p = 0
  THEN /\ task' = [tasks EXCEPT ![p] = Dead]
       /\ gaveUp' = TRUE
       /\ UNCHANGED <<resume, req, pending>>
  ELSE LET last == task[p].tries + 1 = MaxTries
       IN /\ task' = [tasks EXCEPT ![p] =
                        IF last THEN Dead ELSE [Off EXCEPT !.pc = "sleep", !.tries = task[p].tries + 1]]
          /\ resume' = 0
          /\ gaveUp' = (gaveUp \/ last)
          /\ req' = [r \in Requests |->
                       IF last /\ r \in pending /\ req[r] = "waiting" THEN "unreachable" ELSE req[r]]
          /\ pending' = IF last THEN {} ELSE pending

\* websockets.connect succeeded, self.ws is set and the auth message sent; the
\* server's handleConnection has run.
Dial(p) ==
  LET k == events.dials + 1 IN
  /\ task[p].pc = "sleep"
  /\ Bound("dials", MaxSockets)
  /\ wire' = [wire EXCEPT ![k] = "open"]
  /\ peer' = [peer EXCEPT ![k] = "open"]
  /\ conn' = [conn EXCEPT ![k] = "accepting"]
  /\ up' = [up EXCEPT ![k] = <<[type |-> "auth"]>>]
  /\ ws' = k
  /\ task' = [task EXCEPT ![p] = [@ EXCEPT !.pc = "init", !.sock = k]]
  /\ UNCHANGED <<down, registered, cached, serving, outcome, listener, resume, future,
                 req, pending, gaveUp>>

DialFails(p) ==
  /\ task[p].pc = "sleep"
  /\ \/ events.dials = MaxSockets /\ UNCHANGED events
     \/ Bound("cuts", MaxCuts)
  /\ FailAttempt(p, task)
  /\ UNCHANGED <<wire, peer, up, down, server, ws, listener, future>>

\* init arrived: a new listen task, then resume with the ids pending now, sent on
\* the socket self.ws names by now.
GetInit(p) ==
  LET k == task[p].sock
      spawned == [task EXCEPT ![k] = [Off EXCEPT !.pc = "start"]]
  IN
  /\ task[p].pc = "init"
  /\ TakeDown(k, "init")
  /\ listener' = k
  /\ IF p = 0
     THEN /\ task' = [spawned EXCEPT ![p] = Dead]
          /\ UNCHANGED <<up, resume, future, req, pending, gaveUp>>
     ELSE IF wire[ws] = "open"
     THEN /\ task' = [spawned EXCEPT ![p].pc = "resume"]
          /\ resume' = k
          /\ future' = [future EXCEPT ![k] = Waiting]
          /\ ToServer(ws, [type |-> "resume", ids |-> pending])
          /\ UNCHANGED <<req, pending, gaveUp>>
     ELSE FailAttempt(p, spawned) /\ UNCHANGED <<up, future>>
  /\ UNCHANGED <<wire, peer, server, ws, events>>

\* recv raised, or the answer to resume did not come in 10 s.
InitFails(p) ==
  /\ task[p].pc = "init" /\ wire[task[p].sock] = "closed"
  /\ FailAttempt(p, task)
  /\ UNCHANGED <<wire, peer, up, down, server, ws, listener, future, events>>

ResumeFails(p) ==
  LET k == task[p].sock IN
  /\ task[p].pc = "resume" /\ future[k].st = "waiting"
  /\ future' = [future EXCEPT ![k].st = "cancelled"]
  /\ FailAttempt(p, task)
  /\ UNCHANGED <<wire, peer, up, down, server, ws, listener, events>>

Settled(status) == CASE status = "completed" -> "ok" [] status = "failed" -> "error" [] OTHER -> status

\* The reconnected task settles what the answer to resume names.
ResumeDone(p) ==
  LET results == future[task[p].sock].results IN
  /\ task[p].pc = "resume" /\ future[task[p].sock].st = "set"
  /\ req' = [r \in Requests |->
               IF r \in DOMAIN results \cap pending /\ req[r] = "waiting"
               THEN Settled(results[r]) ELSE req[r]]
  /\ pending' = pending \ DOMAIN results
  /\ task' = [task EXCEPT ![p] = Dead]
  /\ resume' = 0
  /\ UNCHANGED <<wire, peer, up, down, server, ws, listener, future, gaveUp, events>>

-----------------------------------------------------------------------------
(* ControlPlaneClient: the listen loop and request() *)

\* self.ws.recv() raises when another task is already receiving from that socket.
Receiving(p) ==
  IF \E q \in TaskIds \ {p} : task[q].pc \in {"recv", "init"} /\ task[q].sock = ws
  THEN Dead ELSE [Off EXCEPT !.pc = "recv", !.sock = ws]

Start(p) ==
  /\ task[p].pc = "start"
  /\ task' = [task EXCEPT ![p] = Receiving(p)]
  /\ UNCHANGED <<wire, peer, up, down, server, ws, listener, resume, future, req, pending,
                 gaveUp, events>>

\* Variant for sensitivity: the listen loop ends with its socket.
RecvClosedQuits(p) ==
  /\ task[p].pc = "recv" /\ wire[task[p].sock] = "closed"
  /\ task' = [task EXCEPT ![p] = Dead]
  /\ UNCHANGED <<wire, peer, up, down, server, ws, listener, resume, future, req, pending,
                 gaveUp, events>>

RecvClosed(p) ==
  /\ task[p].pc = "recv" /\ wire[task[p].sock] = "closed"
  /\ task' = [task EXCEPT ![p] = [Off EXCEPT !.pc = "sleep"]]
  /\ UNCHANGED <<wire, peer, up, down, server, ws, listener, resume, future, req, pending,
                 gaveUp, events>>

RecvResponse(p) ==
  LET k == task[p].sock
      m == Head(down[k])
  IN
  /\ task[p].pc = "recv"
  /\ TakeDown(k, "response")
  /\ pending' = pending \ {m.id}
  /\ req' = IF m.id \in pending /\ req[m.id] = "waiting"
            THEN [req EXCEPT ![m.id] = Settled(m.status)] ELSE req
  /\ task' = [task EXCEPT ![p] = Receiving(p)]
  /\ UNCHANGED <<wire, peer, up, server, ws, listener, resume, future, gaveUp, events>>

\* The answer to any resume sets the future that is current.
RecvResume(p) ==
  LET k == task[p].sock IN
  /\ task[p].pc = "recv"
  /\ TakeDown(k, "resume_response")
  /\ future' = IF resume # 0 /\ future[resume].st = "waiting"
               THEN [future EXCEPT ![resume] = [st |-> "set", results |-> Head(down[k]).results]]
               ELSE future
  /\ task' = [task EXCEPT ![p] = Receiving(p)]
  /\ UNCHANGED <<wire, peer, up, server, ws, listener, resume, req, pending, gaveUp, events>>

\* The future is registered before the send; a send that raises leaves it there.
Request(r) ==
  /\ req[r] = "new" /\ task[0].pc = "dead" /\ ws # 0
  /\ pending' = pending \cup {r}
  /\ IF wire[ws] = "open"
     THEN req' = [req EXCEPT ![r] = "waiting"] /\ ToServer(ws, [type |-> "request", id |-> r])
     ELSE req' = [req EXCEPT ![r] = "raised"] /\ UNCHANGED up
  /\ UNCHANGED <<wire, peer, down, server, ws, task, listener, resume, future, gaveUp, events>>

RequestTimeout(r) ==
  /\ req[r] = "waiting"
  /\ req' = [req EXCEPT ![r] = "timeout"]
  /\ pending' = pending \ {r}
  /\ UNCHANGED <<wire, peer, up, down, server, ws, task, listener, resume, future, gaveUp, events>>

\* close(): cancels the latest listen task only; a reconnection cancelled on the
\* way clears the resume future.
Close ==
  /\ task[0].pc = "dead" /\ listener # 0
  /\ Bound("closes", MaxCloses)
  /\ task' = [task EXCEPT ![listener] = Dead]
  /\ resume' = IF task[listener].pc \in {"sleep", "init", "resume"} THEN 0 ELSE resume
  /\ wire' = [wire EXCEPT ![ws] = "closed"]
  /\ down' = [down EXCEPT ![ws] = <<>>]
  /\ UNCHANGED <<peer, up, server, ws, listener, future, req, pending, gaveUp>>

Client(p) ==
  \/ Dial(p) \/ DialFails(p) \/ GetInit(p) \/ InitFails(p) \/ ResumeFails(p) \/ ResumeDone(p)
  \/ Start(p) \/ RecvClosed(p) \/ RecvResponse(p) \/ RecvResume(p)

Next ==
  \/ \E k \in Sockets : Server(k) \/ ClientCut(k) \/ ServerCut(k)
  \/ \E p \in TaskIds : Client(p)
  \/ \E r \in Requests : Request(r) \/ RequestTimeout(r)
  \/ Close

Spec == Init /\ [][Next]_vars

\* The event loops run what is ready, services answer, TCP reports a lost peer,
\* and the timeouts of 10, 30 and 60 s expire.
Fairness ==
  /\ \A k \in Sockets :
       /\ WF_vars(Server(k))
       /\ WF_vars(ClientCut(k) /\ UNCHANGED events)
       /\ WF_vars(ServerCut(k) /\ UNCHANGED events)
  /\ \A p \in TaskIds : WF_vars(Client(p))
  /\ \A r \in Requests : WF_vars(RequestTimeout(r))

FairSpec == Spec /\ Fairness

-----------------------------------------------------------------------------
(* Properties *)

ReqStates == {"new", "waiting", "raised", "ok", "error", "lost", "unreachable", "timeout"}
Results == Statuses \cup {"lost"}

\* Every piece of state keeps its type: sockets, messages, tasks and futures of
\* ControlPlaneClient and WSServer.
TypeOK ==
  /\ wire \in [Sockets -> {"none", "open", "closed"}]
  /\ peer \in [Sockets -> {"none", "open", "closing", "closed"}]
  /\ conn \in [Sockets -> {"none", "accepting", "authing", "ready", "disconnected", "refused"}]
  /\ registered \in TaskIds /\ ws \in TaskIds /\ listener \in TaskIds /\ resume \in TaskIds
  /\ serving \in [Sockets -> SUBSET Requests]
  /\ outcome \in [Requests -> Statuses \cup {"none"}]
  /\ task \in [TaskIds -> [pc : {"off", "dead"} \cup Working, sock : TaskIds, tries : 0..MaxTries - 1]]
  /\ req \in [Requests -> ReqStates]
  /\ pending \subseteq Requests
  /\ gaveUp \in BOOLEAN
  /\ events \in [EventKinds -> Nat]

\* A request that waits can still be reached by a response, a resume or the final
\* failure: its future is in pending_requests; and only a request whose send raised
\* is left there once it has ended (client.py:95-111).
PendingAccounted ==
  /\ {r \in Requests : req[r] = "waiting"} \subseteq pending
  /\ \A r \in pending : req[r] \in {"waiting", "raised"}

\* The state keeps its types, and however reconnections and listeners interleave and steal each other's sockets,
\* some task of the client is listening or reconnecting until it has given up or
\* was closed.
ClientNeverDeaf ==
  /\ TypeOK
  /\ task[0].pc = "dead" /\ ~ gaveUp /\ events.closes = 0 =>
       \E p \in TaskIds : task[p].pc \in Working

\* Once the network is quiet the client sits on an open, authenticated socket and
\* somebody reads it, unless it gave up or was closed.
LinkSettles ==
  <>[](gaveUp \/ events.closes > 0 \/
       /\ ws # 0 /\ wire[ws] = "open" /\ conn[ws] = "ready"
       /\ \E p \in TaskIds : task[p].pc = "recv" /\ task[p].sock = ws)

\* Once the network is quiet the control plane finds the user's connection again.
ReconnectRegisters == <>[](gaveUp \/ events.closes > 0 \/ (ws # 0 /\ registered = ws))

\* Each request on its own follows RequestPromise.
Promise == INSTANCE RequestPromise WITH
  call <- [r \in Requests |-> IF req[r] \in {"lost", "unreachable", "timeout", "raised"}
                              THEN "failed" ELSE req[r]],
  served <- outcome
KeepsPromise == Promise!Spec
=============================================================================
