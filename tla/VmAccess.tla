------------------------------- MODULE VmAccess -------------------------------
(***************************************************************************)
(* How a chat reaches the execution plane of its user: the idempotency      *)
(* middleware in front of the chat routes, ensureUserVM with its polling    *)
(* loop, the rows of user_vm_instances, the bootstrap command that starts a *)
(* runtime process, and the handshake that consumes its ticket.             *)
(*                                                                          *)
(* One user.  Every await on Redis or PostgreSQL separates two steps, and   *)
(* what was read before it may be stale after it.  The time since the last  *)
(* bootstrap of a row is hot (within the retry window of a provisioning     *)
(* row), warm (within the cooldown) or cold, as it is without a bootstrap.  *)
(* Sockets close in one step: late closes, lost responses and reconnections *)
(* are in ControlPlaneLink.                                                 *)
(***************************************************************************)
EXTENDS Naturals, Sequences, FiniteSets

CONSTANTS
  Slots,        \* requests of the user that may be in progress at a time
  Keys, NoKey,  \* X-Request-ID values, and none
  MaxAttempts,  \* VM_BOOTSTRAP_MAX_ATTEMPTS
  MaxPolls,     \* polls within CHAT_VM_READY_WAIT_MS
  MaxRequests,
  MaxEvents     \* rebootstraps, expiries, failures and restarts together

ASSUME AccessAssumption ==
  /\ MaxAttempts \in Nat \ {0} /\ IsFiniteSet(Slots)
  /\ NoKey \notin Keys
  /\ {MaxPolls, MaxRequests, MaxEvents} \subseteq Nat

VARIABLES
  cache,     \* Redis: what is stored under each key
  saving,    \* keys whose response is being stored after it was sent
  req,       \* each request in progress
  executed,  \* how often a chat was let through under each key
  rows,      \* user_vm_instances of the user, oldest first
  tickets,   \* tickets issued so far
  scripts,   \* bootstrap commands spawned and not yet run
  procs,     \* runtime processes, in the order they were started
  conn,      \* the registered connection: its process, or 0
  marks,     \* status updates the WebSocket server has sent to the database
  count

web == <<cache, saving, executed>>
plane == <<scripts, procs, conn, marks>>
vars == <<cache, saving, req, executed, rows, tickets, scripts, procs, conn, marks, count>>

Idle == [pc |-> "idle", chat |-> FALSE, key |-> NoKey, caching |-> FALSE, force |-> FALSE, knew |-> 0,
         row |-> 0, was |-> "", ticket |-> 0, to |-> "", polls |-> 0]

Init ==
  /\ cache = [k \in Keys |-> "none"] /\ saving = {} /\ executed = [k \in Keys |-> 0]
  /\ req = [r \in Slots |-> Idle]
  /\ rows = <<>> /\ tickets = 0
  /\ scripts = {} /\ procs = <<>> /\ conn = 0 /\ marks = [ready |-> 0, disconnected |-> 0]
  /\ count = [requests |-> 0, forces |-> 0, expiries |-> 0, faults |-> 0, downs |-> 0]

Open == {"starting", "provisioning", "ready", "disconnected"}
OpenRows == {i \in DOMAIN rows : rows[i].status \in Open}
Events == count.forces + count.expiries + count.faults + count.downs
Happens(what) == Events < MaxEvents /\ count' = [count EXCEPT ![what] = @ + 1]
Go(r, pc) == req' = [req EXCEPT ![r].pc = pc]

-----------------------------------------------------------------------------
(* The idempotency middleware *)

\* A chat request arrives, a new one or one sent again under its key; without a key, or
\* with Redis known to be away, it passes.
Arrive(r, k) ==
  /\ req[r].pc = "idle" /\ count.requests < MaxRequests /\ count' = [count EXCEPT !.requests = @ + 1]
  /\ req' = [req EXCEPT ![r] = [Idle EXCEPT !.pc = IF k = NoKey THEN "enter" ELSE "get", !.key = k, !.chat = TRUE]]
  /\ UNCHANGED <<web, rows, tickets, plane>>

\* GET: what is stored, the placeholder too, is the answer.
Get(r) ==
  /\ req[r].pc = "get"
  /\ IF cache[req[r].key] = "none" THEN Go(r, "lock") ELSE req' = [req EXCEPT ![r] = Idle]
  /\ UNCHANGED <<web, rows, tickets, plane, count>>

\* Variant for sensitivity: SET without NX.
LockAnyway(r) ==
  /\ req[r].pc = "lock"
  /\ cache' = [cache EXCEPT ![req[r].key] = "processing"]
  /\ req' = [req EXCEPT ![r].pc = "enter", ![r].caching = TRUE]
  /\ UNCHANGED <<saving, executed, rows, tickets, plane, count>>

\* SET NX: the second of two requests is answered 409.
Lock(r) ==
  /\ req[r].pc = "lock"
  /\ IF cache[req[r].key] = "none"
     THEN /\ cache' = [cache EXCEPT ![req[r].key] = "processing"]
          /\ req' = [req EXCEPT ![r].pc = "enter", ![r].caching = TRUE]
     ELSE req' = [req EXCEPT ![r] = Idle] /\ UNCHANGED cache
  /\ UNCHANGED <<saving, executed, rows, tickets, plane, count>>

\* Redis fails: the request passes, whether or not its SET was carried out.
RedisFails(r) ==
  /\ req[r].pc \in {"get", "lock"} /\ Happens("faults")
  /\ Go(r, "enter")
  /\ \/ UNCHANGED cache
     \/ req[r].pc = "lock" /\ cache[req[r].key] = "none"
        /\ cache' = [cache EXCEPT ![req[r].key] = "processing"]
  /\ UNCHANGED <<saving, executed, rows, tickets, plane>>

\* The stored response, after it was sent.  A failure leaves the placeholder.
Save(k) ==
  /\ k \in saving /\ saving' = saving \ {k}
  /\ cache' = [cache EXCEPT ![k] = "refused"]
  /\ UNCHANGED <<req, executed, rows, tickets, plane, count>>
SaveFails(k) ==
  /\ k \in saving /\ saving' = saving \ {k} /\ Happens("faults")
  /\ UNCHANGED <<cache, req, executed, rows, tickets, plane>>

\* The entry expires, long after the chats under its key were admitted or refused.
Expire(k) ==
  /\ cache[k] # "none" /\ k \notin saving /\ \A r \in Slots : req[r].key # k
  /\ Happens("expiries")
  /\ cache' = [cache EXCEPT ![k] = "none"]
  /\ UNCHANGED <<saving, req, executed, rows, tickets, plane>>

\* The ends of a request: an error goes through res.json, a stream does not.
Refuse(r) ==
  /\ saving' = IF req[r].caching THEN saving \cup {req[r].key} ELSE saving
  /\ req' = [req EXCEPT ![r] = Idle]
  /\ UNCHANGED executed
Admit(r) ==
  /\ executed' = [k \in Keys |-> IF k = req[r].key THEN executed[k] + 1 ELSE executed[k]]
  /\ req' = [req EXCEPT ![r] = Idle]
  /\ UNCHANGED saving

-----------------------------------------------------------------------------
(* ensureUserVM and forceRebootstrap *)

\* handleChatViaExecutionPlane: is the user connected, before the rows are read.
Enter(r) ==
  /\ req[r].pc \in {"enter", "poll"}
  /\ req' = [req EXCEPT ![r].pc = "query", ![r].knew = conn, ![r].force = FALSE,
                        ![r].polls = IF req[r].pc = "poll" THEN @ + 1 ELSE @]
  /\ UNCHANGED <<web, rows, tickets, plane, count>>

\* POST /vm/rebootstrap.
Rebootstrap(r) ==
  /\ req[r].pc = "idle" /\ Happens("forces")
  /\ req' = [req EXCEPT ![r] = [Idle EXCEPT !.pc = "force", !.force = TRUE]]
  /\ UNCHANGED <<web, rows, tickets, plane>>

\* What the caller gets: it chats, polls again or gives up.  Only the first answer must
\* be starting or provisioning for the loop to begin; failed ends it.
Answer(r, status) ==
  /\ UNCHANGED cache
  /\ IF ~ req[r].chat THEN req' = [req EXCEPT ![r] = Idle] /\ UNCHANGED <<saving, executed>>
     ELSE IF status = "ready" THEN Admit(r)
     ELSE IF status # "failed" /\ req[r].polls < MaxPolls
             /\ (req[r].polls > 0 \/ status \in {"starting", "provisioning"})
     THEN /\ req' = [req EXCEPT ![r] = [Idle EXCEPT !.pc = "poll", !.chat = TRUE, !.key = req[r].key,
                                         !.caching = req[r].caching, !.polls = req[r].polls]]
          /\ UNCHANGED <<saving, executed>>
     ELSE Refuse(r)

\* Variant for sensitivity: the limit is passed by one.
ExceededLate(i) == rows[i].attempts > MaxAttempts

Exceeded(i) == rows[i].attempts >= MaxAttempts

\* maybeTriggerBootstrap goes on with a ticket that was not used, or issues one.
Bootstrap(r, i, force) ==
  req' = [req EXCEPT ![r].row = i, ![r].was = rows[i].status, ![r].force = force,
            ![r].ticket = IF rows[i].used THEN 0 ELSE rows[i].ticket,
            ![r].pc = IF rows[i].used THEN "issue" ELSE "touch"]
Mark(r, i, status) == req' = [req EXCEPT ![r].row = i, ![r].to = status, ![r].pc = "mark"]

\* Variant for sensitivity: the connection is not looked at.
KnownReady(r) == FALSE

Ready(r) == req[r].knew # 0

\* getActiveVM and the synchronous part of ensureUserVM after it.
Query(r) ==
  /\ req[r].pc = "query" /\ UNCHANGED <<rows, tickets, plane, count>>
  /\ \/ OpenRows = {} /\ Go(r, "insert") /\ UNCHANGED web
     \/ \E i \in OpenRows :
          \/ Ready(r) /\ rows[i].status # "ready" /\ Mark(r, i, "ready") /\ UNCHANGED web
          \/ Ready(r) /\ rows[i].status = "ready" /\ Answer(r, "ready")
          \/ ~ Ready(r) /\ Exceeded(i) /\ Mark(r, i, "failed") /\ UNCHANGED web
          \/ ~ Ready(r) /\ ~ Exceeded(i) /\ UNCHANGED web
             /\ IF rows[i].status = "provisioning" THEN rows[i].age # "hot" /\ Bootstrap(r, i, TRUE)
                ELSE rows[i].age = "cold" /\ Bootstrap(r, i, FALSE)
          \/ ~ Ready(r) /\ ~ Exceeded(i) /\ rows[i].status = "provisioning" /\ rows[i].age = "hot"
             /\ Answer(r, "provisioning")
          \/ ~ Ready(r) /\ ~ Exceeded(i) /\ rows[i].age \in {"hot", "warm"}
             /\ \/ rows[i].status = "ready" /\ Mark(r, i, "disconnected") /\ UNCHANGED web
                \/ rows[i].status \in {"starting", "disconnected"} /\ Answer(r, rows[i].status)

\* forceRebootstrap reads the same row and asks nothing.
QueryForced(r) ==
  /\ req[r].pc = "force" /\ UNCHANGED <<web, rows, tickets, plane, count>>
  /\ IF OpenRows = {} THEN Go(r, "insert") ELSE \E i \in OpenRows : Bootstrap(r, i, TRUE)

\* createVMInstance, with the ticket a row has by default.  A second open row of the
\* user violates the unique index: an error.
Insert(r) ==
  /\ req[r].pc = "insert" /\ UNCHANGED <<cache, plane, count>>
  /\ IF OpenRows = {}
     THEN /\ rows' = Append(rows, [status |-> "starting", ticket |-> tickets + 1, used |-> FALSE,
                                   attempts |-> 0, age |-> "cold"])
          /\ tickets' = tickets + 1
          /\ req' = [req EXCEPT ![r].pc = "issue", ![r].row = Len(rows) + 1, ![r].was = "starting"]
          /\ UNCHANGED <<saving, executed>>
     ELSE Refuse(r) /\ UNCHANGED <<rows, tickets>>

\* issueVMConnectTicket.
Issue(r) ==
  /\ req[r].pc = "issue"
  /\ tickets' = tickets + 1
  /\ rows' = [rows EXCEPT ![req[r].row] = [@ EXCEPT !.ticket = tickets + 1, !.used = FALSE]]
  /\ req' = [req EXCEPT ![r].pc = "touch", ![r].ticket = tickets + 1]
  /\ UNCHANGED <<web, plane, count>>

\* touchBootstrapAttempt: the attempt counts, and its window begins.
Touched(row) == [row EXCEPT !.attempts = @ + 1, !.age = "hot"]

\* The attempt, and after it the spawn of the command.
Touch(r) ==
  /\ req[r].pc = "touch"
  /\ rows' = [rows EXCEPT ![req[r].row] = Touched(@)]
  /\ scripts' = scripts \cup {[ticket |-> req[r].ticket, force |-> req[r].force, knew |-> req[r].knew,
                               chat |-> req[r].chat, by |-> r]}
  /\ req' = [req EXCEPT ![r].pc = "mark", ![r].to = "provisioning"]
  /\ UNCHANGED <<web, tickets, procs, conn, marks, count>>

\* The same with a spawn that throws.
SpawnFails(r) ==
  /\ req[r].pc = "touch" /\ Happens("faults")
  /\ rows' = [rows EXCEPT ![req[r].row] = Touched(@)]
  /\ IF req[r].was = "ready" /\ req[r].chat THEN Mark(r, req[r].row, "disconnected") /\ UNCHANGED web
     ELSE Answer(r, req[r].was)
  /\ UNCHANGED <<tickets, plane>>

\* markVMStatus: whatever the status has become.  A row that failed meanwhile cannot be
\* opened again beside another one: an error.
MarkStatus(r) ==
  /\ req[r].pc = "mark" /\ UNCHANGED <<tickets, plane, count>>
  /\ IF req[r].to \in Open /\ OpenRows \ {req[r].row} # {}
     THEN Refuse(r) /\ UNCHANGED <<cache, rows>>
     ELSE rows' = [rows EXCEPT ![req[r].row] = [@ EXCEPT !.status = req[r].to]] /\ Answer(r, req[r].to)

Older(age) == CASE age = "hot" -> "warm" [] age = "warm" -> "cold" [] OTHER -> age
\* A window ends.  It lasts seconds: statements and commands under way are over before,
\* though the start of a process may not be.
Elapse ==
  /\ \A r \in Slots : req[r].pc \in {"idle", "poll"}
  /\ scripts = {} /\ saving = {} /\ marks.ready + marks.disconnected = 0
  /\ \E i \in OpenRows : rows[i].age \in {"hot", "warm"}
  /\ rows' = [i \in DOMAIN rows |-> [rows[i] EXCEPT !.age = Older(@)]]
  /\ UNCHANGED <<web, req, tickets, plane, count>>

-----------------------------------------------------------------------------
(* The bootstrap command and the runtime process *)

Alive == {p \in DOMAIN procs : procs[p].st # "dead"}
Send(status) == marks' = [marks EXCEPT ![status] = @ + 1]

\* The server learns that its connection is gone, if it has one.
Unlinked == IF conn # 0 THEN conn' = 0 /\ Send("disconnected") ELSE UNCHANGED <<conn, marks>>

\* One process per user: a live one is left alone, or killed if the command says so.
Script(s) ==
  /\ s \in scripts /\ scripts' = scripts \ {s}
  /\ IF Alive # {} /\ ~ s.force THEN UNCHANGED <<procs, conn, marks>>
     ELSE /\ procs' = Append([p \in DOMAIN procs |-> [procs[p] EXCEPT !.st = "dead"]],
                             [ticket |-> s.ticket, st |-> "starting", admitted |-> FALSE])
          /\ Unlinked
  /\ UNCHANGED <<web, req, rows, tickets, count>>

\* validateAuth.  Its first statement asks for an open row, which the second asks for
\* again, so the two are one step.  With a ticket, the ticket is consumed; a process that
\* is refused its first connection ends.
Moved(p, st) == procs' = [procs EXCEPT ![p].st = st]
Linked(p) == conn' = p /\ Send("ready")

\* Variant for sensitivity: the ticket is looked up and not marked as used.
ConsumeUnmarked(p) ==
  /\ procs[p].st = "starting"
  /\ \E i \in OpenRows : rows[i].ticket = procs[p].ticket
  /\ procs' = [procs EXCEPT ![p].st = "linked", ![p].admitted = TRUE]
  /\ Linked(p)
  /\ UNCHANGED <<web, req, rows, tickets, scripts, count>>

Consume(p) ==
  /\ procs[p].st = "starting"
  /\ \E i \in OpenRows :
       /\ rows[i].ticket = procs[p].ticket /\ ~ rows[i].used
       /\ rows' = [rows EXCEPT ![i].used = TRUE]
  /\ procs' = [procs EXCEPT ![p].st = "linked", ![p].admitted = TRUE]
  /\ Linked(p)
  /\ UNCHANGED <<web, req, tickets, scripts, count>>

Refused(p) ==
  /\ procs[p].st = "starting"
  /\ ~ \E i \in OpenRows : rows[i].ticket = procs[p].ticket /\ ~ rows[i].used
  /\ Moved(p, "dead")
  /\ UNCHANGED <<web, req, rows, tickets, scripts, conn, marks, count>>

\* Without a ticket, one must have been used.  A process that is refused its last
\* reconnection stays, deaf.
Readmit(p) ==
  /\ procs[p].st = "cut"
  /\ IF \E i \in OpenRows : rows[i].used THEN Moved(p, "linked") /\ Linked(p)
     ELSE Moved(p, "deaf") /\ UNCHANGED <<conn, marks>>
  /\ UNCHANGED <<web, req, rows, tickets, scripts, count>>

\* The connection breaks, or the process dies.
Break(p) ==
  /\ procs[p].st = "linked" /\ Happens("faults")
  /\ \E st \in {"cut", "dead"} : Moved(p, st)
  /\ Unlinked
  /\ UNCHANGED <<web, req, rows, tickets, scripts>>

\* markVMInstanceState: the open row, in whatever order the updates arrive.
Marked(status) ==
  /\ marks[status] > 0 /\ marks' = [marks EXCEPT ![status] = @ - 1]
  /\ rows' = [i \in DOMAIN rows |-> IF i \in OpenRows THEN [rows[i] EXCEPT !.status = status] ELSE rows[i]]
  /\ UNCHANGED <<web, req, tickets, scripts, procs, conn, count>>

\* The API process restarts: requests and connections are gone, rows and keys stay.  A
\* process that connects meanwhile ends.
Down ==
  /\ Happens("downs")
  /\ req' = [r \in Slots |-> Idle] /\ saving' = {}
  /\ \E st \in {"starting", "dead"} :
       procs' = [p \in DOMAIN procs |-> [procs[p] EXCEPT !.st = CASE @ = "linked" -> "cut" [] @ = "starting" -> st [] OTHER -> @]]
  /\ conn' = 0 /\ marks' = [ready |-> 0, disconnected |-> 0]
  /\ UNCHANGED <<cache, executed, rows, tickets, scripts>>

-----------------------------------------------------------------------------
Step(r) ==
  \/ Get(r) \/ Lock(r) \/ Enter(r) \/ Query(r) \/ QueryForced(r)
  \/ Insert(r) \/ Issue(r) \/ Touch(r) \/ MarkStatus(r)
Runtime(p) == Consume(p) \/ Refused(p) \/ Readmit(p)
Next ==
  \/ \E r \in Slots : Step(r) \/ Rebootstrap(r) \/ RedisFails(r) \/ SpawnFails(r)
  \/ \E r \in Slots, k \in Keys \cup {NoKey} : Arrive(r, k)
  \/ \E k \in Keys : Save(k) \/ SaveFails(k) \/ Expire(k)
  \/ \E s \in scripts : Script(s)
  \/ \E p \in DOMAIN procs : Runtime(p) \/ Break(p)
  \/ \E status \in {"ready", "disconnected"} : Marked(status)
  \/ Elapse \/ Down

Spec == Init /\ [][Next]_vars

-----------------------------------------------------------------------------
(* Properties *)

\* A row is bootstrapped as often as the limit says, and once more for every other request
\* that read the attempts at the same time or asked for it (vm-scheduler.ts:240).
AttemptLimit == MaxAttempts + (Cardinality(Slots) - 1) + count.forces

\* Every variable stays in its set: no statement on user_vm_instances meets a row that is
\* not there, no row is bootstrapped too often, and no connection is registered for a
\* process that was not started.
TypeOK ==
  /\ cache \in [Keys -> {"none", "processing", "refused"}] /\ saving \subseteq Keys
  /\ executed \in [Keys -> 0..MaxRequests]
  /\ req \in [Slots -> [pc : {"idle", "get", "lock", "enter", "poll", "query", "force", "insert", "issue", "touch", "mark"},
                        chat : BOOLEAN, key : Keys \cup {NoKey}, caching : BOOLEAN, force : BOOLEAN, knew : 0..Len(procs),
                        row : 0..Len(rows), was : Open \cup {""}, ticket : 0..tickets,
                        to : Open \cup {"", "failed"}, polls : 0..MaxPolls]]
  /\ rows \in Seq([status : Open \cup {"failed"}, ticket : 1..tickets, used : BOOLEAN,
                   attempts : 0..AttemptLimit,
                   age : {"hot", "warm", "cold"}])
  /\ procs \in Seq([ticket : 1..tickets, admitted : BOOLEAN,
                    st : {"starting", "linked", "cut", "deaf", "dead"}])
  /\ conn \in 0..Len(procs) /\ marks \in [{"ready", "disconnected"} -> Nat]

\* The chats sent under one key reach the execution plane once, once more for every entry
\* that expired and every failure (idempotency.ts:4).
ExecutesOnce == \A k \in Keys : executed[k] <= 1 + count.expiries + count.faults

\* One connection is made with a ticket, though several bootstraps may share it
\* (vm-scheduler.ts:295-299, ws-server.ts:454-464).
TicketAdmitsOnce ==
  \A p, q \in DOMAIN procs :
    p # q /\ procs[p].admitted /\ procs[q].admitted => procs[p].ticket # procs[q].ticket

\* The retry of a chat kills a connected process only if it was not connected when the
\* chat looked, however long before (vm-scheduler.ts:63, 143).
KnownConnectionSpared == \A s \in scripts : s.chat /\ s.force => s.knew = 0
=============================================================================
