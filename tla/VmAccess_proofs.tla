--------------------------- MODULE VmAccess_proofs ---------------------------
(* Forced bootstraps, tickets and executions of VmAccess, for any requests, keys and
   limits. *)
EXTENDS VmAccess, SequenceTheorems, FiniteSetTheorems, TLAPS

PCs == {"idle", "get", "lock", "enter", "poll", "query", "force", "insert", "issue", "touch", "mark"}
\* The empty string, by name: the SMT backend does not take it as it is.
Blank == ""
Requests == [pc : PCs, chat : BOOLEAN, key : Keys \cup {NoKey}, caching : BOOLEAN, force : BOOLEAN, knew : Nat,
             row : Nat, was : Open \cup {Blank}, ticket : Nat, to : Open \cup {"failed", Blank}, polls : Nat]
Rows == [status : Open \cup {"failed", Blank}, ticket : Nat, used : BOOLEAN, attempts : Nat, age : {"hot", "warm", "cold"}]
Procs == [ticket : Nat, admitted : BOOLEAN, st : {"starting", "linked", "cut", "deaf", "dead"}]
Scripts == [ticket : Nat, force : BOOLEAN, knew : Nat, chat : BOOLEAN, by : Slots]

Shape ==
  /\ req \in [Slots -> Requests] /\ scripts \subseteq Scripts
  /\ tickets \in Nat /\ rows \in Seq(Rows)
  /\ procs \in Seq(Procs) /\ conn \in Nat

\* A chat that is about to force a bootstrap has not seen a connection.
Unaware(q) == (q.chat /\ q.force => q.knew = 0) /\ (q.pc = "force" => ~ q.chat)
AllUnaware == \A r \in Slots : Unaware(req[r])

ReqInv == Shape /\ AllUnaware

-----------------------------------------------------------------------------
(* Requests *)

LEMMA IdleRequest == Idle \in Requests /\ Unaware(Idle)
BY DEF Idle, Requests, PCs, Unaware, Blank

LEMMA IdleFields ==
  /\ Idle.pc = "idle" /\ Idle.key = NoKey /\ ~ Idle.caching /\ ~ Idle.chat /\ ~ Idle.force
  /\ Idle.knew = 0 /\ Idle.row = 0 /\ Idle.ticket = 0 /\ Idle.polls = 0
BY DEF Idle

\* Replacing one request by a fitting one keeps them all fitting.
LEMMA Replace ==
  ASSUME ReqInv, NEW r \in Slots, NEW q \in Requests, Unaware(q), req' = [req EXCEPT ![r] = q]
  PROVE  req' \in [Slots -> Requests] /\ AllUnaware'
BY DEF ReqInv, Shape, AllUnaware, Unaware

LEMMA RefuseReq ==
  ASSUME ReqInv, NEW r \in Slots, Refuse(r) \/ Admit(r)
  PROVE  req' \in [Slots -> Requests] /\ AllUnaware'
BY IdleRequest, Replace DEF Refuse, Admit

LEMMA AnswerReq ==
  ASSUME ReqInv, NEW r \in Slots, NEW status, Answer(r, status)
  PROVE  req' \in [Slots -> Requests] /\ AllUnaware'
<1> DEFINE again == [Idle EXCEPT !.pc = "poll", !.chat = TRUE, !.key = req[r].key,
                                 !.caching = req[r].caching, !.polls = req[r].polls]
<1>1. again \in Requests /\ Unaware(again)
  <2>1. req[r] \in Requests
    BY DEF ReqInv, Shape
  <2>2. QED
    BY <2>1, ZenonT(30) DEF Idle, Requests, PCs, Unaware, Blank
<1>2. \/ req' = [req EXCEPT ![r] = Idle] \/ req' = [req EXCEPT ![r] = again]
      \/ Admit(r) \/ Refuse(r)
  BY DEF Answer
<1> HIDE DEF again
<1>3. QED
  BY <1>1, <1>2, IdleRequest, Replace, RefuseReq

\* A request that moves on.
LEMMA GoReq ==
  ASSUME ReqInv, NEW r \in Slots, NEW pc \in PCs, pc # "force", Go(r, pc)
  PROVE  req' \in [Slots -> Requests] /\ AllUnaware'
<1>1. req[r] \in Requests /\ Unaware(req[r])
  BY DEF ReqInv, Shape, AllUnaware
<1>2. [req[r] EXCEPT !.pc = pc] \in Requests /\ Unaware([req[r] EXCEPT !.pc = pc])
  BY <1>1 DEF Requests, PCs, Unaware
<1>3. QED
  BY <1>2, Replace DEF Go

LEMMA MarkReq ==
  ASSUME ReqInv, NEW r \in Slots, NEW i \in Nat, NEW status \in Open \cup {"failed"}, Mark(r, i, status)
  PROVE  req' \in [Slots -> Requests] /\ AllUnaware'
<1> DEFINE q == [req[r] EXCEPT !.row = i, !.to = status, !.pc = "mark"]
<1>1. req[r] \in Requests /\ Unaware(req[r])
  BY DEF ReqInv, Shape, AllUnaware
<1>2. q \in Requests /\ Unaware(q)
  BY <1>1, ZenonT(30) DEF Requests, PCs, Unaware
<1>3. req' = [req EXCEPT ![r] = q]
  BY <1>1 DEF Mark, ReqInv, Shape
<1> HIDE DEF q
<1>4. QED
  BY <1>2, <1>3, Replace

\* A forced bootstrap is one of a request that knows of no connection, or no chat.
LEMMA BootstrapReq ==
  ASSUME ReqInv, NEW r \in Slots, NEW i \in OpenRows, NEW force \in BOOLEAN, Bootstrap(r, i, force),
         force => req[r].knew = 0 \/ ~ req[r].chat
  PROVE  req' \in [Slots -> Requests] /\ AllUnaware'
<1> DEFINE ticket == IF rows[i].used THEN 0 ELSE rows[i].ticket
           pc == IF rows[i].used THEN "issue" ELSE "touch"
           q == [req[r] EXCEPT !.row = i, !.was = rows[i].status, !.force = force, !.ticket = ticket, !.pc = pc]
<1>1. req[r] \in Requests /\ Unaware(req[r])
  BY DEF ReqInv, Shape, AllUnaware
<1>2. i \in Nat /\ rows[i] \in Rows /\ rows[i].status \in Open
  BY DEF ReqInv, Shape, OpenRows
<1>3. ticket \in Nat /\ pc \in {"issue", "touch"}
  BY <1>2 DEF Rows
<1>4. req' = [req EXCEPT ![r] = q]
  BY <1>1 DEF Bootstrap, ReqInv, Shape
<1> HIDE DEF ticket, pc
<1>5. q \in Requests /\ Unaware(q)
  BY <1>1, <1>2, <1>3, ZenonT(30) DEF Requests, PCs, Unaware
<1> HIDE DEF q
<1>6. QED
  BY <1>4, <1>5, Replace

\* Every step of one request keeps them fitting.
LEMMA StepReq ==
  ASSUME ReqInv, NEW r \in Slots, Step(r)
  PROVE  req' \in [Slots -> Requests] /\ AllUnaware'
<1>0. req[r] \in Requests /\ Unaware(req[r]) /\ tickets \in Nat /\ conn \in Nat /\ Len(rows) \in Nat
  BY DEF ReqInv, Shape, AllUnaware
<1>1. CASE Get(r)
  BY <1>1, IdleRequest, Replace, GoReq DEF Get, PCs
<1>2. CASE Lock(r)
  <2> DEFINE q == [req[r] EXCEPT !.pc = "enter", !.caching = TRUE]
  <2>1. q \in Requests /\ Unaware(q)
    BY <1>0 DEF Requests, PCs, Unaware
  <2>2. req' = [req EXCEPT ![r] = q] \/ req' = [req EXCEPT ![r] = Idle]
    BY <1>2 DEF Lock, ReqInv, Shape
  <2> HIDE DEF q
  <2>3. QED
    BY <2>1, <2>2, IdleRequest, Replace
<1>3. CASE Enter(r)
  <2> DEFINE polls == IF req[r].pc = "poll" THEN req[r].polls + 1 ELSE req[r].polls
             q == [req[r] EXCEPT !.pc = "query", !.knew = conn, !.force = FALSE, !.polls = polls]
  <2>0. req[r].polls \in Nat
    BY <1>0 DEF Requests
  <2>1. polls \in Nat
    BY <2>0
  <2>2. req' = [req EXCEPT ![r] = q]
    BY <1>3 DEF Enter, ReqInv, Shape
  <2> HIDE DEF polls
  <2>3. q \in Requests /\ Unaware(q)
    BY <1>0, <2>1 DEF Requests, PCs, Unaware
  <2> HIDE DEF q
  <2>4. QED
    BY <2>2, <2>3, Replace
<1>4. CASE Query(r)
  <2>1. \A i \in OpenRows : i \in Nat
    BY DEF OpenRows, ReqInv, Shape
  <2>2. CASE Go(r, "insert")
    BY <2>2, GoReq DEF PCs
  <2>3. CASE \E i \in OpenRows, status \in {"ready", "failed", "disconnected"} : Mark(r, i, status)
    BY <2>1, <2>3, MarkReq DEF Open
  <2>4. CASE \E status : Answer(r, status)
    BY <2>4, AnswerReq
  <2>5. CASE \E i \in OpenRows : Bootstrap(r, i, FALSE) \/ (~ Ready(r) /\ Bootstrap(r, i, TRUE))
    BY <2>5, BootstrapReq DEF Ready
  <2>6. QED
    BY <1>4, <2>2, <2>3, <2>4, <2>5 DEF Query
<1>5. CASE QueryForced(r)
  <2>1. ~ req[r].chat
    BY <1>0, <1>5 DEF QueryForced, Unaware
  <2>2. QED
    BY <1>5, <2>1, BootstrapReq, GoReq DEF QueryForced, PCs
<1>6. CASE Insert(r)
  <2> DEFINE n == Len(rows) + 1
             q == [req[r] EXCEPT !.pc = "issue", !.row = n, !.was = "starting"]
  <2>0. n \in Nat
    BY <1>0
  <2>2. req' = [req EXCEPT ![r] = q] \/ Refuse(r)
    BY <1>6 DEF Insert, ReqInv, Shape
  <2> HIDE DEF n
  <2>1. q \in Requests /\ Unaware(q)
    BY <1>0, <2>0, ZenonT(30) DEF Requests, PCs, Unaware, Open
  <2> HIDE DEF q
  <2>3. QED
    BY <2>1, <2>2, Replace, RefuseReq
<1>7. CASE Issue(r)
  <2> DEFINE n == tickets + 1
             q == [req[r] EXCEPT !.pc = "touch", !.ticket = n]
  <2>0. n \in Nat
    BY <1>0
  <2>2. req' = [req EXCEPT ![r] = q]
    BY <1>7 DEF Issue, ReqInv, Shape
  <2> HIDE DEF n
  <2>1. q \in Requests /\ Unaware(q)
    BY <1>0, <2>0 DEF Requests, PCs, Unaware
  <2> HIDE DEF q
  <2>3. QED
    BY <2>1, <2>2, Replace
<1>8. CASE Touch(r)
  <2> DEFINE q == [req[r] EXCEPT !.pc = "mark", !.to = "provisioning"]
  <2>1. q \in Requests /\ Unaware(q)
    BY <1>0 DEF Requests, PCs, Unaware, Open
  <2>2. req' = [req EXCEPT ![r] = q]
    BY <1>8 DEF Touch, ReqInv, Shape
  <2> HIDE DEF q
  <2>3. QED
    BY <2>1, <2>2, Replace
<1>9. CASE MarkStatus(r)
  BY <1>9, AnswerReq, RefuseReq DEF MarkStatus
<1>10. QED
  BY <1>1, <1>2, <1>3, <1>4, <1>5, <1>6, <1>7, <1>8, <1>9 DEF Step

\* So does everything else that changes a request.
LEMMA OtherReq ==
  ASSUME ReqInv, NEW r \in Slots,
         Rebootstrap(r) \/ RedisFails(r) \/ SpawnFails(r) \/ \E k \in Keys \cup {NoKey} : Arrive(r, k)
  PROVE  req' \in [Slots -> Requests] /\ AllUnaware'
<1>0. req[r] \in Requests /\ Unaware(req[r])
  BY DEF ReqInv, Shape, AllUnaware
<1>1. CASE Rebootstrap(r)
  <2> DEFINE q == [Idle EXCEPT !.pc = "force", !.force = TRUE]
  <2>1. q \in Requests /\ Unaware(q)
    BY DEF Idle, Requests, PCs, Unaware, Blank
  <2>2. QED
    BY <1>1, <2>1, Replace DEF Rebootstrap
<1>2. CASE RedisFails(r)
  BY <1>2, GoReq DEF RedisFails, PCs
<1>3. CASE SpawnFails(r)
  <2>1. req[r].row \in Nat
    BY <1>0 DEF Requests
  <2>2. QED
    BY <1>3, <2>1, MarkReq, AnswerReq DEF SpawnFails, Open
<1>4. ASSUME NEW k \in Keys \cup {NoKey}, Arrive(r, k)
      PROVE  req' \in [Slots -> Requests] /\ AllUnaware'
  <2> DEFINE pc == IF k = NoKey THEN "enter" ELSE "get"
             q == [Idle EXCEPT !.pc = pc, !.key = k, !.chat = TRUE]
  <2>1. q \in Requests /\ Unaware(q)
    BY DEF Idle, Requests, PCs, Unaware, Blank
  <2>2. req' = [req EXCEPT ![r] = q]
    BY <1>4 DEF Arrive
  <2> HIDE DEF q
  <2>3. QED
    BY <2>1, <2>2, Replace
<1>5. QED
  BY <1>1, <1>2, <1>3, <1>4

-----------------------------------------------------------------------------
(* Rows, scripts and processes *)

LEMMA InitReq == Init => ReqInv
<1> SUFFICES ASSUME Init PROVE ReqInv
  OBVIOUS
<1>1. req \in [Slots -> Requests] /\ AllUnaware
  BY IdleRequest DEF Init, AllUnaware
<1>2. QED
  BY <1>1 DEF Init, ReqInv, Shape, Scripts, Rows, Procs

\* A row that is replaced by a row leaves rows.
LEMMA ReplaceRow ==
  ASSUME rows \in Seq(Rows), NEW i, NEW new, i \in DOMAIN rows => new \in Rows
  PROVE  [rows EXCEPT ![i] = new] \in Seq(Rows)
<1>1. Len(rows) \in Nat /\ rows \in [1..Len(rows) -> Rows]
  BY LenProperties
<1>2. [rows EXCEPT ![i] = new] \in [1..Len(rows) -> Rows]
  BY <1>1
<1>3. QED
  BY <1>1, <1>2, SeqDef

LEMMA RowsReq ==
  ASSUME ReqInv, NEW r \in Slots,
         Step(r) \/ Rebootstrap(r) \/ RedisFails(r) \/ SpawnFails(r) \/ \E k \in Keys \cup {NoKey} : Arrive(r, k)
  PROVE  tickets' \in Nat /\ rows' \in Seq(Rows) /\ procs' = procs /\ conn' = conn
<1>0. /\ tickets \in Nat /\ rows \in Seq(Rows) /\ req \in [Slots -> Requests] /\ tickets + 1 \in Nat
      /\ \A i \in DOMAIN rows : rows[i] \in Rows
  BY LenProperties, ElementOfSeq DEF ReqInv, Shape
<1>1. CASE UNCHANGED <<rows, tickets, procs, conn>>
  BY <1>0, <1>1
<1>2. CASE Insert(r)
  <2> DEFINE row == [status |-> "starting", ticket |-> tickets + 1, used |-> FALSE, attempts |-> 0, age |-> "cold"]
  <2>1. row \in Rows
    BY <1>0 DEF Rows, Open
  <2>2. (rows' = Append(rows, row) /\ tickets' = tickets + 1) \/ (rows' = rows /\ tickets' = tickets)
    BY <1>2 DEF Insert
  <2>3. procs' = procs /\ conn' = conn
    BY <1>2 DEF Insert, plane
  <2> HIDE DEF row
  <2>4. QED
    BY <1>0, <2>1, <2>2, <2>3
<1>3. CASE Issue(r)
  <2> DEFINE n == tickets + 1
             i == req[r].row
  <2>1. procs' = procs /\ conn' = conn /\ tickets' = n /\ n \in Nat
    BY <1>0, <1>3 DEF Issue, plane
  <2>2. rows' = [rows EXCEPT ![i] = [rows[i] EXCEPT !.ticket = n, !.used = FALSE]]
    BY <1>0, <1>3 DEF Issue
  <2> HIDE DEF n, i
  <2>3. rows' \in Seq(Rows)
    <3> DEFINE new == [rows[i] EXCEPT !.ticket = n, !.used = FALSE]
    <3>1. i \in DOMAIN rows => new \in Rows
      BY <1>0, <2>1 DEF Rows
    <3>2. rows' = [rows EXCEPT ![i] = new]
      BY <1>0, <2>2
    <3> HIDE DEF new
    <3>3. QED
      BY <1>0, <3>1, <3>2, ReplaceRow
  <2>4. QED
    BY <2>1, <2>3
<1>4. CASE Touch(r) \/ SpawnFails(r)
  <2> DEFINE i == req[r].row
  <2>1. procs' = procs /\ conn' = conn /\ tickets' = tickets
    BY <1>4 DEF Touch, SpawnFails, plane
  <2>2. rows' = [rows EXCEPT ![i] = Touched(rows[i])]
    BY <1>0, <1>4 DEF Touch, SpawnFails
  <2> HIDE DEF i
  <2>3. rows' \in Seq(Rows)
    <3> DEFINE n == rows[i].attempts + 1
               new == [rows[i] EXCEPT !.attempts = n, !.age = "hot"]
    <3>1. i \in DOMAIN rows => rows[i] \in Rows /\ rows[i].attempts \in Nat
      BY <1>0 DEF Rows
    <3>2. i \in DOMAIN rows => n \in Nat
      BY <3>1
    <3>3. rows' = [rows EXCEPT ![i] = new]
      BY <1>0, <2>2 DEF Touched
    <3> HIDE DEF n
    <3>4. i \in DOMAIN rows => new \in Rows
      BY <3>1, <3>2 DEF Rows
    <3> HIDE DEF new
    <3>5. QED
      BY <1>0, <3>3, <3>4, ReplaceRow
  <2>4. QED
    BY <1>0, <2>1, <2>3
<1>5. CASE MarkStatus(r)
  <2> DEFINE i == req[r].row
             to == req[r].to
  <2>1. procs' = procs /\ conn' = conn /\ tickets' = tickets
    BY <1>5 DEF MarkStatus, plane
  <2>2. rows' = rows \/ (rows' = [rows EXCEPT ![i] = [rows[i] EXCEPT !.status = to]])
    BY <1>5 DEF MarkStatus
  <2>3. to \in Open \cup {"failed", Blank}
    BY <1>0 DEF Requests
  <2> HIDE DEF i, to
  <2>4. rows' \in Seq(Rows)
    <3> DEFINE new == [rows[i] EXCEPT !.status = to]
    <3>1. i \in DOMAIN rows => new \in Rows
      BY <1>0, <2>3 DEF Rows
    <3>2. rows' = rows \/ rows' = [rows EXCEPT ![i] = new]
      BY <1>0, <2>2
    <3> HIDE DEF new
    <3>3. QED
      BY <1>0, <3>1, <3>2, ReplaceRow
  <2>5. QED
    BY <1>0, <2>1, <2>4
<1>6. QED
  BY <1>1, <1>2, <1>3, <1>4, <1>5
     DEF Step, Get, Lock, Enter, Query, QueryForced, Rebootstrap, RedisFails, Arrive, plane

\* The forced script of a chat knew of no connection.
LEMMA ScriptsReq ==
  ASSUME ReqInv, NEW r \in Slots,
         Step(r) \/ Rebootstrap(r) \/ RedisFails(r) \/ SpawnFails(r) \/ \E k \in Keys \cup {NoKey} : Arrive(r, k)
  PROVE  /\ scripts' \subseteq Scripts
         /\ KnownConnectionSpared => KnownConnectionSpared'
<1>0. req[r] \in Requests /\ Unaware(req[r]) /\ scripts \subseteq Scripts
  BY DEF ReqInv, Shape, AllUnaware
<1>1. CASE scripts' = scripts
  BY <1>0, <1>1 DEF KnownConnectionSpared
<1>2. CASE Touch(r)
  <2> DEFINE s == [ticket |-> req[r].ticket, force |-> req[r].force, knew |-> req[r].knew, chat |-> req[r].chat, by |-> r]
  <2>1. scripts' = scripts \cup {s}
    BY <1>2 DEF Touch
  <2>2. s \in Scripts /\ (s.chat /\ s.force => s.knew = 0)
    BY <1>0 DEF Scripts, Requests, Unaware
  <2> HIDE DEF s
  <2>3. QED
    BY <1>0, <2>1, <2>2 DEF KnownConnectionSpared
<1>3. QED
  BY <1>1, <1>2
     DEF Step, Get, Lock, Enter, Query, QueryForced, Insert, Issue, MarkStatus, SpawnFails,
         Rebootstrap, RedisFails, Arrive, plane

\* Every variable that is not of the requests stays in its set when something else happens.
LEMMA Others ==
  ASSUME ReqInv,
         \/ \E k \in Keys : Save(k) \/ SaveFails(k) \/ Expire(k)
         \/ \E s \in scripts : Script(s)
         \/ \E p \in DOMAIN procs : Runtime(p) \/ Break(p)
         \/ \E status \in {"ready", "disconnected"} : Marked(status)
         \/ Elapse \/ Down
  PROVE  ReqInv' /\ scripts' \subseteq scripts
<1>0. /\ req \in [Slots -> Requests] /\ AllUnaware /\ scripts \subseteq Scripts /\ tickets \in Nat /\ conn \in Nat
      /\ rows \in Seq(Rows) /\ Len(rows) \in Nat /\ DOMAIN rows = 1..Len(rows) /\ \A i \in DOMAIN rows : rows[i] \in Rows
      /\ procs \in Seq(Procs) /\ Len(procs) \in Nat /\ DOMAIN procs = 1..Len(procs) /\ \A p \in DOMAIN procs : procs[p] \in Procs
  BY LenProperties, ElementOfSeq DEF ReqInv, Shape
<1>1. (req' = req \/ req' = [r \in Slots |-> Idle]) /\ tickets' = tickets /\ scripts' \subseteq scripts
  BY DEF Save, SaveFails, Expire, Script, Runtime, Consume, Refused, Readmit, Break, Marked, Elapse, Down, web, plane
<1>2. req' \in [Slots -> Requests] /\ AllUnaware'
  BY <1>0, <1>1, IdleRequest DEF AllUnaware
<1>3. conn' \in Nat
  <2>1. ASSUME NEW p \in DOMAIN procs, Runtime(p) \/ Break(p)
        PROVE  conn' \in {conn, p, 0}
    BY <2>1 DEF Runtime, Consume, Refused, Readmit, Break, Linked, Unlinked
  <2>2. (\E s \in scripts : Script(s)) => conn' \in {conn, 0}
    BY DEF Script, Unlinked
  <2>3. Down => conn' = 0
    BY DEF Down
  <2>4. (\E k \in Keys : Save(k) \/ SaveFails(k) \/ Expire(k)) \/ (\E status \in {"ready", "disconnected"} : Marked(status)) \/ Elapse
           => conn' = conn
    BY DEF Save, SaveFails, Expire, Marked, Elapse, plane
  <2>5. QED
    BY <1>0, <2>1, <2>2, <2>3, <2>4
<1>4. rows' \in Seq(Rows)
  <2>1. CASE rows' = rows
    BY <1>0, <2>1
  <2>2. CASE \E p \in DOMAIN procs : Consume(p)
    <3>1. PICK i \in DOMAIN rows : rows' = [rows EXCEPT ![i].used = TRUE]
      BY <2>2 DEF Consume, OpenRows
    <3>2. [rows[i] EXCEPT !.used = TRUE] \in Rows
      BY <1>0, <3>1 DEF Rows
    <3>3. QED
      BY <1>0, <3>1, <3>2, ReplaceRow
  <2>3. CASE Elapse
    <3> DEFINE new(i) == [rows[i] EXCEPT !.age = Older(rows[i].age)]
    <3>1. \A i \in DOMAIN rows : new(i) \in Rows
      BY <1>0 DEF Rows, Older
    <3>2. rows' = [i \in DOMAIN rows |-> new(i)]
      BY <2>3 DEF Elapse
    <3> HIDE DEF new
    <3>3. rows' \in [1..Len(rows) -> Rows]
      BY <1>0, <3>1, <3>2
    <3>4. QED
      BY <1>0, <3>3, SeqDef
  <2>4. ASSUME NEW status \in {"ready", "disconnected"}, Marked(status) PROVE rows' \in Seq(Rows)
    <3> DEFINE new(i) == IF i \in OpenRows THEN [rows[i] EXCEPT !.status = status] ELSE rows[i]
    <3>1. \A i \in DOMAIN rows : new(i) \in Rows
      BY <1>0 DEF Rows, Open
    <3>2. rows' = [i \in DOMAIN rows |-> new(i)]
      BY <2>4 DEF Marked
    <3> HIDE DEF new
    <3>3. rows' \in [1..Len(rows) -> Rows]
      BY <1>0, <3>1, <3>2
    <3>4. QED
      BY <1>0, <3>3, SeqDef
  <2>5. QED
    BY <2>1, <2>2, <2>3, <2>4
       DEF Save, SaveFails, Expire, Script, Runtime, Refused, Readmit, Break, Down, plane
<1>5. procs' \in Seq(Procs)
  <2>1. CASE procs' = procs
    BY <1>0, <2>1
  <2>2. ASSUME NEW p \in DOMAIN procs, NEW st \in {"starting", "linked", "cut", "deaf", "dead"},
               NEW admitted \in BOOLEAN, procs' = [procs EXCEPT ![p].st = st, ![p].admitted = admitted]
        PROVE  procs' \in Seq(Procs)
    <3> DEFINE new == [procs[p] EXCEPT !.st = st, !.admitted = admitted]
    <3>1. new \in Procs
      BY <1>0 DEF Procs
    <3>2. procs' = [procs EXCEPT ![p] = new]
      BY <1>0, <2>2
    <3> HIDE DEF new
    <3>3. procs' \in [1..Len(procs) -> Procs]
      BY <1>0, <3>1, <3>2
    <3>4. QED
      BY <1>0, <3>3, SeqDef
  <2>3. ASSUME NEW p \in DOMAIN procs, NEW st \in {"linked", "cut", "deaf", "dead"}, Moved(p, st)
        PROVE  procs' \in Seq(Procs)
    <3>1. [procs[p] EXCEPT !.st = st] \in Procs
      BY <1>0 DEF Procs
    <3>2. procs' \in [1..Len(procs) -> Procs]
      BY <1>0, <2>3, <3>1 DEF Moved
    <3>3. QED
      BY <1>0, <3>2, SeqDef
  <2>4. CASE \E s \in scripts : Script(s)
    <3> DEFINE killed == [p \in DOMAIN procs |-> [procs[p] EXCEPT !.st = "dead"]]
    <3>1. PICK s \in scripts : Script(s)
      BY <2>4
    <3>2. \A p \in DOMAIN procs : [procs[p] EXCEPT !.st = "dead"] \in Procs
      BY <1>0 DEF Procs
    <3>3. killed \in Seq(Procs)
      BY <1>0, <3>2, SeqDef
    <3>4. [ticket |-> s.ticket, st |-> "starting", admitted |-> FALSE] \in Procs
      BY <1>0, <3>1 DEF Procs, Scripts
    <3>5. procs' = procs \/ procs' = Append(killed, [ticket |-> s.ticket, st |-> "starting", admitted |-> FALSE])
      BY <3>1 DEF Script
    <3> HIDE DEF killed
    <3>6. QED
      BY <1>0, <3>3, <3>4, <3>5
  <2>5. CASE Down
    <3>1. PICK st \in {"starting", "dead"} :
            procs' = [p \in DOMAIN procs |-> [procs[p] EXCEPT !.st = CASE @ = "linked" -> "cut" [] @ = "starting" -> st [] OTHER -> @]]
      BY <2>5 DEF Down
    <3> DEFINE to(p) == CASE procs[p].st = "linked" -> "cut" [] procs[p].st = "starting" -> st [] OTHER -> procs[p].st
    <3>2. \A p \in DOMAIN procs : to(p) \in {"starting", "linked", "cut", "deaf", "dead"}
      BY <1>0, <3>1 DEF Procs
    <3>3. procs' = [p \in DOMAIN procs |-> [procs[p] EXCEPT !.st = to(p)]]
      BY <3>1
    <3> HIDE DEF to
    <3>4. \A p \in DOMAIN procs : [procs[p] EXCEPT !.st = to(p)] \in Procs
      BY <1>0, <3>2 DEF Procs
    <3>5. procs' \in [1..Len(procs) -> Procs]
      BY <1>0, <3>3, <3>4
    <3>6. QED
      BY <1>0, <3>5, SeqDef
  <2>6. CASE \E p \in DOMAIN procs : Consume(p)
    BY <2>2, <2>6 DEF Consume
  <2>7. CASE \E p \in DOMAIN procs : Refused(p) \/ Readmit(p) \/ Break(p)
    BY <2>3, <2>7 DEF Refused, Readmit, Break
  <2>8. QED
    BY <2>1, <2>4, <2>5, <2>6, <2>7 DEF Save, SaveFails, Expire, Runtime, Marked, Elapse, plane
<1>6. QED
  BY <1>0, <1>1, <1>2, <1>3, <1>4, <1>5 DEF ReqInv, Shape

LEMMA StepInv == ReqInv /\ [Next]_vars => ReqInv' /\ (KnownConnectionSpared => KnownConnectionSpared')
<1> SUFFICES ASSUME ReqInv, [Next]_vars PROVE ReqInv' /\ (KnownConnectionSpared => KnownConnectionSpared')
  OBVIOUS
<1>1. CASE UNCHANGED vars
  BY <1>1 DEF vars, ReqInv, Shape, AllUnaware, Unaware, KnownConnectionSpared
<1>2. ASSUME NEW r \in Slots,
             Step(r) \/ Rebootstrap(r) \/ RedisFails(r) \/ SpawnFails(r) \/ \E k \in Keys \cup {NoKey} : Arrive(r, k)
      PROVE  ReqInv' /\ (KnownConnectionSpared => KnownConnectionSpared')
  <2>1. req' \in [Slots -> Requests] /\ AllUnaware'
    BY <1>2, StepReq, OtherReq
  <2>2. tickets' \in Nat /\ rows' \in Seq(Rows) /\ procs' = procs /\ conn' = conn
    BY <1>2, RowsReq
  <2>3. scripts' \subseteq Scripts /\ (KnownConnectionSpared => KnownConnectionSpared')
    BY <1>2, ScriptsReq
  <2>4. QED
    BY <2>1, <2>2, <2>3 DEF ReqInv, Shape
<1>3. CASE \/ \E k \in Keys : Save(k) \/ SaveFails(k) \/ Expire(k)
           \/ \E s \in scripts : Script(s)
           \/ \E p \in DOMAIN procs : Runtime(p) \/ Break(p)
           \/ \E status \in {"ready", "disconnected"} : Marked(status)
           \/ Elapse \/ Down
  BY <1>3, Others DEF KnownConnectionSpared
<1>4. QED
  BY <1>1, <1>2, <1>3 DEF Next

(* The retry of a chat that kills what runs is one that saw no connection
   (vm-scheduler.ts:63, 143), however the rows and connections changed since: what a
   request knew and that it forces travel together from the read to the command. *)
THEOREM Spared == Spec => []KnownConnectionSpared
<1>1. Init => ReqInv /\ KnownConnectionSpared
  BY InitReq DEF Init, KnownConnectionSpared
<1>2. (ReqInv /\ KnownConnectionSpared) /\ [Next]_vars => (ReqInv /\ KnownConnectionSpared)'
  BY StepInv
<1>3. QED
  BY <1>1, <1>2, PTL DEF Spec

-----------------------------------------------------------------------------
(* Tickets *)

\* The tickets of the rows are of those issued and differ, and a ticket that admitted a
\* process is marked as used on the row that still holds it.
RowTickets ==
  /\ \A i \in DOMAIN rows : rows[i].ticket <= tickets
  /\ \A i, j \in DOMAIN rows : rows[i].ticket = rows[j].ticket => i = j
AdmittedTickets ==
  \A p \in DOMAIN procs : procs[p].admitted =>
    /\ procs[p].ticket <= tickets
    /\ \A i \in DOMAIN rows : rows[i].ticket = procs[p].ticket => rows[i].used
TicketInv == RowTickets /\ AdmittedTickets /\ TicketAdmitsOnce

\* The tickets of the rows are as they were.
SameRows ==
  /\ DOMAIN rows' = DOMAIN rows
  /\ \A i \in DOMAIN rows : rows'[i].ticket = rows[i].ticket /\ rows'[i].used = rows[i].used
\* Nobody was admitted.
SameAdmitted ==
  \A p \in DOMAIN procs' : procs'[p].admitted =>
    p \in DOMAIN procs /\ procs[p].admitted /\ procs'[p].ticket = procs[p].ticket

LEMMA Same ==
  ASSUME TicketInv, SameRows, SameAdmitted, tickets' = tickets
  PROVE  TicketInv'
BY DEF TicketInv, RowTickets, AdmittedTickets, TicketAdmitsOnce, SameRows, SameAdmitted

LEMMA Fields ==
  ASSUME ReqInv
  PROVE  /\ tickets \in Nat /\ DOMAIN rows = 1..Len(rows) /\ DOMAIN procs = 1..Len(procs)
         /\ Len(rows) \in Nat /\ Len(procs) \in Nat
         /\ \A i \in DOMAIN rows : rows[i] \in Rows
         /\ \A i \in DOMAIN rows : rows[i].ticket \in Nat
         /\ \A p \in DOMAIN procs : procs[p] \in Procs
         /\ \A p \in DOMAIN procs : procs[p].ticket \in Nat
<1>1. /\ tickets \in Nat /\ rows \in Seq(Rows) /\ procs \in Seq(Procs)
  BY DEF ReqInv, Shape
<1>2. /\ DOMAIN rows = 1..Len(rows) /\ DOMAIN procs = 1..Len(procs)
      /\ Len(rows) \in Nat /\ Len(procs) \in Nat
      /\ \A i \in DOMAIN rows : rows[i] \in Rows
      /\ \A p \in DOMAIN procs : procs[p] \in Procs
  BY <1>1, LenProperties, ElementOfSeq
<1>3. QED
  BY <1>1, <1>2 DEF Rows, Procs

\* What Append adds is last.
LEMMA Appended ==
  ASSUME NEW S, NEW s \in Seq(S), NEW e \in S, NEW t, t = Append(s, e)
  PROVE  /\ Len(s) + 1 \in DOMAIN t /\ t[Len(s) + 1] = e
         /\ \A i \in DOMAIN t : i # Len(s) + 1 => i \in DOMAIN s /\ t[i] = s[i]
<1>1. /\ t \in Seq(S) /\ Len(t) = Len(s) + 1 /\ t[Len(s) + 1] = e
      /\ \A i \in 1..Len(s) : t[i] = s[i]
  BY AppendProperties
<1>2. /\ DOMAIN t = 1..Len(t) /\ DOMAIN s = 1..Len(s) /\ Len(s) \in Nat
  BY <1>1, LenProperties
<1>3. QED
  BY <1>1, <1>2

\* A row gets a ticket that no row and no process has.
LEMMA Fresh ==
  ASSUME ReqInv, TicketInv, procs' = procs, tickets' = tickets + 1,
         NEW i \in DOMAIN rows', rows'[i].ticket = tickets + 1,
         \A j \in DOMAIN rows' : j # i => j \in DOMAIN rows /\ rows'[j] = rows[j]
  PROVE  TicketInv'
<1>0. /\ tickets \in Nat
      /\ \A j \in DOMAIN rows : rows[j].ticket \in Nat /\ rows[j].ticket <= tickets
      /\ \A p \in DOMAIN procs : procs[p].ticket \in Nat
      /\ \A p \in DOMAIN procs : procs[p].admitted => procs[p].ticket <= tickets
  BY Fields DEF TicketInv, RowTickets, AdmittedTickets
<1>1. RowTickets'
  <2>1. \A j \in DOMAIN rows' : j # i => rows'[j].ticket \in Nat /\ rows'[j].ticket <= tickets
    BY <1>0
  <2>2. \A j \in DOMAIN rows' : rows'[j].ticket <= tickets + 1
    BY <1>0, <2>1
  <2>3. \A j, k \in DOMAIN rows' : j # i /\ k # i /\ rows'[j].ticket = rows'[k].ticket => j = k
    BY DEF TicketInv, RowTickets
  <2>4. \A j \in DOMAIN rows' : j # i => rows'[j].ticket # tickets + 1
    BY <1>0, <2>1
  <2>5. QED
    BY <2>2, <2>3, <2>4 DEF RowTickets
<1>2. AdmittedTickets'
  <2>1. \A p \in DOMAIN procs : procs[p].admitted => procs[p].ticket <= tickets + 1 /\ procs[p].ticket # tickets + 1
    BY <1>0
  <2>2. QED
    BY <2>1 DEF TicketInv, AdmittedTickets
<1>3. QED
  BY <1>1, <1>2 DEF TicketInv, TicketAdmitsOnce

\* Admission with a ticket that was not used.
LEMMA ConsumeTickets ==
  ASSUME ReqInv, TicketInv, NEW p \in DOMAIN procs, Consume(p)
  PROVE  TicketInv'
<1>1. PICK i \in DOMAIN rows : rows[i].ticket = procs[p].ticket /\ ~ rows[i].used /\ rows' = [rows EXCEPT ![i].used = TRUE]
  BY DEF Consume, OpenRows
<1>2. /\ DOMAIN rows' = DOMAIN rows /\ rows[i] \in Rows
      /\ rows'[i].ticket = rows[i].ticket /\ rows'[i].used
      /\ \A j \in DOMAIN rows : j # i => rows'[j] = rows[j]
  <2>1. rows[i] \in Rows
    BY <1>1, Fields
  <2>2. rows'[i] = [rows[i] EXCEPT !.used = TRUE] /\ DOMAIN rows' = DOMAIN rows
    BY <1>1
  <2>3. QED
    BY <1>1, <2>1, <2>2 DEF Rows
<1>3. /\ DOMAIN procs' = DOMAIN procs /\ procs[p] \in Procs
      /\ procs'[p].ticket = procs[p].ticket
      /\ \A q \in DOMAIN procs : q # p => procs'[q] = procs[q]
  <2>1. procs[p] \in Procs
    BY Fields
  <2>2. procs' = [procs EXCEPT ![p] = [procs[p] EXCEPT !.st = "linked", !.admitted = TRUE]]
    BY DEF Consume
  <2>3. QED
    BY <2>1, <2>2 DEF Procs
<1>4. tickets' = tickets
  BY DEF Consume
<1>5. RowTickets'
  BY <1>2, <1>4 DEF TicketInv, RowTickets
<1>6. AdmittedTickets'
  BY <1>1, <1>2, <1>3, <1>4 DEF TicketInv, RowTickets, AdmittedTickets
<1>7. \A q \in DOMAIN procs : procs[q].admitted => procs[q].ticket # procs[p].ticket
  BY <1>1 DEF TicketInv, AdmittedTickets
<1>8. TicketAdmitsOnce'
  BY <1>3, <1>7 DEF TicketInv, TicketAdmitsOnce
<1>9. QED
  BY <1>5, <1>6, <1>8 DEF TicketInv

LEMMA RequestTickets ==
  ASSUME ReqInv, TicketInv, NEW r \in Slots,
         Step(r) \/ Rebootstrap(r) \/ RedisFails(r) \/ SpawnFails(r) \/ \E k \in Keys \cup {NoKey} : Arrive(r, k)
  PROVE  TicketInv'
<1>0. /\ tickets \in Nat /\ tickets + 1 \in Nat /\ rows \in Seq(Rows) /\ Len(rows) \in Nat /\ DOMAIN rows = 1..Len(rows)
      /\ procs' = procs
      /\ \A i \in DOMAIN rows : rows[i] \in Rows
  BY LenProperties, ElementOfSeq, RowsReq DEF ReqInv, Shape
<1>1. SameAdmitted
  BY <1>0 DEF SameAdmitted
<1>2. CASE UNCHANGED <<rows, tickets>>
  BY <1>1, <1>2, Same DEF SameRows
<1>3. CASE Insert(r)
  <2> DEFINE row == [status |-> "starting", ticket |-> tickets + 1, used |-> FALSE, attempts |-> 0, age |-> "cold"]
  <2>1. CASE rows' = Append(rows, row) /\ tickets' = tickets + 1
    <3>1. row.ticket = tickets + 1
      OBVIOUS
    <3>2. row \in Rows
      BY <1>0 DEF Rows, Open
    <3> HIDE DEF row
    <3>3. Len(rows) + 1 \in DOMAIN rows' /\ rows'[Len(rows) + 1] = row
      BY <1>0, <2>1, <3>2, Appended
    <3>4. \A j \in DOMAIN rows' : j # Len(rows) + 1 => j \in DOMAIN rows /\ rows'[j] = rows[j]
      BY <1>0, <2>1, <3>2, Appended
    <3>5. QED
      BY <1>0, <2>1, <3>1, <3>3, <3>4, Fresh
  <2>2. CASE UNCHANGED <<rows, tickets>>
    BY <1>1, <2>2, Same DEF SameRows
  <2>3. QED
    BY <1>3, <2>1, <2>2 DEF Insert
<1>4. CASE Issue(r)
  <2> DEFINE i == req[r].row
             new == [rows[i] EXCEPT !.ticket = tickets + 1, !.used = FALSE]
  <2>1. rows' = [rows EXCEPT ![i] = new] /\ tickets' = tickets + 1
    BY <1>4 DEF Issue
  <2>2. CASE i \in DOMAIN rows
    <3>1. new.ticket = tickets + 1
      BY <1>0, <2>2 DEF Rows
    <3> HIDE DEF new
    <3>2. i \in DOMAIN rows' /\ rows'[i] = new
      BY <1>0, <2>1, <2>2
    <3>3. \A j \in DOMAIN rows' : j # i => j \in DOMAIN rows /\ rows'[j] = rows[j]
      BY <1>0, <2>1
    <3> HIDE DEF i
    <3>4. QED
      BY <1>0, <2>1, <3>1, <3>2, <3>3, Fresh
  <2>3. CASE i \notin DOMAIN rows
    <3> HIDE DEF new, i
    <3>1. rows' = rows
      BY <1>0, <2>1, <2>3
    <3>2. QED
      <4>1. RowTickets'
        BY <2>1, <3>1, Fields DEF TicketInv, RowTickets
      <4>2. AdmittedTickets'
        BY <1>0, <2>1, <3>1, Fields DEF TicketInv, AdmittedTickets
      <4>3. QED
        BY <1>0, <4>1, <4>2 DEF TicketInv, TicketAdmitsOnce
  <2>4. QED
    BY <2>2, <2>3
<1>5. CASE Touch(r) \/ SpawnFails(r)
  <2> DEFINE i == req[r].row
  <2>1. rows' = [rows EXCEPT ![i] = Touched(rows[i])] /\ tickets' = tickets
    BY <1>5 DEF Touch, SpawnFails
  <2>2. i \in DOMAIN rows => Touched(rows[i]).ticket = rows[i].ticket /\ Touched(rows[i]).used = rows[i].used
    BY <1>0 DEF Touched, Rows
  <2> HIDE DEF i
  <2>3. SameRows
    BY <1>0, <2>1, <2>2 DEF SameRows
  <2>4. QED
    BY <1>1, <2>1, <2>3, Same
<1>6. CASE MarkStatus(r)
  <2> DEFINE i == req[r].row
             new == [rows[i] EXCEPT !.status = req[r].to]
  <2>1. (rows' = rows \/ rows' = [rows EXCEPT ![i] = new]) /\ tickets' = tickets
    BY <1>6 DEF MarkStatus
  <2>2. i \in DOMAIN rows => new.ticket = rows[i].ticket /\ new.used = rows[i].used
    BY <1>0 DEF Rows
  <2> HIDE DEF i, new
  <2>3. SameRows
    BY <1>0, <2>1, <2>2 DEF SameRows
  <2>4. QED
    BY <1>1, <2>1, <2>3, Same
<1>7. QED
  BY <1>2, <1>3, <1>4, <1>5, <1>6
     DEF Step, Get, Lock, Enter, Query, QueryForced, Rebootstrap, RedisFails, Arrive

LEMMA OtherTickets ==
  ASSUME ReqInv, TicketInv,
         \/ \E k \in Keys : Save(k) \/ SaveFails(k) \/ Expire(k)
         \/ \E s \in scripts : Script(s)
         \/ \E p \in DOMAIN procs : Runtime(p) \/ Break(p)
         \/ \E status \in {"ready", "disconnected"} : Marked(status)
         \/ Elapse \/ Down
  PROVE  TicketInv'
<1>0. /\ rows \in Seq(Rows) /\ \A i \in DOMAIN rows : rows[i] \in Rows
      /\ procs \in Seq(Procs) /\ Len(procs) \in Nat /\ DOMAIN procs = 1..Len(procs) /\ \A p \in DOMAIN procs : procs[p] \in Procs
  BY LenProperties, ElementOfSeq DEF ReqInv, Shape
<1>1. CASE \E p \in DOMAIN procs : Consume(p)
  BY <1>1, ConsumeTickets
<1>2. CASE \E k \in Keys : Save(k) \/ SaveFails(k) \/ Expire(k)
  <2>1. rows' = rows /\ tickets' = tickets /\ procs' = procs
    BY <1>2 DEF Save, SaveFails, Expire, plane
  <2>2. QED
    BY <2>1, Same DEF SameRows, SameAdmitted
<1>3. CASE Elapse
  <2>1. tickets' = tickets /\ procs' = procs
    BY <1>3 DEF Elapse, plane
  <2>2. rows' = [i \in DOMAIN rows |-> [rows[i] EXCEPT !.age = Older(rows[i].age)]]
    BY <1>3 DEF Elapse
  <2>3. SameRows
    BY <1>0, <2>2 DEF SameRows, Rows
  <2>4. QED
    BY <2>1, <2>3, Same DEF SameAdmitted
<1>4. ASSUME NEW status \in {"ready", "disconnected"}, Marked(status) PROVE TicketInv'
  <2>1. tickets' = tickets /\ procs' = procs
    BY <1>4 DEF Marked
  <2>2. rows' = [i \in DOMAIN rows |-> IF i \in OpenRows THEN [rows[i] EXCEPT !.status = status] ELSE rows[i]]
    BY <1>4 DEF Marked
  <2>3. SameRows
    BY <1>0, <2>2 DEF SameRows, Rows
  <2>4. QED
    BY <2>1, <2>3, Same DEF SameAdmitted
<1>5. ASSUME NEW p \in DOMAIN procs, NEW st, Moved(p, st), rows' = rows, tickets' = tickets
      PROVE  TicketInv'
  <2>1. SameAdmitted
    BY <1>0, <1>5 DEF Moved, SameAdmitted, Procs
  <2>2. QED
    BY <1>5, <2>1, Same DEF SameRows
<1>6. CASE \E p \in DOMAIN procs : Refused(p) \/ Readmit(p) \/ Break(p)
  BY <1>5, <1>6 DEF Refused, Readmit, Break
<1>7. CASE \E s \in scripts : Script(s)
  <2> DEFINE killed == [p \in DOMAIN procs |-> [procs[p] EXCEPT !.st = "dead"]]
  <2>1. PICK s \in scripts : Script(s)
    BY <1>7
  <2>2. rows' = rows /\ tickets' = tickets
    BY <2>1 DEF Script
  <2>3. CASE procs' = procs
    BY <2>2, <2>3, Same DEF SameRows, SameAdmitted
  <2>4. CASE procs' = Append(killed, [ticket |-> s.ticket, st |-> "starting", admitted |-> FALSE])
    <3>1. /\ DOMAIN killed = 1..Len(procs)
          /\ \A p \in DOMAIN procs : killed[p] \in Procs /\ killed[p].admitted = procs[p].admitted /\ killed[p].ticket = procs[p].ticket
      BY <1>0 DEF Procs
    <3>2. killed \in [1..Len(procs) -> Procs]
      BY <1>0, <3>1
    <3> HIDE DEF killed
    <3>3. killed \in Seq(Procs) /\ Len(killed) = Len(procs)
      BY <1>0, <3>2, SeqDef, LenProperties
    <3>4. /\ procs'[Len(procs) + 1].admitted = FALSE
          /\ \A p \in DOMAIN procs' : p # Len(procs) + 1 => p \in DOMAIN killed /\ procs'[p] = killed[p]
      <4>1. [ticket |-> s.ticket, st |-> "starting", admitted |-> FALSE] \in Procs
        BY <2>1 DEF ReqInv, Shape, Scripts, Procs
      <4>2. QED
        BY <2>4, <3>3, <4>1, Appended
    <3>5. SameAdmitted
      BY <1>0, <3>1, <3>4 DEF SameAdmitted
    <3>6. QED
      BY <2>2, <3>5, Same DEF SameRows
  <2>5. QED
    BY <2>1, <2>3, <2>4 DEF Script
<1>8. CASE Down
  <2>1. PICK st \in {"starting", "dead"} :
          procs' = [p \in DOMAIN procs |-> [procs[p] EXCEPT !.st = CASE @ = "linked" -> "cut" [] @ = "starting" -> st [] OTHER -> @]]
    BY <1>8 DEF Down
  <2> DEFINE to(p) == CASE procs[p].st = "linked" -> "cut" [] procs[p].st = "starting" -> st [] OTHER -> procs[p].st
  <2>2. procs' = [p \in DOMAIN procs |-> [procs[p] EXCEPT !.st = to(p)]]
    BY <2>1
  <2> HIDE DEF to
  <2>3. SameAdmitted
    BY <1>0, <2>2 DEF SameAdmitted, Procs
  <2>4. rows' = rows /\ tickets' = tickets
    BY <1>8 DEF Down
  <2>5. QED
    BY <2>3, <2>4, Same DEF SameRows
<1>9. QED
  BY <1>1, <1>2, <1>3, <1>4, <1>6, <1>7, <1>8 DEF Runtime

(* One connection is made with a ticket (vm-scheduler.ts:295, ws-server.ts:454): what a
   ticket admits, its row remembers as used, and no later ticket equals it. *)
THEOREM AdmitsOnce == Spec => []TicketAdmitsOnce
<1>1. Init => ReqInv /\ TicketInv
  <2>1. Init => TicketInv
    BY DEF Init, TicketInv, RowTickets, AdmittedTickets, TicketAdmitsOnce
  <2>2. QED
    BY <2>1, InitReq
<1>2. (ReqInv /\ TicketInv) /\ [Next]_vars => (ReqInv /\ TicketInv)'
  <2> SUFFICES ASSUME ReqInv, TicketInv, [Next]_vars PROVE TicketInv'
    BY StepInv
  <2>1. CASE UNCHANGED vars
    BY <2>1, Same DEF vars, SameRows, SameAdmitted
  <2>2. CASE Next
    BY <2>2, RequestTickets, OtherTickets DEF Next
  <2>3. QED
    BY <2>1, <2>2
<1>3. TicketInv => TicketAdmitsOnce
  BY DEF TicketInv
<1>4. QED
  BY <1>1, <1>2, <1>3, PTL DEF Spec
-----------------------------------------------------------------------------
(* Executions.  A key that is free to be locked, a request past its lock and an *)
(* execution are each one use of the key; only the end of an entry and a        *)
(* failure of Redis make a further one.                                         *)

Passed == PCs \ {"idle", "get", "lock"}
Doing(k) == {r \in Slots : req[r].key = k /\ req[r].pc \in Passed}
Load(k) == executed[k] + Cardinality(Doing(k))
Free(k) == IF cache[k] = "none" THEN 1 ELSE 0
Allowed == 1 + count.expiries + count.faults
Once(k) == Load(k) + Free(k) <= Allowed
Counts == [requests : Nat, forces : Nat, expiries : Nat, faults : Nat, downs : Nat]
Counted == count \in Counts /\ executed \in [Keys -> Nat] /\ DOMAIN cache = Keys
OnceInv == ReqInv /\ Counted /\ \A k \in Keys : Once(k)

LEMMA DoingFinite == \A k : IsFiniteSet(Doing(k)) /\ Cardinality(Doing(k)) \in Nat
BY AccessAssumption, FS_Subset, FS_CardinalityType DEF Doing

LEMMA DoingFiniteLater == \A k : IsFiniteSet(Doing(k)') /\ Cardinality(Doing(k)') \in Nat
BY AccessAssumption, FS_Subset, FS_CardinalityType DEF Doing

\* What happens counts.
LEMMA HappensCounts ==
  ASSUME Counted, NEW what \in {"forces", "expiries", "faults", "downs"}, Happens(what)
  PROVE  /\ count' \in Counts /\ Allowed \in Nat
         /\ what = "faults" \/ what = "expiries" => Allowed' = Allowed + 1
         /\ what # "faults" /\ what # "expiries" => Allowed' = Allowed
BY DEF Happens, Counted, Counts, Allowed

\* A step under key k that makes no further use of it.
LEMMA NoFurther ==
  ASSUME OnceInv, Counted', NEW k \in Keys, Load(k)' <= Load(k), Free(k)' <= Free(k), Allowed <= Allowed'
  PROVE  Once(k)'
<1>1. Load(k) \in Nat /\ Load(k)' \in Nat
  BY DoingFinite, DoingFiniteLater DEF OnceInv, Counted, Load
<1>2. Free(k) \in {0, 1} /\ Free(k)' \in {0, 1}
  BY DEF Free
<1>3. Allowed \in Nat /\ Allowed' \in Nat
  BY DEF OnceInv, Counted, Counts, Allowed
<1>4. Load(k) + Free(k) <= Allowed
  BY DEF OnceInv, Once
<1> HIDE DEF Load, Free, Allowed
<1>5. QED
  BY <1>1, <1>2, <1>3, <1>4 DEF Once

\* How the requests past the lock move the load.
LEMMA SameLoad ==
  ASSUME NEW k, executed'[k] = executed[k], executed[k] \in Nat, Doing(k)' \subseteq Doing(k)
  PROVE  Load(k)' <= Load(k)
<1>1. Cardinality(Doing(k)') <= Cardinality(Doing(k))
  BY DoingFinite, FS_Subset
<1>2. Cardinality(Doing(k)') \in Nat /\ Cardinality(Doing(k)) \in Nat
  BY DoingFinite, DoingFiniteLater
<1>3. QED
  BY <1>1, <1>2 DEF Load

LEMMA MoreLoad ==
  ASSUME NEW k, NEW r \in Slots, executed'[k] = executed[k], executed[k] \in Nat, Doing(k)' \subseteq Doing(k) \cup {r}
  PROVE  Load(k)' <= Load(k) + 1
<1>0. IsFiniteSet(Doing(k)) /\ Cardinality(Doing(k)) \in Nat
  BY DoingFinite
<1>1. IsFiniteSet(Doing(k) \cup {r}) /\ Cardinality(Doing(k) \cup {r}) <= Cardinality(Doing(k)) + 1
  <2>1. /\ IsFiniteSet(Doing(k) \cup {r})
        /\ Cardinality(Doing(k) \cup {r}) = IF r \in Doing(k) THEN Cardinality(Doing(k)) ELSE Cardinality(Doing(k)) + 1
    BY <1>0, FS_AddElement
  <2>2. QED
    BY <1>0, <2>1
<1>2. Cardinality(Doing(k)') <= Cardinality(Doing(k) \cup {r})
  BY <1>1, FS_Subset
<1>3. Cardinality(Doing(k)') \in Nat /\ Cardinality(Doing(k)) \in Nat /\ Cardinality(Doing(k) \cup {r}) \in Nat
  BY <1>1, DoingFinite, DoingFiniteLater, FS_CardinalityType
<1>4. QED
  BY <1>1, <1>2, <1>3 DEF Load

LEMMA SpentLoad ==
  ASSUME NEW k, NEW r \in Doing(k), executed'[k] = executed[k] + 1, executed[k] \in Nat, Doing(k)' \subseteq Doing(k) \ {r}
  PROVE  Load(k)' <= Load(k)
<1>1. IsFiniteSet(Doing(k) \ {r}) /\ Cardinality(Doing(k) \ {r}) = Cardinality(Doing(k)) - 1
  BY DoingFinite, FS_RemoveElement
<1>2. Cardinality(Doing(k)') <= Cardinality(Doing(k) \ {r})
  BY <1>1, FS_Subset
<1>3. Cardinality(Doing(k)') \in Nat /\ Cardinality(Doing(k)) \in Nat
  BY DoingFinite, DoingFiniteLater
<1>4. QED
  BY <1>1, <1>2, <1>3 DEF Load

-----------------------------------------------------------------------------
(* Each step against the load of a key *)

\* A request that is replaced, and is past the lock only if it was so under its key.
Kept(r) ==
  /\ executed' = executed
  /\ \E q : /\ req' = [req EXCEPT ![r] = q]
            /\ q.key \in Keys /\ q.pc \in Passed => q.key = req[r].key /\ req[r].pc \in Passed

\* A request past the lock that ends in an execution.
Spent(r) == req[r].pc \in Passed /\ Admit(r)

LEMMA KeptLoad ==
  ASSUME ReqInv, Counted, NEW k \in Keys, NEW r \in Slots, Kept(r) \/ Spent(r)
  PROVE  Load(k)' <= Load(k)
<1>0. executed[k] \in Nat /\ executed \in [Keys -> Nat] /\ DOMAIN req = Slots
  BY DEF Counted, ReqInv, Shape
<1>1. CASE Kept(r)
  <2>1. PICK q : /\ req' = [req EXCEPT ![r] = q]
                 /\ q.key \in Keys /\ q.pc \in Passed => q.key = req[r].key /\ req[r].pc \in Passed
    BY <1>1 DEF Kept
  <2>2. Doing(k)' \subseteq Doing(k)
    BY <1>0, <2>1 DEF Doing
  <2>3. QED
    BY <1>0, <1>1, <2>2, SameLoad DEF Kept
<1>2. CASE Spent(r)
  <2>1. req' = [req EXCEPT ![r] = Idle] /\ req[r].pc \in Passed
    BY <1>2 DEF Spent, Admit
  <2>2. Idle.pc \notin Passed
    BY DEF Idle, Passed
  <2>3. Doing(k)' \subseteq Doing(k) \ {r}
    BY <1>0, <2>1, <2>2 DEF Doing
  <2>4. executed'[k] = IF k = req[r].key THEN executed[k] + 1 ELSE executed[k]
    BY <1>2 DEF Spent, Admit
  <2>5. CASE k = req[r].key
    <3>1. r \in Doing(k)
      BY <2>1, <2>5 DEF Doing
    <3>2. QED
      BY <1>0, <2>3, <2>4, <2>5, <3>1, SpentLoad
  <2>6. CASE k # req[r].key
    BY <1>0, <2>3, <2>4, <2>6, SameLoad
  <2>7. QED
    BY <2>5, <2>6
<1>3. QED
  BY <1>1, <1>2

LEMMA KeptBy ==
  ASSUME NEW r, NEW q, req' = [req EXCEPT ![r] = q], executed' = executed,
         q.key \in Keys /\ q.pc \in Passed => q.key = req[r].key /\ req[r].pc \in Passed
  PROVE  Kept(r)
BY DEF Kept

LEMMA IdleKept ==
  ASSUME NEW r, req' = [req EXCEPT ![r] = Idle], executed' = executed
  PROVE  Kept(r)
<1>1. Idle.pc \notin Passed
  BY DEF Idle, Passed
<1>2. QED
  BY <1>1, KeptBy

LEMMA AnswerKept ==
  ASSUME ReqInv, NEW r \in Slots, req[r].pc \in Passed, NEW status, Answer(r, status)
  PROVE  cache' = cache /\ (Kept(r) \/ Spent(r))
<1> DEFINE again == [Idle EXCEPT !.pc = "poll", !.chat = TRUE, !.key = req[r].key,
                                 !.caching = req[r].caching, !.polls = req[r].polls]
<1>1. again.key = req[r].key
  BY DEF Idle
<1>2. \/ req' = [req EXCEPT ![r] = Idle] /\ executed' = executed
      \/ req' = [req EXCEPT ![r] = again] /\ executed' = executed
      \/ Admit(r) \/ Refuse(r)
  BY DEF Answer
<1>3. cache' = cache
  BY DEF Answer
<1> HIDE DEF again
<1>4. CASE req' = [req EXCEPT ![r] = Idle] /\ executed' = executed
  BY <1>3, <1>4, IdleKept
<1>5. CASE req' = [req EXCEPT ![r] = again] /\ executed' = executed
  BY <1>1, <1>3, <1>5, KeptBy
<1>6. CASE Refuse(r)
  BY <1>3, <1>6, IdleKept DEF Refuse
<1>7. QED
  BY <1>2, <1>3, <1>4, <1>5, <1>6 DEF Spent

\* The steps of a request after its lock neither free a key nor use it further.
LEMMA StepKept ==
  ASSUME ReqInv, NEW r \in Slots, Step(r) \/ Rebootstrap(r) \/ SpawnFails(r), ~ Get(r), ~ Lock(r)
  PROVE  cache' = cache /\ (Kept(r) \/ Spent(r))
<1>0. req[r] \in Requests
  BY DEF ReqInv, Shape
<1>1. CASE Enter(r)
  <2> DEFINE polls == IF req[r].pc = "poll" THEN req[r].polls + 1 ELSE req[r].polls
             q == [req[r] EXCEPT !.pc = "query", !.knew = conn, !.force = FALSE, !.polls = polls]
  <2>1. req' = [req EXCEPT ![r] = q] /\ executed' = executed /\ cache' = cache /\ req[r].pc \in Passed
    BY <1>1 DEF Enter, ReqInv, Shape, Passed, PCs, web
  <2>2. q.key = req[r].key
    BY <1>0 DEF Requests
  <2> HIDE DEF q
  <2>3. QED
    BY <2>1, <2>2, KeptBy
<1>2. ASSUME req[r].pc \in Passed, NEW pc, Go(r, pc), executed' = executed PROVE Kept(r)
  <2>1. [req[r] EXCEPT !.pc = pc].key = req[r].key
    BY <1>0 DEF Requests
  <2>2. QED
    BY <1>2, <2>1, KeptBy DEF Go
<1>3. ASSUME req[r].pc \in Passed, NEW i, NEW status, Mark(r, i, status), executed' = executed PROVE Kept(r)
  <2> DEFINE q == [req[r] EXCEPT !.row = i, !.to = status, !.pc = "mark"]
  <2>1. req' = [req EXCEPT ![r] = q]
    BY <1>3 DEF Mark, ReqInv, Shape
  <2>2. q.key = req[r].key
    BY <1>0 DEF Requests
  <2> HIDE DEF q
  <2>3. QED
    BY <1>3, <2>1, <2>2, KeptBy
<1>4. ASSUME req[r].pc \in Passed, NEW i, NEW force, Bootstrap(r, i, force), executed' = executed PROVE Kept(r)
  <2> DEFINE ticket == IF rows[i].used THEN 0 ELSE rows[i].ticket
             pc == IF rows[i].used THEN "issue" ELSE "touch"
             q == [req[r] EXCEPT !.row = i, !.was = rows[i].status, !.force = force, !.ticket = ticket, !.pc = pc]
  <2>1. req' = [req EXCEPT ![r] = q]
    BY <1>4 DEF Bootstrap, ReqInv, Shape
  <2> HIDE DEF ticket, pc
  <2>2. q.key = req[r].key
    BY <1>0 DEF Requests
  <2> HIDE DEF q
  <2>3. QED
    BY <1>4, <2>1, <2>2, KeptBy
<1>5. CASE Query(r)
  <2>1. req[r].pc \in Passed
    BY <1>5 DEF Query, Passed, PCs
  <2>2. \/ UNCHANGED web /\ \E pc : Go(r, pc)
        \/ UNCHANGED web /\ \E i, status : Mark(r, i, status)
        \/ UNCHANGED web /\ \E i, force : Bootstrap(r, i, force)
        \/ \E status : Answer(r, status)
    BY <1>5 DEF Query
  <2>3. QED
    BY <1>2, <1>3, <1>4, <2>1, <2>2, AnswerKept DEF web
<1>6. CASE QueryForced(r)
  <2>1. req[r].pc \in Passed /\ UNCHANGED web
    BY <1>6 DEF QueryForced, Passed, PCs
  <2>2. Go(r, "insert") \/ \E i, force : Bootstrap(r, i, force)
    BY <1>6 DEF QueryForced
  <2>3. QED
    BY <1>2, <1>4, <2>1, <2>2 DEF web
<1>7. CASE Insert(r)
  <2>1. req[r].pc \in Passed /\ cache' = cache
    BY <1>7 DEF Insert, Passed, PCs
  <2> DEFINE n == Len(rows) + 1
             q == [req[r] EXCEPT !.pc = "issue", !.row = n, !.was = "starting"]
  <2>2. (req' = [req EXCEPT ![r] = q] /\ executed' = executed) \/ Refuse(r)
    BY <1>7 DEF Insert, ReqInv, Shape
  <2> HIDE DEF n
  <2>3. q.key = req[r].key
    BY <1>0 DEF Requests
  <2> HIDE DEF q
  <2>4. CASE Refuse(r)
    BY <2>1, <2>4, IdleKept DEF Refuse
  <2>5. QED
    BY <2>1, <2>2, <2>3, <2>4, KeptBy
<1>8. CASE Issue(r)
  <2> DEFINE n == tickets + 1
             q == [req[r] EXCEPT !.pc = "touch", !.ticket = n]
  <2>1. req' = [req EXCEPT ![r] = q] /\ executed' = executed /\ cache' = cache /\ req[r].pc \in Passed
    BY <1>8 DEF Issue, ReqInv, Shape, Passed, PCs, web
  <2> HIDE DEF n
  <2>2. q.key = req[r].key
    BY <1>0 DEF Requests
  <2> HIDE DEF q
  <2>3. QED
    BY <2>1, <2>2, KeptBy
<1>9. CASE Touch(r)
  <2> DEFINE q == [req[r] EXCEPT !.pc = "mark", !.to = "provisioning"]
  <2>1. req' = [req EXCEPT ![r] = q] /\ executed' = executed /\ cache' = cache /\ req[r].pc \in Passed
    BY <1>9 DEF Touch, ReqInv, Shape, Passed, PCs, web
  <2>2. q.key = req[r].key
    BY <1>0 DEF Requests
  <2> HIDE DEF q
  <2>3. QED
    BY <2>1, <2>2, KeptBy
<1>10. CASE MarkStatus(r)
  <2>1. req[r].pc \in Passed
    BY <1>10 DEF MarkStatus, Passed, PCs
  <2>2. (Refuse(r) /\ cache' = cache) \/ \E status : Answer(r, status)
    BY <1>10 DEF MarkStatus
  <2>3. QED
    BY <2>1, <2>2, AnswerKept, IdleKept DEF Refuse
<1>11. CASE Rebootstrap(r)
  <2> DEFINE q == [Idle EXCEPT !.pc = "force", !.force = TRUE]
  <2>1. q.key \notin Keys
    BY AccessAssumption DEF Idle
  <2>2. req' = [req EXCEPT ![r] = q] /\ executed' = executed /\ cache' = cache
    BY <1>11 DEF Rebootstrap, web
  <2> HIDE DEF q
  <2>3. QED
    BY <2>1, <2>2, KeptBy
<1>12. CASE SpawnFails(r)
  <2>1. req[r].pc \in Passed
    BY <1>12 DEF SpawnFails, Passed, PCs
  <2>2. \/ UNCHANGED web /\ \E i, status : Mark(r, i, status)
        \/ \E status : Answer(r, status)
    BY <1>12 DEF SpawnFails
  <2>3. QED
    BY <1>3, <2>1, <2>2, AnswerKept DEF web
<1>13. QED
  BY <1>1, <1>5, <1>6, <1>7, <1>8, <1>9, <1>10, <1>11, <1>12 DEF Step

LEMMA OneRequestOnce ==
  ASSUME OnceInv, NEW r \in Slots, Step(r) \/ Rebootstrap(r) \/ RedisFails(r) \/ SpawnFails(r), Counted'
  PROVE  \A k \in Keys : Once(k)'
<1> SUFFICES ASSUME NEW k \in Keys PROVE Once(k)'
  OBVIOUS
<1>0. /\ req[r] \in Requests /\ req \in [Slots -> Requests] /\ executed \in [Keys -> Nat] /\ executed[k] \in Nat
      /\ Load(k) \in Nat /\ Load(k)' \in Nat /\ Allowed \in Nat /\ Allowed' \in Nat
      /\ Load(k) + Free(k) <= Allowed
  <2>1. req[r] \in Requests /\ req \in [Slots -> Requests]
    BY DEF OnceInv, ReqInv, Shape
  <2>2. executed \in [Keys -> Nat] /\ executed[k] \in Nat /\ executed'[k] \in Nat
    BY DEF OnceInv, Counted
  <2>3. Load(k) \in Nat /\ Load(k)' \in Nat
    BY <2>2, DoingFinite, DoingFiniteLater DEF Load
  <2>4. Allowed \in Nat /\ Allowed' \in Nat
    BY DEF OnceInv, Counted, Counts, Allowed
  <2>5. Load(k) + Free(k) <= Allowed
    BY DEF OnceInv, Once
  <2>6. QED
    BY <2>1, <2>2, <2>3, <2>4, <2>5
<1>1. Allowed <= Allowed' /\ (RedisFails(r) => Allowed' = Allowed + 1)
  <2>1. CASE Step(r)
    <3>1. count' = count
      BY <2>1 DEF Step, Get, Lock, Enter, Query, QueryForced, Insert, Issue, Touch, MarkStatus
    <3>2. ~ RedisFails(r)
      BY <3>1 DEF RedisFails, Happens, OnceInv, Counted, Counts
    <3>3. QED
      BY <1>0, <3>1, <3>2 DEF Allowed
  <2>2. CASE Rebootstrap(r)
    <3>1. Counted /\ Happens("forces")
      BY <2>2 DEF Rebootstrap, OnceInv
    <3>2. Allowed' = Allowed
      BY <3>1, HappensCounts
    <3>3. ~ RedisFails(r)
      BY <2>2 DEF RedisFails, Rebootstrap
    <3>4. QED
      BY <1>0, <3>2, <3>3
  <2>3. CASE RedisFails(r) \/ SpawnFails(r)
    <3>1. Counted /\ Happens("faults")
      BY <2>3 DEF RedisFails, SpawnFails, OnceInv
    <3>2. Allowed' = Allowed + 1
      BY <3>1, HappensCounts
    <3>3. QED
      BY <1>0, <3>2
  <2>4. QED
    BY <2>1, <2>2, <2>3
<1>2. ASSUME NEW pc, req' = [req EXCEPT ![r] = [req[r] EXCEPT !.pc = pc]] PROVE Doing(k)' \subseteq Doing(k) \cup {r}
  BY <1>0, <1>2 DEF Doing
<1>3. CASE Get(r)
  <2>1. CASE Go(r, "lock")
    <3>1. Kept(r)
      <4> DEFINE q == [req[r] EXCEPT !.pc = "lock"]
      <4>1. q.pc \notin Passed
        BY <1>0 DEF Requests, Passed
      <4>2. req' = [req EXCEPT ![r] = q] /\ executed' = executed
        BY <1>0, <1>3, <2>1 DEF Go, Get, web
      <4> HIDE DEF q
      <4>3. QED
        BY <4>1, <4>2, KeptBy
    <3>2. Free(k)' = Free(k)
      BY <1>3 DEF Get, web, Free
    <3>3. QED
      BY <1>1, <3>1, <3>2, KeptLoad, NoFurther DEF OnceInv, Free
  <2>2. CASE req' = [req EXCEPT ![r] = Idle]
    <3>1. Kept(r) /\ Free(k)' = Free(k)
      BY <1>3, <2>2, IdleKept DEF Get, web, Free
    <3>2. QED
      BY <1>1, <3>1, KeptLoad, NoFurther DEF OnceInv, Free
  <2>3. QED
    BY <1>3, <2>1, <2>2 DEF Get
<1>4. CASE Lock(r)
  <2> DEFINE q == [req[r] EXCEPT !.pc = "enter", !.caching = TRUE]
  <2>1. CASE req' = [req EXCEPT ![r] = Idle] /\ UNCHANGED cache
    <3>1. Kept(r) /\ Free(k)' = Free(k)
      BY <1>4, <2>1, IdleKept DEF Lock, Free
    <3>2. QED
      BY <1>1, <3>1, KeptLoad, NoFurther DEF OnceInv, Free
  <2>2. CASE /\ cache[req[r].key] = "none" /\ cache' = [cache EXCEPT ![req[r].key] = "processing"]
             /\ req' = [req EXCEPT ![r] = q]
    <3>1. q.key = req[r].key
      BY <1>0 DEF Requests
    <3>2. executed' = executed
      BY <1>4 DEF Lock
    <3> HIDE DEF q
    <3>3. CASE k = req[r].key
      <4>1. Free(k) = 1 /\ Free(k)' = 0
        BY <2>2, <3>3 DEF Free, OnceInv, Counted
      <4>2. Doing(k)' \subseteq Doing(k) \cup {r}
        BY <1>0, <2>2 DEF Doing
      <4>3. Load(k)' <= Load(k) + 1
        BY <1>0, <3>2, <4>2, MoreLoad
      <4> HIDE DEF Load, Free, Allowed
      <4>4. QED
        BY <1>0, <1>1, <4>1, <4>3 DEF Once
    <3>4. CASE k # req[r].key
      <4>1. Doing(k)' \subseteq Doing(k)
        BY <1>0, <2>2, <3>1, <3>4 DEF Doing
      <4>2. Load(k)' <= Load(k)
        BY <1>0, <3>2, <4>1, SameLoad
      <4>3. Free(k)' = Free(k)
        BY <2>2, <3>4 DEF Free, OnceInv, Counted
      <4>4. QED
        BY <1>1, <4>2, <4>3, NoFurther DEF Free
    <3>5. QED
      BY <3>3, <3>4
  <2>3. req' = [req EXCEPT ![r] = q] \/ req' = [req EXCEPT ![r] = Idle]
    BY <1>0, <1>4 DEF Lock
  <2>4. QED
    <3>1. [req EXCEPT ![r].pc = "enter", ![r].caching = TRUE] = [req EXCEPT ![r] = q]
      BY <1>0
    <3> HIDE DEF q
    <3>2. QED
      BY <1>4, <2>1, <2>2, <3>1 DEF Lock
<1>5. CASE RedisFails(r)
  <2>1. executed' = executed /\ Free(k)' <= Free(k)
    BY <1>5 DEF RedisFails, Free, OnceInv, Counted
  <2>2. Doing(k)' \subseteq Doing(k) \cup {r}
    BY <1>0, <1>2, <1>5 DEF RedisFails, Go
  <2>3. Load(k)' <= Load(k) + 1
    BY <1>0, <2>1, <2>2, MoreLoad
  <2>4. Free(k) \in {0, 1} /\ Free(k)' \in {0, 1}
    BY DEF Free
  <2> HIDE DEF Load, Free, Allowed
  <2>5. QED
    BY <1>0, <1>1, <1>5, <2>1, <2>3, <2>4 DEF Once
<1>6. CASE (Step(r) \/ Rebootstrap(r) \/ SpawnFails(r)) /\ ~ Get(r) /\ ~ Lock(r)
  <2>1. cache' = cache /\ (Kept(r) \/ Spent(r))
    BY <1>6, StepKept DEF OnceInv
  <2>2. QED
    BY <1>1, <2>1, KeptLoad, NoFurther DEF OnceInv, Free
<1>7. QED
  BY <1>3, <1>4, <1>5, <1>6

LEMMA OthersOnce ==
  ASSUME OnceInv, Counted',
         \/ \E r \in Slots, k \in Keys \cup {NoKey} : Arrive(r, k)
         \/ \E k \in Keys : Save(k) \/ SaveFails(k) \/ Expire(k)
         \/ \E s \in scripts : Script(s)
         \/ \E p \in DOMAIN procs : Runtime(p) \/ Break(p)
         \/ \E status \in {"ready", "disconnected"} : Marked(status)
         \/ Elapse \/ Down
  PROVE  \A k \in Keys : Once(k)'
<1> SUFFICES ASSUME NEW k \in Keys PROVE Once(k)'
  OBVIOUS
<1>0. req \in [Slots -> Requests] /\ executed[k] \in Nat /\ Allowed \in Nat /\ Allowed' \in Nat
  <2>1. req \in [Slots -> Requests] /\ executed[k] \in Nat
    BY DEF OnceInv, ReqInv, Shape, Counted
  <2>2. Allowed \in Nat /\ Allowed' \in Nat
    BY DEF OnceInv, Counted, Counts, Allowed
  <2>3. QED
    BY <2>1, <2>2
<1>1. ASSUME UNCHANGED <<req, executed>>, Free(k)' <= Free(k), Allowed <= Allowed' PROVE Once(k)'
  <2>1. Load(k)' <= Load(k)
    BY <1>0, <1>1, SameLoad DEF Doing
  <2>2. QED
    BY <1>1, <2>1, NoFurther
<1>2. ASSUME UNCHANGED cache PROVE Free(k)' <= Free(k)
  BY <1>2 DEF Free
<1>3. ASSUME NEW what \in {"forces", "expiries", "faults", "downs"}, Happens(what)
      PROVE  Allowed <= Allowed' /\ (what = "expiries" => Allowed' = Allowed + 1)
  <2>1. /\ what = "faults" \/ what = "expiries" => Allowed' = Allowed + 1
        /\ what # "faults" /\ what # "expiries" => Allowed' = Allowed
    BY <1>3, HappensCounts DEF OnceInv
  <2>2. QED
    BY <1>0, <2>1
<1>4. ASSUME UNCHANGED count PROVE Allowed <= Allowed'
  BY <1>0, <1>4 DEF Allowed
<1>5. ASSUME NEW r \in Slots, NEW j \in Keys \cup {NoKey}, Arrive(r, j) PROVE Once(k)'
  <2> DEFINE pc == IF j = NoKey THEN "enter" ELSE "get"
             q == [Idle EXCEPT !.pc = pc, !.key = j, !.chat = TRUE]
  <2>1. req' = [req EXCEPT ![r] = q] /\ UNCHANGED web /\ count' = [count EXCEPT !.requests = count.requests + 1]
    BY <1>5 DEF Arrive
  <2>2. q.key \in Keys => q.pc = "get"
    BY AccessAssumption DEF Idle
  <2> HIDE DEF q
  <2>3. Kept(r)
    BY <2>1, <2>2, KeptBy DEF web, Passed
  <2>4. Allowed' = Allowed
    BY <2>1 DEF Allowed, OnceInv, Counted, Counts
  <2>5. QED
    BY <1>0, <1>2, <2>1, <2>3, <2>4, KeptLoad, NoFurther DEF OnceInv, web
<1>6. ASSUME NEW j \in Keys, Save(j) \/ SaveFails(j) PROVE Once(k)'
  <2>1. UNCHANGED <<req, executed>> /\ Free(k)' <= Free(k)
    BY <1>6 DEF Save, SaveFails, Free, OnceInv, Counted
  <2>2. Allowed <= Allowed'
    BY <1>3, <1>4, <1>6 DEF Save, SaveFails
  <2>3. QED
    BY <1>1, <2>1, <2>2
<1>7. ASSUME NEW j \in Keys, Expire(j) PROVE Once(k)'
  <2>1. UNCHANGED <<req, executed>> /\ Allowed' = Allowed + 1
    BY <1>3, <1>7 DEF Expire
  <2>2. Free(k)' <= Free(k) + 1 /\ Free(k) \in {0, 1} /\ Free(k)' \in {0, 1}
    BY DEF Free
  <2>3. Load(k)' <= Load(k)
    BY <1>0, <2>1, SameLoad DEF Doing
  <2>4. Load(k) \in Nat /\ Load(k)' \in Nat /\ Load(k) + Free(k) <= Allowed
    BY <1>0, <2>1, DoingFinite, DoingFiniteLater DEF Load, OnceInv, Once
  <2> HIDE DEF Load, Free, Allowed
  <2>5. QED
    BY <1>0, <2>1, <2>2, <2>3, <2>4 DEF Once
<1>8. ASSUME NEW s \in scripts, Script(s) PROVE Once(k)'
  BY <1>1, <1>2, <1>4, <1>8 DEF Script, web
<1>9. ASSUME NEW p \in DOMAIN procs, Runtime(p) PROVE Once(k)'
  BY <1>1, <1>2, <1>4, <1>9 DEF Runtime, Consume, Refused, Readmit, web
<1>10. ASSUME NEW p \in DOMAIN procs, Break(p) PROVE Once(k)'
  BY <1>1, <1>2, <1>3, <1>10 DEF Break, web
<1>11. ASSUME NEW status, Marked(status) PROVE Once(k)'
  BY <1>1, <1>2, <1>4, <1>11 DEF Marked, web
<1>12. CASE Elapse
  BY <1>1, <1>2, <1>4, <1>12 DEF Elapse, web
<1>13. CASE Down
  <2>1. req' = [r \in Slots |-> Idle] /\ UNCHANGED <<cache, executed>> /\ Allowed <= Allowed'
    BY <1>3, <1>13 DEF Down
  <2>2. Idle.pc \notin Passed
    BY DEF Idle, Passed
  <2>3. Doing(k)' \subseteq Doing(k)
    BY <2>1, <2>2 DEF Doing
  <2>4. Load(k)' <= Load(k)
    BY <1>0, <2>1, <2>3, SameLoad
  <2>5. QED
    BY <1>2, <2>1, <2>4, NoFurther
<1>14. QED
  BY <1>5, <1>6, <1>7, <1>8, <1>9, <1>10, <1>11, <1>12, <1>13

\* The counters stay counters.
LEMMA StaysCounted ==
  ASSUME Counted, [Next]_vars
  PROVE  Counted'
<1>0. Counted
  OBVIOUS
<1>1. ASSUME NEW r, Refuse(r) PROVE executed' = executed
  BY <1>1 DEF Refuse
<1>2. ASSUME NEW r, Admit(r) PROVE executed' \in [Keys -> Nat]
  BY <1>0, <1>2 DEF Admit, Counted
<1>3. ASSUME NEW r, NEW status, Answer(r, status) PROVE cache' = cache /\ executed' \in [Keys -> Nat]
  BY <1>0, <1>1, <1>2, <1>3 DEF Answer, Counted
<1>4. ASSUME NEW what \in {"forces", "expiries", "faults", "downs"}, Happens(what) PROVE count' \in Counts
  BY <1>0, <1>4, HappensCounts
<1>5. count' \in Counts
  <2>1. CASE \E what \in {"forces", "expiries", "faults", "downs"} : Happens(what)
    BY <1>4, <2>1
  <2>2. CASE count' = count
    BY <1>0, <2>2 DEF Counted
  <2>3. ASSUME NEW r, NEW j, Arrive(r, j) PROVE count' \in Counts
    BY <1>0, <2>3 DEF Arrive, Counted, Counts
  <2>4. ASSUME NEW r, Step(r) PROVE count' = count
    BY <2>4 DEF Step, Get, Lock, Enter, Query, QueryForced, Insert, Issue, Touch, MarkStatus
  <2>5. ASSUME NEW p, Runtime(p) PROVE count' = count
    BY <2>5 DEF Runtime, Consume, Refused, Readmit
  <2>6. CASE UNCHANGED vars
    BY <2>2, <2>6 DEF vars
  <2>7. CASE Next
    BY <2>1, <2>2, <2>3, <2>4, <2>5, <2>7
       DEF Next, Rebootstrap, RedisFails, SpawnFails, Save, SaveFails, Expire, Script, Break, Marked, Elapse, Down
  <2>8. QED
    BY <2>6, <2>7
<1>6. DOMAIN cache' = Keys /\ executed' \in [Keys -> Nat]
  <2>1. CASE UNCHANGED web
    BY <1>0, <2>1 DEF web, Counted
  <2>2. CASE DOMAIN cache' = DOMAIN cache /\ executed' = executed
    BY <1>0, <2>2 DEF Counted
  <2>3. ASSUME NEW r, Step(r) PROVE DOMAIN cache' = Keys /\ executed' \in [Keys -> Nat]
    <3>1. CASE Lock(r)
      BY <2>2, <3>1 DEF Lock
    <3>2. CASE Query(r) \/ Insert(r) \/ MarkStatus(r)
      BY <1>0, <1>1, <1>3, <2>1, <2>2, <3>2 DEF Query, Insert, MarkStatus, Counted
    <3>3. CASE Get(r) \/ Enter(r) \/ QueryForced(r) \/ Issue(r) \/ Touch(r)
      BY <2>1, <3>3 DEF Get, Enter, QueryForced, Issue, Touch
    <3>4. QED
      BY <2>3, <3>1, <3>2, <3>3 DEF Step
  <2>4. ASSUME NEW r, Rebootstrap(r) \/ RedisFails(r) \/ SpawnFails(r) PROVE DOMAIN cache' = Keys /\ executed' \in [Keys -> Nat]
    BY <1>0, <1>3, <2>1, <2>2, <2>4 DEF Rebootstrap, RedisFails, SpawnFails, Counted
  <2>5. ASSUME NEW p, Runtime(p) \/ Break(p) PROVE UNCHANGED web
    BY <2>5 DEF Runtime, Consume, Refused, Readmit, Break
  <2>6. CASE UNCHANGED vars
    BY <2>1, <2>6 DEF vars, web
  <2>7. CASE Next
    BY <2>1, <2>2, <2>3, <2>4, <2>5, <2>7 DEF Next, Arrive, Save, SaveFails, Expire, Script, Marked, Elapse, Down
  <2>8. QED
    BY <2>6, <2>7
<1>7. QED
  BY <1>5, <1>6 DEF Counted

(* The chats sent under one key reach the execution plane once, and once more for every
   entry that expired and every failure (idempotency.ts:4): the placeholder of the first
   stands in the way of the others whatever becomes of it. *)
THEOREM ExecutedOnce == Spec => []ExecutesOnce
<1>1. Init => OnceInv
  <2> SUFFICES ASSUME Init PROVE OnceInv
    OBVIOUS
  <2>1. Counted
    BY DEF Init, Counted, Counts
  <2>2. ASSUME NEW k \in Keys PROVE Once(k)
    <3>1. Doing(k) = {}
      BY DEF Init, Doing, Idle, Passed
    <3>2. Cardinality(Doing(k)) = 0
      BY <3>1, FS_EmptySet
    <3>3. executed[k] = 0 /\ Allowed = 1 /\ Free(k) = 1
      BY DEF Init, Allowed, Free
    <3>4. QED
      BY <3>2, <3>3 DEF Once, Load
  <2>3. QED
    BY <2>1, <2>2, InitReq DEF OnceInv
<1>2. OnceInv /\ [Next]_vars => OnceInv'
  <2> SUFFICES ASSUME OnceInv, [Next]_vars PROVE OnceInv'
    OBVIOUS
  <2>1. ReqInv' /\ Counted'
    BY StepInv, StaysCounted DEF OnceInv
  <2>2. \A k \in Keys : Once(k)'
    <3>1. CASE UNCHANGED vars
      BY <3>1 DEF vars, OnceInv, Once, Load, Doing, Free, Allowed
    <3>2. CASE Next
      BY <2>1, <3>2, OneRequestOnce, OthersOnce DEF Next
    <3>3. QED
      BY <3>1, <3>2
  <2>3. QED
    BY <2>1, <2>2 DEF OnceInv
<1>3. OnceInv => ExecutesOnce
  <2> SUFFICES ASSUME OnceInv, NEW k \in Keys PROVE executed[k] <= 1 + count.expiries + count.faults
    BY DEF ExecutesOnce
  <2>1. executed[k] \in Nat /\ Cardinality(Doing(k)) \in Nat /\ Free(k) \in {0, 1} /\ Allowed \in Nat
    BY DoingFinite DEF OnceInv, Counted, Counts, Free, Allowed
  <2>2. executed[k] + Cardinality(Doing(k)) + Free(k) <= Allowed
    BY DEF OnceInv, Once, Load
  <2>3. QED
    BY <2>1, <2>2 DEF Allowed
<1>4. QED
  BY <1>1, <1>2, <1>3, PTL DEF Spec
-----------------------------------------------------------------------------
(* Bounds.  What a request refers to exists; a request that is about to        *)
(* bootstrap a row is one more attempt of it, so the attempts and the requests *)
(* with a claim to the row are bounded together; and a chat in progress is one *)
(* more execution under its key.                                               *)

Fits(q) ==
  /\ q.knew <= Len(procs) /\ q.row <= Len(rows) /\ q.ticket <= tickets /\ q.polls <= MaxPolls
  /\ q.pc = "poll" => q.polls < MaxPolls
  /\ q.pc = "touch" => 1 <= q.ticket
  /\ q.pc = "mark" => q.to # Blank
  /\ q.caching \/ q.pc \in {"get", "lock"} => q.key \in Keys
RowFits(row) == row.status # Blank /\ 1 <= row.ticket /\ row.ticket <= tickets

Bootstrapping == {"force", "issue", "touch"}
Claim(q, i) == q.pc = "force" \/ (q.pc \in {"issue", "touch"} /\ q.row = i)
Pending(i) == {r \in Slots : Claim(req[r], i)}
Tried(i) == rows[i].attempts + Cardinality(Pending(i)) <= AttemptLimit

Asking(k) == {r \in Slots : req[r].key = k}
Served(k) == executed[k] + Cardinality(Asking(k)) <= count.requests

ProcessesFit ==
  /\ \A p \in DOMAIN procs : 1 <= procs[p].ticket /\ procs[p].ticket <= tickets
  /\ \A s \in scripts : 1 <= s.ticket /\ s.ticket <= tickets
  /\ conn <= Len(procs) /\ marks \in [{"ready", "disconnected"} -> Nat]
CacheFits == cache \in [Keys -> {"none", "processing", "refused"}] /\ saving \subseteq Keys
RequestsFit == \A r \in Slots : Fits(req[r])
RowsFit == \A i \in DOMAIN rows : RowFits(rows[i]) /\ Tried(i)
KeysFit == count.requests <= MaxRequests /\ \A k \in Keys : Served(k)

BoundInv == ReqInv /\ Counted /\ RequestsFit /\ RowsFit /\ KeysFit /\ ProcessesFit /\ CacheFits

LEMMA PendingFinite ==
  \A i : /\ IsFiniteSet(Pending(i)) /\ Cardinality(Pending(i)) \in Nat /\ Cardinality(Pending(i)) <= Cardinality(Slots)
BY AccessAssumption, FS_Subset, FS_CardinalityType DEF Pending

LEMMA PendingFiniteLater ==
  \A i : /\ IsFiniteSet(Pending(i)') /\ Cardinality(Pending(i)') \in Nat /\ Cardinality(Pending(i)') <= Cardinality(Slots)
BY AccessAssumption, FS_Subset, FS_CardinalityType DEF Pending

LEMMA AskingFinite == \A k : IsFiniteSet(Asking(k)) /\ Cardinality(Asking(k)) \in Nat
BY AccessAssumption, FS_Subset, FS_CardinalityType DEF Asking

LEMMA AskingFiniteLater == \A k : IsFiniteSet(Asking(k)') /\ Cardinality(Asking(k)') \in Nat
BY AccessAssumption, FS_Subset, FS_CardinalityType DEF Asking

\* What the invariant says of the numbers.
LEMMA Numbers ==
  ASSUME BoundInv
  PROVE  /\ rows \in Seq(Rows) /\ Len(rows) \in Nat /\ DOMAIN rows = 1..Len(rows) /\ \A i \in DOMAIN rows : rows[i] \in Rows
         /\ procs \in Seq(Procs) /\ Len(procs) \in Nat /\ DOMAIN procs = 1..Len(procs)
         /\ tickets \in Nat /\ conn \in Nat /\ conn <= Len(procs) /\ MaxPolls \in Nat /\ MaxAttempts \in Nat \ {0}
         /\ count.forces \in Nat /\ count.requests \in Nat /\ Cardinality(Slots) \in Nat
         /\ req \in [Slots -> Requests]
         /\ \A r \in Slots : req[r] \in Requests /\ Fits(req[r])
BY LenProperties, ElementOfSeq, AccessAssumption, FS_CardinalityType
   DEF BoundInv, ReqInv, Shape, Counted, Counts, RequestsFit, ProcessesFit

\* A step of one request: it refers to what exists then; it claims a row it did not claim
\* if that row has attempts left or an administrator pays for it; and it takes on a key
\* if it is counted.
Moves(r, q) ==
  /\ req' = [req EXCEPT ![r] = q]
  /\ Fits(q)'
  /\ \A i \in DOMAIN rows : Claim(q, i) =>
       Claim(req[r], i) \/ rows[i].attempts < MaxAttempts \/ count'.forces = count.forces + 1
  /\ Touch(r) \/ SpawnFails(r) => q.pc \notin Bootstrapping
  /\ q.key \in Keys => q.key = req[r].key \/ count'.requests = count.requests + 1

LEMMA IdleMoves ==
  ASSUME BoundInv, NEW r \in Slots, req' = [req EXCEPT ![r] = Idle],
         Len(rows') \in Nat, tickets' \in Nat, Len(procs') \in Nat
  PROVE  \E q : Moves(r, q)
<1>1. Fits(Idle)'
  BY IdleFields, Numbers DEF Fits
<1>2. Idle.pc = "idle" /\ Idle.key \notin Keys
  BY IdleFields, AccessAssumption
<1>3. Moves(r, Idle)
  BY <1>1, <1>2 DEF Moves, Claim, Bootstrapping
<1>4. QED
  BY <1>3

\* A request goes on with what it knows.
LEMMA SameMoves ==
  ASSUME BoundInv, NEW r \in Slots, NEW q \in Requests, req' = [req EXCEPT ![r] = q],
         Len(rows') \in Nat, tickets' \in Nat, Len(procs') \in Nat,
         Len(rows) <= Len(rows'), tickets <= tickets', Len(procs) <= Len(procs'),
         q.knew \in {req[r].knew, conn}, q.row = req[r].row \/ q.row \in DOMAIN rows, q.ticket = req[r].ticket,
         q.polls <= MaxPolls, q.pc \notin {"poll", "force", "issue", "touch"}, q.pc = "mark" => q.to # Blank,
         q.pc \in {"get", "lock"} \/ q.caching => q.key \in Keys, q.key = req[r].key
  PROVE  \E x : Moves(r, x)
<1>1. /\ req[r] \in Requests /\ Fits(req[r]) /\ conn \in Nat /\ conn <= Len(procs) /\ Len(procs) \in Nat
      /\ Len(rows) \in Nat /\ DOMAIN rows = 1..Len(rows) /\ tickets \in Nat
  BY Numbers
<1>2. /\ req[r].knew \in Nat /\ req[r].row \in Nat /\ req[r].ticket \in Nat
      /\ req[r].knew <= Len(procs) /\ req[r].row <= Len(rows) /\ req[r].ticket <= tickets
  BY <1>1 DEF Requests, Fits
<1>3. q.knew <= Len(procs') /\ q.row <= Len(rows') /\ q.ticket <= tickets'
  BY <1>1, <1>2, SMTT(30)
<1>4. Fits(q)'
  BY <1>3 DEF Fits
<1>5. Moves(r, q)
  BY <1>4 DEF Moves, Claim, Bootstrapping
<1>6. QED
  BY <1>5

LEMMA AnswerMoves ==
  ASSUME BoundInv, NEW r \in Slots, NEW status, Answer(r, status),
         Len(rows') \in Nat, tickets' \in Nat, UNCHANGED procs
  PROVE  \E q : Moves(r, q)
<1>1. PICK q : q = [Idle EXCEPT !.pc = "poll", !.chat = TRUE, !.key = req[r].key,
                                !.caching = req[r].caching, !.polls = req[r].polls]
  OBVIOUS
<1>2. \/ req' = [req EXCEPT ![r] = Idle]
      \/ req' = [req EXCEPT ![r] = q] /\ req[r].polls < MaxPolls
  BY <1>1 DEF Answer, Admit, Refuse
<1>3. /\ q.pc = "poll" /\ q.key = req[r].key /\ q.caching = req[r].caching /\ q.polls = req[r].polls
      /\ q.knew = 0 /\ q.row = 0 /\ q.ticket = 0
  BY <1>1 DEF Idle
<1>4. Len(procs) \in Nat /\ req[r] \in Requests /\ Fits(req[r]) /\ MaxPolls \in Nat
  BY Numbers
<1>5. req[r].polls \in Nat
  BY <1>4 DEF Requests
<1>6. CASE req' = [req EXCEPT ![r] = q] /\ req[r].polls < MaxPolls
  <2>1. Fits(q)'
    BY <1>3, <1>4, <1>5, <1>6 DEF Fits
  <2>2. Moves(r, q)
    BY <1>3, <1>6, <2>1 DEF Moves, Claim, Bootstrapping
  <2>3. QED
    BY <2>2
<1>7. QED
  BY <1>2, <1>4, <1>6, IdleMoves

\* A bootstrap claims its row.
LEMMA BootstrapMoves ==
  ASSUME BoundInv, NEW r \in Slots, NEW i \in OpenRows, NEW force \in BOOLEAN, Bootstrap(r, i, force),
         UNCHANGED <<rows, tickets, procs>>, req[r].pc = "force" \/ rows[i].attempts < MaxAttempts,
         ~ Touch(r), ~ SpawnFails(r)
  PROVE  \E q : Moves(r, q)
<1>1. PICK ticket, pc : ticket = (IF rows[i].used THEN 0 ELSE rows[i].ticket) /\ pc = (IF rows[i].used THEN "issue" ELSE "touch")
  OBVIOUS
<1>2. PICK q : q = [req[r] EXCEPT !.row = i, !.was = rows[i].status, !.force = force, !.ticket = ticket, !.pc = pc]
  OBVIOUS
<1>3. /\ req[r] \in Requests /\ Fits(req[r]) /\ Len(rows) \in Nat /\ tickets \in Nat
      /\ i \in DOMAIN rows /\ i <= Len(rows) /\ rows[i] \in Rows /\ RowFits(rows[i])
  BY Numbers DEF OpenRows, BoundInv, RowsFit
<1>4. ticket \in Nat /\ ticket <= tickets /\ (pc = "touch" => 1 <= ticket) /\ pc \in {"issue", "touch"}
  BY <1>1, <1>3 DEF Rows, RowFits
<1>5. /\ q.pc = pc /\ q.row = i /\ q.ticket = ticket /\ q.knew = req[r].knew /\ q.polls = req[r].polls
      /\ q.caching = req[r].caching /\ q.key = req[r].key
  BY <1>2, <1>3 DEF Requests
<1>6. req' = [req EXCEPT ![r] = q]
  BY <1>1, <1>2, Numbers DEF Bootstrap
<1>7. Fits(q)'
  BY <1>3, <1>4, <1>5 DEF Fits
<1>8. \A j : Claim(q, j) => j = i
  BY <1>4, <1>5 DEF Claim
<1>9. req[r].pc = "force" => Claim(req[r], i)
  BY DEF Claim
<1>10. Moves(r, q)
  BY <1>5, <1>6, <1>7, <1>8, <1>9 DEF Moves
<1>11. QED
  BY <1>10

\* Every step of a request is such a move.
LEMMA RequestMoves ==
  ASSUME BoundInv, NEW r \in Slots,
         Step(r) \/ Rebootstrap(r) \/ RedisFails(r) \/ SpawnFails(r) \/ \E k \in Keys \cup {NoKey} : Arrive(r, k),
         rows' \in Seq(Rows), tickets' \in Nat, Len(rows) <= Len(rows'), tickets <= tickets', procs' = procs
  PROVE  \E q : Moves(r, q)
<1>0. /\ req[r] \in Requests /\ Fits(req[r]) /\ req \in [Slots -> Requests] /\ tickets \in Nat /\ conn \in Nat
      /\ Len(rows) \in Nat /\ DOMAIN rows = 1..Len(rows) /\ Len(procs) \in Nat /\ Len(procs') \in Nat
      /\ MaxPolls \in Nat /\ MaxAttempts \in Nat /\ Len(rows') \in Nat
  BY Numbers, LenProperties
<1>sizes. Len(procs) <= Len(procs') /\ Len(procs') \in Nat /\ Len(rows') \in Nat
  BY <1>0
<1>1. ASSUME NEW pc \in PCs \ {"poll", "force", "issue", "touch", "mark", "get"}, Go(r, pc),
             pc = "lock" => req[r].key \in Keys
      PROVE  \E q : Moves(r, q)
  <2>1. PICK q : q = [req[r] EXCEPT !.pc = pc]
    OBVIOUS
  <2>2. req' = [req EXCEPT ![r] = q] /\ q \in Requests
    BY <1>0, <1>1, <2>1 DEF Go, Requests, PCs
  <2>3. /\ q.pc = pc /\ q.row = req[r].row /\ q.ticket = req[r].ticket /\ q.knew = req[r].knew
        /\ q.polls = req[r].polls /\ q.caching = req[r].caching /\ q.key = req[r].key
    BY <1>0, <2>1 DEF Requests
  <2>4. req[r].polls <= MaxPolls /\ (req[r].caching => req[r].key \in Keys)
    BY <1>0 DEF Fits
  <2>5. q.pc \in {"get", "lock"} \/ q.caching => q.key \in Keys
    <3>1. pc # "get" /\ (pc = "lock" => req[r].key \in Keys)
      BY <1>1
    <3>2. QED
      BY <2>3, <2>4, <3>1, Zenon
  <2>6. q.pc \notin {"poll", "force", "issue", "touch"} /\ q.pc # "mark"
    BY <1>1, <2>3
  <2>7. q.knew \in {req[r].knew, conn} /\ q.row = req[r].row /\ q.polls <= MaxPolls /\ (q.pc = "mark" => q.to # Blank)
    BY <2>3, <2>4, <2>6, Zenon
  <2>8. q.ticket = req[r].ticket /\ q.key = req[r].key
    BY <2>3
  <2>9. QED
    BY <1>sizes, <2>2, <2>5, <2>6, <2>7, <2>8, SameMoves
<1>2. ASSUME NEW i, i = req[r].row \/ i \in DOMAIN rows, NEW status \in Open \cup {"failed"}, Mark(r, i, status)
      PROVE  \E q : Moves(r, q)
  <2>1. PICK q : q = [req[r] EXCEPT !.row = i, !.to = status, !.pc = "mark"]
    OBVIOUS
  <2>2. req' = [req EXCEPT ![r] = q]
    BY <1>0, <1>2, <2>1 DEF Mark
  <2>3. i \in Nat /\ status # Blank
    <3>1. i \in Nat
      BY <1>0, <1>2 DEF Requests
    <3>2. status # Blank
      BY <1>2, Zenon DEF Open, Blank
    <3>3. QED
      BY <3>1, <3>2
  <2>4. q \in Requests
    BY <1>0, <1>2, <2>1, <2>3 DEF Requests, PCs
  <2>5. /\ q.pc = "mark" /\ q.to = status /\ q.row = i /\ q.ticket = req[r].ticket /\ q.knew = req[r].knew
        /\ q.polls = req[r].polls /\ q.caching = req[r].caching /\ q.key = req[r].key
    BY <1>0, <2>1 DEF Requests
  <2>6. req[r].polls <= MaxPolls /\ (req[r].caching => req[r].key \in Keys)
    BY <1>0 DEF Fits
  <2>7. q.pc \in {"get", "lock"} \/ q.caching => q.key \in Keys
    BY <2>5, <2>6, Zenon
  <2>8. /\ q.knew \in {req[r].knew, conn} /\ (q.row = req[r].row \/ q.row \in DOMAIN rows)
        /\ q.polls <= MaxPolls /\ (q.pc = "mark" => q.to # Blank)
    BY <1>2, <2>3, <2>5, <2>6, Zenon
  <2>9. q.ticket = req[r].ticket /\ q.key = req[r].key /\ q.pc \notin {"poll", "force", "issue", "touch"}
    BY <2>5
  <2>10. QED
    BY <1>sizes, <2>2, <2>4, <2>7, <2>8, <2>9, SameMoves
<1>3. CASE Get(r)
  <2>1. req[r].key \in Keys
    BY <1>0, <1>3 DEF Fits, Get
  <2>2. QED
    BY <1>0, <1>1, <1>3, <2>1, IdleMoves DEF Get, PCs
<1>4. CASE Lock(r)
  <2>1. PICK q : q = [req[r] EXCEPT !.pc = "enter", !.caching = TRUE]
    OBVIOUS
  <2>2. req' = [req EXCEPT ![r] = Idle] \/ req' = [req EXCEPT ![r] = q]
    BY <1>0, <1>4, <2>1 DEF Lock
  <2>3. q \in Requests
    BY <1>0, <2>1 DEF Requests, PCs
  <2>4. /\ q.pc = "enter" /\ q.row = req[r].row /\ q.ticket = req[r].ticket /\ q.knew = req[r].knew
        /\ q.polls = req[r].polls /\ q.key = req[r].key
    BY <1>0, <2>1 DEF Requests
  <2>5. req[r].polls <= MaxPolls /\ req[r].key \in Keys
    BY <1>0, <1>4 DEF Fits, Lock
  <2>6. QED
    BY <1>0, <2>2, <2>3, <2>4, <2>5, IdleMoves, SameMoves
<1>5. CASE Enter(r)
  <2>1. PICK polls : polls = (IF req[r].pc = "poll" THEN req[r].polls + 1 ELSE req[r].polls)
    OBVIOUS
  <2>2. PICK q : q = [req[r] EXCEPT !.pc = "query", !.knew = conn, !.force = FALSE, !.polls = polls]
    OBVIOUS
  <2>3. req[r].polls \in Nat
    BY <1>0 DEF Requests
  <2>4. polls \in Nat /\ polls <= MaxPolls /\ (req[r].caching => req[r].key \in Keys)
    BY <1>0, <2>1, <2>3 DEF Fits
  <2>5. req' = [req EXCEPT ![r] = q]
    BY <1>0, <1>5, <2>1, <2>2 DEF Enter
  <2>6. q \in Requests
    BY <1>0, <2>2, <2>4 DEF Requests, PCs
  <2>7. /\ q.pc = "query" /\ q.row = req[r].row /\ q.ticket = req[r].ticket /\ q.knew = conn
        /\ q.polls = polls /\ q.caching = req[r].caching /\ q.key = req[r].key
    BY <1>0, <2>2 DEF Requests
  <2>8. q.pc \in {"get", "lock"} \/ q.caching => q.key \in Keys
    BY <2>4, <2>7, Zenon
  <2>9. QED
    BY <1>sizes, <2>4, <2>5, <2>6, <2>7, <2>8, SameMoves
<1>6. CASE Query(r)
  <2>1. UNCHANGED <<rows, tickets, procs>> /\ req[r].pc = "query" /\ ~ Touch(r) /\ ~ SpawnFails(r)
    BY <1>6 DEF Query, Touch, SpawnFails, plane
  <2>2. \A i \in OpenRows : i \in DOMAIN rows
    BY DEF OpenRows
  <2>3. CASE Go(r, "insert")
    BY <1>1, <2>3 DEF PCs
  <2>4. CASE \E i \in OpenRows, status \in {"ready", "failed", "disconnected"} : Mark(r, i, status)
    BY <1>2, <2>2, <2>4 DEF Open
  <2>5. CASE \E status : Answer(r, status)
    BY <1>0, <2>1, <2>5, AnswerMoves
  <2>6. ASSUME NEW i \in OpenRows, NEW force \in BOOLEAN, Bootstrap(r, i, force), ~ Exceeded(i)
        PROVE  \E q : Moves(r, q)
    <3>1. rows[i].attempts \in Nat
      BY <2>2, <2>6, Numbers DEF Rows
    <3>2. rows[i].attempts < MaxAttempts
      BY <1>0, <2>6, <3>1 DEF Exceeded
    <3>3. QED
      BY <2>1, <2>6, <3>2, BootstrapMoves
  <2>7. QED
    BY <1>6, <2>3, <2>4, <2>5, <2>6 DEF Query
<1>7. CASE QueryForced(r)
  <2>1. UNCHANGED <<rows, tickets, procs>> /\ req[r].pc = "force" /\ ~ Touch(r) /\ ~ SpawnFails(r)
    BY <1>7 DEF QueryForced, Touch, SpawnFails, plane
  <2>2. CASE Go(r, "insert")
    BY <1>1, <2>2 DEF PCs
  <2>3. CASE \E i \in OpenRows : Bootstrap(r, i, TRUE)
    BY <2>1, <2>3, BootstrapMoves
  <2>4. QED
    BY <1>7, <2>2, <2>3 DEF QueryForced
<1>8. CASE Insert(r)
  <2>1. PICK n : n = Len(rows) + 1
    OBVIOUS
  <2>2. PICK q : q = [req[r] EXCEPT !.pc = "issue", !.row = n, !.was = "starting"]
    OBVIOUS
  <2>3. CASE /\ req' = [req EXCEPT ![r] = q]
             /\ rows' = Append(rows, [status |-> "starting", ticket |-> tickets + 1, used |-> FALSE, attempts |-> 0, age |-> "cold"])
    <3>1. Len(rows') = n /\ n \in Nat
      BY <1>0, <2>1, <2>3, LenProperties
    <3>2. /\ q.pc = "issue" /\ q.row = n /\ q.ticket = req[r].ticket /\ q.knew = req[r].knew
          /\ q.polls = req[r].polls /\ q.caching = req[r].caching /\ q.key = req[r].key
      BY <1>0, <2>2 DEF Requests
    <3>3. /\ req[r].polls <= MaxPolls /\ (req[r].caching => req[r].key \in Keys) /\ req[r].knew <= Len(procs')
          /\ req[r].ticket \in Nat /\ req[r].ticket <= tickets
      BY <1>0 DEF Fits, Requests
    <3>4. Fits(q)'
      BY <1>0, <3>1, <3>2, <3>3 DEF Fits
    <3>5. \A i \in DOMAIN rows : ~ Claim(q, i)
      BY <1>0, <2>1, <3>2 DEF Claim
    <3>6. ~ Touch(r) /\ ~ SpawnFails(r)
      BY <1>8 DEF Insert, Touch, SpawnFails
    <3>7. Moves(r, q)
      BY <2>3, <3>2, <3>4, <3>5, <3>6 DEF Moves
    <3>8. QED
      BY <3>7
  <2>4. CASE Refuse(r)
    BY <1>0, <2>4, IdleMoves DEF Refuse
  <2>5. QED
    BY <1>0, <1>8, <2>1, <2>2, <2>3, <2>4 DEF Insert
<1>9. CASE Issue(r)
  <2>1. PICK q : q = [req[r] EXCEPT !.pc = "touch", !.ticket = tickets + 1]
    OBVIOUS
  <2>2. req' = [req EXCEPT ![r] = q] /\ tickets' = tickets + 1 /\ req[r].pc = "issue"
    BY <1>0, <1>9, <2>1 DEF Issue
  <2>3. /\ q.pc = "touch" /\ q.row = req[r].row /\ q.ticket = tickets + 1 /\ q.knew = req[r].knew
        /\ q.polls = req[r].polls /\ q.caching = req[r].caching /\ q.key = req[r].key
    BY <1>0, <2>1 DEF Requests
  <2>4. /\ req[r].polls <= MaxPolls /\ (req[r].caching => req[r].key \in Keys) /\ req[r].knew <= Len(procs')
        /\ req[r].row \in Nat /\ req[r].row <= Len(rows)
    BY <1>0 DEF Fits, Requests
  <2>5. Fits(q)'
    BY <1>0, <2>2, <2>3, <2>4 DEF Fits
  <2>6. \A i : Claim(q, i) => Claim(req[r], i)
    BY <2>2, <2>3 DEF Claim
  <2>7. ~ Touch(r) /\ ~ SpawnFails(r)
    BY <2>2 DEF Touch, SpawnFails
  <2>8. Moves(r, q)
    BY <2>2, <2>3, <2>5, <2>6, <2>7 DEF Moves
  <2>9. QED
    BY <2>8
<1>10. CASE Touch(r)
  <2>1. PICK q : q = [req[r] EXCEPT !.pc = "mark", !.to = "provisioning"]
    OBVIOUS
  <2>2. req' = [req EXCEPT ![r] = q]
    BY <1>0, <1>10, <2>1 DEF Touch
  <2>3. q \in Requests /\ "provisioning" # Blank
    BY <1>0, <2>1 DEF Requests, PCs, Open, Blank
  <2>4. /\ q.pc = "mark" /\ q.to = "provisioning" /\ q.row = req[r].row /\ q.ticket = req[r].ticket /\ q.knew = req[r].knew
        /\ q.polls = req[r].polls /\ q.caching = req[r].caching /\ q.key = req[r].key
    BY <1>0, <2>1 DEF Requests
  <2>5. req[r].polls <= MaxPolls /\ (req[r].caching => req[r].key \in Keys)
    BY <1>0 DEF Fits
  <2>6. q.pc \in {"get", "lock"} \/ q.caching => q.key \in Keys
    BY <2>4, <2>5, Zenon
  <2>7. /\ q.knew \in {req[r].knew, conn} /\ q.row = req[r].row
        /\ q.polls <= MaxPolls /\ (q.pc = "mark" => q.to # Blank)
    BY <2>3, <2>4, <2>5, Zenon
  <2>8. q.ticket = req[r].ticket /\ q.key = req[r].key /\ q.pc \notin {"poll", "force", "issue", "touch"}
    BY <2>4
  <2>9. QED
    BY <1>sizes, <2>2, <2>3, <2>6, <2>7, <2>8, SameMoves
<1>11. CASE SpawnFails(r)
  <2>1. Mark(r, req[r].row, "disconnected") \/ \E status : Answer(r, status)
    BY <1>11 DEF SpawnFails
  <2>2. QED
    BY <1>0, <1>2, <2>1, AnswerMoves DEF Open
<1>12. CASE MarkStatus(r)
  <2>1. Refuse(r) \/ \E status : Answer(r, status)
    BY <1>12 DEF MarkStatus
  <2>2. QED
    BY <1>0, <2>1, IdleMoves, AnswerMoves DEF Refuse
<1>13. CASE Rebootstrap(r)
  <2>1. PICK q : q = [Idle EXCEPT !.pc = "force", !.force = TRUE]
    OBVIOUS
  <2>2. req' = [req EXCEPT ![r] = q] /\ Happens("forces")
    BY <1>13, <2>1 DEF Rebootstrap
  <2>3. /\ q.pc = "force" /\ q.row = 0 /\ q.ticket = 0 /\ q.knew = 0 /\ q.polls = 0 /\ ~ q.caching /\ q.key = NoKey
    BY <2>1 DEF Idle
  <2>4. Fits(q)'
    BY <1>0, <2>3 DEF Fits
  <2>5. count'.forces = count.forces + 1
    BY <2>2 DEF Happens, BoundInv, Counted, Counts
  <2>6. ~ Touch(r) /\ ~ SpawnFails(r)
    BY <1>13 DEF Rebootstrap, Touch, SpawnFails
  <2>7. Moves(r, q)
    BY <2>2, <2>3, <2>4, <2>5, <2>6, AccessAssumption DEF Moves
  <2>8. QED
    BY <2>7
<1>14. CASE RedisFails(r)
  BY <1>1, <1>14 DEF RedisFails, PCs
<1>15. ASSUME NEW k \in Keys \cup {NoKey}, Arrive(r, k) PROVE \E q : Moves(r, q)
  <2>1. PICK pc : pc = IF k = NoKey THEN "enter" ELSE "get"
    OBVIOUS
  <2>2. PICK q : q = [Idle EXCEPT !.pc = pc, !.key = k, !.chat = TRUE]
    OBVIOUS
  <2>3. req' = [req EXCEPT ![r] = q] /\ count' = [count EXCEPT !.requests = count.requests + 1] /\ req[r].pc = "idle"
    BY <1>15, <2>1, <2>2 DEF Arrive
  <2>4. /\ q.pc = pc /\ q.row = 0 /\ q.ticket = 0 /\ q.knew = 0 /\ q.polls = 0 /\ ~ q.caching /\ q.key = k
    BY <2>2 DEF Idle
  <2>5. pc \in {"enter", "get"} /\ (pc = "get" => k \in Keys)
    BY <1>15, <2>1
  <2>6. Fits(q)'
    BY <1>0, <2>4, <2>5 DEF Fits
  <2>7. count'.requests = count.requests + 1
    BY <2>3 DEF BoundInv, Counted, Counts
  <2>8. ~ Touch(r) /\ ~ SpawnFails(r)
    BY <2>3 DEF Touch, SpawnFails
  <2>9. Moves(r, q)
    BY <2>3, <2>4, <2>5, <2>6, <2>7, <2>8 DEF Moves, Claim
  <2>10. QED
    BY <2>9
<1>16. QED
  BY <1>3, <1>4, <1>5, <1>6, <1>7, <1>8, <1>9, <1>10, <1>11, <1>12, <1>13, <1>14, <1>15 DEF Step

\* What a step of request r may do to the rows.
RowSound(row, n) == row.status # Blank /\ 1 <= row.ticket /\ row.ticket <= n
Attempted(r, i) == (Touch(r) \/ SpawnFails(r)) /\ req[r].pc = "touch" /\ req[r].row = i /\ rows'[i].attempts = rows[i].attempts + 1
RowMoves(r) ==
  /\ rows' \in Seq(Rows) /\ tickets' \in Nat /\ tickets <= tickets'
  /\ Len(rows) <= Len(rows') /\ DOMAIN rows \subseteq DOMAIN rows'
  /\ \A i \in DOMAIN rows' : RowSound(rows'[i], tickets')
  /\ \A i \in DOMAIN rows : rows'[i].attempts = rows[i].attempts \/ Attempted(r, i)
  /\ \A i \in DOMAIN rows' : i \notin DOMAIN rows => rows'[i].attempts = 0

LEMMA RowsSound ==
  ASSUME BoundInv
  PROVE  \A i \in DOMAIN rows : RowSound(rows[i], tickets) /\ rows[i].ticket \in Nat /\ rows[i].attempts \in Nat
BY Numbers DEF BoundInv, RowsFit, RowFits, RowSound, Rows

LEMMA SameRowMoves ==
  ASSUME BoundInv, NEW r, rows' = rows, tickets' = tickets
  PROVE  RowMoves(r)
BY Numbers, RowsSound DEF RowMoves

\* One row is replaced.
LEMMA OneRowMoves ==
  ASSUME BoundInv, NEW r, NEW i, NEW new, rows' = [rows EXCEPT ![i] = new], rows' \in Seq(Rows), tickets' \in Nat,
         tickets <= tickets', i \in DOMAIN rows => RowSound(new, tickets'),
         i \in DOMAIN rows => new.attempts = rows[i].attempts \/ Attempted(r, i)
  PROVE  RowMoves(r)
<1>1. /\ rows \in Seq(Rows) /\ Len(rows) \in Nat /\ tickets \in Nat /\ DOMAIN rows = 1..Len(rows)
      /\ \A j \in DOMAIN rows : RowSound(rows[j], tickets) /\ rows[j].ticket \in Nat
  BY Numbers, RowsSound
<1>2. DOMAIN rows' = DOMAIN rows /\ \A j \in DOMAIN rows : rows'[j] = IF j = i THEN new ELSE rows[j]
  BY <1>1
<1>3. Len(rows') \in Nat /\ DOMAIN rows' = 1..Len(rows')
  BY LenProperties
<1>4. Len(rows) <= Len(rows')
  BY <1>1, <1>2, <1>3
<1>5. \A j \in DOMAIN rows : RowSound(rows[j], tickets')
  BY <1>1 DEF RowSound
<1>6. \A j \in DOMAIN rows' : RowSound(rows'[j], tickets')
  BY <1>2, <1>5
<1>7. \A j \in DOMAIN rows : rows'[j].attempts = rows[j].attempts \/ Attempted(r, j)
  BY <1>2
<1>8. QED
  BY <1>2, <1>4, <1>6, <1>7 DEF RowMoves

LEMMA RowsMove ==
  ASSUME BoundInv, NEW r \in Slots,
         Step(r) \/ Rebootstrap(r) \/ RedisFails(r) \/ SpawnFails(r) \/ \E k \in Keys \cup {NoKey} : Arrive(r, k)
  PROVE  RowMoves(r)
<1>0. /\ req[r] \in Requests /\ Fits(req[r]) /\ tickets \in Nat /\ rows \in Seq(Rows) /\ Len(rows) \in Nat
      /\ DOMAIN rows = 1..Len(rows) /\ \A i \in DOMAIN rows : rows[i] \in Rows /\ RowSound(rows[i], tickets) /\ rows[i].attempts \in Nat
  BY Numbers, RowsSound
<1>1. rows' \in Seq(Rows) /\ tickets' \in Nat
  BY RowsReq DEF BoundInv
<1>2. CASE UNCHANGED <<rows, tickets>>
  BY <1>2, SameRowMoves
<1>3. CASE Insert(r)
  <2>1. PICK row : row = [status |-> "starting", ticket |-> tickets + 1, used |-> FALSE, attempts |-> 0, age |-> "cold"]
    OBVIOUS
  <2>2. row \in Rows /\ row.attempts = 0 /\ row.ticket = tickets + 1 /\ row.status = "starting"
    BY <1>0, <2>1 DEF Rows, Open
  <2>3. CASE rows' = Append(rows, row) /\ tickets' = tickets + 1
    <3>1. /\ Len(rows) + 1 \in DOMAIN rows' /\ rows'[Len(rows) + 1] = row
          /\ \A i \in DOMAIN rows' : i # Len(rows) + 1 => i \in DOMAIN rows /\ rows'[i] = rows[i]
      BY <1>0, <2>2, <2>3, Appended
    <3>2. Len(rows') \in Nat /\ DOMAIN rows' = 1..Len(rows')
      BY <1>1, LenProperties
    <3>3. Len(rows) + 1 <= Len(rows')
      BY <1>0, <3>1, <3>2
    <3>4. Len(rows) <= Len(rows') /\ DOMAIN rows \subseteq DOMAIN rows' /\ tickets <= tickets'
      BY <1>0, <2>3, <3>2, <3>3
    <3>5. "starting" # Blank
      BY Zenon DEF Blank
    <3>6. RowSound(row, tickets')
      BY <1>0, <2>2, <2>3, <3>5 DEF RowSound
    <3>7. \A i \in DOMAIN rows : rows[i].ticket \in Nat
      BY <1>0 DEF Rows
    <3>8. \A i \in DOMAIN rows : RowSound(rows[i], tickets')
      BY <1>0, <2>3, <3>7 DEF RowSound
    <3>9. \A i \in DOMAIN rows' : RowSound(rows'[i], tickets')
      BY <3>1, <3>6, <3>8
    <3>10. \A i \in DOMAIN rows : rows'[i] = rows[i]
      BY <1>0, <3>1, <3>4
    <3>11. \A i \in DOMAIN rows' : i \notin DOMAIN rows => rows'[i].attempts = 0
      BY <2>2, <3>1
    <3>12. QED
      BY <1>1, <3>4, <3>9, <3>10, <3>11 DEF RowMoves
  <2>4. QED
    BY <1>2, <1>3, <2>1, <2>3 DEF Insert
<1>4. CASE Issue(r)
  <2>1. PICK i : i = req[r].row
    OBVIOUS
  <2>2. PICK new : new = [rows[i] EXCEPT !.ticket = tickets + 1, !.used = FALSE]
    OBVIOUS
  <2>3. rows' = [rows EXCEPT ![i] = new] /\ tickets' = tickets + 1
    BY <1>0, <1>4, <2>1, <2>2 DEF Issue
  <2>4. i \in DOMAIN rows => new.status = rows[i].status /\ new.ticket = tickets + 1 /\ new.attempts = rows[i].attempts
    BY <1>0, <2>2 DEF Rows
  <2>5. i \in DOMAIN rows => RowSound(new, tickets')
    BY <1>0, <2>3, <2>4 DEF RowSound
  <2>6. tickets <= tickets'
    BY <1>0, <2>3
  <2>7. QED
    BY <1>1, <2>3, <2>4, <2>5, <2>6, OneRowMoves
<1>5. CASE Touch(r) \/ SpawnFails(r)
  <2>1. PICK i : i = req[r].row
    OBVIOUS
  <2>2. PICK new : new = [rows[i] EXCEPT !.attempts = rows[i].attempts + 1, !.age = "hot"]
    OBVIOUS
  <2>3. rows' = [rows EXCEPT ![i] = new] /\ tickets' = tickets /\ req[r].pc = "touch"
    BY <1>0, <1>5, <2>1, <2>2 DEF Touch, SpawnFails, Touched
  <2>4. i \in DOMAIN rows => new.status = rows[i].status /\ new.ticket = rows[i].ticket /\ new.attempts = rows[i].attempts + 1
    BY <1>0, <2>2 DEF Rows
  <2>5. i \in DOMAIN rows => RowSound(new, tickets')
    BY <1>0, <2>3, <2>4 DEF RowSound
  <2>6. i \in DOMAIN rows => rows'[i] = new
    BY <1>0, <2>3
  <2>7. i \in DOMAIN rows => Attempted(r, i)
    BY <1>5, <2>1, <2>3, <2>4, <2>6 DEF Attempted
  <2>8. tickets <= tickets'
    BY <1>0, <2>3
  <2>9. QED
    BY <1>1, <2>3, <2>5, <2>7, <2>8, OneRowMoves
<1>6. CASE MarkStatus(r)
  <2>1. PICK i, to : i = req[r].row /\ to = req[r].to
    OBVIOUS
  <2>2. PICK new : new = [rows[i] EXCEPT !.status = to]
    OBVIOUS
  <2>3. rows' = rows \/ rows' = [rows EXCEPT ![i] = new]
    BY <1>0, <1>6, <2>1, <2>2 DEF MarkStatus
  <2>4. tickets' = tickets /\ to # Blank
    BY <1>0, <1>6, <2>1 DEF MarkStatus, Fits
  <2>5. i \in DOMAIN rows => new.status = to /\ new.ticket = rows[i].ticket /\ new.attempts = rows[i].attempts
    BY <1>0, <2>2 DEF Rows
  <2>6. i \in DOMAIN rows => RowSound(new, tickets')
    BY <1>0, <2>4, <2>5 DEF RowSound
  <2>7. tickets <= tickets'
    BY <1>0, <2>4
  <2>8. QED
    BY <1>1, <1>2, <2>3, <2>4, <2>5, <2>6, <2>7, OneRowMoves
<1>7. QED
  BY <1>2, <1>3, <1>4, <1>5, <1>6
     DEF Step, Get, Lock, Enter, Query, QueryForced, Rebootstrap, RedisFails, Arrive

-----------------------------------------------------------------------------
(* The sums after a step of a request *)

\* The counters of a step of a request.
CountMoves ==
  /\ count' \in Counts /\ count'.forces \in {count.forces, count.forces + 1}
  /\ count'.requests \in {count.requests, count.requests + 1} /\ count'.requests <= MaxRequests

LEMMA SameCounts ==
  ASSUME BoundInv, count' = count
  PROVE  CountMoves
BY DEF BoundInv, KeysFit, Counted, Counts, CountMoves

LEMMA HappensMoves ==
  ASSUME BoundInv, NEW what \in {"forces", "expiries", "faults", "downs"}, Happens(what)
  PROVE  CountMoves
BY DEF BoundInv, KeysFit, Counted, Counts, CountMoves, Happens

LEMMA CountsMove ==
  ASSUME BoundInv, NEW r \in Slots,
         Step(r) \/ Rebootstrap(r) \/ RedisFails(r) \/ SpawnFails(r) \/ \E k \in Keys \cup {NoKey} : Arrive(r, k)
  PROVE  CountMoves
<1>1. Step(r) => count' = count
  BY DEF Step, Get, Lock, Enter, Query, QueryForced, Insert, Issue, Touch, MarkStatus
<1>2. Rebootstrap(r) \/ RedisFails(r) \/ SpawnFails(r) => \E what \in {"forces", "faults"} : Happens(what)
  BY DEF Rebootstrap, RedisFails, SpawnFails
<1>3. ASSUME NEW k, Arrive(r, k) PROVE CountMoves
  <2>1. count.requests < MaxRequests /\ count' = [count EXCEPT !.requests = count.requests + 1] /\ count \in Counts
    BY <1>3 DEF Arrive, BoundInv, Counted
  <2>2. count' \in Counts /\ count'.forces = count.forces /\ count'.requests = count.requests + 1
    BY <2>1 DEF Counts
  <2>3. count'.requests <= MaxRequests
    BY <2>1, <2>2, AccessAssumption DEF Counts
  <2>4. QED
    BY <2>2, <2>3 DEF CountMoves
<1>4. QED
  BY <1>1, <1>2, <1>3, SameCounts, HappensMoves

\* The attempts of a row and those that may come.
LEMMA StillTried ==
  ASSUME BoundInv, NEW r \in Slots, NEW q, Moves(r, q), RowMoves(r), CountMoves, NEW i \in DOMAIN rows'
  PROVE  Tried(i)'
<1>0. /\ req \in [Slots -> Requests] /\ count.forces \in Nat /\ count'.forces \in Nat /\ Cardinality(Slots) \in Nat
      /\ MaxAttempts \in Nat \ {0} /\ req' = [req EXCEPT ![r] = q]
      /\ count'.forces = count.forces \/ count'.forces = count.forces + 1
  BY Numbers DEF CountMoves, Counts, Moves
<1>1. /\ IsFiniteSet(Pending(i)) /\ Cardinality(Pending(i)) \in Nat
      /\ Cardinality(Pending(i)') \in Nat /\ Cardinality(Pending(i)') <= Cardinality(Slots)
  BY PendingFinite, PendingFiniteLater
<1>2. CASE i \notin DOMAIN rows
  <2>1. rows'[i].attempts = 0
    BY <1>2 DEF RowMoves
  <2>2. QED
    BY <1>0, <1>1, <2>1 DEF Tried, AttemptLimit
<1>3. CASE i \in DOMAIN rows
  <2>1. /\ rows[i].attempts \in Nat /\ rows[i].attempts + Cardinality(Pending(i)) <= AttemptLimit
    BY <1>3, RowsSound DEF BoundInv, RowsFit, Tried
  <2>2. \A s \in Slots : s # r => req'[s] = req[s]
    BY <1>0
  <2>3. req'[r] = q
    BY <1>0
  <2>4. CASE Attempted(r, i)
    <3>1. rows'[i].attempts = rows[i].attempts + 1 /\ r \in Pending(i)
      BY <2>4 DEF Attempted, Pending, Claim
    <3>2. ~ Claim(q, i)
      BY <2>4 DEF Attempted, Moves, Claim, Bootstrapping
    <3>3. Pending(i)' \subseteq Pending(i) \ {r}
      BY <2>2, <2>3, <3>2 DEF Pending
    <3>4. IsFiniteSet(Pending(i) \ {r}) /\ Cardinality(Pending(i) \ {r}) = Cardinality(Pending(i)) - 1
      BY <1>1, <3>1, FS_RemoveElement
    <3>5. Cardinality(Pending(i)') <= Cardinality(Pending(i) \ {r})
      BY <3>3, <3>4, FS_Subset
    <3>6. QED
      BY <1>0, <1>1, <2>1, <3>1, <3>4, <3>5 DEF Tried, AttemptLimit
  <2>5. CASE rows'[i].attempts = rows[i].attempts
    <3>1. CASE Claim(q, i) => Claim(req[r], i)
      <4>1. Pending(i)' \subseteq Pending(i)
        BY <2>2, <2>3, <3>1 DEF Pending
      <4>2. Cardinality(Pending(i)') <= Cardinality(Pending(i))
        BY <1>1, <4>1, FS_Subset
      <4>3. QED
        BY <1>0, <1>1, <2>1, <2>5, <4>2 DEF Tried, AttemptLimit
    <3>2. CASE rows[i].attempts < MaxAttempts
      BY <1>0, <1>1, <2>1, <2>5, <3>2 DEF Tried, AttemptLimit
    <3>3. CASE count'.forces = count.forces + 1
      <4>1. Pending(i)' \subseteq Pending(i) \cup {r}
        BY <2>2 DEF Pending
      <4>2. /\ IsFiniteSet(Pending(i) \cup {r})
            /\ Cardinality(Pending(i) \cup {r}) = IF r \in Pending(i) THEN Cardinality(Pending(i)) ELSE Cardinality(Pending(i)) + 1
        BY <1>1, FS_AddElement
      <4>3. Cardinality(Pending(i)') <= Cardinality(Pending(i) \cup {r})
        BY <4>1, <4>2, FS_Subset
      <4>4. QED
        BY <1>0, <1>1, <2>1, <2>5, <3>3, <4>2, <4>3 DEF Tried, AttemptLimit
    <3>4. QED
      BY <1>3, <3>1, <3>2, <3>3 DEF Moves
  <2>6. QED
    BY <1>3, <2>4, <2>5 DEF RowMoves
<1>4. QED
  BY <1>2, <1>3

\* The executions under a key and the requests that may still become one.
LEMMA StillServed ==
  ASSUME BoundInv, NEW r \in Slots, NEW q, Moves(r, q), CountMoves, NEW k \in Keys,
         \/ executed'[k] = executed[k]
         \/ executed'[k] = executed[k] + 1 /\ req[r].key = k /\ req'[r].key # k
  PROVE  Served(k)'
<1>0. /\ req \in [Slots -> Requests] /\ count.requests \in Nat /\ req' = [req EXCEPT ![r] = q]
      /\ count'.requests = count.requests \/ count'.requests = count.requests + 1
      /\ executed[k] \in Nat /\ executed[k] + Cardinality(Asking(k)) <= count.requests
  BY Numbers DEF CountMoves, Counts, Moves, BoundInv, Counted, KeysFit, Served
<1>1. IsFiniteSet(Asking(k)) /\ Cardinality(Asking(k)) \in Nat /\ Cardinality(Asking(k)') \in Nat
  BY AskingFinite, AskingFiniteLater
<1>2. req'[r] = q /\ \A s \in Slots : s # r => req'[s] = req[s]
  BY <1>0
<1>3. CASE executed'[k] = executed[k] + 1 /\ req[r].key = k /\ req'[r].key # k
  <2>1. r \in Asking(k) /\ Asking(k)' \subseteq Asking(k) \ {r}
    BY <1>2, <1>3 DEF Asking
  <2>2. IsFiniteSet(Asking(k) \ {r}) /\ Cardinality(Asking(k) \ {r}) = Cardinality(Asking(k)) - 1
    BY <1>1, <2>1, FS_RemoveElement
  <2>3. Cardinality(Asking(k)') <= Cardinality(Asking(k) \ {r})
    BY <2>1, <2>2, FS_Subset
  <2>4. QED
    BY <1>0, <1>1, <1>3, <2>2, <2>3 DEF Served
<1>4. CASE executed'[k] = executed[k] /\ (q.key = k => req[r].key = k)
  <2>1. Asking(k)' \subseteq Asking(k)
    BY <1>2, <1>4 DEF Asking
  <2>2. Cardinality(Asking(k)') <= Cardinality(Asking(k))
    BY <1>1, <2>1, FS_Subset
  <2>3. QED
    BY <1>0, <1>1, <1>4, <2>2 DEF Served
<1>5. CASE executed'[k] = executed[k] /\ count'.requests = count.requests + 1
  <2>1. Asking(k)' \subseteq Asking(k) \cup {r}
    BY <1>2 DEF Asking
  <2>2. /\ IsFiniteSet(Asking(k) \cup {r})
        /\ Cardinality(Asking(k) \cup {r}) = IF r \in Asking(k) THEN Cardinality(Asking(k)) ELSE Cardinality(Asking(k)) + 1
    BY <1>1, FS_AddElement
  <2>3. Cardinality(Asking(k)') <= Cardinality(Asking(k) \cup {r})
    BY <2>1, <2>2, FS_Subset
  <2>4. QED
    BY <1>0, <1>1, <1>5, <2>2, <2>3 DEF Served
<1>6. q.key = k => req[r].key = k \/ count'.requests = count.requests + 1
  BY DEF Moves
<1>7. QED
  BY <1>3, <1>4, <1>5, <1>6

\* How a step of a request leaves the responses to be stored and the executions.
Closing(r) == Refuse(r) \/ Admit(r) \/ UNCHANGED <<saving, executed>>

LEMMA Closes ==
  ASSUME NEW r \in Slots,
         Step(r) \/ Rebootstrap(r) \/ RedisFails(r) \/ SpawnFails(r) \/ \E k \in Keys \cup {NoKey} : Arrive(r, k)
  PROVE  Closing(r)
<1>1. ASSUME NEW status, Answer(r, status) PROVE Closing(r)
  BY <1>1 DEF Answer, Closing
<1>2. CASE UNCHANGED <<saving, executed>>
  BY <1>2 DEF Closing
<1>3. CASE Query(r)
  BY <1>1, <1>2, <1>3 DEF Query, web
<1>4. CASE Insert(r)
  BY <1>2, <1>4 DEF Insert, Closing
<1>5. CASE MarkStatus(r)
  BY <1>1, <1>5 DEF MarkStatus, Closing
<1>6. CASE SpawnFails(r)
  BY <1>1, <1>2, <1>6 DEF SpawnFails, web
<1>7. QED
  BY <1>2, <1>3, <1>4, <1>5, <1>6
     DEF Step, Get, Lock, Enter, QueryForced, Issue, Touch, Rebootstrap, RedisFails, Arrive, web

LEMMA CacheMoves ==
  ASSUME BoundInv, NEW r \in Slots,
         Step(r) \/ Rebootstrap(r) \/ RedisFails(r) \/ SpawnFails(r) \/ \E k \in Keys \cup {NoKey} : Arrive(r, k)
  PROVE  CacheFits'
<1>0. /\ Fits(req[r]) /\ cache \in [Keys -> {"none", "processing", "refused"}] /\ saving \subseteq Keys
  BY Numbers DEF BoundInv, CacheFits
<1>1. saving' \subseteq Keys
  <2>1. CASE Refuse(r)
    BY <1>0, <2>1 DEF Refuse, Fits
  <2>2. CASE Admit(r) \/ UNCHANGED <<saving, executed>>
    BY <1>0, <2>2 DEF Admit
  <2>3. QED
    BY <2>1, <2>2, Closes DEF Closing
<1>2. cache' = cache \/ cache' = [cache EXCEPT ![req[r].key] = "processing"]
  <2>1. ASSUME NEW status, Answer(r, status) PROVE cache' = cache
    BY <2>1 DEF Answer
  <2>2. CASE Query(r) \/ MarkStatus(r) \/ SpawnFails(r)
    BY <2>1, <2>2 DEF Query, MarkStatus, SpawnFails, web
  <2>3. CASE Lock(r) \/ RedisFails(r)
    BY <2>3 DEF Lock, RedisFails
  <2>4. QED
    BY <2>2, <2>3 DEF Step, Get, Enter, QueryForced, Insert, Issue, Touch, Rebootstrap, Arrive, web
<1>3. cache' \in [Keys -> {"none", "processing", "refused"}]
  BY <1>0, <1>2
<1>4. QED
  BY <1>1, <1>3 DEF CacheFits

LEMMA ProcessesMove ==
  ASSUME BoundInv, NEW r \in Slots, RowMoves(r),
         Step(r) \/ Rebootstrap(r) \/ RedisFails(r) \/ SpawnFails(r) \/ \E k \in Keys \cup {NoKey} : Arrive(r, k)
  PROVE  ProcessesFit'
<1>0. /\ req[r] \in Requests /\ Fits(req[r]) /\ tickets \in Nat /\ tickets' \in Nat /\ tickets <= tickets'
      /\ \A p \in DOMAIN procs : 1 <= procs[p].ticket /\ procs[p].ticket <= tickets /\ procs[p].ticket \in Nat
      /\ \A s \in scripts : 1 <= s.ticket /\ s.ticket <= tickets /\ s.ticket \in Nat
      /\ conn <= Len(procs) /\ marks \in [{"ready", "disconnected"} -> Nat]
  BY Numbers, Fields DEF BoundInv, ProcessesFit, RowMoves, ReqInv, Shape, Scripts
<1>1. procs' = procs /\ conn' = conn
  BY RowsReq DEF BoundInv
<1>2. marks' = marks
  BY DEF Step, Get, Lock, Enter, Query, QueryForced, Insert, Issue, Touch, MarkStatus, Rebootstrap, RedisFails, SpawnFails, Arrive, plane
<1>3. \A s \in scripts' : s \in scripts \/ (Touch(r) /\ s.ticket = req[r].ticket)
  <2>1. CASE scripts' = scripts
    BY <2>1
  <2>2. CASE Touch(r)
    BY <2>2 DEF Touch
  <2>3. QED
    BY <2>1, <2>2 DEF Step, Get, Lock, Enter, Query, QueryForced, Insert, Issue, MarkStatus, Rebootstrap, RedisFails, SpawnFails, Arrive, plane
<1>4. Touch(r) => 1 <= req[r].ticket /\ req[r].ticket <= tickets /\ req[r].ticket \in Nat
  BY <1>0 DEF Touch, Fits, Requests
<1>5. \A s \in scripts' : 1 <= s.ticket /\ s.ticket <= tickets'
  BY <1>0, <1>3, <1>4
<1>6. \A p \in DOMAIN procs : 1 <= procs[p].ticket /\ procs[p].ticket <= tickets'
  BY <1>0
<1>7. QED
  BY <1>0, <1>1, <1>2, <1>5, <1>6 DEF ProcessesFit

\* A step of a request keeps the bounds.
LEMMA RequestBounds ==
  ASSUME BoundInv, NEW r \in Slots,
         Step(r) \/ Rebootstrap(r) \/ RedisFails(r) \/ SpawnFails(r) \/ \E k \in Keys \cup {NoKey} : Arrive(r, k)
  PROVE  RequestsFit' /\ RowsFit' /\ KeysFit' /\ ProcessesFit' /\ CacheFits'
<1>1. RowMoves(r) /\ CountMoves
  BY RowsMove, CountsMove
<1>2. procs' = procs
  BY RowsReq DEF BoundInv
<1>3. PICK q : Moves(r, q)
  BY <1>1, <1>2, RequestMoves DEF RowMoves
<1>4. req' = [req EXCEPT ![r] = q] /\ req \in [Slots -> Requests] /\ Fits(q)'
  BY <1>3, Numbers DEF Moves
<1>5. RequestsFit'
  <2>1. ASSUME NEW s \in Slots, s # r PROVE Fits(req[s])'
    <3>1. /\ req'[s] = req[s] /\ req[s] \in Requests /\ Fits(req[s]) /\ tickets \in Nat /\ Len(rows) \in Nat
      BY <1>4, <2>1, Numbers
    <3>2. req[s].row \in Nat /\ req[s].ticket \in Nat /\ req[s].row <= Len(rows) /\ req[s].ticket <= tickets
      BY <3>1 DEF Requests, Fits
    <3>3. Len(rows) <= Len(rows') /\ tickets <= tickets' /\ tickets' \in Nat /\ Len(rows') \in Nat
      BY <1>1, LenProperties DEF RowMoves
    <3>4. req[s].row <= Len(rows') /\ req[s].ticket <= tickets'
      BY <3>1, <3>2, <3>3
    <3>5. QED
      BY <1>2, <3>1, <3>4 DEF Fits
  <2>2. Fits(req[r])'
    BY <1>4
  <2>3. QED
    BY <2>1, <2>2 DEF RequestsFit
<1>6. RowsFit'
  BY <1>1, <1>3, StillTried DEF RowsFit, RowMoves, RowFits, RowSound
<1>7. KeysFit'
  <2>1. ASSUME NEW k \in Keys PROVE Served(k)'
    <3>1. executed' = executed \/ Admit(r)
      BY Closes DEF Closing, Refuse
    <3>2. CASE executed' = executed
      BY <1>1, <1>3, <3>2, StillServed
    <3>3. CASE Admit(r)
      <4>1. /\ executed'[k] = IF k = req[r].key THEN executed[k] + 1 ELSE executed[k]
            /\ req'[r] = Idle
        BY <1>4, <3>3 DEF Admit
      <4>2. Idle.key # k
        BY IdleFields, AccessAssumption
      <4>3. QED
        BY <1>1, <1>3, <4>1, <4>2, StillServed
    <3>4. QED
      BY <3>1, <3>2, <3>3
  <2>2. QED
    BY <1>1, <2>1 DEF KeysFit, CountMoves
<1>8. QED
  BY <1>1, <1>5, <1>6, <1>7, ProcessesMove, CacheMoves

-----------------------------------------------------------------------------
(* The bounds after every other step *)

Elsewhere ==
  \/ \E k \in Keys : Save(k) \/ SaveFails(k) \/ Expire(k)
  \/ \E s \in scripts : Script(s)
  \/ \E p \in DOMAIN procs : Runtime(p) \/ Break(p)
  \/ \E status \in {"ready", "disconnected"} : Marked(status)
  \/ Elapse \/ Down

Tally == [{"ready", "disconnected"} -> Nat]

LEMMA NoTally == [ready |-> 0, disconnected |-> 0] \in Tally
BY DEF Tally

LEMMA SendTally ==
  ASSUME marks \in Tally, NEW status \in {"ready", "disconnected"}, Send(status)
  PROVE  marks' \in Tally
BY DEF Send, Tally

LEMMA UnlinkedFits ==
  ASSUME marks \in Tally, Unlinked
  PROVE  marks' \in Tally /\ conn' \in {conn, 0}
BY SendTally DEF Unlinked

\* The rows keep their tickets and attempts.
RowsKept ==
  /\ DOMAIN rows' = DOMAIN rows
  /\ \A i \in DOMAIN rows : rows'[i].ticket = rows[i].ticket /\ rows'[i].attempts = rows[i].attempts /\ rows'[i].status # Blank

LEMMA ElsewhereRows ==
  ASSUME BoundInv, Elsewhere
  PROVE  RowsKept
<1>0. /\ DOMAIN rows = 1..Len(rows) /\ \A i \in DOMAIN rows : rows[i] \in Rows /\ rows[i].status # Blank
  BY Numbers, RowsSound DEF RowSound
<1>1. CASE rows' = rows
  BY <1>0, <1>1 DEF RowsKept
<1>2. CASE \E p \in DOMAIN procs : Consume(p)
  <2>1. PICK i \in DOMAIN rows : rows' = [rows EXCEPT ![i].used = TRUE]
    BY <1>2 DEF Consume, OpenRows
  <2>2. \A j \in DOMAIN rows : rows'[j].ticket = rows[j].ticket /\ rows'[j].attempts = rows[j].attempts /\ rows'[j].status = rows[j].status
    BY <1>0, <2>1 DEF Rows
  <2>3. DOMAIN rows' = DOMAIN rows
    BY <2>1
  <2>4. QED
    BY <1>0, <2>2, <2>3 DEF RowsKept
<1>3. CASE Elapse
  <2>1. rows' = [i \in DOMAIN rows |-> [rows[i] EXCEPT !.age = Older(rows[i].age)]]
    BY <1>3 DEF Elapse
  <2>2. \A j \in DOMAIN rows : rows'[j].ticket = rows[j].ticket /\ rows'[j].attempts = rows[j].attempts /\ rows'[j].status = rows[j].status
    BY <1>0, <2>1 DEF Rows
  <2>3. DOMAIN rows' = DOMAIN rows
    BY <2>1
  <2>4. QED
    BY <1>0, <2>2, <2>3 DEF RowsKept
<1>4. ASSUME NEW status \in {"ready", "disconnected"}, Marked(status) PROVE RowsKept
  <2>1. rows' = [i \in DOMAIN rows |-> IF i \in OpenRows THEN [rows[i] EXCEPT !.status = status] ELSE rows[i]]
    BY <1>4 DEF Marked
  <2>2. \A j \in DOMAIN rows : /\ rows'[j].ticket = rows[j].ticket /\ rows'[j].attempts = rows[j].attempts
                               /\ rows'[j].status \in {rows[j].status, status}
    BY <1>0, <2>1 DEF Rows
  <2>3. DOMAIN rows' = DOMAIN rows
    BY <2>1
  <2>4. status # Blank
    BY <1>4, Zenon DEF Blank
  <2>5. QED
    BY <1>0, <2>2, <2>3, <2>4 DEF RowsKept
<1>5. QED
  BY <1>1, <1>2, <1>3, <1>4
     DEF Elsewhere, Save, SaveFails, Expire, Script, Runtime, Refused, Readmit, Break, Down, plane

\* A process that is started has the ticket of its script.
ProcsKept ==
  /\ DOMAIN procs \subseteq DOMAIN procs'
  /\ \A p \in DOMAIN procs' : \/ p \in DOMAIN procs /\ procs'[p].ticket = procs[p].ticket
                              \/ \E s \in scripts : procs'[p].ticket = s.ticket

LEMMA ElsewhereProcs ==
  ASSUME BoundInv, Elsewhere
  PROVE  ProcsKept
<1>0. /\ procs \in Seq(Procs) /\ Len(procs) \in Nat /\ DOMAIN procs = 1..Len(procs) /\ \A p \in DOMAIN procs : procs[p] \in Procs
      /\ scripts \subseteq Scripts
  BY Numbers, Fields DEF BoundInv, ReqInv, Shape
<1>1. CASE procs' = procs
  BY <1>1 DEF ProcsKept
<1>2. ASSUME NEW p \in DOMAIN procs, NEW st, Moved(p, st) PROVE ProcsKept
  BY <1>0, <1>2 DEF Moved, ProcsKept, Procs
<1>3. CASE \E p \in DOMAIN procs : Consume(p)
  BY <1>0, <1>3 DEF Consume, ProcsKept, Procs
<1>4. CASE \E p \in DOMAIN procs : Refused(p) \/ Readmit(p) \/ Break(p)
  BY <1>2, <1>4 DEF Refused, Readmit, Break
<1>5. CASE \E s \in scripts : Script(s)
  <2>1. PICK s \in scripts : Script(s)
    BY <1>5
  <2>2. PICK killed, new : /\ killed = [p \in DOMAIN procs |-> [procs[p] EXCEPT !.st = "dead"]]
                           /\ new = [ticket |-> s.ticket, st |-> "starting", admitted |-> FALSE]
    OBVIOUS
  <2>3. \A p \in DOMAIN procs : killed[p] \in Procs /\ killed[p].ticket = procs[p].ticket
    BY <1>0, <2>2 DEF Procs
  <2>4. killed \in [1..Len(procs) -> Procs]
    BY <1>0, <2>2, <2>3
  <2>5. killed \in Seq(Procs) /\ Len(killed) = Len(procs) /\ DOMAIN killed = DOMAIN procs
    BY <1>0, <2>4, SeqDef, LenProperties
  <2>6. new \in Procs /\ new.ticket = s.ticket
    BY <1>0, <2>1, <2>2 DEF Procs, Scripts
  <2>7. procs' = procs \/ procs' = Append(killed, new)
    BY <2>1, <2>2 DEF Script
  <2>8. CASE procs' = Append(killed, new)
    <3>1. /\ procs'[Len(killed) + 1] = new
          /\ \A p \in DOMAIN procs' : p # Len(killed) + 1 => p \in DOMAIN killed /\ procs'[p] = killed[p]
      BY <2>5, <2>6, <2>8, Appended
    <3>2. procs' \in Seq(Procs) /\ Len(procs') = Len(killed) + 1
      BY <2>5, <2>6, <2>8, AppendProperties
    <3>3. DOMAIN procs' = 1..(Len(procs) + 1)
      BY <2>5, <3>2, LenProperties
    <3>4. DOMAIN procs \subseteq DOMAIN procs'
      BY <1>0, <3>3
    <3>5. \A p \in DOMAIN procs' : \/ p \in DOMAIN procs /\ procs'[p].ticket = procs[p].ticket
                                   \/ procs'[p].ticket = s.ticket
      BY <2>3, <2>5, <2>6, <3>1
    <3>6. QED
      BY <2>1, <3>4, <3>5 DEF ProcsKept
  <2>9. QED
    BY <1>1, <2>7, <2>8
<1>6. CASE Down
  <2>1. PICK st \in {"starting", "dead"} :
          procs' = [p \in DOMAIN procs |-> [procs[p] EXCEPT !.st = CASE @ = "linked" -> "cut" [] @ = "starting" -> st [] OTHER -> @]]
    BY <1>6 DEF Down
  <2> DEFINE to(p) == CASE procs[p].st = "linked" -> "cut" [] procs[p].st = "starting" -> st [] OTHER -> procs[p].st
  <2>2. procs' = [p \in DOMAIN procs |-> [procs[p] EXCEPT !.st = to(p)]]
    BY <2>1
  <2> HIDE DEF to
  <2>3. QED
    BY <1>0, <2>2 DEF ProcsKept, Procs
<1>7. QED
  BY <1>1, <1>3, <1>4, <1>5, <1>6 DEF Elsewhere, Save, SaveFails, Expire, Runtime, Marked, Elapse, plane

LEMMA ElsewhereProcesses ==
  ASSUME BoundInv, Elsewhere, tickets' = tickets, scripts' \subseteq scripts, procs' \in Seq(Procs)
  PROVE  ProcessesFit' /\ Len(procs) <= Len(procs')
<1>0. /\ conn \in Nat /\ conn <= Len(procs) /\ marks \in Tally /\ Len(procs) \in Nat /\ DOMAIN procs = 1..Len(procs)
      /\ \A p \in DOMAIN procs : 1 <= procs[p].ticket /\ procs[p].ticket <= tickets
      /\ \A s \in scripts : 1 <= s.ticket /\ s.ticket <= tickets
  BY Numbers DEF BoundInv, ProcessesFit, Tally
<1>1. Len(procs') \in Nat /\ DOMAIN procs' = 1..Len(procs')
  BY LenProperties
<1>2. Len(procs) <= Len(procs')
  BY <1>0, <1>1, ElsewhereProcs DEF ProcsKept
<1>3. \A p \in DOMAIN procs' : 1 <= procs'[p].ticket /\ procs'[p].ticket <= tickets
  BY <1>0, ElsewhereProcs DEF ProcsKept
<1>4. (conn' \in {conn, 0} \/ conn' \in DOMAIN procs) /\ marks' \in Tally
  <2>1. CASE UNCHANGED <<conn, marks>>
    BY <1>0, <2>1
  <2>2. CASE Unlinked
    BY <1>0, <2>2, UnlinkedFits
  <2>3. ASSUME NEW p \in DOMAIN procs, Linked(p) PROVE conn' \in DOMAIN procs /\ marks' \in Tally
    BY <1>0, <2>3, SendTally DEF Linked
  <2>4. ASSUME NEW status \in {"ready", "disconnected"}, Marked(status)
        PROVE  conn' = conn /\ marks' \in Tally
    BY <1>0, <2>4 DEF Marked, Tally
  <2>5. CASE Down
    BY <2>5, NoTally DEF Down
  <2>6. CASE \E s \in scripts : Script(s)
    BY <2>1, <2>2, <2>6 DEF Script
  <2>7. CASE \E p \in DOMAIN procs : Runtime(p) \/ Break(p)
    BY <2>1, <2>2, <2>3, <2>7 DEF Runtime, Consume, Refused, Readmit, Break
  <2>8. CASE Elapse \/ \E k \in Keys : Save(k) \/ SaveFails(k) \/ Expire(k)
    BY <2>1, <2>8 DEF Elapse, Save, SaveFails, Expire, plane
  <2>9. QED
    BY <2>4, <2>5, <2>6, <2>7, <2>8 DEF Elsewhere
<1>5. conn' <= Len(procs')
  BY <1>0, <1>1, <1>2, <1>4
<1>6. QED
  BY <1>0, <1>2, <1>3, <1>4, <1>5 DEF ProcessesFit, Tally

LEMMA ElsewhereBounds ==
  ASSUME BoundInv, Elsewhere
  PROVE  RequestsFit' /\ RowsFit' /\ KeysFit' /\ ProcessesFit' /\ CacheFits'
<1>0. /\ req \in [Slots -> Requests] /\ rows' \in Seq(Rows) /\ procs' \in Seq(Procs) /\ scripts' \subseteq scripts
      /\ DOMAIN rows = 1..Len(rows) /\ Len(rows) \in Nat /\ tickets \in Nat /\ count \in Counts
  BY Numbers, Others DEF Elsewhere, BoundInv, Counted, ReqInv, Shape
<1>1. (req' = req \/ req' = [r \in Slots |-> Idle]) /\ tickets' = tickets /\ executed' = executed
  BY DEF Elsewhere, Save, SaveFails, Expire, Script, Runtime, Consume, Refused, Readmit, Break, Marked, Elapse, Down, web, plane
<1>2. RowsKept /\ ProcessesFit' /\ Len(procs) <= Len(procs')
  BY <1>0, <1>1, ElsewhereRows, ElsewhereProcesses
<1>3. Len(rows') = Len(rows) /\ DOMAIN rows' = DOMAIN rows
  <2>1. DOMAIN rows' = 1..Len(rows') /\ Len(rows') \in Nat /\ DOMAIN rows' = DOMAIN rows
    BY <1>0, <1>2, LenProperties DEF RowsKept
  <2>2. Len(rows') <= Len(rows)
    BY <1>0, <2>1
  <2>3. Len(rows) <= Len(rows')
    BY <1>0, <2>1
  <2>4. Len(rows') \in Nat /\ Len(rows) \in Nat
    BY <1>0, <2>1
  <2>5. Len(rows') = Len(rows)
    BY <2>2, <2>3, <2>4
  <2>6. QED
    BY <2>1, <2>5
<1>4. count'.requests = count.requests /\ count'.forces = count.forces
  <2>1. ASSUME NEW what \in {"expiries", "faults", "downs"}, Happens(what)
        PROVE  count'.requests = count.requests /\ count'.forces = count.forces
    BY <1>0, <2>1 DEF Happens, Counts
  <2>2. CASE count' = count
    BY <2>2
  <2>3. count' = count \/ \E what \in {"expiries", "faults", "downs"} : Happens(what)
    BY DEF Elsewhere, Save, SaveFails, Expire, Script, Runtime, Consume, Refused, Readmit, Break, Marked, Elapse, Down
  <2>4. QED
    BY <2>1, <2>2, <2>3
<1>5. RequestsFit'
  <2>1. ASSUME NEW r \in Slots PROVE Fits(req[r])'
    <3>1. CASE req' = req
      <4>1. req[r] \in Requests /\ Fits(req[r]) /\ Len(procs) \in Nat /\ Len(procs') \in Nat
        BY <1>0, Numbers, LenProperties
      <4>2. req[r].knew \in Nat /\ req[r].knew <= Len(procs)
        BY <4>1 DEF Requests, Fits
      <4>3. req[r].knew <= Len(procs')
        BY <1>2, <4>1, <4>2
      <4>4. QED
        BY <1>1, <1>3, <3>1, <4>1, <4>3 DEF Fits
    <3>2. CASE req' = [s \in Slots |-> Idle]
      <4>1. req'[r] = Idle /\ Len(procs') \in Nat /\ MaxPolls \in Nat
        BY <1>0, <3>2, Numbers, LenProperties
      <4>2. QED
        BY <1>0, <1>1, <1>3, <4>1, IdleFields DEF Fits
    <3>3. QED
      BY <1>1, <3>1, <3>2
  <2>2. QED
    BY <2>1 DEF RequestsFit
<1>6. RowsFit'
  <2>1. ASSUME NEW i \in DOMAIN rows PROVE Tried(i)'
    <3>1. rows'[i].attempts = rows[i].attempts /\ rows[i].attempts \in Nat /\ Tried(i)
      BY <1>2, RowsSound DEF RowsKept, BoundInv, RowsFit
    <3>2. Pending(i)' \subseteq Pending(i)
      BY <1>1, IdleFields DEF Pending, Claim
    <3>3. IsFiniteSet(Pending(i)) /\ Cardinality(Pending(i)) \in Nat /\ Cardinality(Pending(i)') \in Nat
      BY PendingFinite, PendingFiniteLater
    <3>4. Cardinality(Pending(i)') <= Cardinality(Pending(i))
      BY <3>2, <3>3, FS_Subset
    <3>5. Cardinality(Slots) \in Nat /\ MaxAttempts \in Nat /\ count.forces \in Nat
      BY Numbers
    <3>6. QED
      BY <1>4, <3>1, <3>3, <3>4, <3>5 DEF Tried, AttemptLimit
  <2>2. ASSUME NEW i \in DOMAIN rows PROVE RowFits(rows[i])'
    BY <1>1, <1>2, RowsSound DEF RowsKept, RowSound, RowFits
  <2>3. QED
    BY <1>3, <2>1, <2>2 DEF RowsFit
<1>7. KeysFit'
  <2>1. ASSUME NEW k \in Keys PROVE Served(k)'
    <3>1. Asking(k)' \subseteq Asking(k)
      BY <1>1, IdleFields, AccessAssumption DEF Asking
    <3>2. IsFiniteSet(Asking(k)) /\ Cardinality(Asking(k)) \in Nat /\ Cardinality(Asking(k)') \in Nat
      BY AskingFinite, AskingFiniteLater
    <3>3. Cardinality(Asking(k)') <= Cardinality(Asking(k))
      BY <3>1, <3>2, FS_Subset
    <3>4. executed[k] \in Nat /\ Served(k) /\ count.requests \in Nat
      BY <1>0 DEF BoundInv, KeysFit, Counted, Counts
    <3>5. QED
      BY <1>1, <1>4, <3>2, <3>3, <3>4 DEF Served
  <2>2. QED
    BY <1>4, <2>1 DEF KeysFit, BoundInv
<1>8. CacheFits'
  <2>1. cache \in [Keys -> {"none", "processing", "refused"}] /\ saving \subseteq Keys
    BY DEF BoundInv, CacheFits
  <2>2. saving' \subseteq saving
    BY DEF Elsewhere, Save, SaveFails, Expire, Script, Runtime, Consume, Refused, Readmit, Break, Marked, Elapse, Down, web
  <2>3. cache' = cache \/ \E k \in Keys, v \in {"none", "refused"} : cache' = [cache EXCEPT ![k] = v]
    BY DEF Elsewhere, Save, SaveFails, Expire, Script, Runtime, Consume, Refused, Readmit, Break, Marked, Elapse, Down, web
  <2>4. cache' \in [Keys -> {"none", "processing", "refused"}]
    BY <2>1, <2>3
  <2>5. QED
    BY <2>1, <2>2, <2>4 DEF CacheFits
<1>9. QED
  BY <1>2, <1>5, <1>6, <1>7, <1>8

LEMMA InitBounds == Init => BoundInv
<1> SUFFICES ASSUME Init PROVE BoundInv
  OBVIOUS
<1>1. ReqInv
  BY InitReq
<1>2. Counted
  BY DEF Init, Counted, Counts
<1>3. RequestsFit
  <2>1. \A r \in Slots : req[r] = Idle
    BY DEF Init
  <2>2. Fits(Idle)
    <3>1. procs = <<>> /\ rows = <<>> /\ tickets = 0 /\ MaxPolls \in Nat
      BY AccessAssumption DEF Init
    <3>2. Len(procs) = 0 /\ Len(rows) = 0
      BY <3>1
    <3>3. QED
      BY <3>1, <3>2, IdleFields DEF Fits
  <2>3. QED
    BY <2>1, <2>2 DEF RequestsFit
<1>4. RowsFit
  BY DEF Init, RowsFit
<1>5. KeysFit
  <2>1. ASSUME NEW k \in Keys PROVE Served(k)
    <3>1. Asking(k) = {}
      BY IdleFields, AccessAssumption DEF Init, Asking
    <3>2. Cardinality(Asking(k)) = 0
      BY <3>1, FS_EmptySet
    <3>3. executed[k] = 0 /\ count.requests = 0
      BY DEF Init
    <3>4. QED
      BY <3>2, <3>3 DEF Served
  <2>2. count.requests <= MaxRequests
    BY AccessAssumption DEF Init
  <2>3. QED
    BY <2>1, <2>2 DEF KeysFit
<1>6. ProcessesFit
  BY NoTally DEF Init, ProcessesFit, Tally
<1>7. CacheFits
  BY DEF Init, CacheFits
<1>8. QED
  BY <1>1, <1>2, <1>3, <1>4, <1>5, <1>6, <1>7 DEF BoundInv

\* Nothing changes.
LEMMA SameBounds == BoundInv /\ UNCHANGED vars => RequestsFit' /\ RowsFit' /\ KeysFit' /\ ProcessesFit' /\ CacheFits'
BY DEF vars, BoundInv, RequestsFit, Fits, RowsFit, RowFits, Tried, Pending, Claim, AttemptLimit, KeysFit, Served, Asking, ProcessesFit, CacheFits

LEMMA BoundsType == BoundInv => TypeOK
<1> SUFFICES ASSUME BoundInv PROVE TypeOK
  OBVIOUS
<1>0. /\ rows \in Seq(Rows) /\ Len(rows) \in Nat /\ DOMAIN rows = 1..Len(rows) /\ procs \in Seq(Procs) /\ Len(procs) \in Nat
      /\ DOMAIN procs = 1..Len(procs) /\ tickets \in Nat /\ conn \in Nat /\ conn <= Len(procs) /\ req \in [Slots -> Requests]
      /\ \A p \in DOMAIN procs : procs[p] \in Procs /\ 1 <= procs[p].ticket /\ procs[p].ticket <= tickets
  BY Numbers, Fields DEF BoundInv, ProcessesFit
<1>1. CacheFits /\ marks \in [{"ready", "disconnected"} -> Nat]
  BY DEF BoundInv, ProcessesFit
<1>2. executed \in [Keys -> 0..MaxRequests]
  <2>1. ASSUME NEW k \in Keys PROVE executed[k] \in 0..MaxRequests
    <3>1. executed[k] \in Nat /\ executed[k] + Cardinality(Asking(k)) <= count.requests /\ count.requests <= MaxRequests
      BY DEF BoundInv, Counted, KeysFit, Served
    <3>2. Cardinality(Asking(k)) \in Nat /\ count.requests \in Nat /\ MaxRequests \in Nat
      BY AskingFinite, AccessAssumption DEF BoundInv, Counted, Counts
    <3>3. QED
      BY <3>1, <3>2
  <2>2. QED
    BY <2>1 DEF BoundInv, Counted
<1>3. req \in [Slots -> [pc : {"idle", "get", "lock", "enter", "poll", "query", "force", "insert", "issue", "touch", "mark"},
                         chat : BOOLEAN, key : Keys \cup {NoKey}, caching : BOOLEAN, force : BOOLEAN, knew : 0..Len(procs),
                         row : 0..Len(rows), was : Open \cup {Blank}, ticket : 0..tickets,
                         to : Open \cup {Blank, "failed"}, polls : 0..MaxPolls]]
  <2>1. ASSUME NEW r \in Slots
        PROVE  /\ req[r] \in Requests /\ req[r].knew \in 0..Len(procs) /\ req[r].row \in 0..Len(rows)
               /\ req[r].ticket \in 0..tickets /\ req[r].polls \in 0..MaxPolls
    <3>1. req[r] \in Requests /\ Fits(req[r]) /\ MaxPolls \in Nat
      BY Numbers
    <3>2. QED
      BY <1>0, <3>1 DEF Requests, Fits
  <2>2. QED
    BY <1>0, <2>1 DEF Requests, PCs
<1>4. \A S : (\A i \in DOMAIN rows : rows[i] \in S) => rows \in Seq(S)
  <2> SUFFICES ASSUME NEW S, \A i \in DOMAIN rows : rows[i] \in S PROVE rows \in Seq(S)
    OBVIOUS
  <2>1. rows \in [1..Len(rows) -> Rows]
    BY <1>0, LenProperties
  <2>2. rows \in [1..Len(rows) -> S]
    BY <1>0, <2>1
  <2>3. QED
    BY <1>0, <2>2, SeqDef
<1>5. \A S : (\A p \in DOMAIN procs : procs[p] \in S) => procs \in Seq(S)
  <2> SUFFICES ASSUME NEW S, \A p \in DOMAIN procs : procs[p] \in S PROVE procs \in Seq(S)
    OBVIOUS
  <2>1. procs \in [1..Len(procs) -> Procs]
    BY <1>0, LenProperties
  <2>2. procs \in [1..Len(procs) -> S]
    BY <1>0, <2>1
  <2>3. QED
    BY <1>0, <2>2, SeqDef
<1>6. rows \in Seq([status : Open \cup {"failed"}, ticket : 1..tickets, used : BOOLEAN,
                    attempts : 0..AttemptLimit, age : {"hot", "warm", "cold"}])
  <2>1. ASSUME NEW i \in DOMAIN rows
        PROVE  rows[i] \in [status : Open \cup {"failed"}, ticket : 1..tickets, used : BOOLEAN,
                            attempts : 0..AttemptLimit, age : {"hot", "warm", "cold"}]
    <3>1. rows[i] \in Rows /\ RowSound(rows[i], tickets) /\ Tried(i)
      BY Numbers, RowsSound DEF BoundInv, RowsFit
    <3>2. rows[i].ticket \in 1..tickets /\ rows[i].status \in Open \cup {"failed"}
      BY <1>0, <3>1 DEF Rows, RowSound
    <3>3. rows[i].attempts \in 0..AttemptLimit
      <4>1. /\ rows[i].attempts \in Nat /\ Cardinality(Pending(i)) \in Nat
            /\ Cardinality(Slots) \in Nat /\ MaxAttempts \in Nat /\ count.forces \in Nat
        BY RowsSound, PendingFinite, Numbers
      <4>2. QED
        BY <3>1, <4>1 DEF Tried, AttemptLimit
    <3>4. QED
      BY <3>1, <3>2, <3>3 DEF Rows
  <2>2. QED
    BY <1>4, <2>1
<1>7. procs \in Seq([ticket : 1..tickets, admitted : BOOLEAN, st : {"starting", "linked", "cut", "deaf", "dead"}])
  <2>1. ASSUME NEW p \in DOMAIN procs
        PROVE  procs[p] \in [ticket : 1..tickets, admitted : BOOLEAN, st : {"starting", "linked", "cut", "deaf", "dead"}]
    BY <1>0 DEF Procs
  <2>2. QED
    BY <1>5, <2>1
<1>8. conn \in 0..Len(procs)
  BY <1>0
<1>9. QED
  BY <1>1, <1>2, <1>3, <1>6, <1>7, <1>8, Zenon DEF CacheFits, TypeOK, Blank

(* Every variable stays in its set: no statement on user_vm_instances meets a row that is
   not there, and a row is bootstrapped MaxAttempts times, once more for every other request
   that read the attempts at the same time and for every administrator
   (vm-scheduler.ts:143, 240): a request that is about to bootstrap a row read it with
   attempts left, and the others that did are no more than the requests in progress. *)
THEOREM TypeCorrect == Spec => []TypeOK
<1>1. BoundInv /\ [Next]_vars => BoundInv'
  <2> SUFFICES ASSUME BoundInv, [Next]_vars PROVE BoundInv'
    OBVIOUS
  <2>1. ReqInv' /\ Counted'
    BY StepInv, StaysCounted DEF BoundInv
  <2>2. RequestsFit' /\ RowsFit' /\ KeysFit' /\ ProcessesFit' /\ CacheFits'
    BY RequestBounds, ElsewhereBounds, SameBounds DEF Next, Elsewhere
  <2>3. QED
    BY <2>1, <2>2 DEF BoundInv
<1>2. QED
  BY <1>1, InitBounds, BoundsType, PTL DEF Spec
=============================================================================
