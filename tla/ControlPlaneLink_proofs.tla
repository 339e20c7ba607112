----------------------- MODULE ControlPlaneLink_proofs -----------------------
(* The requests, tasks and messages of the link, for any numbers of requests, *)
(* sockets and attempts: types, nothing pending is forgotten, the client is   *)
(* never deaf, and each request keeps the promise of RequestPromise.          *)
EXTENDS ControlPlaneLink, SequenceTheorems, TLAPS

(* What is on the wires and in the caches says what the services gave. *)
UpMessages ==
  [type : {"auth"}] \cup [type : {"resume"}, ids : SUBSET Requests] \cup [type : {"request"}, id : Requests]
Entries == {e \in [id : Requests, status : Statuses] : outcome[e.id] = e.status}
Answers == {m \in [type : {"response"}, id : Requests, status : Statuses] : outcome[m.id] = m.status}
ResultMaps ==
  {f \in UNION {[I -> Results] : I \in SUBSET Requests} : \A r \in DOMAIN f : f[r] # "lost" => outcome[r] = f[r]}
DownMessages == [type : {"init"}] \cup Answers \cup [type : {"resume_response"}, results : ResultMaps]
Futures == [st : {"none", "waiting", "set", "cancelled"}, results : {<<>>} \cup ResultMaps]

Wires ==
  /\ up \in [Sockets -> Seq(UpMessages)]
  /\ down \in [Sockets -> Seq(DownMessages)]
  /\ cached \in [Sockets -> Seq(Entries)]
  /\ future \in [Sockets -> Futures]
  /\ \A k \in Sockets : future[k].st = "set" => future[k].results \in ResultMaps

\* A task is named by a socket that was dialled before the one it dials itself.
Names ==
  /\ events["dials"] <= MaxSockets /\ ws <= events["dials"] /\ (events["dials"] > 0 => ws # 0)
  /\ listener <= events["dials"]
  /\ task[0].pc \in {"sleep", "init", "dead"}
  /\ \A p \in TaskIds :
       /\ task[p].pc # "off" => p <= events["dials"]
       /\ task[p].sock <= events["dials"]
       /\ task[p].pc \in {"init", "resume"} => p < task[p].sock
       /\ task[p].pc = "recv" => task[p].sock # 0

\* Somebody other than a task that waits for the answer to its resume is at work.
Attended ==
  task[0].pc = "dead" /\ ~ gaveUp /\ events["closes"] = 0 =>
    \E p \in TaskIds : task[p].pc \in Working \ {"resume"}

\* An answer is the one the service gave.
Truthful ==
  \A r \in Requests : /\ req[r] = "ok" => outcome[r] = "completed"
                      /\ req[r] = "error" => outcome[r] = "failed"
Calls == PendingAccounted /\ Truthful

\* A request is under way to the server or served there, in one place once, and has no outcome yet.
Asks(s, r) == \E i \in DOMAIN s : s[i].type = "request" /\ s[i].id = r
AsksOnce(s) ==
  \A i, j \in DOMAIN s : s[i].type = "request" /\ s[j].type = "request" /\ s[i].id = s[j].id => i = j
Holds(k, r) == Asks(up[k], r) \/ r \in serving[k]
ServedOnce ==
  /\ \A k \in Sockets : AsksOnce(up[k]) /\ \A r \in Requests : ~ (Asks(up[k], r) /\ r \in serving[k])
  /\ \A k, l \in Sockets, r \in Requests : Holds(k, r) /\ Holds(l, r) => k = l
  /\ \A k \in Sockets, r \in Requests : Holds(k, r) => outcome[r] = "none" /\ req[r] # "new"
  /\ \A r \in Requests : req[r] = "new" => outcome[r] = "none"

LinkInv == TypeOK /\ Wires /\ Names /\ Attended /\ Calls /\ ServedOnce

-----------------------------------------------------------------------------
(* Sequences *)

LEMMA Behind ==
  ASSUME NEW S, NEW s \in Seq(S), s # <<>>
  PROVE  /\ Head(s) \in S /\ Tail(s) \in Seq(S)
         /\ 1 \in DOMAIN s /\ Head(s) = s[1] /\ Len(s) \in Nat
         /\ DOMAIN s = 1..Len(s) /\ DOMAIN Tail(s) = 1..Len(s) - 1
         /\ \A i \in DOMAIN Tail(s) : i + 1 \in DOMAIN s /\ Tail(s)[i] = s[i + 1]
         /\ \A i \in DOMAIN s : i # 1 => i - 1 \in DOMAIN Tail(s) /\ Tail(s)[i - 1] = s[i]
<1>1. /\ Head(s) \in S /\ Tail(s) \in Seq(S) /\ Len(Tail(s)) = Len(s) - 1
      /\ \A i \in 1..Len(Tail(s)) : Tail(s)[i] = s[i + 1]
  BY HeadTailProperties
<1>2. Len(s) \in Nat \ {0}
  BY EmptySeq
<1>3. DOMAIN s = 1..Len(s) /\ DOMAIN Tail(s) = 1..Len(Tail(s))
  BY <1>1, LenProperties
<1>4. Head(s) = s[1]
  OBVIOUS
<1>5. ASSUME NEW i \in DOMAIN s, i # 1
      PROVE  i - 1 \in DOMAIN Tail(s) /\ Tail(s)[i - 1] = s[i]
  <2>1. i - 1 \in 1..Len(Tail(s)) /\ (i - 1) + 1 = i
    BY <1>1, <1>2, <1>3, <1>5
  <2>2. QED
    BY <1>1, <1>3, <2>1
<1>6. ASSUME NEW i \in DOMAIN Tail(s)
      PROVE  i + 1 \in DOMAIN s /\ Tail(s)[i] = s[i + 1]
  BY <1>1, <1>2, <1>3
<1>7. QED
  BY <1>1, <1>2, <1>3, <1>4, <1>5, <1>6

LEMMA Added ==
  ASSUME NEW S, NEW s \in Seq(S), NEW e \in S
  PROVE  /\ Append(s, e) \in Seq(S) /\ Len(s) \in Nat /\ Len(Append(s, e)) = Len(s) + 1
         /\ DOMAIN s = 1..Len(s) /\ DOMAIN Append(s, e) = 1..Len(s) + 1
         /\ \A i \in DOMAIN s : Append(s, e)[i] = s[i]
         /\ Append(s, e)[Len(s) + 1] = e
<1>1. /\ Append(s, e) \in Seq(S) /\ Len(Append(s, e)) = Len(s) + 1
      /\ \A i \in 1..Len(s) : Append(s, e)[i] = s[i]
      /\ Append(s, e)[Len(s) + 1] = e
  BY AppendProperties
<1>2. Len(s) \in Nat /\ DOMAIN s = 1..Len(s) /\ DOMAIN Append(s, e) = 1..Len(Append(s, e))
  BY <1>1, LenProperties
<1>3. QED
  BY <1>1, <1>2

LEMMA Widened ==
  ASSUME NEW S, NEW T, S \subseteq T, NEW s \in Seq(S)
  PROVE  s \in Seq(T)
<1>1. Len(s) \in Nat /\ s \in [1..Len(s) -> T]
  BY LenProperties, ElementOfSeq
<1>2. QED
  BY <1>1, SeqDef

LEMMA AsksBehind ==
  ASSUME NEW S, NEW s \in Seq(S), s # <<>>, AsksOnce(s)
  PROVE  /\ AsksOnce(Tail(s))
         /\ \A r : Asks(Tail(s), r) => Asks(s, r)
         /\ Head(s).type = "request" => Asks(s, Head(s).id) /\ ~ Asks(Tail(s), Head(s).id)
<1>1. /\ 1 \in DOMAIN s /\ Head(s) = s[1] /\ Len(s) \in Nat
      /\ DOMAIN s = 1..Len(s) /\ DOMAIN Tail(s) = 1..Len(s) - 1
      /\ \A i \in DOMAIN Tail(s) : i + 1 \in DOMAIN s /\ Tail(s)[i] = s[i + 1]
  BY Behind
<1>2. AsksOnce(Tail(s))
  <2>1. ASSUME NEW i \in DOMAIN Tail(s), NEW j \in DOMAIN Tail(s), Tail(s)[i].type = "request",
               Tail(s)[j].type = "request", Tail(s)[i].id = Tail(s)[j].id
        PROVE  i = j
    <3>1. i + 1 = j + 1
      BY <1>1, <2>1 DEF AsksOnce
    <3>2. QED
      BY <1>1, <3>1
  <2>2. QED
    BY <2>1 DEF AsksOnce
<1>3. \A r : Asks(Tail(s), r) => Asks(s, r)
  BY <1>1 DEF Asks
<1>4. Head(s).type = "request" => Asks(s, Head(s).id)
  BY <1>1 DEF Asks
<1>5. ASSUME Head(s).type = "request", Asks(Tail(s), Head(s).id)
      PROVE  FALSE
  <2>1. PICK i \in DOMAIN Tail(s) : Tail(s)[i].type = "request" /\ Tail(s)[i].id = Head(s).id
    BY <1>5 DEF Asks
  <2>2. i + 1 = 1
    BY <1>1, <1>5, <2>1 DEF AsksOnce
  <2>3. QED
    BY <1>1, <2>2
<1>6. QED
  BY <1>2, <1>3, <1>4, <1>5

LEMMA AsksAdded ==
  ASSUME NEW S, NEW s \in Seq(S), NEW e \in S
  PROVE  /\ \A r : Asks(Append(s, e), r) => Asks(s, r) \/ (e.type = "request" /\ e.id = r)
         /\ AsksOnce(s) /\ ~ (e.type = "request" /\ Asks(s, e.id)) => AsksOnce(Append(s, e))
<1> DEFINE t == Append(s, e)
           n == Len(s)
<1>1. /\ n \in Nat /\ DOMAIN s = 1..n /\ DOMAIN t = 1..n + 1
      /\ \A i \in DOMAIN s : t[i] = s[i]
      /\ t[n + 1] = e
  BY Added
<1> HIDE DEF t, n
<1>2. \A r : Asks(t, r) => Asks(s, r) \/ (e.type = "request" /\ e.id = r)
  BY <1>1 DEF Asks
<1>3. ASSUME AsksOnce(s), ~ (e.type = "request" /\ Asks(s, e.id))
      PROVE  AsksOnce(t)
  BY <1>1, <1>3 DEF AsksOnce, Asks
<1>4. QED
  BY <1>2, <1>3 DEF t

-----------------------------------------------------------------------------
(* Messages *)

LEMMA Constants ==
  /\ Sockets \subseteq TaskIds /\ 0 \in TaskIds /\ 0 \notin Sockets
  /\ MaxSockets \in Nat \ {0} /\ MaxTries \in Nat \ {0} /\ CacheLimit \in Nat \ {0} /\ CacheEvict \in Nat \ {0}
  /\ \A p \in TaskIds : p \in Nat /\ p <= MaxSockets /\ (p # 0 => p \in Sockets)
BY LinkAssumption DEF Sockets, TaskIds

LEMMA Counted ==
  ASSUME TypeOK, NEW kind \in EventKinds, NEW max, Bound(kind, max)
  PROVE  /\ events' \in [EventKinds -> Nat] /\ events[kind] < max
         /\ events'[kind] = events[kind] + 1 /\ \A e \in EventKinds : e # kind => events'[e] = events[e]
BY DEF TypeOK, Bound

LEMMA ToServerType ==
  ASSUME Wires, NEW k \in Sockets, NEW m \in UpMessages, ToServer(k, m)
  PROVE  up' \in [Sockets -> Seq(UpMessages)]
<1>1. up \in [Sockets -> Seq(UpMessages)]
  BY DEF Wires
<1>2. Append(up[k], m) \in Seq(UpMessages)
  BY <1>1, Added
<1>3. QED
  BY <1>1, <1>2 DEF ToServer

LEMMA ToClientType ==
  ASSUME NEW S, down \in [Sockets -> Seq(S)], NEW k \in Sockets, NEW m \in S, ToClient(k, m)
  PROVE  down' \in [Sockets -> Seq(S)]
<1>1. Append(down[k], m) \in Seq(S)
  BY Added
<1>2. QED
  BY <1>1 DEF ToClient

LEMMA TakeUpType ==
  ASSUME Wires, NEW k \in Sockets, NEW type, TakeUp(k, type)
  PROVE  /\ up[k] \in Seq(UpMessages) /\ up[k] # <<>> /\ Head(up[k]) \in UpMessages /\ Head(up[k]).type = type
         /\ up'[k] = Tail(up[k]) /\ \A l \in Sockets : l # k => up'[l] = up[l]
         /\ up' \in [Sockets -> Seq(UpMessages)]
<1>1. up \in [Sockets -> Seq(UpMessages)] /\ up[k] # <<>> /\ Head(up[k]).type = type
  BY DEF Wires, TakeUp
<1>2. Head(up[k]) \in UpMessages /\ Tail(up[k]) \in Seq(UpMessages)
  BY <1>1, Behind
<1>3. QED
  BY <1>1, <1>2 DEF TakeUp

LEMMA TakeDownType ==
  ASSUME Wires, NEW k \in Sockets, NEW type, TakeDown(k, type)
  PROVE  /\ Head(down[k]) \in DownMessages /\ Head(down[k]).type = type
         /\ down' \in [Sockets -> Seq(DownMessages)]
<1>1. down \in [Sockets -> Seq(DownMessages)] /\ down[k] # <<>> /\ Head(down[k]).type = type
  BY DEF Wires, TakeDown
<1>2. Head(down[k]) \in DownMessages /\ Tail(down[k]) \in Seq(DownMessages)
  BY <1>1, Behind
<1>3. QED
  BY <1>1, <1>2 DEF TakeDown

LEMMA UpKinds ==
  /\ [type |-> "auth"] \in UpMessages
  /\ \A ids \in SUBSET Requests : [type |-> "resume", ids |-> ids] \in UpMessages
  /\ \A r \in Requests : [type |-> "request", id |-> r] \in UpMessages
  /\ \A m \in UpMessages : m.type = "request" => m.id \in Requests
  /\ \A m \in UpMessages : m.type = "resume" => m.ids \in SUBSET Requests
BY DEF UpMessages

LEMMA DownKinds ==
  /\ [type |-> "init"] \in DownMessages
  /\ \A f \in ResultMaps : [type |-> "resume_response", results |-> f] \in DownMessages
  /\ \A m \in DownMessages : m.type = "response" => m \in Answers
  /\ \A m \in DownMessages : m.type = "resume_response" => m.results \in ResultMaps
<1>1. \A m \in Answers : m.type = "response"
  BY DEF Answers
<1>2. QED
  BY <1>1 DEF DownMessages

LEMMA AnswerKinds ==
  \A m \in Answers : m.id \in Requests /\ m.status \in Statuses /\ outcome[m.id] = m.status
BY DEF Answers

LEMMA MapKinds ==
  ASSUME NEW f \in ResultMaps
  PROVE  /\ DOMAIN f \subseteq Requests
         /\ \A r \in DOMAIN f : f[r] \in Results /\ (f[r] # "lost" => outcome[r] = f[r])
<1>1. PICK I \in SUBSET Requests : f \in [I -> Results]
  BY DEF ResultMaps
<1>2. \A r \in DOMAIN f : f[r] # "lost" => outcome[r] = f[r]
  BY DEF ResultMaps
<1>3. QED
  BY <1>1, <1>2

LEMMA CacheType ==
  ASSUME NEW S, NEW results \in Seq(S), NEW entry \in S
  PROVE  Cache(results, entry) \in Seq(S)
<1> DEFINE all == Append(results, entry)
<1>1. all \in Seq(S)
  BY Added
<1> HIDE DEF all
<1>2. Len(all) \in Nat /\ CacheEvict + 1 \in Int
  BY <1>1, LenProperties, Constants
<1>3. \A i \in CacheEvict + 1..Len(all) : all[i] \in S
  BY <1>1, <1>2, Constants, ElementOfSeq
<1>4. SubSeq(all, CacheEvict + 1, Len(all)) \in Seq(S)
  BY <1>2, <1>3, SubSeqProperties
<1>5. QED
  BY <1>1, <1>4 DEF Cache, all

\* A result found in the cache of a connection is the one the service gave.
LEMMA LookupTrue ==
  ASSUME Wires, NEW k \in Sockets, NEW r \in Requests
  PROVE  Lookup(k, r) \in Results /\ (Lookup(k, r) # "lost" => outcome[r] = Lookup(k, r))
<1>1. CASE \E i \in DOMAIN cached[k] : cached[k][i].id = r
  <2> DEFINE i == CHOOSE i \in DOMAIN cached[k] : cached[k][i].id = r
  <2>1. i \in DOMAIN cached[k] /\ cached[k][i].id = r
    BY <1>1
  <2>2. Lookup(k, r) = cached[k][i].status
    BY <1>1 DEF Lookup
  <2> HIDE DEF i
  <2>3. cached[k] \in Seq(Entries)
    BY DEF Wires
  <2>4. cached[k][i] \in Entries
    BY <2>1, <2>3, ElementOfSeq, LenProperties
  <2>5. QED
    BY <2>1, <2>2, <2>4 DEF Entries, Results
<1>2. CASE ~ \E i \in DOMAIN cached[k] : cached[k][i].id = r
  BY <1>2 DEF Lookup, Results
<1>3. QED
  BY <1>1, <1>2

\* No service answers.
LEMMA SameKinds ==
  ASSUME UNCHANGED outcome
  PROVE  Entries' = Entries /\ Answers' = Answers /\ ResultMaps' = ResultMaps
         /\ DownMessages' = DownMessages /\ Futures' = Futures
<1>1. Entries' = Entries /\ Answers' = Answers /\ ResultMaps' = ResultMaps
  BY DEF Entries, Answers, ResultMaps
<1>2. QED
  BY <1>1 DEF DownMessages, Futures

LEMMA WiresKept ==
  ASSUME Wires, UNCHANGED <<outcome, cached>>,
         up' \in [Sockets -> Seq(UpMessages)], down' \in [Sockets -> Seq(DownMessages)],
         future' \in [Sockets -> Futures],
         \A k \in Sockets : future'[k].st = "set" => future'[k].results \in ResultMaps
  PROVE  Wires'
BY SameKinds DEF Wires

-----------------------------------------------------------------------------
(* The server and the network *)

Outside == (\E k \in Sockets : Server(k) \/ ClientCut(k) \/ ServerCut(k))

\* Neither of them touches the client, a dial or a close.
LEMMA OutsideEvents ==
  ASSUME TypeOK, Outside
  PROVE  /\ UNCHANGED client
         /\ events' \in [EventKinds -> Nat]
         /\ events'["dials"] = events["dials"] /\ events'["closes"] = events["closes"]
<1>1. \A max, kind : kind \in {"cuts", "refusals"} /\ Bound(kind, max) =>
        /\ events' \in [EventKinds -> Nat]
        /\ events'["dials"] = events["dials"] /\ events'["closes"] = events["closes"]
  BY Counted DEF EventKinds
<1>2. UNCHANGED events =>
        /\ events' \in [EventKinds -> Nat]
        /\ events'["dials"] = events["dials"] /\ events'["closes"] = events["closes"]
  BY DEF TypeOK
<1>3. UNCHANGED client
  BY DEF Outside, Server, ClientCut, ServerCut, Auth, Accept, Refuse, DropEarly, HandleRequest, Respond,
         HandleResume, HeartbeatTimeout
<1>4. \/ UNCHANGED events
      \/ \E max, kind : kind \in {"cuts", "refusals"} /\ Bound(kind, max)
  BY DEF Outside, Server, ClientCut, ServerCut, Auth, Accept, Refuse, DropEarly, HandleRequest, Respond,
         HandleResume, HeartbeatTimeout
<1>5. QED
  BY <1>1, <1>2, <1>3, <1>4

ServerType ==
  /\ wire \in [Sockets -> {"none", "open", "closed"}]
  /\ peer \in [Sockets -> {"none", "open", "closing", "closed"}]
  /\ conn \in [Sockets -> {"none", "accepting", "authing", "ready", "disconnected", "refused"}]
  /\ registered \in TaskIds
  /\ serving \in [Sockets -> SUBSET Requests]
  /\ outcome \in [Requests -> Statuses \cup {"none"}]

LEMMA OutsideType ==
  ASSUME TypeOK, Wires, Outside
  PROVE  TypeOK'
<1>1. UNCHANGED client /\ events' \in [EventKinds -> Nat]
  BY OutsideEvents
<1>2. ServerType /\ Sockets \subseteq TaskIds /\ 0 \in TaskIds
  BY Constants DEF TypeOK, ServerType
<1>3. ServerType'
  <2>1. ASSUME NEW k \in Sockets, ClientCut(k) PROVE ServerType'
    BY <1>2, <2>1 DEF ServerType, ClientCut, server
  <2>2. ASSUME NEW k \in Sockets, ServerCut(k) PROVE ServerType'
    BY <1>2, <2>2 DEF ServerType, ServerCut
  <2>3. ASSUME NEW k \in Sockets, Auth(k) \/ Accept(k) \/ Refuse(k) \/ DropEarly(k) PROVE ServerType'
    BY <1>2, <2>3 DEF ServerType, Auth, Accept, Refuse, DropEarly, server
  <2>4. ASSUME NEW k \in Sockets, HandleResume(k) \/ HeartbeatTimeout(k) PROVE ServerType'
    BY <1>2, <2>4 DEF ServerType, HandleResume, HeartbeatTimeout, server
  <2>5. ASSUME NEW k \in Sockets, HandleRequest(k) PROVE ServerType'
    <3>1. Head(up[k]) \in UpMessages /\ Head(up[k]).type = "request"
      BY <2>5, TakeUpType DEF HandleRequest
    <3>2. Head(up[k]).id \in Requests
      BY <3>1, UpKinds
    <3>3. QED
      BY <1>2, <2>5, <3>2 DEF ServerType, HandleRequest
  <2>6. ASSUME NEW k \in Sockets, NEW r \in Requests, NEW status \in Statuses, Respond(k, r, status) PROVE ServerType'
    BY <1>2, <2>6 DEF ServerType, Respond
  <2>7. QED
    BY <2>1, <2>2, <2>3, <2>4, <2>5, <2>6 DEF Outside, Server
<1>4. QED
  BY <1>1, <1>3 DEF TypeOK, ServerType, client

\* A service answers: what was true of other requests stays true.
LEMMA RespondWires ==
  ASSUME TypeOK, Wires, ServedOnce, NEW k \in Sockets, NEW r \in Requests, NEW status \in Statuses, Respond(k, r, status)
  PROVE  Wires'
<1>1. outcome[r] = "none"
  BY DEF Respond, ServedOnce, Holds
<1>2. /\ outcome'[r] = status /\ \A q \in Requests : q # r => outcome'[q] = outcome[q]
      /\ status # "none" /\ status # "lost" /\ "none" \notin Results
  BY DEF Respond, TypeOK, Statuses, Results
<1>3. Entries \subseteq Entries' /\ Answers \subseteq Answers'
  <2>1. ASSUME NEW e \in Entries PROVE e \in Entries'
    BY <1>1, <1>2 DEF Entries, Statuses
  <2>2. ASSUME NEW m \in Answers PROVE m \in Answers'
    BY <1>1, <1>2 DEF Answers, Statuses
  <2>3. QED
    BY <2>1, <2>2
<1>4. ResultMaps \subseteq ResultMaps'
  <2>1. ASSUME NEW f \in ResultMaps PROVE f \in ResultMaps'
    <3>1. /\ f \in UNION {[I -> Results] : I \in SUBSET Requests}
          /\ DOMAIN f \subseteq Requests
          /\ \A q \in DOMAIN f : f[q] \in Results /\ (f[q] # "lost" => outcome[q] = f[q])
      BY MapKinds DEF ResultMaps
    <3>2. \A q \in DOMAIN f : f[q] # "lost" => outcome'[q] = f[q]
      BY <1>1, <1>2, <3>1
    <3>3. QED
      BY <3>1, <3>2 DEF ResultMaps
  <2>2. QED
    BY <2>1
<1>5. DownMessages \subseteq DownMessages' /\ Futures \subseteq Futures'
  BY <1>3, <1>4 DEF DownMessages, Futures
<1>6. [id |-> r, status |-> status] \in Entries' /\ [type |-> "response", id |-> r, status |-> status] \in DownMessages'
  BY <1>2 DEF Entries, Answers, DownMessages
<1>7. cached' \in [Sockets -> Seq(Entries')]
  <2>1. \A l \in Sockets : cached[l] \in Seq(Entries')
    BY <1>3, Widened DEF Wires
  <2>2. Cache(cached[k], [id |-> r, status |-> status]) \in Seq(Entries')
    BY <1>6, <2>1, CacheType
  <2>3. cached' = [cached EXCEPT ![k] = Cache(cached[k], [id |-> r, status |-> status])] /\ DOMAIN cached = Sockets
    BY DEF Respond, Wires
  <2>4. QED
    BY <2>1, <2>2, <2>3
<1>8. down' \in [Sockets -> Seq(DownMessages')]
  <2>1. \A l \in Sockets : down[l] \in Seq(DownMessages')
    BY <1>5, Widened DEF Wires
  <2>2. down \in [Sockets -> Seq(DownMessages')]
    BY <2>1 DEF Wires
  <2>3. ToClient(k, [type |-> "response", id |-> r, status |-> status])
    BY DEF Respond
  <2>4. QED
    BY <1>6, <2>2, <2>3, ToClientType
<1>9. UNCHANGED <<up, future>>
  BY DEF Respond, client
<1>10. QED
  BY <1>4, <1>5, <1>7, <1>8, <1>9 DEF Wires

LEMMA OutsideWires ==
  ASSUME TypeOK, Wires, ServedOnce, Outside
  PROVE  Wires'
<1>1. /\ up \in [Sockets -> Seq(UpMessages)] /\ down \in [Sockets -> Seq(DownMessages)]
      /\ <<>> \in Seq(UpMessages) /\ <<>> \in Seq(DownMessages)
      /\ UNCHANGED future
  BY EmptySeq, OutsideEvents DEF Wires, client
<1>2. ASSUME UNCHANGED <<outcome, cached>>,
             up' \in [Sockets -> Seq(UpMessages)], down' \in [Sockets -> Seq(DownMessages)]
      PROVE  Wires'
  BY <1>1, <1>2, WiresKept DEF Wires
<1>3. ASSUME NEW k \in Sockets, ClientCut(k) \/ ServerCut(k) PROVE Wires'
  <2>1. up' \in [Sockets -> Seq(UpMessages)] /\ down' \in [Sockets -> Seq(DownMessages)]
    BY <1>1, <1>3 DEF ClientCut, ServerCut
  <2>2. QED
    BY <1>2, <1>3, <2>1 DEF ClientCut, ServerCut, server
<1>4. ASSUME NEW k \in Sockets, Auth(k) PROVE Wires'
  BY <1>1, <1>2, <1>4, TakeUpType DEF Auth
<1>5. ASSUME NEW k \in Sockets, Accept(k) PROVE Wires'
  BY <1>1, <1>2, <1>5, ToClientType, DownKinds DEF Accept
<1>6. ASSUME NEW k \in Sockets, Refuse(k) \/ HeartbeatTimeout(k) PROVE Wires'
  BY <1>1, <1>2, <1>6 DEF Refuse, HeartbeatTimeout
<1>7. ASSUME NEW k \in Sockets, DropEarly(k) PROVE Wires'
  <2>1. Tail(up[k]) \in Seq(UpMessages)
    BY <1>1, <1>7, Behind DEF DropEarly
  <2>2. QED
    BY <1>1, <1>2, <1>7, <2>1 DEF DropEarly, server
<1>8. ASSUME NEW k \in Sockets, HandleRequest(k) PROVE Wires'
  BY <1>1, <1>2, <1>8, TakeUpType DEF HandleRequest
<1>9. ASSUME NEW k \in Sockets, HandleResume(k) PROVE Wires'
  <2> DEFINE ids == Head(up[k]).ids
             f == [r \in ids |-> Lookup(k, r)]
  <2>1. /\ Head(up[k]) \in UpMessages /\ Head(up[k]).type = "resume" /\ up' \in [Sockets -> Seq(UpMessages)]
    BY <1>9, TakeUpType DEF HandleResume
  <2>2. ids \in SUBSET Requests
    BY <2>1, UpKinds
  <2> HIDE DEF ids
  <2>3. \A r \in ids : Lookup(k, r) \in Results /\ (Lookup(k, r) # "lost" => outcome[r] = Lookup(k, r))
    BY <2>2, LookupTrue
  <2>4. f \in ResultMaps
    <3>1. f \in [ids -> Results] /\ \A r \in DOMAIN f : f[r] # "lost" => outcome[r] = f[r]
      BY <2>3
    <3>2. QED
      BY <2>2, <3>1 DEF ResultMaps
  <2>5. ToClient(k, [type |-> "resume_response", results |-> f])
    BY <1>9 DEF HandleResume, ids
  <2> HIDE DEF f
  <2>6. down' \in [Sockets -> Seq(DownMessages)]
    BY <1>1, <2>4, <2>5, ToClientType, DownKinds
  <2>7. QED
    BY <1>2, <1>9, <2>1, <2>6 DEF HandleResume, server
<1>10. QED
  BY <1>3, <1>4, <1>5, <1>6, <1>7, <1>8, <1>9, RespondWires DEF Outside, Server

\* Nothing is added to a queue or to what is served; outcomes and calls stay.
LEMMA OnceKept ==
  ASSUME ServedOnce, UNCHANGED <<outcome, req>>,
         \A k \in Sockets : /\ AsksOnce(up'[k]) /\ serving'[k] \subseteq serving[k]
                            /\ \A r : Asks(up'[k], r) => Asks(up[k], r)
  PROVE  ServedOnce'
BY DEF ServedOnce, Holds

\* The oldest message of one queue goes.
LEMMA OnceTaken ==
  ASSUME Wires, ServedOnce, NEW k \in Sockets, up[k] # <<>>, up' = [up EXCEPT ![k] = Tail(@)],
         UNCHANGED <<outcome, req, serving>>
  PROVE  ServedOnce'
<1>1. up \in [Sockets -> Seq(UpMessages)] /\ \A l \in Sockets : AsksOnce(up[l])
  BY DEF Wires, ServedOnce
<1>2. AsksOnce(Tail(up[k])) /\ \A r : Asks(Tail(up[k]), r) => Asks(up[k], r)
  BY <1>1, AsksBehind
<1>3. up'[k] = Tail(up[k]) /\ \A l \in Sockets : l # k => up'[l] = up[l]
  BY <1>1
<1>4. ASSUME NEW l \in Sockets
      PROVE  AsksOnce(up'[l]) /\ \A r : Asks(up'[l], r) => Asks(up[l], r)
  BY <1>1, <1>2, <1>3
<1>5. QED
  BY <1>4, OnceKept

LEMMA RequestOnce ==
  ASSUME TypeOK, Wires, ServedOnce, NEW k \in Sockets, HandleRequest(k)
  PROVE  ServedOnce'
<1> DEFINE q == Head(up[k]).id
<1>1. /\ Head(up[k]) \in UpMessages /\ Head(up[k]).type = "request" /\ up[k] # <<>>
      /\ up[k] \in Seq(UpMessages) /\ up'[k] = Tail(up[k]) /\ \A l \in Sockets : l # k => up'[l] = up[l]
  BY TakeUpType DEF HandleRequest
<1>2. q \in Requests
  BY <1>1, UpKinds
<1>3. AsksOnce(up[k])
  BY DEF ServedOnce
<1>4. /\ AsksOnce(up'[k]) /\ \A r : Asks(up'[k], r) => Asks(up[k], r)
      /\ Asks(up[k], q) /\ ~ Asks(up'[k], q)
  BY <1>1, <1>3, AsksBehind
<1>5. /\ serving'[k] = serving[k] \cup {q} /\ \A l \in Sockets : l # k => serving'[l] = serving[l]
      /\ UNCHANGED <<outcome, req>>
  BY DEF HandleRequest, TypeOK, client
<1> HIDE DEF q
<1>6. \A l \in Sockets, r \in Requests : Holds(l, r)' => Holds(l, r)
  BY <1>1, <1>4, <1>5 DEF Holds
<1>7. \A l \in Sockets : AsksOnce(up'[l]) /\ \A r \in Requests : ~ (Asks(up'[l], r) /\ r \in serving'[l])
  BY <1>1, <1>4, <1>5 DEF ServedOnce
<1>8. QED
  BY <1>5, <1>6, <1>7 DEF ServedOnce

LEMMA OutsideOnce ==
  ASSUME TypeOK, Wires, ServedOnce, Outside
  PROVE  ServedOnce'
<1>1. UNCHANGED req /\ up \in [Sockets -> Seq(UpMessages)] /\ \A l \in Sockets : AsksOnce(up[l])
  BY OutsideEvents DEF client, ServedOnce, Wires
<1>2. ASSUME UNCHANGED <<up, outcome, serving>> PROVE ServedOnce'
  BY <1>1, <1>2, OnceKept
<1>3. ASSUME NEW k \in Sockets, ClientCut(k) \/ Accept(k) \/ Refuse(k) \/ HeartbeatTimeout(k) PROVE ServedOnce'
  BY <1>2, <1>3 DEF ClientCut, Accept, Refuse, HeartbeatTimeout, server
<1>4. ASSUME NEW k \in Sockets, ServerCut(k) PROVE ServedOnce'
  <2>1. AsksOnce(<<>>) /\ \A r : ~ Asks(<<>>, r)
    BY DEF AsksOnce, Asks
  <2>2. up'[k] = <<>> /\ \A l \in Sockets : l # k => up'[l] = up[l]
    BY <1>1, <1>4 DEF ServerCut
  <2>3. \A l \in Sockets : AsksOnce(up'[l]) /\ \A r : Asks(up'[l], r) => Asks(up[l], r)
    BY <1>1, <2>1, <2>2
  <2>4. QED
    BY <1>1, <1>4, <2>3, OnceKept DEF ServerCut
<1>5. ASSUME NEW k \in Sockets, Auth(k) \/ DropEarly(k) \/ HandleResume(k) PROVE ServedOnce'
  BY <1>1, <1>5, OnceTaken DEF Auth, DropEarly, HandleResume, TakeUp, server
<1>6. ASSUME NEW k \in Sockets, NEW r \in Requests, NEW status \in Statuses, Respond(k, r, status) PROVE ServedOnce'
  <2>1. /\ r \in serving[k] /\ serving'[k] = serving[k] \ {r} /\ \A l \in Sockets : l # k => serving'[l] = serving[l]
        /\ \A q \in Requests : q # r => outcome'[q] = outcome[q]
        /\ UNCHANGED up
    BY <1>6 DEF Respond, TypeOK
  <2>2. \A l \in Sockets : ~ Holds(l, r)'
    BY <2>1 DEF ServedOnce, Holds
  <2>3. \A l \in Sockets, q \in Requests : Holds(l, q)' => Holds(l, q)
    BY <2>1 DEF Holds
  <2>4. req[r] # "new"
    BY <2>1 DEF ServedOnce, Holds
  <2>5. QED
    BY <1>1, <2>1, <2>2, <2>3, <2>4, SMTT(30) DEF ServedOnce
<1>7. QED
  BY <1>3, <1>4, <1>5, <1>6, RequestOnce DEF Outside, Server

\* What the client believes of tasks and calls outlives every step of the server.
LEMMA OutsideClient ==
  ASSUME TypeOK, Names, Attended, Calls, ServedOnce, Outside
  PROVE  Names' /\ Attended' /\ Calls'
<1>1. /\ UNCHANGED <<ws, listener, task, req, pending, gaveUp>>
      /\ events'["dials"] = events["dials"] /\ events'["closes"] = events["closes"]
  BY OutsideEvents DEF client
<1>2. Names' /\ Attended' /\ PendingAccounted'
  BY <1>1 DEF Names, Attended, Calls, PendingAccounted
<1>3. \A r \in Requests : outcome'[r] = outcome[r] \/ outcome[r] = "none"
  <2>1. ASSUME NEW k \in Sockets, NEW r \in Requests, NEW status \in Statuses, Respond(k, r, status)
        PROVE  \A q \in Requests : outcome'[q] = outcome[q] \/ outcome[q] = "none"
    <3>1. outcome[r] = "none" /\ \A q \in Requests : q # r => outcome'[q] = outcome[q]
      BY <2>1 DEF Respond, ServedOnce, Holds, TypeOK
    <3>2. QED
      BY <3>1
  <2>2. QED
    BY <2>1 DEF Outside, Server, ClientCut, ServerCut, Auth, Accept, Refuse, DropEarly, HandleRequest,
                HandleResume, HeartbeatTimeout, server
<1>4. Truthful'
  BY <1>1, <1>3 DEF Calls, Truthful
<1>5. QED
  BY <1>2, <1>4 DEF Calls

-----------------------------------------------------------------------------
(* The client's tasks and calls *)

TaskSet == [pc : {"off", "dead"} \cup Working, sock : TaskIds, tries : 0..MaxTries - 1]
ClientType ==
  /\ ws \in TaskIds /\ listener \in TaskIds /\ resume \in TaskIds
  /\ task \in [TaskIds -> TaskSet]
  /\ req \in [Requests -> ReqStates]
  /\ pending \subseteq Requests
  /\ gaveUp \in BOOLEAN

LEMMA TypeParts == TypeOK <=> ServerType /\ ClientType /\ events \in [EventKinds -> Nat]
BY DEF TypeOK, ServerType, ClientType, TaskSet

LEMMA TypePartsNext == TypeOK' <=> (ServerType /\ ClientType)' /\ events' \in [EventKinds -> Nat]
BY DEF TypeOK, ServerType, ClientType, TaskSet

LEMMA TaskKinds ==
  /\ Dead \in TaskSet /\ Dead.pc = "dead" /\ Dead.sock = 0
  /\ \A t : t = [Off EXCEPT !.pc = "start"] => t \in TaskSet /\ t.pc = "start" /\ t.sock = 0
  /\ \A t : t = [Off EXCEPT !.pc = "sleep"] => t \in TaskSet /\ t.pc = "sleep" /\ t.sock = 0
  /\ \A n \in 0..MaxTries - 1 : \A t :
       t = [Off EXCEPT !.pc = "sleep", !.tries = n] => t \in TaskSet /\ t.pc = "sleep" /\ t.sock = 0
  /\ \A k \in TaskIds : \A t :
       t = [Off EXCEPT !.pc = "recv", !.sock = k] => t \in TaskSet /\ t.pc = "recv" /\ t.sock = k
<1>1. 0 \in TaskIds /\ 0 \in 0..MaxTries - 1
  BY Constants
<1>2. QED
  BY <1>1 DEF TaskSet, Working, Off, Dead

\* The tasks other than p stay; what becomes of p.
Changes(tasks, p) == \A q \in TaskIds : q # p => task'[q] = tasks[q]

\* A failed attempt of any task, after what it spawned.
LEMMA Failing ==
  ASSUME ClientType, NEW p \in TaskIds, NEW tasks, tasks \in [TaskIds -> TaskSet], FailAttempt(p, tasks)
  PROVE  /\ task' \in [TaskIds -> TaskSet] /\ Changes(tasks, p)
         /\ task'[p].pc \in {"sleep", "dead"} /\ task'[p].sock = 0
         /\ (task'[p].pc = "sleep" => p # 0) /\ (gaveUp' \/ task'[p].pc = "sleep")
         /\ gaveUp' \in BOOLEAN /\ (gaveUp => gaveUp') /\ resume' \in TaskIds
         /\ req' \in [Requests -> ReqStates] /\ pending' \subseteq Requests
         /\ \A r \in Requests : req'[r] # req[r] => req[r] = "waiting" /\ req'[r] = "unreachable"
         /\ PendingAccounted => PendingAccounted'
<1> DEFINE n == task[p].tries + 1
           last == n = MaxTries
<1>1. 0 \in TaskIds /\ MaxTries \in Nat \ {0} /\ task[p].tries \in 0..MaxTries - 1
  BY Constants DEF ClientType, TaskSet
<1>2. CASE p = 0
  <2>1. /\ task' = [tasks EXCEPT ![p] = Dead] /\ gaveUp' = TRUE
        /\ UNCHANGED <<resume, req, pending>>
    BY <1>2 DEF FailAttempt
  <2>2. Dead \in TaskSet /\ Dead.pc = "dead" /\ Dead.sock = 0
    BY TaskKinds
  <2>3. task' \in [TaskIds -> TaskSet] /\ task'[p] = Dead /\ Changes(tasks, p)
    BY <2>1, <2>2 DEF Changes
  <2>4. PendingAccounted => PendingAccounted'
    BY <2>1 DEF PendingAccounted
  <2>5. QED
    BY <2>1, <2>2, <2>3, <2>4 DEF ClientType
<1>3. CASE p # 0
  <2> DEFINE t == IF last THEN Dead ELSE [Off EXCEPT !.pc = "sleep", !.tries = n]
  <2>1. ~ last => n \in 0..MaxTries - 1
    BY <1>1
  <2>2. t \in TaskSet /\ t.sock = 0 /\ t.pc = IF last THEN "dead" ELSE "sleep"
    <3>1. CASE last
      BY <3>1, TaskKinds
    <3>2. CASE ~ last
      <4>1. t = [Off EXCEPT !.pc = "sleep", !.tries = n] /\ n \in 0..MaxTries - 1
        BY <2>1, <3>2
      <4> HIDE DEF t, n
      <4>2. t \in TaskSet /\ t.pc = "sleep" /\ t.sock = 0
        BY <4>1, TaskKinds
      <4>3. QED
        BY <3>2, <4>2
    <3>3. QED
      BY <3>1, <3>2
  <2>3. task' = [tasks EXCEPT ![p] = t] /\ resume' = 0 /\ gaveUp' = (gaveUp \/ last)
    BY <1>3 DEF FailAttempt
  <2>4. /\ req' = [r \in Requests |->
                     IF last /\ r \in pending /\ req[r] = "waiting" THEN "unreachable" ELSE req[r]]
        /\ pending' = IF last THEN {} ELSE pending
    BY <1>3 DEF FailAttempt
  <2> HIDE DEF t, n
  <2>5. task' \in [TaskIds -> TaskSet] /\ task'[p] = t /\ Changes(tasks, p)
    BY <2>2, <2>3 DEF Changes
  <2>6. /\ req' \in [Requests -> ReqStates] /\ pending' \subseteq Requests
        /\ \A r \in Requests : req'[r] # req[r] => req[r] = "waiting" /\ req'[r] = "unreachable"
    BY <2>4 DEF ClientType, ReqStates
  <2>7. PendingAccounted => PendingAccounted'
    BY <2>4 DEF PendingAccounted, ClientType
  <2>8. gaveUp' \in BOOLEAN /\ (gaveUp => gaveUp') /\ (gaveUp' \/ task'[p].pc = "sleep")
    BY <2>2, <2>3, <2>5 DEF ClientType
  <2>9. QED
    BY <1>1, <1>3, <2>2, <2>3, <2>5, <2>6, <2>7, <2>8
<1>4. QED
  BY <1>2, <1>3

LEMMA NamesKept ==
  ASSUME Names, NEW p \in TaskIds, Changes(task, p), task'[p].pc # "off" => task[p].pc # "off",
         task'[p].sock \in TaskIds, task'[p].sock <= events["dials"],
         task'[p].pc \in {"init", "resume"} => p < task'[p].sock,
         task'[p].pc = "recv" => task'[p].sock # 0,
         p = 0 => task'[p].pc \in {"sleep", "init", "dead"},
         UNCHANGED ws, listener' <= events["dials"], events'["dials"] = events["dials"]
  PROVE  Names'
<1>1. ASSUME NEW q \in TaskIds
      PROVE  /\ task'[q].pc # "off" => q <= events["dials"]
             /\ task'[q].sock <= events["dials"]
             /\ task'[q].pc \in {"init", "resume"} => q < task'[q].sock
             /\ task'[q].pc = "recv" => task'[q].sock # 0
  BY <1>1 DEF Names, Changes
<1>2. task'[0].pc \in {"sleep", "init", "dead"}
  BY Constants DEF Names, Changes
<1>3. QED
  BY <1>1, <1>2 DEF Names

\* Whoever leaves the work leaves it to somebody, or has given up.
LEMMA AttendedKept ==
  ASSUME Attended, NEW p \in TaskIds, Changes(task, p),
         \/ task'[p].pc \in Working \ {"resume"} \/ gaveUp'
         \/ p # 0 /\ task[p].pc = "resume"
         \/ \E q \in TaskIds : q # p /\ task[q].pc \in Working \ {"resume"},
         gaveUp => gaveUp', events'["closes"] = events["closes"]
  PROVE  Attended'
BY Constants DEF Attended, Changes

\* A call ends otherwise than with an answer, if it ends.
LEMMA TruthfulKept ==
  ASSUME Truthful, UNCHANGED outcome,
         \A r \in Requests : req'[r] # req[r] => req'[r] \notin {"ok", "error"}
  PROVE  Truthful'
BY DEF Truthful

LEMMA OnceStays ==
  ASSUME ServedOnce, UNCHANGED <<outcome, up, serving>>,
         \A r \in Requests : req'[r] = "new" <=> req[r] = "new"
  PROVE  ServedOnce'
BY DEF ServedOnce, Holds

\* What the client does on its side alone leaves the server's state.
LEMMA ServerStays ==
  ASSUME ServerType, UNCHANGED <<wire, peer, server>>
  PROVE  ServerType' /\ UNCHANGED <<conn, registered, cached, serving, outcome>>
BY DEF ServerType, server

LEMMA TaskChanged ==
  ASSUME NEW u \in TaskSet
  PROVE  /\ u.sock \in TaskIds /\ u.pc \in {"off", "dead"} \cup Working
         /\ \A k \in TaskIds : \A t :
              t = [u EXCEPT !.pc = "init", !.sock = k] => t \in TaskSet /\ t.pc = "init" /\ t.sock = k
         /\ \A t : t = [u EXCEPT !.pc = "resume"] => t \in TaskSet /\ t.pc = "resume" /\ t.sock = u.sock
BY DEF TaskSet, Working

\* A new socket: nothing is asked on it yet.
LEMMA DialInv ==
  ASSUME LinkInv, NEW p \in TaskIds, Dial(p)
  PROVE  LinkInv'
<1> DEFINE k == events["dials"] + 1
           t == [task[p] EXCEPT !.pc = "init", !.sock = k]
<1>1. /\ task[p].pc = "sleep" /\ Bound("dials", MaxSockets)
      /\ wire' = [wire EXCEPT ![k] = "open"] /\ peer' = [peer EXCEPT ![k] = "open"]
      /\ conn' = [conn EXCEPT ![k] = "accepting"] /\ up' = [up EXCEPT ![k] = <<[type |-> "auth"]>>]
      /\ ws' = k /\ task' = [task EXCEPT ![p] = t]
      /\ UNCHANGED <<down, registered, cached, serving, outcome, listener, resume, future, req, pending, gaveUp>>
  BY DEF Dial
<1>2. ServerType /\ ClientType /\ TypeOK /\ Wires /\ Names /\ Attended /\ Calls /\ ServedOnce
  BY TypeParts DEF LinkInv
<1>3. /\ events' \in [EventKinds -> Nat] /\ events["dials"] < MaxSockets /\ events["dials"] \in Nat
      /\ events'["dials"] = k /\ events'["closes"] = events["closes"]
  BY <1>1, <1>2, Counted DEF EventKinds, TypeOK
<1>4. k \in Sockets /\ k \in TaskIds /\ k # 0 /\ k <= MaxSockets
  BY <1>3, Constants DEF Sockets
<1>5. p <= events["dials"] /\ p \in Nat /\ p < k
  BY <1>1, <1>2, <1>3, Constants DEF Names
<1> HIDE DEF k
<1>6. t \in TaskSet /\ t.pc = "init" /\ t.sock = k
  <2>1. task[p] \in TaskSet
    BY <1>2 DEF ClientType
  <2>2. \A u : u = [task[p] EXCEPT !.pc = "init", !.sock = k] => u \in TaskSet /\ u.pc = "init" /\ u.sock = k
    BY <1>4, <2>1, TaskChanged
  <2>3. QED
    BY <2>2
<1> HIDE DEF t
<1>7. task' \in [TaskIds -> TaskSet] /\ task'[p] = t /\ Changes(task, p)
  BY <1>1, <1>2, <1>6 DEF ClientType, Changes
<1>8. TypeOK'
  <2>1. ServerType'
    BY <1>1, <1>2, <1>4 DEF ServerType
  <2>2. ClientType'
    BY <1>1, <1>2, <1>4, <1>7 DEF ClientType
  <2>3. QED
    BY <1>3, <2>1, <2>2, TypePartsNext
<1>9. up' \in [Sockets -> Seq(UpMessages)] /\ up'[k] = <<[type |-> "auth"]>>
      /\ \A l \in Sockets : l # k => up'[l] = up[l]
  <2>1. <<[type |-> "auth"]>> \in Seq(UpMessages)
    BY UpKinds
  <2>2. QED
    BY <1>1, <1>2, <1>4, <2>1 DEF Wires
<1>10. Wires'
  BY <1>1, <1>2, <1>9, WiresKept DEF Wires
<1>11. Names'
  <2>1. ASSUME NEW q \in TaskIds
        PROVE  /\ task'[q].pc # "off" => q <= events'["dials"]
               /\ task'[q].sock <= events'["dials"]
               /\ task'[q].pc \in {"init", "resume"} => q < task'[q].sock
               /\ task'[q].pc = "recv" => task'[q].sock # 0
    <3>1. CASE q = p
      BY <1>3, <1>4, <1>5, <1>6, <1>7, <3>1 DEF k
    <3>2. CASE q # p
      <4>1. task'[q] = task[q] /\ task[q].sock \in Nat /\ q \in Nat
        BY <1>2, <1>7, <3>2, Constants DEF Changes, ClientType, TaskSet
      <4>2. QED
        BY <1>2, <1>3, <4>1 DEF Names, k
    <3>3. QED
      BY <3>1, <3>2
  <2>2. task'[0].pc \in {"sleep", "init", "dead"}
    BY <1>2, <1>6, <1>7, Constants DEF Names, Changes
  <2>3. ws' <= events'["dials"] /\ listener' <= events'["dials"]
    <3>1. listener \in Nat /\ listener <= events["dials"]
      BY <1>2, Constants DEF Names, ClientType
    <3>2. QED
      BY <1>1, <1>3, <1>4, <3>1 DEF Sockets, k
  <2>4. events'["dials"] <= MaxSockets /\ ws' # 0
    BY <1>1, <1>3, <1>4
  <2>5. QED
    BY <2>1, <2>2, <2>3, <2>4 DEF Names
<1>12. Attended'
  <2>1. task'[p].pc \in Working \ {"resume"}
    BY <1>6, <1>7 DEF Working
  <2>2. QED
    BY <1>1, <1>2, <1>3, <1>7, <2>1, AttendedKept
<1>13. Calls'
  BY <1>1, <1>2 DEF Calls, PendingAccounted, Truthful
<1>14. ServedOnce'
  <2>1. AsksOnce(<<[type |-> "auth"]>>) /\ \A r : ~ Asks(<<[type |-> "auth"]>>, r)
    BY DEF AsksOnce, Asks
  <2>2. \A l \in Sockets : AsksOnce(up'[l]) /\ \A r : Asks(up'[l], r) => Asks(up[l], r)
    BY <1>2, <1>9, <2>1 DEF ServedOnce
  <2>3. QED
    BY <1>1, <1>2, <2>2, OnceKept
<1>15. QED
  BY <1>8, <1>10, <1>11, <1>12, <1>13, <1>14 DEF LinkInv

\* A task that was spawned starts under the name of a socket already dialled.
Spawned(tasks) ==
  \A q \in TaskIds : \/ tasks[q] = task[q]
                     \/ tasks[q].pc = "start" /\ tasks[q].sock = 0 /\ q # 0 /\ q <= events["dials"]

LEMMA NamesSpawned ==
  ASSUME TypeOK, Names, NEW p \in TaskIds, NEW tasks, Spawned(tasks), Changes(tasks, p),
         p <= events["dials"], task'[p].sock = 0, task'[p].pc \in {"sleep", "dead", "start"},
         p = 0 => task'[p].pc # "start",
         UNCHANGED ws, listener' <= events["dials"], events'["dials"] = events["dials"]
  PROVE  Names'
<1>1. events["dials"] \in Nat
  BY DEF TypeOK, EventKinds
<1>2. ASSUME NEW q \in TaskIds
      PROVE  /\ task'[q].pc # "off" => q <= events["dials"]
             /\ task'[q].sock <= events["dials"]
             /\ task'[q].pc \in {"init", "resume"} => q < task'[q].sock
             /\ task'[q].pc = "recv" => task'[q].sock # 0
  <2>1. CASE q = p
    BY <1>1, <2>1
  <2>2. CASE q # p /\ tasks[q] = task[q]
    BY <2>2 DEF Names, Changes
  <2>3. CASE q # p /\ tasks[q].pc = "start" /\ tasks[q].sock = 0 /\ q <= events["dials"]
    BY <1>1, <2>3 DEF Changes
  <2>4. QED
    BY <2>1, <2>2, <2>3 DEF Spawned
<1>3. task'[0].pc \in {"sleep", "init", "dead"}
  <2>1. CASE p = 0
    BY <2>1
  <2>2. CASE p # 0
    BY <2>2, Constants DEF Names, Changes, Spawned
  <2>3. QED
    BY <2>1, <2>2
<1>4. QED
  BY <1>2, <1>3 DEF Names

\* The state around a failed attempt.
LEMMA FailInv ==
  ASSUME LinkInv, NEW p \in TaskIds, task[p].pc # "off",
         NEW tasks, tasks \in [TaskIds -> TaskSet], Spawned(tasks), FailAttempt(p, tasks),
         UNCHANGED <<wire, peer, up, server, ws>>, listener' \in TaskIds, listener' <= events["dials"],
         down' \in [Sockets -> Seq(DownMessages)], future' \in [Sockets -> Futures],
         \A k \in Sockets : future'[k].st = "set" => future'[k].results \in ResultMaps,
         events' \in [EventKinds -> Nat],
         events'["dials"] = events["dials"], events'["closes"] = events["closes"]
  PROVE  LinkInv'
<1>1. ServerType /\ ClientType /\ TypeOK /\ Wires /\ Names /\ Attended /\ Calls /\ ServedOnce
  BY TypeParts DEF LinkInv
<1>2. /\ task' \in [TaskIds -> TaskSet] /\ Changes(tasks, p)
      /\ task'[p].pc \in {"sleep", "dead"} /\ task'[p].sock = 0
      /\ (gaveUp' \/ task'[p].pc = "sleep")
      /\ gaveUp' \in BOOLEAN /\ resume' \in TaskIds
      /\ req' \in [Requests -> ReqStates] /\ pending' \subseteq Requests
      /\ \A r \in Requests : req'[r] # req[r] => req[r] = "waiting" /\ req'[r] = "unreachable"
      /\ PendingAccounted => PendingAccounted'
  BY <1>1, Failing
<1>3. ServerType' /\ UNCHANGED <<cached, serving, outcome>>
  BY <1>1, ServerStays
<1>4. TypeOK'
  <2>1. ClientType'
    BY <1>1, <1>2 DEF ClientType
  <2>2. QED
    BY <1>3, <2>1, TypePartsNext
<1>5. Wires'
  BY <1>1, <1>3, WiresKept DEF Wires
<1>6. Names'
  <2>1. p <= events["dials"]
    BY <1>1 DEF Names
  <2>2. QED
    BY <1>1, <1>2, <2>1, NamesSpawned
<1>7. Attended'
  BY <1>2 DEF Attended, Working
<1>8. Calls'
  <2>1. Truthful'
    BY <1>1, <1>2, <1>3, TruthfulKept DEF Calls
  <2>2. QED
    BY <1>1, <1>2, <2>1 DEF Calls
<1>9. ServedOnce'
  BY <1>1, <1>2, <1>3, OnceStays
<1>10. QED
  BY <1>4, <1>5, <1>6, <1>7, <1>8, <1>9 DEF LinkInv

\* An attempt that fails while it dials, waits for init or for the answer to its resume.
LEMMA FailsInv ==
  ASSUME LinkInv, NEW p \in TaskIds, DialFails(p) \/ InitFails(p) \/ ResumeFails(p)
  PROVE  LinkInv'
<1>1. ServerType /\ ClientType /\ TypeOK /\ Wires /\ Names
  BY TypeParts DEF LinkInv
<1>2. task \in [TaskIds -> TaskSet] /\ Spawned(task)
  BY <1>1 DEF ClientType, Spawned
<1>3. /\ task[p].pc # "off" /\ FailAttempt(p, task) /\ UNCHANGED <<wire, peer, up, down, server, ws, listener>>
  BY DEF DialFails, InitFails, ResumeFails
<1>4. down' \in [Sockets -> Seq(DownMessages)] /\ listener' \in TaskIds /\ listener' <= events["dials"]
  BY <1>1, <1>3 DEF Wires, ClientType, Names
<1>5. /\ events' \in [EventKinds -> Nat]
      /\ events'["dials"] = events["dials"] /\ events'["closes"] = events["closes"]
  <2>1. CASE UNCHANGED events
    BY <1>1, <2>1 DEF TypeOK
  <2>2. CASE Bound("cuts", MaxCuts)
    BY <1>1, <2>2, Counted DEF EventKinds
  <2>3. QED
    BY <2>1, <2>2 DEF DialFails, InitFails, ResumeFails
<1>6. /\ future' \in [Sockets -> Futures]
      /\ \A k \in Sockets : future'[k].st = "set" => future'[k].results \in ResultMaps
  <2>1. CASE UNCHANGED future
    BY <1>1, <2>1 DEF Wires
  <2>2. CASE ResumeFails(p)
    <3> DEFINE k == task[p].sock
               f == [future[k] EXCEPT !.st = "cancelled"]
    <3>1. future' = [future EXCEPT ![k] = f]
      BY <2>2 DEF ResumeFails
    <3>2. k \in Sockets
      <4>1. k \in TaskIds /\ p < k
        BY <1>1, <2>2 DEF Names, ResumeFails, ClientType, TaskSet
      <4>2. QED
        BY <4>1, Constants
    <3>3. f \in Futures /\ f.st = "cancelled"
      BY <1>1, <3>2 DEF Wires, Futures
    <3> HIDE DEF f, k
    <3>4. QED
      BY <1>1, <3>1, <3>2, <3>3 DEF Wires
  <2>3. QED
    BY <2>1, <2>2 DEF DialFails, InitFails
<1>7. QED
  BY <1>2, <1>3, <1>4, <1>5, <1>6, FailInv

LEMMA ResumeOnce ==
  ASSUME Wires, ServedOnce, NEW k \in Sockets, NEW m \in UpMessages, m.type # "request", ToServer(k, m),
         UNCHANGED <<outcome, req, serving>>
  PROVE  ServedOnce'
<1>1. up \in [Sockets -> Seq(UpMessages)] /\ \A l \in Sockets : AsksOnce(up[l])
  BY DEF Wires, ServedOnce
<1>2. AsksOnce(Append(up[k], m)) /\ \A r : Asks(Append(up[k], m), r) => Asks(up[k], r)
  BY <1>1, AsksAdded
<1>3. \A l \in Sockets : up'[l] = up[l] \/ (l = k /\ up'[l] = Append(up[k], m))
  BY <1>1 DEF ToServer
<1>4. ASSUME NEW l \in Sockets
      PROVE  AsksOnce(up'[l]) /\ \A r : Asks(up'[l], r) => Asks(up[l], r)
  BY <1>1, <1>2, <1>3
<1>5. QED
  BY <1>4, OnceKept

LEMMA SpawnedTask ==
  ASSUME LinkInv, NEW k \in Sockets, k <= events["dials"],
         NEW tasks, tasks = [task EXCEPT ![k] = [Off EXCEPT !.pc = "start"]]
  PROVE  /\ tasks \in [TaskIds -> TaskSet] /\ Spawned(tasks) /\ tasks[k].pc = "start" /\ tasks[k].sock = 0
         /\ \A q \in TaskIds : q # k => tasks[q] = task[q]
<1> DEFINE t == [Off EXCEPT !.pc = "start"]
<1>1. task \in [TaskIds -> TaskSet] /\ k \in TaskIds /\ k # 0
  BY TypeParts, Constants DEF LinkInv, ClientType
<1>2. t \in TaskSet /\ t.pc = "start" /\ t.sock = 0
  BY TaskKinds
<1> HIDE DEF t
<1>3. tasks = [task EXCEPT ![k] = t]
  BY DEF t
<1>4. QED
  BY <1>1, <1>2, <1>3 DEF Spawned

LEMMA GetInitInv ==
  ASSUME LinkInv, NEW p \in TaskIds, GetInit(p)
  PROVE  LinkInv'
<1> DEFINE k == task[p].sock
           spawned == [task EXCEPT ![k] = [Off EXCEPT !.pc = "start"]]
<1>1. ServerType /\ ClientType /\ TypeOK /\ Wires /\ Names /\ Attended /\ Calls /\ ServedOnce
  BY TypeParts DEF LinkInv
<1>2. /\ task[p].pc = "init" /\ TakeDown(k, "init") /\ listener' = k
      /\ UNCHANGED <<wire, peer, server, ws, events>>
  BY DEF GetInit
<1>3. k \in TaskIds /\ k \in Sockets /\ p < k /\ p # k /\ k <= events["dials"] /\ events["dials"] \in Nat
  <2>1. k \in TaskIds /\ p < k /\ k <= events["dials"] /\ events["dials"] \in Nat
    BY <1>1, <1>2 DEF Names, ClientType, TaskSet, TypeOK, EventKinds
  <2>2. QED
    BY <2>1, Constants
<1>4. /\ spawned \in [TaskIds -> TaskSet] /\ Spawned(spawned) /\ spawned[k].pc = "start" /\ spawned[k].sock = 0
      /\ \A q \in TaskIds : q # k => spawned[q] = task[q]
  BY <1>3, SpawnedTask
<1>5. ServerType' /\ UNCHANGED <<cached, serving, outcome>> /\ events' \in [EventKinds -> Nat] /\ UNCHANGED events
  BY <1>1, <1>2, ServerStays DEF TypeOK
<1>6. down' \in [Sockets -> Seq(DownMessages)]
  BY <1>1, <1>2, <1>3, TakeDownType
<1>7. \/ /\ p = 0 /\ task' = [spawned EXCEPT ![p] = Dead]
         /\ UNCHANGED <<up, resume, future, req, pending, gaveUp>>
      \/ /\ p # 0 /\ task' = [spawned EXCEPT ![p].pc = "resume"]
         /\ resume' = k /\ future' = [future EXCEPT ![k] = Waiting]
         /\ ToServer(ws, [type |-> "resume", ids |-> pending])
         /\ UNCHANGED <<req, pending, gaveUp>>
      \/ p # 0 /\ FailAttempt(p, spawned) /\ UNCHANGED <<up, future>>
  BY DEF GetInit
<1> HIDE DEF spawned, k
<1>8. CASE p = 0 /\ task' = [spawned EXCEPT ![p] = Dead] /\ UNCHANGED <<up, resume, future, req, pending, gaveUp>>
  <2>1. /\ task' \in [TaskIds -> TaskSet] /\ Changes(spawned, p)
        /\ task'[p].pc = "dead" /\ task'[p].sock = 0 /\ task'[k].pc = "start"
    BY <1>3, <1>4, <1>8, TaskKinds DEF Changes
  <2>2. TypeOK'
    <3>1. ClientType'
      BY <1>1, <1>2, <1>3, <1>8, <2>1 DEF ClientType
    <3>2. QED
      BY <1>5, <3>1, TypePartsNext
  <2>3. Wires'
    BY <1>1, <1>5, <1>6, <1>8, WiresKept DEF Wires
  <2>4. Names'
    BY <1>1, <1>2, <1>3, <1>4, <1>8, <2>1, NamesSpawned
  <2>5. Attended'
    BY <1>3, <2>1 DEF Attended, Working
  <2>6. Calls'
    BY <1>1, <1>5, <1>8 DEF Calls, PendingAccounted, Truthful
  <2>7. ServedOnce'
    BY <1>1, <1>5, <1>8, OnceStays
  <2>8. QED
    BY <2>2, <2>3, <2>4, <2>5, <2>6, <2>7 DEF LinkInv
<1>9. CASE /\ p # 0 /\ task' = [spawned EXCEPT ![p].pc = "resume"]
           /\ resume' = k /\ future' = [future EXCEPT ![k] = Waiting]
           /\ ToServer(ws, [type |-> "resume", ids |-> pending])
           /\ UNCHANGED <<req, pending, gaveUp>>
  <2> DEFINE t == [spawned[p] EXCEPT !.pc = "resume"]
             m == [type |-> "resume", ids |-> pending]
  <2>1. t \in TaskSet /\ t.pc = "resume" /\ t.sock = k
    <3>1. spawned[p] \in TaskSet /\ spawned[p].sock = k
      BY <1>3, <1>4 DEF k
    <3>2. \A u : u = [spawned[p] EXCEPT !.pc = "resume"] => u \in TaskSet /\ u.pc = "resume" /\ u.sock = k
      BY <3>1, TaskChanged
    <3>3. QED
      BY <3>2
  <2>2. task' = [spawned EXCEPT ![p] = t]
    BY <1>9
  <2> HIDE DEF t
  <2>3. /\ task' \in [TaskIds -> TaskSet] /\ Changes(spawned, p) /\ task'[p] = t /\ task'[k].pc = "start"
    BY <1>3, <1>4, <2>1, <2>2 DEF Changes
  <2>4. ws \in Sockets
    <3>1. ws \in TaskIds /\ ws # 0
      BY <1>1, <1>3, Constants DEF Names, ClientType
    <3>2. QED
      BY <3>1, Constants
  <2>5. m \in UpMessages /\ m.type = "resume" /\ ToServer(ws, m)
    BY <1>1, <1>9, UpKinds DEF ClientType
  <2> HIDE DEF m
  <2>6. TypeOK'
    <3>1. ClientType'
      BY <1>1, <1>2, <1>3, <1>9, <2>3 DEF ClientType
    <3>2. QED
      BY <1>5, <3>1, TypePartsNext
  <2>7. Wires'
    <3>1. up' \in [Sockets -> Seq(UpMessages)]
      BY <1>1, <2>4, <2>5, ToServerType
    <3>2. Waiting \in Futures /\ Waiting.st = "waiting"
      BY DEF Waiting, Futures
    <3>3. /\ future' \in [Sockets -> Futures]
          /\ \A l \in Sockets : future'[l].st = "set" => future'[l].results \in ResultMaps
      BY <1>1, <1>3, <1>9, <3>2 DEF Wires
    <3>4. QED
      BY <1>1, <1>5, <1>6, <3>1, <3>3, WiresKept
  <2>8. Names'
    <3>1. ASSUME NEW q \in TaskIds
          PROVE  /\ task'[q].pc # "off" => q <= events["dials"]
                 /\ task'[q].sock <= events["dials"]
                 /\ task'[q].pc \in {"init", "resume"} => q < task'[q].sock
                 /\ task'[q].pc = "recv" => task'[q].sock # 0
      <4>1. CASE q = p
        BY <1>1, <1>2, <1>3, <2>1, <2>3, <4>1 DEF Names
      <4>2. CASE q = k
        BY <1>3, <1>4, <2>3, <4>2 DEF Changes
      <4>3. CASE q # p /\ q # k
        BY <1>1, <1>4, <2>3, <4>3 DEF Names, Changes
      <4>4. QED
        BY <4>1, <4>2, <4>3
    <3>2. task'[0].pc \in {"sleep", "init", "dead"}
      BY <1>1, <1>3, <1>4, <1>9, <2>3, Constants DEF Names, Changes
    <3>3. QED
      BY <1>1, <1>2, <1>3, <1>5, <3>1, <3>2 DEF Names
  <2>9. Attended'
    BY <1>3, <2>3 DEF Attended, Working
  <2>10. Calls'
    BY <1>1, <1>5, <1>9 DEF Calls, PendingAccounted, Truthful
  <2>11. ServedOnce'
    BY <1>1, <1>5, <1>9, <2>4, <2>5, ResumeOnce
  <2>12. QED
    BY <2>6, <2>7, <2>8, <2>9, <2>10, <2>11 DEF LinkInv
<1>10. CASE p # 0 /\ FailAttempt(p, spawned) /\ UNCHANGED <<up, future>>
  <2>1. /\ future' \in [Sockets -> Futures]
        /\ \A l \in Sockets : future'[l].st = "set" => future'[l].results \in ResultMaps
    BY <1>1, <1>10 DEF Wires
  <2>2. QED
    BY <1>2, <1>3, <1>4, <1>5, <1>6, <1>10, <2>1, FailInv
<1>11. QED
  BY <1>7, <1>8, <1>9, <1>10

LEMMA ReceivingKinds ==
  ASSUME ClientType, NEW p \in TaskIds
  PROVE  /\ Receiving(p) \in TaskSet /\ Receiving(p).pc \in {"recv", "dead"}
         /\ Receiving(p).pc = "recv" => Receiving(p).sock = ws
         /\ Receiving(p).pc = "dead" =>
              /\ Receiving(p).sock = 0
              /\ \E q \in TaskIds : q # p /\ task[q].pc \in {"recv", "init"}
<1>1. CASE \E q \in TaskIds \ {p} : task[q].pc \in {"recv", "init"} /\ task[q].sock = ws
  <2>1. Receiving(p) = Dead
    BY <1>1 DEF Receiving
  <2>2. QED
    BY <1>1, <2>1, TaskKinds
<1>2. CASE ~ \E q \in TaskIds \ {p} : task[q].pc \in {"recv", "init"} /\ task[q].sock = ws
  <2>1. Receiving(p) = [Off EXCEPT !.pc = "recv", !.sock = ws] /\ ws \in TaskIds
    BY <1>2 DEF Receiving, ClientType
  <2>2. \A t : t = [Off EXCEPT !.pc = "recv", !.sock = ws] => t \in TaskSet /\ t.pc = "recv" /\ t.sock = ws
    BY <2>1, TaskKinds
  <2>3. QED
    BY <2>1, <2>2
<1>3. QED
  BY <1>1, <1>2

\* A listener that reads on, or finds somebody else reading its socket.
LEMMA ReadsOn ==
  ASSUME LinkInv, NEW p \in TaskIds, task[p].pc \in {"start", "recv"},
         task' = [task EXCEPT ![p] = Receiving(p)], UNCHANGED <<ws, listener, gaveUp, events>>
  PROVE  task' \in [TaskIds -> TaskSet] /\ Names' /\ Attended'
<1>1. ClientType /\ TypeOK /\ Names /\ Attended
  BY TypeParts DEF LinkInv
<1> DEFINE t == Receiving(p)
<1>2. /\ t \in TaskSet /\ t.pc \in {"recv", "dead"}
      /\ t.pc = "recv" => t.sock = ws
      /\ t.pc = "dead" => t.sock = 0 /\ \E q \in TaskIds : q # p /\ task[q].pc \in {"recv", "init"}
  BY <1>1, ReceivingKinds
<1>3. task' = [task EXCEPT ![p] = t]
  OBVIOUS
<1> HIDE DEF t
<1>4. task' \in [TaskIds -> TaskSet] /\ task'[p] = t /\ Changes(task, p)
  BY <1>1, <1>2, <1>3 DEF ClientType, Changes
<1>5. p # 0 /\ ws # 0 /\ ws <= events["dials"] /\ events["dials"] \in Nat /\ ws \in TaskIds
  <2>1. p # 0 /\ p <= events["dials"] /\ events["dials"] \in Nat /\ p \in Nat
    BY <1>1, Constants DEF Names, TypeOK, EventKinds
  <2>2. QED
    BY <1>1, <2>1 DEF Names, ClientType
<1>6. Names'
  <2>1. /\ task'[p].sock \in TaskIds /\ task'[p].sock <= events["dials"]
        /\ task'[p].pc \notin {"init", "resume"} /\ (task'[p].pc = "recv" => task'[p].sock # 0)
    BY <1>2, <1>4, <1>5, Constants
  <2>2. listener' <= events["dials"]
    BY <1>1 DEF Names
  <2>3. QED
    BY <1>1, <1>4, <1>5, <2>1, <2>2, NamesKept
<1>7. Attended'
  <2>1. \/ task'[p].pc \in Working \ {"resume"}
        \/ \E q \in TaskIds : q # p /\ task[q].pc \in Working \ {"resume"}
    BY <1>2, <1>4 DEF Working
  <2>2. QED
    BY <1>1, <1>4, <2>1, AttendedKept
<1>8. QED
  BY <1>4, <1>6, <1>7

LEMMA StartInv ==
  ASSUME LinkInv, NEW p \in TaskIds, Start(p)
  PROVE  LinkInv'
<1>1. ServerType /\ ClientType /\ TypeOK /\ Wires /\ Calls /\ ServedOnce
  BY TypeParts DEF LinkInv
<1>2. task' \in [TaskIds -> TaskSet] /\ Names' /\ Attended'
  BY ReadsOn DEF Start
<1>3. UNCHANGED <<wire, peer, up, down, server, ws, listener, resume, future, req, pending, gaveUp, events>>
  BY DEF Start
<1>4. ServerType' /\ UNCHANGED <<cached, serving, outcome>>
  BY <1>1, <1>3, ServerStays
<1>5. TypeOK'
  BY <1>1, <1>2, <1>3, <1>4, TypePartsNext DEF ClientType, TypeOK
<1>6. Wires'
  BY <1>1, <1>3, <1>4, WiresKept DEF Wires
<1>7. Calls' /\ ServedOnce'
  BY <1>1, <1>3, <1>4, OnceStays DEF Calls, PendingAccounted, Truthful
<1>8. QED
  BY <1>2, <1>5, <1>6, <1>7 DEF LinkInv

LEMMA RecvClosedInv ==
  ASSUME LinkInv, NEW p \in TaskIds, RecvClosed(p)
  PROVE  LinkInv'
<1> DEFINE t == [Off EXCEPT !.pc = "sleep"]
<1>1. ServerType /\ ClientType /\ TypeOK /\ Wires /\ Names /\ Attended /\ Calls /\ ServedOnce
  BY TypeParts DEF LinkInv
<1>2. /\ task[p].pc = "recv" /\ task' = [task EXCEPT ![p] = t]
      /\ UNCHANGED <<wire, peer, up, down, server, ws, listener, resume, future, req, pending, gaveUp, events>>
  BY DEF RecvClosed
<1>3. t \in TaskSet /\ t.pc = "sleep" /\ t.sock = 0
  BY TaskKinds
<1> HIDE DEF t
<1>4. task' \in [TaskIds -> TaskSet] /\ task'[p] = t /\ Changes(task, p)
  BY <1>1, <1>2, <1>3 DEF ClientType, Changes
<1>5. ServerType' /\ UNCHANGED <<cached, serving, outcome>>
  BY <1>1, <1>2, ServerStays
<1>6. TypeOK'
  BY <1>1, <1>2, <1>4, <1>5, TypePartsNext DEF ClientType, TypeOK
<1>7. Wires'
  BY <1>1, <1>2, <1>5, WiresKept DEF Wires
<1>8. Names'
  <2>1. 0 <= events["dials"] /\ 0 \in TaskIds /\ listener' <= events["dials"]
    BY <1>1, <1>2, Constants DEF Names, TypeOK, EventKinds
  <2>2. QED
    BY <1>1, <1>2, <1>3, <1>4, <2>1, NamesKept
<1>9. Attended'
  <2>1. task'[p].pc \in Working \ {"resume"}
    BY <1>3, <1>4 DEF Working
  <2>2. QED
    BY <1>1, <1>2, <1>4, <2>1, AttendedKept
<1>10. Calls' /\ ServedOnce'
  BY <1>1, <1>2, <1>5, OnceStays DEF Calls, PendingAccounted, Truthful
<1>11. QED
  BY <1>6, <1>7, <1>8, <1>9, <1>10 DEF LinkInv

LEMMA RecvResponseInv ==
  ASSUME LinkInv, NEW p \in TaskIds, RecvResponse(p)
  PROVE  LinkInv'
<1> DEFINE k == task[p].sock
           m == Head(down[k])
<1>1. ServerType /\ ClientType /\ TypeOK /\ Wires /\ Names /\ Attended /\ Calls /\ ServedOnce
  BY TypeParts DEF LinkInv
<1>2. /\ task[p].pc = "recv" /\ TakeDown(k, "response") /\ pending' = pending \ {m.id}
      /\ req' = IF m.id \in pending /\ req[m.id] = "waiting" THEN [req EXCEPT ![m.id] = Settled(m.status)] ELSE req
      /\ task' = [task EXCEPT ![p] = Receiving(p)]
      /\ UNCHANGED <<wire, peer, up, server, ws, listener, resume, future, gaveUp, events>>
  BY DEF RecvResponse
<1>3. task' \in [TaskIds -> TaskSet] /\ Names' /\ Attended'
  BY <1>2, ReadsOn
<1>4. k \in Sockets
  BY <1>1, <1>2, Constants DEF Names, ClientType, TaskSet
<1>5. /\ down' \in [Sockets -> Seq(DownMessages)]
      /\ m.id \in Requests /\ m.status \in Statuses /\ outcome[m.id] = m.status
  BY <1>1, <1>2, <1>4, TakeDownType, DownKinds, AnswerKinds
<1> HIDE DEF k, m
<1>6. ServerType' /\ UNCHANGED <<cached, serving, outcome>>
  BY <1>1, <1>2, ServerStays
<1>7. /\ req' \in [Requests -> ReqStates]
      /\ \A r \in Requests : req'[r] # req[r] =>
           /\ req[r] = "waiting" /\ r = m.id
           /\ \/ req'[r] = "ok" /\ outcome[r] = "completed"
              \/ req'[r] = "error" /\ outcome[r] = "failed"
      /\ \A r \in Requests : req'[r] = "waiting" => r # m.id \/ r \notin pending
  <2>1. Settled(m.status) \in {"ok", "error"} /\ (Settled(m.status) = "ok" <=> m.status = "completed")
        /\ (m.status = "completed" \/ m.status = "failed")
    BY <1>5 DEF Settled, Statuses
  <2>2. CASE m.id \in pending /\ req[m.id] = "waiting"
    <3>1. req' = [req EXCEPT ![m.id] = Settled(m.status)]
      BY <1>2, <2>2
    <3>2. /\ req'[m.id] = Settled(m.status) /\ \A r \in Requests : r # m.id => req'[r] = req[r]
          /\ req' \in [Requests -> ReqStates]
      BY <1>1, <1>5, <2>1, <3>1 DEF ClientType, ReqStates
    <3>3. QED
      BY <1>5, <2>1, <2>2, <3>2
  <2>3. CASE ~ (m.id \in pending /\ req[m.id] = "waiting")
    BY <1>1, <1>2, <2>3 DEF ClientType
  <2>4. QED
    BY <2>2, <2>3
<1>8. TypeOK'
  BY <1>1, <1>2, <1>3, <1>6, <1>7, TypePartsNext DEF ClientType, TypeOK
<1>9. Wires'
  BY <1>1, <1>2, <1>5, <1>6, WiresKept DEF Wires
<1>10. Calls'
  <2>1. PendingAccounted'
    BY <1>1, <1>2, <1>7 DEF Calls, PendingAccounted
  <2>2. Truthful'
    BY <1>1, <1>6, <1>7 DEF Calls, Truthful
  <2>3. QED
    BY <2>1, <2>2 DEF Calls
<1>11. ServedOnce'
  BY <1>1, <1>2, <1>6, <1>7, OnceStays
<1>12. QED
  BY <1>3, <1>8, <1>9, <1>10, <1>11 DEF LinkInv

\* A task that ends or sleeps: no name of it is left.
LEMMA Leaves ==
  ASSUME LinkInv, NEW p \in TaskIds, p <= events["dials"], task' = [task EXCEPT ![p] = Dead],
         UNCHANGED <<ws, listener>>, events'["dials"] = events["dials"]
  PROVE  task' \in [TaskIds -> TaskSet] /\ Names' /\ Changes(task, p) /\ task'[p] = Dead
<1>1. ClientType /\ TypeOK /\ Names
  BY TypeParts DEF LinkInv
<1>2. Dead \in TaskSet /\ Dead.pc = "dead" /\ Dead.sock = 0
  BY TaskKinds
<1>3. task' \in [TaskIds -> TaskSet] /\ task'[p] = Dead /\ Changes(task, p)
  BY <1>1, <1>2 DEF ClientType, Changes
<1>4. 0 \in TaskIds /\ listener' <= events["dials"] /\ Spawned(task)
  BY <1>1, Constants DEF Names, Spawned
<1>5. Names'
  BY <1>1, <1>2, <1>3, <1>4, NamesSpawned
<1>6. QED
  BY <1>3, <1>5

LEMMA ResumeDoneInv ==
  ASSUME LinkInv, NEW p \in TaskIds, ResumeDone(p)
  PROVE  LinkInv'
<1> DEFINE k == task[p].sock
           results == future[k].results
<1>1. ServerType /\ ClientType /\ TypeOK /\ Wires /\ Names /\ Attended /\ Calls /\ ServedOnce
  BY TypeParts DEF LinkInv
<1>2. /\ task[p].pc = "resume" /\ future[k].st = "set"
      /\ req' = [r \in Requests |->
                   IF r \in DOMAIN results \cap pending /\ req[r] = "waiting" THEN Settled(results[r]) ELSE req[r]]
      /\ pending' = pending \ DOMAIN results
      /\ task' = [task EXCEPT ![p] = Dead] /\ resume' = 0
      /\ UNCHANGED <<wire, peer, up, down, server, ws, listener, future, gaveUp, events>>
  BY DEF ResumeDone
<1>3. k \in Sockets /\ p # 0
  <2>1. k \in TaskIds /\ p < k /\ p # 0
    BY <1>1, <1>2, Constants DEF Names, ClientType, TaskSet
  <2>2. QED
    BY <2>1, Constants
<1>4. results \in ResultMaps
  BY <1>1, <1>2, <1>3 DEF Wires
<1> HIDE DEF results, k
<1>5. task' \in [TaskIds -> TaskSet] /\ Names' /\ Changes(task, p)
  <2>1. p <= events["dials"]
    BY <1>1, <1>2 DEF Names
  <2>2. QED
    BY <1>2, <2>1, Leaves
<1>6. ServerType' /\ UNCHANGED <<cached, serving, outcome>>
  BY <1>1, <1>2, ServerStays
<1>7. \A r \in DOMAIN results :
        \/ Settled(results[r]) = "ok" /\ outcome[r] = "completed"
        \/ Settled(results[r]) = "error" /\ outcome[r] = "failed"
        \/ Settled(results[r]) = "lost"
  <2>1. ASSUME NEW r \in DOMAIN results
        PROVE  \/ Settled(results[r]) = "ok" /\ outcome[r] = "completed"
               \/ Settled(results[r]) = "error" /\ outcome[r] = "failed"
               \/ Settled(results[r]) = "lost"
    <3>1. results[r] \in Results /\ (results[r] # "lost" => outcome[r] = results[r])
      BY <1>4, MapKinds
    <3>2. QED
      BY <3>1 DEF Settled, Results, Statuses
  <2>2. QED
    BY <2>1
<1>8. /\ req' \in [Requests -> ReqStates]
      /\ \A r \in Requests : req'[r] # req[r] =>
           /\ req[r] = "waiting"
           /\ \/ req'[r] = "ok" /\ outcome[r] = "completed"
              \/ req'[r] = "error" /\ outcome[r] = "failed"
              \/ req'[r] = "lost"
  BY <1>1, <1>2, <1>7 DEF ClientType, ReqStates
<1>9. TypeOK'
  <2>1. 0 \in TaskIds /\ pending' \subseteq Requests
    BY <1>1, <1>2, Constants DEF ClientType
  <2>2. QED
    BY <1>1, <1>2, <1>5, <1>6, <1>8, <2>1, TypePartsNext DEF ClientType, TypeOK
<1>10. Wires'
  BY <1>1, <1>2, <1>6, WiresKept DEF Wires
<1>11. Attended'
  BY <1>1, <1>2, <1>3, <1>5, AttendedKept
<1>12. Calls'
  <2>1. PendingAccounted'
    <3>1. ASSUME NEW r \in Requests
          PROVE  /\ req'[r] = "waiting" => r \in pending'
                 /\ r \in pending' => req'[r] \in {"waiting", "raised"}
      <4>1. CASE r \in DOMAIN results \cap pending /\ req[r] = "waiting"
        BY <1>2, <1>7, <4>1
      <4>2. CASE ~ (r \in DOMAIN results \cap pending /\ req[r] = "waiting")
        BY <1>1, <1>2, <4>2 DEF Calls, PendingAccounted
      <4>3. QED
        BY <4>1, <4>2
    <3>2. pending' \subseteq Requests
      BY <1>1, <1>2 DEF ClientType
    <3>3. QED
      BY <3>1, <3>2 DEF PendingAccounted
  <2>2. Truthful'
    BY <1>1, <1>6, <1>8 DEF Calls, Truthful
  <2>3. QED
    BY <2>1, <2>2 DEF Calls
<1>13. ServedOnce'
  BY <1>1, <1>2, <1>6, <1>8, OnceStays
<1>14. QED
  BY <1>5, <1>9, <1>10, <1>11, <1>12, <1>13 DEF LinkInv

LEMMA RecvResumeInv ==
  ASSUME LinkInv, NEW p \in TaskIds, RecvResume(p)
  PROVE  LinkInv'
<1> DEFINE k == task[p].sock
           f == [st |-> "set", results |-> Head(down[k]).results]
<1>1. ServerType /\ ClientType /\ TypeOK /\ Wires /\ Names /\ Attended /\ Calls /\ ServedOnce
  BY TypeParts DEF LinkInv
<1>2. /\ task[p].pc = "recv" /\ TakeDown(k, "resume_response")
      /\ future' = IF resume # 0 /\ future[resume].st = "waiting" THEN [future EXCEPT ![resume] = f] ELSE future
      /\ task' = [task EXCEPT ![p] = Receiving(p)]
      /\ UNCHANGED <<wire, peer, up, server, ws, listener, resume, req, pending, gaveUp, events>>
  BY DEF RecvResume
<1>3. task' \in [TaskIds -> TaskSet] /\ Names' /\ Attended'
  BY <1>2, ReadsOn
<1>4. k \in Sockets
  BY <1>1, <1>2, Constants DEF Names, ClientType, TaskSet
<1>5. down' \in [Sockets -> Seq(DownMessages)] /\ Head(down[k]).results \in ResultMaps
  BY <1>1, <1>2, <1>4, TakeDownType, DownKinds
<1>6. f \in Futures /\ f.results \in ResultMaps
  BY <1>5 DEF Futures
<1> HIDE DEF f, k
<1>7. ServerType' /\ UNCHANGED <<cached, serving, outcome>>
  BY <1>1, <1>2, ServerStays
<1>8. /\ future' \in [Sockets -> Futures]
      /\ \A l \in Sockets : future'[l].st = "set" => future'[l].results \in ResultMaps
  <2>1. CASE resume # 0 /\ future[resume].st = "waiting"
    <3>1. resume \in Sockets
      BY <1>1, <2>1, Constants DEF ClientType
    <3>2. future' = [future EXCEPT ![resume] = f]
      BY <1>2, <2>1
    <3>3. QED
      BY <1>1, <1>6, <3>1, <3>2 DEF Wires
  <2>2. CASE ~ (resume # 0 /\ future[resume].st = "waiting")
    BY <1>1, <1>2, <2>2 DEF Wires
  <2>3. QED
    BY <2>1, <2>2
<1>9. TypeOK'
  BY <1>1, <1>2, <1>3, <1>7, TypePartsNext DEF ClientType, TypeOK
<1>10. Wires'
  BY <1>1, <1>2, <1>5, <1>7, <1>8, WiresKept DEF Wires
<1>11. Calls' /\ ServedOnce'
  BY <1>1, <1>2, <1>7, OnceStays DEF Calls, PendingAccounted, Truthful
<1>12. QED
  BY <1>3, <1>9, <1>10, <1>11 DEF LinkInv

\* A call of request() asks for an id that nothing asked for before.
LEMMA RequestAsks ==
  ASSUME LinkInv, NEW r \in Requests, req[r] = "new", ws \in Sockets,
         ToServer(ws, [type |-> "request", id |-> r]), req' = [req EXCEPT ![r] = "waiting"],
         UNCHANGED <<outcome, serving>>
  PROVE  up' \in [Sockets -> Seq(UpMessages)] /\ ServedOnce'
<1> DEFINE m == [type |-> "request", id |-> r]
<1>1. ClientType /\ Wires /\ ServedOnce /\ up \in [Sockets -> Seq(UpMessages)]
  BY TypeParts DEF LinkInv, Wires
<1>2. m \in UpMessages /\ m.type = "request" /\ m.id = r /\ ToServer(ws, m)
  BY UpKinds
<1> HIDE DEF m
<1>3. up' \in [Sockets -> Seq(UpMessages)]
  BY <1>1, <1>2, ToServerType
<1>4. \A l \in Sockets : up'[l] = up[l] \/ (l = ws /\ up'[l] = Append(up[ws], m))
  BY <1>1, <1>2 DEF ToServer
<1>5. /\ outcome[r] = "none" /\ \A l \in Sockets : ~ Holds(l, r)
      /\ \A l \in Sockets : AsksOnce(up[l])
  BY <1>1 DEF ServedOnce
<1>6. /\ AsksOnce(Append(up[ws], m))
      /\ \A q : Asks(Append(up[ws], m), q) => Asks(up[ws], q) \/ q = r
  <2>1. up[ws] \in Seq(UpMessages) /\ ~ Asks(up[ws], r)
    BY <1>1, <1>5 DEF Holds
  <2>2. QED
    BY <1>2, <1>5, <2>1, AsksAdded
<1>7. ASSUME NEW l \in Sockets
      PROVE  /\ AsksOnce(up'[l])
             /\ \A q : Asks(up'[l], q) => Asks(up[l], q) \/ (l = ws /\ q = r)
  BY <1>4, <1>5, <1>6
<1>8. /\ req'[r] = "waiting" /\ \A q \in Requests : q # r => req'[q] = req[q]
  BY <1>1 DEF ClientType
<1>9. \A l \in Sockets, q \in Requests : Holds(l, q)' => Holds(l, q) \/ (l = ws /\ q = r)
  BY <1>7 DEF Holds
<1>10. \A l \in Sockets : AsksOnce(up'[l]) /\ \A q \in Requests : ~ (Asks(up'[l], q) /\ q \in serving'[l])
  BY <1>1, <1>5, <1>7 DEF ServedOnce, Holds
<1>11. \A l, n \in Sockets, q \in Requests : Holds(l, q)' /\ Holds(n, q)' => l = n
  BY <1>1, <1>5, <1>9 DEF ServedOnce
<1>12. \A l \in Sockets, q \in Requests : Holds(l, q)' => outcome'[q] = "none" /\ req'[q] # "new"
  BY <1>1, <1>5, <1>8, <1>9 DEF ServedOnce
<1>13. QED
  BY <1>1, <1>3, <1>8, <1>10, <1>11, <1>12 DEF ServedOnce

\* What neither moves a task nor reaches the wires to the client.
LEMMA TasksStay ==
  ASSUME LinkInv, UNCHANGED <<ws, listener, task, gaveUp, events>>
  PROVE  Names' /\ Attended'
BY DEF LinkInv, Names, Attended

LEMMA RequestInv ==
  ASSUME LinkInv, NEW r \in Requests, Request(r)
  PROVE  LinkInv'
<1>1. ServerType /\ ClientType /\ TypeOK /\ Wires /\ Names /\ Attended /\ Calls /\ ServedOnce
  BY TypeParts DEF LinkInv
<1>2. /\ req[r] = "new" /\ ws # 0 /\ pending' = pending \cup {r}
      /\ UNCHANGED <<wire, peer, down, server, ws, task, listener, resume, future, gaveUp, events>>
      /\ \/ req' = [req EXCEPT ![r] = "waiting"] /\ ToServer(ws, [type |-> "request", id |-> r])
         \/ req' = [req EXCEPT ![r] = "raised"] /\ UNCHANGED up
  BY DEF Request
<1>3. ws \in Sockets
  BY <1>1, <1>2, Constants DEF ClientType
<1>4. ServerType' /\ UNCHANGED <<cached, serving, outcome>>
  BY <1>1, <1>2, ServerStays
<1>5. /\ req' \in [Requests -> ReqStates] /\ req'[r] \in {"waiting", "raised"}
      /\ \A q \in Requests : q # r => req'[q] = req[q]
  BY <1>1, <1>2 DEF ClientType, ReqStates
<1>6. up' \in [Sockets -> Seq(UpMessages)] /\ ServedOnce'
  <2>1. CASE req' = [req EXCEPT ![r] = "waiting"] /\ ToServer(ws, [type |-> "request", id |-> r])
    BY <1>2, <1>3, <1>4, <2>1, RequestAsks
  <2>2. CASE req' = [req EXCEPT ![r] = "raised"] /\ UNCHANGED up
    <3>1. \A q \in Requests : req'[q] = "new" => req[q] = "new"
      BY <1>5
    <3>2. \A l \in Sockets, q \in Requests : Holds(l, q) => req'[q] # "new"
      BY <1>1, <1>5 DEF ServedOnce
    <3>3. QED
      BY <1>1, <1>4, <2>2, <3>1, <3>2 DEF ServedOnce, Holds, Wires
  <2>3. QED
    BY <1>2, <2>1, <2>2
<1>7. TypeOK'
  <2>1. ClientType'
    BY <1>1, <1>2, <1>5 DEF ClientType
  <2>2. QED
    BY <1>1, <1>2, <1>4, <2>1, TypePartsNext DEF TypeOK
<1>8. Wires'
  BY <1>1, <1>2, <1>4, <1>6, WiresKept DEF Wires
<1>9. Calls'
  <2>1. PendingAccounted'
    BY <1>1, <1>2, <1>5 DEF Calls, PendingAccounted, ClientType
  <2>2. \A q \in Requests : req'[q] # req[q] => req'[q] \notin {"ok", "error"}
    BY <1>5
  <2>3. Truthful'
    BY <1>1, <1>4, <2>2, TruthfulKept DEF Calls
  <2>4. QED
    BY <2>1, <2>3 DEF Calls
<1>10. Names' /\ Attended'
  BY <1>2, TasksStay
<1>11. QED
  BY <1>6, <1>7, <1>8, <1>9, <1>10 DEF LinkInv

LEMMA RequestTimeoutInv ==
  ASSUME LinkInv, NEW r \in Requests, RequestTimeout(r)
  PROVE  LinkInv'
<1>1. ServerType /\ ClientType /\ TypeOK /\ Wires /\ Names /\ Attended /\ Calls /\ ServedOnce
  BY TypeParts DEF LinkInv
<1>2. /\ req[r] = "waiting" /\ req' = [req EXCEPT ![r] = "timeout"] /\ pending' = pending \ {r}
      /\ UNCHANGED <<wire, peer, up, down, server, ws, task, listener, resume, future, gaveUp, events>>
  BY DEF RequestTimeout
<1>3. ServerType' /\ UNCHANGED <<cached, serving, outcome>>
  BY <1>1, <1>2, ServerStays
<1>4. /\ req' \in [Requests -> ReqStates] /\ req'[r] = "timeout"
      /\ \A q \in Requests : q # r => req'[q] = req[q]
  BY <1>1, <1>2 DEF ClientType, ReqStates
<1>5. TypeOK'
  <2>1. ClientType'
    BY <1>1, <1>2, <1>4 DEF ClientType
  <2>2. QED
    BY <1>1, <1>2, <1>3, <2>1, TypePartsNext DEF TypeOK
<1>6. Wires'
  BY <1>1, <1>2, <1>3, WiresKept DEF Wires
<1>7. Calls'
  <2>1. PendingAccounted'
    BY <1>1, <1>2, <1>4 DEF Calls, PendingAccounted
  <2>2. \A q \in Requests : req'[q] # req[q] => req'[q] \notin {"ok", "error"}
    BY <1>4
  <2>3. Truthful'
    BY <1>1, <1>3, <2>2, TruthfulKept DEF Calls
  <2>4. QED
    BY <2>1, <2>3 DEF Calls
<1>8. \A q \in Requests : req'[q] = "new" <=> req[q] = "new"
  BY <1>2, <1>4
<1>9. ServedOnce'
  BY <1>1, <1>2, <1>3, <1>8, OnceStays
<1>10. Names' /\ Attended'
  BY <1>2, TasksStay
<1>11. QED
  BY <1>5, <1>6, <1>7, <1>9, <1>10 DEF LinkInv

LEMMA CloseInv ==
  ASSUME LinkInv, Close
  PROVE  LinkInv'
<1>1. ServerType /\ ClientType /\ TypeOK /\ Wires /\ Names /\ Attended /\ Calls /\ ServedOnce
  BY TypeParts DEF LinkInv
<1>2. /\ listener # 0 /\ Bound("closes", MaxCloses)
      /\ task' = [task EXCEPT ![listener] = Dead]
      /\ resume' = 0 \/ resume' = resume
      /\ wire' = [wire EXCEPT ![ws] = "closed"] /\ down' = [down EXCEPT ![ws] = <<>>]
      /\ UNCHANGED <<peer, up, server, ws, listener, future, req, pending, gaveUp>>
  BY DEF Close
<1>3. /\ events' \in [EventKinds -> Nat] /\ events["closes"] \in Nat /\ events'["closes"] = events["closes"] + 1
      /\ events'["dials"] = events["dials"]
  BY <1>1, <1>2, Counted DEF EventKinds, TypeOK
<1>4. listener \in TaskIds /\ resume' \in TaskIds /\ listener <= events["dials"]
  BY <1>1, <1>2, Constants DEF ClientType, Names
<1>5. task' \in [TaskIds -> TaskSet] /\ Names'
  BY <1>2, <1>3, <1>4, Leaves
<1>6. UNCHANGED <<conn, registered, cached, serving, outcome>>
  BY <1>2 DEF server
<1>7. TypeOK'
  <2>1. ServerType'
    BY <1>1, <1>2, <1>6 DEF ServerType
  <2>2. ClientType'
    BY <1>1, <1>2, <1>4, <1>5 DEF ClientType
  <2>3. QED
    BY <1>3, <2>1, <2>2, TypePartsNext
<1>8. Wires'
  <2>1. <<>> \in Seq(DownMessages)
    OBVIOUS
  <2>2. down' \in [Sockets -> Seq(DownMessages)]
    BY <1>1, <1>2, <2>1 DEF Wires
  <2>3. QED
    BY <1>1, <1>2, <1>6, <2>2, WiresKept DEF Wires
<1>9. Attended'
  BY <1>3 DEF Attended
<1>10. Calls' /\ ServedOnce'
  BY <1>1, <1>2, <1>6, OnceStays DEF Calls, PendingAccounted, Truthful
<1>11. QED
  BY <1>5, <1>7, <1>8, <1>9, <1>10 DEF LinkInv

-----------------------------------------------------------------------------
(* The inductive invariant *)

LEMMA LinkInit == Init => LinkInv
<1> SUFFICES ASSUME Init PROVE LinkInv
  OBVIOUS
<1>1. Off \in TaskSet /\ 0 \in TaskIds /\ MaxSockets \in Nat \ {0}
  <2>1. 0 \in TaskIds /\ 0 \in 0..MaxTries - 1 /\ MaxSockets \in Nat \ {0}
    BY Constants
  <2>2. QED
    BY <2>1 DEF TaskSet, Off
<1>2. /\ task \in [TaskIds -> TaskSet] /\ task[0].pc = "sleep"
      /\ \A p \in TaskIds : task[p].sock = 0 /\ (p # 0 => task[p].pc = "off")
  <2> DEFINE t == [Off EXCEPT !.pc = "sleep"]
  <2>1. t \in TaskSet /\ t.pc = "sleep" /\ t.sock = 0
    BY TaskKinds
  <2>2. Off.pc = "off" /\ Off.sock = 0
    BY DEF Off
  <2>3. task = [p \in TaskIds |-> IF p = 0 THEN t ELSE Off]
    BY DEF Init
  <2> HIDE DEF t
  <2>4. QED
    BY <1>1, <2>1, <2>2, <2>3
<1>3. TypeOK
  BY <1>1, <1>2 DEF Init, TypeOK, TaskSet, ReqStates, EventKinds, Statuses
<1>4. Wires
  <2>1. NoFuture \in Futures /\ NoFuture.st = "none"
    BY DEF NoFuture, Futures
  <2>2. <<>> \in Seq(UpMessages) /\ <<>> \in Seq(DownMessages) /\ <<>> \in Seq(Entries)
    OBVIOUS
  <2>3. QED
    BY <2>1, <2>2 DEF Init, Wires
<1>5. Names
  <2>1. events["dials"] = 0 /\ ws = 0 /\ listener = 0
    BY DEF Init, EventKinds
  <2>2. QED
    BY <1>1, <1>2, <2>1 DEF Names
<1>6. Attended
  BY <1>2 DEF Attended
<1>7. Calls
  BY DEF Init, Calls, PendingAccounted, Truthful
<1>8. ServedOnce
  <2>1. AsksOnce(<<>>) /\ \A r : ~ Asks(<<>>, r)
    BY DEF AsksOnce, Asks
  <2>2. \A k \in Sockets, r \in Requests : ~ Holds(k, r)
    BY <2>1 DEF Init, Holds
  <2>3. QED
    BY <2>1, <2>2 DEF Init, ServedOnce
<1>9. QED
  BY <1>3, <1>4, <1>5, <1>6, <1>7, <1>8 DEF LinkInv

LEMMA OutsideInv == LinkInv /\ Outside => LinkInv'
BY OutsideType, OutsideWires, OutsideOnce, OutsideClient DEF LinkInv

LEMMA StutterInv == LinkInv /\ UNCHANGED vars => LinkInv'
<1> SUFFICES ASSUME LinkInv, UNCHANGED vars PROVE LinkInv'
  OBVIOUS
<1>1. UNCHANGED <<wire, peer, up, down, conn, registered, cached, serving, outcome, ws, task, listener, resume,
                  future, req, pending, gaveUp, events>>
  BY DEF vars, server, client
<1>2. TypeOK' /\ Names' /\ Attended' /\ Calls'
  BY <1>1 DEF LinkInv, TypeOK, Names, Attended, Calls, PendingAccounted, Truthful
<1>3. Wires'
  BY <1>1, SameKinds DEF LinkInv, Wires
<1>4. ServedOnce'
  BY <1>1, OnceStays DEF LinkInv
<1>5. QED
  BY <1>2, <1>3, <1>4 DEF LinkInv

LEMMA LinkNext == LinkInv /\ [Next]_vars => LinkInv'
<1> SUFFICES ASSUME LinkInv, [Next]_vars PROVE LinkInv'
  OBVIOUS
<1>1. ASSUME NEW p \in TaskIds, Client(p) PROVE LinkInv'
  BY <1>1, DialInv, FailsInv, GetInitInv, ResumeDoneInv, StartInv, RecvClosedInv, RecvResponseInv, RecvResumeInv
     DEF Client
<1>2. ASSUME NEW r \in Requests, Request(r) \/ RequestTimeout(r) PROVE LinkInv'
  BY <1>2, RequestInv, RequestTimeoutInv
<1>3. CASE Outside
  BY <1>3, OutsideInv
<1>4. CASE Close
  BY <1>4, CloseInv
<1>5. CASE UNCHANGED vars
  BY <1>5, StutterInv
<1>6. QED
  BY <1>1, <1>2, <1>3, <1>4, <1>5 DEF Next, Outside

THEOREM LinkAlways == Spec => []LinkInv
<1>1. QED
  BY LinkInit, LinkNext, PTL DEF Spec

\* For any numbers of requests, sockets, attempts and cuts: a request that waits is in
\* pending_requests, where a response, a resume or the final failure finds it, and only a
\* request whose send raised stays there after it has ended.
THEOREM LinkPending == Spec => []PendingAccounted
<1>1. LinkInv => PendingAccounted
  BY DEF LinkInv, Calls
<1>2. QED
  BY <1>1, LinkAlways, PTL

\* For any numbers of sockets, cuts and reconnections: the state keeps its types, and until
\* the client has given up or was closed one of its tasks listens or reconnects.
THEOREM LinkNeverDeaf == Spec => []ClientNeverDeaf
<1>1. LinkInv => ClientNeverDeaf
  BY DEF LinkInv, Attended, ClientNeverDeaf, Working
<1>2. QED
  BY <1>1, LinkAlways, PTL

-----------------------------------------------------------------------------
(* The promise *)

\* A call is made once and ends once.
Moves(r) ==
  req'[r] # req[r] => \/ req[r] = "new" /\ req'[r] \in {"waiting", "raised"}
                      \/ req[r] = "waiting" /\ req'[r] # "new"

LEMMA SettledKinds == \A status \in Results : Settled(status) \in {"ok", "error", "lost"}
BY DEF Results, Statuses, Settled

LEMMA FailsMoves ==
  ASSUME LinkInv, NEW p \in TaskIds, DialFails(p) \/ InitFails(p) \/ ResumeFails(p) \/ GetInit(p),
         NEW r \in Requests
  PROVE  Moves(r)
<1>1. UNCHANGED req \/ \E tasks : FailAttempt(p, tasks)
  BY DEF DialFails, InitFails, ResumeFails, GetInit
<1>2. ASSUME NEW tasks, FailAttempt(p, tasks)
      PROVE  req'[r] # req[r] => req[r] = "waiting" /\ req'[r] = "unreachable"
  BY <1>2 DEF FailAttempt
<1>3. QED
  BY <1>1, <1>2 DEF Moves

LEMMA ResponseMoves ==
  ASSUME LinkInv, NEW p \in TaskIds, RecvResponse(p), NEW r \in Requests
  PROVE  Moves(r)
<1> DEFINE k == task[p].sock
           m == Head(down[k])
<1>1. /\ task[p].pc = "recv" /\ TakeDown(k, "response")
      /\ req' = IF m.id \in pending /\ req[m.id] = "waiting" THEN [req EXCEPT ![m.id] = Settled(m.status)] ELSE req
  BY DEF RecvResponse
<1>2. ClientType /\ Wires /\ Names
  BY TypeParts DEF LinkInv
<1>3. k \in Sockets
  BY <1>1, <1>2, Constants DEF Names, ClientType, TaskSet
<1>4. m.status \in Results
  BY <1>1, <1>2, <1>3, TakeDownType, DownKinds, AnswerKinds DEF Results
<1> HIDE DEF k, m
<1>5. Settled(m.status) # "new"
  BY <1>4, SettledKinds
<1>6. QED
  BY <1>1, <1>2, <1>5 DEF ClientType, Moves

LEMMA ResumeMoves ==
  ASSUME LinkInv, NEW p \in TaskIds, ResumeDone(p), NEW r \in Requests
  PROVE  Moves(r)
<1> DEFINE k == task[p].sock
           results == future[k].results
<1>1. /\ task[p].pc = "resume" /\ future[k].st = "set"
      /\ req'[r] = IF r \in DOMAIN results \cap pending /\ req[r] = "waiting" THEN Settled(results[r]) ELSE req[r]
  BY DEF ResumeDone
<1>2. ClientType /\ Wires /\ Names
  BY TypeParts DEF LinkInv
<1>3. k \in Sockets
  <2>1. k \in TaskIds /\ p < k
    BY <1>1, <1>2 DEF Names, ClientType, TaskSet
  <2>2. QED
    BY <2>1, Constants
<1>4. results \in ResultMaps
  BY <1>1, <1>2, <1>3 DEF Wires
<1> HIDE DEF results, k
<1>5. r \in DOMAIN results => Settled(results[r]) # "new"
  BY <1>4, MapKinds, SettledKinds
<1>6. QED
  BY <1>1, <1>5 DEF Moves

LEMMA RequestMoves ==
  ASSUME LinkInv, [Next]_vars, NEW r \in Requests
  PROVE  Moves(r)
<1>1. ASSUME NEW p \in TaskIds, Client(p) PROVE Moves(r)
  <2>1. CASE UNCHANGED req
    BY <2>1 DEF Moves
  <2>2. QED
    BY <1>1, <2>1, FailsMoves, ResponseMoves, ResumeMoves
       DEF Client, Dial, Start, RecvClosed, RecvResume
<1>2. ASSUME NEW q \in Requests, Request(q) \/ RequestTimeout(q) PROVE Moves(r)
  <2>1. req \in [Requests -> ReqStates]
    BY TypeParts DEF LinkInv, ClientType
  <2>2. \/ req[q] = "new" /\ (req' = [req EXCEPT ![q] = "waiting"] \/ req' = [req EXCEPT ![q] = "raised"])
        \/ req[q] = "waiting" /\ req' = [req EXCEPT ![q] = "timeout"]
    BY <1>2 DEF Request, RequestTimeout
  <2>3. QED
    BY <2>1, <2>2 DEF Moves
<1>3. CASE Outside \/ Close \/ UNCHANGED vars
  <2>1. UNCHANGED req
    BY <1>3, OutsideEvents DEF LinkInv, Close, vars, client
  <2>2. QED
    BY <2>1 DEF Moves
<1>4. QED
  BY <1>1, <1>2, <1>3 DEF Next, Outside

\* A service answers once, for a call that was made.
LEMMA OutcomeMoves ==
  ASSUME LinkInv, [Next]_vars, NEW r \in Requests, outcome'[r] # outcome[r]
  PROVE  outcome[r] = "none" /\ req[r] # "new" /\ UNCHANGED req
<1>1. PICK k \in Sockets, q \in Requests, status \in Statuses : Respond(k, q, status)
  BY DEF Next, vars, Server, ClientCut, ServerCut, Auth, Accept, Refuse, DropEarly, HandleRequest, HandleResume,
         HeartbeatTimeout, Client, Dial, DialFails, GetInit, InitFails, ResumeFails, ResumeDone, Start, RecvClosed,
         RecvResponse, RecvResume, Request, RequestTimeout, Close, server
<1>2. /\ q \in serving[k] /\ outcome' = [outcome EXCEPT ![q] = status] /\ UNCHANGED req
  BY <1>1 DEF Respond, client
<1>3. outcome \in [Requests -> Statuses \cup {"none"}] /\ ServedOnce
  BY TypeParts DEF LinkInv, ServerType
<1>4. r = q
  BY <1>2, <1>3
<1>5. QED
  BY <1>2, <1>3, <1>4 DEF ServedOnce, Holds

LEMMA PromiseStep ==
  ASSUME LinkInv, LinkInv', [Next]_vars
  PROVE  [Promise!Next]_(Promise!vars)
<1>1. DOMAIN outcome' = Requests
  BY TypePartsNext DEF LinkInv, ServerType
<1>2. ASSUME NEW r \in Requests PROVE Promise!Step(r)
  <2>1. /\ Moves(r)
        /\ outcome'[r] # outcome[r] => outcome[r] = "none" /\ req[r] # "new" /\ UNCHANGED req
    BY RequestMoves, OutcomeMoves
  <2>2. /\ req[r] = "ok" => outcome[r] = "completed"
        /\ req[r] = "error" => outcome[r] = "failed"
        /\ req'[r] = "ok" => outcome'[r] = "completed"
        /\ req'[r] = "error" => outcome'[r] = "failed"
    BY DEF LinkInv, Calls, Truthful
  <2>3. (req'[r] = "ok" => outcome[r] = "completed") /\ (req'[r] = "error" => outcome[r] = "failed")
    BY <2>1, <2>2
  <2>4. QED
    BY <2>1, <2>3 DEF Promise!Step, Promise!Ended, Moves
<1>3. QED
  BY <1>1, <1>2 DEF Promise!Next, Promise!vars

\* For any numbers of requests, sockets, cuts and retries the link implements RequestPromise:
\* a service answers a call at most once, the call ends at most once, and an answer, from a
\* response or from a resume, is the one the service gave.
THEOREM LinkKeepsPromise == Spec => KeepsPromise
<1>1. Init => Promise!Init
  BY DEF Init, Promise!Init
<1>2. LinkInv /\ LinkInv' /\ [Next]_vars => [Promise!Next]_(Promise!vars)
  BY PromiseStep
<1>3. QED
  BY <1>1, <1>2, LinkAlways, PTL DEF Spec, KeepsPromise, Promise!Spec

=============================================================================
