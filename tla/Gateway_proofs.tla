---------------------------- MODULE Gateway_proofs ----------------------------
(* The approvals, runs and verdicts of Gateway, for any chats, commands and bounds. *)
EXTENDS Gateway, SequenceTheorems, WellFoundedInduction, TLAPS

Messages == [chat : Chats, kind : {"user", "resume"}, version : Nat]
Approvals == [key : [of : {"session", "message"}, number : Nat], scope : Nat, status : {"pending", "approved", "rejected"}]
Runs == [chat : Chats, message : Nat, scope : Nat, cause : Causes,
         status : {"queued", "running", "awaiting_approval", "done", "failed"},
         watcher : {"scheduled", "waiting", "sending", "closing", "over", "lost"},
         task : {"none", "working", "gone"}, told : Seq(Outcomes)]
Orders == [chat : Chats \cup {"none"}, kind : {"none", "plain", "all", "one"}, verdict : {"none", "approved", "rejected"},
           left : SUBSET Nat, granted : SUBSET Nat, open : BOOLEAN, seen : Nat]
Counts == [inputs : Nat, failures : Nat]

Shape ==
  /\ messages \in Seq(Messages) /\ version \in [Chats -> Nat]
  /\ runs \in Seq(Runs) /\ approvals \in Seq(Approvals)
  /\ command \in [Commands -> Orders]
  /\ count \in Counts /\ count.inputs <= MaxInputs /\ count.failures <= MaxFailures

\* What is referred to is there, with n messages and k approvals.
MessageFits(m, versions) == m.version <= versions[m.chat]
ApprovalFits(a, n) == a.scope \in 1..n /\ (a.key.of = "message" => a.key.number = a.scope)
RunFits(run, n, k) == run.message \in 1..n /\ run.scope \in 1..n /\ run.cause.granted \subseteq 1..k
OrderFits(q, n, k) ==
  /\ q.left \subseteq 1..k /\ q.granted \subseteq 1..k /\ q.seen <= n
  /\ q.left # {} => q.verdict # "none"
  /\ q.kind = "none" => q.chat = "none"

\* What a chat was told of a run, by how far its coroutine has come.
First == {"result", "waiting"}
Told(run) ==
  /\ run.watcher \in {"scheduled", "waiting"} => run.told = <<>>
  /\ run.watcher = "sending" => \E k \in First : run.told = <<k>>
  /\ \/ run.told = <<>> /\ run.status \in {"queued", "running"}
     \/ \E k \in Outcomes : run.told = <<k>> /\ run.status = StatusAfter(k)
     \/ \E k \in First : run.told = <<k, "error">> /\ run.status = "failed"

\* The messages a user has written in a chat, and an approval of the last one.
Spoken(list, c) == {m \in DOMAIN list : list[m].chat = c /\ list[m].kind = "user"}
Of(number) == [of |-> "message", number |-> number]

\* A verdict that was given when something was open has an approval of the last message,
\* as long as nothing follows it and the chat fits in a page.
Holds(q, list, versions, asked) ==
  /\ q.chat \in Chats /\ q.kind \in {"plain", "all"} /\ q.open
  /\ versions[q.chat] <= PageSize
  /\ \A m \in Spoken(list, q.chat) : m <= q.seen
  => \E a \in q.granted : asked[a].key = Of(Newest(Spoken(list, q.chat)))

Reaches(run, asked) ==
  run.cause.kind \in {"plain", "all"} /\ run.cause.open /\ ~ run.cause.overtaken /\ ~ run.cause.paged =>
    \E a \in run.cause.granted : asked[a].key = Of(run.scope)

MessagesFit == \A m \in DOMAIN messages : MessageFits(messages[m], version)
ApprovalsFit == Len(approvals) <= MaxApprovals /\ \A a \in DOMAIN approvals : ApprovalFits(approvals[a], Len(messages))
RunsFit ==
  \A r \in DOMAIN runs :
    RunFits(runs[r], Len(messages), Len(approvals)) /\ Told(runs[r]) /\ Reaches(runs[r], approvals)
OrdersFit ==
  \A h \in Commands :
    OrderFits(command[h], Len(messages), Len(approvals)) /\ Holds(command[h], messages, version, approvals)

GatewayInv == Shape /\ MessagesFit /\ ApprovalsFit /\ RunsFit /\ OrdersFit

-----------------------------------------------------------------------------
(* Sequences and numbers *)

\* What Append adds is last.
LEMMA Added ==
  ASSUME NEW S, NEW s \in Seq(S), NEW e \in S, NEW t, t = Append(s, e)
  PROVE  /\ t \in Seq(S) /\ Len(t) = Len(s) + 1 /\ Len(s) \in Nat
         /\ DOMAIN t = 1..(Len(s) + 1) /\ DOMAIN s = 1..Len(s) /\ t[Len(s) + 1] = e
         /\ \A i \in DOMAIN s : i \in DOMAIN t /\ t[i] = s[i]
         /\ \A i \in DOMAIN t : i # Len(s) + 1 => i \in DOMAIN s /\ t[i] = s[i]
<1>1. /\ t \in Seq(S) /\ Len(t) = Len(s) + 1 /\ t[Len(s) + 1] = e
      /\ \A i \in 1..Len(s) : t[i] = s[i]
  BY AppendProperties
<1>2. DOMAIN t = 1..Len(t) /\ DOMAIN s = 1..Len(s) /\ Len(s) \in Nat
  BY <1>1, LenProperties
<1>3. QED
  BY <1>1, <1>2

\* The domain says the length.
LEMMA SameLength ==
  ASSUME NEW S, NEW T, NEW s \in Seq(S), NEW t \in Seq(T), DOMAIN t = DOMAIN s
  PROVE  Len(t) = Len(s)
<1>1. Len(s) \in Nat /\ Len(t) \in Nat /\ 1..Len(s) = 1..Len(t)
  BY LenProperties
<1>2. Len(s) <= Len(t)
  BY <1>1
<1>3. Len(t) <= Len(s)
  BY <1>1
<1>4. QED
  BY <1>1, <1>2, <1>3

\* One element is replaced.
LEMMA Replaced ==
  ASSUME NEW S, NEW s \in Seq(S), NEW i, NEW e, i \in DOMAIN s => e \in S, NEW t, t = [s EXCEPT ![i] = e]
  PROVE  /\ t \in Seq(S) /\ Len(t) = Len(s) /\ DOMAIN t = DOMAIN s
         /\ \A j \in DOMAIN s : t[j] = IF j = i THEN e ELSE s[j]
<1>1. Len(s) \in Nat /\ DOMAIN s = 1..Len(s) /\ s \in [1..Len(s) -> S]
  BY LenProperties
<1>2. t \in [1..Len(s) -> S]
  BY <1>1
<1>3. t \in Seq(S) /\ DOMAIN t = DOMAIN s
  BY <1>1, <1>2, SeqDef
<1>4. \A j \in DOMAIN s : t[j] = IF j = i THEN e ELSE s[j]
  OBVIOUS
<1>5. QED
  BY <1>3, <1>4, SameLength

\* Some message is the newest.
LEMMA NewestIn ==
  ASSUME NEW n \in Nat, NEW S, S \subseteq 1..n, S # {}
  PROVE  Newest(S) \in S
<1> DEFINE T == {n - m : m \in S}
<1>1. T \subseteq Nat /\ T # {}
  <2>1. PICK s : s \in S
    OBVIOUS
  <2>2. n - s \in T
    BY <2>1
  <2>3. \A m \in S : m \in Nat /\ n \in Nat /\ m <= n
    OBVIOUS
  <2>4. \A m \in S : n - m \in Nat
    BY <2>3
  <2>5. QED
    BY <2>2, <2>4
<1>2. PICK x \in T : \A y \in T : ~ (<<y, x>> \in OpToRel(<, Nat))
  BY <1>1, NatLessThanWellFounded, WFMin
<1>3. \A y \in T : ~ (y < x)
  BY <1>1, <1>2 DEF OpToRel
<1>4. PICK top \in S : x = n - top
  OBVIOUS
<1>5. \A m \in S : m <= top
  <2>1. ASSUME NEW m \in S PROVE m <= top
    <3>1. n - m \in T
      OBVIOUS
    <3>2. ~ (n - m < n - top)
      BY <1>3, <1>4, <3>1
    <3>3. m \in Nat /\ top \in Nat
      OBVIOUS
    <3>4. QED
      BY <3>2, <3>3
  <2>2. QED
    BY <2>1
<1>6. QED
  BY <1>4, <1>5 DEF Newest

\* What the invariant says of the sequences.
LEMMA Sizes ==
  ASSUME GatewayInv
  PROVE  /\ messages \in Seq(Messages) /\ Len(messages) \in Nat /\ DOMAIN messages = 1..Len(messages)
         /\ \A m \in DOMAIN messages : messages[m] \in Messages
         /\ runs \in Seq(Runs) /\ Len(runs) \in Nat /\ DOMAIN runs = 1..Len(runs)
         /\ \A r \in DOMAIN runs : runs[r] \in Runs
         /\ approvals \in Seq(Approvals) /\ Len(approvals) \in Nat /\ DOMAIN approvals = 1..Len(approvals)
         /\ \A a \in DOMAIN approvals : approvals[a] \in Approvals
         /\ version \in [Chats -> Nat] /\ command \in [Commands -> Orders]
         /\ PageSize \in Nat /\ MaxApprovals \in Nat /\ MaxInputs \in Nat /\ MaxFailures \in Nat
<1>1. /\ messages \in Seq(Messages) /\ runs \in Seq(Runs) /\ approvals \in Seq(Approvals)
      /\ version \in [Chats -> Nat] /\ command \in [Commands -> Orders]
  BY DEF GatewayInv, Shape
<1>2. QED
  BY <1>1, LenProperties, ElementOfSeq, GatewayAssumption

LEMMA SpokenIn ==
  ASSUME GatewayInv, NEW c
  PROVE  Spoken(messages, c) \subseteq 1..Len(messages)
BY Sizes DEF Spoken

\* The latest message of a chat that fits in a page is the last one the user wrote.
LEMMA LatestSpoken ==
  ASSUME GatewayInv, NEW c \in Chats, version[c] <= PageSize
  PROVE  Latest(c) = Newest(Spoken(messages, c))
<1>1. \A m \in DOMAIN messages : messages[m].chat = c => messages[m].version <= PageSize
  <2>1. ASSUME NEW m \in DOMAIN messages, messages[m].chat = c PROVE messages[m].version <= PageSize
    <3>1. messages[m].version <= version[c] /\ messages[m].version \in Nat /\ version[c] \in Nat /\ PageSize \in Nat
      BY <2>1, Sizes DEF GatewayInv, MessagesFit, MessageFits, Messages
    <3>2. QED
      BY <3>1
  <2>2. QED
    BY <2>1
<1>2. {m \in Page(c) : messages[m].kind = "user"} = Spoken(messages, c)
  BY <1>1 DEF Page, Spoken
<1>3. QED
  BY <1>2 DEF Latest

LEMMA LatestIn ==
  ASSUME GatewayInv, NEW c, Latest(c) # 0
  PROVE  Latest(c) \in 1..Len(messages)
<1>1. PICK S : S = {m \in Page(c) : messages[m].kind = "user"}
  OBVIOUS
<1>2. S \subseteq 1..Len(messages) /\ Len(messages) \in Nat
  BY <1>1, Sizes DEF Page
<1>3. Latest(c) = Newest(S)
  BY <1>1 DEF Latest
<1>4. S # {}
  BY <1>3 DEF Newest
<1>5. QED
  BY <1>2, <1>3, <1>4, NewestIn

\* What a verdict is given to.
LEMMA TargetsIn ==
  ASSUME GatewayInv, NEW c, NEW kind
  PROVE  Targets(c, kind) \subseteq 1..Len(approvals)
<1>1. Pending \subseteq 1..Len(approvals) /\ Scoped(c) \subseteq 1..Len(approvals) /\ Len(approvals) \in Nat
  BY Sizes DEF Pending, Scoped
<1>2. Pending # {} => Newest(Pending) \in Pending
  BY <1>1, NewestIn
<1>3. QED
  BY <1>1, <1>2 DEF Targets

-----------------------------------------------------------------------------
(* Whatever is added, what is there stays *)

LEMMA RunStays ==
  ASSUME NEW run, NEW n \in Nat, NEW k \in Nat, NEW m \in Nat, NEW l \in Nat, n <= m, k <= l, RunFits(run, n, k),
         NEW asked, NEW later, \A a \in 1..k : later[a].key = asked[a].key, Reaches(run, asked)
  PROVE  RunFits(run, m, l) /\ Reaches(run, later)
<1>1. RunFits(run, m, l) /\ run.cause.granted \subseteq 1..k
  BY DEF RunFits
<1>2. Reaches(run, later)
  BY <1>1 DEF Reaches
<1>3. QED
  BY <1>1, <1>2

\* The steps that add no message of a user.
Unspoken ==
  /\ Len(messages') \in Nat /\ Len(messages) <= Len(messages')
  /\ \A c \in Chats : Spoken(messages', c) = Spoken(messages, c)
  /\ version' \in [Chats -> Nat] /\ \A c \in Chats : version[c] <= version'[c]

\* The approvals keep their keys.
KeysKept ==
  /\ Len(approvals') \in Nat /\ Len(approvals) <= Len(approvals')
  /\ \A a \in 1..Len(approvals) : approvals'[a].key = approvals[a].key

LEMMA OrderStays ==
  ASSUME GatewayInv, Unspoken, KeysKept, NEW h \in Commands, command'[h] = command[h]
  PROVE  OrderFits(command[h], Len(messages), Len(approvals))' /\ Holds(command[h], messages, version, approvals)'
<1>1. /\ OrderFits(command[h], Len(messages), Len(approvals)) /\ Holds(command[h], messages, version, approvals)
      /\ command[h] \in Orders /\ version \in [Chats -> Nat] /\ PageSize \in Nat /\ Len(messages) \in Nat /\ Len(approvals) \in Nat
  BY Sizes DEF GatewayInv, OrdersFit
<1>2. OrderFits(command[h], Len(messages'), Len(approvals'))
  BY <1>1 DEF OrderFits, Orders, Unspoken, KeysKept
<1>3. Holds(command[h], messages', version', approvals')
  <2>1. PICK q : q = command[h]
    OBVIOUS
  <2>2. q.granted \subseteq 1..Len(approvals)
    BY <1>1, <2>1 DEF OrderFits
  <2> SUFFICES ASSUME /\ q.chat \in Chats /\ q.kind \in {"plain", "all"} /\ q.open
                      /\ version'[q.chat] <= PageSize
                      /\ \A m \in Spoken(messages', q.chat) : m <= q.seen
               PROVE  \E a \in q.granted : approvals'[a].key = Of(Newest(Spoken(messages', q.chat)))
    BY <2>1 DEF Holds
  <2>3. Spoken(messages', q.chat) = Spoken(messages, q.chat)
    BY DEF Unspoken
  <2>4. version[q.chat] <= PageSize
    BY <1>1 DEF Unspoken
  <2>5. PICK a \in q.granted : approvals[a].key = Of(Newest(Spoken(messages, q.chat)))
    BY <1>1, <2>1, <2>3, <2>4 DEF Holds
  <2>6. approvals'[a].key = approvals[a].key
    BY <2>2, <2>5 DEF KeysKept
  <2>7. QED
    BY <2>3, <2>5, <2>6
<1>4. QED
  BY <1>2, <1>3

-----------------------------------------------------------------------------
(* The parts of the invariant, one at a time *)

LEMMA SameKeys == GatewayInv /\ approvals' = approvals => KeysKept
BY Sizes DEF KeysKept

LEMMA SameMessages ==
  ASSUME GatewayInv, messages' = messages, version' = version \/ \E c \in Chats : Appended(c)
  PROVE  Unspoken /\ MessagesFit' /\ version' \in [Chats -> Nat]
<1>1. version \in [Chats -> Nat] /\ Len(messages) \in Nat /\ \A m \in DOMAIN messages : messages[m] \in Messages
  BY Sizes
<1>2. version' \in [Chats -> Nat] /\ \A c \in Chats : version[c] <= version'[c]
  BY <1>1 DEF Appended
<1>3. \A m \in DOMAIN messages : messages[m].version <= version'[messages[m].chat]
  BY <1>1, <1>2 DEF GatewayInv, MessagesFit, MessageFits, Messages
<1>4. QED
  BY <1>1, <1>2, <1>3 DEF Unspoken, MessagesFit, MessageFits

LEMMA MessageAdded ==
  ASSUME GatewayInv, NEW c \in Chats, NEW kind \in {"user", "resume"}, AppendUser(c, kind)
  PROVE  /\ messages' \in Seq(Messages) /\ Len(messages') = Len(messages) + 1 /\ MessagesFit'
         /\ version' \in [Chats -> Nat] /\ \A d \in Chats : version[d] <= version'[d]
         /\ \A d \in Chats : kind # "user" \/ d # c => Spoken(messages', d) = Spoken(messages, d)
         /\ kind = "user" => Len(messages) + 1 \in Spoken(messages', c)
<1>1. /\ version \in [Chats -> Nat] /\ messages \in Seq(Messages) /\ Len(messages) \in Nat
      /\ \A m \in DOMAIN messages : messages[m] \in Messages
  BY Sizes
<1>2. PICK new : new = [chat |-> c, kind |-> kind, version |-> version[c] + 1]
  OBVIOUS
<1>3. new \in Messages /\ new.chat = c /\ new.kind = kind /\ new.version = version[c] + 1
  BY <1>1, <1>2 DEF Messages
<1>4. messages' = Append(messages, new)
  BY <1>2 DEF AppendUser
<1>5. /\ messages' \in Seq(Messages) /\ Len(messages') = Len(messages) + 1
      /\ DOMAIN messages' = 1..(Len(messages) + 1) /\ DOMAIN messages = 1..Len(messages) /\ messages'[Len(messages) + 1] = new
      /\ \A i \in DOMAIN messages : i \in DOMAIN messages' /\ messages'[i] = messages[i]
      /\ \A i \in DOMAIN messages' : i # Len(messages) + 1 => i \in DOMAIN messages /\ messages'[i] = messages[i]
  BY <1>1, <1>3, <1>4, Added
<1>6. version' = [version EXCEPT ![c] = version[c] + 1]
  BY DEF AppendUser, Appended
<1>7. version' \in [Chats -> Nat] /\ (\A d \in Chats : version[d] <= version'[d]) /\ version'[c] = version[c] + 1
  BY <1>1, <1>6
<1>8. \A m \in DOMAIN messages : messages[m].version <= version'[messages[m].chat]
  BY <1>1, <1>7 DEF GatewayInv, MessagesFit, MessageFits, Messages
<1>9. new.version <= version'[new.chat]
  BY <1>1, <1>3, <1>7
<1>10. MessagesFit'
  BY <1>5, <1>8, <1>9 DEF MessagesFit, MessageFits
<1>11. ASSUME NEW d \in Chats, kind # "user" \/ d # c PROVE Spoken(messages', d) = Spoken(messages, d)
  BY <1>3, <1>5, <1>11 DEF Spoken
<1>12. kind = "user" => Len(messages) + 1 \in Spoken(messages', c)
  BY <1>1, <1>3, <1>5 DEF Spoken
<1>13. QED
  BY <1>5, <1>7, <1>10, <1>11, <1>12

LEMMA ApprovalsStay ==
  ASSUME GatewayInv, approvals' = approvals, Len(messages') \in Nat, Len(messages) <= Len(messages')
  PROVE  ApprovalsFit'
<1>1. Len(messages) \in Nat /\ \A a \in DOMAIN approvals : ApprovalFits(approvals[a], Len(messages))
  BY Sizes DEF GatewayInv, ApprovalsFit
<1>2. \A a \in DOMAIN approvals : ApprovalFits(approvals[a], Len(messages'))
  BY <1>1 DEF ApprovalFits
<1>3. QED
  BY <1>2 DEF GatewayInv, ApprovalsFit

LEMMA RunsStay ==
  ASSUME GatewayInv, KeysKept, Len(messages') \in Nat, Len(messages) <= Len(messages')
  PROVE  \A r \in DOMAIN runs :
           RunFits(runs[r], Len(messages'), Len(approvals')) /\ Told(runs[r]) /\ Reaches(runs[r], approvals')
<1>1. Len(messages) \in Nat /\ Len(approvals) \in Nat
  BY Sizes
<1>2. ASSUME NEW r \in DOMAIN runs
      PROVE  RunFits(runs[r], Len(messages'), Len(approvals')) /\ Told(runs[r]) /\ Reaches(runs[r], approvals')
  <2>1. RunFits(runs[r], Len(messages), Len(approvals)) /\ Told(runs[r]) /\ Reaches(runs[r], approvals)
    BY DEF GatewayInv, RunsFit
  <2>2. RunFits(runs[r], Len(messages'), Len(approvals')) /\ Reaches(runs[r], approvals')
    BY <1>1, <2>1, RunStays DEF KeysKept
  <2>3. QED
    BY <2>1, <2>2
<1>3. QED
  BY <1>2

LEMMA SameRuns ==
  ASSUME GatewayInv, KeysKept, Len(messages') \in Nat, Len(messages) <= Len(messages'), runs' = runs
  PROVE  runs' \in Seq(Runs) /\ RunsFit'
BY RunsStay, Sizes DEF RunsFit

LEMMA RunChanges ==
  ASSUME GatewayInv, messages' = messages, approvals' = approvals, NEW r \in DOMAIN runs, NEW new \in Runs,
         new.message = runs[r].message, new.scope = runs[r].scope, new.cause = runs[r].cause, Told(new),
         runs' = [runs EXCEPT ![r] = new]
  PROVE  runs' \in Seq(Runs) /\ RunsFit'
<1>1. /\ runs' \in Seq(Runs) /\ DOMAIN runs' = DOMAIN runs
      /\ \A j \in DOMAIN runs : runs'[j] = IF j = r THEN new ELSE runs[j]
  BY Sizes, Replaced
<1>2. RunFits(new, Len(messages), Len(approvals)) /\ Reaches(new, approvals)
  BY DEF GatewayInv, RunsFit, RunFits, Reaches
<1>3. QED
  BY <1>1, <1>2 DEF GatewayInv, RunsFit

LEMMA RunAdded ==
  ASSUME GatewayInv, approvals' = approvals, Len(messages') \in Nat, Len(messages) <= Len(messages'), NEW new \in Runs,
         RunFits(new, Len(messages'), Len(approvals)), Told(new), Reaches(new, approvals), runs' = Append(runs, new)
  PROVE  runs' \in Seq(Runs) /\ RunsFit'
<1>1. /\ runs' \in Seq(Runs) /\ runs'[Len(runs) + 1] = new
      /\ \A i \in DOMAIN runs' : i # Len(runs) + 1 => i \in DOMAIN runs /\ runs'[i] = runs[i]
  BY Sizes, Added
<1>2. KeysKept
  BY SameKeys
<1>3. \A i \in DOMAIN runs :
        RunFits(runs[i], Len(messages'), Len(approvals')) /\ Told(runs[i]) /\ Reaches(runs[i], approvals')
  BY <1>2, RunsStay
<1>4. QED
  BY <1>1, <1>3 DEF RunsFit

LEMMA SameOrders ==
  ASSUME GatewayInv, Unspoken, KeysKept, command' = command
  PROVE  command' \in [Commands -> Orders] /\ OrdersFit'
BY OrderStays, Sizes DEF OrdersFit

LEMMA OrderChanges ==
  ASSUME GatewayInv, Unspoken, KeysKept, NEW h \in Commands, NEW q \in Orders, OrderFits(q, Len(messages'), Len(approvals')),
         Holds(q, messages', version', approvals'), command' = [command EXCEPT ![h] = q]
  PROVE  command' \in [Commands -> Orders] /\ OrdersFit'
<1>1. command' \in [Commands -> Orders] /\ command'[h] = q
  BY Sizes
<1>2. ASSUME NEW g \in Commands, g # h
      PROVE  OrderFits(command[g], Len(messages), Len(approvals))' /\ Holds(command[g], messages, version, approvals)'
  <2>1. command'[g] = command[g]
    BY <1>2, Sizes
  <2>2. QED
    BY <2>1, OrderStays
<1>3. QED
  BY <1>1, <1>2 DEF OrdersFit

LEMMA IdleOrder ==
  /\ Idle \in Orders /\ Idle.left = {} /\ Idle.granted = {} /\ Idle.seen = 0 /\ Idle.kind = "none" /\ Idle.chat = "none" /\ ~ Idle.open
  /\ \A n \in Nat, k \in Nat : OrderFits(Idle, n, k)
  /\ \A list, versions, asked : Holds(Idle, list, versions, asked)
<1>1. /\ Idle \in Orders /\ Idle.left = {} /\ Idle.granted = {} /\ Idle.seen = 0 /\ Idle.kind = "none" /\ Idle.chat = "none" /\ ~ Idle.open
  BY DEF Idle, Orders
<1>2. \A n \in Nat, k \in Nat : OrderFits(Idle, n, k)
  BY <1>1 DEF OrderFits
<1>3. \A list, versions, asked : Holds(Idle, list, versions, asked)
  BY <1>1 DEF Holds
<1>4. QED
  BY <1>1, <1>2, <1>3

-----------------------------------------------------------------------------
(* Messages and runs *)

\* A message starts with no verdict behind it.
LEMMA MessageStep ==
  ASSUME GatewayInv, NEW c \in Chats, NEW addressed \in BOOLEAN, Message(c, addressed)
  PROVE  GatewayInv'
<1>1. /\ AppendUser(c, "user") /\ approvals' = approvals /\ command' = command
      /\ Receiving
  BY DEF Message
<1>2. PICK new : new = NewRun(c, Len(messages) + 1, Len(messages) + 1, NoCause)
  OBVIOUS
<1>3. runs' = runs \/ runs' = Append(runs, new)
  BY <1>2 DEF Message
<1>4. /\ messages' \in Seq(Messages) /\ Len(messages') = Len(messages) + 1 /\ MessagesFit'
      /\ version' \in [Chats -> Nat] /\ \A d \in Chats : version[d] <= version'[d]
      /\ \A d \in Chats : d # c => Spoken(messages', d) = Spoken(messages, d)
      /\ Len(messages) + 1 \in Spoken(messages', c)
  BY <1>1, MessageAdded
<1>5. Len(messages) \in Nat /\ Len(messages') \in Nat /\ Len(messages) <= Len(messages') /\ Len(approvals) \in Nat /\ KeysKept
  BY <1>1, <1>4, Sizes, SameKeys
<1>6. runs' \in Seq(Runs) /\ RunsFit'
  <2>1. NoCause \in Causes /\ NoCause.kind = "message" /\ NoCause.granted = {}
    BY DEF NoCause, Causes
  <2>2. /\ new.message = Len(messages) + 1 /\ new.scope = Len(messages) + 1 /\ new.cause = NoCause
        /\ new.watcher = "scheduled" /\ new.told = <<>> /\ new.status = "queued" /\ new.chat = c /\ new.task = "none"
    BY <1>2 DEF NewRun
  <2>3. new \in Runs
    BY <1>2, <1>5, <2>1 DEF NewRun, Runs
  <2>4. RunFits(new, Len(messages'), Len(approvals))
    BY <1>4, <1>5, <2>1, <2>2 DEF RunFits
  <2>5. Told(new)
    BY <2>2 DEF Told
  <2>6. Reaches(new, approvals)
    BY <2>1, <2>2 DEF Reaches
  <2>7. QED
    BY <1>1, <1>3, <1>5, <2>3, <2>4, <2>5, <2>6, RunAdded, SameRuns
<1>7. ApprovalsFit'
  BY <1>1, <1>5, ApprovalsStay
<1>8. OrdersFit'
  <2>1. ASSUME NEW h \in Commands
        PROVE  OrderFits(command[h], Len(messages'), Len(approvals)) /\ Holds(command[h], messages', version', approvals)
    <3>1. PICK q : q = command[h]
      OBVIOUS
    <3>2. OrderFits(q, Len(messages), Len(approvals)) /\ Holds(q, messages, version, approvals) /\ q \in Orders
      BY <3>1, Sizes DEF GatewayInv, OrdersFit
    <3>3. q.seen \in Nat /\ q.seen <= Len(messages)
      BY <3>2 DEF OrderFits, Orders
    <3>4. OrderFits(q, Len(messages'), Len(approvals))
      BY <1>5, <3>2, <3>3 DEF OrderFits
    <3>5. CASE q.chat = c
      <4>1. ~ (Len(messages) + 1 <= q.seen)
        BY <1>5, <3>3
      <4>2. Holds(q, messages', version', approvals)
        BY <1>4, <3>5, <4>1 DEF Holds
      <4>3. QED
        BY <3>1, <3>4, <4>2
    <3>6. CASE q.chat \in Chats /\ q.chat # c
      <4>1. Spoken(messages', q.chat) = Spoken(messages, q.chat)
        BY <1>4, <3>6
      <4>2. version'[q.chat] <= PageSize => version[q.chat] <= PageSize
        <5>1. version[q.chat] \in Nat /\ version'[q.chat] \in Nat /\ PageSize \in Nat /\ version[q.chat] <= version'[q.chat]
          BY <1>4, <3>6, Sizes
        <5>2. QED
          BY <5>1
      <4>3. Holds(q, messages', version', approvals)
        BY <3>2, <4>1, <4>2 DEF Holds
      <4>4. QED
        BY <3>1, <3>4, <4>3
    <3>7. CASE q.chat \notin Chats
      BY <3>1, <3>4, <3>7 DEF Holds
    <3>8. QED
      BY <3>5, <3>6, <3>7
  <2>2. QED
    BY <1>1, <2>1 DEF OrdersFit
<1>9. count' \in Counts /\ count'.inputs <= MaxInputs /\ count'.failures <= MaxFailures
  BY <1>1, Sizes DEF Receiving, GatewayInv, Shape, Counts
<1>10. approvals' \in Seq(Approvals) /\ command' \in [Commands -> Orders]
  BY <1>1, Sizes
<1>11. QED
  BY <1>4, <1>6, <1>7, <1>8, <1>9, <1>10 DEF GatewayInv, Shape

\* Nothing but one run and the counters of a chat change.
LEMMA OneRun ==
  ASSUME GatewayInv, messages' = messages, approvals' = approvals, command' = command,
         version' = version \/ \E c \in Chats : Appended(c), count' = count \/ Failing,
         NEW r \in DOMAIN runs, NEW new \in Runs, runs' = [runs EXCEPT ![r] = new],
         new.message = runs[r].message, new.scope = runs[r].scope, new.cause = runs[r].cause, Told(new)
  PROVE  GatewayInv'
<1>1. Unspoken /\ MessagesFit' /\ version' \in [Chats -> Nat] /\ KeysKept /\ Len(messages) \in Nat
  BY SameMessages, SameKeys, Sizes
<1>2. runs' \in Seq(Runs) /\ RunsFit'
  BY RunChanges
<1>3. ApprovalsFit'
  BY <1>1, ApprovalsStay
<1>4. command' \in [Commands -> Orders] /\ OrdersFit'
  BY <1>1, SameOrders
<1>5. count' \in Counts /\ count'.inputs <= MaxInputs /\ count'.failures <= MaxFailures
  BY Sizes DEF Failing, GatewayInv, Shape, Counts
<1>6. QED
  BY <1>1, <1>2, <1>3, <1>4, <1>5, Sizes DEF GatewayInv, Shape

\* An outcome is told.
LEMMA ConcludeStep ==
  ASSUME GatewayInv, NEW r \in DOMAIN runs, NEW status \in {"awaiting_approval", "done", "failed"}, NEW kind \in Outcomes,
         NEW watcher \in {"sending", "closing"}, NEW task \in {"none", "working", "gone"},
         Conclude(r, status, kind, watcher, task), count' = count \/ Failing,
         \/ /\ runs[r].watcher = "waiting" /\ status = StatusAfter(kind)
            /\ watcher = "sending" => kind \in First
         \/ runs[r].watcher = "sending" /\ kind = "error" /\ status = "failed" /\ watcher = "closing"
  PROVE  GatewayInv'
<1>1. PICK run : run = runs[r]
  OBVIOUS
<1>2. run \in Runs /\ Told(run)
  BY <1>1, Sizes DEF GatewayInv, RunsFit
<1>3. PICK new : new = [run EXCEPT !.status = status, !.watcher = watcher, !.task = task, !.told = Append(run.told, kind)]
  OBVIOUS
<1>4. run.told \in Seq(Outcomes) /\ Append(run.told, kind) \in Seq(Outcomes)
  BY <1>2, AppendProperties DEF Runs
<1>5. /\ new.message = run.message /\ new.scope = run.scope /\ new.cause = run.cause
      /\ new.status = status /\ new.watcher = watcher /\ new.told = Append(run.told, kind)
  BY <1>2, <1>3 DEF Runs
<1>6. new \in Runs
  BY <1>2, <1>3, <1>4 DEF Runs
<1>7. Told(new)
  <2>1. CASE run.watcher = "waiting" /\ status = StatusAfter(kind) /\ (watcher = "sending" => kind \in First)
    <3>1. run.told = <<>>
      BY <1>2, <2>1 DEF Told
    <3>2. new.told = <<kind>>
      BY <1>5, <3>1
    <3>3. QED
      BY <1>5, <2>1, <3>2 DEF Told
  <2>2. CASE run.watcher = "sending" /\ kind = "error" /\ status = "failed" /\ watcher = "closing"
    <3>1. PICK k \in First : run.told = <<k>>
      BY <1>2, <2>2 DEF Told
    <3>2. Append(<<k>>, kind) = <<k, kind>>
      <4>1. k \in Outcomes
        BY DEF First, Outcomes
      <4>2. <<k>> \in Seq(Outcomes) /\ <<k, kind>> \in Seq(Outcomes) /\ Len(<<k>>) = 1 /\ Len(<<k, kind>>) = 2
        BY <4>1
      <4>3. /\ Append(<<k>>, kind) \in Seq(Outcomes) /\ Len(Append(<<k>>, kind)) = 2
            /\ Append(<<k>>, kind)[1] = k /\ Append(<<k>>, kind)[2] = kind
        BY <4>2, AppendProperties
      <4>4. \A i \in 1..2 : Append(<<k>>, kind)[i] = <<k, kind>>[i]
        BY <4>3
      <4>5. QED
        BY <4>2, <4>3, <4>4, SeqEqual
    <3>3. new.told = <<k, "error">>
      BY <1>5, <2>2, <3>1, <3>2
    <3>4. QED
      BY <1>5, <2>2, <3>1, <3>3 DEF Told
  <2>3. QED
    BY <1>1, <2>1, <2>2
<1>8. runs' = [runs EXCEPT ![r] = new]
  BY <1>1, <1>3 DEF Conclude
<1>9. /\ messages' = messages /\ approvals' = approvals /\ command' = command
      /\ \E c \in Chats : Appended(c)
  BY <1>1, <1>2 DEF Conclude, Runs
<1>10. QED
  BY <1>1, <1>5, <1>6, <1>7, <1>8, <1>9, OneRun

LEMMA WatchStep ==
  ASSUME GatewayInv, NEW r \in DOMAIN runs, Watch(r) \/ OrphanEnds(r)
  PROVE  GatewayInv'
<1>1. PICK run : run = runs[r]
  OBVIOUS
<1>2. run \in Runs /\ Told(run)
  BY <1>1, Sizes DEF GatewayInv, RunsFit
<1>3. CASE Begin(r)
  <2>1. PICK new : new = [run EXCEPT !.watcher = "waiting", !.status = "running", !.task = "working"]
    OBVIOUS
  <2>2. /\ new \in Runs /\ new.message = run.message /\ new.scope = run.scope /\ new.cause = run.cause
        /\ new.status = "running" /\ new.watcher = "waiting" /\ new.told = run.told
    BY <1>2, <2>1 DEF Runs
  <2>3. run.told = <<>>
    BY <1>1, <1>2, <1>3 DEF Begin, Told
  <2>4. Told(new)
    BY <2>2, <2>3 DEF Told
  <2>5. runs' = [runs EXCEPT ![r] = new]
    BY <1>1, <1>3, <2>1 DEF Begin
  <2>6. QED
    BY <1>1, <1>3, <2>2, <2>4, <2>5, OneRun DEF Begin
<1>4. CASE Sent(r)
  <2>1. PICK new : new = [run EXCEPT !.watcher = "over"]
    OBVIOUS
  <2>2. /\ new \in Runs /\ new.message = run.message /\ new.scope = run.scope /\ new.cause = run.cause
        /\ new.status = run.status /\ new.watcher = "over" /\ new.told = run.told
    BY <1>2, <2>1 DEF Runs
  <2>3. Told(new)
    BY <1>2, <2>2 DEF Told
  <2>4. runs' = [runs EXCEPT ![r] = new]
    BY <1>1, <1>4, <2>1 DEF Sent
  <2>5. QED
    BY <1>1, <1>4, <2>2, <2>3, <2>4, OneRun DEF Sent
<1>5. CASE OrphanEnds(r)
  <2>1. PICK new : new = [run EXCEPT !.task = "gone"]
    OBVIOUS
  <2>2. /\ new \in Runs /\ new.message = run.message /\ new.scope = run.scope /\ new.cause = run.cause
        /\ new.status = run.status /\ new.watcher = run.watcher /\ new.told = run.told
    BY <1>2, <2>1 DEF Runs
  <2>3. Told(new)
    BY <1>2, <2>2 DEF Told
  <2>4. runs' = [runs EXCEPT ![r] = new]
    BY <1>1, <1>5, <2>1 DEF OrphanEnds
  <2>5. QED
    BY <1>1, <1>5, <2>2, <2>3, <2>4, OneRun DEF OrphanEnds
<1>6. CASE Return(r)
  BY <1>6, ConcludeStep DEF Return, StatusAfter, Outcomes, First
<1>7. CASE AwaitApproval(r)
  BY <1>7, ConcludeStep DEF AwaitApproval, StatusAfter, Outcomes, First
<1>8. CASE Timeout(r)
  BY <1>8, ConcludeStep DEF Timeout, StatusAfter, Outcomes
<1>9. CASE Break(r)
  BY <1>9, ConcludeStep DEF Break, StatusAfter, Outcomes
<1>10. CASE SendRaises(r)
  <2>1. runs[r].task \in {"none", "working", "gone"}
    BY <1>1, <1>2 DEF Runs
  <2>2. QED
    BY <1>10, <2>1, ConcludeStep DEF SendRaises, Outcomes
<1>11. QED
  BY <1>3, <1>4, <1>5, <1>6, <1>7, <1>8, <1>9, <1>10 DEF Watch

-----------------------------------------------------------------------------
(* Approvals and verdicts *)

\* A verdict leaves less pending, whichever approval it is written to.
LEMMA VerdictWritten ==
  ASSUME GatewayInv, NEW i, NEW verdict \in {"approved", "rejected"}, messages' = messages,
         approvals' = [approvals EXCEPT ![i].status = verdict]
  PROVE  /\ approvals' \in Seq(Approvals) /\ Len(approvals') = Len(approvals) /\ KeysKept /\ ApprovalsFit'
         /\ OneOpenApproval => OneOpenApproval'
<1>1. PICK new : new = [approvals[i] EXCEPT !.status = verdict]
  OBVIOUS
<1>2. /\ approvals \in Seq(Approvals) /\ Len(approvals) \in Nat /\ DOMAIN approvals = 1..Len(approvals)
      /\ \A a \in DOMAIN approvals : approvals[a] \in Approvals /\ ApprovalFits(approvals[a], Len(messages))
  BY Sizes DEF GatewayInv, ApprovalsFit
<1>3. i \in DOMAIN approvals => /\ new \in Approvals /\ new.key = approvals[i].key /\ new.scope = approvals[i].scope
                                /\ new.status = verdict
  BY <1>1, <1>2 DEF Approvals
<1>4. approvals' = [approvals EXCEPT ![i] = new]
  BY <1>1
<1>5. /\ approvals' \in Seq(Approvals) /\ Len(approvals') = Len(approvals) /\ DOMAIN approvals' = DOMAIN approvals
      /\ \A a \in DOMAIN approvals : approvals'[a] = IF a = i THEN new ELSE approvals[a]
  <2>1. approvals \in Seq(Approvals) /\ (i \in DOMAIN approvals => new \in Approvals)
    BY <1>2, <1>3
  <2>2. QED
    BY <1>4, <2>1, Replaced
<1>6. \A a \in DOMAIN approvals : /\ approvals'[a].key = approvals[a].key /\ approvals'[a].scope = approvals[a].scope
                                  /\ approvals'[a].status = "pending" => approvals[a].status = "pending"
  <2>1. ASSUME NEW a \in DOMAIN approvals
        PROVE  /\ approvals'[a].key = approvals[a].key /\ approvals'[a].scope = approvals[a].scope
               /\ approvals'[a].status = "pending" => approvals[a].status = "pending"
    <3>1. CASE a = i
      <4>1. approvals'[a] = new
        BY <1>5, <3>1
      <4>2. new.status # "pending"
        BY <1>3, <3>1
      <4>3. QED
        BY <1>3, <3>1, <4>1, <4>2
    <3>2. CASE a # i
      BY <1>5, <3>2
    <3>3. QED
      BY <3>1, <3>2
  <2>2. QED
    BY <2>1
<1>7. KeysKept
  BY <1>2, <1>5, <1>6 DEF KeysKept
<1>8. ApprovalsFit'
  BY <1>2, <1>5, <1>6 DEF GatewayInv, ApprovalsFit, ApprovalFits
<1>9. OneOpenApproval => OneOpenApproval'
  BY <1>5, <1>6 DEF OneOpenApproval
<1>10. QED
  BY <1>5, <1>7, <1>8, <1>9

\* An approval is asked for only when none of its action is pending.
LEMMA AskStep ==
  ASSUME GatewayInv, NEW r \in DOMAIN runs, NEW named \in BOOLEAN, Ask(r, named)
  PROVE  GatewayInv' /\ (OneOpenApproval => OneOpenApproval')
<1>1. PICK key : key = KeyOf(r, named)
  OBVIOUS
<1>2. PICK new : new = [key |-> key, scope |-> runs[r].scope, status |-> "pending"]
  OBVIOUS
<1>3. /\ approvals' = Append(approvals, new) /\ Len(approvals) < MaxApprovals
      /\ UNCHANGED <<messages, version, runs, command, count>>
      /\ \A a \in DOMAIN approvals : approvals[a].status = "pending" => approvals[a].key # key
  BY <1>1, <1>2 DEF Ask, Answered
<1>4. runs[r].scope \in 1..Len(messages) /\ r \in Nat /\ Len(messages) \in Nat /\ Len(approvals) \in Nat /\ MaxApprovals \in Nat
  BY Sizes DEF GatewayInv, RunsFit, RunFits
<1>5. key \in [of : {"session", "message"}, number : Nat] /\ (key.of = "message" => key.number = runs[r].scope)
  BY <1>1, <1>4 DEF KeyOf
<1>6. new \in Approvals /\ new.key = key /\ new.scope = runs[r].scope /\ new.status = "pending"
  BY <1>2, <1>4, <1>5 DEF Approvals
<1>7. /\ approvals' \in Seq(Approvals) /\ Len(approvals') = Len(approvals) + 1
      /\ approvals'[Len(approvals) + 1] = new /\ DOMAIN approvals = 1..Len(approvals)
      /\ \A a \in DOMAIN approvals : approvals'[a] = approvals[a]
      /\ \A a \in DOMAIN approvals' : a # Len(approvals) + 1 => a \in DOMAIN approvals /\ approvals'[a] = approvals[a]
  BY <1>3, <1>6, Sizes, Added
<1>8. KeysKept
  BY <1>4, <1>7 DEF KeysKept
<1>9. ApprovalsFit'
  <2>1. ApprovalFits(new, Len(messages))
    BY <1>4, <1>5, <1>6 DEF ApprovalFits
  <2>2. Len(approvals') <= MaxApprovals
    BY <1>3, <1>4, <1>7
  <2>3. QED
    BY <1>3, <1>7, <2>1, <2>2 DEF GatewayInv, ApprovalsFit
<1>10. MessagesFit' /\ Unspoken /\ version' \in [Chats -> Nat]
  BY <1>3, SameMessages
<1>11. runs' \in Seq(Runs) /\ RunsFit' /\ command' \in [Commands -> Orders] /\ OrdersFit'
  BY <1>3, <1>4, <1>8, <1>10, SameRuns, SameOrders
<1>12. OneOpenApproval => OneOpenApproval'
  BY <1>3, <1>6, <1>7 DEF OneOpenApproval
<1>13. QED
  BY <1>3, <1>7, <1>9, <1>10, <1>11, <1>12 DEF GatewayInv, Shape

\* One coroutine with a verdict goes on, and the messages and runs stay.
LEMMA OneOrder ==
  ASSUME GatewayInv, messages' = messages, version' = version, runs' = runs, count' = count \/ Receiving,
         approvals' \in Seq(Approvals), KeysKept, ApprovalsFit',
         NEW h \in Commands, NEW q \in Orders, command' = [command EXCEPT ![h] = q],
         OrderFits(q, Len(messages), Len(approvals')), Holds(q, messages, version, approvals')
  PROVE  GatewayInv'
<1>1. Unspoken /\ MessagesFit' /\ version' \in [Chats -> Nat] /\ Len(messages) \in Nat
  BY SameMessages, Sizes
<1>2. runs' \in Seq(Runs) /\ RunsFit'
  BY <1>1, SameRuns
<1>3. command' \in [Commands -> Orders] /\ OrdersFit'
  BY <1>1, OrderChanges
<1>4. count' \in Counts /\ count'.inputs <= MaxInputs /\ count'.failures <= MaxFailures
  BY Sizes DEF Receiving, GatewayInv, Shape, Counts
<1>5. QED
  BY <1>1, <1>2, <1>3, <1>4, Sizes DEF GatewayInv, Shape

\* What is open for the last message of a chat is among what a verdict in it is given to.
LEMMA OpenTargeted ==
  ASSUME GatewayInv, NEW c \in Chats, NEW kind \in {"plain", "all"}, Open(c), version[c] <= PageSize
  PROVE  \E a \in Targets(c, kind) : approvals[a].key = Of(Newest(Spoken(messages, c)))
<1>1. PICK last : last = Newest(Spoken(messages, c))
  OBVIOUS
<1>2. PICK a \in Pending : approvals[a].key = Of(last)
  BY <1>1 DEF Open, Spoken, Of
<1>3. approvals[a].key.of = "message" /\ approvals[a].key.number = last /\ a \in DOMAIN approvals
  BY <1>2 DEF Of, Pending
<1>4. approvals[a].scope = last /\ last \in 1..Len(messages)
  BY <1>3 DEF GatewayInv, ApprovalsFit, ApprovalFits
<1>5. Latest(c) = last /\ last # 0
  BY <1>1, <1>4, LatestSpoken
<1>6. a \in Scoped(c)
  BY <1>2, <1>4, <1>5 DEF Scoped
<1>7. QED
  BY <1>1, <1>2, <1>6 DEF Targets

LEMMA CommandStep ==
  ASSUME GatewayInv, NEW h \in Commands, NEW c \in Chats, NEW kind \in {"plain", "all", "one"}, NEW targets,
         NEW verdict \in {"approved", "rejected"},
         targets \subseteq 1..Len(approvals), kind \in {"plain", "all"} => targets = Targets(c, kind),
         Command(h, c, kind, targets, verdict)
  PROVE  GatewayInv' /\ (OneOpenApproval => OneOpenApproval')
<1>1. PICK i : i = Oldest(targets)
  OBVIOUS
<1>2. PICK q : q = [chat |-> c, kind |-> kind, verdict |-> verdict, left |-> targets \ {i}, granted |-> targets,
                    open |-> Open(c), seen |-> Len(messages)]
  OBVIOUS
<1>3. /\ approvals' = [approvals EXCEPT ![i].status = verdict] /\ command' = [command EXCEPT ![h] = q]
      /\ UNCHANGED <<messages, version, runs>> /\ Receiving
  BY <1>1, <1>2 DEF Command
<1>4. Len(messages) \in Nat /\ Len(approvals) \in Nat
  BY Sizes
<1>5. PICK open \in BOOLEAN : open = Open(c)
  BY DEF Open
<1>6. \A a \in targets : a \in 1..Len(approvals) /\ a \in Nat
  <2>1. \A a \in 1..Len(approvals) : a \in Nat
    BY <1>4
  <2>2. QED
    BY <2>1
<1>7. q \in Orders
  <2>1. q = [chat |-> c, kind |-> kind, verdict |-> verdict, left |-> targets \ {i}, granted |-> targets,
             open |-> open, seen |-> Len(messages)]
    BY <1>2, <1>5
  <2>2. c \in Chats \cup {"none"} /\ kind \in {"none", "plain", "all", "one"} /\ verdict \in {"none", "approved", "rejected"}
    OBVIOUS
  <2>3. QED
    BY <1>4, <1>6, <2>1, <2>2 DEF Orders
<1>8. /\ q.chat = c /\ q.kind = kind /\ q.verdict = verdict /\ q.left = targets \ {i} /\ q.granted = targets
      /\ q.seen = Len(messages)
  BY <1>2
<1>9. q.open => Open(c)
  BY <1>2
<1>10. /\ approvals' \in Seq(Approvals) /\ Len(approvals') = Len(approvals) /\ KeysKept /\ ApprovalsFit'
       /\ OneOpenApproval => OneOpenApproval'
  BY <1>3, VerdictWritten
<1>11. OrderFits(q, Len(messages), Len(approvals'))
  <2>1. q.left \subseteq 1..Len(approvals) /\ q.granted \subseteq 1..Len(approvals)
    BY <1>6, <1>8
  <2>2. q.seen <= Len(messages)
    BY <1>4, <1>8
  <2>3. q.verdict # "none" /\ q.kind # "none"
    BY <1>8
  <2>4. Len(approvals') = Len(approvals)
    BY <1>10
  <2>5. QED
    BY <2>1, <2>2, <2>3, <2>4 DEF OrderFits
<1>12. Holds(q, messages, version, approvals')
  <2> SUFFICES ASSUME q.kind \in {"plain", "all"}, q.open, version[q.chat] <= PageSize
               PROVE  \E a \in q.granted : approvals'[a].key = Of(Newest(Spoken(messages, q.chat)))
    BY DEF Holds
  <2>1. PICK a \in targets : approvals[a].key = Of(Newest(Spoken(messages, c)))
    BY <1>8, <1>9, OpenTargeted
  <2>2. approvals'[a].key = approvals[a].key
    BY <1>10, <2>1 DEF KeysKept
  <2>3. QED
    BY <1>8, <2>1, <2>2
<1>13. QED
  BY <1>3, <1>7, <1>10, <1>11, <1>12, OneOrder

LEMMA ResolveStep ==
  ASSUME GatewayInv, NEW h \in Commands, ResolveNext(h)
  PROVE  GatewayInv' /\ (OneOpenApproval => OneOpenApproval')
<1>1. PICK p : p = command[h]
  OBVIOUS
<1>2. p \in Orders /\ OrderFits(p, Len(messages), Len(approvals)) /\ Holds(p, messages, version, approvals) /\ p.left # {}
  BY <1>1, Sizes DEF GatewayInv, OrdersFit, ResolveNext
<1>3. PICK i : i = Oldest(p.left)
  OBVIOUS
<1>4. PICK q : q = [p EXCEPT !.left = p.left \ {i}]
  OBVIOUS
<1>5. /\ approvals' = [approvals EXCEPT ![i].status = p.verdict] /\ command' = [command EXCEPT ![h] = q]
      /\ UNCHANGED <<messages, version, runs, count>>
  BY <1>1, <1>3, <1>4 DEF ResolveNext
<1>6. p.verdict \in {"approved", "rejected"}
  BY <1>2 DEF OrderFits, Orders
<1>7. /\ approvals' \in Seq(Approvals) /\ Len(approvals') = Len(approvals) /\ KeysKept /\ ApprovalsFit'
      /\ OneOpenApproval => OneOpenApproval'
  BY <1>5, <1>6, VerdictWritten
<1>8. /\ q.chat = p.chat /\ q.kind = p.kind /\ q.verdict = p.verdict /\ q.left = p.left \ {i} /\ q.granted = p.granted
      /\ q.open = p.open /\ q.seen = p.seen
  BY <1>2, <1>4 DEF Orders
<1>9. q \in Orders
  BY <1>2, <1>4 DEF Orders
<1>10. OrderFits(q, Len(messages), Len(approvals'))
  BY <1>2, <1>6, <1>7, <1>8 DEF OrderFits
<1>11. Holds(q, messages, version, approvals')
  <2>1. p.granted \subseteq 1..Len(approvals)
    BY <1>2 DEF OrderFits
  <2>2. \A a \in p.granted : approvals'[a].key = approvals[a].key
    BY <1>7, <2>1 DEF KeysKept
  <2>3. Holds(p, messages, version, approvals')
    BY <1>2, <2>2 DEF Holds
  <2>4. QED
    BY <1>8, <2>3 DEF Holds
<1>12. QED
  BY <1>5, <1>7, <1>9, <1>10, <1>11, OneOrder

LEMMA DismissStep ==
  ASSUME GatewayInv, NEW h \in Commands, Dismiss(h)
  PROVE  GatewayInv'
<1>1. /\ UNCHANGED <<messages, version, runs, approvals, count>> /\ command' = [command EXCEPT ![h] = Idle]
  BY DEF Dismiss
<1>2. Len(messages) \in Nat /\ Len(approvals) \in Nat /\ approvals' \in Seq(Approvals) /\ KeysKept
  BY <1>1, Sizes, SameKeys
<1>3. ApprovalsFit'
  BY <1>1, <1>2, ApprovalsStay, Sizes
<1>4. Idle \in Orders /\ OrderFits(Idle, Len(messages), Len(approvals')) /\ Holds(Idle, messages, version, approvals')
  BY <1>1, <1>2, IdleOrder
<1>5. QED
  BY <1>1, <1>2, <1>3, <1>4, OneOrder

\* The run that is resumed is one an approval has reached, if the verdict had one to reach.
LEMMA ResumeStep ==
  ASSUME GatewayInv, NEW h \in Commands, Resume(h)
  PROVE  GatewayInv'
<1>1. PICK q : q = command[h]
  OBVIOUS
<1>2. q \in Orders /\ OrderFits(q, Len(messages), Len(approvals)) /\ Holds(q, messages, version, approvals)
  BY <1>1, Sizes DEF GatewayInv, OrdersFit
<1>3. PICK c : c = q.chat
  OBVIOUS
<1>4. c \in Chats
  BY <1>1, <1>2, <1>3 DEF Resume, Resolved, Orders
<1>5. /\ approvals' = approvals /\ count' = count /\ command' = [command EXCEPT ![h] = Idle]
  BY DEF Resume
<1>6. /\ Len(messages) \in Nat /\ Len(approvals) \in Nat /\ approvals' \in Seq(Approvals) /\ KeysKept
      /\ MaxApprovals \in Nat /\ PageSize \in Nat
  BY <1>5, Sizes, SameKeys
<1>7. CASE Latest(c) = 0
  <2>1. UNCHANGED <<messages, version, runs>>
    BY <1>1, <1>3, <1>7 DEF Resume
  <2>2. ApprovalsFit'
    BY <1>5, <1>6, <2>1, ApprovalsStay
  <2>3. Idle \in Orders /\ OrderFits(Idle, Len(messages), Len(approvals')) /\ Holds(Idle, messages, version, approvals')
    BY <1>5, <1>6, IdleOrder
  <2>4. QED
    BY <1>5, <1>6, <2>1, <2>2, <2>3, OneOrder
<1>8. CASE Latest(c) # 0
  <2>1. PICK cause : cause = Cause(h)
    OBVIOUS
  <2>2. PICK new : new = NewRun(c, Len(messages) + 1, Latest(c), cause)
    OBVIOUS
  <2>3. AppendUser(c, "resume") /\ runs' = Append(runs, new)
    BY <1>1, <1>3, <1>8, <2>1, <2>2 DEF Resume
  <2>4. /\ messages' \in Seq(Messages) /\ Len(messages') = Len(messages) + 1 /\ MessagesFit'
        /\ version' \in [Chats -> Nat] /\ \A d \in Chats : version[d] <= version'[d]
        /\ \A d \in Chats : Spoken(messages', d) = Spoken(messages, d)
    BY <1>4, <2>3, MessageAdded
  <2>5. Len(messages') \in Nat /\ Len(messages) <= Len(messages')
    BY <1>6, <2>4
  <2>6. Unspoken
    BY <2>4, <2>5 DEF Unspoken
  <2>7. q.granted \subseteq 1..MaxApprovals /\ q.granted \subseteq 1..Len(approvals)
    <3>1. q.granted \subseteq 1..Len(approvals)
      BY <1>2 DEF OrderFits
    <3>2. Len(approvals) <= MaxApprovals
      BY DEF GatewayInv, ApprovalsFit
    <3>3. \A a \in 1..Len(approvals) : a \in 1..MaxApprovals
      BY <1>6, <3>2
    <3>4. QED
      BY <3>1, <3>3
  <2>8. PICK over \in BOOLEAN : over = \E m \in DOMAIN messages : m > q.seen /\ messages[m].chat = c /\ messages[m].kind = "user"
    OBVIOUS
  <2>9. PICK paged \in BOOLEAN : paged = (version[c] > PageSize)
    <3>1. (version[c] > PageSize) \in BOOLEAN
      BY SMT
    <3>2. QED
      BY <3>1, Zenon
  <2>10. cause = [kind |-> q.kind, granted |-> q.granted, open |-> q.open, overtaken |-> over, paged |-> paged]
    BY <1>1, <1>3, <2>1, <2>8, <2>9 DEF Cause
  <2>11. /\ cause.kind = q.kind /\ cause.granted = q.granted /\ cause.open = q.open /\ cause.overtaken = over
         /\ cause.paged = paged
    BY <2>10
  <2>12. q.kind \in {"plain", "all", "one"}
    BY <1>1, <1>2 DEF Resume, Resolved, OrderFits, Orders
  <2>13. cause \in Causes
    <3>1. q.open \in BOOLEAN
      BY <1>2 DEF Orders
    <3>2. q.granted \in SUBSET (1..MaxApprovals)
      BY <2>7
    <3>3. QED
      BY <2>8, <2>9, <2>10, <2>12, <3>1, <3>2 DEF Causes
  <2>14. /\ new.message = Len(messages) + 1 /\ new.scope = Latest(c) /\ new.cause = cause
         /\ new.watcher = "scheduled" /\ new.told = <<>> /\ new.status = "queued"
    BY <2>2 DEF NewRun
  <2>15. Latest(c) \in 1..Len(messages)
    BY <1>8, LatestIn
  <2>16. new \in Runs
    BY <1>4, <1>6, <2>2, <2>13, <2>15 DEF NewRun, Runs
  <2>17. RunFits(new, Len(messages'), Len(approvals))
    BY <1>6, <2>4, <2>7, <2>11, <2>14, <2>15 DEF RunFits
  <2>18. Told(new)
    BY <2>14 DEF Told
  <2>19. Reaches(new, approvals)
    <3> SUFFICES ASSUME q.kind \in {"plain", "all"}, q.open, ~ over, ~ paged
                 PROVE  \E a \in q.granted : approvals[a].key = Of(Latest(c))
      BY <2>11, <2>14 DEF Reaches
    <3>1. version[c] <= PageSize
      <4>1. version[c] \in Nat
        BY <1>4, Sizes
      <4>2. ~ (version[c] > PageSize)
        BY <2>9, Zenon
      <4>3. QED
        BY <1>6, <4>1, <4>2
    <3>2. ASSUME NEW m \in Spoken(messages, c) PROVE m <= q.seen
      <4>1. m \in DOMAIN messages /\ messages[m].chat = c /\ messages[m].kind = "user"
        BY DEF Spoken
      <4>2. ~ (m > q.seen)
        BY <2>8, <4>1, Zenon
      <4>3. m \in Nat /\ q.seen \in Nat
        BY <1>2, <4>1, Sizes DEF Orders
      <4>4. QED
        BY <4>2, <4>3
    <3>3. \E a \in q.granted : approvals[a].key = Of(Newest(Spoken(messages, c)))
      BY <1>2, <1>3, <1>4, <3>1, <3>2 DEF Holds
    <3>4. QED
      BY <1>4, <3>1, <3>3, LatestSpoken
  <2>20. runs' \in Seq(Runs) /\ RunsFit'
    BY <1>5, <2>3, <2>5, <2>16, <2>17, <2>18, <2>19, RunAdded
  <2>21. ApprovalsFit'
    BY <1>5, <2>5, ApprovalsStay
  <2>22. command' \in [Commands -> Orders] /\ OrdersFit'
    <3>1. OrderFits(Idle, Len(messages'), Len(approvals')) /\ Holds(Idle, messages', version', approvals') /\ Idle \in Orders
      BY <1>5, <1>6, <2>5, IdleOrder
    <3>2. QED
      BY <1>5, <1>6, <2>6, <3>1, OrderChanges
  <2>23. QED
    BY <1>5, <1>6, <2>4, <2>20, <2>21, <2>22 DEF GatewayInv, Shape
<1>9. QED
  BY <1>7, <1>8

-----------------------------------------------------------------------------
(* The process starts again, and what follows from all the steps *)

LEMMA CrashStep ==
  ASSUME GatewayInv, Crash
  PROVE  GatewayInv'
<1>1. messages' = messages /\ version' = version /\ approvals' = approvals /\ Failing /\ command' = [h \in Commands |-> Idle]
  BY DEF Crash
<1>2. /\ Len(messages) \in Nat /\ Len(approvals) \in Nat /\ approvals' \in Seq(Approvals) /\ KeysKept /\ messages \in Seq(Messages)
  BY <1>1, Sizes, SameKeys
<1>3. ApprovalsFit' /\ MessagesFit' /\ version' \in [Chats -> Nat] /\ messages' \in Seq(Messages)
  BY <1>1, <1>2, ApprovalsStay, SameMessages
<1>4. command' \in [Commands -> Orders] /\ OrdersFit'
  BY <1>1, <1>2, IdleOrder DEF OrdersFit
<1>5. ASSUME NEW r \in DOMAIN runs
      PROVE  /\ runs'[r] \in Runs /\ RunFits(runs'[r], Len(messages), Len(approvals)) /\ Told(runs'[r])
             /\ Reaches(runs'[r], approvals)
  <2>1. PICK run : run = runs[r]
    OBVIOUS
  <2>2. run \in Runs /\ RunFits(run, Len(messages), Len(approvals)) /\ Told(run) /\ Reaches(run, approvals)
    BY <2>1, Sizes DEF GatewayInv, RunsFit
  <2>3. PICK watcher \in {"over", "lost"} : watcher = IF run.watcher = "over" THEN run.watcher ELSE "lost"
    OBVIOUS
  <2>4. PICK new : new = [run EXCEPT !.watcher = watcher, !.task = "gone"]
    OBVIOUS
  <2>5. runs'[r] = new
    BY <2>1, <2>3, <2>4 DEF Crash
  <2>6. /\ new \in Runs /\ new.message = run.message /\ new.scope = run.scope /\ new.cause = run.cause
        /\ new.status = run.status /\ new.watcher = watcher /\ new.told = run.told
    BY <2>2, <2>3, <2>4 DEF Runs
  <2>7. Told(new)
    BY <2>2, <2>6 DEF Told
  <2>8. RunFits(new, Len(messages), Len(approvals)) /\ Reaches(new, approvals)
    BY <2>2, <2>6 DEF RunFits, Reaches
  <2>9. QED
    BY <2>5, <2>6, <2>7, <2>8
<1>6. DOMAIN runs' = DOMAIN runs
  BY DEF Crash
<1>7. runs' \in Seq(Runs)
  <2>1. PICK n : n = Len(runs)
    OBVIOUS
  <2>2. DOMAIN runs' = 1..n /\ n \in Nat /\ \A r \in 1..n : runs'[r] \in Runs
    BY <1>5, <1>6, <2>1, Sizes
  <2>3. runs' = [r \in 1..n |-> runs'[r]]
    <3>1. runs' = [r \in DOMAIN runs |-> [runs[r] EXCEPT !.watcher = IF @ = "over" THEN @ ELSE "lost", !.task = "gone"]]
      BY DEF Crash
    <3>2. QED
      BY <2>2, <3>1
  <2>4. runs' \in [1..n -> Runs]
    BY <2>2, <2>3
  <2>5. QED
    BY <2>2, <2>4, SeqDef
<1>8. RunsFit'
  BY <1>1, <1>5, <1>6 DEF RunsFit
<1>9. count' \in Counts /\ count'.inputs <= MaxInputs /\ count'.failures <= MaxFailures
  BY <1>1, Sizes DEF Failing, GatewayInv, Shape, Counts
<1>10. QED
  BY <1>2, <1>3, <1>4, <1>7, <1>8, <1>9 DEF GatewayInv, Shape

LEMMA Starts == Init => GatewayInv /\ OneOpenApproval
<1> SUFFICES ASSUME Init PROVE GatewayInv /\ OneOpenApproval
  OBVIOUS
<1>1. messages = <<>> /\ runs = <<>> /\ approvals = <<>> /\ version = [c \in Chats |-> 0] /\ command = [h \in Commands |-> Idle]
  BY DEF Init
<1>2. /\ messages \in Seq(Messages) /\ runs \in Seq(Runs) /\ approvals \in Seq(Approvals)
      /\ Len(messages) = 0 /\ Len(approvals) = 0 /\ DOMAIN messages = {} /\ DOMAIN approvals = {} /\ DOMAIN runs = {}
  BY <1>1, EmptySeq
<1>3. version \in [Chats -> Nat]
  BY <1>1
<1>4. count \in Counts /\ count.inputs <= MaxInputs /\ count.failures <= MaxFailures
  BY GatewayAssumption DEF Init, Counts
<1>5. command \in [Commands -> Orders] /\ OrdersFit
  BY <1>1, <1>2, IdleOrder DEF OrdersFit
<1>6. MessagesFit /\ ApprovalsFit /\ RunsFit /\ OneOpenApproval
  BY <1>2, GatewayAssumption DEF MessagesFit, ApprovalsFit, RunsFit, OneOpenApproval
<1>7. QED
  BY <1>2, <1>3, <1>4, <1>5, <1>6 DEF GatewayInv, Shape

LEMMA ApprovalsKeep == approvals' = approvals /\ OneOpenApproval => OneOpenApproval'
BY DEF OneOpenApproval

LEMMA StepHolds ==
  ASSUME GatewayInv, Next
  PROVE  GatewayInv' /\ (OneOpenApproval => OneOpenApproval')
<1>1. ASSUME NEW c \in Chats, NEW addressed \in BOOLEAN, Message(c, addressed)
      PROVE  GatewayInv' /\ (OneOpenApproval => OneOpenApproval')
  <2>1. approvals' = approvals
    BY <1>1 DEF Message
  <2>2. QED
    BY <1>1, <2>1, MessageStep, ApprovalsKeep
<1>2. ASSUME NEW r \in DOMAIN runs, Task(r) \/ Watch(r)
      PROVE  GatewayInv' /\ (OneOpenApproval => OneOpenApproval')
  <2>1. CASE \E named \in BOOLEAN : Ask(r, named)
    BY <2>1, AskStep
  <2>2. CASE OrphanEnds(r) \/ Watch(r)
    <3>1. approvals' = approvals
      BY <2>2 DEF OrphanEnds, Watch, Begin, Return, AwaitApproval, Timeout, Break, Sent, SendRaises, Conclude
    <3>2. QED
      BY <2>2, <3>1, WatchStep, ApprovalsKeep
  <2>3. QED
    BY <1>2, <2>1, <2>2 DEF Task
<1>3. ASSUME NEW h \in Commands, NEW c \in Chats, NEW verdict \in {"approved", "rejected"}, Verdict(h, c, verdict)
      PROVE  GatewayInv' /\ (OneOpenApproval => OneOpenApproval')
  <2>1. CASE \E kind \in {"plain", "all"} : Command(h, c, kind, Targets(c, kind), verdict)
    <3>1. PICK kind \in {"plain", "all"} : Command(h, c, kind, Targets(c, kind), verdict)
      BY <2>1
    <3>2. Targets(c, kind) \subseteq 1..Len(approvals)
      BY TargetsIn
    <3>3. QED
      BY <3>1, <3>2, CommandStep
  <2>2. CASE \E a \in DOMAIN approvals : Command(h, c, "one", {a}, verdict)
    <3>1. PICK a \in DOMAIN approvals : Command(h, c, "one", {a}, verdict)
      BY <2>2
    <3>2. {a} \subseteq 1..Len(approvals)
      BY Sizes
    <3>3. QED
      BY <3>1, <3>2, CommandStep
  <2>3. QED
    BY <1>3, <2>1, <2>2 DEF Verdict
<1>4. ASSUME NEW h \in Commands, ResolveNext(h) \/ Dismiss(h) \/ Resume(h)
      PROVE  GatewayInv' /\ (OneOpenApproval => OneOpenApproval')
  <2>1. Dismiss(h) \/ Resume(h) => approvals' = approvals
    BY DEF Dismiss, Resume
  <2>2. QED
    BY <1>4, <2>1, ResolveStep, DismissStep, ResumeStep, ApprovalsKeep
<1>5. ASSUME Crash
      PROVE  GatewayInv' /\ (OneOpenApproval => OneOpenApproval')
  <2>1. approvals' = approvals
    BY <1>5 DEF Crash
  <2>2. QED
    BY <1>5, <2>1, CrashStep, ApprovalsKeep
<1>6. QED
  BY <1>1, <1>2, <1>3, <1>4, <1>5 DEF Next

LEMMA NothingChanges ==
  ASSUME GatewayInv, UNCHANGED vars
  PROVE  GatewayInv' /\ (OneOpenApproval => OneOpenApproval')
BY DEF vars, GatewayInv, Shape, MessagesFit, ApprovalsFit, RunsFit, OrdersFit, OneOpenApproval

LEMMA Inductive == Spec => [](GatewayInv /\ OneOpenApproval)
<1>1. GatewayInv /\ OneOpenApproval /\ [Next]_vars => (GatewayInv /\ OneOpenApproval)'
  BY StepHolds, NothingChanges
<1>2. QED
  BY Starts, <1>1, PTL DEF Spec

-----------------------------------------------------------------------------
(* The properties *)

\* A sequence of what is in a set is one over it.
LEMMA Within ==
  ASSUME NEW S, NEW T, NEW s \in Seq(S), \A i \in DOMAIN s : s[i] \in T
  PROVE  s \in Seq(T)
<1>1. Len(s) \in Nat /\ DOMAIN s = 1..Len(s) /\ s \in [1..Len(s) -> S]
  BY LenProperties
<1>2. s \in [1..Len(s) -> T]
  BY <1>1
<1>3. QED
  BY <1>1, <1>2, SeqDef

LEMMA Typed == GatewayInv => TypeOK
<1> SUFFICES ASSUME GatewayInv PROVE TypeOK
  OBVIOUS
<1>1. messages \in Seq([chat : Chats, kind : {"user", "resume"}, version : Nat]) /\ version \in [Chats -> Nat]
  BY Sizes DEF Messages
<1>2. PICK N : N = DOMAIN messages
  OBVIOUS
<1>3. PICK K : K = DOMAIN approvals
  OBVIOUS
<1>4. N = 1..Len(messages) /\ K = 1..Len(approvals) /\ Len(messages) \in Nat
  BY <1>2, <1>3, Sizes
<1>5. runs \in Seq([chat : Chats, message : N, scope : N, cause : Causes,
                    status : {"queued", "running", "awaiting_approval", "done", "failed"},
                    watcher : {"scheduled", "waiting", "sending", "closing", "over", "lost"},
                    task : {"none", "working", "gone"}, told : Seq(Outcomes)])
  <2>1. ASSUME NEW r \in DOMAIN runs
        PROVE  runs[r] \in [chat : Chats, message : N, scope : N, cause : Causes,
                    status : {"queued", "running", "awaiting_approval", "done", "failed"},
                    watcher : {"scheduled", "waiting", "sending", "closing", "over", "lost"},
                    task : {"none", "working", "gone"}, told : Seq(Outcomes)]
    <3>1. runs[r] \in Runs /\ runs[r].message \in N /\ runs[r].scope \in N
      BY <1>4, Sizes DEF GatewayInv, RunsFit, RunFits
    <3>2. QED
      BY <3>1 DEF Runs
  <2>2. QED
    BY <2>1, Sizes, Within
<1>6. approvals \in Seq([key : [of : {"session", "message"}, number : Nat], scope : N,
                         status : {"pending", "approved", "rejected"}])
  <2>1. ASSUME NEW a \in DOMAIN approvals
        PROVE  approvals[a] \in [key : [of : {"session", "message"}, number : Nat], scope : N,
                                 status : {"pending", "approved", "rejected"}]
    <3>1. approvals[a] \in Approvals /\ approvals[a].scope \in N
      BY <1>4, Sizes DEF GatewayInv, ApprovalsFit, ApprovalFits
    <3>2. QED
      BY <3>1 DEF Approvals
  <2>2. QED
    BY <2>1, Sizes, Within
<1>7. command \in [Commands -> [chat : Chats \cup {"none"}, kind : {"none", "plain", "all", "one"},
                                verdict : {"none", "approved", "rejected"}, left : SUBSET K,
                                granted : SUBSET K, open : BOOLEAN, seen : 0..Len(messages)]]
  <2>1. ASSUME NEW h \in Commands
        PROVE  command[h] \in [chat : Chats \cup {"none"}, kind : {"none", "plain", "all", "one"},
                               verdict : {"none", "approved", "rejected"}, left : SUBSET K,
                               granted : SUBSET K, open : BOOLEAN, seen : 0..Len(messages)]
    <3>1. PICK q : q = command[h]
      OBVIOUS
    <3>2. q \in Orders /\ q.left \subseteq K /\ q.granted \subseteq K /\ q.seen <= Len(messages)
      BY <1>4, <3>1, Sizes DEF GatewayInv, OrdersFit, OrderFits
    <3>3. q.seen \in 0..Len(messages)
      BY <1>4, <3>2 DEF Orders
    <3>4. QED
      BY <3>1, <3>2, <3>3 DEF Orders
  <2>2. QED
    BY <2>1, Sizes
<1>8. count.inputs \in 0..MaxInputs /\ count.failures \in 0..MaxFailures
  BY Sizes DEF GatewayInv, Shape, Counts
<1>9. QED
  BY <1>1, <1>2, <1>3, <1>5, <1>6, <1>7, <1>8 DEF TypeOK

LEMMA ToldInTurn == GatewayInv => OutcomesTold
<1> SUFFICES ASSUME GatewayInv, NEW r \in DOMAIN runs
             PROVE  LET told == runs[r].told IN
                    /\ told = <<>> <=> runs[r].status \in {"queued", "running"}
                    /\ told # <<>> => runs[r].status = StatusAfter(Last(told))
                    /\ Len(told) > 1 => Len(told) = 2 /\ told[1] \in {"result", "waiting"} /\ told[2] = "error"
  BY Typed DEF OutcomesTold
<1>1. PICK told : told = runs[r].told
  OBVIOUS
<1>2. Told(runs[r])
  BY DEF GatewayInv, RunsFit
<1>3. CASE told = <<>> /\ runs[r].status \in {"queued", "running"}
  BY <1>1, <1>3, EmptySeq
<1>4. CASE \E k \in Outcomes : told = <<k>> /\ runs[r].status = StatusAfter(k)
  <2>1. PICK k \in Outcomes : told = <<k>> /\ runs[r].status = StatusAfter(k)
    BY <1>4
  <2>2. told # <<>> /\ Len(told) = 1 /\ told[1] = k
    BY <2>1
  <2>3. Last(told) = k
    BY <2>2 DEF Last
  <2>4. StatusAfter(k) \notin {"queued", "running"}
    BY DEF StatusAfter
  <2>5. QED
    BY <1>1, <2>1, <2>2, <2>3, <2>4
<1>5. CASE \E k \in First : told = <<k, "error">> /\ runs[r].status = "failed"
  <2>1. PICK k \in First : told = <<k, "error">> /\ runs[r].status = "failed"
    BY <1>5
  <2>2. told # <<>> /\ Len(told) = 2 /\ told[1] = k /\ told[2] = "error"
    BY <2>1
  <2>3. Last(told) = "error"
    BY <2>2 DEF Last
  <2>4. StatusAfter("error") = "failed"
    BY DEF StatusAfter
  <2>5. QED
    BY <1>1, <2>1, <2>2, <2>3, <2>4 DEF First
<1>6. QED
  BY <1>1, <1>2, <1>3, <1>4, <1>5 DEF Told

LEMMA Reached == GatewayInv => GrantReachesItsRun
BY DEF GatewayInv, RunsFit, Reaches, Of, GrantReachesItsRun

(* One approval of an action is pending at a time (local_runtime.py:1043-1068): the hook
   looks and inserts without a suspension between, and a verdict never makes an approval
   pending again, so neither resumed tasks nor tasks behind their deadline ask twice. *)
THEOREM AskedOnce == Spec => []OneOpenApproval
BY Inductive, PTL

(* The row of a run ends as its chat was told (context_service.py:434-585): one outcome,
   or an error after a result or a request for approval that could not be sent, whatever
   runs, restarts and tasks behind their deadline are about. *)
THEOREM OutcomesToldInTurn == Spec => []OutcomesTold
BY Inductive, ToldInTurn, PTL

(* The verdict that resumes a run has granted an approval of that run's message
   (manager.py:1018-1047, 1115-1153), for any number of chats, commands and approvals,
   when something was open, nobody wrote meanwhile and the chat fits in a page. *)
THEOREM GrantsReach == Spec => []GrantReachesItsRun
BY Inductive, Reached, PTL
=============================================================================
