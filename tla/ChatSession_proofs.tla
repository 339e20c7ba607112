-------------------------- MODULE ChatSession_proofs --------------------------
(* The messages, runs and streams of a session, for any chats and bounds. *)
EXTENDS ChatSession, SequenceTheorems, TLAPS

\* A message is on its way once.
Carries(s, c) == \E i \in DOMAIN s : s[i].kind = "message" /\ s[i].chat = c
Single(s) ==
  \A i, j \in DOMAIN s :
    s[i].kind = "message" /\ s[j].kind = "message" /\ s[i].chat = s[j].chat => i = j
Keeps(c) == \E i \in DOMAIN pending : pending[i] = c
Waits(c) == Carries(down, c) \/ Keeps(c) \/ Carries(ready, c)

MessagesOnce ==
  /\ Single(down) /\ Single(ready)
  /\ \A i, j \in DOMAIN pending : pending[i] = pending[j] => i = j
  /\ \A c \in Chats : /\ ~ (Carries(down, c) /\ Keeps(c))
                      /\ ~ (Carries(down, c) /\ Carries(ready, c))
                      /\ ~ (Keeps(c) /\ Carries(ready, c))

\* A message that waits was sent, and one that waits or was not sent has no run; the
\* handler of a message is created with an adapter.
MessagesFresh ==
  /\ \A c \in Chats : Waits(c) => chat[c] = "sent"
  /\ \A c \in Chats : Waits(c) \/ chat[c] # "sent" => run[c].st = "none" /\ ~ run[c].hit
  /\ (\E c \in Chats : Carries(ready, c)) => tasks # <<>>
MessagesLast == down # <<>> => down[Len(down)].kind = "message"
Messages == MessagesOnce /\ MessagesFresh /\ MessagesLast

\* An adapter holds runs that have begun to exist, and no two adapters the same.
TasksOnce ==
  \A a \in DOMAIN tasks : tasks[a] # NoChat =>
    run[tasks[a]].st # "none" /\ \A b \in DOMAIN tasks : tasks[a] = tasks[b] => a = b
Active ==
  \A c \in Chats : run[c].st \in {"created", "working", "saving"} =>
    run[c].hit \/ \E a \in DOMAIN tasks : tasks[a] = c
\* A run that was cancelled before its first step has been replaced.
HitReplaced ==
  \A c \in Chats : run[c].hit /\ run[c].st = "created" => \A a \in DOMAIN tasks : tasks[a] # c
Told == \A c \in Chats : run[c].st \in {"saving", "cancelled", "failed"} => said[c] # <<>>
\* Behind it in the queue of the event loop is the first step of another run.
Followed(s, r) ==
  \A i \in DOMAIN s : s[i].kind = "run" /\ r[s[i].chat].hit =>
    \E j \in DOMAIN s : j > i /\ s[j].kind = "run"
HitFollowed == Followed(ready, run)
Tasks == TasksOnce /\ Active /\ HitReplaced /\ Told /\ OnlySupersededAreSilent
Runs == Tasks /\ HitFollowed

\* What will end the streams of the session.
HoldsWork(s) == \E i \in DOMAIN s : s[i].kind \in {"message", "run"}
UnderWay ==
  \/ down # <<>> \/ pending # <<>> \/ up # <<>> \/ storing # {}
  \/ HoldsWork(ready)
  \/ \E d \in Chats : run[d].st = "working"
Streams == (\E c \in Streaming : chat[c] = "sent") => UnderWay

ChatInv == TypeOK /\ Messages /\ Runs /\ Streams

Downs == [kind : {"start", "message"}, chat : Chats]
Readies == [kind : {"start", "message", "run"}, chat : Chats]

-----------------------------------------------------------------------------
(* Sequences *)

\* What is behind the first element of a sequence.
LEMMA Behind ==
  ASSUME NEW S, NEW s \in Seq(S), s # <<>>
  PROVE  /\ Head(s) \in S /\ Tail(s) \in Seq(S)
         /\ 1 \in DOMAIN s /\ Head(s) = s[1]
         /\ Len(s) \in Nat \ {0} /\ Len(Tail(s)) = Len(s) - 1
         /\ DOMAIN s = 1..Len(s) /\ DOMAIN Tail(s) = 1..Len(s) - 1
         /\ \A i \in DOMAIN Tail(s) : i + 1 \in DOMAIN s /\ Tail(s)[i] = s[i + 1]
         /\ \A i \in DOMAIN s : i # 1 => i - 1 \in DOMAIN Tail(s) /\ Tail(s)[i - 1] = s[i]
<1>1. /\ Head(s) \in S /\ Tail(s) \in Seq(S) /\ Len(Tail(s)) = Len(s) - 1
      /\ \A i \in 1..Len(Tail(s)) : Tail(s)[i] = s[i + 1]
  BY HeadTailProperties
<1>2. Len(s) \in Nat \ {0}
  BY EmptySeq
<1>3. DOMAIN s = 1..Len(s) /\ DOMAIN Tail(s) = 1..Len(Tail(s))
  BY <1>1, LenProperties
<1>4. Head(s) = s[1]
  OBVIOUS
<1>5. ASSUME NEW i \in DOMAIN s, i # 1
      PROVE  i - 1 \in DOMAIN Tail(s) /\ Tail(s)[i - 1] = s[i]
  <2>1. i - 1 \in 1..Len(Tail(s)) /\ (i - 1) + 1 = i
    BY <1>1, <1>2, <1>3, <1>5
  <2>2. QED
    BY <1>1, <1>3, <2>1
<1>6. ASSUME NEW i \in DOMAIN Tail(s)
      PROVE  i + 1 \in DOMAIN s /\ Tail(s)[i] = s[i + 1]
  BY <1>1, <1>2, <1>3
<1>7. QED
  BY <1>1, <1>2, <1>3, <1>4, <1>5, <1>6

LEMMA BehindCarries ==
  ASSUME NEW S, NEW s \in Seq(S), s # <<>>, Single(s)
  PROVE  /\ Single(Tail(s))
         /\ \A c : Carries(Tail(s), c) => Carries(s, c)
         /\ \A c : Carries(s, c) => Carries(Tail(s), c) \/ (Head(s).kind = "message" /\ Head(s).chat = c)
         /\ Head(s).kind = "message" => Carries(s, Head(s).chat) /\ ~ Carries(Tail(s), Head(s).chat)
<1>1. /\ 1 \in DOMAIN s /\ Head(s) = s[1] /\ Len(s) \in Nat
      /\ DOMAIN s = 1..Len(s) /\ DOMAIN Tail(s) = 1..Len(s) - 1
      /\ \A i \in DOMAIN Tail(s) : i + 1 \in DOMAIN s /\ Tail(s)[i] = s[i + 1]
      /\ \A i \in DOMAIN s : i # 1 => i - 1 \in DOMAIN Tail(s) /\ Tail(s)[i - 1] = s[i]
  BY Behind
<1>2. Single(Tail(s))
  <2>1. ASSUME NEW i \in DOMAIN Tail(s), NEW j \in DOMAIN Tail(s), Tail(s)[i].kind = "message",
               Tail(s)[j].kind = "message", Tail(s)[i].chat = Tail(s)[j].chat
        PROVE  i = j
    <3>1. i + 1 = j + 1
      BY <1>1, <2>1 DEF Single
    <3>2. QED
      BY <1>1, <3>1
  <2>2. QED
    BY <2>1 DEF Single
<1>3. \A c : Carries(Tail(s), c) => Carries(s, c)
  BY <1>1 DEF Carries
<1>4. \A c : Carries(s, c) => Carries(Tail(s), c) \/ (Head(s).kind = "message" /\ Head(s).chat = c)
  BY <1>1 DEF Carries
<1>5. Head(s).kind = "message" => Carries(s, Head(s).chat)
  BY <1>1 DEF Carries
<1>6. ASSUME Head(s).kind = "message", Carries(Tail(s), Head(s).chat)
      PROVE  FALSE
  <2>1. PICK i \in DOMAIN Tail(s) : Tail(s)[i].kind = "message" /\ Tail(s)[i].chat = Head(s).chat
    BY <1>6 DEF Carries
  <2>2. i + 1 = 1
    BY <1>1, <1>6, <2>1 DEF Single
  <2>3. QED
    BY <1>1, <2>2
<1>7. QED
  BY <1>2, <1>3, <1>4, <1>5, <1>6

\* What is added to the end of a sequence.
LEMMA Added ==
  ASSUME NEW S, NEW s \in Seq(S), NEW e \in S
  PROVE  /\ Append(s, e) \in Seq(S) /\ Append(s, e) # <<>>
         /\ Len(s) \in Nat /\ Len(Append(s, e)) = Len(s) + 1
         /\ DOMAIN s = 1..Len(s) /\ DOMAIN Append(s, e) = 1..Len(s) + 1
         /\ \A i \in DOMAIN s : Append(s, e)[i] = s[i]
         /\ Append(s, e)[Len(s) + 1] = e
<1>1. /\ Append(s, e) \in Seq(S) /\ Len(Append(s, e)) = Len(s) + 1
      /\ \A i \in 1..Len(s) : Append(s, e)[i] = s[i]
      /\ Append(s, e)[Len(s) + 1] = e
  BY AppendProperties
<1>2. Len(s) \in Nat /\ DOMAIN s = 1..Len(s) /\ DOMAIN Append(s, e) = 1..Len(Append(s, e))
  BY <1>1, LenProperties
<1>3. Append(s, e) # <<>>
  BY <1>1, <1>2, EmptySeq
<1>4. QED
  BY <1>1, <1>2, <1>3

LEMMA AddedCarries ==
  ASSUME NEW S, NEW s \in Seq(S), NEW e \in S
  PROVE  /\ \A c : Carries(Append(s, e), c) => Carries(s, c) \/ (e.kind = "message" /\ e.chat = c)
         /\ \A c : Carries(s, c) => Carries(Append(s, e), c)
         /\ Single(s) /\ ~ (e.kind = "message" /\ Carries(s, e.chat)) => Single(Append(s, e))
<1> DEFINE t == Append(s, e)
           n == Len(s)
<1>1. /\ n \in Nat /\ DOMAIN s = 1..n /\ DOMAIN t = 1..n + 1
      /\ \A i \in DOMAIN s : t[i] = s[i]
      /\ t[n + 1] = e
  BY Added
<1> HIDE DEF t, n
<1>2. \A c : Carries(t, c) => Carries(s, c) \/ (e.kind = "message" /\ e.chat = c)
  BY <1>1 DEF Carries
<1>3. \A c : Carries(s, c) => Carries(t, c)
  BY <1>1 DEF Carries
<1>4. ASSUME Single(s), ~ (e.kind = "message" /\ Carries(s, e.chat))
      PROVE  Single(t)
  BY <1>1, <1>4 DEF Single, Carries
<1>5. QED
  BY <1>2, <1>3, <1>4 DEF t

\* What two sequences hold after each other.
LEMMA Joined ==
  ASSUME NEW S, NEW s \in Seq(S), NEW u \in Seq(S)
  PROVE  /\ s \o u \in Seq(S)
         /\ \A c : Carries(s \o u, c) <=> Carries(s, c) \/ Carries(u, c)
         /\ Single(s) /\ Single(u) /\ (\A c : ~ (Carries(s, c) /\ Carries(u, c))) => Single(s \o u)
         /\ Len(s) \in Nat /\ Len(u) \in Nat /\ Len(s \o u) = Len(s) + Len(u)
         /\ \A i \in 1..Len(s) : (s \o u)[i] = s[i]
         /\ \A i \in 1..Len(u) : (s \o u)[Len(s) + i] = u[i]
<1> DEFINE t == s \o u
           m == Len(s)
           n == Len(u)
<1>1. /\ m \in Nat /\ n \in Nat /\ DOMAIN s = 1..m /\ DOMAIN u = 1..n
  BY LenProperties
<1>2. /\ t \in Seq(S) /\ Len(t) = m + n
      /\ \A i \in 1..m + n : t[i] = IF i <= m THEN s[i] ELSE u[i - m]
  BY ConcatProperties
<1>3. DOMAIN t = 1..m + n
  BY <1>2, LenProperties
<1> HIDE DEF t, m, n
<1>4. /\ \A i \in DOMAIN s : i \in DOMAIN t /\ t[i] = s[i]
      /\ \A i \in DOMAIN u : m + i \in DOMAIN t /\ t[m + i] = u[i]
  <2>1. ASSUME NEW i \in DOMAIN u
        PROVE  m + i \in DOMAIN t /\ t[m + i] = u[i]
    <3>1. m + i \in 1..m + n /\ ~ (m + i <= m) /\ (m + i) - m = i
      BY <1>1
    <3>2. QED
      BY <1>2, <1>3, <3>1
  <2>2. QED
    BY <1>1, <1>2, <1>3, <2>1
<1>5. \A i \in DOMAIN t : \/ i \in DOMAIN s /\ t[i] = s[i]
                          \/ i - m \in DOMAIN u /\ t[i] = u[i - m] /\ i > m
  BY <1>1, <1>2, <1>3
<1>6. \A c : Carries(t, c) <=> Carries(s, c) \/ Carries(u, c)
  BY <1>4, <1>5 DEF Carries
<1>7. ASSUME Single(s), Single(u), \A c : ~ (Carries(s, c) /\ Carries(u, c))
      PROVE  Single(t)
  <2>1. ASSUME NEW i \in DOMAIN t, NEW j \in DOMAIN t, t[i].kind = "message", t[j].kind = "message",
               t[i].chat = t[j].chat
        PROVE  i = j
    <3>1. CASE i \in DOMAIN s /\ t[i] = s[i] /\ j \in DOMAIN s /\ t[j] = s[j]
      BY <1>7, <2>1, <3>1 DEF Single
    <3>2. CASE i - m \in DOMAIN u /\ t[i] = u[i - m] /\ j - m \in DOMAIN u /\ t[j] = u[j - m]
      <4>1. i - m = j - m
        BY <1>7, <2>1, <3>2 DEF Single
      <4>2. QED
        BY <1>1, <1>3, <4>1
    <3>3. CASE i \in DOMAIN s /\ t[i] = s[i] /\ j - m \in DOMAIN u /\ t[j] = u[j - m]
      BY <1>7, <2>1, <3>3 DEF Carries
    <3>4. CASE i - m \in DOMAIN u /\ t[i] = u[i - m] /\ j \in DOMAIN s /\ t[j] = s[j]
      BY <1>7, <2>1, <3>4 DEF Carries
    <3>5. QED
      BY <1>5, <3>1, <3>2, <3>3, <3>4
  <2>2. QED
    BY <2>1 DEF Single
<1>8. QED
  BY <1>1, <1>2, <1>4, <1>6, <1>7 DEF t, m, n

-----------------------------------------------------------------------------
(* Types *)

\* One leave or one fault more.
LEMMA Counted ==
  ASSUME NEW e \in [leaves : 0..MaxLeaves, faults : 0..MaxFaults], NEW e2,
         \/ e.leaves < MaxLeaves /\ e2 = [e EXCEPT !.leaves = @ + 1]
         \/ e.faults < MaxFaults /\ e2 = [e EXCEPT !.faults = @ + 1]
  PROVE  e2 \in [leaves : 0..MaxLeaves, faults : 0..MaxFaults]
<1> DEFINE l == e.leaves + 1
           f == e.faults + 1
<1>1. MaxLeaves \in Nat /\ MaxFaults \in Nat
  BY ChatAssumption
<1>2. CASE e.leaves < MaxLeaves /\ e2 = [e EXCEPT !.leaves = l]
  <2>1. l \in 0..MaxLeaves
    BY <1>1, <1>2
  <2> HIDE DEF l
  <2>2. QED
    BY <1>2, <2>1
<1>3. CASE e.faults < MaxFaults /\ e2 = [e EXCEPT !.faults = f]
  <2>1. f \in 0..MaxFaults
    BY <1>1, <1>3
  <2> HIDE DEF f
  <2>2. QED
    BY <1>3, <2>1
<1>4. QED
  BY <1>2, <1>3

\* The messages kept for a session, as tasks of its new handlers.
LEMMA Flushed ==
  ASSUME TypeOK
  PROVE  /\ Flush \in Seq(Readies)
         /\ Len(Flush) = Len(pending) /\ Len(pending) \in Nat
         /\ \A i \in 1..Len(Flush) : Flush[i].kind = "message"
         /\ \A c : Carries(Flush, c) <=> Keeps(c)
         /\ MessagesOnce => Single(Flush)
         /\ pending # <<>> => Len(Flush) > 0
<1>1. pending \in Seq(Chats) /\ Len(pending) \in Nat /\ DOMAIN pending = 1..Len(pending)
  BY LenProperties DEF TypeOK
<1>2. \A i \in DOMAIN pending : pending[i] \in Chats
  BY <1>1, ElementOfSeq
<1>3. DOMAIN Flush = 1..Len(pending)
  BY <1>1 DEF Flush
<1>4. \A i \in 1..Len(pending) : Flush[i] = [kind |-> "message", chat |-> pending[i]]
  BY <1>1 DEF Flush, Task
<1>5. ASSUME NEW i \in 1..Len(pending)
      PROVE  Flush[i] \in Readies
  <2>1. pending[i] \in Chats /\ Flush[i] = [kind |-> "message", chat |-> pending[i]]
    BY <1>1, <1>2, <1>4
  <2> HIDE DEF Flush
  <2>2. QED
    BY <2>1 DEF Readies
<1>6. Flush \in [1..Len(pending) -> Readies]
  BY <1>1, <1>5 DEF Flush
<1>7. Flush \in Seq(Readies)
  BY <1>1, <1>6, SeqDef
<1>8. Len(Flush) = Len(pending)
  BY <1>1, <1>3, <1>7, LenProperties
<1>9. \A c : Carries(Flush, c) <=> Keeps(c)
  BY <1>1, <1>3, <1>4 DEF Carries, Keeps
<1>10. MessagesOnce => Single(Flush)
  BY <1>1, <1>3, <1>4 DEF MessagesOnce, Single
<1>11. pending # <<>> => Len(Flush) > 0
  <2>1. pending # <<>> => Len(pending) \in Nat \ {0}
    BY <1>1, EmptySeq
  <2>2. QED
    BY <1>8, <2>1
<1>12. \A i \in 1..Len(Flush) : Flush[i].kind = "message"
  <2>1. ASSUME NEW i \in 1..Len(pending) PROVE Flush[i].kind = "message"
    BY <1>1 DEF Flush, Task
  <2>2. QED
    BY <1>8, <2>1
<1>13. Len(pending) \in Nat
  BY <1>1
<1>14. QED
  BY <1>7, <1>8, <1>9, <1>10, <1>11, <1>12, <1>13, Zenon

LEMMA RegisterType ==
  ASSUME TypeOK, NEW rest \in Seq(Readies), Register(rest)
  PROVE  ready' \in Seq(Readies) /\ tasks' \in Seq(Chats \cup {NoChat}) /\ pending' \in Seq(Chats) /\ Len(pending') <= MaxPending
<1>1. ready' \in Seq(Readies)
  BY Flushed, Joined DEF Register
<1>2. tasks' \in Seq(Chats \cup {NoChat})
  BY Added DEF Register, TypeOK
<1>3. pending' = <<>> /\ Len(<<>>) = 0 /\ <<>> \in Seq(Chats) /\ MaxPending \in Nat
  BY ChatAssumption, EmptySeq DEF Register
<1>4. QED
  BY <1>1, <1>2, <1>3

LEMMA ReceiveType == ASSUME TypeOK, Receive PROVE TypeOK'
<1> DEFINE m == Head(down)
<1>1. m \in Downs /\ down' \in Seq(Downs)
  BY Behind DEF TypeOK, Receive, Downs
<1>2. CASE pending' = KeepNewest(Append(pending, m.chat)) /\ UNCHANGED ready
  <2> DEFINE p == Append(pending, m.chat)
  <2>4. m.chat \in Chats /\ pending \in Seq(Chats)
    BY <1>1 DEF TypeOK, Downs
  <2>1. p \in Seq(Chats) /\ Len(p) = Len(pending) + 1 /\ Len(pending) \in Nat /\ p # <<>>
    BY <2>4, Added
  <2>2. Tail(p) \in Seq(Chats) /\ Len(Tail(p)) = Len(p) - 1
    BY <2>1, Behind
  <2>3. pending' \in Seq(Chats) /\ Len(pending') <= MaxPending
    BY <1>2, <2>1, <2>2, ChatAssumption DEF TypeOK, KeepNewest
  <2>5. QED
    BY <1>1, <1>2, <2>3 DEF TypeOK, Receive, plane, Downs
<1>3. CASE ready' = Append(ready, m) /\ UNCHANGED pending
  <2>1. m \in Readies
    BY <1>1 DEF Downs, Readies
  <2>2. ready' \in Seq(Readies)
    BY <1>3, <2>1, Added DEF TypeOK, Readies
  <2>3. QED
    BY <1>1, <1>3, <2>2 DEF TypeOK, Receive, plane, Downs, Readies
<1>4. QED
  BY <1>2, <1>3 DEF Receive

LEMMA ControlType ==
  ASSUME TypeOK, ControlPlane
  PROVE  TypeOK'
<1>1. ASSUME NEW c \in Chats, Open(c) PROVE TypeOK'
  BY <1>1 DEF Open, TypeOK, runtime
<1>2. ASSUME NEW c \in Chats, Leave(c) PROVE TypeOK'
  <2>1. CancelIfActive(c, Deactivated(c)) = <<>>
    BY <1>2 DEF CancelIfActive, Deactivated, TypeOK
  <2>2. down' = down
    BY <1>2, <2>1, ConcatEmptySeq DEF Leave, TypeOK
  <2>3. events' \in [leaves : 0..MaxLeaves, faults : 0..MaxFaults]
    BY <1>2, Counted DEF Leave, TypeOK
  <2>4. stream' \in [Chats -> {"none", "open", "left", "ended"}]
    BY <1>2 DEF Leave, Deactivated, TypeOK
  <2>5. QED
    BY <1>2, <2>2, <2>3, <2>4 DEF Leave, TypeOK, runtime
<1>3. ASSUME NEW c \in Chats, Dispatch(c) PROVE TypeOK'
  <2> DEFINE two == <<[kind |-> "start", chat |-> c], [kind |-> "message", chat |-> c]>>
  <2>1. two \in Seq(Downs)
    BY <1>3 DEF Downs
  <2>2. down' \in Seq(Downs)
    BY <1>3, <2>1, ConcatProperties DEF Dispatch, TypeOK, Downs
  <2>3. chat' \in [Chats -> {"new", "open", "refused", "sent"}]
    BY <1>3 DEF Dispatch, TypeOK
  <2>4. QED
    BY <1>3, <2>2, <2>3 DEF Dispatch, TypeOK, Downs, runtime
<1>4. ASSUME NEW c \in Chats, Stored(c) PROVE TypeOK'
  BY <1>4 DEF Stored, EndStreams, TypeOK, runtime
<1>5. ASSUME RecvComplete \/ RecvOther PROVE TypeOK'
  <2>5. up # <<>> /\ up \in Seq([chat : Chats, kind : Kinds]) /\ up' = Tail(up)
    BY <1>5 DEF RecvComplete, RecvOther, TypeOK
  <2>6. Head(up) \in [chat : Chats, kind : Kinds] /\ Tail(up) \in Seq([chat : Chats, kind : Kinds])
    BY <2>5, Behind
  <2>1. Head(up).chat \in Chats /\ up' \in Seq([chat : Chats, kind : Kinds])
    BY <2>5, <2>6
  <2>2. CASE RecvComplete
    BY <2>1, <2>2 DEF RecvComplete, TypeOK, plane, runtime
  <2>3. CASE RecvOther
    BY <2>1, <2>3 DEF RecvOther, EndStreams, TypeOK, runtime
  <2>4. QED
    BY <1>5, <2>2, <2>3
<1>6. QED
  BY <1>1, <1>2, <1>3, <1>4, <1>5 DEF ControlPlane

LEMMA NextReady ==
  ASSUME TypeOK, NEW kind, NextIs(kind)
  PROVE  /\ ready \in Seq(Readies) /\ ready # <<>> /\ Head(ready).kind = kind
         /\ Head(ready).chat \in Chats /\ Tail(ready) \in Seq(Readies)
<1>1. ready \in Seq(Readies) /\ ready # <<>> /\ Head(ready).kind = kind
  BY DEF NextIs, TypeOK, Readies
<1>2. Head(ready) \in Readies /\ Tail(ready) \in Seq(Readies)
  BY <1>1, Behind
<1>3. QED
  BY <1>1, <1>2 DEF Readies

LEMMA BeginType ==
  ASSUME TypeOK, Messages, BeginStart \/ BeginMessage \/ BeginRun \/ (\E c \in Chats : Enriched(c))
  PROVE  TypeOK'
<1>1. CASE BeginStart
  <2>1. Head(ready).chat \in Chats /\ Tail(ready) \in Seq(Readies)
    BY <1>1, NextReady DEF BeginStart
  <2>2. CASE Register(Tail(ready)) /\ UNCHANGED enriching
    BY <1>1, <2>1, <2>2, RegisterType DEF BeginStart, TypeOK, plane, Readies
  <2>3. CASE ready' = Tail(ready) /\ enriching' \subseteq Chats /\ UNCHANGED <<tasks, pending>>
    BY <1>1, <2>1, <2>3 DEF BeginStart, TypeOK, plane, Readies
  <2>4. QED
    BY <1>1, <2>1, <2>2, <2>3 DEF BeginStart, TypeOK
<1>2. CASE BeginMessage
  <2> DEFINE c == Head(ready).chat
             old == Last(tasks)
  <2>1. c \in Chats /\ Tail(ready) \in Seq(Readies) /\ Head(ready).kind = "message" /\ Carries(ready, c)
    <3>1. /\ ready \in Seq(Readies) /\ ready # <<>> /\ Head(ready).kind = "message"
          /\ c \in Chats /\ Tail(ready) \in Seq(Readies)
      BY <1>2, NextReady DEF BeginMessage
    <3>2. Single(ready)
      BY DEF Messages, MessagesOnce
    <3>3. QED
      BY <3>1, <3>2, BehindCarries
  <2>2. Len(tasks) \in 1..Len(tasks) /\ old \in Chats \cup {NoChat}
    <3>1. tasks # <<>>
      BY <2>1 DEF Messages, MessagesFresh
    <3>2. Len(tasks) \in Nat \ {0}
      BY <3>1, EmptySeq DEF TypeOK
    <3>3. QED
      BY <3>2, ElementOfSeq DEF Last, TypeOK
  <2>3. tasks' \in Seq(Chats \cup {NoChat})
    BY <1>2, <2>1, <2>2, ExceptSeq DEF BeginMessage, TypeOK
  <2>4. Task("run", c) \in Readies
    BY <2>1 DEF Task, Readies
  <2>5. ready' \in Seq(Readies)
    BY <1>2, <2>1, <2>4, Added DEF BeginMessage
  <2>6. CancelRun(run, old) \in [Chats -> [st : RunStates, hit : BOOLEAN]]
    BY <2>2 DEF CancelRun, TypeOK
  <2>7. run' \in [Chats -> [st : RunStates, hit : BOOLEAN]]
    BY <1>2, <2>1, <2>6 DEF BeginMessage, RunStates
  <2>8. QED
    BY <1>2, <2>3, <2>5, <2>7 DEF BeginMessage, TypeOK, plane, Readies
<1>3. CASE BeginRun
  <2>1. Head(ready).chat \in Chats /\ Tail(ready) \in Seq(Readies)
    BY <1>3, NextReady DEF BeginRun
  <2>2. run' \in [Chats -> [st : RunStates, hit : BOOLEAN]]
    BY <1>3, <2>1 DEF BeginRun, Moves, TypeOK, RunStates
  <2>3. QED
    BY <1>3, <2>1, <2>2 DEF BeginRun, TypeOK, plane, Readies
<1>4. ASSUME NEW c \in Chats, Enriched(c) PROVE TypeOK'
  <2>1. ready \in Seq(Readies)
    BY DEF TypeOK, Readies
  <2>2. QED
    BY <1>4, <2>1, RegisterType DEF Enriched, TypeOK, plane, Readies
<1>5. QED
  BY <1>1, <1>2, <1>3, <1>4

LEMMA RunStepType == ASSUME TypeOK, NEW c \in Chats, RunStep(c) PROVE TypeOK'
<1>1. ASSUME NEW kind \in Kinds, Say(c, kind)
      PROVE  said' \in [Chats -> Seq(Kinds)] /\ up' \in Seq([chat : Chats, kind : Kinds])
  <2>1. said[c] \in Seq(Kinds) /\ up \in Seq([chat : Chats, kind : Kinds])
    BY DEF TypeOK
  <2>2. Append(said[c], kind) \in Seq(Kinds)
    BY <2>1, Added
  <2>3. [chat |-> c, kind |-> kind] \in [chat : Chats, kind : Kinds]
    OBVIOUS
  <2>4. up' \in Seq([chat : Chats, kind : Kinds])
    BY <1>1, <2>1, <2>3, Added DEF Say
  <2>5. QED
    BY <1>1, <2>2, <2>4 DEF Say, TypeOK
<1>2. ASSUME NEW from, NEW to \in RunStates, Moves(c, from, to)
      PROVE  run' \in [Chats -> [st : RunStates, hit : BOOLEAN]]
  BY <1>2 DEF Moves, TypeOK
<1>3. {"saving", "failed", "cancelled", "over"} \subseteq RunStates /\ {"complete", "error", "cancelled"} \subseteq Kinds
  BY DEF RunStates, Kinds
<1>4. CASE Completes(c)
  BY <1>1, <1>2, <1>3, <1>4 DEF Completes, TypeOK, plane, runtime
<1>5. CASE Fails(c)
  BY <1>1, <1>2, <1>3, <1>5 DEF Fails, TypeOK, plane, runtime
<1>6. CASE SaveFails(c)
  <2>1. events' \in [leaves : 0..MaxLeaves, faults : 0..MaxFaults]
    BY <1>6, Counted DEF SaveFails, TypeOK
  <2>2. QED
    BY <1>1, <1>2, <1>3, <1>6, <2>1 DEF SaveFails, TypeOK, plane, runtime
<1>7. CASE Cancelled(c)
  BY <1>1, <1>2, <1>3, <1>7 DEF Cancelled, TypeOK, plane, runtime
<1>8. CASE RunEnds(c)
  BY <1>2, <1>3, <1>8 DEF RunEnds, TypeOK, plane, runtime
<1>9. QED
  BY <1>4, <1>5, <1>6, <1>7, <1>8 DEF RunStep

-----------------------------------------------------------------------------
(* Messages *)

\* No message is added, and only the runs of messages that have arrived change.
LEMMA MessagesKept ==
  ASSUME Messages, down' = down, pending' = pending, tasks # <<>> => tasks' # <<>>,
         Single(ready'), \A c : Carries(ready', c) => Carries(ready, c),
         \A c \in Chats : Waits(c) => chat'[c] = chat[c],
         \A c \in Chats : chat'[c] # "sent" => chat[c] # "sent",
         \A c \in Chats : run'[c] # run[c] => chat[c] = "sent" /\ ~ Waits(c)'
  PROVE  Messages'
<1>1. \A c : Waits(c)' => Waits(c)
  BY DEF Waits, Keeps
<1>2. MessagesOnce'
  BY DEF Messages, MessagesOnce, Keeps
<1>3. MessagesFresh'
  <2>1. \A c \in Chats : Waits(c)' => chat'[c] = "sent"
    BY <1>1 DEF Messages, MessagesFresh
  <2>2. ASSUME NEW c \in Chats, Waits(c)' \/ chat'[c] # "sent"
        PROVE  run'[c].st = "none" /\ ~ run'[c].hit
    <3>1. Waits(c) \/ chat[c] # "sent"
      BY <1>1, <2>2
    <3>2. run'[c] = run[c]
      BY <1>1, <2>2
    <3>3. QED
      BY <3>1, <3>2 DEF Messages, MessagesFresh
  <2>3. (\E c \in Chats : Carries(ready', c)) => tasks' # <<>>
    BY DEF Messages, MessagesFresh
  <2>4. QED
    BY <2>1, <2>2, <2>3 DEF MessagesFresh
<1>4. MessagesLast'
  BY DEF Messages, MessagesLast
<1>5. QED
  BY <1>2, <1>3, <1>4 DEF Messages

LEMMA ControlMessages ==
  ASSUME TypeOK, Messages, ControlPlane
  PROVE  Messages'
<1>1. Single(ready)
  BY DEF Messages, MessagesOnce
<1>2. ASSUME NEW c \in Chats, Open(c) PROVE Messages'
  <2>1. ~ Waits(c) /\ chat[c] # "sent"
    BY <1>2 DEF Open, Messages, MessagesFresh
  <2>2. \A d \in Chats : d # c => chat'[d] = chat[d]
    BY <1>2 DEF Open, TypeOK
  <2>3. QED
    BY <1>1, <1>2, <2>1, <2>2, MessagesKept DEF Open, runtime
<1>3. ASSUME NEW c \in Chats, Leave(c) PROVE Messages'
  <2>1. CancelIfActive(c, Deactivated(c)) = <<>>
    BY <1>3 DEF CancelIfActive, Deactivated, TypeOK
  <2>2. down' = down
    BY <1>3, <2>1, ConcatEmptySeq DEF Leave, TypeOK
  <2>3. QED
    BY <1>1, <1>3, <2>2, MessagesKept DEF Leave, runtime
<1>4. ASSUME NEW c \in Chats, Dispatch(c) PROVE Messages'
  <2> DEFINE two == <<[kind |-> "start", chat |-> c], [kind |-> "message", chat |-> c]>>
  <2>1. /\ two \in Seq(Downs) /\ down \in Seq(Downs) /\ down' = down \o two
        /\ Len(two) = 2 /\ two[2].kind = "message" /\ Single(two)
        /\ \A d : Carries(two, d) <=> d = c
    <3>1. two \in Seq(Downs) /\ Len(two) = 2 /\ DOMAIN two = 1..2
      BY DEF Downs
    <3>2. two[1].kind = "start" /\ two[2].kind = "message" /\ two[2].chat = c
      OBVIOUS
    <3> HIDE DEF two
    <3>3. Single(two) /\ \A d : Carries(two, d) <=> d = c
      BY <3>1, <3>2 DEF Single, Carries
    <3>4. QED
      BY <1>4, <3>1, <3>2, <3>3 DEF Dispatch, TypeOK, Downs, two
  <2> HIDE DEF two
  <2>2. ~ Waits(c) /\ chat[c] # "sent"
    BY <1>4 DEF Dispatch, Messages, MessagesFresh
  <2>3. /\ \A d : Carries(down', d) <=> Carries(down, d) \/ d = c
        /\ Single(down')
    BY <2>1, <2>2, Joined DEF Messages, MessagesOnce, Waits
  <2>4. MessagesLast'
    <3>1. /\ Len(down) \in Nat /\ Len(down') = Len(down) + 2
          /\ \A i \in 1..2 : down'[Len(down) + i] = two[i]
      BY <2>1, Joined
    <3>2. down'[Len(down')] = two[2]
      BY <3>1
    <3>3. QED
      BY <2>1, <3>2 DEF MessagesLast
  <2>5. UNCHANGED <<pending, ready, tasks, run>> /\ chat' = [chat EXCEPT ![c] = "sent"]
    BY <1>4 DEF Dispatch, runtime
  <2>6. \A d \in Chats : Waits(d)' <=> Waits(d) \/ d = c
    BY <2>3, <2>5 DEF Waits, Keeps
  <2>7. MessagesOnce'
    BY <2>2, <2>3, <2>5 DEF Messages, MessagesOnce, Waits, Keeps
  <2>8. MessagesFresh'
    BY <2>2, <2>5, <2>6 DEF Messages, MessagesFresh, TypeOK
  <2>9. QED
    BY <2>4, <2>7, <2>8 DEF Messages
<1>5. ASSUME NEW c \in Chats, Stored(c) PROVE Messages'
  BY <1>1, <1>5, MessagesKept DEF Stored, runtime
<1>6. ASSUME RecvComplete \/ RecvOther PROVE Messages'
  BY <1>1, <1>6, MessagesKept DEF RecvComplete, RecvOther, plane, runtime
<1>7. QED
  BY <1>2, <1>3, <1>4, <1>5, <1>6 DEF ControlPlane

\* The kept messages become tasks of the new handlers.
LEMMA RegisterMessages ==
  ASSUME TypeOK, Messages, NEW rest \in Seq(Readies), Register(rest), UNCHANGED <<chat, down, run>>,
         Single(rest), \A c : Carries(rest, c) => Carries(ready, c)
  PROVE  Messages'
<1>1. /\ Flush \in Seq(Readies) /\ \A c : Carries(Flush, c) <=> Keeps(c)
      /\ Single(Flush)
  BY Flushed DEF Messages
<1>2. \A c : ~ (Carries(rest, c) /\ Carries(Flush, c))
  <2>1. \A c : Keeps(c) => c \in Chats
    BY ElementOfSeq DEF Keeps, TypeOK
  <2>2. QED
    BY <1>1, <2>1 DEF Messages, MessagesOnce
<1>3. /\ ready' = rest \o Flush /\ Single(ready')
      /\ \A c : Carries(ready', c) <=> Carries(rest, c) \/ Keeps(c)
  BY <1>1, <1>2, Joined DEF Register
<1>4. pending' = <<>> /\ \A c : ~ Keeps(c)'
  BY DEF Register, Keeps
<1>5. tasks' # <<>>
  BY Added DEF Register, TypeOK
<1>6. \A c \in Chats : Waits(c)' => Waits(c)
  BY <1>3, <1>4 DEF Waits
<1>7. MessagesOnce'
  BY <1>3, <1>4 DEF Messages, MessagesOnce
<1>8. MessagesFresh'
  BY <1>5, <1>6 DEF Messages, MessagesFresh
<1>9. MessagesLast'
  BY DEF Messages, MessagesLast
<1>10. QED
  BY <1>7, <1>8, <1>9 DEF Messages

\* One more message is kept, and then perhaps the oldest goes.
LEMMA NewestKept ==
  ASSUME TypeOK, NEW c \in Chats, ~ Keeps(c), pending' = KeepNewest(Append(pending, c)),
         \A i, j \in DOMAIN pending : pending[i] = pending[j] => i = j
  PROVE  /\ \A i, j \in DOMAIN pending' : pending'[i] = pending'[j] => i = j
         /\ \A d : Keeps(d)' => Keeps(d) \/ d = c
         /\ pending' # <<>>
<1> DEFINE p == Append(pending, c)
           n == Len(pending)
<1>1. /\ p \in Seq(Chats) /\ p # <<>> /\ n \in Nat /\ Len(p) = n + 1
      /\ DOMAIN pending = 1..n /\ DOMAIN p = 1..n + 1
      /\ \A i \in DOMAIN pending : p[i] = pending[i]
      /\ p[n + 1] = c
  <2>1. pending \in Seq(Chats)
    BY DEF TypeOK
  <2>2. QED
    BY <2>1, Added
<1>2. pending' = IF n + 1 > MaxPending THEN Tail(p) ELSE p
  BY <1>1 DEF KeepNewest
<1> HIDE DEF p, n
<1>3. \A i, j \in DOMAIN p : p[i] = p[j] => i = j
  BY <1>1 DEF Keeps
<1>4. \A i \in DOMAIN p : p[i] = c \/ \E j \in DOMAIN pending : pending[j] = p[i]
  BY <1>1
<1>5. CASE pending' = p
  BY <1>1, <1>3, <1>4, <1>5 DEF Keeps
<1>6. CASE pending' = Tail(p) /\ n + 1 > MaxPending
  <2>1. /\ Len(Tail(p)) = n /\ DOMAIN Tail(p) = 1..n
        /\ \A i \in DOMAIN Tail(p) : i + 1 \in DOMAIN p /\ Tail(p)[i] = p[i + 1]
    BY <1>1, Behind
  <2>2. \A i, j \in DOMAIN Tail(p) : Tail(p)[i] = Tail(p)[j] => i = j
    <3>1. ASSUME NEW i \in DOMAIN Tail(p), NEW j \in DOMAIN Tail(p), Tail(p)[i] = Tail(p)[j]
          PROVE  i = j
      <4>1. i + 1 = j + 1
        BY <1>3, <2>1, <3>1
      <4>2. QED
        BY <1>1, <2>1, <4>1
    <3>2. QED
      BY <3>1
  <2>3. \A d : Keeps(d)' => Keeps(d) \/ d = c
    BY <1>4, <1>6, <2>1 DEF Keeps
  <2>4. Tail(p) # <<>>
    <3>1. n > 0
      BY <1>1, <1>6, ChatAssumption
    <3>2. QED
      BY <1>1, <2>1, <3>1, EmptySeq
  <2>5. QED
    BY <1>6, <2>2, <2>3, <2>4
<1>7. QED
  BY <1>2, <1>5, <1>6

LEMMA ReceiveMessages == ASSUME TypeOK, Messages, Receive PROVE Messages'
<1> DEFINE m == Head(down)
           c == Head(down).chat
<1>1. down \in Seq(Downs) /\ down # <<>> /\ Single(down) /\ Single(ready) /\ down' = Tail(down)
  BY DEF TypeOK, Receive, Downs, Messages, MessagesOnce
<1>2. /\ m \in Downs /\ c \in Chats
      /\ Len(down) \in Nat /\ Len(Tail(down)) = Len(down) - 1
      /\ DOMAIN Tail(down) = 1..Len(down) - 1
      /\ \A i \in DOMAIN Tail(down) : Tail(down)[i] = down[i + 1]
  <2>1. m \in Downs
    BY <1>1, Behind
  <2>2. c \in Chats
    BY <2>1 DEF Downs
  <2>3. QED
    BY <1>1, <2>1, <2>2, Behind
<1>3. /\ Single(down')
      /\ \A d : Carries(down', d) => Carries(down, d)
      /\ m.kind = "message" => Carries(down, c) /\ ~ Carries(down', c)
  BY <1>1, BehindCarries
<1>4. MessagesLast'
  <2>1. ASSUME down' # <<>> PROVE down'[Len(down')].kind = "message"
    <3>1. Tail(down) \in Seq(Downs) /\ Len(Tail(down)) \in Nat \ {0}
      BY <1>1, <2>1, Behind, EmptySeq
    <3>2. down'[Len(down')] = down[Len(down)]
      BY <1>1, <1>2, <3>1
    <3>3. QED
      BY <1>1, <3>2 DEF Messages, MessagesLast
  <2>2. QED
    BY <2>1 DEF MessagesLast
<1>5. UNCHANGED <<chat, tasks, run>>
  BY DEF Receive, plane
<1>6. CASE m.kind = "message" /\ tasks = <<>> /\ pending' = KeepNewest(Append(pending, c)) /\ UNCHANGED ready
  <2>1. ~ Keeps(c) /\ ~ Carries(ready, c) /\ Waits(c)
    BY <1>2, <1>3, <1>6 DEF Messages, MessagesOnce, Waits
  <2>2. /\ \A i, j \in DOMAIN pending' : pending'[i] = pending'[j] => i = j
        /\ \A d : Keeps(d)' => Keeps(d) \/ d = c
    BY <1>2, <1>6, <2>1, NewestKept DEF Messages, MessagesOnce
  <2>3. \A d : Waits(d)' => Waits(d)
    BY <1>3, <1>6, <2>1, <2>2 DEF Waits
  <2>4. MessagesOnce'
    BY <1>1, <1>3, <1>6, <2>1, <2>2 DEF Messages, MessagesOnce
  <2>5. MessagesFresh'
    BY <1>5, <1>6, <2>3 DEF Messages, MessagesFresh
  <2>6. QED
    BY <1>4, <2>4, <2>5 DEF Messages
<1>7. CASE (m.kind = "message" => tasks # <<>>) /\ ready' = Append(ready, m) /\ UNCHANGED pending
  <2>1. m \in Readies /\ ready \in Seq(Readies)
    BY <1>2 DEF Downs, Readies, TypeOK
  <2>2. m.kind = "message" => ~ Keeps(c) /\ ~ Carries(ready, c) /\ Waits(c)
    BY <1>2, <1>3 DEF Messages, MessagesOnce, Waits
  <2>3. /\ Single(ready')
        /\ \A d : Carries(ready', d) => Carries(ready, d) \/ (m.kind = "message" /\ d = c)
    BY <1>1, <1>7, <2>1, <2>2, AddedCarries
  <2>4. \A d : Keeps(d)' <=> Keeps(d)
    BY <1>7 DEF Keeps
  <2>5. \A d : Waits(d)' => Waits(d)
    BY <1>3, <2>2, <2>3, <2>4 DEF Waits
  <2>6. MessagesOnce'
    BY <1>3, <1>7, <2>2, <2>3, <2>4 DEF Messages, MessagesOnce
  <2>7. MessagesFresh'
    BY <1>5, <1>7, <2>3, <2>5 DEF Messages, MessagesFresh
  <2>8. QED
    BY <1>4, <2>6, <2>7 DEF Messages
<1>8. QED
  BY <1>6, <1>7 DEF Receive, HasSession

\* What a new message does to the runs and to its adapter.
Supersedes(c, old) ==
  /\ c \in Chats /\ chat[c] = "sent" /\ run[c].st = "none"
  /\ run'[c].st = "created" /\ ~ run'[c].hit
  /\ \A d \in Chats \ {c} : run'[d].st = run[d].st /\ (run[d].hit => run'[d].hit)
  /\ \A d \in Chats \ {c, old} : run'[d] = run[d]
  /\ old \in Chats /\ run[old].st # "over" => run'[old].hit
  /\ Len(tasks) \in DOMAIN tasks /\ old = tasks[Len(tasks)] /\ old # c
  /\ DOMAIN tasks' = DOMAIN tasks /\ tasks' # <<>>
  /\ tasks'[Len(tasks)] = c
  /\ \A a \in DOMAIN tasks : a # Len(tasks) => tasks'[a] = tasks[a]
  /\ \A a \in DOMAIN tasks : tasks[a] # c

LEMMA Superseding ==
  ASSUME TypeOK, Messages, TasksOnce, BeginMessage
  PROVE  Supersedes(Head(ready).chat, Last(tasks))
<1> DEFINE c == Head(ready).chat
           old == Last(tasks)
           n == Len(tasks)
           mid == CancelRun(run, old)
<1>1. c \in Chats /\ Carries(ready, c) /\ Waits(c)
  <2>1. /\ ready \in Seq(Readies) /\ ready # <<>> /\ Head(ready).kind = "message" /\ c \in Chats
    BY NextReady DEF BeginMessage
  <2>2. Single(ready)
    BY DEF Messages, MessagesOnce
  <2>3. Carries(ready, c)
    BY <2>1, <2>2, BehindCarries
  <2>4. QED
    BY <2>1, <2>3 DEF Waits
<1>2. chat[c] = "sent" /\ run[c].st = "none" /\ ~ run[c].hit /\ tasks # <<>>
  BY <1>1 DEF Messages, MessagesFresh
<1>3. /\ tasks \in Seq(Chats \cup {NoChat}) /\ n \in Nat \ {0} /\ DOMAIN tasks = 1..n
      /\ n \in DOMAIN tasks /\ old = tasks[n]
  BY <1>2, EmptySeq, LenProperties DEF TypeOK, Last
<1>4. NoChat \notin Chats /\ \A a \in DOMAIN tasks : tasks[a] # c
  BY <1>1, <1>2, ChatAssumption DEF TasksOnce
<1>5. old # c
  BY <1>3, <1>4
<1>6. run \in [Chats -> [st : RunStates, hit : BOOLEAN]] /\ old \in Chats \cup {NoChat}
  BY <1>3, ElementOfSeq DEF TypeOK
<1>7. run' = [mid EXCEPT ![c].st = "created"] /\ tasks' = [tasks EXCEPT ![n] = c]
  BY DEF BeginMessage
<1> HIDE DEF c, old, n
<1>8. /\ mid[c] = run[c] /\ mid \in [Chats -> [st : RunStates, hit : BOOLEAN]]
      /\ \A d \in Chats \ {c} : mid[d].st = run[d].st /\ (run[d].hit => mid[d].hit)
      /\ \A d \in Chats \ {c, old} : mid[d] = run[d]
      /\ old \in Chats /\ run[old].st # "over" => mid[old].hit
  BY <1>1, <1>4, <1>5, <1>6 DEF CancelRun
<1> HIDE DEF mid
<1>9. /\ run'[c].st = "created" /\ run'[c].hit = mid[c].hit
      /\ \A d \in Chats \ {c} : run'[d] = mid[d]
  BY <1>1, <1>7, <1>8
<1>10. /\ DOMAIN tasks' = DOMAIN tasks /\ tasks'[n] = c
       /\ \A a \in DOMAIN tasks : a # n => tasks'[a] = tasks[a]
  BY <1>3, <1>7
<1>11. tasks' # <<>>
  BY <1>3, <1>10
<1>12. QED
  BY <1>1, <1>2, <1>3, <1>4, <1>5, <1>6, <1>8, <1>9, <1>10, <1>11 DEF Supersedes, c, old, n

LEMMA BeginMessages ==
  ASSUME TypeOK, Messages, TasksOnce,
         BeginStart \/ BeginMessage \/ BeginRun \/ (\E c \in Chats : Enriched(c) \/ RunStep(c))
  PROVE  Messages'
<1> DEFINE c == Head(ready).chat
           t == Tail(ready)
<1>1. ready \in Seq(Readies) /\ Single(ready)
  BY DEF TypeOK, Readies, Messages, MessagesOnce
<1>2. ASSUME NEW kind, NextIs(kind)
      PROVE  /\ c \in Chats /\ t \in Seq(Readies) /\ Single(t)
             /\ \A d : Carries(t, d) => Carries(ready, d)
             /\ kind = "message" => Carries(ready, c) /\ ~ Carries(t, c)
  <2>1. /\ ready # <<>> /\ Head(ready).kind = kind /\ c \in Chats /\ t \in Seq(Readies)
    BY <1>2, NextReady
  <2>2. QED
    BY <1>1, <2>1, BehindCarries
<1> HIDE DEF c, t
<1>3. CASE BeginStart
  <2>1. /\ t \in Seq(Readies) /\ Single(t) /\ \A d : Carries(t, d) => Carries(ready, d)
        /\ UNCHANGED <<chat, down, run>>
    BY <1>2, <1>3 DEF BeginStart, plane
  <2>2. CASE Register(t)
    BY <2>1, <2>2, RegisterMessages
  <2>3. CASE ready' = t /\ UNCHANGED <<tasks, pending>>
    BY <2>1, <2>3, MessagesKept
  <2>4. QED
    BY <1>3, <2>2, <2>3 DEF BeginStart, t
<1>4. CASE BeginMessage
  <2> DEFINE e == Task("run", c)
  <2>1. Supersedes(c, Last(tasks))
    BY <1>4, Superseding DEF c
  <2>2. /\ c \in Chats /\ t \in Seq(Readies) /\ Single(t) /\ \A d : Carries(t, d) => Carries(ready, d)
        /\ Carries(ready, c) /\ ~ Carries(t, c)
    BY <1>2, <1>4 DEF BeginMessage
  <2>3. e \in Readies /\ e.kind = "run"
    BY <2>2 DEF Task, Readies
  <2>4. ready' = Append(t, e) /\ UNCHANGED <<chat, down, pending>>
    BY <1>4 DEF BeginMessage, plane, c, t
  <2> HIDE DEF e
  <2>5. Single(ready') /\ \A d : Carries(ready', d) => Carries(t, d)
    BY <2>2, <2>3, <2>4, AddedCarries
  <2>6. \A d \in Chats : d = c => ~ Waits(d)'
    BY <2>2, <2>4, <2>5 DEF Messages, MessagesOnce, Waits, Keeps
  <2>7. ASSUME NEW d \in Chats, run'[d] # run[d], d # c
        PROVE  chat[d] = "sent" /\ ~ Waits(d)'
    <3>1. d = tasks[Len(tasks)] /\ Len(tasks) \in DOMAIN tasks /\ d # NoChat
      BY <2>1, <2>7, ChatAssumption DEF Supersedes
    <3>2. run[d].st # "none"
      BY <3>1 DEF TasksOnce
    <3>3. chat[d] = "sent" /\ ~ Waits(d)
      BY <3>2 DEF Messages, MessagesFresh
    <3>4. QED
      BY <2>2, <2>4, <2>5, <3>3 DEF Waits, Keeps
  <2>8. tasks' # <<>> /\ chat[c] = "sent"
    BY <2>1 DEF Supersedes
  <2>9. \A d : Carries(ready', d) => Carries(ready, d)
    BY <2>2, <2>5
  <2>10. QED
    BY <2>4, <2>5, <2>6, <2>7, <2>8, <2>9, MessagesKept
<1>5. CASE BeginRun
  <2>1. /\ c \in Chats /\ t \in Seq(Readies) /\ Single(t) /\ \A d : Carries(t, d) => Carries(ready, d)
    BY <1>2, <1>5 DEF BeginRun
  <2>2. /\ ready' = t /\ UNCHANGED <<chat, down, pending, tasks>>
        /\ run[c].st = "created" /\ \A d \in Chats : run'[d] # run[d] => d = c
    BY <1>5, <2>1 DEF BeginRun, Moves, plane, TypeOK, c, t
  <2>3. chat[c] = "sent" /\ ~ Waits(c)
    BY <2>1, <2>2 DEF Messages, MessagesFresh
  <2>4. \A d \in Chats : d = c => ~ Waits(d)'
    BY <2>1, <2>2, <2>3 DEF Waits, Keeps
  <2>5. QED
    BY <2>1, <2>2, <2>3, <2>4, MessagesKept
<1>6. ASSUME NEW d \in Chats, Enriched(d) PROVE Messages'
  BY <1>1, <1>6, RegisterMessages DEF Enriched, plane
<1>7. ASSUME NEW d \in Chats, RunStep(d) PROVE Messages'
  <2>1. UNCHANGED <<chat, down, pending, tasks, ready>>
    BY <1>7 DEF RunStep, Completes, Fails, SaveFails, Cancelled, RunEnds, plane, runtime
  <2>2. run[d].st # "none" /\ \A b \in Chats : run'[b] # run[b] => b = d
    BY <1>7 DEF RunStep, Completes, Fails, SaveFails, Cancelled, RunEnds, Moves, TypeOK
  <2>3. chat[d] = "sent" /\ ~ Waits(d)
    BY <2>2 DEF Messages, MessagesFresh
  <2>4. ~ Waits(d)'
    BY <2>1, <2>3 DEF Waits, Keeps
  <2>5. QED
    BY <1>1, <2>1, <2>2, <2>3, <2>4, MessagesKept
<1>8. QED
  BY <1>3, <1>4, <1>5, <1>6, <1>7

-----------------------------------------------------------------------------
(* Runs *)

LEMMA FollowedBehind ==
  ASSUME NEW s \in Seq(Readies), s # <<>>, NEW r, Followed(s, r)
  PROVE  Followed(Tail(s), r)
<1>1. /\ Len(s) \in Nat /\ DOMAIN s = 1..Len(s) /\ DOMAIN Tail(s) = 1..Len(s) - 1
      /\ \A i \in DOMAIN Tail(s) : i + 1 \in DOMAIN s /\ Tail(s)[i] = s[i + 1]
      /\ \A i \in DOMAIN s : i # 1 => i - 1 \in DOMAIN Tail(s) /\ Tail(s)[i - 1] = s[i]
  BY Behind
<1>2. ASSUME NEW i \in DOMAIN Tail(s), Tail(s)[i].kind = "run", r[Tail(s)[i].chat].hit
      PROVE  \E j \in DOMAIN Tail(s) : j > i /\ Tail(s)[j].kind = "run"
  <2>1. PICK j \in DOMAIN s : j > i + 1 /\ s[j].kind = "run"
    BY <1>1, <1>2 DEF Followed
  <2>2. j - 1 \in DOMAIN Tail(s) /\ Tail(s)[j - 1] = s[j] /\ j - 1 > i
    BY <1>1, <2>1
  <2>3. QED
    BY <2>1, <2>2
<1>3. QED
  BY <1>2 DEF Followed

LEMMA FollowedAdded ==
  ASSUME NEW s \in Seq(Readies), NEW e \in Readies, NEW r,
         IF e.kind = "run" THEN ~ r[e.chat].hit ELSE Followed(s, r)
  PROVE  Followed(Append(s, e), r)
<1> DEFINE t == Append(s, e)
           n == Len(s)
<1>1. /\ n \in Nat /\ DOMAIN s = 1..n /\ DOMAIN t = 1..n + 1
      /\ \A i \in DOMAIN s : t[i] = s[i]
      /\ t[n + 1] = e
  BY Added
<1> HIDE DEF t, n
<1>2. CASE e.kind = "run"
  <2>1. ASSUME NEW i \in DOMAIN t, t[i].kind = "run", r[t[i].chat].hit
        PROVE  \E j \in DOMAIN t : j > i /\ t[j].kind = "run"
    <3>1. i # n + 1
      BY <1>1, <1>2, <2>1
    <3>2. n + 1 \in DOMAIN t /\ n + 1 > i /\ t[n + 1].kind = "run"
      BY <1>1, <1>2, <3>1
    <3>3. QED
      BY <3>2
  <2>2. QED
    BY <2>1 DEF Followed, t
<1>3. CASE e.kind # "run"
  <2>1. ASSUME NEW i \in DOMAIN t, t[i].kind = "run", r[t[i].chat].hit
        PROVE  \E j \in DOMAIN t : j > i /\ t[j].kind = "run"
    <3>1. i \in DOMAIN s /\ t[i] = s[i]
      BY <1>1, <1>3, <2>1
    <3>2. PICK j \in DOMAIN s : j > i /\ s[j].kind = "run"
      BY <1>3, <2>1, <3>1 DEF Followed
    <3>3. QED
      BY <1>1, <3>2
  <2>2. QED
    BY <2>1 DEF Followed, t
<1>4. QED
  BY <1>2, <1>3

LEMMA FollowedJoined ==
  ASSUME NEW s \in Seq(Readies), NEW u \in Seq(Readies), NEW r, Followed(s, r),
         \A i \in 1..Len(u) : u[i].kind = "message"
  PROVE  Followed(s \o u, r)
<1> DEFINE t == s \o u
           m == Len(s)
           n == Len(u)
<1>1. /\ m \in Nat /\ n \in Nat /\ DOMAIN s = 1..m /\ t \in Seq(Readies) /\ Len(t) = m + n
      /\ \A i \in 1..m : t[i] = s[i]
      /\ \A i \in 1..n : t[m + i] = u[i]
  BY Joined, LenProperties
<1>2. DOMAIN t = 1..m + n
  BY <1>1, LenProperties
<1>3. \A i \in 1..n : u[i].kind = "message"
  OBVIOUS
<1> HIDE DEF t, m, n
<1>4. ASSUME NEW i \in DOMAIN t, t[i].kind = "run", r[t[i].chat].hit
      PROVE  \E j \in DOMAIN t : j > i /\ t[j].kind = "run"
  <2>1. ASSUME i > m PROVE FALSE
    <3>1. i - m \in 1..n /\ m + (i - m) = i
      BY <1>1, <1>2, <2>1
    <3>2. t[i] = u[i - m]
      BY <1>1, <3>1
    <3>3. QED
      BY <1>3, <1>4, <3>1, <3>2
  <2>2. i \in DOMAIN s /\ t[i] = s[i]
    BY <1>1, <1>2, <2>1
  <2>3. PICK j \in DOMAIN s : j > i /\ s[j].kind = "run"
    BY <1>4, <2>2 DEF Followed
  <2>4. QED
    BY <1>1, <1>2, <2>3
<1>5. QED
  BY <1>4 DEF Followed, t

\* Fewer runs are cancelled and not yet over.
LEMMA FollowedLess ==
  ASSUME NEW s \in Seq(Readies), NEW r, NEW r2, Followed(s, r), \A c \in Chats : r2[c].hit => r[c].hit
  PROVE  Followed(s, r2)
<1>1. \A i \in DOMAIN s : s[i].chat \in Chats
  <2>1. \A i \in DOMAIN s : s[i] \in Readies
    BY ElementOfSeq, LenProperties
  <2>2. QED
    BY <2>1 DEF Readies
<1>2. QED
  BY <1>1 DEF Followed

\* No run moves.
LEMMA RunsKept ==
  ASSUME Runs, UNCHANGED <<run, said, tasks>>, Followed(ready', run)
  PROVE  Runs'
<1>1. Tasks'
  BY DEF Runs, Tasks, TasksOnce, Active, HitReplaced, Told, OnlySupersededAreSilent
<1>2. QED
  BY <1>1 DEF Runs, HitFollowed

LEMMA RegisterRuns ==
  ASSUME TypeOK, Runs, NEW rest \in Seq(Readies), Followed(rest, run), Register(rest), UNCHANGED <<run, said>>
  PROVE  Runs'
<1> DEFINE n == Len(tasks)
<1>1. tasks \in Seq(Chats \cup {NoChat}) /\ NoChat \in Chats \cup {NoChat}
  BY DEF TypeOK
<1>2. /\ n \in Nat /\ DOMAIN tasks = 1..n /\ DOMAIN tasks' = 1..n + 1
      /\ \A i \in DOMAIN tasks : tasks'[i] = tasks[i]
      /\ tasks'[n + 1] = NoChat
  BY <1>1, Added DEF Register
<1> HIDE DEF n
<1>3. NoChat \notin Chats
  BY ChatAssumption
<1>4. /\ \A a \in DOMAIN tasks : a \in DOMAIN tasks' /\ tasks'[a] = tasks[a]
      /\ \A a \in DOMAIN tasks' : tasks'[a] # NoChat => a \in DOMAIN tasks /\ tasks'[a] = tasks[a]
  BY <1>2
<1>5. TasksOnce' /\ Active' /\ HitReplaced' /\ Told' /\ OnlySupersededAreSilent'
  BY <1>3, <1>4 DEF Runs, Tasks, TasksOnce, Active, HitReplaced, Told, OnlySupersededAreSilent
<1>6. HitFollowed'
  <2>1. Flush \in Seq(Readies) /\ \A i \in 1..Len(Flush) : Flush[i].kind = "message"
    BY Flushed
  <2>2. QED
    BY <2>1, FollowedJoined DEF Register, HitFollowed
<1>7. QED
  BY <1>5, <1>6 DEF Runs, Tasks

LEMMA MessageRuns ==
  ASSUME TypeOK, Messages, Runs, BeginMessage
  PROVE  Runs'
<1> DEFINE n == Len(tasks)
<1>1. PICK c, old : c = Head(ready).chat /\ old = Last(tasks)
  OBVIOUS
<1>2. Supersedes(c, old)
  BY <1>1, Superseding DEF Runs, Tasks
<1>3. UNCHANGED said
  BY DEF BeginMessage
<1>4. NoChat \notin Chats
  BY ChatAssumption
<1>5. TasksOnce'
  <2>1. \A a \in DOMAIN tasks : tasks[a] \in Chats \cup {NoChat}
    BY ElementOfSeq, LenProperties DEF TypeOK
  <2>2. ASSUME NEW a \in DOMAIN tasks', tasks'[a] # NoChat
        PROVE  run'[tasks'[a]].st # "none"
    <3>1. CASE a = n
      BY <1>2, <3>1 DEF Supersedes
    <3>2. CASE a # n
      <4>1. a \in DOMAIN tasks /\ tasks'[a] = tasks[a] /\ tasks[a] \in Chats \ {c}
        BY <1>2, <2>1, <2>2, <3>2 DEF Supersedes
      <4>2. run[tasks[a]].st # "none"
        BY <2>2, <4>1 DEF Runs, Tasks, TasksOnce
      <4>3. QED
        BY <1>2, <4>1, <4>2 DEF Supersedes
    <3>3. QED
      BY <3>1, <3>2
  <2>3. ASSUME NEW a \in DOMAIN tasks', tasks'[a] # NoChat, NEW b \in DOMAIN tasks', tasks'[a] = tasks'[b]
        PROVE  a = b
    BY <1>2, <2>3 DEF Supersedes, Runs, Tasks, TasksOnce
  <2>4. QED
    BY <2>2, <2>3 DEF TasksOnce
<1>6. Active'
  <2>1. ASSUME NEW d \in Chats, d # c, run'[d].st \in {"created", "working", "saving"}
        PROVE  run'[d].hit \/ \E a \in DOMAIN tasks' : tasks'[a] = d
    <3>1. CASE run[d].hit
      BY <1>2, <2>1, <3>1 DEF Supersedes
    <3>2. CASE d = old
      BY <1>2, <2>1, <3>2 DEF Supersedes
    <3>3. ASSUME NEW a \in DOMAIN tasks, tasks[a] = d, d # old
          PROVE  a \in DOMAIN tasks' /\ tasks'[a] = d
      BY <1>2, <3>3 DEF Supersedes
    <3>4. run[d].hit \/ \E a \in DOMAIN tasks : tasks[a] = d
      BY <1>2, <2>1 DEF Supersedes, Runs, Tasks, Active
    <3>5. QED
      BY <3>1, <3>2, <3>3, <3>4
  <2>2. \E a \in DOMAIN tasks' : tasks'[a] = c
    BY <1>2 DEF Supersedes
  <2>3. QED
    BY <2>1, <2>2 DEF Active
<1>7. HitReplaced'
  <2>1. ASSUME NEW d \in Chats, run'[d].hit, run'[d].st = "created", NEW a \in DOMAIN tasks'
        PROVE  tasks'[a] # d
    <3>1. d # c /\ run[d].st = "created"
      BY <1>2, <2>1 DEF Supersedes
    <3>2. CASE d = old
      BY <1>2, <1>4, <3>1, <3>2 DEF Supersedes, Runs, Tasks, TasksOnce
    <3>3. CASE d # old
      BY <1>2, <2>1, <3>1, <3>3 DEF Supersedes, Runs, Tasks, HitReplaced
    <3>4. QED
      BY <3>2, <3>3
  <2>2. QED
    BY <2>1 DEF HitReplaced
<1>8. Told'
  BY <1>2, <1>3 DEF Runs, Tasks, Told, Supersedes
<1>9. OnlySupersededAreSilent'
  BY <1>2, <1>3 DEF Runs, Tasks, OnlySupersededAreSilent, Supersedes
<1>10. HitFollowed'
  <2> DEFINE e == Task("run", c)
             t == Tail(ready)
  <2>1. t \in Seq(Readies) /\ ready' = Append(t, e)
    BY <1>1, NextReady DEF BeginMessage
  <2>2. e \in Readies /\ e.kind = "run" /\ ~ run'[e.chat].hit
    BY <1>2 DEF Supersedes, Task, Readies
  <2> HIDE DEF e, t
  <2>3. QED
    BY <2>1, <2>2, FollowedAdded DEF HitFollowed
<1>11. QED
  BY <1>5, <1>6, <1>7, <1>8, <1>9, <1>10 DEF Runs, Tasks

\* A run moves on, saying what it has to.
LEMMA Moved ==
  ASSUME TypeOK, Tasks, NEW c \in Chats, NEW from, NEW to \in RunStates, Moves(c, from, to),
         run[c].st \in {"created", "working", "saving", "cancelled", "failed"}, UNCHANGED tasks,
         \A d \in Chats \ {c} : said'[d] = said[d],
         \/ /\ to \in {"working", "saving"} /\ ~ run[c].hit
            /\ run[c].st \in {"created", "working"} /\ (to = "saving" => said'[c] # <<>>)
         \/ to \in {"cancelled", "failed"} /\ said'[c] # <<>>
         \/ to = "over" /\ (said'[c] # <<>> \/ \A a \in DOMAIN tasks : tasks[a] # c)
  PROVE  Tasks'
<1>1. /\ run'[c].st = to /\ ~ run'[c].hit
      /\ \A d \in Chats \ {c} : run'[d] = run[d]
  BY DEF Moves, TypeOK
<1>2. TasksOnce'
  <2>1. \A a \in DOMAIN tasks : tasks[a] \in Chats \cup {NoChat}
    BY ElementOfSeq, LenProperties DEF TypeOK
  <2>2. to # "none"
    OBVIOUS
  <2>3. \A a \in DOMAIN tasks : tasks[a] # NoChat => run'[tasks[a]].st # "none"
    BY <1>1, <2>1, <2>2 DEF Tasks, TasksOnce
  <2>4. QED
    BY <2>3 DEF Tasks, TasksOnce
<1>3. Active'
  BY <1>1 DEF Tasks, Active
<1>4. HitReplaced'
  BY <1>1 DEF Tasks, HitReplaced
<1>5. Told'
  BY <1>1 DEF Tasks, Told
<1>6. OnlySupersededAreSilent'
  BY <1>1 DEF Tasks, OnlySupersededAreSilent
<1>7. QED
  BY <1>2, <1>3, <1>4, <1>5, <1>6 DEF Tasks

LEMMA FirstStepRuns == ASSUME TypeOK, Runs, BeginRun PROVE Runs'
<1> DEFINE t == Tail(ready)
<1>1. PICK c : c = Head(ready).chat
  OBVIOUS
<1>2. PICK to : to = IF run[c].hit THEN "over" ELSE "working"
  OBVIOUS
<1>3. c \in Chats /\ t \in Seq(Readies) /\ ready \in Seq(Readies) /\ ready # <<>>
  BY <1>1, NextReady DEF BeginRun
<1>4. /\ Moves(c, {"created"}, to) /\ to \in RunStates
      /\ ready' = t /\ UNCHANGED <<tasks, said>>
  BY <1>1, <1>2 DEF BeginRun, RunStates
<1>5. run[c].st = "created" /\ \A d \in Chats : run'[d].hit => run[d].hit
  BY <1>3, <1>4 DEF Moves, TypeOK
<1>6. run[c].hit => \A a \in DOMAIN tasks : tasks[a] # c
  BY <1>3, <1>5 DEF Runs, Tasks, HitReplaced
<1>7. Tasks'
  BY <1>2, <1>3, <1>4, <1>5, <1>6, Moved DEF Runs
<1>8. Followed(t, run)
  BY <1>3, FollowedBehind DEF Runs, HitFollowed
<1>9. Followed(t, run')
  BY <1>3, <1>5, <1>8, FollowedLess
<1>10. QED
  BY <1>4, <1>7, <1>9 DEF Runs, HitFollowed

LEMMA StepRuns == ASSUME TypeOK, Runs, NEW c \in Chats, RunStep(c) PROVE Runs'
<1>1. ASSUME NEW kind, Say(c, kind)
      PROVE  said'[c] # <<>> /\ \A d \in Chats \ {c} : said'[d] = said[d]
  <2>1. said' = [said EXCEPT ![c] = Append(said[c], kind)] /\ DOMAIN said = Chats
    BY <1>1 DEF Say, TypeOK
  <2>2. Append(said[c], kind) # <<>>
    <3>1. said[c] \in Seq(Kinds \cup {kind})
      <4>1. said[c] \in Seq(Kinds)
        BY DEF TypeOK
      <4>2. Len(said[c]) \in Nat /\ said[c] \in [1..Len(said[c]) -> Kinds \cup {kind}]
        BY <4>1, LenProperties, ElementOfSeq
      <4>3. QED
        BY <4>2, SeqDef
    <3>2. QED
      BY <3>1, Added
  <2>3. QED
    BY <2>1, <2>2
<1>2. UNCHANGED <<tasks, ready>>
  BY DEF RunStep, Completes, Fails, SaveFails, Cancelled, RunEnds, runtime
<1>3. Tasks
  BY DEF Runs
<1>4. Tasks'
  <2>1. CASE Completes(c)
    BY <1>1, <1>2, <1>3, <2>1, Moved DEF Completes, Moves, RunStates
  <2>2. CASE Fails(c)
    BY <1>1, <1>2, <1>3, <2>2, Moved DEF Fails, Moves, RunStates
  <2>3. CASE SaveFails(c)
    BY <1>1, <1>2, <1>3, <2>3, Moved DEF SaveFails, Moves, RunStates
  <2>4. CASE Cancelled(c)
    BY <1>1, <1>2, <1>3, <2>4, Moved DEF Cancelled, Moves, RunStates
  <2>5. CASE RunEnds(c)
    <3>1. UNCHANGED said /\ run[c].st \in {"saving", "failed", "cancelled"} /\ said[c] # <<>>
      BY <1>3, <2>5 DEF RunEnds, Moves, Tasks, Told
    <3>2. QED
      BY <1>2, <1>3, <2>5, <3>1, Moved DEF RunEnds, Moves, RunStates
  <2>6. QED
    BY <2>1, <2>2, <2>3, <2>4, <2>5 DEF RunStep
<1>5. \A d \in Chats : run'[d].hit => run[d].hit
  <2>1. ASSUME NEW from, NEW to, Moves(c, from, to)
        PROVE  \A d \in Chats : run'[d].hit => run[d].hit
    BY <2>1 DEF Moves, TypeOK
  <2>2. QED
    BY <2>1 DEF RunStep, Completes, Fails, SaveFails, Cancelled, RunEnds
<1>6. ready \in Seq(Readies)
  BY DEF TypeOK, Readies
<1>7. HitFollowed'
  BY <1>2, <1>5, <1>6, FollowedLess DEF Runs, HitFollowed
<1>8. QED
  BY <1>4, <1>7 DEF Runs

LEMMA OtherRuns ==
  ASSUME TypeOK, Runs, ControlPlane \/ Receive \/ BeginStart \/ (\E c \in Chats : Enriched(c))
  PROVE  Runs'
<1>1. ready \in Seq(Readies) /\ Followed(ready, run)
  BY DEF TypeOK, Readies, Runs, HitFollowed
<1>2. CASE ControlPlane
  <2>1. UNCHANGED <<ready, run, said, tasks>>
    BY <1>2 DEF ControlPlane, Open, Leave, Dispatch, Stored, RecvComplete, RecvOther, runtime
  <2>2. QED
    BY <1>1, <2>1, RunsKept
<1>3. CASE Receive
  <2>1. UNCHANGED <<run, said, tasks>>
    BY <1>3 DEF Receive
  <2>2. Head(down) \in Downs
    <3>1. down # <<>> /\ down \in Seq(Downs)
      BY <1>3 DEF Receive, TypeOK, Downs
    <3>2. QED
      BY <3>1, Behind
  <2>3. Head(down) \in Readies /\ Head(down).kind # "run"
    BY <2>2 DEF Downs, Readies
  <2>4. Followed(Append(ready, Head(down)), run)
    BY <1>1, <2>3, FollowedAdded
  <2>5. ready' = ready \/ ready' = Append(ready, Head(down))
    BY <1>3 DEF Receive
  <2>6. Followed(ready', run)
    BY <1>1, <2>4, <2>5
  <2>7. QED
    BY <2>1, <2>6, RunsKept
<1>4. CASE BeginStart
  <2>1. Tail(ready) \in Seq(Readies) /\ ready # <<>> /\ UNCHANGED <<run, said>>
    BY <1>4, NextReady DEF BeginStart
  <2>2. Followed(Tail(ready), run)
    BY <1>1, <2>1, FollowedBehind
  <2>3. CASE Register(Tail(ready))
    BY <2>1, <2>2, <2>3, RegisterRuns
  <2>4. CASE ready' = Tail(ready) /\ UNCHANGED tasks
    BY <2>1, <2>2, <2>4, RunsKept
  <2>5. QED
    BY <1>4, <2>3, <2>4 DEF BeginStart
<1>5. ASSUME NEW c \in Chats, Enriched(c) PROVE Runs'
  BY <1>1, <1>5, RegisterRuns DEF Enriched
<1>6. QED
  BY <1>2, <1>3, <1>4, <1>5

-----------------------------------------------------------------------------
(* Streams *)

\* Nothing that is under way goes without something else under way.
LEMMA StreamsKept ==
  ASSUME Streams, UnderWay => UnderWay',
         (\E c \in Chats : stream'[c] = "open" /\ chat'[c] = "sent")
           => \E c \in Chats : stream[c] = "open" /\ chat[c] = "sent"
  PROVE  Streams'
BY DEF Streams, Streaming

LEMMA ControlStreams == ASSUME TypeOK, Streams, ControlPlane PROVE Streams'
<1>1. ASSUME NEW c \in Chats, Open(c) PROVE Streams'
  <2>1. UnderWay => UnderWay'
    BY <1>1 DEF Open, UnderWay, runtime
  <2>2. \A d \in Chats : chat'[d] = "sent" => chat[d] = "sent" /\ stream'[d] = stream[d]
    BY <1>1 DEF Open, TypeOK
  <2>3. QED
    BY <2>1, <2>2, StreamsKept
<1>2. ASSUME NEW c \in Chats, Leave(c) PROVE Streams'
  <2>1. CancelIfActive(c, Deactivated(c)) = <<>>
    BY <1>2 DEF CancelIfActive, Deactivated, TypeOK
  <2>2. down' = down
    BY <1>2, <2>1, ConcatEmptySeq DEF Leave, TypeOK
  <2>3. UnderWay => UnderWay'
    BY <1>2, <2>2 DEF Leave, UnderWay, runtime
  <2>4. chat' = chat /\ \A d \in Chats : stream'[d] = "open" => stream[d] = "open"
    BY <1>2 DEF Leave, Deactivated, TypeOK
  <2>5. QED
    BY <2>3, <2>4, StreamsKept
<1>3. ASSUME NEW c \in Chats, Dispatch(c) PROVE Streams'
  <2> DEFINE two == <<[kind |-> "start", chat |-> c], [kind |-> "message", chat |-> c]>>
  <2>1. two \in Seq(Downs) /\ Len(two) = 2 /\ down \in Seq(Downs) /\ down' = down \o two
    BY <1>3 DEF Dispatch, TypeOK, Downs
  <2> HIDE DEF two
  <2>2. Len(down) \in Nat /\ Len(down \o two) = Len(down) + Len(two)
    BY <2>1, ConcatProperties, LenProperties
  <2>3. down' # <<>>
    BY <2>1, <2>2
  <2>4. QED
    BY <2>3 DEF Streams, UnderWay
<1>4. ASSUME EndStreams PROVE Streams'
  <2>1. \A d \in Chats : stream'[d] # "open"
    BY <1>4 DEF EndStreams, Streaming, TypeOK
  <2>2. QED
    BY <2>1 DEF Streams, Streaming
<1>5. CASE RecvComplete
  <2>1. storing' # {} /\ UNCHANGED plane
    BY <1>5 DEF RecvComplete
  <2>2. QED
    BY <2>1 DEF Streams, UnderWay
<1>6. QED
  BY <1>1, <1>2, <1>3, <1>4, <1>5 DEF ControlPlane, Stored, RecvOther

\* What the queue of the event loop still holds after each of its operations.
LEMMA WorkBehind ==
  ASSUME NEW s \in Seq(Readies), s # <<>>, Head(s).kind = "start", HoldsWork(s)
  PROVE  HoldsWork(Tail(s))
<1>1. /\ Head(s) = s[1]
      /\ \A i \in DOMAIN s : i # 1 => i - 1 \in DOMAIN Tail(s) /\ Tail(s)[i - 1] = s[i]
  BY Behind
<1>2. PICK i \in DOMAIN s : s[i].kind \in {"message", "run"}
  BY DEF HoldsWork
<1>3. i - 1 \in DOMAIN Tail(s) /\ Tail(s)[i - 1] = s[i]
  BY <1>1, <1>2
<1>4. QED
  BY <1>2, <1>3 DEF HoldsWork

LEMMA WorkAdded ==
  ASSUME NEW s \in Seq(Readies), NEW e \in Readies, HoldsWork(s) \/ e.kind \in {"message", "run"}
  PROVE  HoldsWork(Append(s, e))
<1>1. /\ DOMAIN s = 1..Len(s) /\ DOMAIN Append(s, e) = 1..Len(s) + 1 /\ Len(s) \in Nat
      /\ \A i \in DOMAIN s : Append(s, e)[i] = s[i]
      /\ Append(s, e)[Len(s) + 1] = e
  BY Added
<1>2. QED
  BY <1>1 DEF HoldsWork

LEMMA WorkJoined ==
  ASSUME NEW s \in Seq(Readies), NEW u \in Seq(Readies), HoldsWork(s) \/ Len(u) > 0,
         \A i \in 1..Len(u) : u[i].kind = "message"
  PROVE  HoldsWork(s \o u)
<1> DEFINE t == s \o u
<1>1. /\ t \in Seq(Readies) /\ Len(s) \in Nat /\ Len(u) \in Nat /\ Len(t) = Len(s) + Len(u)
      /\ \A i \in 1..Len(s) : t[i] = s[i]
      /\ \A i \in 1..Len(u) : t[Len(s) + i] = u[i]
  BY Joined
<1>2. DOMAIN t = 1..Len(s) + Len(u) /\ DOMAIN s = 1..Len(s)
  BY <1>1, LenProperties
<1> HIDE DEF t
<1>3. CASE HoldsWork(s)
  BY <1>1, <1>2, <1>3 DEF HoldsWork, t
<1>4. CASE Len(u) > 0
  <2>1. Len(s) + 1 \in DOMAIN t /\ t[Len(s) + 1].kind = "message"
    BY <1>1, <1>2, <1>4
  <2>2. QED
    BY <2>1 DEF HoldsWork, t
<1>5. QED
  BY <1>3, <1>4

LEMMA RegisterStreams ==
  ASSUME TypeOK, UnderWay, NEW rest \in Seq(Readies), Register(rest), HoldsWork(ready) => HoldsWork(rest),
         UNCHANGED <<down, up, storing, run>>
  PROVE  UnderWay'
<1>1. /\ Flush \in Seq(Readies) /\ \A i \in 1..Len(Flush) : Flush[i].kind = "message"
      /\ pending # <<>> => Len(Flush) > 0
  BY Flushed
<1>2. HoldsWork(rest) \/ Len(Flush) > 0 => HoldsWork(ready')
  BY <1>1, WorkJoined DEF Register
<1>3. QED
  BY <1>1, <1>2 DEF UnderWay

LEMMA ReceiveStreams == ASSUME TypeOK, Messages, Receive PROVE UnderWay'
<1> DEFINE m == Head(down)
<1>1. down \in Seq(Downs) /\ down # <<>> /\ ready \in Seq(Readies) /\ down' = Tail(down)
  BY DEF Receive, TypeOK, Downs, Readies
<1>2. /\ m \in Downs /\ m = down[1] /\ Len(down) \in Nat \ {0} /\ Tail(down) \in Seq(Downs)
      /\ Len(Tail(down)) = Len(down) - 1
  BY <1>1, Behind
<1>3. m \in Readies /\ m.chat \in Chats
  BY <1>2 DEF Downs, Readies
<1> HIDE DEF m
<1>4. CASE m.kind = "message" /\ ready' = Append(ready, m)
  <2>1. HoldsWork(ready')
    BY <1>1, <1>3, <1>4, WorkAdded
  <2>2. QED
    BY <2>1 DEF UnderWay
<1>5. CASE m.kind = "message" /\ tasks = <<>> /\ pending' = KeepNewest(Append(pending, m.chat))
  <2>1. Carries(down, m.chat)
    <3>1. Single(down)
      BY DEF Messages, MessagesOnce
    <3>2. QED
      BY <1>1, <1>5, <3>1, BehindCarries DEF m
  <2>2. ~ Keeps(m.chat) /\ \A i, j \in DOMAIN pending : pending[i] = pending[j] => i = j
    BY <1>3, <2>1 DEF Messages, MessagesOnce
  <2>3. pending' # <<>>
    BY <1>3, <1>5, <2>2, NewestKept
  <2>4. QED
    BY <2>3 DEF UnderWay
<1>6. CASE m.kind # "message"
  <2>1. Len(down) # 1
    BY <1>1, <1>2, <1>6 DEF Messages, MessagesLast
  <2>2. down' # <<>>
    <3>1. Len(Tail(down)) # 0
      BY <1>2, <2>1
    <3>2. Tail(down) # <<>>
      BY <1>2, <3>1, EmptySeq
    <3>3. QED
      BY <1>1, <3>2
  <2>3. QED
    BY <2>2 DEF UnderWay
<1>7. QED
  BY <1>4, <1>5, <1>6 DEF Receive, HasSession, m

LEMMA RunStreams == ASSUME TypeOK, UnderWay, NEW c \in Chats, RunStep(c) PROVE UnderWay'
<1>1. ASSUME NEW kind \in Kinds, Say(c, kind) PROVE UnderWay'
  <2>1. [chat |-> c, kind |-> kind] \in [chat : Chats, kind : Kinds] /\ up \in Seq([chat : Chats, kind : Kinds])
    BY DEF TypeOK
  <2>2. up' # <<>>
    BY <1>1, <2>1, Added DEF Say
  <2>3. QED
    BY <2>2 DEF UnderWay
<1>2. CASE RunEnds(c)
  <2>1. /\ UNCHANGED <<down, up, pending, storing, ready>>
        /\ \A d \in Chats : run[d].st = "working" => run'[d].st = "working"
    BY <1>2 DEF RunEnds, Moves, TypeOK, runtime
  <2>2. QED
    BY <2>1 DEF UnderWay
<1>3. QED
  BY <1>1, <1>2 DEF RunStep, Completes, Fails, SaveFails, Cancelled, Kinds

\* A handler or a first step begins; what it takes from the queue leaves something behind.
LEMMA BeginStreams ==
  ASSUME TypeOK, Messages, Runs, UnderWay, BeginStart \/ BeginMessage \/ BeginRun
  PROVE  UnderWay'
<1>1. ready \in Seq(Readies)
  BY DEF TypeOK, Readies
<1>2. CASE BeginStart
  <2>1. /\ ready # <<>> /\ Head(ready).kind = "start" /\ Tail(ready) \in Seq(Readies)
        /\ UNCHANGED <<down, up, storing, run>>
    BY <1>2, NextReady DEF BeginStart
  <2>2. HoldsWork(ready) => HoldsWork(Tail(ready))
    BY <1>1, <2>1, WorkBehind
  <2>3. CASE Register(Tail(ready))
    BY <2>1, <2>2, <2>3, RegisterStreams
  <2>4. CASE ready' = Tail(ready) /\ UNCHANGED pending
    BY <2>1, <2>2, <2>4 DEF UnderWay
  <2>5. QED
    BY <1>2, <2>3, <2>4 DEF BeginStart
<1>3. CASE BeginMessage
  <2> DEFINE e == Task("run", Head(ready).chat)
  <2>1. Head(ready).chat \in Chats /\ Tail(ready) \in Seq(Readies)
    BY <1>3, NextReady DEF BeginMessage
  <2>2. e \in Readies /\ e.kind = "run" /\ ready' = Append(Tail(ready), e)
    BY <1>3, <2>1 DEF BeginMessage, Task, Readies
  <2> HIDE DEF e
  <2>3. HoldsWork(ready')
    BY <2>1, <2>2, WorkAdded
  <2>4. QED
    BY <2>3 DEF UnderWay
<1>4. CASE BeginRun
  <2>1. PICK c : c = Head(ready).chat
    OBVIOUS
  <2>2. /\ ready # <<>> /\ Head(ready).kind = "run" /\ c \in Chats /\ ready' = Tail(ready)
        /\ Moves(c, {"created"}, IF run[c].hit THEN "over" ELSE "working")
    BY <1>4, <2>1, NextReady DEF BeginRun
  <2>3. CASE run[c].hit
    <3>1. /\ 1 \in DOMAIN ready /\ Head(ready) = ready[1]
          /\ \A i \in DOMAIN ready : i # 1 => i - 1 \in DOMAIN Tail(ready) /\ Tail(ready)[i - 1] = ready[i]
      BY <1>1, <2>2, Behind
    <3>2. PICK j \in DOMAIN ready : j > 1 /\ ready[j].kind = "run"
      BY <2>1, <2>2, <2>3, <3>1 DEF Runs, HitFollowed, Followed
    <3>3. j - 1 \in DOMAIN Tail(ready) /\ Tail(ready)[j - 1].kind = "run"
      BY <3>1, <3>2
    <3>4. HoldsWork(Tail(ready))
      BY <3>3 DEF HoldsWork
    <3>5. QED
      BY <2>2, <3>4 DEF UnderWay
  <2>4. CASE ~ run[c].hit
    <3>1. run'[c].st = "working"
      BY <2>2, <2>4 DEF Moves, TypeOK
    <3>2. QED
      BY <2>2, <3>1 DEF UnderWay
  <2>5. QED
    BY <2>3, <2>4
<1>5. QED
  BY <1>2, <1>3, <1>4

LEMMA RuntimeStreams ==
  ASSUME TypeOK, Messages, Runs, Streams, ExecutionPlane
  PROVE  Streams'
<1>1. UNCHANGED plane
  BY DEF ExecutionPlane, Receive, BeginStart, BeginMessage, BeginRun, Enriched, RunStep,
         Completes, Fails, SaveFails, Cancelled, RunEnds
<1>2. ready \in Seq(Readies)
  BY DEF TypeOK, Readies
<1>3. ASSUME NEW c \in Chats, Enriched(c), UnderWay PROVE UnderWay'
  BY <1>2, <1>3, RegisterStreams DEF Enriched
<1>4. UnderWay => UnderWay'
  BY <1>3, ReceiveStreams, BeginStreams, RunStreams DEF ExecutionPlane
<1>5. QED
  BY <1>1, <1>4, StreamsKept DEF plane

-----------------------------------------------------------------------------
(* The invariant *)

LEMMA ChatInit == Init => ChatInv
<1> SUFFICES ASSUME Init PROVE ChatInv
  OBVIOUS
<1>1. /\ 0 \in 0..MaxLeaves /\ 0 \in 0..MaxFaults /\ MaxPending \in Nat
  BY ChatAssumption
<1>2. TypeOK
  BY <1>1 DEF Init, TypeOK, RunStates, Kinds
<1>3. /\ DOMAIN down = {} /\ DOMAIN pending = {} /\ DOMAIN ready = {} /\ DOMAIN tasks = {}
  BY DEF Init
<1>4. Messages
  BY <1>3 DEF Init, Messages, MessagesOnce, MessagesFresh, MessagesLast, Single, Carries, Keeps, Waits
<1>5. Runs
  BY <1>3 DEF Init, Runs, Tasks, TasksOnce, Active, HitReplaced, Told, OnlySupersededAreSilent, HitFollowed, Followed
<1>6. Streams
  BY DEF Init, Streams, Streaming
<1>7. QED
  BY <1>2, <1>4, <1>5, <1>6 DEF ChatInv

LEMMA ChatNext == ChatInv /\ [Next]_vars => ChatInv'
<1> SUFFICES ASSUME ChatInv, [Next]_vars PROVE ChatInv'
  OBVIOUS
<1>1. TypeOK /\ Messages /\ Runs /\ Streams /\ TasksOnce
  BY DEF ChatInv, Runs, Tasks
<1>2. CASE ControlPlane
  BY <1>1, <1>2, ControlType, ControlMessages, OtherRuns, ControlStreams DEF ChatInv
<1>3. CASE ExecutionPlane
  <2>1. TypeOK'
    BY <1>1, <1>3, ReceiveType, BeginType, RunStepType DEF ExecutionPlane
  <2>2. Messages'
    BY <1>1, <1>3, ReceiveMessages, BeginMessages DEF ExecutionPlane
  <2>3. Runs'
    BY <1>1, <1>3, OtherRuns, MessageRuns, FirstStepRuns, StepRuns DEF ExecutionPlane
  <2>4. Streams'
    BY <1>1, <1>3, RuntimeStreams
  <2>5. QED
    BY <2>1, <2>2, <2>3, <2>4 DEF ChatInv
<1>4. CASE UNCHANGED vars
  <2>1. TypeOK' /\ Streams'
    BY <1>1, <1>4 DEF vars, TypeOK, Streams, Streaming, UnderWay, HoldsWork
  <2>2. Messages'
    BY <1>1, <1>4 DEF vars, Messages, MessagesOnce, MessagesFresh, MessagesLast, Single, Carries, Keeps, Waits
  <2>3. Runs'
    BY <1>1, <1>4 DEF vars, Runs, Tasks, TasksOnce, Active, HitReplaced, Told, OnlySupersededAreSilent, HitFollowed, Followed
  <2>4. QED
    BY <2>1, <2>2, <2>3 DEF ChatInv
<1>5. QED
  BY <1>2, <1>3, <1>4 DEF Next

LEMMA ChatAlways == Spec => []ChatInv
BY ChatInit, ChatNext, PTL DEF Spec

\* A run that can still report is the task of an adapter or has been told to stop
\* (semigraph_adapter.py:447): however the starts and messages of a session interleave,
\* and however many adapters they make, no superseded run goes on untold.
THEOREM ActiveOrCancelled == Spec => []SupersededIsCancelled
<1>1. ChatInv => SupersededIsCancelled
  BY DEF ChatInv, Runs, Tasks, Active, SupersededIsCancelled
<1>2. QED
  BY <1>1, ChatAlways, PTL

\* Only a run that was replaced in its adapter ends without a word
\* (semigraph_adapter.py:478-686): the newest message of an adapter is always answered.
THEOREM NewestAnswers == Spec => []OnlySupersededAreSilent
<1>1. ChatInv => OnlySupersededAreSilent
  BY DEF ChatInv, Runs, Tasks
<1>2. QED
  BY <1>1, ChatAlways, PTL

\* While the stream of a sent message is open, something is under way that will end it:
\* a message, a task, an event, an answer being stored or a run at work, whatever the
\* client leaves behind or drops (client.py:193-217, manager.py:32-143).
THEOREM StreamsAwaited == Spec => []NoStreamForgotten
<1>1. ChatInv => NoStreamForgotten
  <2>1. HoldsWork(ready) => ready # <<>>
    BY DEF HoldsWork
  <2>2. QED
    BY <2>1 DEF ChatInv, Streams, UnderWay, NoStreamForgotten
<1>2. QED
  BY <1>1, ChatAlways, PTL

=============================================================================
