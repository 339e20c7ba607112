------------------------- MODULE CronScheduler_proofs -------------------------
(* The jobs, tasks and firings of CronScheduler, for any names, jobs and bounds. *)
EXTENDS CronScheduler, FiniteSetTheorems, SequenceTheorems, TLAPS

Jobs == [kind : Kinds, once : BOOLEAN]
Rows(k) == [version : 0..k, active : BOOLEAN, deleted : BOOLEAN]
Tasks(k) == [name : Names, version : 1..k, mark : Nat, st : {"waiting", "first", "second", "over", "dead"}]

\* The versions that may fire with nothing going wrong: their row asks for a task, or a
\* task of theirs has not fired, a cron task in this minute.
Startable(v) == \E n \in Names : Active(n) /\ row[n].version = v /\ listed[n] # v
OnceReady(v) == Startable(v) \/ \E t \in DOMAIN tasks : tasks[t].version = v /\ tasks[t].st = "waiting"
MinuteReady(v) == Startable(v) \/ \E t \in DOMAIN tasks : tasks[t].version = v /\ Live(t) /\ tasks[t].mark # minute

\* A version has fired no more than it may, and less when it may fire again.
OnceMeasured(v) ==
  versions[v].once => Len(fires[v]) <= 1 + Uncertainty /\ (OnceReady(v) => Len(fires[v]) <= Uncertainty)
MinuteMeasured(v) ==
  versions[v].kind = "cron" =>
    /\ \A m \in 1..MaxMinute : InMinute(v, m) <= 1 + Uncertainty
    /\ MinuteReady(v) => InMinute(v, minute) <= Uncertainty
Measured == \A v \in DOMAIN versions : OnceMeasured(v) /\ MinuteMeasured(v)

\* Only the configured version is under several names.
Has(n, v) == row[n].version = v \/ listed[n] = v
Owned == \A n, m \in Names, v \in 2..Len(versions) : Has(n, v) /\ Has(m, v) => n = m

\* A server that is down lists nothing, a task in its events has fired, nothing fired later
\* than now, and the first version is the configured one.
Clean == server = "down" => \A n \in Names : listed[n] = 0
Emitting(t) == tasks[t].st \in {"first", "second"}
FiredFirst == \A t \in DOMAIN tasks : Emitting(t) => fires[tasks[t].version] # <<>>
Past == \A v \in DOMAIN fires : \A i \in DOMAIN fires[v] : fires[v][i] <= minute
Configures == Len(versions) >= 1 /\ versions[1] = ConfiguredVersion

\* A row is off after its version fired or was overtaken, and its name runs no last firing
\* of another version than its own, but for what is overtaken.
SettledAt(n) ==
  /\ row[n].version # 0 /\ ~ row[n].active /\ ~ row[n].deleted => fires[row[n].version] # <<>> \/ row[n].version \in overtaken
  /\ row[n].version # 0 /\ ~ row[n].deleted /\ listed[n] # 0 /\ versions[listed[n]].once =>
       row[n].version = listed[n] \/ row[n].version \in overtaken
Settled == \A n \in Names : SettledAt(n)

CronInv ==
  /\ TypeOK /\ OneTaskPerName /\ Configures /\ Clean /\ Owned
  /\ FiredFirst /\ Past /\ Settled /\ Measured

-----------------------------------------------------------------------------
(* Sequences *)

LEMMA Within ==
  ASSUME NEW S, NEW T, NEW s \in Seq(S), \A i \in DOMAIN s : s[i] \in T
  PROVE  s \in Seq(T)
<1>1. Len(s) \in Nat /\ DOMAIN s = 1..Len(s) /\ s \in [1..Len(s) -> S]
  BY LenProperties
<1>2. s \in [1..Len(s) -> T]
  BY <1>1
<1>3. QED
  BY <1>1, <1>2, SeqDef

LEMMA IsSeq ==
  ASSUME NEW T, NEW s, NEW n \in Nat, DOMAIN s = 1..n, s = [i \in 1..n |-> s[i]], \A i \in 1..n : s[i] \in T
  PROVE  s \in Seq(T) /\ Len(s) = n
<1>1. s \in [1..n -> T]
  OBVIOUS
<1>2. s \in Seq(T)
  BY <1>1, SeqDef
<1>3. Len(s) \in Nat /\ 1..Len(s) = 1..n
  BY <1>2, LenProperties
<1>4. Len(s) <= n
  BY <1>3
<1>5. n <= Len(s)
  BY <1>3
<1>6. QED
  BY <1>2, <1>3, <1>4, <1>5

\* What Append adds is last.
LEMMA Added ==
  ASSUME NEW S, NEW s \in Seq(S), NEW e \in S, NEW t, t = Append(s, e)
  PROVE  /\ t \in Seq(S) /\ Len(t) = Len(s) + 1 /\ Len(s) \in Nat
         /\ DOMAIN t = 1..(Len(s) + 1) /\ DOMAIN s = 1..Len(s) /\ t[Len(s) + 1] = e
         /\ \A i \in DOMAIN s : i \in DOMAIN t /\ t[i] = s[i]
         /\ \A i \in DOMAIN t : i # Len(s) + 1 => i \in DOMAIN s /\ t[i] = s[i]
<1>1. /\ t \in Seq(S) /\ Len(t) = Len(s) + 1 /\ t[Len(s) + 1] = e
      /\ \A i \in 1..Len(s) : t[i] = s[i]
  BY AppendProperties
<1>2. DOMAIN t = 1..Len(t) /\ DOMAIN s = 1..Len(s) /\ Len(s) \in Nat
  BY <1>1, LenProperties
<1>3. QED
  BY <1>1, <1>2

\* One element is replaced.
LEMMA Replaced ==
  ASSUME NEW S, NEW s \in Seq(S), NEW i \in DOMAIN s, NEW e \in S, NEW t, t = [s EXCEPT ![i] = e]
  PROVE  /\ t \in Seq(S) /\ Len(t) = Len(s) /\ DOMAIN t = DOMAIN s
         /\ \A j \in DOMAIN s : t[j] = IF j = i THEN e ELSE s[j]
<1>1. Len(s) \in Nat /\ DOMAIN s = 1..Len(s) /\ s \in [1..Len(s) -> S]
  BY LenProperties
<1>2. DOMAIN t = 1..Len(s) /\ t = [j \in 1..Len(s) |-> t[j]] /\ \A j \in 1..Len(s) : t[j] \in S
  BY <1>1
<1>3. t \in Seq(S) /\ Len(t) = Len(s)
  BY <1>1, <1>2, IsSeq
<1>4. QED
  BY <1>1, <1>3

\* A sequence holds the elements of one and, after it, those of another.
LEMMA Joined ==
  ASSUME NEW T, NEW s \in Seq(T), NEW u \in Seq(T), NEW t, t = s \o u
  PROVE  /\ t \in Seq(T) /\ Len(t) = Len(s) + Len(u)
         /\ \A i \in DOMAIN t :
              \/ i \in DOMAIN s /\ t[i] = s[i]
              \/ \E j \in DOMAIN u : i = Len(s) + j /\ t[i] = u[j]
<1>1. /\ Len(s) \in Nat /\ Len(u) \in Nat /\ DOMAIN s = 1..Len(s) /\ DOMAIN u = 1..Len(u)
  BY LenProperties
<1>2. /\ t \in Seq(T) /\ Len(t) = Len(s) + Len(u)
      /\ \A i \in 1..Len(s) + Len(u) : t[i] = IF i <= Len(s) THEN s[i] ELSE u[i - Len(s)]
  BY ConcatProperties
<1>3. DOMAIN t = 1..Len(t)
  BY <1>2, LenProperties
<1>4. ASSUME NEW i \in DOMAIN t
      PROVE  \/ i \in DOMAIN s /\ t[i] = s[i]
             \/ \E j \in DOMAIN u : i = Len(s) + j /\ t[i] = u[j]
  <2>1. CASE i <= Len(s)
    BY <1>1, <1>2, <1>3, <2>1
  <2>2. CASE ~ i <= Len(s)
    <3>1. i - Len(s) \in DOMAIN u /\ i = Len(s) + (i - Len(s)) /\ t[i] = u[i - Len(s)]
      BY <1>1, <1>2, <1>3, <2>2
    <3>2. QED
      BY <3>1
  <2>3. QED
    BY <2>1, <2>2
<1>5. QED
  BY <1>2, <1>4

\* The names of a round are started once each.
LEMMA Enumerated ==
  ASSUME NEW S \in SUBSET Names
  PROVE  \E n \in Nat : /\ SetToSeq(S) \in [1..n -> S]
                        /\ \A s \in S : \E i \in 1..n : SetToSeq(S)[i] = s
                        /\ \A i, j \in 1..n : SetToSeq(S)[i] = SetToSeq(S)[j] => i = j
<1>1. IsFiniteSet(S)
  BY CronAssumption, FS_Subset
<1>2. Cardinality(S) \in Nat /\ ExistsBijection(1..Cardinality(S), S)
  BY <1>1, FS_CardinalityType
<1>3. PICK f : f \in Bijection(1..Cardinality(S), S)
  BY <1>2 DEF ExistsBijection
<1>4. f \in [1..Cardinality(S) -> S] /\ IsInjective(f)
  BY <1>3 DEF Bijection, Injection
<1>5. SetToSeq(S) \in [1..Cardinality(S) -> S] /\ IsInjective(SetToSeq(S))
  <2>1. \E g \in [1..Cardinality(S) -> S] : IsInjective(g)
    BY <1>4
  <2>2. QED
    BY <2>1 DEF SetToSeq
<1>6. \A s \in S : \E i \in 1..Cardinality(S) : SetToSeq(S)[i] = s
  <2>1. SetToSeq(S) \in Injection(1..Cardinality(S), S)
    BY <1>5 DEF Injection
  <2>2. Cardinality(1..Cardinality(S)) = Cardinality(S)
    BY <1>2, FS_Interval
  <2>3. SetToSeq(S) \in Surjection(1..Cardinality(S), S)
    BY <1>1, <2>1, <2>2, FS_Injection
  <2>4. QED
    BY <2>3 DEF Surjection
<1>7. QED
  BY <1>2, <1>5, <1>6 DEF IsInjective

-----------------------------------------------------------------------------
(* Scheduling *)

\* What the types say of the sequences.
LEMMA Sizes ==
  ASSUME TypeOK
  PROVE  /\ versions \in Seq(Jobs) /\ Len(versions) \in Nat /\ DOMAIN versions = 1..Len(versions)
         /\ \A v \in DOMAIN versions : versions[v] \in Jobs
         /\ tasks \in Seq(Tasks(Len(versions))) /\ Len(tasks) \in Nat /\ DOMAIN tasks = 1..Len(tasks)
         /\ \A t \in DOMAIN tasks : tasks[t] \in Tasks(Len(versions))
         /\ fires \in Seq(Seq(1..MaxMinute)) /\ DOMAIN fires = DOMAIN versions /\ Len(fires) = Len(versions)
         /\ \A v \in DOMAIN versions : fires[v] \in Seq(1..MaxMinute)
         /\ row \in [Names -> Rows(Len(versions))] /\ listed \in [Names -> 0..Len(versions)]
         /\ named \in [Names -> 0..Len(tasks)] /\ minute \in Nat /\ minute \in 1..MaxMinute /\ MaxMinute \in Nat
         /\ count.writes \in Nat /\ count.downs \in Nat /\ count.faults \in Nat /\ Uncertainty \in Nat
<1>1. /\ versions \in Seq(Jobs) /\ tasks \in Seq(Tasks(Len(versions))) /\ fires \in Seq(Seq(1..MaxMinute))
      /\ Len(fires) = Len(versions)
      /\ row \in [Names -> Rows(Len(versions))] /\ listed \in [Names -> 0..Len(versions)] /\ named \in [Names -> 0..Len(tasks)]
  BY DEF TypeOK, Jobs, Tasks, Rows
<1>2. /\ Len(versions) \in Nat /\ DOMAIN versions = 1..Len(versions) /\ Len(tasks) \in Nat /\ DOMAIN tasks = 1..Len(tasks)
      /\ DOMAIN fires = 1..Len(versions)
  BY <1>1, LenProperties
<1>3. /\ \A v \in DOMAIN versions : versions[v] \in Jobs /\ fires[v] \in Seq(1..MaxMinute)
      /\ \A t \in DOMAIN tasks : tasks[t] \in Tasks(Len(versions))
  BY <1>1, <1>2, ElementOfSeq
<1>4. MaxMinute \in Nat /\ minute \in 1..MaxMinute /\ minute \in Nat
  BY CronAssumption DEF TypeOK
<1>5. count.writes \in Nat /\ count.downs \in Nat /\ count.faults \in Nat
  <2>1. {MaxWrites, MaxDowns, MaxFaults} \subseteq Nat
    BY CronAssumption
  <2>2. count \in [writes : 0..MaxWrites, downs : 0..MaxDowns, faults : 0..MaxFaults]
    BY DEF TypeOK
  <2>3. QED
    BY <2>1, <2>2
<1>6. QED
  BY <1>1, <1>2, <1>3, <1>4, <1>5 DEF Uncertainty

\* A task after a round of scheduling: it was there, and if it goes on it is not one of a
\* name of the round; or it is the new one of its name.
Remains(t, names) ==
  /\ t \in DOMAIN tasks /\ tasks'[t].name = tasks[t].name /\ tasks'[t].version = tasks[t].version
  /\ \/ tasks'[t] = tasks[t] /\ (Live(t) => tasks[t].name \notin names)
     \/ tasks'[t].st = "over"
Begun(t, wanted) ==
  /\ tasks'[t].name \in DOMAIN wanted /\ tasks'[t].version = wanted[tasks'[t].name] /\ tasks'[t].st = "waiting"
  /\ named'[tasks'[t].name] = t

\* What a round asks for, with k versions, and what it leaves.
Asked(wanted, removed, k) ==
  removed \subseteq Names /\ DOMAIN wanted \subseteq Names /\ \A n \in DOMAIN wanted : wanted[n] \in 1..k
Rescheduled(wanted, removed, k) ==
  /\ tasks' \in Seq(Tasks(k)) /\ named' \in [Names -> 0..Len(tasks')] /\ listed' \in [Names -> 0..k]
  /\ \A n \in Names : listed'[n] = IF n \in DOMAIN wanted THEN wanted[n] ELSE IF n \in removed THEN 0 ELSE listed[n]
  /\ \A n \in Names \ (DOMAIN wanted \cup removed) : named'[n] = named[n]
  /\ \A t \in DOMAIN tasks' : Remains(t, DOMAIN wanted \cup removed) \/ Begun(t, wanted)

LEMMA Scheduled ==
  ASSUME TypeOK, OneTaskPerName, NEW k \in Nat, Len(versions) <= k, NEW wanted, NEW removed,
         Asked(wanted, removed, k), Schedule(wanted, removed)
  PROVE  Rescheduled(wanted, removed, k)
<1>0. removed \subseteq Names /\ DOMAIN wanted \subseteq Names /\ \A n \in DOMAIN wanted : wanted[n] \in 1..k
  BY DEF Asked
<1>1. PICK names : names = DOMAIN wanted \cup removed
  OBVIOUS
<1>2. PICK started : started = SetToSeq(DOMAIN wanted)
  OBVIOUS
<1>3. PICK kept : kept = CancelledTasks(names)
  OBVIOUS
<1>4. PICK new : new = [i \in DOMAIN started |-> NewTask(started[i], wanted[started[i]])]
  OBVIOUS
<1>5. PICK place : place = [n \in DOMAIN wanted |-> CHOOSE i \in DOMAIN started : started[i] = n]
  OBVIOUS
<1>6. /\ tasks' = kept \o new
      /\ listed' = [n \in Names |-> IF n \in DOMAIN wanted THEN wanted[n] ELSE IF n \in removed THEN 0 ELSE listed[n]]
      /\ named' = [n \in Names |-> IF n \in DOMAIN wanted THEN Len(tasks) + place[n]
                                   ELSE IF n \in removed THEN 0 ELSE named[n]]
  BY <1>1, <1>2, <1>3, <1>4, <1>5 DEF Schedule
<1>7. PICK s \in Nat : /\ started \in [1..s -> DOMAIN wanted]
                       /\ \A n \in DOMAIN wanted : \E i \in 1..s : started[i] = n
                       /\ \A i, j \in 1..s : started[i] = started[j] => i = j
  <2>1. PICK S \in SUBSET Names : S = DOMAIN wanted
    BY <1>0
  <2>2. PICK s \in Nat : /\ SetToSeq(S) \in [1..s -> S]
                         /\ \A n \in S : \E i \in 1..s : SetToSeq(S)[i] = n
                         /\ \A i, j \in 1..s : SetToSeq(S)[i] = SetToSeq(S)[j] => i = j
    BY Enumerated
  <2>3. started = SetToSeq(S)
    BY <1>2, <2>1
  <2>4. QED
    BY <2>1, <2>2, <2>3
<1>8. /\ \A n \in DOMAIN wanted : place[n] \in 1..s /\ started[place[n]] = n
      /\ \A i \in 1..s : place[started[i]] = i
  <2>1. DOMAIN started = 1..s
    BY <1>7
  <2>2. ASSUME NEW n \in DOMAIN wanted PROVE place[n] \in 1..s /\ started[place[n]] = n
    <3>1. \E i \in DOMAIN started : started[i] = n
      BY <1>7, <2>1
    <3>2. QED
      BY <1>5, <2>1, <3>1
  <2>3. ASSUME NEW i \in 1..s PROVE place[started[i]] = i
    <3>1. started[i] \in DOMAIN wanted
      BY <1>7
    <3>2. QED
      BY <1>7, <2>2, <3>1
  <2>4. QED
    BY <2>2, <2>3
<1>9. /\ new \in Seq(Tasks(k)) /\ Len(new) = s /\ DOMAIN new = 1..s
      /\ \A i \in 1..s : /\ new[i].name = started[i] /\ new[i].version = wanted[started[i]] /\ new[i].st = "waiting"
  <2>1. ASSUME NEW i \in 1..s
        PROVE  /\ new[i] \in Tasks(k) /\ new[i].name = started[i] /\ new[i].version = wanted[started[i]]
               /\ new[i].st = "waiting"
    <3>1. PICK mark \in Nat : mark = IF versions'[wanted[started[i]]].kind = "cron" THEN 0 ELSE minute + 1
      <4>1. minute + 1 \in Nat
        BY Sizes
      <4>2. QED
        BY <4>1
    <3>2. new[i] = [name |-> started[i], version |-> wanted[started[i]], st |-> "waiting", mark |-> mark]
      BY <1>4, <1>7, <3>1 DEF NewTask
    <3>3. started[i] \in Names /\ wanted[started[i]] \in 1..k
      BY <1>0, <1>7
    <3>4. QED
      BY <3>2, <3>3 DEF Tasks
  <2>2. DOMAIN new = 1..s /\ new = [i \in 1..s |-> new[i]]
    BY <1>4, <1>7
  <2>3. QED
    BY <2>1, <2>2, IsSeq
<1>10. /\ kept \in Seq(Tasks(k)) /\ Len(kept) = Len(tasks) /\ DOMAIN kept = DOMAIN tasks
       /\ \A t \in DOMAIN tasks :
            /\ kept[t].name = tasks[t].name /\ kept[t].version = tasks[t].version
            /\ \/ kept[t] = tasks[t] /\ (Live(t) => tasks[t].name \notin names)
               \/ kept[t].st = "over"
  <2>1. ASSUME NEW t \in DOMAIN tasks
        PROVE  /\ kept[t] \in Tasks(k) /\ kept[t].name = tasks[t].name /\ kept[t].version = tasks[t].version
               /\ \/ kept[t] = tasks[t] /\ (Live(t) => tasks[t].name \notin names)
                  \/ kept[t].st = "over"
    <3>1. tasks[t] \in Tasks(k)
      <4>1. tasks[t] \in Tasks(Len(versions)) /\ Len(versions) \in Nat
        BY Sizes
      <4>2. QED
        BY <4>1 DEF Tasks
    <3>2. CASE Live(t) /\ t \in {named[n] : n \in names}
      <4>1. kept[t] = [tasks[t] EXCEPT !.st = "over", !.mark = 0]
        BY <1>3, <3>2 DEF CancelledTasks
      <4>2. kept[t] = [name |-> tasks[t].name, version |-> tasks[t].version, st |-> "over", mark |-> 0]
        BY <3>1, <4>1 DEF Tasks
      <4>3. tasks[t].name \in Names /\ tasks[t].version \in 1..k
        BY <3>1 DEF Tasks
      <4>4. QED
        BY <4>2, <4>3 DEF Tasks
    <3>3. CASE ~ (Live(t) /\ t \in {named[n] : n \in names})
      <4>1. kept[t] = tasks[t]
        BY <1>3, <3>3 DEF CancelledTasks
      <4>2. Live(t) => tasks[t].name \notin names
        BY <3>3 DEF OneTaskPerName
      <4>3. QED
        BY <3>1, <4>1, <4>2
    <3>4. QED
      BY <3>2, <3>3
  <2>2. DOMAIN kept = 1..Len(tasks) /\ Len(tasks) \in Nat /\ kept = [t \in 1..Len(tasks) |-> kept[t]] /\ DOMAIN tasks = 1..Len(tasks)
    BY <1>3, Sizes DEF CancelledTasks
  <2>3. QED
    BY <2>1, <2>2, IsSeq
<1>11. /\ tasks' \in Seq(Tasks(k)) /\ Len(tasks') = Len(tasks) + s /\ Len(tasks) \in Nat
       /\ \A t \in DOMAIN tasks' :
            \/ t \in DOMAIN tasks /\ tasks'[t] = kept[t]
            \/ \E i \in 1..s : t = Len(tasks) + i /\ tasks'[t] = new[i]
  <2>1. PICK joined : joined = tasks'
    OBVIOUS
  <2>2. joined = kept \o new
    BY <1>6, <2>1
  <2>3. kept \in Seq(Tasks(k)) /\ new \in Seq(Tasks(k))
    BY <1>9, <1>10
  <2>4. /\ joined \in Seq(Tasks(k)) /\ Len(joined) = Len(kept) + Len(new)
        /\ \A t \in DOMAIN joined :
             \/ t \in DOMAIN kept /\ joined[t] = kept[t]
             \/ \E i \in DOMAIN new : t = Len(kept) + i /\ joined[t] = new[i]
    BY <2>2, <2>3, Joined
  <2>5. Len(kept) = Len(tasks) /\ DOMAIN kept = DOMAIN tasks /\ Len(new) = s /\ DOMAIN new = 1..s /\ Len(tasks) \in Nat
    BY <1>9, <1>10, Sizes
  <2>6. QED
    BY <2>1, <2>4, <2>5
<1>12. named' \in [Names -> 0..Len(tasks')]
  <2>1. ASSUME NEW n \in Names PROVE named'[n] \in 0..Len(tasks')
    <3>1. CASE n \in DOMAIN wanted
      <4>1. named'[n] = Len(tasks) + place[n] /\ place[n] \in 1..s
        BY <1>6, <1>8, <3>1
      <4>2. QED
        BY <1>11, <4>1
    <3>2. CASE n \notin DOMAIN wanted
      <4>1. named'[n] = 0 \/ named'[n] = named[n]
        BY <1>6, <3>2
      <4>2. named[n] \in 0..Len(tasks)
        BY Sizes
      <4>3. QED
        BY <1>11, <4>1, <4>2
    <3>3. QED
      BY <3>1, <3>2
  <2>2. QED
    BY <1>6, <2>1
<1>13. listed' \in [Names -> 0..k]
  <2>1. \A n \in Names : listed[n] \in 0..k
    <3>1. listed \in [Names -> 0..Len(versions)] /\ Len(versions) \in Nat
      BY Sizes
    <3>2. QED
      BY <3>1
  <2>2. 0 \in 0..k /\ \A n \in DOMAIN wanted : wanted[n] \in 0..k
    BY <1>0
  <2>3. QED
    BY <1>6, <2>1, <2>2
<1>14. ASSUME NEW t \in DOMAIN tasks'
       PROVE  Remains(t, names) \/ Begun(t, wanted)
  <2>1. CASE t \in DOMAIN tasks /\ tasks'[t] = kept[t]
    BY <1>10, <2>1 DEF Remains
  <2>2. ASSUME NEW i \in 1..s, t = Len(tasks) + i, tasks'[t] = new[i]
        PROVE  Begun(t, wanted)
    <3>1. started[i] \in DOMAIN wanted /\ started[i] \in Names /\ place[started[i]] = i
      BY <1>0, <1>7, <1>8
    <3>2. named'[started[i]] = t
      BY <1>6, <2>2, <3>1
    <3>3. QED
      BY <1>9, <2>2, <3>1, <3>2 DEF Begun
  <2>3. QED
    BY <1>11, <2>1, <2>2
<1>15. QED
  BY <1>1, <1>6, <1>11, <1>12, <1>13, <1>14 DEF Rescheduled

-----------------------------------------------------------------------------
(* Firings *)

Times(s, m) == Cardinality({i \in DOMAIN s : s[i] = m})

LEMMA TimesCounted ==
  ASSUME NEW S, NEW s \in Seq(S), NEW m
  PROVE  Times(s, m) \in Nat /\ IsFiniteSet({i \in DOMAIN s : s[i] = m})
<1>1. Len(s) \in Nat /\ DOMAIN s = 1..Len(s)
  BY LenProperties
<1>2. IsFiniteSet(1..Len(s))
  BY <1>1, FS_Interval
<1>3. IsFiniteSet({i \in DOMAIN s : s[i] = m})
  BY <1>1, <1>2, FS_Subset
<1>4. QED
  BY <1>3, FS_CardinalityType DEF Times

LEMMA TimesNone ==
  ASSUME NEW s, NEW m, \A i \in DOMAIN s : s[i] # m
  PROVE  Times(s, m) = 0
<1>1. {i \in DOMAIN s : s[i] = m} = {}
  OBVIOUS
<1>2. QED
  BY <1>1, FS_EmptySet DEF Times

LEMMA TimesAdded ==
  ASSUME NEW S, NEW s \in Seq(S), NEW e \in S, NEW m, NEW t, t = Append(s, e)
  PROVE  Times(t, m) <= Times(s, m) + 1 /\ (e # m => Times(t, m) <= Times(s, m))
<1>1. PICK was : was = {i \in DOMAIN s : s[i] = m}
  OBVIOUS
<1>2. PICK is : is = {i \in DOMAIN t : t[i] = m}
  OBVIOUS
<1>3. /\ t[Len(s) + 1] = e /\ Len(s) + 1 \in DOMAIN t
      /\ \A i \in DOMAIN s : i \in DOMAIN t /\ t[i] = s[i]
      /\ \A i \in DOMAIN t : i # Len(s) + 1 => i \in DOMAIN s /\ t[i] = s[i]
  <2>1. Len(s) \in Nat /\ DOMAIN t = 1..(Len(s) + 1)
    BY Added
  <2>2. QED
    BY <2>1, Added
<1>4. IsFiniteSet(was) /\ Cardinality(was) \in Nat /\ Cardinality(was) = Times(s, m) /\ Cardinality(is) = Times(t, m)
  BY <1>1, <1>2, TimesCounted DEF Times
<1>5. CASE e = m
  <2>1. is = was \cup {Len(s) + 1}
    BY <1>1, <1>2, <1>3, <1>5
  <2>2. Cardinality(is) <= Cardinality(was) + 1
    <3>1. Cardinality(was \cup {Len(s) + 1}) = IF Len(s) + 1 \in was THEN Cardinality(was) ELSE Cardinality(was) + 1
      BY <1>4, FS_AddElement
    <3>2. QED
      BY <1>4, <2>1, <3>1
  <2>3. QED
    BY <1>4, <1>5, <2>2
<1>6. CASE e # m
  <2>1. is = was
    BY <1>1, <1>2, <1>3, <1>6
  <2>2. QED
    BY <1>4, <2>1
<1>7. QED
  BY <1>5, <1>6

-----------------------------------------------------------------------------
(* What a step leaves of the invariant, part by part *)

\* The versions and firings of a step that fires nothing: at most one version is added.
Grown ==
  /\ versions' \in Seq(Jobs) /\ Len(versions') \in {Len(versions), Len(versions) + 1}
  /\ fires' \in Seq(Seq(1..MaxMinute)) /\ Len(fires') = Len(versions')
  /\ \A v \in 1..Len(versions) : versions'[v] = versions[v] /\ fires'[v] = fires[v]
  /\ Len(versions') = Len(versions) + 1 => fires'[Len(versions) + 1] = <<>>

LEMMA GrowsBy ==
  ASSUME TypeOK, (versions' = versions /\ fires' = fires) \/ \E c \in Contents : Written(c)
  PROVE  Grown
<1>1. CASE versions' = versions /\ fires' = fires
  <2>1. /\ versions' \in Seq(Jobs) /\ Len(versions') = Len(versions) /\ fires' \in Seq(Seq(1..MaxMinute))
        /\ Len(fires') = Len(versions') /\ Len(versions) \in Nat
    BY <1>1, Sizes
  <2>2. \A v \in 1..Len(versions) : versions'[v] = versions[v] /\ fires'[v] = fires[v]
    BY <1>1
  <2>3. Len(versions') # Len(versions) + 1
    BY <2>1
  <2>4. QED
    BY <2>1, <2>2, <2>3 DEF Grown
<1>2. ASSUME NEW c \in Contents, Written(c) PROVE Grown
  <2>1. versions' = Append(versions, c) /\ fires' = Append(fires, <<>>)
    BY <1>2 DEF Written
  <2>2. c \in Jobs /\ <<>> \in Seq(1..MaxMinute) /\ versions \in Seq(Jobs) /\ fires \in Seq(Seq(1..MaxMinute))
    BY CronAssumption, Sizes, EmptySeq DEF Jobs
  <2>3. /\ versions' \in Seq(Jobs) /\ Len(versions') = Len(versions) + 1
        /\ \A v \in 1..Len(versions) : versions'[v] = versions[v]
    <3>1. PICK new : new = versions'
      OBVIOUS
    <3>2. /\ new \in Seq(Jobs) /\ Len(new) = Len(versions) + 1
          /\ \A i \in DOMAIN versions : i \in DOMAIN new /\ new[i] = versions[i]
      BY <2>1, <2>2, <3>1, Added
    <3>3. DOMAIN versions = 1..Len(versions)
      BY Sizes
    <3>4. QED
      BY <3>1, <3>2, <3>3
  <2>4. /\ fires' \in Seq(Seq(1..MaxMinute)) /\ Len(fires') = Len(versions) + 1 /\ fires'[Len(versions) + 1] = <<>>
        /\ \A v \in 1..Len(versions) : fires'[v] = fires[v]
    <3>1. PICK new : new = fires'
      OBVIOUS
    <3>2. PICK S : S = Seq(1..MaxMinute)
      OBVIOUS
    <3>3. /\ new \in Seq(S) /\ Len(new) = Len(fires) + 1 /\ new[Len(fires) + 1] = <<>>
          /\ \A i \in DOMAIN fires : i \in DOMAIN new /\ new[i] = fires[i]
      BY <2>1, <2>2, <3>1, <3>2, Added
    <3>4. DOMAIN fires = 1..Len(versions) /\ Len(fires) = Len(versions)
      BY Sizes
    <3>5. QED
      BY <3>1, <3>2, <3>3, <3>4
  <2>5. QED
    BY <2>3, <2>4 DEF Grown
<1>3. QED
  BY <1>1, <1>2

\* The numbers of the versions after a step.
LEMMA Numbers ==
  ASSUME TypeOK, Grown
  PROVE  /\ Len(versions) \in Nat /\ Len(versions') \in Nat /\ Len(versions) <= Len(versions')
         /\ DOMAIN versions = 1..Len(versions) /\ DOMAIN fires = 1..Len(versions)
         /\ DOMAIN versions' = 1..Len(versions') /\ DOMAIN fires' = 1..Len(versions')
         /\ \A v \in 1..Len(versions) : v \in 1..Len(versions')
         /\ \A v \in 1..Len(versions') : v \in 1..Len(versions) \/ (v = Len(versions) + 1 /\ fires'[v] = <<>>)
<1>1. Len(versions) \in Nat /\ DOMAIN versions = 1..Len(versions) /\ DOMAIN fires = 1..Len(versions)
  BY Sizes
<1>2. Len(versions') \in Nat /\ Len(versions) <= Len(versions')
  BY <1>1 DEF Grown
<1>3. DOMAIN versions' = 1..Len(versions') /\ DOMAIN fires' = 1..Len(versions')
  BY LenProperties DEF Grown
<1>4. ASSUME NEW v \in 1..Len(versions') PROVE v \in 1..Len(versions) \/ (v = Len(versions) + 1 /\ fires'[v] = <<>>)
  <2>1. CASE Len(versions') = Len(versions)
    BY <2>1
  <2>2. CASE Len(versions') = Len(versions) + 1
    BY <1>1, <2>2 DEF Grown
  <2>3. QED
    BY <2>1, <2>2 DEF Grown
<1>5. \A v \in 1..Len(versions) : v \in 1..Len(versions')
  BY <1>1, <1>2
<1>6. QED
  BY <1>1, <1>2, <1>3, <1>4, <1>5

LEMMA ConfiguresStays == ASSUME CronInv, Grown PROVE Configures'
BY Numbers DEF CronInv, Configures, Grown

LEMMA PastStays == ASSUME CronInv, Grown, minute' \in Nat, minute <= minute' PROVE Past'
<1>1. minute \in Nat /\ \A v \in 1..Len(versions) : fires[v] \in Seq(1..MaxMinute)
  BY Sizes DEF CronInv
<1>2. ASSUME NEW v \in DOMAIN fires', NEW i \in DOMAIN fires'[v] PROVE fires'[v][i] <= minute'
  <2>1. CASE v \in 1..Len(versions)
    <3>1. PICK f : f = fires[v]
      OBVIOUS
    <3>2. f \in Seq(1..MaxMinute) /\ fires'[v] = f /\ i \in DOMAIN f
      BY <1>1, <2>1, <3>1 DEF Grown
    <3>3. f[i] \in 1..MaxMinute /\ f[i] <= minute
      BY <2>1, <3>1, <3>2, Numbers, ElementOfSeq, LenProperties DEF CronInv, Past
    <3>4. MaxMinute \in Nat
      BY CronAssumption
    <3>5. QED
      BY <1>1, <3>2, <3>3, <3>4
  <2>2. CASE fires'[v] = <<>>
    BY <2>2
  <2>3. QED
    BY <2>1, <2>2, Numbers DEF CronInv
<1>3. QED
  BY <1>2 DEF Past

LEMMA FiredStays ==
  ASSUME CronInv, Grown,
         \A t \in DOMAIN tasks' : Emitting(t)' =>
           \E u \in DOMAIN tasks : Emitting(u) /\ tasks[u].version = tasks'[t].version
  PROVE  FiredFirst'
<1>1. ASSUME NEW t \in DOMAIN tasks', Emitting(t)' PROVE fires'[tasks'[t].version] # <<>>
  <2>1. PICK u \in DOMAIN tasks : Emitting(u) /\ tasks[u].version = tasks'[t].version
    BY <1>1
  <2>2. tasks[u].version \in 1..Len(versions) /\ fires[tasks[u].version] # <<>>
    BY <2>1, Sizes DEF CronInv, FiredFirst, Tasks
  <2>3. QED
    BY <2>1, <2>2 DEF Grown
<1>2. QED
  BY <1>1 DEF FiredFirst

\* Only one name gets the new version, and a name otherwise only what it has.
RowsTake(n0) == \A n \in Names : row'[n].version = row[n].version \/ (n = n0 /\ row'[n].version = Len(versions) + 1)
ListTakes(n0) ==
  \A n \in Names : listed'[n] \in {0, 1, listed[n], row[n].version} \/ (n = n0 /\ listed'[n] = Len(versions) + 1)

LEMMA OwnedStays ==
  ASSUME CronInv, Grown, NEW n0, RowsTake(n0), ListTakes(n0)
  PROVE  Owned'
<1>1. /\ Len(versions) \in Nat /\ Len(versions') \in Nat /\ Len(versions) <= Len(versions')
      /\ \A v \in 1..Len(versions') : v \in 1..Len(versions) \/ v = Len(versions) + 1
  BY Numbers DEF CronInv
<1>2. \A n \in Names : row[n].version \in 0..Len(versions) /\ listed[n] \in 0..Len(versions)
  BY Sizes DEF CronInv, Rows
<1>3. ASSUME NEW n \in Names, NEW v \in 2..Len(versions'), row'[n].version = v \/ listed'[n] = v
      PROVE  IF v <= Len(versions) THEN v \in 2..Len(versions) /\ Has(n, v) ELSE n = n0
  <2>1. CASE v <= Len(versions)
    <3>1. v # Len(versions) + 1 /\ v # 0 /\ v # 1 /\ v \in 2..Len(versions)
      BY <1>1, <2>1
    <3>2. Has(n, v)
      BY <1>3, <3>1 DEF Has, RowsTake, ListTakes
    <3>3. QED
      BY <2>1, <3>1, <3>2
  <2>2. CASE ~ (v <= Len(versions))
    <3>1. v # 0 /\ v # 1 /\ row[n].version # v /\ listed[n] # v
      BY <1>1, <1>2, <2>2
    <3>2. n = n0
      BY <1>3, <3>1 DEF RowsTake, ListTakes
    <3>3. QED
      BY <2>2, <3>2
  <2>3. QED
    BY <2>1, <2>2
<1>4. ASSUME NEW n \in Names, NEW m \in Names, NEW v \in 2..Len(versions'), Has(n, v)', Has(m, v)' PROVE n = m
  <2>1. /\ IF v <= Len(versions) THEN v \in 2..Len(versions) /\ Has(n, v) ELSE n = n0
        /\ IF v <= Len(versions) THEN v \in 2..Len(versions) /\ Has(m, v) ELSE m = n0
    BY <1>3, <1>4 DEF Has
  <2>2. QED
    BY <2>1 DEF CronInv, Owned
<1>5. QED
  BY <1>4 DEF Owned

\* A name whose row stays and that starts nothing but its row, or a job fired many times.
LEMMA SettledStays ==
  ASSUME CronInv, Grown, NEW n \in Names, row'[n] = row[n], overtaken \subseteq overtaken',
         \/ listed'[n] \in {0, listed[n], row[n].version} \/ row[n].deleted
         \/ listed'[n] \in 1..Len(versions) /\ ~ versions[listed'[n]].once
  PROVE  SettledAt(n)'
<1>1. SettledAt(n) /\ row[n].version \in 0..Len(versions) /\ listed[n] \in 0..Len(versions) /\ Len(versions) \in Nat
  BY Sizes DEF CronInv, Settled, Rows
<1>2. row[n].version # 0 => row[n].version \in 1..Len(versions)
  BY <1>1
<1>3. listed[n] # 0 => listed[n] \in 1..Len(versions)
  BY <1>1
<1>4. row[n].version # 0 => fires'[row[n].version] = fires[row[n].version]
  BY <1>2 DEF Grown
<1>5. \A v \in 1..Len(versions) : versions'[v] = versions[v]
  BY DEF Grown
<1>6. QED
  BY <1>1, <1>3, <1>4, <1>5 DEF SettledAt

\* No version fires and none gets ready again, or something went wrong once more.
LEMMA MeasuredStays ==
  ASSUME CronInv, Grown, minute' = minute, Uncertainty' \in {Uncertainty, Uncertainty + 1},
         \/ Uncertainty' = Uncertainty + 1
         \/ \A v \in 1..Len(versions) : /\ versions[v].once /\ OnceReady(v)' => OnceReady(v)
                                        /\ versions[v].kind = "cron" /\ MinuteReady(v)' => MinuteReady(v)
  PROVE  Measured'
<1>1. /\ Uncertainty \in Nat /\ Uncertainty' \in Nat /\ Uncertainty <= Uncertainty'
  BY Sizes DEF CronInv
<1>2. ASSUME NEW v \in 1..Len(versions) PROVE OnceMeasured(v)' /\ MinuteMeasured(v)'
  <2>1. OnceMeasured(v) /\ MinuteMeasured(v) /\ versions'[v] = versions[v] /\ fires'[v] = fires[v]
    BY <1>2, Numbers DEF CronInv, Measured, Grown
  <2>2. Len(fires[v]) \in Nat /\ \A m : InMinute(v, m) \in Nat /\ InMinute(v, m)' = InMinute(v, m)
    <3>1. fires[v] \in Seq(1..MaxMinute)
      BY Sizes DEF CronInv
    <3>2. QED
      BY <2>1, <3>1, TimesCounted, LenProperties DEF InMinute, Times
  <2>3. OnceMeasured(v)'
    <3> SUFFICES ASSUME versions[v].once
                 PROVE  Len(fires[v]) <= 1 + Uncertainty' /\ (OnceReady(v)' => Len(fires[v]) <= Uncertainty')
      BY <2>1 DEF OnceMeasured
    <3>1. Len(fires[v]) <= 1 + Uncertainty /\ (OnceReady(v) => Len(fires[v]) <= Uncertainty)
      BY <2>1 DEF OnceMeasured
    <3>2. QED
      BY <1>1, <2>2, <3>1
  <2>4. MinuteMeasured(v)'
    <3> SUFFICES ASSUME versions[v].kind = "cron"
                 PROVE  /\ \A m \in 1..MaxMinute : InMinute(v, m) <= 1 + Uncertainty'
                        /\ MinuteReady(v)' => InMinute(v, minute) <= Uncertainty'
      BY <2>1, <2>2 DEF MinuteMeasured
    <3>1. \A m \in 1..MaxMinute : InMinute(v, m) <= 1 + Uncertainty
      BY <2>1 DEF MinuteMeasured
    <3>2. MinuteReady(v) => InMinute(v, minute) <= Uncertainty
      BY <2>1 DEF MinuteMeasured
    <3>3. \A m \in 1..MaxMinute : InMinute(v, m) <= 1 + Uncertainty'
      BY <1>1, <2>2, <3>1
    <3>4. minute \in 1..MaxMinute /\ InMinute(v, minute) \in Nat
      BY <2>2, Sizes DEF CronInv
    <3>5. MinuteReady(v)' => InMinute(v, minute) <= Uncertainty'
      BY <1>1, <3>1, <3>2, <3>4
    <3>6. QED
      BY <3>3, <3>5
  <2>5. QED
    BY <2>3, <2>4
<1>3. ASSUME NEW v \in 1..Len(versions'), fires'[v] = <<>> PROVE OnceMeasured(v)' /\ MinuteMeasured(v)'
  <2>1. PICK z : z = Uncertainty' /\ 0 <= z /\ 0 <= 1 + z
    BY <1>1
  <2>2. Len(<<>>) <= 1 + z /\ Len(<<>>) <= z
    BY <2>1
  <2>3. OnceMeasured(v)'
    BY <1>3, <2>1, <2>2, Zenon DEF OnceMeasured
  <2>4. \A m : Times(<<>>, m) = 0
    BY TimesNone
  <2>5. \A m : Times(<<>>, m) <= 1 + z /\ Times(<<>>, m) <= z
    BY <2>1, <2>4
  <2>6. MinuteMeasured(v)'
    BY <1>3, <2>1, <2>5, Zenon DEF MinuteMeasured, InMinute, Times
  <2>7. QED
    BY <2>3, <2>6
<1>4. QED
  BY <1>2, <1>3, Numbers DEF CronInv, Measured

-----------------------------------------------------------------------------
(* Rounds of scheduling *)

Counts == [writes : 0..MaxWrites, downs : 0..MaxDowns, faults : 0..MaxFaults]

\* What is started is the configured job, the new version, or one whose row asks for a task;
\* and a row that asks for a task afterwards has done so before.
Starts(wanted, n0) ==
  \A n \in DOMAIN wanted : wanted[n] \in {1, row[n].version} \/ (n = n0 /\ wanted[n] = Len(versions) + 1)
OnlyReady(wanted) ==
  \A n \in DOMAIN wanted : \/ wanted[n] \in {1, Len(versions) + 1}
                           \/ wanted[n] = row[n].version /\ Active(n) /\ listed[n] # row[n].version
StillReady(wanted, removed) ==
  \A n \in Names : row'[n].active /\ ~ row'[n].deleted /\ row'[n].version \in 1..Len(versions) =>
    row'[n] = row[n] /\ n \notin removed /\ (n \in DOMAIN wanted => listed[n] # row[n].version)

LEMMA ScheduleStep ==
  ASSUME CronInv, Grown, minute' = minute, server' \in {"synced", "unsynced"},
         row' \in [Names -> Rows(Len(versions'))], overtaken' \subseteq 0..Len(versions'),
         count' \in Counts, Uncertainty' \in {Uncertainty, Uncertainty + 1},
         NEW wanted, NEW removed, NEW n0, Asked(wanted, removed, Len(versions')), Schedule(wanted, removed),
         Starts(wanted, n0), RowsTake(n0), Settled',
         Uncertainty' = Uncertainty + 1 \/ (OnlyReady(wanted) /\ StillReady(wanted, removed))
  PROVE  CronInv'
<1>1. TypeOK /\ OneTaskPerName /\ Len(versions') \in Nat /\ Len(versions) <= Len(versions') /\ Len(versions) \in Nat
  BY Numbers DEF CronInv
<1>2. PICK names : names = DOMAIN wanted \cup removed
  OBVIOUS
<1>3. /\ tasks' \in Seq(Tasks(Len(versions'))) /\ named' \in [Names -> 0..Len(tasks')] /\ listed' \in [Names -> 0..Len(versions')]
      /\ \A n \in Names : listed'[n] = IF n \in DOMAIN wanted THEN wanted[n] ELSE IF n \in removed THEN 0 ELSE listed[n]
      /\ \A n \in Names \ names : named'[n] = named[n]
      /\ \A t \in DOMAIN tasks' : Remains(t, names) \/ Begun(t, wanted)
  <2>1. Rescheduled(wanted, removed, Len(versions'))
    BY <1>1, Scheduled
  <2>2. QED
    BY <1>2, <2>1 DEF Rescheduled
<1>4. TypeOK'
  <2>1. minute \in 1..MaxMinute
    BY <1>1, Sizes
  <2>2. QED
    BY <1>3, <2>1 DEF TypeOK, Jobs, Rows, Tasks, Grown, Counts
<1>5. OneTaskPerName'
  <2>1. ASSUME NEW t \in DOMAIN tasks', Live(t)'
        PROVE  named'[tasks'[t].name] = t /\ listed'[tasks'[t].name] = tasks'[t].version
    <3>1. tasks'[t].st # "over"
      BY <2>1 DEF Live
    <3>2. CASE Begun(t, wanted)
      <4>1. PICK n : n = tasks'[t].name
        OBVIOUS
      <4>2. n \in DOMAIN wanted /\ n \in Names /\ tasks'[t].version = wanted[n] /\ named'[n] = t
        BY <3>2, <4>1 DEF Begun, Asked
      <4>3. listed'[n] = wanted[n]
        BY <1>3, <4>2
      <4>4. QED
        BY <4>1, <4>2, <4>3
    <3>3. CASE Remains(t, names)
      <4>1. t \in DOMAIN tasks /\ tasks'[t] = tasks[t] /\ Live(t) /\ tasks[t].name \notin names
        BY <2>1, <3>1, <3>3 DEF Remains, Live
      <4>2. named[tasks[t].name] = t /\ listed[tasks[t].name] = tasks[t].version /\ tasks[t].name \in Names
        BY <1>1, <4>1, Sizes DEF OneTaskPerName, Tasks
      <4>3. QED
        BY <1>2, <1>3, <4>1, <4>2
    <3>4. QED
      BY <1>3, <3>2, <3>3
  <2>2. QED
    BY <2>1 DEF OneTaskPerName
<1>6. Clean'
  BY DEF Clean
<1>7. Owned'
  <2>1. ListTakes(n0)
    BY <1>3 DEF ListTakes, Starts
  <2>2. QED
    BY <2>1, OwnedStays
<1>8. FiredFirst'
  <2>1. ASSUME NEW t \in DOMAIN tasks', Emitting(t)'
        PROVE  \E u \in DOMAIN tasks : Emitting(u) /\ tasks[u].version = tasks'[t].version
    <3>1. ~ Begun(t, wanted) /\ tasks'[t].st # "over"
      BY <2>1 DEF Begun, Emitting
    <3>2. Remains(t, names)
      BY <1>3, <3>1
    <3>3. QED
      BY <2>1, <3>1, <3>2 DEF Remains, Emitting
  <2>2. QED
    BY <2>1, FiredStays
<1>9. Measured'
  <2>1. CASE Uncertainty' = Uncertainty + 1
    BY <2>1, MeasuredStays
  <2>2. CASE OnlyReady(wanted) /\ StillReady(wanted, removed)
    <3>1. ASSUME NEW v \in 1..Len(versions), v # 1
          PROVE  (OnceReady(v)' => OnceReady(v)) /\ (MinuteReady(v)' => MinuteReady(v))
      <4>1. v # Len(versions) + 1 /\ v # 0
        BY <1>1
      <4>2. Startable(v)' => Startable(v)
        <5> SUFFICES ASSUME NEW n \in Names, Active(n)', row'[n].version = v, listed'[n] # v
                     PROVE  Startable(v)
          BY DEF Startable
        <5>1. row'[n] = row[n] /\ n \notin removed /\ (n \in DOMAIN wanted => listed[n] # row[n].version)
          BY <2>2 DEF Active, StillReady
        <5>2. listed[n] # v
          BY <1>3, <5>1
        <5>3. QED
          BY <5>1, <5>2 DEF Startable, Active
      <4>3. ASSUME NEW t \in DOMAIN tasks', Begun(t, wanted), tasks'[t].version = v
            PROVE  Startable(v)
        <5>1. PICK n \in Names : n \in DOMAIN wanted /\ wanted[n] = v
          BY <4>3 DEF Begun, Asked
        <5>2. wanted[n] = row[n].version /\ Active(n) /\ listed[n] # row[n].version
          BY <2>2, <3>1, <4>1, <5>1 DEF OnlyReady
        <5>3. QED
          BY <5>1, <5>2 DEF Startable
      <4>4. OnceReady(v)' => OnceReady(v)
        <5>1. ASSUME NEW t \in DOMAIN tasks', tasks'[t].version = v, tasks'[t].st = "waiting"
              PROVE  OnceReady(v)
          <6>1. CASE Begun(t, wanted)
            BY <4>3, <5>1, <6>1 DEF OnceReady
          <6>2. CASE Remains(t, names)
            BY <5>1, <6>2 DEF OnceReady, Remains
          <6>3. QED
            BY <1>3, <6>1, <6>2
        <5>2. QED
          BY <4>2, <5>1 DEF OnceReady
      <4>5. MinuteReady(v)' => MinuteReady(v)
        <5>1. ASSUME NEW t \in DOMAIN tasks', tasks'[t].version = v, Live(t)', tasks'[t].mark # minute
              PROVE  MinuteReady(v)
          <6>1. CASE Begun(t, wanted)
            BY <4>3, <5>1, <6>1 DEF MinuteReady
          <6>2. CASE Remains(t, names)
            BY <5>1, <6>2 DEF MinuteReady, Remains, Live
          <6>3. QED
            BY <1>3, <6>1, <6>2
        <5>2. QED
          BY <4>2, <5>1 DEF MinuteReady
      <4>6. QED
        BY <4>4, <4>5
    <3>2. ~ versions[1].once /\ versions[1].kind # "cron"
      BY DEF CronInv, Configures, ConfiguredVersion
    <3>3. QED
      BY <3>1, <3>2, MeasuredStays
  <2>3. QED
    BY <2>1, <2>2
<1>10. Configures' /\ Past'
  BY <1>1, ConfiguresStays, PastStays, Sizes
<1>11. QED
  BY <1>4, <1>5, <1>6, <1>7, <1>8, <1>9, <1>10 DEF CronInv

LEMMA Listing ==
  ASSUME NEW wanted, NEW removed, Schedule(wanted, removed), NEW n \in Names
  PROVE  listed'[n] = IF n \in DOMAIN wanted THEN wanted[n] ELSE IF n \in removed THEN 0 ELSE listed[n]
BY DEF Schedule

\* The rows, and the uncertainty of the counters.
LEMMA RowFacts ==
  ASSUME CronInv
  PROVE  /\ TypeOK /\ Len(versions) \in Nat /\ 1 \in 1..Len(versions)
         /\ versions[1] = ConfiguredVersion /\ ~ versions[1].once
         /\ row \in [Names -> Rows(Len(versions))] /\ overtaken \subseteq 0..Len(versions) /\ count \in Counts
         /\ \A n \in Names : row[n].version \in 0..Len(versions)
         /\ \A n \in Names : Active(n) => row[n].version \in 1..Len(versions)
<1>1. /\ TypeOK /\ Len(versions) \in Nat /\ Len(versions) >= 1 /\ versions[1] = ConfiguredVersion
      /\ row \in [Names -> Rows(Len(versions))] /\ overtaken \subseteq 0..Len(versions) /\ count \in Counts
  BY Sizes DEF CronInv, Configures, TypeOK, Counts
<1>2. \A n \in Names : row[n].version \in 0..Len(versions)
  BY <1>1 DEF Rows
<1>3. \A n \in Names : Active(n) => row[n].version \in 1..Len(versions)
  BY <1>1, <1>2 DEF Active
<1>4. 1 \in 1..Len(versions) /\ ~ versions[1].once
  BY <1>1 DEF ConfiguredVersion
<1>5. QED
  BY <1>1, <1>2, <1>3, <1>4

LEMMA CountsStay ==
  ASSUME TypeOK, \/ count' = count
                 \/ count.writes < MaxWrites /\ count' = [count EXCEPT !.writes = count.writes + 1]
  PROVE  count' \in Counts /\ Uncertainty' = Uncertainty
<1>1. count \in Counts /\ MaxWrites \in Nat /\ MaxDowns \in Nat /\ MaxFaults \in Nat
  BY CronAssumption DEF TypeOK, Counts
<1>2. count' \in Counts /\ count'.downs = count.downs /\ count'.faults = count.faults
  BY <1>1 DEF Counts
<1>3. QED
  BY <1>2 DEF Uncertainty

\* Something goes wrong.
LEMMA CountsFail ==
  ASSUME TypeOK, count.faults < MaxFaults,
         \/ count' = [count EXCEPT !.faults = count.faults + 1]
         \/ count.writes < MaxWrites /\ count' = [count EXCEPT !.writes = count.writes + 1, !.faults = count.faults + 1]
  PROVE  count' \in Counts /\ Uncertainty' = Uncertainty + 1
<1>1. count \in Counts /\ MaxWrites \in Nat /\ MaxDowns \in Nat /\ MaxFaults \in Nat
  BY CronAssumption DEF TypeOK, Counts
<1>2. count' \in Counts /\ count'.downs = count.downs /\ count'.faults = count.faults + 1
  <2>1. CASE count' = [count EXCEPT !.faults = count.faults + 1]
    BY <1>1, <2>1 DEF Counts
  <2>2. CASE count.writes < MaxWrites /\ count' = [count EXCEPT !.writes = count.writes + 1, !.faults = count.faults + 1]
    <3>1. PICK more : more = [writes |-> count.writes + 1, downs |-> count.downs, faults |-> count.faults + 1]
      OBVIOUS
    <3>2. count' = more
      BY <1>1, <2>2, <3>1 DEF Counts
    <3>3. more \in Counts
      <4>1. count.writes + 1 \in 0..MaxWrites /\ count.downs \in 0..MaxDowns /\ count.faults + 1 \in 0..MaxFaults
        BY <1>1, <2>2 DEF Counts
      <4>2. QED
        BY <3>1, <4>1 DEF Counts
    <3>4. QED
      BY <3>1, <3>2, <3>3
  <2>3. QED
    BY <2>1, <2>2
<1>3. count.downs \in Nat /\ count.faults \in Nat
  BY <1>1 DEF Counts
<1>4. QED
  BY <1>2, <1>3 DEF Uncertainty

LEMMA StartStep == ASSUME CronInv, Start PROVE CronInv'
<1>1. PICK wanted : wanted = [n \in Configured \cup DOMAIN Wanted(Names) |-> IF n \in Configured THEN 1 ELSE row[n].version]
  OBVIOUS
<1>2. Schedule(wanted, {})
  BY <1>1 DEF Start
<1>3. /\ \A n \in DOMAIN wanted : n \in Names /\ (wanted[n] = 1 \/ (wanted[n] = row[n].version /\ Active(n)))
      /\ Configured \subseteq Names
  BY <1>1, CronAssumption DEF Wanted
<1>4. /\ UNCHANGED <<versions, row, fires, overtaken, minute, count>> /\ server' = "synced" /\ server = "down"
      /\ row' = row /\ versions' = versions
  BY DEF Start
<1>5. Grown
  BY <1>4, GrowsBy, RowFacts
<1>6. \A n \in Names : listed[n] = 0
  BY <1>4 DEF CronInv, Clean
<1>7. Asked(wanted, {}, Len(versions'))
  BY <1>3, <1>4, RowFacts DEF Asked
<1>8. Starts(wanted, 0) /\ RowsTake(0)
  BY <1>3, <1>4 DEF Starts, RowsTake
<1>9. \A n \in Names : Active(n) => listed[n] # row[n].version
  BY <1>6, RowFacts DEF Active
<1>10. OnlyReady(wanted) /\ StillReady(wanted, {})
  <2>1. OnlyReady(wanted)
    BY <1>3, <1>9 DEF OnlyReady
  <2>2. StillReady(wanted, {})
    <3>1. ASSUME NEW n \in Names, row[n].active, ~ row[n].deleted, row[n].version \in 1..Len(versions)
          PROVE  listed[n] # row[n].version
      <4>1. row[n].version # 0
        BY <3>1, RowFacts
      <4>2. QED
        BY <1>6, <4>1
    <3>2. QED
      BY <1>4, <3>1 DEF StillReady
  <2>3. QED
    BY <2>1, <2>2
<1>11. Settled'
  <2>1. ASSUME NEW n \in Names PROVE SettledAt(n)'
    <3>1. listed'[n] \in {listed[n], row[n].version} \/ listed'[n] = 1
      BY <1>2, <1>3, Listing
    <3>2. QED
      BY <1>4, <1>5, <3>1, SettledStays, RowFacts
  <2>2. QED
    BY <2>1 DEF Settled
<1>12. count' \in Counts /\ Uncertainty' = Uncertainty
  BY <1>4, CountsStay, RowFacts
<1>13. row' \in [Names -> Rows(Len(versions'))] /\ overtaken' \subseteq 0..Len(versions') /\ minute' = minute
  BY <1>4, RowFacts
<1>14. QED
  BY <1>2, <1>4, <1>5, <1>7, <1>8, <1>10, <1>11, <1>12, <1>13, ScheduleStep

LEMMA SyncStep == ASSUME CronInv, Sync PROVE CronInv'
<1>1. PICK wanted : wanted = Wanted(Changed)
  OBVIOUS
<1>2. PICK stale : stale = Stale
  OBVIOUS
<1>3. /\ Schedule(wanted, stale) /\ UNCHANGED <<versions, row, server, fires, overtaken, minute, count>>
      /\ server = "synced"
  BY <1>1, <1>2 DEF Sync
<1>4. \A n \in DOMAIN wanted : n \in Names /\ wanted[n] = row[n].version /\ Active(n) /\ listed[n] # row[n].version
  BY <1>1 DEF Wanted, Changed
<1>5. stale \subseteq Names /\ \A n \in stale : ~ Active(n)
  BY <1>2 DEF Stale
<1>6. Grown
  BY <1>3, GrowsBy, RowFacts
<1>7. Asked(wanted, stale, Len(versions'))
  BY <1>3, <1>4, <1>5, RowFacts DEF Asked
<1>8. Starts(wanted, 0) /\ RowsTake(0)
  BY <1>3, <1>4 DEF Starts, RowsTake
<1>9. OnlyReady(wanted)
  BY <1>4 DEF OnlyReady
<1>10. StillReady(wanted, stale)
  <2>1. \A n \in Names : row[n].active /\ ~ row[n].deleted /\ row[n].version \in 1..Len(versions) => Active(n)
    BY RowFacts DEF Active
  <2>2. QED
    BY <1>3, <1>4, <1>5, <2>1 DEF StillReady
<1>11. Settled'
  <2>1. ASSUME NEW n \in Names PROVE SettledAt(n)'
    <3>1. listed'[n] \in {0, listed[n], row[n].version}
      BY <1>3, <1>4, Listing
    <3>2. QED
      BY <1>3, <1>6, <3>1, SettledStays
  <2>2. QED
    BY <2>1 DEF Settled
<1>12. count' \in Counts /\ Uncertainty' = Uncertainty
  BY <1>3, CountsStay, RowFacts
<1>13. row' \in [Names -> Rows(Len(versions'))] /\ overtaken' \subseteq 0..Len(versions') /\ minute' = minute
       /\ server' \in {"synced", "unsynced"}
  BY <1>3, RowFacts
<1>14. QED
  BY <1>3, <1>6, <1>7, <1>8, <1>9, <1>10, <1>11, <1>12, <1>13, ScheduleStep

-----------------------------------------------------------------------------
(* Writes *)

LEMMA WrittenLast ==
  ASSUME TypeOK, NEW c \in Contents, Written(c)
  PROVE  /\ Grown /\ Len(versions') = Len(versions) + 1 /\ versions'[Len(versions) + 1] = c /\ c \in Jobs
         /\ Len(versions) + 1 \in 1..Len(versions') /\ count.writes < MaxWrites
<1>1. versions' = Append(versions, c) /\ count.writes < MaxWrites
  BY DEF Written
<1>2. versions \in Seq(Jobs) /\ c \in Jobs /\ Len(versions) \in Nat
  BY CronAssumption, Sizes DEF Jobs
<1>3. PICK new : new = versions'
  OBVIOUS
<1>4. Len(new) = Len(versions) + 1 /\ new[Len(versions) + 1] = c
  BY <1>1, <1>2, <1>3, Added
<1>5. Grown
  BY GrowsBy
<1>6. QED
  BY <1>1, <1>2, <1>3, <1>4, <1>5

\* A row is stored, or is not when the name was deleted.
LEMMA Stored ==
  ASSUME CronInv, NEW c \in Contents, Written(c), NEW n0 \in Names, row' = row \/ row' = StoredRow(n0)
  PROVE  row' \in [Names -> Rows(Len(versions'))] /\ RowsTake(n0)
<1>1. Len(versions') = Len(versions) + 1 /\ Len(versions) \in Nat /\ row \in [Names -> Rows(Len(versions))]
  BY WrittenLast, RowFacts
<1>2. row \in [Names -> Rows(Len(versions'))]
  BY <1>1 DEF Rows
<1>3. [version |-> NewVersion, active |-> TRUE, deleted |-> FALSE] \in Rows(Len(versions'))
  BY <1>1 DEF Rows, NewVersion
<1>4. row' \in [Names -> Rows(Len(versions'))]
  BY <1>2, <1>3 DEF StoredRow
<1>5. RowsTake(n0)
  BY <1>1 DEF RowsTake, StoredRow, NewVersion
<1>6. QED
  BY <1>4, <1>5

LEMMA HttpUpsertStep ==
  ASSUME CronInv, NEW n0 \in Names, NEW c \in Contents, HttpUpsert(n0, c) \/ HttpUpsertFails(n0, c)
  PROVE  CronInv'
<1>1. PICK wanted : wanted = [m \in {n0} |-> NewVersion]
  OBVIOUS
<1>2. DOMAIN wanted = {n0} /\ wanted[n0] = Len(versions) + 1
  BY <1>1 DEF NewVersion
<1>3. /\ Schedule(wanted, {}) /\ Written(c) /\ Up /\ server' = server /\ minute' = minute
      /\ overtaken \subseteq overtaken'
  BY <1>1 DEF HttpUpsert, HttpUpsertFails
<1>4. /\ Grown /\ Len(versions') = Len(versions) + 1 /\ versions'[Len(versions) + 1] = c
      /\ Len(versions) + 1 \in 1..Len(versions') /\ count.writes < MaxWrites /\ Len(versions) \in Nat
  BY <1>3, WrittenLast, RowFacts
<1>5. row' \in [Names -> Rows(Len(versions'))] /\ RowsTake(n0)
  BY <1>3, Stored DEF HttpUpsert, HttpUpsertFails
<1>6. Asked(wanted, {}, Len(versions')) /\ Starts(wanted, n0)
  BY <1>2, <1>4 DEF Asked, Starts
<1>7. server' \in {"synced", "unsynced"}
  BY <1>3 DEF Up, CronInv, TypeOK
<1>8. overtaken' \subseteq 0..Len(versions')
  <2>1. \A v \in 0..Len(versions) : v \in 0..Len(versions')
    BY <1>4
  <2>2. overtaken \subseteq 0..Len(versions) /\ row[n0].version \in 0..Len(versions)
    BY RowFacts
  <2>3. QED
    BY <2>1, <2>2 DEF HttpUpsert, HttpUpsertFails
<1>9. \A n \in Names \ {n0} : SettledAt(n)'
  <2>1. ASSUME NEW n \in Names, n # n0 PROVE SettledAt(n)'
    <3>1. listed'[n] = listed[n]
      BY <1>2, <1>3, <2>1, Listing
    <3>2. row'[n] = row[n]
      BY <2>1, RowFacts DEF HttpUpsert, HttpUpsertFails, StoredRow
    <3>3. QED
      BY <1>3, <1>4, <3>1, <3>2, SettledStays
  <2>2. QED
    BY <2>1
<1>10. listed'[n0] = Len(versions) + 1
  BY <1>2, <1>3, Listing
<1>11. CASE HttpUpsert(n0, c)
  <2>1. SettledAt(n0)'
    <3>1. CASE row[n0].deleted
      <4>1. row'[n0] = row[n0]
        BY <1>11, <3>1 DEF HttpUpsert
      <4>2. QED
        BY <1>3, <1>4, <3>1, <4>1, SettledStays
    <3>2. CASE ~ row[n0].deleted
      <4>1. row'[n0].version = Len(versions) + 1 /\ row'[n0].active
        BY <1>11, <3>2, RowFacts DEF HttpUpsert, StoredRow, NewVersion
      <4>2. QED
        BY <1>10, <4>1 DEF SettledAt
    <3>3. QED
      BY <3>1, <3>2
  <2>2. OnlyReady(wanted)
    BY <1>2 DEF OnlyReady
  <2>3. StillReady(wanted, {})
    <3>1. ASSUME NEW n \in Names, row'[n].active, ~ row'[n].deleted, row'[n].version \in 1..Len(versions)
          PROVE  row'[n] = row[n] /\ n # n0
      <4>1. row'[n].version # Len(versions) + 1
        BY <1>4, <3>1
      <4>2. CASE row[n0].deleted
        BY <1>11, <3>1, <4>2 DEF HttpUpsert
      <4>3. CASE ~ row[n0].deleted
        BY <1>11, <4>1, <4>3, RowFacts DEF HttpUpsert, StoredRow, NewVersion
      <4>4. QED
        BY <4>2, <4>3
    <3>2. QED
      BY <1>2, <3>1 DEF StillReady
  <2>4. count' \in Counts /\ Uncertainty' = Uncertainty
    BY <1>4, <1>11, CountsStay, RowFacts DEF HttpUpsert
  <2>5. Settled'
    BY <1>9, <2>1 DEF Settled
  <2>6. QED
    BY <1>3, <1>4, <1>5, <1>6, <1>7, <1>8, <2>2, <2>3, <2>4, <2>5, ScheduleStep
<1>12. CASE HttpUpsertFails(n0, c)
  <2>1. SettledAt(n0)'
    <3>1. row'[n0] = row[n0] /\ (c.once => row[n0].version \in overtaken')
      BY <1>12 DEF HttpUpsertFails
    <3>2. SettledAt(n0) /\ row[n0].version \in 0..Len(versions)
      BY RowFacts DEF CronInv, Settled
    <3>3. row[n0].version # 0 => fires'[row[n0].version] = fires[row[n0].version]
      <4>1. row[n0].version # 0 => row[n0].version \in 1..Len(versions)
        BY <1>4, <3>2
      <4>2. QED
        BY <1>4, <4>1 DEF Grown
    <3>4. QED
      BY <1>3, <1>4, <1>10, <3>1, <3>2, <3>3 DEF SettledAt
  <2>2. count' \in Counts /\ Uncertainty' = Uncertainty + 1
    BY <1>4, <1>12, CountsFail, RowFacts DEF HttpUpsertFails
  <2>3. Settled'
    BY <1>9, <2>1 DEF Settled
  <2>4. QED
    BY <1>3, <1>4, <1>5, <1>6, <1>7, <1>8, <2>2, <2>3, ScheduleStep
<1>13. QED
  BY <1>11, <1>12

LEMMA HttpDeleteStep ==
  ASSUME CronInv, NEW n0 \in Names, HttpDelete(n0) \/ HttpDeleteFails(n0)
  PROVE  CronInv'
<1>1. PICK wanted : wanted = [m \in {} |-> 0]
  OBVIOUS
<1>2. DOMAIN wanted = {}
  BY <1>1
<1>3. /\ Schedule(wanted, {n0}) /\ Up /\ UNCHANGED <<versions, server, fires, overtaken, minute>>
      /\ count.writes < MaxWrites
  BY <1>1 DEF HttpDelete, HttpDeleteFails
<1>4. Grown
  BY <1>3, GrowsBy, RowFacts
<1>5. /\ \A n \in Names : n # n0 => row'[n] = row[n]
      /\ row' \in [Names -> Rows(Len(versions))] /\ \A n \in Names : row'[n].version = row[n].version
  <2>1. CASE row' = row
    BY <2>1, RowFacts
  <2>2. CASE row' = [row EXCEPT ![n0] = [version |-> row[n0].version, active |-> FALSE, deleted |-> TRUE]]
    <3>1. PICK r : r = row[n0]
      OBVIOUS
    <3>2. r \in Rows(Len(versions))
      BY <3>1, RowFacts
    <3>3. PICK off : off = [version |-> r.version, active |-> FALSE, deleted |-> TRUE]
      OBVIOUS
    <3>4. off \in Rows(Len(versions)) /\ off.version = r.version
      BY <3>2, <3>3 DEF Rows
    <3>5. row' = [row EXCEPT ![n0] = off]
      BY <2>2, <3>1, <3>3
    <3>6. QED
      BY <3>1, <3>4, <3>5, RowFacts
  <2>3. QED
    BY <2>1, <2>2 DEF HttpDelete, HttpDeleteFails
<1>6. Asked(wanted, {n0}, Len(versions')) /\ Starts(wanted, n0) /\ RowsTake(n0)
  BY <1>2, <1>5 DEF Asked, Starts, RowsTake
<1>7. server' \in {"synced", "unsynced"}
  BY <1>3 DEF Up, CronInv, TypeOK
<1>8. row' \in [Names -> Rows(Len(versions'))] /\ overtaken' \subseteq 0..Len(versions') /\ minute' = minute
  BY <1>3, <1>5, RowFacts
<1>9. \A n \in Names : listed'[n] \in {0, listed[n], row[n].version}
  BY <1>2, <1>3, Listing
<1>10. CASE HttpDelete(n0)
  <2>1. (row' = row /\ ~ Active(n0)) \/ (row'[n0].deleted /\ ~ row'[n0].active)
    <3>1. CASE row[n0].version = 0 \/ row[n0].deleted
      BY <1>10, <3>1 DEF HttpDelete, Active
    <3>2. CASE ~ (row[n0].version = 0 \/ row[n0].deleted)
      <4>1. row' = [row EXCEPT ![n0] = [version |-> row[n0].version, active |-> FALSE, deleted |-> TRUE]]
        BY <1>10, <3>2 DEF HttpDelete
      <4>2. row[n0] \in Rows(Len(versions)) /\ DOMAIN row = Names
        BY RowFacts
      <4>3. QED
        BY <4>1, <4>2 DEF Rows
    <3>3. QED
      BY <3>1, <3>2
  <2>2. Settled'
    <3>1. ASSUME NEW n \in Names PROVE SettledAt(n)'
      <4>1. CASE row'[n] = row[n]
        BY <1>3, <1>4, <1>9, <4>1, SettledStays
      <4>2. CASE row'[n].deleted
        BY <4>2 DEF SettledAt
      <4>3. QED
        BY <1>5, <2>1, <4>1, <4>2
    <3>2. QED
      BY <3>1 DEF Settled
  <2>3. OnlyReady(wanted)
    BY <1>2 DEF OnlyReady
  <2>4. StillReady(wanted, {n0})
    <3>1. ASSUME NEW n \in Names, row'[n].active, ~ row'[n].deleted, row'[n].version \in 1..Len(versions)
          PROVE  row'[n] = row[n] /\ n # n0
      <4>1. row'[n].version # 0
        BY <3>1, RowFacts
      <4>2. CASE n = n0
        BY <2>1, <3>1, <4>1, <4>2 DEF Active
      <4>3. QED
        BY <1>5, <4>2
    <3>2. QED
      BY <1>2, <3>1 DEF StillReady
  <2>5. count' \in Counts /\ Uncertainty' = Uncertainty
    BY <1>3, <1>10, CountsStay, RowFacts DEF HttpDelete
  <2>6. QED
    BY <1>3, <1>4, <1>6, <1>7, <1>8, <2>2, <2>3, <2>4, <2>5, ScheduleStep
<1>11. CASE HttpDeleteFails(n0)
  <2>1. count' \in Counts /\ Uncertainty' = Uncertainty + 1
    BY <1>3, <1>11, CountsFail, RowFacts DEF HttpDeleteFails
  <2>2. Settled'
    <3>1. \A n \in Names : row'[n] = row[n]
      BY <1>11 DEF HttpDeleteFails
    <3>2. \A n \in Names : SettledAt(n)'
      BY <1>3, <1>4, <1>9, <3>1, SettledStays
    <3>3. QED
      BY <3>2 DEF Settled
  <2>3. QED
    BY <1>3, <1>4, <1>6, <1>7, <1>8, <2>1, <2>2, ScheduleStep
<1>12. QED
  BY <1>10, <1>11

\* A row that asks for a task afterwards is the one that was there, or new.
OldReady ==
  \A n \in Names : row'[n].active /\ ~ row'[n].deleted /\ row'[n].version \in 1..Len(versions) => row'[n] = row[n]

\* The tasks stay.
LEMMA QuietStep ==
  ASSUME CronInv, Grown, tasks' = tasks, listed' = listed, named' = named, minute' = minute,
         server' \in {"down", "synced", "unsynced"}, server' = "down" => server = "down",
         row' \in [Names -> Rows(Len(versions'))], overtaken' \subseteq 0..Len(versions'),
         count' \in Counts, Uncertainty' \in {Uncertainty, Uncertainty + 1},
         NEW n0, RowsTake(n0), Settled', OldReady
  PROVE  CronInv'
<1>1. TypeOK /\ Len(versions') \in Nat /\ Len(versions) \in Nat /\ Len(versions) <= Len(versions')
  BY Numbers DEF CronInv
<1>2. /\ tasks \in Seq(Tasks(Len(versions'))) /\ named \in [Names -> 0..Len(tasks)] /\ listed \in [Names -> 0..Len(versions')]
  <2>1. ASSUME NEW t \in DOMAIN tasks PROVE tasks[t] \in Tasks(Len(versions'))
    <3>1. tasks[t] \in Tasks(Len(versions))
      BY <1>1, Sizes
    <3>2. QED
      BY <1>1, <3>1 DEF Tasks
  <2>2. tasks \in Seq(Tasks(Len(versions'))) /\ named \in [Names -> 0..Len(tasks)]
    BY <1>1, <2>1, Within, Sizes
  <2>3. listed \in [Names -> 0..Len(versions)]
    BY <1>1, Sizes
  <2>4. listed \in [Names -> 0..Len(versions')]
    BY <1>1, <2>3
  <2>5. QED
    BY <2>2, <2>4
<1>3. TypeOK'
  <2>1. minute \in 1..MaxMinute
    BY <1>1, Sizes
  <2>2. QED
    BY <1>2, <2>1 DEF TypeOK, Jobs, Rows, Tasks, Grown, Counts
<1>4. OneTaskPerName' /\ Clean'
  BY DEF CronInv, OneTaskPerName, Clean, Live
<1>5. ListTakes(n0)
  BY DEF ListTakes
<1>6. Owned'
  BY <1>5, OwnedStays
<1>7. FiredFirst'
  BY FiredStays DEF Emitting
<1>8. Measured'
  <2>1. ASSUME NEW v \in 1..Len(versions)
        PROVE  (OnceReady(v)' => OnceReady(v)) /\ (MinuteReady(v)' => MinuteReady(v))
    <3>1. Startable(v)' => Startable(v)
      BY DEF Startable, Active, OldReady
    <3>2. QED
      BY <3>1 DEF OnceReady, MinuteReady, Live
  <2>2. QED
    BY <2>1, MeasuredStays
<1>9. Configures' /\ Past'
  BY <1>1, ConfiguresStays, PastStays, Sizes
<1>10. QED
  BY <1>3, <1>4, <1>6, <1>7, <1>8, <1>9 DEF CronInv

LEMMA RuleUpsertStep ==
  ASSUME CronInv, NEW n0 \in Names, NEW c \in Contents, RuleUpsert(n0, c)
  PROVE  CronInv'
<1>1. /\ Written(c) /\ row' = StoredRow(n0) /\ UNCHANGED <<listed, named, tasks, server, minute>>
      /\ overtaken' = IF listed[n0] # 0 /\ versions[listed[n0]].once THEN overtaken \cup {NewVersion} ELSE overtaken
  BY DEF RuleUpsert
<1>2. /\ Grown /\ Len(versions') = Len(versions) + 1 /\ versions'[Len(versions) + 1] = c
      /\ Len(versions) + 1 \in 1..Len(versions') /\ count.writes < MaxWrites /\ Len(versions) \in Nat
  BY <1>1, WrittenLast, RowFacts
<1>3. row' \in [Names -> Rows(Len(versions'))] /\ RowsTake(n0)
  BY <1>1, Stored
<1>4. overtaken' \subseteq 0..Len(versions')
  <2>1. \A v \in 0..Len(versions) : v \in 0..Len(versions')
    BY <1>2
  <2>2. NewVersion \in 0..Len(versions') /\ overtaken \subseteq 0..Len(versions)
    BY <1>2, RowFacts DEF NewVersion
  <2>3. QED
    BY <1>1, <2>1, <2>2
<1>5. row'[n0].version = Len(versions) + 1 /\ row'[n0].active /\ \A n \in Names : n # n0 => row'[n] = row[n]
  BY <1>1, RowFacts DEF StoredRow, NewVersion
<1>6. Settled'
  <2>1. SettledAt(n0)'
    <3>1. listed[n0] # 0 => versions'[listed[n0]] = versions[listed[n0]]
      <4>1. listed[n0] \in 0..Len(versions)
        BY RowFacts, Sizes
      <4>2. listed[n0] # 0 => listed[n0] \in 1..Len(versions)
        BY <1>2, <4>1
      <4>3. QED
        BY <1>2, <4>2 DEF Grown
    <3>2. listed[n0] # 0 /\ versions[listed[n0]].once => Len(versions) + 1 \in overtaken'
      BY <1>1 DEF NewVersion
    <3>3. QED
      BY <1>1, <1>5, <3>1, <3>2 DEF SettledAt
  <2>2. ASSUME NEW n \in Names, n # n0 PROVE SettledAt(n)'
    BY <1>1, <1>2, <1>5, <2>2, SettledStays
  <2>3. QED
    BY <2>1, <2>2 DEF Settled
<1>7. OldReady
  <2>1. Len(versions) + 1 \notin 1..Len(versions)
    BY <1>2
  <2>2. QED
    BY <1>5, <2>1 DEF OldReady
<1>8. count' \in Counts /\ Uncertainty' = Uncertainty
  BY <1>2, CountsStay, RowFacts DEF RuleUpsert
<1>9. server' = server /\ server \in {"down", "synced", "unsynced"}
  BY <1>1, RowFacts DEF TypeOK
<1>10. QED
  BY <1>1, <1>2, <1>3, <1>4, <1>6, <1>7, <1>8, <1>9, QuietStep

LEMMA SyncDiesStep == ASSUME CronInv, SyncDies PROVE CronInv'
<1>1. UNCHANGED <<versions, row, listed, named, tasks, fires, overtaken, minute>> /\ server' = "unsynced"
  BY DEF SyncDies
<1>2. Grown
  BY <1>1, GrowsBy, RowFacts
<1>3. count' \in Counts /\ Uncertainty' = Uncertainty + 1
  BY CountsFail, RowFacts DEF SyncDies, Fails
<1>4. Settled'
  BY <1>1, <1>2, SettledStays DEF Settled
<1>5. RowsTake(0) /\ OldReady
  BY <1>1 DEF RowsTake, OldReady
<1>6. row' \in [Names -> Rows(Len(versions'))] /\ overtaken' \subseteq 0..Len(versions')
  BY <1>1, RowFacts
<1>7. QED
  BY <1>1, <1>2, <1>3, <1>4, <1>5, <1>6, QuietStep

-----------------------------------------------------------------------------
(* The steps of tasks *)

\* What the tasks and the list become: no task begins, and one that goes on keeps its place.
Continues(t) ==
  /\ t \in DOMAIN tasks /\ tasks'[t].name = tasks[t].name /\ tasks'[t].version = tasks[t].version
  /\ Emitting(t)' => Emitting(t)
  /\ Live(t)' => Live(t) /\ listed'[tasks[t].name] = listed[tasks[t].name] /\ named'[tasks[t].name] = named[tasks[t].name]
NoneReadier ==
  \A v \in 1..Len(versions) : /\ versions[v].once /\ OnceReady(v)' => OnceReady(v)
                              /\ versions[v].kind = "cron" /\ MinuteReady(v)' => MinuteReady(v)

LEMMA TaskStep ==
  ASSUME CronInv, UNCHANGED <<versions, fires, overtaken, minute>>,
         tasks' \in Seq(Tasks(Len(versions))), Len(tasks') = Len(tasks), \A t \in DOMAIN tasks' : Continues(t),
         listed' \in [Names -> 0..Len(versions)], named' \in [Names -> 0..Len(tasks)],
         \A n \in Names : listed'[n] \in {0, listed[n]},
         row' \in [Names -> Rows(Len(versions))], \A n \in Names : row'[n].version = row[n].version,
         server' \in {"down", "synced", "unsynced"}, server' = "down" => server = "down" \/ \A n \in Names : listed'[n] = 0,
         count' \in Counts, Uncertainty' \in {Uncertainty, Uncertainty + 1}, Settled',
         Uncertainty' = Uncertainty + 1 \/ NoneReadier
  PROVE  CronInv'
<1>1. Grown /\ TypeOK /\ minute \in 1..MaxMinute /\ minute \in Nat
  BY GrowsBy, Sizes, RowFacts
<1>2. TypeOK'
  BY <1>1 DEF TypeOK, Jobs, Rows, Tasks, Grown, Counts
<1>3. OneTaskPerName'
  <2>1. ASSUME NEW t \in DOMAIN tasks', Live(t)'
        PROVE  named'[tasks'[t].name] = t /\ listed'[tasks'[t].name] = tasks'[t].version
    BY <2>1 DEF CronInv, OneTaskPerName, Continues
  <2>2. QED
    BY <2>1 DEF OneTaskPerName
<1>4. Clean'
  <2>1. ASSUME server' = "down", NEW n \in Names PROVE listed'[n] = 0
    BY <2>1 DEF CronInv, Clean
  <2>2. QED
    BY <2>1 DEF Clean
<1>5. Owned'
  <2>1. ListTakes(0) /\ RowsTake(0)
    BY DEF ListTakes, RowsTake
  <2>2. QED
    BY <1>1, <2>1, OwnedStays
<1>6. FiredFirst'
  BY <1>1, FiredStays DEF Continues
<1>7. Measured'
  BY <1>1, MeasuredStays DEF NoneReadier
<1>8. Configures' /\ Past'
  BY <1>1, ConfiguresStays, PastStays
<1>9. QED
  BY <1>2, <1>3, <1>4, <1>5, <1>6, <1>7, <1>8 DEF CronInv

LEMMA DownStep == ASSUME CronInv, Down PROVE CronInv'
<1>1. /\ UNCHANGED <<versions, row, fires, overtaken, minute>> /\ server' = "down"
      /\ tasks' = [t \in DOMAIN tasks |-> [tasks[t] EXCEPT !.st = "over", !.mark = 0]]
      /\ listed' = [n \in Names |-> 0] /\ named' = [n \in Names |-> 0]
      /\ count.downs < MaxDowns /\ count' = [count EXCEPT !.downs = count.downs + 1]
  BY DEF Down
<1>2. TypeOK /\ Len(versions) \in Nat /\ Len(tasks) \in Nat /\ DOMAIN tasks = 1..Len(tasks)
  BY RowFacts, Sizes
<1>3. \A t \in DOMAIN tasks : /\ tasks'[t] \in Tasks(Len(versions)) /\ tasks'[t].name = tasks[t].name
                              /\ tasks'[t].version = tasks[t].version /\ tasks'[t].st = "over"
  <2>1. ASSUME NEW t \in DOMAIN tasks
        PROVE  /\ tasks'[t] \in Tasks(Len(versions)) /\ tasks'[t].name = tasks[t].name
               /\ tasks'[t].version = tasks[t].version /\ tasks'[t].st = "over"
    <3>1. tasks[t] \in Tasks(Len(versions))
      BY <1>2, Sizes
    <3>2. tasks'[t] = [name |-> tasks[t].name, version |-> tasks[t].version, mark |-> 0, st |-> "over"]
      BY <1>1, <3>1 DEF Tasks
    <3>3. tasks[t].name \in Names /\ tasks[t].version \in 1..Len(versions)
      BY <3>1 DEF Tasks
    <3>4. QED
      BY <3>2, <3>3 DEF Tasks
  <2>2. QED
    BY <2>1
<1>4. tasks' \in Seq(Tasks(Len(versions))) /\ Len(tasks') = Len(tasks) /\ DOMAIN tasks' = DOMAIN tasks
  <2>1. PICK new : new = tasks'
    OBVIOUS
  <2>2. DOMAIN new = 1..Len(tasks) /\ new = [t \in 1..Len(tasks) |-> new[t]]
    BY <1>1, <1>2, <2>1
  <2>3. new \in Seq(Tasks(Len(versions))) /\ Len(new) = Len(tasks)
    BY <1>2, <1>3, <2>1, <2>2, IsSeq
  <2>4. QED
    BY <1>2, <2>1, <2>2, <2>3
<1>5. \A t \in DOMAIN tasks' : Continues(t)
  BY <1>3, <1>4 DEF Continues, Emitting, Live
<1>6. listed' \in [Names -> 0..Len(versions)] /\ named' \in [Names -> 0..Len(tasks)] /\ \A n \in Names : listed'[n] = 0
  <2>1. 0 \in 0..Len(versions) /\ 0 \in 0..Len(tasks)
    BY <1>2
  <2>2. QED
    BY <1>1, <2>1
<1>7. count' \in Counts /\ Uncertainty' = Uncertainty + 1
  <2>0. count.downs < MaxDowns /\ count' = [count EXCEPT !.downs = count.downs + 1]
    BY <1>1
  <2>1. count \in Counts /\ MaxDowns \in Nat
    BY CronAssumption, RowFacts
  <2>2. count' \in Counts /\ count'.downs = count.downs + 1 /\ count'.faults = count.faults
    <3>1. PICK more : more = [writes |-> count.writes, downs |-> count.downs + 1, faults |-> count.faults]
      OBVIOUS
    <3>2. count' = more
      BY <2>0, <2>1, <3>1 DEF Counts
    <3>3. count.writes \in 0..MaxWrites /\ count.downs + 1 \in 0..MaxDowns /\ count.faults \in 0..MaxFaults
      BY <2>0, <2>1 DEF Counts
    <3>4. QED
      BY <3>1, <3>2, <3>3 DEF Counts
  <2>3. count.downs \in Nat /\ count.faults \in Nat
    BY <1>2, Sizes
  <2>4. QED
    BY <2>2, <2>3 DEF Uncertainty
<1>8. Settled'
  <2>1. Grown
    BY <1>1, GrowsBy, RowFacts
  <2>2. QED
    BY <1>1, <1>6, <2>1, SettledStays DEF Settled
<1>9. row' \in [Names -> Rows(Len(versions))] /\ \A n \in Names : row'[n].version = row[n].version
  BY <1>1, RowFacts
<1>10. QED
  BY <1>1, <1>4, <1>5, <1>6, <1>7, <1>8, <1>9, TaskStep

\* One task changes its state and its mark.
LEMMA Moved ==
  ASSUME CronInv, NEW t \in DOMAIN tasks, NEW st \in {"waiting", "first", "second", "over", "dead"}, NEW mark \in Nat,
         tasks' = [tasks EXCEPT ![t] = [tasks[t] EXCEPT !.st = st, !.mark = mark]]
  PROVE  /\ tasks' \in Seq(Tasks(Len(versions))) /\ Len(tasks') = Len(tasks) /\ DOMAIN tasks' = DOMAIN tasks
         /\ \A u \in DOMAIN tasks : u # t => tasks'[u] = tasks[u]
         /\ tasks'[t].name = tasks[t].name /\ tasks'[t].version = tasks[t].version
         /\ tasks'[t].st = st /\ tasks'[t].mark = mark
<1>1. tasks \in Seq(Tasks(Len(versions))) /\ tasks[t] \in Tasks(Len(versions))
  BY Sizes, RowFacts
<1>2. PICK moved : moved = [name |-> tasks[t].name, version |-> tasks[t].version, mark |-> mark, st |-> st]
  OBVIOUS
<1>3. moved \in Tasks(Len(versions))
  <2>1. tasks[t].name \in Names /\ tasks[t].version \in 1..Len(versions)
    BY <1>1 DEF Tasks
  <2>2. QED
    BY <1>2, <2>1 DEF Tasks
<1>4. tasks' = [tasks EXCEPT ![t] = moved]
  <2>1. [tasks[t] EXCEPT !.st = st, !.mark = mark] = moved
    <3>1. PICK r : r = [tasks[t] EXCEPT !.st = st, !.mark = mark]
      OBVIOUS
    <3>2. r = [name |-> tasks[t].name, version |-> tasks[t].version, mark |-> mark, st |-> st]
      BY <1>1, <3>1 DEF Tasks
    <3>3. QED
      BY <1>2, <3>1, <3>2
  <2>2. tasks' = [tasks EXCEPT ![t] = [tasks[t] EXCEPT !.st = st, !.mark = mark]]
    OBVIOUS
  <2>3. QED
    BY <2>1, <2>2
<1>5. PICK new : new = tasks'
  OBVIOUS
<1>6. /\ new \in Seq(Tasks(Len(versions))) /\ Len(new) = Len(tasks) /\ DOMAIN new = DOMAIN tasks
      /\ \A u \in DOMAIN tasks : new[u] = IF u = t THEN moved ELSE tasks[u]
  BY <1>1, <1>3, <1>4, <1>5, Replaced
<1>7. QED
  BY <1>2, <1>5, <1>6

\* A task that can fire is the only one that runs its job, unless it is the configured one,
\* and the row of that job asks for no other.
LEMMA Alone ==
  ASSUME CronInv, NEW t \in DOMAIN tasks, Live(t), tasks[t].version # 1
  PROVE  /\ ~ Startable(tasks[t].version)
         /\ \A u \in DOMAIN tasks : Live(u) /\ tasks[u].version = tasks[t].version => u = t
<1>1. /\ tasks[t].name \in Names /\ tasks[t].version \in 2..Len(versions)
      /\ \A u \in DOMAIN tasks : tasks[u].name \in Names
  <2>1. \A u \in DOMAIN tasks : tasks[u] \in Tasks(Len(versions))
    BY Sizes, RowFacts
  <2>2. tasks[t].version \in 1..Len(versions) /\ \A u \in DOMAIN tasks : tasks[u].name \in Names
    BY <2>1 DEF Tasks
  <2>3. QED
    BY <2>2, RowFacts
<1>2. \A u \in DOMAIN tasks : Live(u) => named[tasks[u].name] = u /\ listed[tasks[u].name] = tasks[u].version
  BY DEF CronInv, OneTaskPerName
<1>3. \A n \in Names : Has(n, tasks[t].version) => n = tasks[t].name
  BY <1>1, <1>2 DEF CronInv, Owned, Has
<1>4. QED
  BY <1>1, <1>2, <1>3 DEF Has, Startable

LEMMA FirstVersion == ASSUME CronInv PROVE ~ versions[1].once /\ versions[1].kind # "cron"
BY DEF CronInv, Configures, ConfiguredVersion

\* What else holds of a task that is to move.
LEMMA OfTask ==
  ASSUME CronInv, NEW t \in DOMAIN tasks
  PROVE  /\ tasks[t].name \in Names /\ tasks[t].version \in 1..Len(versions) /\ tasks[t].mark \in Nat
         /\ tasks[t] \in Tasks(Len(versions)) /\ tasks[t].st \in {"waiting", "first", "second", "over", "dead"}
         /\ Len(tasks) \in Nat /\ named \in [Names -> 0..Len(tasks)] /\ listed \in [Names -> 0..Len(versions)]
         /\ server \in {"down", "synced", "unsynced"}
         /\ Live(t) => named[tasks[t].name] = t /\ listed[tasks[t].name] = tasks[t].version
<1>1. TypeOK /\ server \in {"down", "synced", "unsynced"}
  BY DEF CronInv, TypeOK
<1>2. tasks[t] \in Tasks(Len(versions))
  BY <1>1, Sizes
<1>3. /\ tasks[t].name \in Names /\ tasks[t].version \in 1..Len(versions) /\ tasks[t].mark \in Nat
      /\ tasks[t].st \in {"waiting", "first", "second", "over", "dead"}
  BY <1>2 DEF Tasks
<1>4. Len(tasks) \in Nat /\ named \in [Names -> 0..Len(tasks)] /\ listed \in [Names -> 0..Len(versions)]
  BY <1>1, Sizes
<1>5. Live(t) => named[tasks[t].name] = t /\ listed[tasks[t].name] = tasks[t].version
  BY DEF CronInv, OneTaskPerName
<1>6. QED
  BY <1>1, <1>2, <1>3, <1>4, <1>5

\* A task goes on in its place.
LEMMA GoesOn ==
  ASSUME CronInv, NEW t \in DOMAIN tasks, NEW st \in {"waiting", "second"}, NEW mark \in Nat,
         tasks' = [tasks EXCEPT ![t] = [tasks[t] EXCEPT !.st = st, !.mark = mark]],
         UNCHANGED <<versions, row, listed, named, server, fires, overtaken, minute, count>>,
         tasks[t].st \in {"first", "second"},
         st = "waiting" => ~ versions[tasks[t].version].once,
         versions[tasks[t].version].kind = "cron" => mark = tasks[t].mark
  PROVE  CronInv'
<1>1. /\ tasks' \in Seq(Tasks(Len(versions))) /\ Len(tasks') = Len(tasks) /\ DOMAIN tasks' = DOMAIN tasks
      /\ \A u \in DOMAIN tasks : u # t => tasks'[u] = tasks[u]
      /\ tasks'[t].name = tasks[t].name /\ tasks'[t].version = tasks[t].version
      /\ tasks'[t].st = st /\ tasks'[t].mark = mark
  BY Moved
<1>2. \A u \in DOMAIN tasks' : Continues(u)
  BY <1>1 DEF Continues, Emitting, Live
<1>3. NoneReadier
  <2>1. \A v : Startable(v)' => Startable(v)
    BY DEF Startable, Active
  <2>2. ASSUME NEW v \in 1..Len(versions), versions[v].once, OnceReady(v)' PROVE OnceReady(v)
    BY <1>1, <2>1, <2>2 DEF OnceReady
  <2>3. ASSUME NEW v \in 1..Len(versions), versions[v].kind = "cron", MinuteReady(v)' PROVE MinuteReady(v)
    BY <1>1, <2>1, <2>3 DEF MinuteReady, Live
  <2>4. QED
    BY <2>2, <2>3 DEF NoneReadier
<1>4. Settled'
  BY GrowsBy, SettledStays, RowFacts DEF Settled
<1>5. count' \in Counts /\ Uncertainty' = Uncertainty
  BY CountsStay, RowFacts
<1>6. /\ row' \in [Names -> Rows(Len(versions))] /\ \A n \in Names : row'[n].version = row[n].version
      /\ listed' \in [Names -> 0..Len(versions)] /\ named' \in [Names -> 0..Len(tasks)]
      /\ \A n \in Names : listed'[n] \in {0, listed[n]}
      /\ server' \in {"down", "synced", "unsynced"} /\ (server' = "down" => server = "down")
  BY RowFacts, OfTask
<1>7. QED
  BY <1>1, <1>2, <1>3, <1>4, <1>5, <1>6, TaskStep

LEMMA SecondStep == ASSUME CronInv, NEW t \in DOMAIN tasks, Second(t) PROVE CronInv'
<1>1. /\ tasks[t].st = "first" /\ tasks' = [tasks EXCEPT ![t].st = "second"]
      /\ UNCHANGED <<versions, row, listed, named, server, fires, overtaken, minute, count>>
  BY DEF Second
<1>2. tasks' = [tasks EXCEPT ![t] = [tasks[t] EXCEPT !.st = "second", !.mark = tasks[t].mark]]
  <2>1. PICK r : r = [tasks[t] EXCEPT !.st = "second"]
    OBVIOUS
  <2>2. PICK q : q = [tasks[t] EXCEPT !.st = "second", !.mark = tasks[t].mark]
    OBVIOUS
  <2>3. tasks[t] \in Tasks(Len(versions))
    BY OfTask
  <2>4. r = [name |-> tasks[t].name, version |-> tasks[t].version, mark |-> tasks[t].mark, st |-> "second"]
    BY <2>1, <2>3 DEF Tasks
  <2>5. q = [name |-> tasks[t].name, version |-> tasks[t].version, mark |-> tasks[t].mark, st |-> "second"]
    BY <2>2, <2>3 DEF Tasks
  <2>6. tasks' = [tasks EXCEPT ![t] = r]
    BY <1>1, <2>1
  <2>7. QED
    BY <2>2, <2>4, <2>5, <2>6
<1>3. tasks[t].mark \in Nat
  BY OfTask
<1>4. QED
  BY <1>1, <1>2, <1>3, GoesOn

LEMMA AgainStep == ASSUME CronInv, NEW t \in DOMAIN tasks, Again(t) PROVE CronInv'
<1>1. PICK mark : mark = MarkAfter(t)
  OBVIOUS
<1>2. /\ tasks[t].st = "second" /\ ~ versions[tasks[t].version].once
      /\ tasks' = [tasks EXCEPT ![t] = [tasks[t] EXCEPT !.st = "waiting", !.mark = mark]]
      /\ UNCHANGED <<versions, row, listed, named, server, fires, overtaken, minute, count>>
  BY <1>1 DEF Again, VersionOf
<1>3. mark \in Nat /\ (versions[tasks[t].version].kind = "cron" => mark = tasks[t].mark)
  BY <1>1, OfTask DEF MarkAfter, VersionOf
<1>4. QED
  BY <1>2, <1>3, GoesOn

\* A task ends, and leaves its name or not.
Leaves(t) ==
  /\ listed' = [listed EXCEPT ![tasks[t].name] = 0]
  /\ named' = [named EXCEPT ![tasks[t].name] = 0]

LEMMA Ends ==
  ASSUME CronInv, NEW t \in DOMAIN tasks, NEW st \in {"over", "dead"},
         tasks' = [tasks EXCEPT ![t] = [tasks[t] EXCEPT !.st = st, !.mark = 0]],
         UNCHANGED <<versions, server, fires, overtaken, minute>>, Emitting(t),
         Leaves(t) \/ UNCHANGED <<listed, named>>,
         row' \in [Names -> Rows(Len(versions))], \A n \in Names : row'[n].version = row[n].version,
         count' \in Counts, Uncertainty' \in {Uncertainty, Uncertainty + 1}, Settled',
         Uncertainty' = Uncertainty + 1 \/ NoneReadier
  PROVE  CronInv'
<1>1. /\ tasks' \in Seq(Tasks(Len(versions))) /\ Len(tasks') = Len(tasks) /\ DOMAIN tasks' = DOMAIN tasks
      /\ \A u \in DOMAIN tasks : u # t => tasks'[u] = tasks[u]
      /\ tasks'[t].name = tasks[t].name /\ tasks'[t].version = tasks[t].version
      /\ tasks'[t].st = st
  BY Moved
<1>2. /\ tasks[t].name \in Names /\ Len(tasks) \in Nat /\ Len(versions) \in Nat
      /\ named \in [Names -> 0..Len(tasks)] /\ listed \in [Names -> 0..Len(versions)]
      /\ server \in {"down", "synced", "unsynced"}
  BY OfTask, RowFacts
<1>3. /\ listed' \in [Names -> 0..Len(versions)] /\ named' \in [Names -> 0..Len(tasks)]
      /\ \A n \in Names : listed'[n] \in {0, listed[n]}
      /\ \A n \in Names : n # tasks[t].name => listed'[n] = listed[n] /\ named'[n] = named[n]
  <2>1. 0 \in 0..Len(versions) /\ 0 \in 0..Len(tasks)
    BY <1>2
  <2>2. QED
    BY <1>2, <2>1 DEF Leaves
<1>4. ASSUME NEW u \in DOMAIN tasks' PROVE Continues(u)
  <2>1. CASE u = t
    BY <1>1, <2>1 DEF Continues, Emitting, Live
  <2>2. CASE u # t
    <3>1. u \in DOMAIN tasks /\ tasks'[u] = tasks[u]
      BY <1>1, <2>2
    <3>2. Live(u) => tasks[u].name # tasks[t].name
      <4>1. Live(t)
        BY DEF Emitting, Live
      <4>2. QED
        BY <2>2, <3>1, <4>1, OfTask
    <3>3. tasks[u].name \in Names
      BY <3>1, OfTask
    <3>4. QED
      BY <1>3, <3>1, <3>2, <3>3 DEF Continues, Emitting, Live
  <2>3. QED
    BY <2>1, <2>2
<1>5. server' \in {"down", "synced", "unsynced"} /\ (server' = "down" => server = "down")
  BY <1>2
<1>6. QED
  BY <1>1, <1>3, <1>4, <1>5, TaskStep

LEMMA FailsStep == ASSUME CronInv, NEW t \in DOMAIN tasks, CompletedUnstored(t) \/ EmitRaises(t) PROVE CronInv'
<1>1. PICK st \in {"over", "dead"} :
        tasks' = [tasks EXCEPT ![t] = [tasks[t] EXCEPT !.st = st, !.mark = 0]]
  BY DEF CompletedUnstored, EmitRaises
<1>2. /\ UNCHANGED <<versions, row, server, fires, overtaken, minute>> /\ Emitting(t) /\ Fails
      /\ Leaves(t) \/ UNCHANGED <<listed, named>>
  BY DEF CompletedUnstored, EmitRaises, Emitting, Leaves
<1>3. count' \in Counts /\ Uncertainty' = Uncertainty + 1
  BY <1>2, CountsFail, RowFacts DEF Fails
<1>4. Settled'
  <2>1. \A n \in Names : listed'[n] \in {0, listed[n]}
    BY <1>2, OfTask DEF Leaves
  <2>2. QED
    BY <1>2, <2>1, GrowsBy, SettledStays, RowFacts DEF Settled
<1>5. row' \in [Names -> Rows(Len(versions))] /\ \A n \in Names : row'[n].version = row[n].version
  BY <1>2, RowFacts
<1>6. QED
  BY <1>1, <1>2, <1>3, <1>4, <1>5, Ends

LEMMA CompletedStep == ASSUME CronInv, NEW t \in DOMAIN tasks, Completed(t) PROVE CronInv'
<1>1. /\ tasks' = [tasks EXCEPT ![t] = [tasks[t] EXCEPT !.st = "over", !.mark = 0]]
      /\ UNCHANGED <<versions, server, fires, overtaken, minute, count>> /\ Emitting(t) /\ Live(t)
      /\ Leaves(t) /\ versions[tasks[t].version].once /\ row' = Deactivated(tasks[t].name)
  BY DEF Completed, Emitting, Live, Leaves, VersionOf
<1>2. PICK n0 : n0 = tasks[t].name
  OBVIOUS
<1>3. n0 \in Names /\ listed[n0] = tasks[t].version /\ tasks[t].version \in 1..Len(versions) /\ listed'[n0] = 0
  BY <1>1, <1>2, OfTask DEF Leaves
<1>4. /\ \A n \in Names : n # n0 => row'[n] = row[n]
      /\ row' \in [Names -> Rows(Len(versions))] /\ \A n \in Names : row'[n].version = row[n].version
      /\ row'[n0].deleted = row[n0].deleted
      /\ row[n0].version = 0 \/ row[n0].deleted \/ ~ row'[n0].active
  <2>1. CASE row[n0].version = 0 \/ row[n0].deleted
    BY <1>1, <1>2, <2>1, RowFacts DEF Deactivated
  <2>2. CASE ~ (row[n0].version = 0 \/ row[n0].deleted)
    <3>1. PICK r : r = row[n0]
      OBVIOUS
    <3>2. r \in Rows(Len(versions))
      BY <1>3, <3>1, RowFacts
    <3>3. PICK off : off = [r EXCEPT !.active = FALSE]
      OBVIOUS
    <3>4. off \in Rows(Len(versions)) /\ off.version = r.version /\ off.deleted = r.deleted /\ off.active = FALSE
      BY <3>2, <3>3 DEF Rows
    <3>5. row' = [row EXCEPT ![n0] = off]
      BY <1>1, <1>2, <2>2, <3>1, <3>3 DEF Deactivated
    <3>6. QED
      BY <1>3, <3>1, <3>4, <3>5, RowFacts
  <2>3. QED
    BY <2>1, <2>2
<1>5. \A n \in Names : n # n0 => listed'[n] = listed[n]
  BY <1>1, <1>2, OfTask DEF Leaves
<1>6. NoneReadier
  <2>1. /\ \A u \in DOMAIN tasks : u # t => tasks'[u] = tasks[u]
        /\ DOMAIN tasks' = DOMAIN tasks /\ tasks'[t].st = "over"
    BY <1>1, Moved
  <2>2. \A v : Startable(v)' => Startable(v)
    BY <1>4, <1>5 DEF Startable, Active
  <2>3. ASSUME NEW v \in 1..Len(versions), OnceReady(v)' PROVE OnceReady(v)
    BY <2>1, <2>2, <2>3 DEF OnceReady
  <2>4. ASSUME NEW v \in 1..Len(versions), MinuteReady(v)' PROVE MinuteReady(v)
    BY <1>1, <2>1, <2>2, <2>4 DEF MinuteReady, Live
  <2>5. QED
    BY <2>3, <2>4 DEF NoneReadier
<1>7. Settled'
  <2>1. ASSUME NEW n \in Names, n # n0 PROVE SettledAt(n)'
    BY <1>1, <1>4, <1>5, <2>1, GrowsBy, SettledStays, RowFacts
  <2>2. SettledAt(n0)'
    <3>1. fires[listed[n0]] # <<>>
      BY <1>1, <1>3 DEF CronInv, FiredFirst
    <3>2. listed[n0] # 0 /\ SettledAt(n0) /\ versions[listed[n0]].once
      BY <1>1, <1>3, RowFacts DEF CronInv, Settled
    <3>3. QED
      BY <1>1, <1>3, <1>4, <3>1, <3>2 DEF SettledAt
  <2>3. QED
    BY <2>1, <2>2 DEF Settled
<1>8. count' \in Counts /\ Uncertainty' = Uncertainty
  BY <1>1, CountsStay, RowFacts
<1>9. QED
  BY <1>1, <1>4, <1>6, <1>7, <1>8, Ends

-----------------------------------------------------------------------------
(* A task fires, and time passes *)

LEMMA FireStep == ASSUME CronInv, NEW t \in DOMAIN tasks, Fire(t) PROVE CronInv'
<1>1. PICK w : w = tasks[t].version
  OBVIOUS
<1>2. PICK mark : mark = IF versions[w].kind = "cron" THEN minute ELSE tasks[t].mark
  OBVIOUS
<1>3. /\ UNCHANGED <<versions, row, listed, named, server, overtaken, minute, count>>
      /\ tasks[t].st = "waiting" /\ (versions[w].kind = "cron" => tasks[t].mark # minute)
      /\ tasks' = [tasks EXCEPT ![t] = [tasks[t] EXCEPT !.st = "first", !.mark = mark]]
      /\ fires' = [fires EXCEPT ![w] = Append(fires[w], minute)]
  BY <1>1, <1>2 DEF Fire, Due, VersionOf, MarkFired
<1>4. /\ TypeOK /\ minute \in Nat /\ minute \in 1..MaxMinute /\ Uncertainty \in Nat
      /\ w \in 1..Len(versions) /\ mark \in Nat /\ Live(t)
      /\ DOMAIN fires = 1..Len(versions) /\ DOMAIN versions = 1..Len(versions) /\ Len(fires) = Len(versions)
      /\ fires[w] \in Seq(1..MaxMinute)
  <2>1. w \in 1..Len(versions) /\ tasks[t].mark \in Nat /\ TypeOK
    BY <1>1, OfTask, RowFacts
  <2>2. /\ minute \in Nat /\ minute \in 1..MaxMinute /\ Uncertainty \in Nat
        /\ DOMAIN fires = DOMAIN versions /\ DOMAIN versions = 1..Len(versions) /\ Len(fires) = Len(versions)
        /\ \A v \in DOMAIN versions : fires[v] \in Seq(1..MaxMinute)
    BY <2>1, Sizes
  <2>3. mark \in Nat /\ Live(t)
    BY <1>2, <1>3, <2>1, <2>2 DEF Live
  <2>4. QED
    BY <2>1, <2>2, <2>3
<1>5. /\ tasks' \in Seq(Tasks(Len(versions))) /\ Len(tasks') = Len(tasks) /\ DOMAIN tasks' = DOMAIN tasks
      /\ \A u \in DOMAIN tasks : u # t => tasks'[u] = tasks[u]
      /\ tasks'[t].name = tasks[t].name /\ tasks'[t].version = w
      /\ tasks'[t].st = "first" /\ tasks'[t].mark = mark
  BY <1>1, <1>3, <1>4, Moved
<1>6. PICK old : old = fires[w]
  OBVIOUS
<1>7. PICK fired : fired = Append(old, minute)
  OBVIOUS
<1>8. /\ fired \in Seq(1..MaxMinute) /\ Len(fired) = Len(old) + 1 /\ Len(old) \in Nat /\ fired # <<>>
      /\ \A i \in DOMAIN fired : fired[i] = minute \/ (i \in DOMAIN old /\ fired[i] = old[i])
  <2>1. old \in Seq(1..MaxMinute) /\ minute \in 1..MaxMinute
    BY <1>4, <1>6
  <2>2. /\ fired \in Seq(1..MaxMinute) /\ Len(fired) = Len(old) + 1 /\ Len(old) \in Nat
        /\ fired[Len(old) + 1] = minute
        /\ \A i \in DOMAIN fired : i # Len(old) + 1 => i \in DOMAIN old /\ fired[i] = old[i]
    BY <1>7, <2>1, Added
  <2>3. fired # <<>>
    <3>1. Len(fired) # 0
      BY <2>2
    <3>2. QED
      BY <3>1
  <2>4. QED
    BY <2>2, <2>3
<1>9. /\ fires' \in Seq(Seq(1..MaxMinute)) /\ Len(fires') = Len(fires) /\ DOMAIN fires' = DOMAIN fires
      /\ \A v \in DOMAIN fires : fires'[v] = IF v = w THEN fired ELSE fires[v]
  <2>1. PICK new : new = fires'
    OBVIOUS
  <2>2. PICK S : S = Seq(1..MaxMinute)
    OBVIOUS
  <2>3. new = [fires EXCEPT ![w] = fired] /\ fired \in S /\ fires \in Seq(S) /\ w \in DOMAIN fires
    BY <1>3, <1>4, <1>6, <1>7, <1>8, <2>1, <2>2, Sizes
  <2>4. /\ new \in Seq(S) /\ Len(new) = Len(fires) /\ DOMAIN new = DOMAIN fires
        /\ \A v \in DOMAIN fires : new[v] = IF v = w THEN fired ELSE fires[v]
    BY <2>3, Replaced
  <2>5. QED
    BY <2>1, <2>2, <2>4
<1>10. TypeOK'
  BY <1>3, <1>4, <1>5, <1>9 DEF TypeOK, Tasks
<1>11. OneTaskPerName' /\ Clean' /\ Configures' /\ Owned'
  <2>1. OneTaskPerName'
    <3>1. ASSUME NEW u \in DOMAIN tasks', Live(u)'
          PROVE  named'[tasks'[u].name] = u /\ listed'[tasks'[u].name] = tasks'[u].version
      <4>1. u \in DOMAIN tasks /\ Live(u) /\ tasks'[u].name = tasks[u].name /\ tasks'[u].version = tasks[u].version
        BY <1>1, <1>4, <1>5, <3>1 DEF Live
      <4>2. QED
        BY <1>3, <4>1, OfTask
    <3>2. QED
      BY <3>1 DEF OneTaskPerName
  <2>2. QED
    BY <1>3, <2>1 DEF CronInv, Clean, Configures, Owned, Has
<1>12. FiredFirst'
  <2>1. ASSUME NEW u \in DOMAIN tasks', Emitting(u)' PROVE fires'[tasks'[u].version] # <<>>
    <3>1. CASE u = t
      BY <1>4, <1>5, <1>8, <1>9, <3>1
    <3>2. CASE u # t
      <4>1. u \in DOMAIN tasks /\ tasks'[u] = tasks[u] /\ Emitting(u)
        BY <1>5, <2>1, <3>2 DEF Emitting
      <4>2. fires[tasks[u].version] # <<>> /\ tasks[u].version \in 1..Len(versions)
        BY <4>1, OfTask DEF CronInv, FiredFirst
      <4>3. QED
        BY <1>4, <1>8, <1>9, <4>1, <4>2
    <3>3. QED
      BY <3>1, <3>2
  <2>2. QED
    BY <2>1 DEF FiredFirst
<1>13. Past'
  <2>1. \A v \in DOMAIN fires : \A i \in DOMAIN fires[v] : fires[v][i] <= minute
    BY DEF CronInv, Past
  <2>2. \A i \in DOMAIN fired : fired[i] <= minute
    BY <1>4, <1>6, <1>8, <2>1
  <2>3. QED
    BY <1>3, <1>9, <2>1, <2>2 DEF Past
<1>14. Settled'
  <2>1. ASSUME NEW n \in Names PROVE SettledAt(n)'
    <3>1. SettledAt(n) /\ row[n].version \in 0..Len(versions)
      BY RowFacts DEF CronInv, Settled
    <3>2. row[n].version # 0 => row[n].version \in DOMAIN fires
      BY <1>4, <3>1, RowFacts
    <3>3. row[n].version # 0 /\ fires[row[n].version] # <<>> => fires'[row[n].version] # <<>>
      BY <1>8, <1>9, <3>2
    <3>4. QED
      BY <1>3, <3>1, <3>3 DEF SettledAt
  <2>2. QED
    BY <2>1 DEF Settled
<1>15. Measured'
  <2>1. Uncertainty' = Uncertainty /\ DOMAIN versions' = DOMAIN versions
    BY <1>3 DEF Uncertainty
  <2>2. ASSUME NEW v \in DOMAIN versions, v # w PROVE OnceMeasured(v)' /\ MinuteMeasured(v)'
    <3>1. fires'[v] = fires[v] /\ OnceMeasured(v) /\ MinuteMeasured(v)
      BY <1>4, <1>9, <2>2 DEF CronInv, Measured
    <3>2. Startable(v)' => Startable(v)
      BY <1>3 DEF Startable, Active
    <3>3. OnceReady(v)' => OnceReady(v)
      BY <1>5, <2>2, <3>2 DEF OnceReady
    <3>4. MinuteReady(v)' => MinuteReady(v)
      <4>1. ASSUME NEW u \in DOMAIN tasks', tasks'[u].version = v, Live(u)', tasks'[u].mark # minute PROVE MinuteReady(v)
        <5>1. u # t /\ tasks'[u] = tasks[u] /\ u \in DOMAIN tasks
          BY <1>5, <2>2, <4>1
        <5>2. QED
          BY <4>1, <5>1 DEF MinuteReady, Live
      <4>2. QED
        BY <1>3, <3>2, <4>1 DEF MinuteReady
    <3>5. OnceMeasured(v)'
      BY <1>3, <2>1, <3>1, <3>3 DEF OnceMeasured
    <3>6. \A m : InMinute(v, m)' = InMinute(v, m)
      BY <3>1 DEF InMinute
    <3>7. MinuteMeasured(v)'
      BY <1>3, <2>1, <3>1, <3>4, <3>6 DEF MinuteMeasured
    <3>8. QED
      BY <3>5, <3>7
  <2>3. versions[w].once \/ versions[w].kind = "cron" => w # 1
    BY FirstVersion
  <2>4. /\ OnceReady(w)
        /\ versions[w].kind = "cron" => MinuteReady(w)
        /\ OnceMeasured(w) /\ MinuteMeasured(w)
    BY <1>1, <1>3, <1>4 DEF OnceReady, MinuteReady, CronInv, Measured
  <2>5. ASSUME w # 1
        PROVE  ~ OnceReady(w)' /\ (versions[w].kind = "cron" => ~ MinuteReady(w)')
    <3>1. ~ Startable(w) /\ \A u \in DOMAIN tasks : Live(u) /\ tasks[u].version = w => u = t
      BY <1>1, <1>4, <2>5, Alone
    <3>2. ~ Startable(w)'
      BY <1>3, <3>1 DEF Startable, Active
    <3>3. ~ OnceReady(w)'
      BY <1>5, <3>1, <3>2 DEF OnceReady, Live
    <3>4. versions[w].kind = "cron" => mark = minute
      BY <1>2
    <3>5. versions[w].kind = "cron" => ~ MinuteReady(w)'
      BY <1>3, <1>5, <3>1, <3>2, <3>4 DEF MinuteReady, Live
    <3>6. QED
      BY <3>3, <3>5
  <2>6. OnceMeasured(w)'
    <3>1. versions[w].once => Len(old) <= Uncertainty
      BY <1>6, <2>4 DEF OnceMeasured
    <3>2. versions[w].once => Len(fired) <= 1 + Uncertainty
      BY <1>4, <1>8, <3>1
    <3>3. fires'[w] = fired
      BY <1>4, <1>9
    <3>4. QED
      BY <1>3, <2>1, <2>3, <2>5, <3>2, <3>3 DEF OnceMeasured
  <2>7. MinuteMeasured(w)'
    <3> SUFFICES ASSUME versions[w].kind = "cron" PROVE MinuteMeasured(w)'
      BY <1>3 DEF MinuteMeasured
    <3>1. /\ \A m \in 1..MaxMinute : Times(old, m) <= 1 + Uncertainty
          /\ Times(old, minute) <= Uncertainty
      BY <1>6, <2>4 DEF MinuteMeasured, InMinute, Times
    <3>2. \A m : /\ Times(fired, m) <= Times(old, m) + 1 /\ (minute # m => Times(fired, m) <= Times(old, m))
                 /\ Times(old, m) \in Nat /\ Times(fired, m) \in Nat
      <4>0. PICK S : S = 1..MaxMinute
        OBVIOUS
      <4>1. old \in Seq(S) /\ minute \in S /\ fired \in Seq(S)
        BY <1>4, <1>6, <1>8, <4>0
      <4>2. ASSUME NEW m
            PROVE  Times(fired, m) <= Times(old, m) + 1 /\ (minute # m => Times(fired, m) <= Times(old, m))
        <5>1. PICK now : now = minute
          OBVIOUS
        <5>2. now \in S /\ fired = Append(old, now)
          BY <1>7, <4>1, <5>1
        <5>3. Times(fired, m) <= Times(old, m) + 1
          BY <4>1, <5>2, TimesAdded
        <5>4. now # m => Times(fired, m) <= Times(old, m)
          BY <4>1, <5>2, TimesAdded
        <5>5. QED
          BY <5>1, <5>3, <5>4
      <4>3. ASSUME NEW m PROVE Times(old, m) \in Nat /\ Times(fired, m) \in Nat
        BY <4>1, TimesCounted
      <4>4. QED
        BY <4>2, <4>3
    <3>3. ASSUME NEW m \in 1..MaxMinute PROVE Times(fired, m) <= 1 + Uncertainty
      BY <1>4, <3>1, <3>2
    <3>4. \A m : InMinute(w, m)' = Times(fired, m)
      <4>1. fires'[w] = fired
        BY <1>4, <1>9
      <4>2. QED
        BY <4>1 DEF InMinute, Times
    <3>5. QED
      BY <1>3, <2>1, <2>3, <2>5, <3>3, <3>4 DEF MinuteMeasured
  <2>8. QED
    BY <2>1, <2>2, <2>6, <2>7 DEF Measured
<1>16. QED
  BY <1>10, <1>11, <1>12, <1>13, <1>14, <1>15 DEF CronInv

LEMMA MinuteStep == ASSUME CronInv, Minute PROVE CronInv'
<1>1. /\ minute < MaxMinute /\ minute' = minute + 1
      /\ UNCHANGED <<versions, row, listed, named, tasks, server, fires, overtaken, count>>
  BY DEF Minute
<1>2. /\ TypeOK /\ minute \in Nat /\ minute \in 1..MaxMinute /\ MaxMinute \in Nat /\ Uncertainty \in Nat
      /\ DOMAIN fires = DOMAIN versions
      /\ \A v \in DOMAIN versions : fires[v] \in Seq(1..MaxMinute)
  BY RowFacts, Sizes
<1>3. Grown /\ minute' \in Nat /\ minute <= minute' /\ minute' \in 1..MaxMinute
  BY <1>1, <1>2, GrowsBy
<1>4. TypeOK'
  BY <1>1, <1>2, <1>3 DEF TypeOK
<1>5. OneTaskPerName' /\ Configures' /\ Clean' /\ Owned' /\ FiredFirst' /\ Settled'
  BY <1>1 DEF CronInv, OneTaskPerName, Live, Configures, Clean, Owned, Has, FiredFirst, Emitting, Settled, SettledAt
<1>6. Past'
  BY <1>3, PastStays
<1>7. Measured'
  <2>1. Uncertainty' = Uncertainty
    BY <1>1 DEF Uncertainty
  <2>2. ASSUME NEW v \in DOMAIN versions PROVE OnceMeasured(v)' /\ MinuteMeasured(v)'
    <3>1. OnceMeasured(v) /\ MinuteMeasured(v)
      BY DEF CronInv, Measured
    <3>2. OnceMeasured(v)'
      BY <1>1, <2>1, <3>1 DEF OnceMeasured, OnceReady, Startable, Active
    <3>3. \A m : InMinute(v, m)' = InMinute(v, m)
      BY <1>1 DEF InMinute
    <3>4. InMinute(v, minute') = 0
      <4>1. PICK f : f = fires[v]
        OBVIOUS
      <4>2. f \in Seq(1..MaxMinute) /\ \A i \in DOMAIN f : f[i] <= minute
        BY <1>2, <4>1 DEF CronInv, Past
      <4>3. ASSUME NEW i \in DOMAIN f PROVE f[i] # minute'
        <5>1. DOMAIN f = 1..Len(f) /\ f[i] \in 1..MaxMinute /\ f[i] <= minute
          BY <4>2, LenProperties, ElementOfSeq
        <5>2. QED
          BY <1>1, <1>2, <5>1
      <4>4. PICK now : now = minute'
        OBVIOUS
      <4>5. Times(f, now) = 0
        BY <4>3, <4>4, TimesNone
      <4>6. QED
        BY <4>1, <4>4, <4>5 DEF InMinute, Times
    <3>5. InMinute(v, minute)' <= Uncertainty
      <4>1. InMinute(v, minute)' = InMinute(v, minute')
        BY <1>1 DEF InMinute
      <4>2. QED
        BY <1>2, <3>4, <4>1
    <3>6. MinuteMeasured(v)'
      BY <1>1, <2>1, <3>1, <3>3, <3>5 DEF MinuteMeasured
    <3>7. QED
      BY <3>2, <3>6
  <2>3. QED
    BY <1>1, <2>2 DEF Measured
<1>8. QED
  BY <1>4, <1>5, <1>6, <1>7 DEF CronInv

LEMMA Same == ASSUME CronInv, UNCHANGED vars PROVE CronInv'
<1>1. UNCHANGED <<versions, row, listed, named, tasks, server, fires, overtaken, minute, count>>
  BY DEF vars
<1>2. TypeOK' /\ OneTaskPerName' /\ Configures' /\ Clean' /\ Owned'
  BY <1>1 DEF CronInv, TypeOK, OneTaskPerName, Live, Configures, Clean, Owned, Has
<1>3. FiredFirst' /\ Past' /\ Settled'
  BY <1>1 DEF CronInv, FiredFirst, Emitting, Past, Settled, SettledAt
<1>4. Measured'
  BY <1>1, ZenonT(30) DEF CronInv, Measured, OnceMeasured, MinuteMeasured, OnceReady, MinuteReady, Startable, Active, Live,
              InMinute, Uncertainty
<1>5. QED
  BY <1>2, <1>3, <1>4 DEF CronInv

LEMMA Started == Init => CronInv
<1> SUFFICES ASSUME Init PROVE CronInv
  OBVIOUS
<1>1. /\ versions = <<ConfiguredVersion>> /\ row = [n \in Names |-> NoRow]
      /\ listed = [n \in Names |-> 0] /\ named = [n \in Names |-> 0]
      /\ tasks = <<>> /\ server = "down" /\ fires = <<<<>>>> /\ overtaken = {} /\ minute = 1
      /\ count = [writes |-> 0, downs |-> 0, faults |-> 0]
  BY DEF Init
<1>2. /\ MaxWrites \in Nat /\ MaxDowns \in Nat /\ MaxFaults \in Nat /\ MaxMinute \in Nat /\ MaxMinute # 0
  BY CronAssumption
<1>3. /\ versions \in Seq(Jobs) /\ Len(versions) = 1 /\ DOMAIN versions = 1..1 /\ versions[1] = ConfiguredVersion
  <2>1. ConfiguredVersion \in Jobs
    BY DEF ConfiguredVersion, Jobs, Kinds
  <2>2. QED
    BY <1>1, <2>1
<1>4. /\ fires \in Seq(Seq(1..MaxMinute)) /\ Len(fires) = 1 /\ DOMAIN fires = 1..1 /\ fires[1] = <<>>
  <2>1. PICK S : S = Seq(1..MaxMinute)
    OBVIOUS
  <2>2. <<>> \in S
    BY <2>1, EmptySeq
  <2>3. QED
    BY <1>1, <2>1, <2>2
<1>5. /\ Len(tasks) = 0 /\ DOMAIN tasks = {} /\ \A T : tasks \in Seq(T)
  BY <1>1, EmptySeq
<1>6. TypeOK
  <2>1. NoRow \in Rows(1)
    BY DEF NoRow, Rows
  <2>2. row \in [Names -> Rows(1)] /\ listed \in [Names -> 0..1] /\ named \in [Names -> 0..0]
    BY <1>1, <2>1
  <2>3. minute \in 1..MaxMinute /\ count \in Counts
    BY <1>1, <1>2 DEF Counts
  <2>4. QED
    BY <1>1, <1>3, <1>4, <1>5, <2>2, <2>3 DEF TypeOK, Rows, Jobs, Counts
<1>7. OneTaskPerName /\ FiredFirst
  BY <1>5 DEF OneTaskPerName, FiredFirst
<1>8. Configures /\ Clean /\ Owned
  BY <1>1, <1>3 DEF Configures, Clean, Owned
<1>9. Past
  <2>1. \A v \in DOMAIN fires : fires[v] = <<>>
    BY <1>4
  <2>2. QED
    BY <2>1 DEF Past
<1>10. Settled
  BY <1>1 DEF Settled, SettledAt, NoRow
<1>11. Measured
  <2>1. ~ versions[1].once /\ versions[1].kind # "cron" /\ \A v \in DOMAIN versions : v = 1
    BY <1>3 DEF ConfiguredVersion
  <2>2. QED
    BY <2>1 DEF Measured, OnceMeasured, MinuteMeasured
<1>12. QED
  BY <1>6, <1>7, <1>8, <1>9, <1>10, <1>11 DEF CronInv

LEMMA Steps == CronInv /\ [Next]_vars => CronInv'
<1> SUFFICES ASSUME CronInv, [Next]_vars PROVE CronInv'
  OBVIOUS
<1>1. CASE Start
  BY <1>1, StartStep
<1>2. CASE Down
  BY <1>2, DownStep
<1>3. CASE Sync
  BY <1>3, SyncStep
<1>4. CASE SyncDies
  BY <1>4, SyncDiesStep
<1>5. CASE Write
  <2>1. ASSUME NEW n \in Names, NEW c \in Contents, HttpUpsert(n, c) \/ HttpUpsertFails(n, c) PROVE CronInv'
    BY <2>1, HttpUpsertStep
  <2>2. ASSUME NEW n \in Names, NEW c \in Contents, RuleUpsert(n, c) PROVE CronInv'
    BY <2>2, RuleUpsertStep
  <2>3. ASSUME NEW n \in Names, HttpDelete(n) \/ HttpDeleteFails(n) PROVE CronInv'
    BY <2>3, HttpDeleteStep
  <2>4. QED
    BY <1>5, <2>1, <2>2, <2>3 DEF Write
<1>6. CASE Minute
  BY <1>6, MinuteStep
<1>7. ASSUME NEW t \in DOMAIN tasks, Run(t) \/ EmitRaises(t) PROVE CronInv'
  BY <1>7, FireStep, SecondStep, AgainStep, CompletedStep, FailsStep DEF Run
<1>8. CASE UNCHANGED vars
  BY <1>8, Same
<1>9. QED
  BY <1>1, <1>2, <1>3, <1>4, <1>5, <1>6, <1>7, <1>8 DEF Next

\* Every step of the scheduler, of its tasks, of the writers and of the clock keeps the
\* invariant (trigger_scheduler.py, api.py:216-227).
THEOREM Invariant == Spec => []CronInv
BY Started, Steps, PTL DEF Spec

-----------------------------------------------------------------------------
(* What the invariant says *)

\* A task that can still fire is the only one of its name and runs what is listed there
\* (trigger_scheduler.py:337): no replacement, removal, completion or restart of jobs leaves
\* a second task behind.
THEOREM OneTask == Spec => []OneTaskPerName
<1>1. CronInv => OneTaskPerName
  BY DEF CronInv
<1>2. QED
  BY <1>1, Invariant, PTL

\* The state keeps its types, and a job to fire once fires once and a cron job at most once
\* in a minute, but for one time more with every stop of the server and every failed write
\* or emission (trigger_scheduler.py:72-90, 449, api.py:216-227).
THEOREM FiredInMeasure == Spec => []FiresInMeasure
<1>1. CronInv => FiresInMeasure
  BY DEF CronInv, FiresInMeasure, Measured, OnceMeasured, MinuteMeasured
<1>2. QED
  BY <1>1, Invariant, PTL

\* A job that is switched off has fired, or was written under the name of another job about
\* to fire its last time (api.py:224).
THEOREM OffAfterFiring == Spec => []SwitchedOffAfterFiring
<1>1. CronInv => SwitchedOffAfterFiring
  BY DEF CronInv, SwitchedOffAfterFiring, Settled, SettledAt
<1>2. QED
  BY <1>1, Invariant, PTL
=============================================================================
