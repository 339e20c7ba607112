---------------------------- MODULE CronScheduler ----------------------------
(***************************************************************************)
(* Cron jobs of the runtime server: rows of a SQLite table, the scheduler's *)
(* asyncio task for each job, and the loop that aligns the second with the  *)
(* first every two seconds.  Jobs are written by the HTTP API, which writes *)
(* both, and by the rule service, which writes only the row.                *)
(*                                                                          *)
(* A job is a version: its number and what matters of its contents, whether *)
(* its schedule is a cron expression or an interval, and whether it is to   *)
(* fire once.  No two versions are equal to the sync loop, which compares    *)
(* contents.  Cron expressions match every minute and an interval is a      *)
(* minute.  Firing is the emission of two events, during which other        *)
(* coroutines run.  A synchronous section of the server is one step.        *)
(***************************************************************************)
EXTENDS Naturals, FiniteSets, SequencesExt

CONSTANTS
  Names,        \* names of jobs
  Contents,     \* what jobs are written: records [kind, once]
  Configured,   \* names given to the server at its start, outside the table
  MaxWrites, MaxDowns, MaxFaults, MaxMinute

Kinds == {"cron", "interval"}
ASSUME CronAssumption ==
  /\ Contents \subseteq [kind : Kinds, once : BOOLEAN] /\ Configured \subseteq Names
  /\ {MaxWrites, MaxDowns, MaxFaults} \subseteq Nat /\ MaxMinute \in Nat \ {0} /\ IsFiniteSet(Names)

VARIABLES
  versions,   \* every version written, in order; the first is the configured one
  row,        \* the row of each name: its version, active, deleted
  listed,     \* _cron_jobs: the version scheduled under each name, or 0
  named,      \* _cron_tasks: the task scheduled under each name, or 0
  tasks,      \* every task created, in order
  server,     \* the server is up, its sync loop runs or has died
  fires,      \* the minutes in which each version fired, in order
  overtaken,  \* versions whose row and another version's one last firing share a name
  minute,     \* the clock
  count       \* writes, stops, failures so far

vars == <<versions, row, listed, named, tasks, server, fires, overtaken, minute, count>>

NoRow == [version |-> 0, active |-> FALSE, deleted |-> FALSE]
Active(n) == row[n].version # 0 /\ row[n].active /\ ~ row[n].deleted
ConfiguredVersion == [kind |-> "interval", once |-> FALSE]

Init ==
  /\ versions = <<ConfiguredVersion>>
  /\ row = [n \in Names |-> NoRow]
  /\ listed = [n \in Names |-> 0] /\ named = [n \in Names |-> 0]
  /\ tasks = <<>> /\ server = "down"
  /\ fires = <<<<>>>> /\ overtaken = {} /\ minute = 1
  /\ count = [writes |-> 0, downs |-> 0, faults |-> 0]

Up == server # "down"
Live(t) == tasks[t].st \in {"waiting", "first", "second"}
Fails == count.faults < MaxFaults /\ count' = [count EXCEPT !.faults = @ + 1]

-----------------------------------------------------------------------------
(* The scheduler *)

\* A task that has not fired: a cron task fires in its first minute, an interval in the next.
NewTask(n, v) ==
  [name |-> n, version |-> v, st |-> "waiting",
   mark |-> IF versions'[v].kind = "cron" THEN 0 ELSE minute + 1]

\* Variant for sensitivity: the task that is replaced is not cancelled.
CancelledNone(names) == tasks

\* cancel(): the task raises where it waits, and ends.
CancelledTasks(names) ==
  [t \in DOMAIN tasks |->
     IF Live(t) /\ t \in {named[n] : n \in names} THEN [tasks[t] EXCEPT !.st = "over", !.mark = 0] ELSE tasks[t]]

\* upsert_cron_job for every name of a function from names to versions, and
\* remove_cron_job for every name of a set.
Schedule(wanted, removed) ==
  LET started == SetToSeq(DOMAIN wanted) IN
  /\ tasks' = CancelledTasks(DOMAIN wanted \cup removed)
                \o [i \in DOMAIN started |-> NewTask(started[i], wanted[started[i]])]
  /\ listed' = [n \in Names |-> IF n \in DOMAIN wanted THEN wanted[n] ELSE IF n \in removed THEN 0 ELSE listed[n]]
  /\ named' = [n \in Names |->
                 IF n \in DOMAIN wanted THEN Len(tasks) + (CHOOSE i \in DOMAIN started : started[i] = n)
                 ELSE IF n \in removed THEN 0 ELSE named[n]]

\* The versions of the active rows of a set of names.
Wanted(names) == [n \in {m \in names : Active(m)} |-> row[n].version]

\* lifespan: the active rows, then the configured jobs over them; the sync loop starts.
Start ==
  /\ server = "down"
  /\ server' = "synced"
  /\ UNCHANGED <<versions, row, fires, overtaken, minute, count>>
  /\ Schedule([n \in Configured \cup DOMAIN Wanted(Names) |->
                 IF n \in Configured THEN 1 ELSE row[n].version], {})

\* A crash, or stop: every task ends, whatever it was doing.
Down ==
  /\ Up /\ count.downs < MaxDowns /\ count' = [count EXCEPT !.downs = @ + 1]
  /\ server' = "down"
  /\ tasks' = [t \in DOMAIN tasks |-> [tasks[t] EXCEPT !.st = "over", !.mark = 0]]
  /\ listed' = [n \in Names |-> 0] /\ named' = [n \in Names |-> 0]
  /\ UNCHANGED <<versions, row, fires, overtaken, minute>>

Stale == {n \in Names : listed[n] # 0 /\ ~ Active(n)}
Changed == {n \in Names : Active(n) /\ listed[n] # row[n].version}

\* Variant for sensitivity: a job that changed is left alone.
SyncAdds ==
  /\ server = "synced" /\ Stale \cup Changed # {}
  /\ UNCHANGED <<versions, row, server, fires, overtaken, minute, count>>
  /\ Schedule(Wanted({n \in Changed : listed[n] = 0}), Stale)

\* Variant for sensitivity: jobs that are gone stay scheduled.
SyncKeeps ==
  /\ server = "synced" /\ Changed # {}
  /\ UNCHANGED <<versions, row, server, fires, overtaken, minute, count>>
  /\ Schedule(Wanted(Changed), {})

\* _sync_cron_scheduler_from_store.
Sync ==
  /\ server = "synced" /\ Stale \cup Changed # {}
  /\ UNCHANGED <<versions, row, server, fires, overtaken, minute, count>>
  /\ Schedule(Wanted(Changed), Stale)

\* The table cannot be read: the exception ends the loop for as long as the server runs.
SyncDies ==
  /\ server = "synced" /\ Fails
  /\ server' = "unsynced"
  /\ UNCHANGED <<versions, row, listed, named, tasks, fires, overtaken, minute>>

-----------------------------------------------------------------------------
(* Writing and deleting jobs *)

Written(c) ==
  /\ count.writes < MaxWrites
  /\ versions' = Append(versions, c) /\ fires' = Append(fires, <<>>)
NewVersion == Len(versions) + 1

\* Variant for sensitivity: an update leaves is_active as it is.
StoredAsIs(n) ==
  [row EXCEPT ![n] = [version |-> NewVersion, active |-> row[n].version = 0 \/ row[n].active, deleted |-> FALSE]]

\* ConfigStore.upsert_cron_job of a name that was not deleted.
StoredRow(n) == [row EXCEPT ![n] = [version |-> NewVersion, active |-> TRUE, deleted |-> FALSE]]

\* POST: the task first, then the row.  The name of a deleted row cannot be inserted
\* again, and the task runs without a row until it is synchronized away.
HttpUpsert(n, c) ==
  /\ Up /\ Written(c)
  /\ count' = [count EXCEPT !.writes = @ + 1]
  /\ Schedule([m \in {n} |-> NewVersion], {})
  /\ row' = IF row[n].deleted THEN row ELSE StoredRow(n)
  /\ UNCHANGED <<server, overtaken, minute>>

\* The same with a table that cannot be written: the task runs all the same.
HttpUpsertFails(n, c) ==
  /\ Up /\ Written(c)
  /\ count.faults < MaxFaults /\ count' = [count EXCEPT !.writes = @ + 1, !.faults = @ + 1]
  /\ Schedule([m \in {n} |-> NewVersion], {})
  /\ overtaken' = IF c.once THEN overtaken \cup {row[n].version} ELSE overtaken
  /\ UNCHANGED <<row, server, minute>>

\* The rule service, in any process: the row only.
RuleUpsert(n, c) ==
  /\ ~ row[n].deleted /\ Written(c)
  /\ count' = [count EXCEPT !.writes = @ + 1]
  /\ row' = StoredRow(n)
  /\ overtaken' = IF listed[n] # 0 /\ versions[listed[n]].once THEN overtaken \cup {NewVersion} ELSE overtaken
  /\ UNCHANGED <<listed, named, tasks, server, minute>>

\* DELETE: the task, then the row.
HttpDelete(n) ==
  /\ Up /\ (listed[n] # 0 \/ (row[n].version # 0 /\ ~ row[n].deleted))
  /\ count.writes < MaxWrites /\ count' = [count EXCEPT !.writes = @ + 1]
  /\ row' = IF row[n].version = 0 \/ row[n].deleted THEN row
            ELSE [row EXCEPT ![n] = [version |-> @.version, active |-> FALSE, deleted |-> TRUE]]
  /\ UNCHANGED <<versions, server, fires, overtaken, minute>>
  /\ Schedule([m \in {} |-> 0], {n})

\* The same with a table that cannot be written: the job comes back with the next round.
HttpDeleteFails(n) ==
  /\ Up /\ count.writes < MaxWrites /\ count.faults < MaxFaults
  /\ count' = [count EXCEPT !.writes = @ + 1, !.faults = @ + 1]
  /\ UNCHANGED <<versions, row, server, fires, overtaken, minute>>
  /\ Schedule([m \in {} |-> 0], {n})

-----------------------------------------------------------------------------
(* A task: _run_cron or _run_periodic *)

VersionOf(t) == versions[tasks[t].version]
Due(t) ==
  /\ tasks[t].st = "waiting"
  /\ IF VersionOf(t).kind = "cron" THEN minute # tasks[t].mark ELSE minute >= tasks[t].mark

\* A cron task remembers the minute it fired in.
MarkFired(t) == IF VersionOf(t).kind = "cron" THEN minute ELSE tasks[t].mark

\* The first event is stored now.
Fire(t) ==
  /\ Due(t)
  /\ tasks' = [tasks EXCEPT ![t] = [@ EXCEPT !.st = "first", !.mark = MarkFired(t)]]
  /\ fires' = [fires EXCEPT ![tasks[t].version] = Append(@, minute)]
  /\ UNCHANGED <<versions, row, listed, named, server, overtaken, minute, count>>

\* The first event is handled: the generic one.
Second(t) ==
  /\ tasks[t].st = "first"
  /\ tasks' = [tasks EXCEPT ![t].st = "second"]
  /\ UNCHANGED <<versions, row, listed, named, server, fires, overtaken, minute, count>>

\* Variant for sensitivity: the minute is forgotten.
NextMark(t) == 0

\* The mark of a task that goes on: the next minute of an interval, however late it is.
MarkAfter(t) == IF VersionOf(t).kind = "cron" THEN tasks[t].mark ELSE tasks[t].mark + 1

Again(t) ==
  /\ tasks[t].st = "second" /\ ~ VersionOf(t).once
  /\ tasks' = [tasks EXCEPT ![t] = [@ EXCEPT !.st = "waiting", !.mark = MarkAfter(t)]]
  /\ UNCHANGED <<versions, row, listed, named, server, fires, overtaken, minute, count>>

\* set_cron_job_active(name, False), by name.
Deactivated(n) ==
  IF row[n].version = 0 \/ row[n].deleted THEN row ELSE [row EXCEPT ![n].active = FALSE]

\* _handle_one_shot_completion: the job and its task are dropped by name and the row of
\* that name is switched off.
Completed(t) ==
  /\ tasks[t].st = "second" /\ VersionOf(t).once
  /\ tasks' = [tasks EXCEPT ![t] = [@ EXCEPT !.st = "over", !.mark = 0]]
  /\ listed' = [listed EXCEPT ![tasks[t].name] = 0]
  /\ named' = [named EXCEPT ![tasks[t].name] = 0]
  /\ row' = Deactivated(tasks[t].name)
  /\ UNCHANGED <<versions, server, fires, overtaken, minute, count>>

\* The same with a table that cannot be written, which is ignored.
CompletedUnstored(t) ==
  /\ tasks[t].st = "second" /\ VersionOf(t).once /\ Fails
  /\ tasks' = [tasks EXCEPT ![t] = [@ EXCEPT !.st = "over", !.mark = 0]]
  /\ listed' = [listed EXCEPT ![tasks[t].name] = 0]
  /\ named' = [named EXCEPT ![tasks[t].name] = 0]
  /\ UNCHANGED <<versions, row, server, fires, overtaken, minute>>

\* Handling an event raises: the task ends and the job stays listed.
EmitRaises(t) ==
  /\ tasks[t].st \in {"first", "second"} /\ Fails
  /\ tasks' = [tasks EXCEPT ![t] = [@ EXCEPT !.st = "dead", !.mark = 0]]
  /\ UNCHANGED <<versions, row, listed, named, server, fires, overtaken, minute>>

Minute == minute < MaxMinute /\ minute' = minute + 1
          /\ UNCHANGED <<versions, row, listed, named, tasks, server, fires, overtaken, count>>

-----------------------------------------------------------------------------
Run(t) == Fire(t) \/ Second(t) \/ Again(t) \/ Completed(t) \/ CompletedUnstored(t)
Write ==
  \/ \E n \in Names, c \in Contents : HttpUpsert(n, c) \/ HttpUpsertFails(n, c) \/ RuleUpsert(n, c)
  \/ \E n \in Names : HttpDelete(n) \/ HttpDeleteFails(n)
Next ==
  \/ Start \/ Down \/ Sync \/ SyncDies \/ Write \/ Minute
  \/ \E t \in DOMAIN tasks : Run(t) \/ EmitRaises(t)

Spec == Init /\ [][Next]_vars

\* The server is started, its loop comes round, its tasks are run and time passes.
Fairness ==
  /\ WF_vars(Start) /\ WF_vars(Sync) /\ WF_vars(\E t \in DOMAIN tasks : Run(t)) /\ WF_vars(Minute)
FairSpec == Spec /\ Fairness

-----------------------------------------------------------------------------
(* Properties *)

\* Every variable stays in its set.
TypeOK ==
  /\ versions \in Seq([kind : Kinds, once : BOOLEAN])
  /\ row \in [Names -> [version : 0..Len(versions), active : BOOLEAN, deleted : BOOLEAN]]
  /\ listed \in [Names -> 0..Len(versions)]
  /\ named \in [Names -> 0..Len(tasks)]
  /\ tasks \in Seq([name : Names, version : 1..Len(versions), mark : Nat,
                    st : {"waiting", "first", "second", "over", "dead"}])
  /\ server \in {"down", "synced", "unsynced"}
  /\ fires \in Seq(Seq(1..MaxMinute)) /\ Len(fires) = Len(versions)
  /\ overtaken \subseteq 0..Len(versions)
  /\ minute \in 1..MaxMinute
  /\ count \in [writes : 0..MaxWrites, downs : 0..MaxDowns, faults : 0..MaxFaults]

\* A task that can still fire is the task of its name and runs the version listed there:
\* no replacement, removal, completion or restart leaves a second one (trigger_scheduler.py:337).
OneTaskPerName ==
  \A t \in DOMAIN tasks : Live(t) =>
    named[tasks[t].name] = t /\ listed[tasks[t].name] = tasks[t].version

Uncertainty == count.downs + count.faults
InMinute(v, m) == Cardinality({i \in DOMAIN fires[v] : fires[v][i] = m})

\* The state keeps its types, and a job to fire once fires once and a cron job at most
\* once in a minute, again only after a stop or a failed write in between
\* (trigger_scheduler.py:72-90, 449, api.py:216-227).
FiresInMeasure ==
  /\ TypeOK
  /\ \A v \in DOMAIN versions :
       /\ versions[v].once => Len(fires[v]) <= 1 + Uncertainty
       /\ versions[v].kind = "cron" =>
            \A m \in 1..MaxMinute : InMinute(v, m) <= 1 + Uncertainty

\* A job is switched off only after it fired, unless it was written under the name of a
\* job that was about to fire its last time and then switched it off (api.py:224).
SwitchedOffAfterFiring ==
  \A n \in Names : row[n].version # 0 /\ ~ row[n].active /\ ~ row[n].deleted =>
    fires[row[n].version] # <<>> \/ row[n].version \in overtaken

\* Once the writes and the stops are over, the scheduler holds exactly the active jobs of
\* the table, unless its loop has died.
SettlesAligned ==
  <>[](server = "unsynced" \/ \A n \in Names : listed[n] = IF Active(n) THEN row[n].version ELSE 0)

\* A cron job in the table fires, unless something replaces it or fails.
Holds(v) == \E n \in Names : row[n].version = v /\ Active(n)
CronJobsFire ==
  \A v \in 2..(MaxWrites + 1) :
    (Holds(v) /\ versions[v].kind = "cron") ~>
      (v \in DOMAIN fires /\ fires[v] # <<>>) \/ ~ Holds(v) \/ count.faults > 0

=============================================================================
