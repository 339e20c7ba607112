----------------------------- MODULE EventEngine -----------------------------
(***************************************************************************)
(* The event engine of the runtime: rules evaluated against stored events,  *)
(* with dedupe windows, cooldowns, a daily attention budget and approvals.  *)
(*                                                                          *)
(* Several processes (the server, an execution plane, the command line)     *)
(* each hold an engine over one SQLite database.  A handler is a coroutine  *)
(* of one engine: it keeps the event loop from one await that suspends to   *)
(* the next, while the SQL statements of the processes interleave freely.   *)
(* The approval.requested event is emitted inside the handler of the event  *)
(* that needs the approval, so a handler is a stack of frames.              *)
(*                                                                          *)
(* Abstracted: the contents of events and conditions (an event names the    *)
(* rules whose conditions it meets), the actions of a rule (one step with   *)
(* an outcome), the reload of rule files (the rules are fixed).  Rows of    *)
(* runs that were skipped are one pair per rule and event.                  *)
(***************************************************************************)
EXTENDS Naturals, FiniteSets, SequencesExt

CONSTANTS
  Engines,      \* processes with an engine over the shared database
  Handlers,     \* coroutines that handle an event
  Homes,        \* the ways handlers may be spread over engines
  Rules,        \* identifiers of rules
  Place,        \* the place of each rule in their list, highest priority first
  Rule,         \* the definition of each rule
  Subjects,     \* subjects of outside events
  Keys,         \* idempotency keys of outside events
  Meets,        \* the sets of rules whose conditions an outside event may meet
  DayLength,    \* ticks of a day
  MaxStarts,    \* bounds: handlers started,
  MaxTroubles,  \* crashes, exceptions and clean-ups,
  MaxTime       \* and the clock

NoOne == "no one"
Types == {"outside", "approval.requested", "approval.approved", "approval.rejected"}
Decisions == {"ask", "suggest", "auto"}

ASSUME EngineAssumption ==
  /\ Homes \subseteq [Handlers -> Engines] /\ NoOne \notin Handlers
  /\ Rule \in [Rules -> [types : SUBSET Types, mode : Decisions \cup {"skip", "other"}, risky : BOOLEAN,
                         dedupe : Nat, cooldown : Nat, budget : Nat]]
  /\ Place \in [Rules -> Nat]
  /\ Meets \subseteq SUBSET Rules
  /\ DayLength \in Nat \ {0}
  /\ {MaxStarts, MaxTroubles, MaxTime} \subseteq Nat

VARIABLES
  home,        \* the engine of each handler, chosen once
  events,      \* every event created, in order, and where its row is
  runs,        \* every row of a run that was not skipped, in order of insertion
  skipped,     \* the pairs of a rule and an event with a skipped row
  approvals,   \* every approval, in order of insertion
  stack,       \* the frames of each handler, the innermost last
  loop,        \* the handler that has the event loop of each engine
  budget,      \* per engine, the day of each rule and subject and the decisions charged to it
  now,         \* the clock
  count        \* what has happened so far, against the bounds

vars == <<home, events, runs, skipped, approvals, stack, loop, budget, now, count>>

Today == now \div DayLength
\* An approval is the subject of its events.
AllSubjects == Subjects \cup DOMAIN approvals
Stored(e) == events[e].row = "stored"

Init ==
  /\ home \in Homes
  /\ events = <<>> /\ runs = <<>> /\ skipped = {} /\ approvals = <<>>
  /\ stack = [h \in Handlers |-> <<>>]
  /\ loop = [x \in Engines |-> NoOne]
  /\ budget = [x \in Engines |-> {}]
  /\ now = 0
  /\ count = [starts |-> 0, cleanups |-> 0, faults |-> 0, crashes |-> 0]

Troubles == count.cleanups + count.faults + count.crashes
Starting == count.starts < MaxStarts /\ count' = [count EXCEPT !.starts = @ + 1]
Trouble(what) == Troubles < MaxTroubles /\ count' = [count EXCEPT ![what] = @ + 1]

-----------------------------------------------------------------------------
(* Frames *)

\* match_rules, whose result is gone through in the order of list_rules.
Matching(event) == {r \in Rules : event.type \in Rule[r].types}
First(todo) == CHOOSE r \in todo : \A q \in todo : Place[r] <= Place[q]

Frame(e, pc, todo) == [event |-> e, pc |-> pc, todo |-> todo, decision |-> "none", run |-> 0]

Top(h) == Last(stack[h])
EventOf(h) == events[Top(h).event]
RuleOf(h) == First(Top(h).todo)

\* Variant for sensitivity: nobody wakes the frame below.
UnwoundAsleep(frames) == IF Last(frames).todo # {} THEN frames ELSE Front(frames)

\* The rest of a handler: a frame without rules left returns to the one below it,
\* which goes on to route its own rule.
Unwound(frames) ==
  IF Last(frames).todo # {} THEN frames
  ELSE LET below == Front(frames)
       IN IF below = <<>> THEN <<>> ELSE Append(Front(below), [Last(below) EXCEPT !.pc = "routing"])

\* The handler's frames become f; it keeps the loop unless it is done or waits for
\* the actions of a rule.
Continue(h, f) ==
  /\ stack' = [stack EXCEPT ![h] = f]
  /\ loop' = [loop EXCEPT ![home[h]] = IF f = <<>> \/ Last(f).pc = "routing" THEN NoOne ELSE h]

Idle(h) == stack[h] = <<>> /\ loop[home[h]] = NoOne
Runs(h, pc) == stack[h] # <<>> /\ loop[home[h]] = h /\ Top(h).pc = pc

\* The current frame is done with its first rule.
NextRule(h) ==
  Unwound(Append(Front(stack[h]), [Top(h) EXCEPT !.pc = "decide", !.todo = @ \ {RuleOf(h)}, !.run = 0]))
AtPc(h, pc) == Append(Front(stack[h]), [Top(h) EXCEPT !.pc = pc])

-----------------------------------------------------------------------------
(* The entries of an engine *)

NewEvent(type, subject, key, meets, row) ==
  [type |-> type, subject |-> subject, key |-> key, meets |-> meets, at |-> now, row |-> row]

\* emit and the head of handle_event: an event whose key is stored is dropped.
Emit(h, s, k, m) ==
  /\ Idle(h) /\ Starting
  /\ LET event == NewEvent("outside", s, k, m, "stored")
         duplicate == k # NoOne /\ \E e \in DOMAIN events : Stored(e) /\ events[e].key = k
     IN IF duplicate THEN UNCHANGED <<events, stack, loop>>
        ELSE /\ events' = Append(events, event)
             /\ Continue(h, IF Matching(event) = {} THEN <<>>
                            ELSE <<Frame(Len(events) + 1, "decide", Matching(event))>>)
  /\ UNCHANGED <<home, runs, skipped, approvals, budget, now>>

\* replay_event: the rules of a stored event again, without storing it.
Replay(h, e) ==
  /\ Idle(h) /\ e \in DOMAIN events /\ Stored(e) /\ Starting
  /\ Matching(events[e]) # {}
  /\ Continue(h, <<Frame(e, "decide", Matching(events[e]))>>)
  /\ UNCHANGED <<home, events, runs, skipped, approvals, budget, now>>

\* The frame of an event of approval a, not stored yet.
Announce(a, type) == NewEvent(type, a, NoOne, Rules, "new")
AnnounceFrame == Frame(Len(events) + 1, "append", {})

EventOfVerdict(verdict) == IF verdict = "approved" THEN "approval.approved" ELSE "approval.rejected"

\* resolve: the status is written over whatever it was, then the verdict is emitted.
Resolve(h, a, verdict) ==
  /\ Idle(h) /\ a \in DOMAIN approvals /\ approvals[a].status # "gone"
  /\ Starting
  /\ approvals' = [approvals EXCEPT ![a].status = verdict]
  /\ events' = Append(events, Announce(a, EventOfVerdict(verdict)))
  /\ Continue(h, <<AnnounceFrame>>)
  /\ UNCHANGED <<home, runs, skipped, budget, now>>

\* The row of an event of an approval.
AppendEvent(h) ==
  /\ Runs(h, "append")
  /\ events' = [events EXCEPT ![Top(h).event].row = "stored"]
  /\ Continue(h, Unwound(Append(Front(stack[h]), Frame(Top(h).event, "decide", Matching(EventOf(h))))))
  /\ UNCHANGED <<home, runs, skipped, approvals, budget, now, count>>

-----------------------------------------------------------------------------
(* One rule of one event *)

Acted(r) == {i \in DOMAIN runs : runs[i].rule = r /\ runs[i].status # "gone"}

\* has_rule_event_run: a skipped row counts too.
HasRun(r, e) == <<r, e>> \in skipped \/ \E i \in Acted(r) : runs[i].event = e

\* Variant for sensitivity: only runs that have ended count.
RecentSubjectEnded(r, s) ==
  \E i \in Acted(r) :
    /\ Stored(runs[i].event) /\ events[runs[i].event].subject = s /\ runs[i].status # "running"
    /\ runs[i].at + Rule[r].dedupe >= now

\* has_recent_rule_subject_run joins the rows of the events.
RecentSubject(r, s) ==
  \E i \in Acted(r) :
    /\ Stored(runs[i].event) /\ events[runs[i].event].subject = s
    /\ runs[i].at + Rule[r].dedupe >= now

\* get_last_rule_run_at.
CoolingDown(r) == \E i \in Acted(r) : now < runs[i].at + Rule[r].cooldown

\* allow: the state of a scope, from an earlier day or of this one.
ScopeOf(h) == {b \in budget[home[h]] : b.rule = RuleOf(h) /\ b.subject = EventOf(h).subject}
UsedToday(h) ==
  IF \E b \in ScopeOf(h) : b.day = Today THEN (CHOOSE b \in ScopeOf(h) : b.day = Today).used ELSE 0

\* Variant for sensitivity: one more than the budget.
WithinBudgetLate(h) == Rule[RuleOf(h)].budget = 0 \/ UsedToday(h) <= Rule[RuleOf(h)].budget

WithinBudget(h) == Rule[RuleOf(h)].budget = 0 \/ UsedToday(h) < Rule[RuleOf(h)].budget
Charge(h) == [rule |-> RuleOf(h), subject |-> EventOf(h).subject, day |-> Today, used |-> UsedToday(h) + 1]

\* Variant for sensitivity: the runs of the event itself are not looked at.
EligibleAgain(h) ==
  LET r == RuleOf(h) IN
  /\ r \in EventOf(h).meets
  /\ Rule[r].dedupe > 0 => ~ RecentSubject(r, EventOf(h).subject)
  /\ Rule[r].cooldown > 0 => ~ CoolingDown(r)

\* The checks of decide that come before the budget.
Eligible(h) ==
  LET r == RuleOf(h) IN
  /\ r \in EventOf(h).meets
  /\ ~ HasRun(r, Top(h).event)
  /\ Rule[r].dedupe > 0 => ~ RecentSubject(r, EventOf(h).subject)
  /\ Rule[r].cooldown > 0 => ~ CoolingDown(r)

\* A mode the engine does not know is "suggest"; a risky "auto" asks.
WantedMode(r) ==
  IF Rule[r].mode = "other" THEN "suggest"
  ELSE IF Rule[r].risky /\ Rule[r].mode = "auto" THEN "ask" ELSE Rule[r].mode

\* Variant for sensitivity: events of approvals may ask.
ModeAsking(h) == WantedMode(RuleOf(h))

\* What an eligible rule does: no event of an approval asks for another.
Mode(h) ==
  IF WantedMode(RuleOf(h)) = "ask" /\ EventOf(h).type # "outside" THEN "suggest"
  ELSE WantedMode(RuleOf(h))

\* decide: what it reads, and the charge to the budget.
Decide(h) ==
  /\ Runs(h, "decide")
  /\ LET yes == Eligible(h) /\ WithinBudget(h)
     IN /\ Continue(h, Append(Front(stack[h]),
              [Top(h) EXCEPT !.pc = "insert", !.decision = IF yes THEN Mode(h) ELSE "skip"]))
        /\ budget' = IF yes /\ Rule[RuleOf(h)].budget > 0
                     THEN [budget EXCEPT ![home[h]] = (@ \ ScopeOf(h)) \cup {Charge(h)}]
                     ELSE budget
  /\ UNCHANGED <<home, events, runs, skipped, approvals, now, count>>

\* Variant for sensitivity: a skipped rule ends the loop over the rules.
InsertSkippedBreaks(h) ==
  /\ Runs(h, "insert") /\ Top(h).decision = "skip"
  /\ skipped' = skipped \cup {<<RuleOf(h), Top(h).event>>}
  /\ Continue(h, Unwound(Append(Front(stack[h]), [Top(h) EXCEPT !.todo = {}])))
  /\ UNCHANGED <<home, events, runs, approvals, budget, now, count>>

\* insert_rule_run, and for a skipped rule the end of it.
InsertSkipped(h) ==
  /\ Runs(h, "insert") /\ Top(h).decision = "skip"
  /\ skipped' = skipped \cup {<<RuleOf(h), Top(h).event>>}
  /\ Continue(h, NextRule(h))
  /\ UNCHANGED <<home, events, runs, approvals, budget, now, count>>

InsertRun(h) ==
  /\ Runs(h, "insert") /\ Top(h).decision # "skip"
  /\ runs' = Append(runs, [rule |-> RuleOf(h), event |-> Top(h).event, engine |-> home[h],
                           decision |-> Top(h).decision, status |-> "running", at |-> now])
  /\ Continue(h, Append(Front(stack[h]),
                        [Top(h) EXCEPT !.run = Len(runs) + 1,
                                       !.pc = IF Top(h).decision = "ask" THEN "ask" ELSE "routing"]))
  /\ UNCHANGED <<home, events, skipped, approvals, budget, now, count>>

\* ApprovalManager.request: the row, then an event handled before the handler goes on.
Ask(h) ==
  /\ Runs(h, "ask")
  /\ approvals' = Append(approvals, [rule |-> RuleOf(h), event |-> Top(h).event, status |-> "pending"])
  /\ events' = Append(events, Announce(Len(approvals) + 1, "approval.requested"))
  /\ Continue(h, Append(AtPc(h, "asked"), AnnounceFrame))
  /\ UNCHANGED <<home, runs, skipped, budget, now, count>>

\* "routed" stands for completed, partial and failed.
Outcome(decision) == IF decision = "ask" THEN "awaiting_approval" ELSE "routed"

\* The update of a run reaches its row if it is still there.
RunUpdated(i, status) ==
  runs' = [runs EXCEPT ![i].status = IF @ = "gone" THEN "gone" ELSE status]

\* The actions have run, some of them perhaps failed.  An approval leaves them in the
\* shade: the run then awaits the verdict whatever they did.
Routed(h) ==
  /\ stack[h] # <<>> /\ Top(h).pc = "routing" /\ loop[home[h]] = NoOne
  /\ RunUpdated(Top(h).run, Outcome(Top(h).decision))
  /\ Continue(h, NextRule(h))
  /\ UNCHANGED <<home, events, skipped, approvals, budget, now, count>>

-----------------------------------------------------------------------------
(* Failures, the clock, maintenance *)

\* An SQL statement, or the sink of the gateway, raises: no frame catches it.
Fault(h) ==
  /\ stack[h] # <<>> /\ loop[home[h]] \in {h, NoOne} /\ Trouble("faults")
  /\ Continue(h, <<>>)
  /\ UNCHANGED <<home, events, runs, skipped, approvals, budget, now>>

\* A process dies and starts again: its handlers and its budget are gone.
Crash(x) ==
  /\ Trouble("crashes")
  /\ stack' = [h \in Handlers |-> IF home[h] = x THEN <<>> ELSE stack[h]]
  /\ loop' = [loop EXCEPT ![x] = NoOne]
  /\ budget' = [budget EXCEPT ![x] = {}]
  /\ UNCHANGED <<home, events, runs, skipped, approvals, now>>

Tick == now < MaxTime /\ now' = now + 1
        /\ UNCHANGED <<home, events, runs, skipped, approvals, stack, loop, budget, count>>

Old(cutoff) == {e \in DOMAIN events : Stored(e) /\ events[e].at < cutoff}

\* cleanup_events: the rows of old events, of their runs and of their approvals.
Cleanup(cutoff) ==
  /\ Old(cutoff) # {} /\ Trouble("cleanups")
  /\ events' = [e \in DOMAIN events |-> IF e \in Old(cutoff) THEN [events[e] EXCEPT !.row = "gone"] ELSE events[e]]
  /\ runs' = [i \in DOMAIN runs |->
                IF runs[i].event \in Old(cutoff) THEN [runs[i] EXCEPT !.status = "gone"] ELSE runs[i]]
  /\ approvals' = [a \in DOMAIN approvals |->
                     IF approvals[a].event \in Old(cutoff) THEN [approvals[a] EXCEPT !.status = "gone"] ELSE approvals[a]]
  /\ skipped' = {s \in skipped : s[2] \notin Old(cutoff)}
  /\ UNCHANGED <<home, stack, loop, budget, now>>

-----------------------------------------------------------------------------
Step(h) ==
  \/ AppendEvent(h) \/ Decide(h) \/ InsertSkipped(h) \/ InsertRun(h) \/ Ask(h) \/ Routed(h)
Starts(h) ==
  \/ \E s \in Subjects, k \in Keys, m \in Meets : Emit(h, s, k, m)
  \/ \E e \in DOMAIN events : Replay(h, e)
  \/ \E a \in DOMAIN approvals, verdict \in {"approved", "rejected"} : Resolve(h, a, verdict)
Next ==
  \/ \E h \in Handlers : Starts(h) \/ Step(h) \/ Fault(h)
  \/ \E x \in Engines : Crash(x)
  \/ Tick \/ \E cutoff \in 1..MaxTime : cutoff <= now /\ Cleanup(cutoff)

Spec == Init /\ [][Next]_vars

\* An event loop that has something to run runs it, and the actions of a rule end.
Fairness == WF_vars(\E h \in Handlers : Step(h))
FairSpec == Spec /\ Fairness
-----------------------------------------------------------------------------
(* Properties *)

Statuses == {"running", "awaiting_approval", "routed", "gone"}
Frames == [event : Nat, pc : {"append", "decide", "insert", "ask", "asked", "routing"},
           todo : SUBSET Rules, decision : Decisions \cup {"none", "skip"}, run : Nat]

\* Every variable stays in its set, and the frames of a handler in theirs: the event that
\* announces an approval never asks for another, so no handler nests deeper than two
\* (rules_engine.py:118).
TypeOK ==
  /\ home \in Homes
  /\ events \in Seq([type : Types, subject : AllSubjects, key : Keys \cup {NoOne},
                     meets : SUBSET Rules, at : 0..MaxTime, row : {"new", "stored", "gone"}])
  /\ runs \in Seq([rule : Rules, event : Nat, engine : Engines, decision : Decisions,
                   status : Statuses, at : 0..MaxTime])
  /\ skipped \subseteq Rules \X (DOMAIN events)
  /\ approvals \in Seq([rule : Rules, event : Nat, status : {"pending", "approved", "rejected", "gone"}])
  /\ stack \in [Handlers -> Seq(Frames)] /\ \A h \in Handlers : Len(stack[h]) <= 2
  /\ loop \in [Engines -> Handlers \cup {NoOne}]
  /\ budget \in [Engines -> SUBSET [rule : Rules, subject : AllSubjects, day : Nat, used : Nat]]
  /\ now \in 0..MaxTime
  /\ count \in [starts : 0..MaxStarts, cleanups : Nat, faults : Nat, crashes : Nat] /\ Troubles <= MaxTroubles

Present(i) == runs[i].status # "gone"
SameRuleAndEngine(i, j) ==
  i < j /\ Present(i) /\ Present(j) /\ runs[i].rule = runs[j].rule /\ runs[i].engine = runs[j].engine
SubjectOf(i) == events[runs[i].event].subject

\* A process acts on an event at most once for a rule, whatever is replayed and however
\* its handlers interleave (rules_engine.py:85).  Two processes may both act.
OncePerEvent ==
  \A i, j \in DOMAIN runs : SameRuleAndEngine(i, j) => runs[i].event # runs[j].event

\* Inside one process no two runs of a rule for a subject fall in its dedupe window, and
\* no two for any subjects in its cooldown (rules_engine.py:88-104).
WindowsKept ==
  /\ \A i, j \in DOMAIN runs :
       LET window == Rule[runs[i].rule].dedupe IN
       /\ SameRuleAndEngine(i, j) /\ window > 0
       /\ Stored(runs[i].event) /\ Stored(runs[j].event) /\ SubjectOf(i) = SubjectOf(j)
       => runs[j].at > runs[i].at + window
  /\ \A i, j \in DOMAIN runs :
       SameRuleAndEngine(i, j) => runs[j].at >= runs[i].at + Rule[runs[i].rule].cooldown

\* Inside one process a rule never acts where an earlier run of it forbids that, although
\* runs are looked for in one statement and the new one is inserted by a later one
\* (rules_engine.py:85, 144).
SuppressionHolds == OncePerEvent /\ WindowsKept

\* A process acts for a rule and a subject at most as often in a day as the budget
\* allows, plus once at a midnight between the charge and the row, times its restarts,
\* which forget the budget (attention_budget.py:21).
BudgetHolds ==
  \A x \in Engines, r \in Rules, s \in AllSubjects, d \in 0..(MaxTime \div DayLength) :
    Rule[r].budget > 0 =>
      Cardinality({i \in DOMAIN runs : /\ runs[i].engine = x /\ runs[i].rule = r /\ SubjectOf(i) = s
                                       /\ runs[i].at \div DayLength = d})
        <= (Rule[r].budget + (IF d > 0 THEN 1 ELSE 0)) * (1 + count.crashes)

Settled(r, e) ==
  \/ <<r, e>> \in skipped
  \/ \E i \in Acted(r) : runs[i].event = e /\ runs[i].status # "running"

Pending(r, e) ==
  \E h \in Handlers : \E f \in DOMAIN stack[h] :
    stack[h][f].event = e /\ r \in stack[h][f].todo

\* A stored event has been ruled on by each of its rules or some handler is still to do
\* it, with an approval in between and however the others interleave; only a crash or
\* an exception leaves one out, for good (rules_engine.py:131-137).
NoneLeftOut ==
  count.faults + count.crashes = 0 =>
    \A e \in DOMAIN events, r \in Rules :
      Stored(e) /\ events[e].type \in Rule[r].types => Settled(r, e) \/ Pending(r, e)

\* A handler ends, the events of the approvals it asks for included.
HandlersFinish == \A h \in Handlers : stack[h] # <<>> ~> stack[h] = <<>>
=============================================================================
