------------------------- MODULE EventEngine_proofs -------------------------
(* Theorems about the event engine: handlers nest at most two deep, a process acts once *)
(* on an event and within its windows and budget, and no rule is left out.              *)
EXTENDS EventEngine, FiniteSetTheorems, SequenceTheorems, WellFoundedInduction, TLAPS

-----------------------------------------------------------------------------
(* The frames of a handler *)

EventSet(subjects) ==
  [type : Types, subject : subjects, key : Keys \cup {NoOne}, meets : SUBSET Rules, at : 0..MaxTime,
   row : {"new", "stored", "gone"}]
RunSet == [rule : Rules, event : Nat, engine : Engines, decision : Decisions, status : Statuses, at : 0..MaxTime]
ApprovalSet == [rule : Rules, event : Nat, status : {"pending", "approved", "rejected", "gone"}]

\* A frame refers to what is there; an event that is not stored yet has no rules to do, and
\* only an event from outside asks.
Working == {"ask", "asked", "routing"}
FrameFits(f, list, rows) ==
  /\ f \in Frames /\ f.event \in DOMAIN list
  /\ f.pc = "append" => f.todo = {} /\ list[f.event].row = "new"
  /\ f.pc # "append" => f.todo # {} /\ list[f.event].row # "new"
  /\ f.pc = "insert" => f.decision # "none"
  /\ f.pc \in Working =>
       /\ f.decision \in Decisions
       /\ f.run \in DOMAIN rows /\ rows[f.run].rule = First(f.todo) /\ rows[f.run].event = f.event
  /\ f.pc \in {"ask", "asked"} => f.decision = "ask"
  /\ f.decision = "ask" => list[f.event].type = "outside"

\* A handler has no frame, one, or one that asked and the one of the approval.
StackFits(s, list, rows) ==
  \/ s = <<>>
  \/ \E f : s = <<f>> /\ FrameFits(f, list, rows) /\ f.pc # "asked"
  \/ \E f, g : /\ s = <<f, g>> /\ FrameFits(f, list, rows) /\ FrameFits(g, list, rows)
               /\ f.pc = "asked" /\ list[g.event].type # "outside"

\* The rule to do next is one of those to do.
LEMMA FirstIn ==
  ASSUME NEW S \in SUBSET Rules, S # {}
  PROVE  First(S) \in S
<1>1. PICK T : T = {Place[r] : r \in S}
  OBVIOUS
<1>2. T \subseteq Nat /\ T # {}
  BY <1>1, EngineAssumption
<1>3. \E x \in T : \A y \in T : ~ (<<y, x>> \in OpToRel(<, Nat))
  BY <1>2, NatLessThanWellFounded, WFMin
<1>4. PICK x \in T : \A y \in T : x <= y
  <2>1. PICK x \in T : \A y \in T : ~ (<<y, x>> \in OpToRel(<, Nat))
    BY <1>3
  <2>2. \A y \in T : ~ (y < x)
    BY <1>2, <2>1 DEF OpToRel
  <2>3. QED
    BY <1>2, <2>2
<1>5. PICK r \in S : x = Place[r]
  BY <1>1
<1>6. \A q \in S : Place[r] <= Place[q]
  BY <1>1, <1>4, <1>5
<1>7. QED
  BY <1>6 DEF First

LEMMA OneFrame ==
  ASSUME NEW f
  PROVE  /\ <<f>> # <<>> /\ Last(<<f>>) = f /\ Front(<<f>>) = <<>> /\ Append(<<>>, f) = <<f>>
         /\ DOMAIN <<f>> = {1} /\ <<f>>[1] = f /\ Len(<<f>>) = 1
BY DEF Last, Front

Pair(s, f, g) ==
  /\ s # <<>> /\ Last(s) = g /\ Front(s) = <<f>> /\ Append(<<f>>, g) = s
  /\ DOMAIN s = {1, 2} /\ s[1] = f /\ s[2] = g /\ Len(s) = 2

LEMMA TwoFrames ==
  ASSUME NEW f, NEW g
  PROVE  Pair(<<f, g>>, f, g)
<1>1. PICK s : s = <<f, g>>
  OBVIOUS
<1>2. Len(s) = 2 /\ s[1] = f /\ s[2] = g /\ DOMAIN s = {1, 2} /\ s # <<>>
  BY <1>1
<1>3. Front(s) = <<f>>
  <2>1. PICK t : t = SubSeq(s, 1, 1)
    OBVIOUS
  <2>2. 1 \in Int /\ \A i \in 1..1 : s[i] \in {f}
    BY <1>2
  <2>3. t \in Seq({f}) /\ Len(t) = 1 /\ \A i \in 1..1 : t[i] = s[i]
    BY <2>1, <2>2, SubSeqProperties
  <2>4. t = <<f>>
    BY <1>2, <2>3
  <2>5. Front(s) = SubSeq(s, 1, 1)
    BY <1>2 DEF Front
  <2>6. QED
    BY <2>1, <2>4, <2>5
<1>4. Last(s) = g
  BY <1>2 DEF Last
<1>5. Append(<<f>>, g) = <<f, g>>
  <2>1. PICK one : one = <<f>>
    OBVIOUS
  <2>2. one \in Seq({f, g}) /\ Len(one) = 1 /\ one[1] = f
    BY <2>1
  <2>3. PICK t : t = Append(one, g)
    OBVIOUS
  <2>4. /\ Append(one, g) \in Seq({f, g}) /\ Len(Append(one, g)) = Len(one) + 1
        /\ \A i \in 1..Len(one) : Append(one, g)[i] = one[i]
        /\ Append(one, g)[Len(one) + 1] = g
    <3>1. g \in {f, g} /\ one \in Seq({f, g})
      BY <2>2
    <3>2. QED
      BY <3>1, AppendProperties
  <2>5. t \in Seq({f, g}) /\ Len(t) = 2 /\ t[2] = g /\ t[1] = f
    BY <2>2, <2>3, <2>4
  <2>6. t = <<f, g>>
    BY <2>5
  <2>7. QED
    BY <2>1, <2>3, <2>6
<1>6. QED
  BY <1>1, <1>2, <1>3, <1>4, <1>5 DEF Pair

-----------------------------------------------------------------------------
(* What the frames refer to may grow *)

SameEvents(old, new) ==
  \A e \in DOMAIN old :
    /\ e \in DOMAIN new /\ new[e].type = old[e].type /\ new[e].subject = old[e].subject
    /\ old[e].row # "new" => new[e].row # "new"
    /\ old[e].row # "new" /\ new[e].row = "stored" => old[e].row = "stored"
    /\ old[e].row = "gone" => new[e].row = "gone"
SameRuns(old, new) ==
  \A i \in DOMAIN old :
    /\ i \in DOMAIN new /\ new[i].rule = old[i].rule /\ new[i].event = old[i].event
    /\ new[i].engine = old[i].engine /\ new[i].at = old[i].at

\* Every frame but one whose event has just been stored fits what has grown.
LEMMA FrameStays ==
  ASSUME NEW f, NEW list, NEW rows, NEW list2, NEW rows2,
         FrameFits(f, list, rows), SameEvents(list, list2), SameRuns(rows, rows2),
         f.pc = "append" => list2[f.event].row = "new"
  PROVE  FrameFits(f, list2, rows2)
BY DEF FrameFits, SameEvents, SameRuns

\* The forms of a handler with a frame.
Single(s, f, list, rows) == s = <<f>> /\ FrameFits(f, list, rows) /\ f.pc # "asked"
Double(s, f, g, list, rows) ==
  /\ s = <<f, g>> /\ FrameFits(f, list, rows) /\ FrameFits(g, list, rows)
  /\ f.pc = "asked" /\ list[g.event].type # "outside"

LEMMA StackForms ==
  ASSUME NEW s, NEW list, NEW rows, StackFits(s, list, rows), s # <<>>
  PROVE  \/ \E f : Single(s, f, list, rows)
         \/ \E f, g : Double(s, f, g, list, rows)
BY DEF StackFits, Single, Double

\* The innermost frame fits, and neither it nor the one below is waiting for another.
LEMMA TopFits ==
  ASSUME NEW s, NEW list, NEW rows, StackFits(s, list, rows), s # <<>>
  PROVE  FrameFits(Last(s), list, rows) /\ Last(s).pc # "asked"
<1>1. CASE \E f : Single(s, f, list, rows)
  BY <1>1, OneFrame DEF Single
<1>2. CASE \E f, g : Double(s, f, g, list, rows)
  <2>1. PICK f, g : Double(s, f, g, list, rows)
    BY <1>2
  <2>2. Last(s) = g
    <3>1. Pair(s, f, g)
      BY <2>1, TwoFrames DEF Double
    <3>2. QED
      BY <3>1 DEF Pair
  <2>3. g.pc # "asked"
    BY <2>1 DEF Double, FrameFits
  <2>4. FrameFits(g, list, rows)
    BY <2>1 DEF Double
  <2>5. QED
    BY <2>2, <2>3, <2>4, Zenon
<1>3. QED
  BY <1>1, <1>2, StackForms

\* The frames of a handler whose innermost becomes t.
WithTop(s, t) == Append(Front(s), t)
PendingIn(s, e, r) == \E k \in DOMAIN s : s[k].event = e /\ r \in s[k].todo

LEMMA TopReplaced ==
  ASSUME NEW s, NEW t, NEW list, NEW rows, NEW list2, NEW rows2,
         StackFits(s, list, rows), s # <<>>, SameEvents(list, list2), SameRuns(rows, rows2),
         FrameFits(t, list2, rows2), t.event = Last(s).event, t.pc # "asked"
  PROVE  /\ StackFits(WithTop(s, t), list2, rows2) /\ WithTop(s, t) # <<>> /\ Last(WithTop(s, t)) = t
         /\ \A k \in DOMAIN WithTop(s, t) : WithTop(s, t)[k].pc = "append" => WithTop(s, t)[k] = t
         /\ \A e, r : PendingIn(s, e, r) =>
              PendingIn(WithTop(s, t), e, r) \/ (e = t.event /\ r \in Last(s).todo /\ r \notin t.todo)
<1>1. CASE \E f : Single(s, f, list, rows)
  <2>1. PICK f : Single(s, f, list, rows)
    BY <1>1
  <2>2. WithTop(s, t) = <<t>> /\ Last(s) = f /\ DOMAIN s = {1} /\ s[1] = f
    BY <2>1, OneFrame DEF Single, WithTop
  <2>3. /\ Last(WithTop(s, t)) = t /\ WithTop(s, t) # <<>>
        /\ DOMAIN WithTop(s, t) = {1} /\ WithTop(s, t)[1] = t
    BY <2>2, OneFrame
  <2>4. StackFits(WithTop(s, t), list2, rows2)
    BY <2>2 DEF StackFits
  <2>5. \A e, r : PendingIn(s, e, r) =>
              PendingIn(WithTop(s, t), e, r) \/ (e = t.event /\ r \in Last(s).todo /\ r \notin t.todo)
    BY <2>2, <2>3 DEF PendingIn
  <2>6. QED
    BY <2>3, <2>4, <2>5
<1>2. CASE \E f, g : Double(s, f, g, list, rows)
  <2>1. PICK f, g : Double(s, f, g, list, rows)
    BY <1>2
  <2>2. WithTop(s, t) = <<f, t>> /\ Last(s) = g /\ DOMAIN s = {1, 2} /\ s[1] = f /\ s[2] = g
    <3>1. Pair(s, f, g) /\ Pair(<<f, t>>, f, t)
      BY <2>1, TwoFrames DEF Double
    <3>2. QED
      BY <3>1 DEF Pair, WithTop
  <2>3. /\ Last(WithTop(s, t)) = t /\ WithTop(s, t) # <<>>
        /\ DOMAIN WithTop(s, t) = {1, 2} /\ WithTop(s, t)[1] = f /\ WithTop(s, t)[2] = t
    <3>1. Pair(WithTop(s, t), f, t)
      BY <2>2, TwoFrames
    <3>2. QED
      BY <3>1 DEF Pair
  <2>4. FrameFits(f, list2, rows2) /\ f.pc = "asked"
    <3>1. FrameFits(f, list, rows) /\ f.pc = "asked"
      BY <2>1 DEF Double
    <3>2. f.pc = "append" => list2[f.event].row = "new"
      BY <3>1
    <3>3. QED
      BY <3>1, <3>2, FrameStays, Zenon
  <2>5. list2[t.event].type # "outside"
    <3>1. FrameFits(g, list, rows) /\ list[g.event].type # "outside" /\ t.event = g.event
      BY <2>1, <2>2 DEF Double
    <3>2. g.event \in DOMAIN list
      BY <3>1 DEF FrameFits
    <3>3. list2[g.event].type = list[g.event].type
      BY <3>2 DEF SameEvents
    <3>4. QED
      BY <3>1, <3>3
  <2>6. StackFits(WithTop(s, t), list2, rows2)
    BY <2>2, <2>4, <2>5 DEF StackFits
  <2>7. \A e, r : PendingIn(s, e, r) =>
              PendingIn(WithTop(s, t), e, r) \/ (e = t.event /\ r \in Last(s).todo /\ r \notin t.todo)
    BY <2>2, <2>3 DEF PendingIn
  <2>8. QED
    BY <2>3, <2>4, <2>6, <2>7
<1>3. QED
  BY <1>1, <1>2, StackForms

\* A frame that waited for another one goes on to its actions.
LEMMA Wakes ==
  ASSUME NEW f, NEW list, NEW rows, FrameFits(f, list, rows), f.pc = "asked"
  PROVE  FrameFits([f EXCEPT !.pc = "routing"], list, rows)
<1>1. PICK q : q = [f EXCEPT !.pc = "routing"]
  OBVIOUS
<1>2. f \in Frames
  BY DEF FrameFits
<1>3. q \in Frames /\ q.event = f.event /\ q.pc = "routing" /\ q.todo = f.todo /\ q.decision = f.decision /\ q.run = f.run
  BY <1>1, <1>2 DEF Frames
<1>4. QED
  BY <1>1, <1>3 DEF FrameFits, Working

\* The frames left when the innermost has become t and returns if nothing is to do.
Left(s, t, u, list, rows) ==
  /\ StackFits(u, list, rows)
  /\ \A k \in DOMAIN u : u[k].pc # "append"
  /\ u = <<>> \/ Last(u) = t \/ Last(u).pc = "routing"
  /\ \A e, r : PendingIn(s, e, r) => PendingIn(u, e, r) \/ (e = t.event /\ r \in Last(s).todo /\ r \notin t.todo)

LEMMA TopUnwound ==
  ASSUME NEW s, NEW t, NEW list, NEW rows, NEW list2, NEW rows2,
         StackFits(s, list, rows), s # <<>>, SameEvents(list, list2), SameRuns(rows, rows2),
         t.todo # {} => FrameFits(t, list2, rows2), t.event = Last(s).event, t.pc # "asked"
  PROVE  Left(s, t, Unwound(WithTop(s, t)), list2, rows2)
<1>1. PICK u : u = Unwound(WithTop(s, t))
  OBVIOUS
<1>2. CASE t.todo # {}
  <2>1. /\ StackFits(WithTop(s, t), list2, rows2) /\ WithTop(s, t) # <<>> /\ Last(WithTop(s, t)) = t
        /\ \A k \in DOMAIN WithTop(s, t) : WithTop(s, t)[k].pc = "append" => WithTop(s, t)[k] = t
        /\ \A e, r : PendingIn(s, e, r) =>
              PendingIn(WithTop(s, t), e, r) \/ (e = t.event /\ r \in Last(s).todo /\ r \notin t.todo)
    BY <1>2, TopReplaced
  <2>2. u = WithTop(s, t)
    BY <1>1, <1>2, <2>1 DEF Unwound
  <2>3. t.pc # "append"
    BY <1>2 DEF FrameFits
  <2>4. QED
    BY <1>1, <2>1, <2>2, <2>3 DEF Left
<1>3. CASE t.todo = {} /\ \E f : Single(s, f, list, rows)
  <2>1. PICK f : Single(s, f, list, rows)
    BY <1>3
  <2>2. WithTop(s, t) = <<t>> /\ Last(s) = f /\ DOMAIN s = {1} /\ s[1] = f
    BY <2>1, OneFrame DEF Single, WithTop
  <2>3. Last(WithTop(s, t)) = t /\ Front(WithTop(s, t)) = <<>>
    BY <2>2, OneFrame
  <2>4. u = <<>>
    BY <1>1, <1>3, <2>3 DEF Unwound
  <2>5. \A e, r : PendingIn(s, e, r) => (e = t.event /\ r \in Last(s).todo /\ r \notin t.todo)
    BY <1>3, <2>2 DEF PendingIn
  <2>6. StackFits(u, list2, rows2) /\ DOMAIN u = {}
    BY <2>4 DEF StackFits
  <2>7. QED
    BY <1>1, <2>4, <2>5, <2>6 DEF Left
<1>4. CASE t.todo = {} /\ \E f, g : Double(s, f, g, list, rows)
  <2>1. PICK f, g : Double(s, f, g, list, rows)
    BY <1>4
  <2>2. WithTop(s, t) = <<f, t>> /\ Last(s) = g /\ DOMAIN s = {1, 2} /\ s[1] = f /\ s[2] = g
    <3>1. Pair(s, f, g) /\ Pair(<<f, t>>, f, t)
      BY <2>1, TwoFrames DEF Double
    <3>2. QED
      BY <3>1 DEF Pair, WithTop
  <2>3. Last(WithTop(s, t)) = t /\ Front(WithTop(s, t)) = <<f>>
    <3>1. Pair(WithTop(s, t), f, t)
      BY <2>2, TwoFrames
    <3>2. QED
      BY <3>1 DEF Pair
  <2>4. PICK q : q = [f EXCEPT !.pc = "routing"]
    OBVIOUS
  <2>5. u = <<q>>
    <3>1. /\ <<f>> # <<>> /\ Last(<<f>>) = f /\ Front(<<f>>) = <<>> /\ Append(<<>>, q) = <<q>>
      BY OneFrame
    <3>2. QED
      BY <1>1, <1>4, <2>3, <2>4, <3>1 DEF Unwound
  <2>6. FrameFits(f, list2, rows2) /\ f.pc = "asked"
    <3>1. FrameFits(f, list, rows) /\ f.pc = "asked"
      BY <2>1 DEF Double
    <3>2. f.pc = "append" => list2[f.event].row = "new"
      BY <3>1
    <3>3. QED
      BY <3>1, <3>2, FrameStays, Zenon
  <2>7. FrameFits(q, list2, rows2)
    BY <2>4, <2>6, Wakes
  <2>8. q.pc = "routing" /\ q.event = f.event /\ q.todo = f.todo
    <3>1. f \in Frames
      BY <2>6 DEF FrameFits
    <3>2. QED
      BY <2>4, <3>1 DEF Frames
  <2>9. Last(u) = q /\ DOMAIN u = {1} /\ u[1] = q
    BY <2>5, OneFrame
  <2>10. \A e, r : PendingIn(s, e, r) => PendingIn(u, e, r) \/ (e = t.event /\ r \in Last(s).todo /\ r \notin t.todo)
    BY <1>4, <2>2, <2>8, <2>9 DEF PendingIn
  <2>11. StackFits(u, list2, rows2)
    BY <2>5, <2>7, <2>8 DEF StackFits
  <2>12. QED
    BY <1>1, <2>8, <2>9, <2>10, <2>11 DEF Left
<1>5. QED
  BY <1>2, <1>3, <1>4, StackForms

-----------------------------------------------------------------------------
(* The stacks *)

Announcing(s, e) == \E k \in DOMAIN s : s[k].pc = "append" /\ s[k].event = e
Holding(s) == s # <<>> /\ Last(s).pc # "routing"

\* Every handler has its frames; the one that has an event loop is the one that runs; and
\* an event that is not stored yet has one handler.
Stacks == \A h \in Handlers : StackFits(stack[h], events, runs)
LoopFits == \A h \in Handlers : loop[home[h]] = h <=> Holding(stack[h])
Owned == \A h, g \in Handlers, e \in Nat : Announcing(stack[h], e) /\ Announcing(stack[g], e) => h = g
Turning ==
  /\ home \in [Handlers -> Engines] /\ stack \in [Handlers -> Seq(Frames)]
  /\ loop \in [Engines -> Handlers \cup {NoOne}]
  /\ Stacks /\ LoopFits /\ Owned

\* A stack fits what has grown if its event is still not stored.
LEMMA StackStays ==
  ASSUME NEW s, NEW list, NEW rows, NEW list2, NEW rows2,
         StackFits(s, list, rows), SameEvents(list, list2), SameRuns(rows, rows2),
         \A e \in DOMAIN list : Announcing(s, e) => list2[e].row = "new"
  PROVE  StackFits(s, list2, rows2)
<1>1. CASE s = <<>>
  BY <1>1 DEF StackFits
<1>2. CASE s # <<>> /\ \E f : Single(s, f, list, rows)
  <2>1. PICK f : Single(s, f, list, rows)
    BY <1>2
  <2>2. FrameFits(f, list, rows) /\ f.pc # "asked" /\ DOMAIN s = {1} /\ s[1] = f
    BY <2>1, OneFrame DEF Single
  <2>3. f.pc = "append" => list2[f.event].row = "new"
    BY <2>2 DEF Announcing, FrameFits
  <2>4. FrameFits(f, list2, rows2)
    BY <2>2, <2>3, FrameStays
  <2>5. QED
    BY <2>1, <2>2, <2>4 DEF Single, StackFits
<1>3. CASE s # <<>> /\ \E f, g : Double(s, f, g, list, rows)
  <2>1. PICK f, g : Double(s, f, g, list, rows)
    BY <1>3
  <2>2. /\ FrameFits(f, list, rows) /\ f.pc = "asked" /\ FrameFits(g, list, rows)
        /\ list[g.event].type # "outside" /\ s = <<f, g>>
    BY <2>1 DEF Double
  <2>3. DOMAIN s = {1, 2} /\ s[2] = g
    BY <2>2, TwoFrames DEF Pair
  <2>4. f.pc = "append" => list2[f.event].row = "new"
    BY <2>2
  <2>5. g.pc = "append" => list2[g.event].row = "new"
    BY <2>2, <2>3 DEF Announcing, FrameFits
  <2>6. FrameFits(f, list2, rows2)
    BY <2>2, <2>4, FrameStays, Zenon
  <2>7. FrameFits(g, list2, rows2)
    BY <2>2, <2>5, FrameStays, Zenon
  <2>8. list2[g.event].type # "outside"
    <3>1. g.event \in DOMAIN list
      BY <2>2 DEF FrameFits
    <3>2. QED
      BY <2>2, <3>1 DEF SameEvents
  <2>9. QED
    BY <2>2, <2>6, <2>7, <2>8 DEF StackFits
<1>4. QED
  BY <1>1, <1>2, <1>3, StackForms

\* A step of one handler: its frames become q.
Advances(h, q) ==
  /\ Continue(h, q) /\ loop[home[h]] \in {h, NoOne} /\ home' = home
  /\ SameEvents(events, events') /\ SameRuns(runs, runs') /\ StackFits(q, events', runs')
  /\ \A e \in Nat : Announcing(q, e) => e \notin DOMAIN events
  /\ \A e \in DOMAIN events : events[e].row = "new" => events'[e].row = "new" \/ Announcing(stack[h], e)

\* What a handler announces is not stored.
LEMMA Announced ==
  ASSUME NEW s, NEW list, NEW rows, StackFits(s, list, rows), NEW e, Announcing(s, e)
  PROVE  e \in DOMAIN list /\ list[e].row = "new"
<1>1. s # <<>>
  BY DEF Announcing
<1>2. CASE \E f : Single(s, f, list, rows)
  <2>1. PICK f : Single(s, f, list, rows)
    BY <1>2
  <2>2. FrameFits(f, list, rows) /\ DOMAIN s = {1} /\ s[1] = f
    BY <2>1, OneFrame DEF Single
  <2>3. QED
    BY <2>2 DEF Announcing, FrameFits
<1>3. CASE \E f, g : Double(s, f, g, list, rows)
  <2>1. PICK f, g : Double(s, f, g, list, rows)
    BY <1>3
  <2>2. f.pc = "asked" /\ FrameFits(g, list, rows) /\ s = <<f, g>>
    BY <2>1 DEF Double
  <2>3. DOMAIN s = {1, 2} /\ s[1] = f /\ s[2] = g
    BY <2>2, TwoFrames DEF Pair
  <2>4. QED
    BY <2>2, <2>3 DEF Announcing, FrameFits
<1>4. QED
  BY <1>1, <1>2, <1>3, StackForms

LEMMA TurningStep ==
  ASSUME Turning, NEW h \in Handlers, NEW q \in Seq(Frames), Advances(h, q)
  PROVE  Turning'
<1>1. /\ home \in [Handlers -> Engines] /\ stack \in [Handlers -> Seq(Frames)]
      /\ loop \in [Engines -> Handlers \cup {NoOne}]
      /\ home' = home /\ stack' = [stack EXCEPT ![h] = q]
      /\ loop' = [loop EXCEPT ![home[h]] = IF q = <<>> \/ Last(q).pc = "routing" THEN NoOne ELSE h]
      /\ NoOne \notin Handlers
  BY EngineAssumption DEF Turning, Advances, Continue
<1>2. /\ stack' \in [Handlers -> Seq(Frames)] /\ loop' \in [Engines -> Handlers \cup {NoOne}]
      /\ stack'[h] = q /\ \A g \in Handlers : g # h => stack'[g] = stack[g]
      /\ loop'[home[h]] = IF q = <<>> \/ Last(q).pc = "routing" THEN NoOne ELSE h
      /\ \A x \in Engines : x # home[h] => loop'[x] = loop[x]
  BY <1>1
<1>3. Stacks'
  <2>1. ASSUME NEW g \in Handlers, g # h PROVE StackFits(stack[g], events', runs')
    <3>1. StackFits(stack[g], events, runs)
      BY DEF Turning, Stacks
    <3>2. ASSUME NEW e \in DOMAIN events, Announcing(stack[g], e) PROVE events'[e].row = "new"
      <4>1. events[e].row = "new"
        BY <3>1, <3>2, Announced
      <4>2. e \in Nat
        <5>1. PICK k \in DOMAIN stack[g] : stack[g][k].event = e
          BY <3>2 DEF Announcing
        <5>2. stack[g] \in Seq(Frames)
          BY <1>1
        <5>3. stack[g][k] \in Frames
          BY <5>1, <5>2, ElementOfSeq, LenProperties
        <5>4. QED
          BY <5>1, <5>3 DEF Frames
      <4>3. ~ Announcing(stack[h], e)
        BY <2>1, <3>2, <4>2 DEF Turning, Owned
      <4>4. QED
        BY <4>1, <4>3 DEF Advances
    <3>3. SameEvents(events, events') /\ SameRuns(runs, runs')
      BY DEF Advances
    <3>4. QED
      BY <3>1, <3>2, <3>3, StackStays
  <2>2. StackFits(q, events', runs')
    BY DEF Advances
  <2>3. QED
    BY <1>2, <2>1, <2>2 DEF Stacks
<1>4. LoopFits'
  <2>1. loop'[home[h]] = h <=> Holding(q)
    BY <1>1, <1>2 DEF Holding
  <2>2. ASSUME NEW g \in Handlers, g # h PROVE loop'[home[g]] = g <=> Holding(stack[g])
    <3>1. loop[home[g]] = g <=> Holding(stack[g])
      BY DEF Turning, LoopFits
    <3>2. CASE home[g] = home[h]
      <4>1. loop[home[g]] # g
        BY <1>1, <2>2, <3>2 DEF Advances
      <4>2. loop'[home[g]] # g
        BY <1>1, <1>2, <2>2, <3>2
      <4>3. QED
        BY <3>1, <4>1, <4>2
    <3>3. CASE home[g] # home[h]
      BY <1>1, <1>2, <3>1, <3>3
    <3>4. QED
      BY <3>2, <3>3
  <2>3. QED
    BY <1>1, <1>2, <2>1, <2>2 DEF LoopFits
<1>5. Owned'
  <2>1. ASSUME NEW g \in Handlers, g # h, NEW e \in Nat, Announcing(stack[g], e) PROVE ~ Announcing(q, e)
    <3>1. e \in DOMAIN events
      BY <2>1, Announced DEF Turning, Stacks
    <3>2. QED
      BY <3>1 DEF Advances
  <2>2. \A g1, g2 \in Handlers, e \in Nat :
           Announcing(stack'[g1], e) /\ Announcing(stack'[g2], e) => g1 = g2
    BY <1>2, <2>1 DEF Turning, Owned
  <2>3. QED
    BY <2>2 DEF Owned
<1>6. QED
  BY <1>1, <1>2, <1>3, <1>4, <1>5 DEF Turning

-----------------------------------------------------------------------------
(* The rows *)

BudgetSet(subjects) == [rule : Rules, subject : subjects, day : Nat, used : Nat]
CountSet == [starts : 0..MaxStarts, cleanups : Nat, faults : Nat, crashes : Nat]
Records ==
  /\ home \in Homes
  /\ events \in Seq(EventSet(AllSubjects)) /\ runs \in Seq(RunSet) /\ skipped \subseteq Rules \X (DOMAIN events)
  /\ approvals \in Seq(ApprovalSet) /\ budget \in [Engines -> SUBSET BudgetSet(AllSubjects)]
  /\ now \in 0..MaxTime /\ count \in CountSet /\ Troubles <= MaxTroubles

\* A run is of an event that was stored, and gone only with it.
RowsFit ==
  \A i \in DOMAIN runs :
    /\ runs[i].event \in DOMAIN events /\ events[runs[i].event].row # "new" /\ runs[i].at <= now
    /\ runs[i].status = "gone" => events[runs[i].event].row = "gone"

EngineInv == Records /\ Turning /\ RowsFit

LEMMA Grown ==
  ASSUME NEW S, NEW T, NEW s \in Seq(S), S \subseteq T, NEW x \in T, NEW t, t = Append(s, x)
  PROVE  /\ t \in Seq(T) /\ DOMAIN t = DOMAIN s \cup {Len(s) + 1} /\ DOMAIN s \subseteq DOMAIN t /\ DOMAIN s \subseteq Nat
         /\ Len(s) + 1 \notin DOMAIN s /\ Len(s) + 1 \in Nat /\ Len(s) + 1 \in DOMAIN t /\ t[Len(s) + 1] = x
         /\ \A i \in DOMAIN s : t[i] = s[i]
<1>1. s \in Seq(T) /\ Len(s) \in Nat /\ DOMAIN s = 1..Len(s)
  BY SeqMonotonic, LenProperties
<1>2. t \in Seq(T) /\ Len(t) = Len(s) + 1 /\ t[Len(s) + 1] = x /\ \A i \in 1..Len(s) : t[i] = s[i]
  BY <1>1, AppendProperties
<1>3. DOMAIN t = 1..Len(s) + 1
  BY <1>2, LenProperties
<1>4. 1..Len(s) + 1 = 1..Len(s) \cup {Len(s) + 1} /\ Len(s) + 1 \notin 1..Len(s)
  BY <1>1
<1>5. QED
  BY <1>1, <1>2, <1>3, <1>4

LEMMA Rewritten ==
  ASSUME NEW S, NEW T, NEW s \in Seq(S), NEW t, t = [i \in DOMAIN s |-> t[i]], \A i \in DOMAIN s : t[i] \in T
  PROVE  t \in Seq(T) /\ DOMAIN t = DOMAIN s /\ Len(t) = Len(s)
<1>1. PICK n \in Nat : n = Len(s) /\ DOMAIN s = 1..n
  BY LenProperties
<1>2. t \in [1..n -> T]
  BY <1>1
<1>3. t \in Seq(T)
  BY <1>2, SeqDef
<1>4. PICK m \in Nat : m = Len(t) /\ DOMAIN t = 1..m
  BY <1>3, LenProperties
<1>5. 1..m = 1..n
  BY <1>2, <1>4
<1>6. m <= n /\ n <= m
  BY <1>5
<1>7. QED
  BY <1>1, <1>3, <1>4, <1>5, <1>6

\* The innermost frame of a handler, its event and its rule.
LEMMA TopFrame ==
  ASSUME EngineInv, NEW h \in Handlers, stack[h] # <<>>
  PROVE  /\ FrameFits(Top(h), events, runs) /\ Top(h) \in Frames /\ Top(h).pc # "asked"
         /\ Top(h).event \in DOMAIN events /\ Top(h).event \in Nat
         /\ events[Top(h).event] \in EventSet(AllSubjects) /\ EventOf(h) = events[Top(h).event]
         /\ Top(h).pc # "append" => RuleOf(h) \in Top(h).todo /\ RuleOf(h) \in Rules
         /\ home[h] \in Engines /\ StackFits(stack[h], events, runs)
<1>1. StackFits(stack[h], events, runs) /\ home[h] \in Engines
  BY DEF EngineInv, Turning, Stacks
<1>2. FrameFits(Top(h), events, runs) /\ Top(h).pc # "asked"
  BY <1>1, TopFits DEF Top
<1>3. Top(h) \in Frames /\ Top(h).event \in DOMAIN events
  BY <1>2 DEF FrameFits
<1>4. events \in Seq(EventSet(AllSubjects))
  BY DEF EngineInv, Records
<1>5. events[Top(h).event] \in EventSet(AllSubjects) /\ Top(h).event \in Nat
  <2>1. PICK S : S = EventSet(AllSubjects)
    OBVIOUS
  <2>2. events \in Seq(S)
    BY <1>4, <2>1
  <2>3. DOMAIN events = 1..Len(events) /\ Len(events) \in Nat
    BY <2>2, LenProperties
  <2>4. events[Top(h).event] \in S
    BY <1>3, <2>2, <2>3, ElementOfSeq
  <2>5. QED
    BY <1>3, <2>1, <2>3, <2>4
<1>6. Top(h).pc # "append" => RuleOf(h) \in Top(h).todo /\ RuleOf(h) \in Rules
  <2>1. Top(h).pc # "append" => Top(h).todo # {} /\ Top(h).todo \in SUBSET Rules
    BY <1>2, <1>3 DEF FrameFits, Frames
  <2>2. QED
    BY <2>1, FirstIn DEF RuleOf
<1>7. QED
  BY <1>1, <1>2, <1>3, <1>5, <1>6 DEF EventOf

-----------------------------------------------------------------------------
(* A step of a handler *)

\* What was to do is still to do or done; what becomes stored is to do; what was done stays so.
Tidy(h, q) ==
  /\ \A e \in DOMAIN events, r \in Rules :
       Stored(e)' /\ PendingIn(stack[h], e, r) => PendingIn(q, e, r) \/ Settled(r, e)'
  /\ \A e \in DOMAIN events' : Stored(e)' =>
       \/ e \in DOMAIN events /\ Stored(e)
       \/ \A r \in Rules : events'[e].type \in Rule[r].types => PendingIn(q, e, r)
  /\ \A e \in DOMAIN events, r \in Rules : Stored(e)' /\ Settled(r, e) => Settled(r, e)'
NotInserting(q) == q # <<>> => Last(q).pc # "insert"

LEMMA SettledStays ==
  ASSUME skipped \subseteq skipped', SameRuns(runs, runs'),
         \A i \in DOMAIN runs : runs[i].status \notin {"gone", "running"} => runs'[i].status \notin {"gone", "running"},
         NEW e, NEW r, Settled(r, e)
  PROVE  Settled(r, e)'
<1>1. CASE <<r, e>> \in skipped
  BY <1>1 DEF Settled
<1>2. CASE \E i \in Acted(r) : runs[i].event = e /\ runs[i].status # "running"
  <2>1. PICK i \in DOMAIN runs : runs[i].rule = r /\ runs[i].status # "gone" /\ runs[i].event = e /\ runs[i].status # "running"
    BY <1>2 DEF Acted
  <2>2. /\ i \in DOMAIN runs' /\ runs'[i].rule = r /\ runs'[i].event = e
        /\ runs'[i].status # "gone" /\ runs'[i].status # "running"
    BY <2>1 DEF SameRuns
  <2>3. QED
    BY <2>2 DEF Settled, Acted
<1>3. QED
  BY <1>1, <1>2 DEF Settled

LEMMA SameStays == \A list : SameEvents(list, list) /\ SameRuns(list, list)
BY DEF SameEvents, SameRuns

\* A new event.
Added(ev, n) ==
  /\ events' \in Seq(EventSet(AllSubjects')) /\ DOMAIN events' = DOMAIN events \cup {n} /\ DOMAIN events \subseteq Nat
  /\ n = Len(events) + 1 /\ n \in Nat /\ n \notin DOMAIN events /\ n \in DOMAIN events' /\ events'[n] = ev
  /\ \A e \in DOMAIN events : events'[e] = events[e]
  /\ SameEvents(events, events')

LEMMA EventAdded ==
  ASSUME EngineInv, AllSubjects \subseteq AllSubjects', NEW ev \in EventSet(AllSubjects'), events' = Append(events, ev),
         NEW n, n = Len(events) + 1
  PROVE  Added(ev, n)
<1>1. PICK S, T : S = EventSet(AllSubjects) /\ T = EventSet(AllSubjects')
  OBVIOUS
<1>2. events \in Seq(S) /\ S \subseteq T /\ ev \in T
  BY <1>1 DEF EngineInv, Records, EventSet
<1>3. PICK t : t = events'
  OBVIOUS
<1>4. /\ t \in Seq(T) /\ DOMAIN t = DOMAIN events \cup {Len(events) + 1} /\ DOMAIN events \subseteq Nat
      /\ Len(events) + 1 \notin DOMAIN events /\ Len(events) + 1 \in Nat /\ Len(events) + 1 \in DOMAIN t
      /\ t[Len(events) + 1] = ev /\ \A i \in DOMAIN events : t[i] = events[i]
  BY <1>2, <1>3, Grown
<1>5. SameEvents(events, t)
  BY <1>4 DEF SameEvents
<1>6. QED
  BY <1>1, <1>3, <1>4, <1>5 DEF Added

LEMMA NewFrame ==
  ASSUME NEW e \in Nat, NEW pc \in {"append", "decide"}, NEW todo \in SUBSET Rules, NEW list, NEW rows, e \in DOMAIN list,
         pc = "append" => todo = {} /\ list[e].row = "new", pc = "decide" => todo # {} /\ list[e].row # "new"
  PROVE  /\ FrameFits(Frame(e, pc, todo), list, rows) /\ Frame(e, pc, todo) \in Frames
         /\ Frame(e, pc, todo).event = e /\ Frame(e, pc, todo).pc = pc /\ Frame(e, pc, todo).todo = todo
<1>1. PICK f : f = [event |-> e, pc |-> pc, todo |-> todo, decision |-> "none", run |-> 0]
  OBVIOUS
<1>2. f \in Frames /\ f.event = e /\ f.pc = pc /\ f.todo = todo /\ f.decision = "none" /\ f.run = 0
  BY <1>1 DEF Frames
<1>3. FrameFits(f, list, rows)
  BY <1>2 DEF FrameFits, Working
<1>4. Frame(e, pc, todo) = f
  BY <1>1 DEF Frame
<1>5. QED
  BY <1>2, <1>3, <1>4

\* The first frame of a handler.
LEMMA FirstFrame ==
  ASSUME NEW f, NEW list, NEW rows, FrameFits(f, list, rows), f.pc # "asked"
  PROVE  /\ <<f>> \in Seq(Frames) /\ StackFits(<<f>>, list, rows) /\ <<f>> # <<>> /\ Last(<<f>>) = f
         /\ \A e : Announcing(<<f>>, e) <=> f.pc = "append" /\ f.event = e
         /\ \A e, r : PendingIn(<<f>>, e, r) <=> f.event = e /\ r \in f.todo
<1>1. DOMAIN <<f>> = {1} /\ <<f>>[1] = f /\ <<f>> # <<>> /\ Last(<<f>>) = f
  BY OneFrame
<1>2. <<f>> \in Seq(Frames)
  BY DEF FrameFits
<1>3. StackFits(<<f>>, list, rows)
  BY DEF StackFits
<1>4. QED
  BY <1>1, <1>2, <1>3 DEF Announcing, PendingIn

LEMMA NoFrame ==
  /\ <<>> \in Seq(Frames) /\ \A list, rows : StackFits(<<>>, list, rows)
  /\ \A e, r : ~ Announcing(<<>>, e) /\ ~ PendingIn(<<>>, e, r)
BY DEF StackFits, Announcing, PendingIn

-----------------------------------------------------------------------------
(* The steps of a handler, one by one *)

\* A step that keeps the invariant and leaves no rule out.
KeepsRows == Records' /\ RowsFit'
Proceeds(h) == KeepsRows /\ \E q \in Seq(Frames) : Advances(h, q) /\ Tidy(h, q) /\ NotInserting(q)

LEMMA RecordsStep ==
  ASSUME EngineInv, home' = home, now' = now, AllSubjects \subseteq AllSubjects',
         events' \in Seq(EventSet(AllSubjects')), skipped' \subseteq Rules \X (DOMAIN events'),
         runs' \in Seq(RunSet), approvals' \in Seq(ApprovalSet),
         budget' = budget \/ budget' \in [Engines -> SUBSET BudgetSet(AllSubjects')],
         Starting \/ count' = count
  PROVE  Records'
<1>1. home \in Homes /\ now \in 0..MaxTime /\ count \in CountSet /\ Troubles <= MaxTroubles
  BY DEF EngineInv, Records
<1>2. budget' \in [Engines -> SUBSET BudgetSet(AllSubjects')]
  <2>1. budget \in [Engines -> SUBSET BudgetSet(AllSubjects)]
    BY DEF EngineInv, Records
  <2>2. PICK A, B : A = AllSubjects /\ B = AllSubjects'
    OBVIOUS
  <2>3. BudgetSet(A) \subseteq BudgetSet(B)
    BY <2>2 DEF BudgetSet
  <2>4. budget \in [Engines -> SUBSET BudgetSet(B)]
    BY <2>1, <2>2, <2>3
  <2>5. QED
    BY <2>2, <2>4
<1>3. /\ count' \in CountSet /\ count'.cleanups = count.cleanups /\ count'.faults = count.faults
      /\ count'.crashes = count.crashes
  <2>1. CASE count' = count
    BY <1>1, <2>1
  <2>2. CASE Starting
    <3>1. count.starts \in 0..MaxStarts /\ count.starts < MaxStarts /\ MaxStarts \in Nat
      BY <1>1, <2>2, EngineAssumption DEF CountSet, Starting
    <3>2. count.starts + 1 \in 0..MaxStarts
      BY <3>1
    <3>3. count' = [count EXCEPT !.starts = count.starts + 1]
      BY <2>2 DEF Starting
    <3>4. QED
      BY <1>1, <3>2, <3>3 DEF CountSet
  <2>3. QED
    BY <2>1, <2>2
<1>4. Troubles' <= MaxTroubles
  BY <1>1, <1>3 DEF Troubles
<1>5. QED
  BY <1>1, <1>2, <1>3, <1>4 DEF Records

LEMMA RowsFitStay ==
  ASSUME RowsFit, runs' = runs, now' = now, SameEvents(events, events')
  PROVE  RowsFit'
BY DEF RowsFit, SameEvents

\* The rules an event is matched with are rules.
LEMMA MatchingRules == \A ev : Matching(ev) \in SUBSET Rules /\ \A r \in Rules : ev.type \in Rule[r].types => r \in Matching(ev)
BY DEF Matching

\* Nothing is unsettled by a step that only adds.
LEMMA SettledByAll ==
  ASSUME skipped \subseteq skipped', SameRuns(runs, runs'),
         \A i \in DOMAIN runs : runs[i].status \notin {"gone", "running"} => runs'[i].status \notin {"gone", "running"}
  PROVE  \A e \in DOMAIN events, r \in Rules : Stored(e)' /\ Settled(r, e) => Settled(r, e)'
BY SettledStays

\* The start of a handler whose frames become q.
LEMMA Begins ==
  ASSUME EngineInv, NEW h \in Handlers, Idle(h), NEW q \in Seq(Frames), Continue(h, q),
         home' = home, SameEvents(events, events'), runs' = runs, skipped' = skipped,
         StackFits(q, events', runs'),
         \A e \in Nat : Announcing(q, e) => e \notin DOMAIN events,
         \A e \in DOMAIN events : events'[e].row = events[e].row,
         \A e \in DOMAIN events' : Stored(e)' => \/ e \in DOMAIN events
                                                 \/ \A r \in Rules : events'[e].type \in Rule[r].types => PendingIn(q, e, r),
         q # <<>> => Last(q).pc # "insert"
  PROVE  Advances(h, q) /\ Tidy(h, q) /\ NotInserting(q)
<1>1. SameRuns(runs, runs')
  BY SameStays
<1>2. Advances(h, q)
  BY <1>1 DEF Advances, Idle
<1>3. \A e \in DOMAIN events, r \in Rules : Stored(e)' /\ Settled(r, e) => Settled(r, e)'
  <2>1. \A i \in DOMAIN runs : runs[i].status \notin {"gone", "running"} => runs'[i].status \notin {"gone", "running"}
    OBVIOUS
  <2>2. skipped \subseteq skipped'
    OBVIOUS
  <2>3. QED
    BY <1>1, <2>1, <2>2, SettledByAll
<1>4. \A e \in DOMAIN events, r \in Rules : ~ PendingIn(stack[h], e, r)
  BY NoFrame DEF Idle
<1>5. \A e \in DOMAIN events : Stored(e)' => Stored(e)
  BY DEF Stored
<1>6. \A e \in DOMAIN events' : Stored(e)' =>
        \/ e \in DOMAIN events /\ Stored(e)
        \/ \A r \in Rules : events'[e].type \in Rule[r].types => PendingIn(q, e, r)
  BY <1>5
<1>7. QED
  BY <1>2, <1>3, <1>4, <1>6 DEF Tidy, NotInserting

LEMMA EmitStep ==
  ASSUME EngineInv, NEW h \in Handlers, NEW s \in Subjects, NEW k \in Keys, NEW m \in Meets, Emit(h, s, k, m)
  PROVE  Proceeds(h)
<1>1. PICK ev : ev = NewEvent("outside", s, k, m, "stored")
  OBVIOUS
<1>2. PICK n : n = Len(events) + 1
  OBVIOUS
<1>3. /\ Idle(h) /\ Starting /\ home' = home /\ runs' = runs /\ skipped' = skipped /\ approvals' = approvals
      /\ budget' = budget /\ now' = now
      /\ \/ events' = events /\ stack' = stack /\ loop' = loop
         \/ /\ events' = Append(events, ev)
            /\ Continue(h, IF Matching(ev) = {} THEN <<>> ELSE <<Frame(n, "decide", Matching(ev))>>)
  BY <1>1, <1>2 DEF Emit
<1>4. AllSubjects' = AllSubjects
  BY <1>3 DEF AllSubjects
<1>5. runs' \in Seq(RunSet) /\ approvals' \in Seq(ApprovalSet)
  BY <1>3 DEF EngineInv, Records
<1>6. CASE events' = events /\ stack' = stack /\ loop' = loop
  <2>1. Continue(h, <<>>)
    <3>1. stack[h] = <<>> /\ loop[home[h]] = NoOne
      BY <1>3 DEF Idle
    <3>2. stack \in [Handlers -> Seq(Frames)] /\ loop \in [Engines -> Handlers \cup {NoOne}]
      BY DEF EngineInv, Turning
    <3>3. QED
      BY <1>6, <3>1, <3>2 DEF Continue
  <2>2. SameEvents(events, events')
    BY <1>6, SameStays
  <2>3. \A e : ~ Announcing(<<>>, e)
    BY NoFrame
  <2>4. Advances(h, <<>>) /\ Tidy(h, <<>>) /\ NotInserting(<<>>)
    BY <1>3, <1>6, <2>1, <2>2, <2>3, NoFrame, Begins
  <2>5. events' \in Seq(EventSet(AllSubjects')) /\ skipped' \subseteq Rules \X (DOMAIN events')
    BY <1>3, <1>4, <1>6 DEF EngineInv, Records
  <2>6. Records'
    BY <1>3, <1>4, <1>5, <2>5, RecordsStep
  <2>7. RowsFit'
    BY <1>3, <2>2, RowsFitStay DEF EngineInv
  <2>8. QED
    BY <2>4, <2>6, <2>7, NoFrame DEF Proceeds, KeepsRows
<1>7. CASE /\ events' = Append(events, ev)
           /\ Continue(h, IF Matching(ev) = {} THEN <<>> ELSE <<Frame(n, "decide", Matching(ev))>>)
  <2>1. ev \in EventSet(AllSubjects') /\ ev.type = "outside" /\ ev.row = "stored"
    <3>1. now \in 0..MaxTime /\ s \in AllSubjects' /\ m \in SUBSET Rules
      BY <1>4, EngineAssumption DEF EngineInv, Records, AllSubjects
    <3>2. QED
      BY <1>1, <3>1 DEF NewEvent, EventSet, Types
  <2>2. Added(ev, n)
    BY <1>2, <1>4, <1>7, <2>1, EventAdded
  <2>3. events' \in Seq(EventSet(AllSubjects')) /\ skipped' \subseteq Rules \X (DOMAIN events')
    BY <1>3, <2>2 DEF EngineInv, Records, Added
  <2>4. Records'
    BY <1>3, <1>4, <1>5, <2>3, RecordsStep
  <2>5. RowsFit'
    BY <1>3, <2>2, RowsFitStay DEF EngineInv, Added
  <2>6. PICK q : q = IF Matching(ev) = {} THEN <<>> ELSE <<Frame(n, "decide", Matching(ev))>>
    OBVIOUS
  <2>7. /\ q \in Seq(Frames) /\ StackFits(q, events', runs') /\ \A e : ~ Announcing(q, e)
        /\ q # <<>> => Last(q).pc # "insert"
        /\ \A r \in Rules : ev.type \in Rule[r].types => PendingIn(q, n, r)
    <3>1. CASE Matching(ev) = {}
      BY <2>6, <3>1, NoFrame, MatchingRules
    <3>2. CASE Matching(ev) # {}
      <4>1. PICK f : f = Frame(n, "decide", Matching(ev))
        OBVIOUS
      <4>2. /\ FrameFits(f, events', runs') /\ f.event = n /\ f.pc = "decide" /\ f.todo = Matching(ev)
        <5>1. n \in Nat /\ n \in DOMAIN events' /\ events'[n].row # "new" /\ Matching(ev) \in SUBSET Rules
          BY <2>1, <2>2, MatchingRules DEF Added
        <5>2. PICK list, rows, todo : list = events' /\ rows = runs' /\ todo = Matching(ev)
          OBVIOUS
        <5>3. todo \in SUBSET Rules /\ todo # {} /\ n \in DOMAIN list /\ list[n].row # "new"
          BY <3>2, <5>1, <5>2
        <5>4. PICK g : g = Frame(n, "decide", todo)
          OBVIOUS
        <5>5. FrameFits(g, list, rows) /\ g.event = n /\ g.pc = "decide" /\ g.todo = todo
          BY <5>1, <5>3, <5>4, NewFrame
        <5>6. f = g
          BY <4>1, <5>2, <5>4
        <5>7. QED
          BY <5>2, <5>5, <5>6
      <4>3. q = <<f>>
        BY <2>6, <3>2, <4>1
      <4>4. /\ <<f>> \in Seq(Frames) /\ StackFits(<<f>>, events', runs') /\ Last(<<f>>) = f
            /\ \A e : Announcing(<<f>>, e) <=> f.pc = "append" /\ f.event = e
            /\ \A e, r : PendingIn(<<f>>, e, r) <=> f.event = e /\ r \in f.todo
        BY <4>2, FirstFrame
      <4>5. QED
        BY <4>2, <4>3, <4>4, MatchingRules
    <3>3. QED
      BY <3>1, <3>2
  <2>8. \A e \in DOMAIN events : events'[e].row = events[e].row
    BY <2>2 DEF Added
  <2>9. \A e \in DOMAIN events' : Stored(e)' => \/ e \in DOMAIN events
                                                \/ \A r \in Rules : events'[e].type \in Rule[r].types => PendingIn(q, e, r)
    BY <2>2, <2>7 DEF Added
  <2>10. Advances(h, q) /\ Tidy(h, q) /\ NotInserting(q)
    <3>1. Continue(h, q) /\ SameEvents(events, events')
      BY <1>7, <2>2, <2>6 DEF Added
    <3>2. QED
      BY <1>3, <2>7, <2>8, <2>9, <3>1, Begins
  <2>11. QED
    BY <2>4, <2>5, <2>7, <2>10 DEF Proceeds, KeepsRows
<1>8. QED
  BY <1>3, <1>6, <1>7

LEMMA ReplayStep ==
  ASSUME EngineInv, NEW h \in Handlers, NEW e \in DOMAIN events, Replay(h, e)
  PROVE  Proceeds(h)
<1>1. /\ Idle(h) /\ Starting /\ Stored(e) /\ Matching(events[e]) # {}
      /\ Continue(h, <<Frame(e, "decide", Matching(events[e]))>>) /\ UNCHANGED <<home, events, runs, skipped, approvals, budget, now>>
  BY DEF Replay
<1>2. PICK f : f = Frame(e, "decide", Matching(events[e]))
  OBVIOUS
<1>3. FrameFits(f, events', runs') /\ f.pc = "decide"
  <2>1. e \in Nat
    <3>1. events \in Seq(EventSet(AllSubjects))
      BY DEF EngineInv, Records
    <3>2. QED
      BY <3>1, LenProperties
  <2>2. events'[e].row # "new" /\ e \in DOMAIN events' /\ Matching(events[e]) \in SUBSET Rules
    BY <1>1, MatchingRules DEF Stored
  <2>3. QED
    BY <1>1, <1>2, <2>1, <2>2, NewFrame
<1>4. /\ <<f>> \in Seq(Frames) /\ StackFits(<<f>>, events', runs') /\ Last(<<f>>) = f
      /\ \A x : ~ Announcing(<<f>>, x)
  BY <1>3, FirstFrame
<1>5. SameEvents(events, events') /\ AllSubjects' = AllSubjects
  BY <1>1, SameStays DEF AllSubjects
<1>6. Records' /\ RowsFit'
  <2>1. /\ events' \in Seq(EventSet(AllSubjects')) /\ skipped' \subseteq Rules \X (DOMAIN events')
        /\ runs' \in Seq(RunSet) /\ approvals' \in Seq(ApprovalSet)
    BY <1>1, <1>5 DEF EngineInv, Records
  <2>2. Records'
    BY <1>1, <1>5, <2>1, RecordsStep
  <2>3. QED
    BY <1>1, <1>5, <2>2, RowsFitStay DEF EngineInv
<1>7. Advances(h, <<f>>) /\ Tidy(h, <<f>>) /\ NotInserting(<<f>>)
  <2>1. \A x \in DOMAIN events : events'[x].row = events[x].row
    BY <1>1
  <2>2. \A x \in DOMAIN events' : x \in DOMAIN events
    BY <1>1
  <2>3. QED
    BY <1>1, <1>2, <1>3, <1>4, <1>5, <2>1, <2>2, Begins
<1>8. QED
  BY <1>4, <1>6, <1>7 DEF Proceeds, KeepsRows

\* The frame that announces an approval.
LEMMA AnnouncesNew ==
  ASSUME NEW n \in Nat, NEW list, NEW rows, n \in DOMAIN list, list[n].row = "new"
  PROVE  LET f == Frame(n, "append", {})
         IN FrameFits(f, list, rows) /\ f.event = n /\ f.pc = "append" /\ f.todo = {}
BY NewFrame

LEMMA ResolveStep ==
  ASSUME EngineInv, NEW h \in Handlers, NEW a \in DOMAIN approvals, NEW verdict \in {"approved", "rejected"},
         Resolve(h, a, verdict)
  PROVE  Proceeds(h)
<1>1. PICK ev : ev = Announce(a, EventOfVerdict(verdict))
  OBVIOUS
<1>2. PICK n : n = Len(events) + 1
  OBVIOUS
<1>3. PICK f : f = Frame(n, "append", {})
  OBVIOUS
<1>4. /\ Idle(h) /\ Starting /\ home' = home /\ runs' = runs /\ skipped' = skipped /\ budget' = budget /\ now' = now
      /\ approvals' = [approvals EXCEPT ![a].status = verdict] /\ events' = Append(events, ev)
      /\ Continue(h, <<f>>)
  BY <1>1, <1>2, <1>3 DEF Resolve, AnnounceFrame
<1>5. approvals' \in Seq(ApprovalSet) /\ DOMAIN approvals' = DOMAIN approvals
  <2>1. approvals \in Seq(ApprovalSet)
    BY DEF EngineInv, Records
  <2>2. approvals[a] \in ApprovalSet
    BY <2>1, ElementOfSeq, LenProperties
  <2>3. PICK w : w = [approvals[a] EXCEPT !.status = verdict]
    OBVIOUS
  <2>4. w \in ApprovalSet
    BY <2>2, <2>3 DEF ApprovalSet
  <2>5. approvals' = [approvals EXCEPT ![a] = w]
    BY <1>4, <2>3
  <2>6. QED
    BY <2>1, <2>4, <2>5, ExceptSeq, LenProperties
<1>6. AllSubjects' = AllSubjects
  BY <1>5 DEF AllSubjects
<1>7. ev \in EventSet(AllSubjects') /\ ev.row = "new"
  <2>1. EventOfVerdict(verdict) \in Types /\ now \in 0..MaxTime /\ a \in AllSubjects'
    BY <1>5 DEF EventOfVerdict, Types, EngineInv, Records, AllSubjects
  <2>2. ev = [type |-> EventOfVerdict(verdict), subject |-> a, key |-> NoOne, meets |-> Rules, at |-> now, row |-> "new"]
    BY <1>1 DEF Announce, NewEvent
  <2>3. QED
    BY <2>1, <2>2 DEF EventSet
<1>8. Added(ev, n)
  BY <1>2, <1>4, <1>6, <1>7, EventAdded
<1>9. FrameFits(f, events', runs') /\ f.pc = "append" /\ f.event = n
  <2>1. n \in Nat /\ n \in DOMAIN events' /\ events'[n].row = "new"
    BY <1>7, <1>8 DEF Added
  <2>2. QED
    BY <1>3, <2>1, AnnouncesNew
<1>10. /\ <<f>> \in Seq(Frames) /\ StackFits(<<f>>, events', runs') /\ Last(<<f>>) = f
       /\ \A x : Announcing(<<f>>, x) <=> n = x
  BY <1>9, FirstFrame
<1>11. Records' /\ RowsFit'
  <2>1. /\ events' \in Seq(EventSet(AllSubjects')) /\ skipped' \subseteq Rules \X (DOMAIN events') /\ runs' \in Seq(RunSet)
    BY <1>4, <1>8 DEF EngineInv, Records, Added
  <2>2. Records'
    BY <1>4, <1>5, <1>6, <2>1, RecordsStep
  <2>3. QED
    BY <1>4, <1>8, <2>2, RowsFitStay DEF EngineInv, Added
<1>12. Advances(h, <<f>>) /\ Tidy(h, <<f>>) /\ NotInserting(<<f>>)
  <2>1. \A x \in DOMAIN events : events'[x].row = events[x].row
    BY <1>8 DEF Added
  <2>2. \A x \in DOMAIN events' : Stored(x)' => x \in DOMAIN events
    BY <1>7, <1>8 DEF Added, Stored
  <2>3. SameEvents(events, events') /\ n \notin DOMAIN events
    BY <1>8 DEF Added
  <2>4. QED
    BY <1>4, <1>9, <1>10, <2>1, <2>2, <2>3, Begins
<1>13. QED
  BY <1>10, <1>11, <1>12 DEF Proceeds, KeepsRows

\* The frames of a handler as a sequence.
LEMMA FramesOf ==
  ASSUME NEW s, NEW list, NEW rows, StackFits(s, list, rows)
  PROVE  /\ s \in Seq(Frames)
         /\ s # <<>> => Len(s) \in DOMAIN s /\ Last(s) = s[Len(s)]
<1>1. CASE s = <<>>
  BY <1>1, NoFrame
<1>2. CASE s # <<>> /\ \E f : Single(s, f, list, rows)
  <2>1. PICK f : Single(s, f, list, rows)
    BY <1>2
  <2>2. f \in Frames /\ s = <<f>>
    BY <2>1 DEF Single, FrameFits
  <2>3. QED
    BY <2>2, OneFrame
<1>3. CASE s # <<>> /\ \E f, g : Double(s, f, g, list, rows)
  <2>1. PICK f, g : Double(s, f, g, list, rows)
    BY <1>3
  <2>2. f \in Frames /\ g \in Frames /\ s = <<f, g>>
    BY <2>1 DEF Double, FrameFits
  <2>3. s \in Seq(Frames)
    BY <2>2
  <2>4. Last(s) = g /\ DOMAIN s = {1, 2} /\ s[2] = g /\ Len(s) = 2
    BY <2>2, TwoFrames DEF Pair
  <2>5. QED
    BY <2>3, <2>4
<1>4. QED
  BY <1>1, <1>2, <1>3, StackForms

LEMMA LastPending ==
  ASSUME NEW s, NEW list, NEW rows, StackFits(s, list, rows), s # <<>>
  PROVE  /\ \A r \in Last(s).todo : PendingIn(s, Last(s).event, r)
         /\ Last(s).pc = "append" => Announcing(s, Last(s).event)
BY FramesOf DEF PendingIn, Announcing

\* A step that stores no event and leaves only what has been settled.
LEMMA Goes ==
  ASSUME EngineInv, NEW h \in Handlers, NEW q, Continue(h, q), loop[home[h]] \in {h, NoOne}, home' = home,
         SameEvents(events, events'), SameRuns(runs, runs'), skipped \subseteq skipped',
         StackFits(q, events', runs'),
         \A e \in Nat : Announcing(q, e) => e \notin DOMAIN events,
         \A e \in DOMAIN events : events'[e].row = events[e].row,
         \A e \in DOMAIN events' : Stored(e)' => e \in DOMAIN events,
         \A i \in DOMAIN runs : runs[i].status \notin {"gone", "running"} => runs'[i].status \notin {"gone", "running"},
         \A e \in DOMAIN events, r \in Rules : Stored(e) /\ PendingIn(stack[h], e, r) => PendingIn(q, e, r) \/ Settled(r, e)'
  PROVE  q \in Seq(Frames) /\ Advances(h, q) /\ Tidy(h, q)
<1>1. Advances(h, q)
  BY DEF Advances
<1>2. \A e \in DOMAIN events, r \in Rules : Stored(e)' /\ Settled(r, e) => Settled(r, e)'
  BY SettledByAll
<1>3. \A e \in DOMAIN events : Stored(e)' => Stored(e)
  BY DEF Stored
<1>4. Tidy(h, q)
  BY <1>2, <1>3 DEF Tidy
<1>5. QED
  BY <1>1, <1>4, FramesOf

LEMMA AppendEventStep ==
  ASSUME EngineInv, NEW h \in Handlers, AppendEvent(h)
  PROVE  Proceeds(h)
<1>1. PICK n, ev, q : n = Top(h).event /\ ev = [events[n] EXCEPT !.row = "stored"]
         /\ q = Unwound(WithTop(stack[h], Frame(n, "decide", Matching(EventOf(h)))))
  OBVIOUS
<1>2. /\ stack[h] # <<>> /\ loop[home[h]] = h /\ Top(h).pc = "append" /\ events' = [events EXCEPT ![n] = ev]
      /\ Continue(h, q) /\ UNCHANGED <<home, runs, skipped, approvals, budget, now, count>>
  BY <1>1 DEF AppendEvent, Runs, WithTop
<1>3. /\ n \in DOMAIN events /\ n \in Nat /\ events[n] \in EventSet(AllSubjects) /\ EventOf(h) = events[n]
      /\ events[n].row = "new" /\ Top(h).todo = {} /\ StackFits(stack[h], events, runs)
  BY <1>1, <1>2, TopFrame DEF FrameFits
<1>4. ev \in EventSet(AllSubjects) /\ ev.row = "stored" /\ ev.type = events[n].type /\ ev.subject = events[n].subject
  BY <1>1, <1>3 DEF EventSet
<1>5. AllSubjects' = AllSubjects
  BY <1>2 DEF AllSubjects
<1>6. /\ events' \in Seq(EventSet(AllSubjects')) /\ DOMAIN events' = DOMAIN events /\ events'[n] = ev
      /\ \A e \in DOMAIN events : e # n => events'[e] = events[e]
  <2>1. PICK S : S = EventSet(AllSubjects)
    OBVIOUS
  <2>2. events \in Seq(S) /\ ev \in S
    BY <1>4, <2>1 DEF EngineInv, Records
  <2>3. events' \in Seq(S)
    BY <1>2, <1>3, <2>2, ExceptSeq, LenProperties
  <2>4. QED
    BY <1>2, <1>3, <1>5, <2>1, <2>3
<1>7. SameEvents(events, events') /\ SameRuns(runs, runs')
  <2>1. SameRuns(runs, runs')
    BY <1>2, SameStays
  <2>2. SameEvents(events, events')
    BY <1>3, <1>4, <1>6 DEF SameEvents
  <2>3. QED
    BY <2>1, <2>2
<1>8. Records' /\ RowsFit'
  <2>1. skipped' \subseteq Rules \X (DOMAIN events') /\ runs' \in Seq(RunSet) /\ approvals' \in Seq(ApprovalSet)
    BY <1>2, <1>6 DEF EngineInv, Records
  <2>2. Records'
    BY <1>2, <1>5, <1>6, <2>1, RecordsStep
  <2>3. QED
    BY <1>2, <1>7, <2>2, RowsFitStay DEF EngineInv
<1>9. PICK t : t = Frame(n, "decide", Matching(EventOf(h)))
  OBVIOUS
<1>10. /\ t.event = n /\ t.pc = "decide" /\ t.todo = Matching(events[n])
       /\ t.todo # {} => FrameFits(t, events', runs')
  <2>1. t.event = n /\ t.pc = "decide" /\ t.todo = Matching(events[n])
    BY <1>3, <1>9 DEF Frame
  <2>2. CASE Matching(events[n]) # {}
    <3>1. n \in DOMAIN events' /\ events'[n].row # "new" /\ Matching(events[n]) \in SUBSET Rules
      BY <1>3, <1>4, <1>6, MatchingRules
    <3>2. FrameFits(t, events', runs')
      BY <1>3, <1>9, <2>2, <3>1, NewFrame
    <3>3. QED
      BY <2>1, <3>2
  <2>3. QED
    BY <2>1, <2>2
<1>11. /\ StackFits(q, events', runs') /\ \A k \in DOMAIN q : q[k].pc # "append"
       /\ q = <<>> \/ Last(q) = t \/ Last(q).pc = "routing"
       /\ \A e, r : PendingIn(stack[h], e, r) => PendingIn(q, e, r)
  <2>1. t.event = Last(stack[h]).event /\ t.pc # "asked" /\ Last(stack[h]).todo = {}
    BY <1>1, <1>3, <1>10 DEF Top
  <2>2. q = Unwound(WithTop(stack[h], t))
    BY <1>1, <1>9
  <2>3. Left(stack[h], t, q, events', runs')
    BY <1>2, <1>3, <1>7, <1>10, <2>1, <2>2, TopUnwound
  <2>4. QED
    BY <2>1, <2>3 DEF Left
<1>12. \A r \in Rules : events[n].type \in Rule[r].types => PendingIn(q, n, r)
  <2>1. SUFFICES ASSUME t.todo # {} PROVE \A r \in t.todo : PendingIn(q, n, r)
    BY <1>10, MatchingRules
  <2>2. /\ StackFits(WithTop(stack[h], t), events', runs') /\ WithTop(stack[h], t) # <<>> /\ Last(WithTop(stack[h], t)) = t
    <3>1. t.event = Last(stack[h]).event /\ t.pc # "asked" /\ FrameFits(t, events', runs')
      BY <1>1, <1>10, <2>1 DEF Top
    <3>2. QED
      BY <1>2, <1>3, <1>7, <3>1, TopReplaced
  <2>3. q = WithTop(stack[h], t)
    BY <1>1, <1>9, <2>1, <2>2 DEF Unwound
  <2>4. QED
    BY <1>10, <2>2, <2>3, LastPending
<1>13. Advances(h, q)
  <2>1. Announcing(stack[h], n)
    BY <1>1, <1>2, <1>3, LastPending DEF Top
  <2>2. \A e \in Nat : ~ Announcing(q, e)
    BY <1>11 DEF Announcing
  <2>3. \A e \in DOMAIN events : events[e].row = "new" => events'[e].row = "new" \/ Announcing(stack[h], e)
    BY <1>6, <2>1
  <2>4. QED
    BY <1>2, <1>7, <1>11, <2>2, <2>3 DEF Advances
<1>14. Tidy(h, q)
  <2>1. \A e \in DOMAIN events, r \in Rules : Stored(e)' /\ Settled(r, e) => Settled(r, e)'
    BY <1>2, <1>7, SettledByAll
  <2>2. \A e \in DOMAIN events' : Stored(e)' =>
       \/ e \in DOMAIN events /\ Stored(e)
       \/ \A r \in Rules : events'[e].type \in Rule[r].types => PendingIn(q, e, r)
    BY <1>4, <1>6, <1>12 DEF Stored
  <2>3. QED
    BY <1>11, <2>1, <2>2 DEF Tidy
<1>15. NotInserting(q)
  BY <1>10, <1>11 DEF NotInserting
<1>16. QED
  BY <1>8, <1>11, <1>13, <1>14, <1>15, FramesOf DEF Proceeds, KeepsRows

\* The frames left when the first rule of the innermost is done.
LEMMA NextRuleLeft ==
  ASSUME EngineInv, NEW h \in Handlers, stack[h] # <<>>, Top(h).pc # "append",
         SameEvents(events, events'), SameRuns(runs, runs')
  PROVE  /\ StackFits(NextRule(h), events', runs') /\ NotInserting(NextRule(h))
         /\ \A e : ~ Announcing(NextRule(h), e)
         /\ \A e, r : PendingIn(stack[h], e, r) => PendingIn(NextRule(h), e, r) \/ (e = Top(h).event /\ r = RuleOf(h))
<1>1. PICK o, t, rule : o = Top(h) /\ rule = RuleOf(h) /\ t = [o EXCEPT !.pc = "decide", !.todo = o.todo \ {rule}, !.run = 0]
  OBVIOUS
<1>2. FrameFits(o, events, runs) /\ o \in Frames /\ StackFits(stack[h], events, runs) /\ rule \in o.todo
  BY <1>1, TopFrame
<1>3. /\ t \in Frames /\ t.event = o.event /\ t.pc = "decide" /\ t.todo = o.todo \ {rule} /\ t.decision = o.decision
  BY <1>1, <1>2 DEF Frames
<1>4. t.todo # {} => FrameFits(t, events', runs')
  <2>1. o.event \in DOMAIN events' /\ events'[o.event].row # "new" /\ events'[o.event].type = events[o.event].type
    BY <1>1, <1>2 DEF FrameFits, SameEvents
  <2>2. QED
    BY <1>2, <1>3, <2>1 DEF FrameFits, Working
<1>5. PICK q : q = NextRule(h)
  OBVIOUS
<1>6. q = Unwound(WithTop(stack[h], t))
  BY <1>1, <1>5 DEF NextRule, WithTop
<1>7. Left(stack[h], t, q, events', runs')
  <2>1. t.event = Last(stack[h]).event /\ t.pc # "asked"
    BY <1>1, <1>3 DEF Top
  <2>2. QED
    BY <1>2, <1>4, <1>6, <2>1, TopUnwound
<1>8. /\ StackFits(q, events', runs') /\ NotInserting(q) /\ \A e : ~ Announcing(q, e)
      /\ \A e, r : PendingIn(stack[h], e, r) => PendingIn(q, e, r) \/ (e = o.event /\ r = rule)
  <2>1. Last(stack[h]).todo = o.todo
    BY <1>1 DEF Top
  <2>2. StackFits(q, events', runs') /\ NotInserting(q) /\ \A e : ~ Announcing(q, e)
    BY <1>3, <1>7 DEF Left, NotInserting, Announcing
  <2>3. \A e, r : PendingIn(stack[h], e, r) => PendingIn(q, e, r) \/ (e = o.event /\ r = rule)
    BY <1>3, <1>7, <2>1 DEF Left
  <2>4. QED
    BY <2>2, <2>3
<1>9. QED
  BY <1>1, <1>5, <1>8

LEMMA InsertSkippedStep ==
  ASSUME EngineInv, NEW h \in Handlers, InsertSkipped(h)
  PROVE  Proceeds(h)
<1>1. PICK n, rule, q : n = Top(h).event /\ rule = RuleOf(h) /\ q = NextRule(h)
  OBVIOUS
<1>2. /\ stack[h] # <<>> /\ loop[home[h]] = h /\ Top(h).pc = "insert" /\ skipped' = skipped \cup {<<rule, n>>}
      /\ Continue(h, q) /\ UNCHANGED <<home, events, runs, approvals, budget, now, count>>
  BY <1>1 DEF InsertSkipped, Runs
<1>3. n \in DOMAIN events /\ rule \in Rules
  BY <1>1, <1>2, TopFrame
<1>4. SameEvents(events, events') /\ SameRuns(runs, runs') /\ AllSubjects' = AllSubjects
  BY <1>2, SameStays DEF AllSubjects
<1>5. Records' /\ RowsFit'
  <2>1. /\ events' \in Seq(EventSet(AllSubjects')) /\ skipped' \subseteq Rules \X (DOMAIN events')
        /\ runs' \in Seq(RunSet) /\ approvals' \in Seq(ApprovalSet)
    BY <1>2, <1>3, <1>4 DEF EngineInv, Records
  <2>2. Records'
    BY <1>2, <1>4, <2>1, RecordsStep
  <2>3. QED
    BY <1>2, <1>4, <2>2, RowsFitStay DEF EngineInv
<1>6. /\ StackFits(q, events', runs') /\ NotInserting(q) /\ \A e : ~ Announcing(q, e)
      /\ \A e, r : PendingIn(stack[h], e, r) => PendingIn(q, e, r) \/ (e = n /\ r = rule)
  BY <1>1, <1>2, <1>4, NextRuleLeft
<1>7. Settled(rule, n)'
  BY <1>2 DEF Settled
<1>8. q \in Seq(Frames) /\ Advances(h, q) /\ Tidy(h, q)
  <2>1. \A e \in DOMAIN events, r \in Rules : Stored(e) /\ PendingIn(stack[h], e, r) => PendingIn(q, e, r) \/ Settled(r, e)'
    BY <1>6, <1>7
  <2>2. \A i \in DOMAIN runs : runs[i].status \notin {"gone", "running"} => runs'[i].status \notin {"gone", "running"}
    BY <1>2
  <2>3. \A e \in DOMAIN events : events'[e].row = events[e].row
    BY <1>2
  <2>4. \A e \in DOMAIN events' : e \in DOMAIN events
    BY <1>2
  <2>5. skipped \subseteq skipped' /\ loop[home[h]] \in {h, NoOne} /\ home' = home /\ \A e \in Nat : ~ Announcing(q, e)
    BY <1>2, <1>6
  <2>6. QED
    BY <1>2, <1>4, <1>6, <2>1, <2>2, <2>3, <2>4, <2>5, Goes
<1>9. QED
  BY <1>5, <1>6, <1>8 DEF Proceeds, KeepsRows

LEMMA RoutedStep ==
  ASSUME EngineInv, NEW h \in Handlers, Routed(h)
  PROVE  Proceeds(h)
<1>1. PICK n, rule, q, i, status :
        n = Top(h).event /\ rule = RuleOf(h) /\ q = NextRule(h) /\ i = Top(h).run
        /\ status = IF runs[i].status = "gone" THEN "gone" ELSE Outcome(Top(h).decision)
  OBVIOUS
<1>2. /\ stack[h] # <<>> /\ loop[home[h]] = NoOne /\ Top(h).pc = "routing" /\ runs' = [runs EXCEPT ![i].status = status]
      /\ Continue(h, q) /\ UNCHANGED <<home, events, skipped, approvals, budget, now, count>>
  BY <1>1 DEF Routed, RunUpdated
<1>3. n \in DOMAIN events /\ rule \in Rules /\ i \in DOMAIN runs /\ runs[i].rule = rule /\ runs[i].event = n
  BY <1>1, <1>2, TopFrame DEF FrameFits, Working, RuleOf
<1>4. runs[i] \in RunSet /\ runs \in Seq(RunSet)
  <2>1. runs \in Seq(RunSet)
    BY DEF EngineInv, Records
  <2>2. QED
    BY <1>3, <2>1, ElementOfSeq, LenProperties
<1>5. PICK w : w = [runs[i] EXCEPT !.status = status]
  OBVIOUS
<1>6. /\ w \in RunSet /\ w.rule = rule /\ w.event = n /\ w.engine = runs[i].engine /\ w.at = runs[i].at
      /\ w.status = status
      /\ status \in {"gone", "awaiting_approval", "routed"} /\ (status = "gone" <=> runs[i].status = "gone")
  <2>1. status \in {"gone", "awaiting_approval", "routed"} /\ (status = "gone" <=> runs[i].status = "gone")
    BY <1>1 DEF Outcome
  <2>2. status \in Statuses
    BY <2>1 DEF Statuses
  <2>3. QED
    BY <1>3, <1>4, <1>5, <2>1, <2>2 DEF RunSet
<1>7. runs' \in Seq(RunSet) /\ DOMAIN runs' = DOMAIN runs /\ runs'[i] = w /\ \A j \in DOMAIN runs : j # i => runs'[j] = runs[j]
  <2>1. runs' = [runs EXCEPT ![i] = w]
    BY <1>2, <1>5
  <2>2. QED
    BY <1>3, <1>4, <1>6, <2>1, ExceptSeq, LenProperties
<1>8. SameEvents(events, events') /\ SameRuns(runs, runs') /\ AllSubjects' = AllSubjects
  <2>1. SameRuns(runs, runs')
    BY <1>3, <1>6, <1>7 DEF SameRuns
  <2>2. QED
    BY <1>2, <2>1, SameStays DEF AllSubjects
<1>9. Records' /\ RowsFit'
  <2>1. /\ events' \in Seq(EventSet(AllSubjects')) /\ skipped' \subseteq Rules \X (DOMAIN events')
        /\ approvals' \in Seq(ApprovalSet)
    BY <1>2, <1>8 DEF EngineInv, Records
  <2>2. Records'
    BY <1>2, <1>7, <1>8, <2>1, RecordsStep
  <2>3. RowsFit'
    BY <1>2, <1>3, <1>6, <1>7 DEF EngineInv, RowsFit
  <2>4. QED
    BY <2>2, <2>3
<1>10. /\ StackFits(q, events', runs') /\ NotInserting(q) /\ \A e : ~ Announcing(q, e)
       /\ \A e, r : PendingIn(stack[h], e, r) => PendingIn(q, e, r) \/ (e = n /\ r = rule)
  BY <1>1, <1>2, <1>8, NextRuleLeft
<1>11. Stored(n) => Settled(rule, n)'
  <2>1. SUFFICES ASSUME Stored(n) PROVE Settled(rule, n)'
    OBVIOUS
  <2>2. runs[i].status # "gone"
    BY <1>3, <2>1 DEF EngineInv, RowsFit, Stored
  <2>3. i \in DOMAIN runs' /\ runs'[i].rule = rule /\ runs'[i].event = n /\ runs'[i].status \notin {"gone", "running"}
    BY <1>3, <1>6, <1>7, <2>2
  <2>4. QED
    BY <2>3 DEF Settled, Acted
<1>12. q \in Seq(Frames) /\ Advances(h, q) /\ Tidy(h, q)
  <2>1. \A e \in DOMAIN events, r \in Rules : Stored(e) /\ PendingIn(stack[h], e, r) => PendingIn(q, e, r) \/ Settled(r, e)'
    BY <1>10, <1>11
  <2>2. \A j \in DOMAIN runs : runs[j].status \notin {"gone", "running"} => runs'[j].status \notin {"gone", "running"}
    BY <1>6, <1>7
  <2>3. \A e \in DOMAIN events : events'[e].row = events[e].row
    BY <1>2
  <2>4. \A e \in DOMAIN events' : e \in DOMAIN events
    BY <1>2
  <2>5. skipped \subseteq skipped' /\ loop[home[h]] \in {h, NoOne} /\ home' = home /\ \A e \in Nat : ~ Announcing(q, e)
    BY <1>2, <1>10
  <2>6. QED
    BY <1>2, <1>8, <1>10, <2>1, <2>2, <2>3, <2>4, <2>5, Goes
<1>13. QED
  BY <1>9, <1>10, <1>12 DEF Proceeds, KeepsRows

LEMMA InsertRunStep ==
  ASSUME EngineInv, NEW h \in Handlers, InsertRun(h)
  PROVE  Proceeds(h)
<1>1. PICK o, rule, w, n, t, q :
        /\ o = Top(h) /\ rule = RuleOf(h) /\ n = Len(runs) + 1
        /\ w = [rule |-> rule, event |-> o.event, engine |-> home[h], decision |-> o.decision,
                status |-> "running", at |-> now]
        /\ t = [o EXCEPT !.run = n, !.pc = IF o.decision = "ask" THEN "ask" ELSE "routing"]
        /\ q = WithTop(stack[h], t)
  OBVIOUS
<1>2. /\ stack[h] # <<>> /\ loop[home[h]] = h /\ o.pc = "insert" /\ o.decision # "skip" /\ runs' = Append(runs, w)
      /\ Continue(h, q) /\ UNCHANGED <<home, events, skipped, approvals, budget, now, count>>
  BY <1>1 DEF InsertRun, Runs, WithTop
<1>3. /\ FrameFits(o, events, runs) /\ o \in Frames /\ rule \in o.todo /\ rule \in Rules /\ home[h] \in Engines
      /\ StackFits(stack[h], events, runs) /\ o.event \in DOMAIN events /\ o.event \in Nat /\ o.decision \in Decisions
  <2>1. /\ FrameFits(o, events, runs) /\ o \in Frames /\ rule \in o.todo /\ rule \in Rules /\ home[h] \in Engines
        /\ StackFits(stack[h], events, runs) /\ o.event \in DOMAIN events /\ o.event \in Nat
    BY <1>1, <1>2, TopFrame
  <2>2. o.decision # "none"
    BY <1>2, <2>1 DEF FrameFits
  <2>3. QED
    BY <1>2, <2>1, <2>2 DEF Frames
<1>4. w \in RunSet /\ w.rule = rule /\ w.event = o.event /\ w.status = "running" /\ w.at = now
  <2>1. now \in 0..MaxTime /\ "running" \in Statuses
    BY DEF EngineInv, Records, Statuses
  <2>2. QED
    BY <1>1, <1>3, <2>1 DEF RunSet
<1>5. /\ runs' \in Seq(RunSet) /\ DOMAIN runs' = DOMAIN runs \cup {n} /\ n \notin DOMAIN runs /\ n \in Nat
      /\ runs'[n] = w /\ \A i \in DOMAIN runs : runs'[i] = runs[i]
  <2>1. runs \in Seq(RunSet)
    BY DEF EngineInv, Records
  <2>2. PICK s2 : s2 = runs'
    OBVIOUS
  <2>3. /\ s2 \in Seq(RunSet) /\ DOMAIN s2 = DOMAIN runs \cup {Len(runs) + 1} /\ Len(runs) + 1 \notin DOMAIN runs
        /\ Len(runs) + 1 \in Nat /\ s2[Len(runs) + 1] = w /\ \A i \in DOMAIN runs : s2[i] = runs[i]
    BY <1>2, <1>4, <2>1, <2>2, Grown
  <2>4. QED
    BY <1>1, <2>2, <2>3
<1>6. SameEvents(events, events') /\ SameRuns(runs, runs') /\ AllSubjects' = AllSubjects
  <2>1. SameRuns(runs, runs')
    BY <1>5 DEF SameRuns
  <2>2. QED
    BY <1>2, <2>1, SameStays DEF AllSubjects
<1>7. Records' /\ RowsFit'
  <2>1. /\ events' \in Seq(EventSet(AllSubjects')) /\ skipped' \subseteq Rules \X (DOMAIN events')
        /\ approvals' \in Seq(ApprovalSet)
    BY <1>2, <1>6 DEF EngineInv, Records
  <2>2. Records'
    BY <1>2, <1>5, <1>6, <2>1, RecordsStep
  <2>3. events[o.event].row # "new" /\ now \in Nat
    BY <1>2, <1>3 DEF FrameFits, EngineInv, Records
  <2>4. RowsFit'
    BY <1>2, <1>3, <1>4, <1>5, <2>3 DEF EngineInv, RowsFit
  <2>5. QED
    BY <2>2, <2>4
<1>8. /\ FrameFits(t, events', runs') /\ t.event = o.event /\ t.pc \in {"ask", "routing"} /\ t.todo = o.todo
  <2>1. /\ t \in Frames /\ t.event = o.event /\ t.pc = (IF o.decision = "ask" THEN "ask" ELSE "routing") /\ t.todo = o.todo
        /\ t.decision = o.decision /\ t.run = n
    BY <1>1, <1>3, <1>5 DEF Frames
  <2>2. rule = First(o.todo)
    BY <1>1 DEF RuleOf
  <2>3. t.pc \in {"ask", "routing"} /\ (t.pc = "ask" => t.decision = "ask")
    BY <2>1
  <2>4. t.run \in DOMAIN runs' /\ runs'[t.run].rule = First(t.todo) /\ runs'[t.run].event = t.event
    BY <1>4, <1>5, <2>1, <2>2
  <2>5. FrameFits(t, events', runs')
    BY <1>2, <1>3, <2>1, <2>3, <2>4 DEF FrameFits, Working
  <2>6. QED
    BY <2>1, <2>3, <2>5
<1>9. /\ StackFits(q, events', runs') /\ NotInserting(q) /\ \A e : ~ Announcing(q, e)
      /\ \A e, r : PendingIn(stack[h], e, r) => PendingIn(q, e, r)
  <2>1. t.event = Last(stack[h]).event /\ t.pc # "asked" /\ Last(stack[h]).todo = o.todo
    BY <1>1, <1>8 DEF Top
  <2>2. /\ StackFits(WithTop(stack[h], t), events', runs') /\ WithTop(stack[h], t) # <<>> /\ Last(WithTop(stack[h], t)) = t
        /\ \A k \in DOMAIN WithTop(stack[h], t) : WithTop(stack[h], t)[k].pc = "append" => WithTop(stack[h], t)[k] = t
        /\ \A e, r : PendingIn(stack[h], e, r) =>
              PendingIn(WithTop(stack[h], t), e, r) \/ (e = t.event /\ r \in Last(stack[h]).todo /\ r \notin t.todo)
    BY <1>2, <1>3, <1>6, <1>8, <2>1, TopReplaced
  <2>3. /\ StackFits(q, events', runs') /\ Last(q) = t
        /\ \A k \in DOMAIN q : q[k].pc = "append" => q[k] = t
        /\ \A e, r : PendingIn(stack[h], e, r) => PendingIn(q, e, r)
    BY <1>1, <1>8, <2>1, <2>2
  <2>4. QED
    BY <1>8, <2>3 DEF NotInserting, Announcing
<1>10. q \in Seq(Frames) /\ Advances(h, q) /\ Tidy(h, q)
  <2>1. \A e \in DOMAIN events, r \in Rules : Stored(e) /\ PendingIn(stack[h], e, r) => PendingIn(q, e, r) \/ Settled(r, e)'
    BY <1>9
  <2>2. \A j \in DOMAIN runs : runs[j].status \notin {"gone", "running"} => runs'[j].status \notin {"gone", "running"}
    BY <1>5
  <2>3. \A e \in DOMAIN events : events'[e].row = events[e].row
    BY <1>2
  <2>4. \A e \in DOMAIN events' : e \in DOMAIN events
    BY <1>2
  <2>5. skipped \subseteq skipped' /\ loop[home[h]] \in {h, NoOne} /\ home' = home /\ \A e \in Nat : ~ Announcing(q, e)
    BY <1>2, <1>9
  <2>6. QED
    BY <1>2, <1>6, <1>9, <2>1, <2>2, <2>3, <2>4, <2>5, Goes
<1>11. QED
  BY <1>7, <1>9, <1>10 DEF Proceeds, KeepsRows

LEMMA AskStep ==
  ASSUME EngineInv, NEW h \in Handlers, Ask(h)
  PROVE  Proceeds(h)
<1>1. PICK o, t, a, w, ev, n, g, q :
        /\ o = Top(h) /\ t = [o EXCEPT !.pc = "asked"] /\ a = Len(approvals) + 1
        /\ w = [rule |-> RuleOf(h), event |-> o.event, status |-> "pending"]
        /\ ev = Announce(a, "approval.requested") /\ n = Len(events) + 1 /\ g = Frame(n, "append", {})
        /\ q = Append(WithTop(stack[h], t), g)
  OBVIOUS
<1>2. /\ stack[h] # <<>> /\ loop[home[h]] = h /\ o.pc = "ask" /\ approvals' = Append(approvals, w)
      /\ events' = Append(events, ev)
      /\ Continue(h, q) /\ UNCHANGED <<home, runs, skipped, budget, now, count>>
  BY <1>1 DEF Ask, Runs, WithTop, AtPc, AnnounceFrame
<1>3. /\ FrameFits(o, events, runs) /\ o \in Frames /\ RuleOf(h) \in Rules
      /\ StackFits(stack[h], events, runs) /\ o.event \in DOMAIN events /\ o.event \in Nat
  BY <1>1, <1>2, TopFrame
<1>4. /\ approvals' \in Seq(ApprovalSet) /\ a \in DOMAIN approvals' /\ AllSubjects \subseteq AllSubjects'
      /\ a \in AllSubjects'
  <2>1. w \in ApprovalSet /\ approvals \in Seq(ApprovalSet)
    BY <1>1, <1>3 DEF ApprovalSet, EngineInv, Records
  <2>2. PICK s2 : s2 = approvals'
    OBVIOUS
  <2>3. s2 \in Seq(ApprovalSet) /\ DOMAIN approvals \subseteq DOMAIN s2 /\ Len(approvals) + 1 \in DOMAIN s2
    BY <1>2, <2>1, <2>2, Grown
  <2>4. QED
    BY <1>1, <2>2, <2>3 DEF AllSubjects
<1>5. ev \in EventSet(AllSubjects') /\ ev.row = "new" /\ ev.type = "approval.requested"
  <2>1. now \in 0..MaxTime
    BY DEF EngineInv, Records
  <2>2. ev = [type |-> "approval.requested", subject |-> a, key |-> NoOne, meets |-> Rules, at |-> now, row |-> "new"]
    BY <1>1 DEF Announce, NewEvent
  <2>3. QED
    BY <1>4, <2>1, <2>2 DEF EventSet, Types
<1>6. Added(ev, n)
  BY <1>1, <1>2, <1>4, <1>5, EventAdded
<1>7. SameEvents(events, events') /\ SameRuns(runs, runs')
  BY <1>2, <1>6, SameStays DEF Added
<1>8. Records' /\ RowsFit'
  <2>1. /\ events' \in Seq(EventSet(AllSubjects')) /\ skipped' \subseteq Rules \X (DOMAIN events') /\ runs' \in Seq(RunSet)
    BY <1>2, <1>6 DEF EngineInv, Records, Added
  <2>2. Records'
    BY <1>2, <1>4, <2>1, RecordsStep
  <2>3. QED
    BY <1>2, <1>7, <2>2, RowsFitStay DEF EngineInv
<1>9. FrameFits(t, events', runs') /\ t.pc = "asked" /\ t.event = o.event /\ t.todo = o.todo
  <2>1. /\ t \in Frames /\ t.event = o.event /\ t.pc = "asked" /\ t.todo = o.todo
        /\ t.decision = o.decision /\ t.run = o.run
    BY <1>1, <1>3 DEF Frames
  <2>2. /\ o.event \in DOMAIN events' /\ events'[o.event].type = events[o.event].type /\ events'[o.event].row # "new"
    BY <1>2, <1>3, <1>7 DEF FrameFits, SameEvents
  <2>3. FrameFits(t, events', runs')
    BY <1>2, <1>3, <2>1, <2>2 DEF FrameFits, Working
  <2>4. QED
    BY <2>1, <2>3
<1>10. FrameFits(g, events', runs') /\ g.pc = "append" /\ g.event = n
  <2>1. n \in Nat /\ n \in DOMAIN events' /\ events'[n].row = "new"
    BY <1>5, <1>6 DEF Added
  <2>2. QED
    BY <1>1, <2>1, AnnouncesNew
<1>11. stack[h] = <<o>>
  <2>1. o = Last(stack[h])
    BY <1>1 DEF Top
  <2>2. events[o.event].type = "outside"
    BY <1>2, <1>3 DEF FrameFits
  <2>3. ASSUME NEW f, NEW e, Double(stack[h], f, e, events, runs) PROVE FALSE
    <3>1. stack[h] = <<f, e>> /\ events[e.event].type # "outside"
      BY <2>3 DEF Double
    <3>2. Last(stack[h]) = e
      <4>1. Pair(stack[h], f, e)
        BY <3>1, TwoFrames
      <4>2. QED
        BY <4>1 DEF Pair
    <3>3. o = e
      BY <2>1, <3>2, Zenon
    <3>4. events[e.event].type # "outside"
      BY <3>1
    <3>5. QED
      BY <2>2, <3>3, <3>4, Zenon
  <2>4. PICK f : Single(stack[h], f, events, runs)
    BY <1>2, <1>3, <2>3, StackForms
  <2>5. QED
    BY <2>1, <2>4, OneFrame DEF Single
<1>12. q = <<t, g>>
  <2>1. WithTop(stack[h], t) = <<t>>
    BY <1>11, OneFrame DEF WithTop
  <2>2. Append(<<t>>, g) = <<t, g>>
    BY TwoFrames DEF Pair
  <2>3. QED
    BY <1>1, <2>1, <2>2
<1>13. DOMAIN q = {1, 2} /\ q[1] = t /\ q[2] = g /\ Last(q) = g /\ DOMAIN stack[h] = {1} /\ stack[h][1] = o
  <2>1. Pair(q, t, g)
    BY <1>12, TwoFrames
  <2>2. QED
    BY <1>11, <2>1, OneFrame DEF Pair
<1>14. StackFits(q, events', runs')
  <2>1. events'[g.event].type # "outside"
    BY <1>5, <1>6, <1>10 DEF Added
  <2>2. QED
    BY <1>9, <1>10, <1>12, <2>1 DEF StackFits
<1>15. /\ \A e : Announcing(q, e) => e = n
       /\ \A e, r : PendingIn(stack[h], e, r) => PendingIn(q, e, r)
  BY <1>9, <1>10, <1>13 DEF Announcing, PendingIn
<1>16. q \in Seq(Frames) /\ Advances(h, q) /\ Tidy(h, q)
  <2>1. \A e \in DOMAIN events, r \in Rules : Stored(e) /\ PendingIn(stack[h], e, r) => PendingIn(q, e, r) \/ Settled(r, e)'
    BY <1>15
  <2>2. \A j \in DOMAIN runs : runs[j].status \notin {"gone", "running"} => runs'[j].status \notin {"gone", "running"}
    BY <1>2
  <2>3. \A e \in DOMAIN events : events'[e].row = events[e].row
    BY <1>6 DEF Added
  <2>4. \A e \in DOMAIN events' : Stored(e)' => e \in DOMAIN events
    BY <1>5, <1>6 DEF Added, Stored
  <2>5. skipped \subseteq skipped' /\ loop[home[h]] \in {h, NoOne} /\ home' = home
    BY <1>2
  <2>6. \A e \in Nat : Announcing(q, e) => e \notin DOMAIN events
    BY <1>6, <1>15 DEF Added
  <2>7. QED
    BY <1>2, <1>7, <1>14, <2>1, <2>2, <2>3, <2>4, <2>5, <2>6, Goes
<1>17. NotInserting(q)
  BY <1>10, <1>13 DEF NotInserting
<1>18. QED
  BY <1>8, <1>16, <1>17 DEF Proceeds, KeepsRows

LEMMA DayIsNatural ==
  ASSUME NEW t \in Nat
  PROVE  t \div DayLength \in Nat
BY EngineAssumption

LEMMA DecideStep ==
  ASSUME EngineInv, NEW h \in Handlers, Decide(h)
  PROVE  KeepsRows /\ \E q \in Seq(Frames) : Advances(h, q) /\ Tidy(h, q)
<1>1. PICK o, yes, t, q :
        /\ o = Top(h) /\ yes \in BOOLEAN /\ (yes <=> Eligible(h) /\ WithinBudget(h))
        /\ t = [o EXCEPT !.pc = "insert", !.decision = IF yes THEN Mode(h) ELSE "skip"]
        /\ q = WithTop(stack[h], t)
  OBVIOUS
<1>2. /\ stack[h] # <<>> /\ loop[home[h]] = h /\ o.pc = "decide" /\ Continue(h, q)
      /\ UNCHANGED <<home, events, runs, skipped, approvals, now, count>>
      /\ \/ budget' = budget
         \/ budget' = [budget EXCEPT ![home[h]] = (budget[home[h]] \ ScopeOf(h)) \cup {Charge(h)}]
  BY <1>1 DEF Decide, Runs, WithTop
<1>3. /\ FrameFits(o, events, runs) /\ o \in Frames /\ RuleOf(h) \in Rules /\ RuleOf(h) \in o.todo /\ home[h] \in Engines
      /\ StackFits(stack[h], events, runs) /\ o.event \in DOMAIN events /\ o.event \in Nat
      /\ EventOf(h) = events[o.event] /\ events[o.event] \in EventSet(AllSubjects)
  BY <1>1, <1>2, TopFrame
<1>4. SameEvents(events, events') /\ SameRuns(runs, runs') /\ AllSubjects' = AllSubjects
  BY <1>2, SameStays DEF AllSubjects
<1>5. Mode(h) \in Decisions \cup {"skip"} /\ (Mode(h) = "ask" => events[o.event].type = "outside")
  <2>1. Rule[RuleOf(h)].mode \in Decisions \cup {"skip", "other"}
    BY <1>3, EngineAssumption
  <2>2. WantedMode(RuleOf(h)) \in Decisions \cup {"skip"}
    BY <2>1 DEF WantedMode, Decisions
  <2>3. QED
    BY <1>3, <2>2 DEF Mode, Decisions
<1>6. budget' = budget \/ budget' \in [Engines -> SUBSET BudgetSet(AllSubjects')]
  <2>1. PICK B, C, S : B = BudgetSet(AllSubjects) /\ C = Charge(h) /\ S = ScopeOf(h)
    OBVIOUS
  <2>2. budget \in [Engines -> SUBSET B]
    BY <2>1 DEF EngineInv, Records
  <2>3. S \subseteq B
    BY <1>3, <2>1, <2>2 DEF ScopeOf
  <2>4. UsedToday(h) \in Nat
    <3>1. CASE \E b \in S : b.day = Today
      <4>1. UsedToday(h) = (CHOOSE b \in S : b.day = Today).used
        BY <2>1, <3>1 DEF UsedToday
      <4>2. (CHOOSE b \in S : b.day = Today) \in B
        BY <2>3, <3>1
      <4>3. QED
        BY <2>1, <4>1, <4>2 DEF BudgetSet
    <3>2. CASE ~ \E b \in S : b.day = Today
      BY <2>1, <3>2 DEF UsedToday
    <3>3. QED
      BY <3>1, <3>2
  <2>5. Today \in Nat
    BY DayIsNatural DEF Today, EngineInv, Records
  <2>6. EventOf(h).subject \in AllSubjects
    BY <1>3 DEF EventSet
  <2>7. C \in B
    <3>1. C = [rule |-> RuleOf(h), subject |-> EventOf(h).subject, day |-> Today, used |-> UsedToday(h) + 1]
      BY <2>1 DEF Charge
    <3>2. QED
      BY <1>3, <2>1, <2>4, <2>5, <2>6, <3>1 DEF BudgetSet
  <2>8. budget' = budget \/ budget' \in [Engines -> SUBSET B]
    BY <1>2, <1>3, <2>1, <2>2, <2>7
  <2>9. QED
    BY <1>4, <2>1, <2>8
<1>7. Records' /\ RowsFit'
  <2>1. /\ events' \in Seq(EventSet(AllSubjects')) /\ skipped' \subseteq Rules \X (DOMAIN events')
        /\ runs' \in Seq(RunSet) /\ approvals' \in Seq(ApprovalSet)
    BY <1>2, <1>4 DEF EngineInv, Records
  <2>2. Records'
    BY <1>2, <1>4, <1>6, <2>1, RecordsStep
  <2>3. QED
    BY <1>2, <1>4, <2>2, RowsFitStay DEF EngineInv
<1>8. FrameFits(t, events', runs') /\ t.event = o.event /\ t.pc = "insert" /\ t.todo = o.todo
  <2>1. PICK d : d = IF yes THEN Mode(h) ELSE "skip"
    OBVIOUS
  <2>2. d \in Decisions \cup {"skip"} /\ (d = "ask" => events[o.event].type = "outside")
    BY <1>1, <1>5, <2>1
  <2>3. t \in Frames /\ t.event = o.event /\ t.pc = "insert" /\ t.todo = o.todo /\ t.decision = d
    BY <1>1, <1>3, <2>1, <2>2 DEF Frames
  <2>4. FrameFits(t, events', runs')
    BY <1>2, <1>3, <2>2, <2>3 DEF FrameFits, Working, Decisions
  <2>5. QED
    BY <2>3, <2>4
<1>9. /\ StackFits(q, events', runs') /\ \A e : ~ Announcing(q, e)
      /\ \A e, r : PendingIn(stack[h], e, r) => PendingIn(q, e, r)
  <2>1. t.event = Last(stack[h]).event /\ t.pc # "asked" /\ Last(stack[h]).todo = o.todo
    BY <1>1, <1>8 DEF Top
  <2>2. /\ StackFits(WithTop(stack[h], t), events', runs') /\ WithTop(stack[h], t) # <<>> /\ Last(WithTop(stack[h], t)) = t
        /\ \A k \in DOMAIN WithTop(stack[h], t) : WithTop(stack[h], t)[k].pc = "append" => WithTop(stack[h], t)[k] = t
        /\ \A e, r : PendingIn(stack[h], e, r) =>
              PendingIn(WithTop(stack[h], t), e, r) \/ (e = t.event /\ r \in Last(stack[h]).todo /\ r \notin t.todo)
    BY <1>2, <1>3, <1>4, <1>8, <2>1, TopReplaced
  <2>3. /\ StackFits(q, events', runs')
        /\ \A k \in DOMAIN q : q[k].pc = "append" => q[k] = t
        /\ \A e, r : PendingIn(stack[h], e, r) => PendingIn(q, e, r)
    BY <1>1, <1>8, <2>1, <2>2
  <2>4. QED
    BY <1>8, <2>3 DEF Announcing
<1>10. q \in Seq(Frames) /\ Advances(h, q) /\ Tidy(h, q)
  <2>1. \A e \in DOMAIN events, r \in Rules : Stored(e) /\ PendingIn(stack[h], e, r) => PendingIn(q, e, r) \/ Settled(r, e)'
    BY <1>9
  <2>2. \A j \in DOMAIN runs : runs[j].status \notin {"gone", "running"} => runs'[j].status \notin {"gone", "running"}
    BY <1>2
  <2>3. \A e \in DOMAIN events : events'[e].row = events[e].row
    BY <1>2
  <2>4. \A e \in DOMAIN events' : e \in DOMAIN events
    BY <1>2
  <2>5. skipped \subseteq skipped' /\ loop[home[h]] \in {h, NoOne} /\ home' = home /\ \A e \in Nat : ~ Announcing(q, e)
    BY <1>2, <1>9
  <2>6. QED
    BY <1>2, <1>4, <1>9, <2>1, <2>2, <2>3, <2>4, <2>5, Goes
<1>11. QED
  BY <1>7, <1>10 DEF KeepsRows

-----------------------------------------------------------------------------
(* Failures, the clock and maintenance *)

LEMMA TroubleCounts ==
  ASSUME EngineInv, NEW what \in {"cleanups", "faults", "crashes"}, Trouble(what)
  PROVE  /\ count' \in CountSet /\ Troubles' <= MaxTroubles
         /\ count'.crashes = IF what = "crashes" THEN count.crashes + 1 ELSE count.crashes
         /\ what # "cleanups" => count'.faults + count'.crashes # 0
         /\ what = "cleanups" => count'.faults = count.faults
<1>1. /\ count \in CountSet /\ Troubles < MaxTroubles /\ count' = [count EXCEPT ![what] = count[what] + 1]
      /\ MaxTroubles \in Nat
  BY EngineAssumption DEF EngineInv, Records, Trouble
<1>2. PICK c : c = count'
  OBVIOUS
<1>3. CASE what = "cleanups"
  BY <1>1, <1>2, <1>3 DEF CountSet, Troubles
<1>4. CASE what = "faults"
  BY <1>1, <1>2, <1>4 DEF CountSet, Troubles
<1>5. CASE what = "crashes"
  BY <1>1, <1>2, <1>5 DEF CountSet, Troubles
<1>6. QED
  BY <1>3, <1>4, <1>5

LEMMA FaultStep ==
  ASSUME EngineInv, NEW h \in Handlers, Fault(h)
  PROVE  KeepsRows /\ Advances(h, <<>>) /\ count'.crashes = count.crashes /\ count'.faults + count'.crashes # 0
<1>1. /\ loop[home[h]] \in {h, NoOne} /\ Trouble("faults") /\ Continue(h, <<>>)
      /\ UNCHANGED <<home, events, runs, skipped, approvals, budget, now>>
  BY DEF Fault
<1>2. /\ count' \in CountSet /\ Troubles' <= MaxTroubles /\ count'.crashes = count.crashes
      /\ count'.faults + count'.crashes # 0
  BY <1>1, TroubleCounts
<1>3. AllSubjects' = AllSubjects /\ SameEvents(events, events') /\ SameRuns(runs, runs')
  BY <1>1, SameStays DEF AllSubjects
<1>4. Records'
  BY <1>1, <1>2, <1>3 DEF EngineInv, Records
<1>5. RowsFit'
  BY <1>1, <1>3, RowsFitStay DEF EngineInv
<1>6. Advances(h, <<>>)
  BY <1>1, <1>3, NoFrame DEF Advances
<1>7. QED
  BY <1>2, <1>4, <1>5, <1>6 DEF KeepsRows

LEMMA CrashStep ==
  ASSUME EngineInv, NEW x \in Engines, Crash(x)
  PROVE  EngineInv' /\ count'.crashes = count.crashes + 1 /\ count'.faults + count'.crashes # 0
<1>1. /\ Trouble("crashes") /\ stack' = [h \in Handlers |-> IF home[h] = x THEN <<>> ELSE stack[h]]
      /\ loop' = [loop EXCEPT ![x] = NoOne] /\ budget' = [budget EXCEPT ![x] = {}]
      /\ UNCHANGED <<home, events, runs, skipped, approvals, now>>
  BY DEF Crash
<1>2. /\ count' \in CountSet /\ Troubles' <= MaxTroubles /\ count'.crashes = count.crashes + 1
      /\ count'.faults + count'.crashes # 0
  BY <1>1, TroubleCounts
<1>3. AllSubjects' = AllSubjects
  BY <1>1 DEF AllSubjects
<1>4. Records'
  BY <1>1, <1>2, <1>3 DEF EngineInv, Records
<1>5. RowsFit'
  BY <1>1 DEF EngineInv, RowsFit
<1>6. /\ home \in [Handlers -> Engines] /\ stack \in [Handlers -> Seq(Frames)]
      /\ loop \in [Engines -> Handlers \cup {NoOne}] /\ Stacks /\ LoopFits /\ Owned
      /\ NoOne \notin Handlers
  BY EngineAssumption DEF EngineInv, Turning
<1>7. /\ stack' \in [Handlers -> Seq(Frames)] /\ loop' \in [Engines -> Handlers \cup {NoOne}]
      /\ \A h \in Handlers : stack'[h] = (IF home[h] = x THEN <<>> ELSE stack[h])
      /\ loop'[x] = NoOne /\ \A y \in Engines : y # x => loop'[y] = loop[y]
  BY <1>1, <1>6, NoFrame
<1>8. Stacks'
  BY <1>1, <1>6, <1>7, NoFrame DEF Stacks
<1>9. LoopFits'
  BY <1>1, <1>6, <1>7 DEF LoopFits, Holding
<1>10. Owned'
  BY <1>6, <1>7, NoFrame DEF Owned
<1>11. Turning'
  BY <1>1, <1>6, <1>7, <1>8, <1>9, <1>10 DEF Turning
<1>12. QED
  BY <1>2, <1>4, <1>5, <1>11 DEF EngineInv

LEMMA TickStep ==
  ASSUME EngineInv, Tick
  PROVE  EngineInv'
<1>1. now < MaxTime /\ now' = now + 1 /\ UNCHANGED <<home, events, runs, skipped, approvals, stack, loop, budget, count>>
  BY DEF Tick
<1>2. Records'
  <2>1. now' \in 0..MaxTime
    BY <1>1, EngineAssumption DEF EngineInv, Records
  <2>2. AllSubjects' = AllSubjects /\ Troubles' = Troubles
    BY <1>1 DEF AllSubjects, Troubles
  <2>3. QED
    BY <1>1, <2>1, <2>2 DEF EngineInv, Records
<1>3. RowsFit'
  <2>1. ASSUME NEW i \in DOMAIN runs PROVE runs[i].at \in Nat /\ now \in Nat
    <3>1. runs \in Seq(RunSet) /\ now \in Nat
      BY DEF EngineInv, Records
    <3>2. runs[i] \in RunSet
      BY <3>1, ElementOfSeq, LenProperties
    <3>3. QED
      BY <3>1, <3>2 DEF RunSet
  <2>2. \A i \in DOMAIN runs : runs[i].at <= now'
    BY <1>1, <2>1 DEF EngineInv, RowsFit
  <2>3. QED
    BY <1>1, <2>2 DEF EngineInv, RowsFit
<1>4. Turning'
  BY <1>1 DEF EngineInv, Turning, Stacks, LoopFits, Owned
<1>5. QED
  BY <1>2, <1>3, <1>4 DEF EngineInv

\* What a clean-up leaves of the rows.
Cleaned(cutoff) ==
  /\ DOMAIN events' = DOMAIN events /\ DOMAIN runs' = DOMAIN runs /\ SameEvents(events, events') /\ SameRuns(runs, runs')
  /\ \A e \in DOMAIN events : events'[e].row = IF e \in Old(cutoff) THEN "gone" ELSE events[e].row
  /\ \A i \in DOMAIN runs : runs'[i].status = IF runs[i].event \in Old(cutoff) THEN "gone" ELSE runs[i].status

LEMMA CleanupRows ==
  ASSUME EngineInv, NEW cutoff, Cleanup(cutoff)
  PROVE  /\ Cleaned(cutoff) /\ AllSubjects' = AllSubjects
         /\ events' \in Seq(EventSet(AllSubjects)) /\ runs' \in Seq(RunSet) /\ approvals' \in Seq(ApprovalSet)
         /\ skipped' = {s \in skipped : s[2] \notin Old(cutoff)}
<1>1. PICK old : old = Old(cutoff)
  OBVIOUS
<1>2. /\ events' = [e \in DOMAIN events |-> IF e \in old THEN [events[e] EXCEPT !.row = "gone"] ELSE events[e]]
      /\ runs' = [i \in DOMAIN runs |-> IF runs[i].event \in old THEN [runs[i] EXCEPT !.status = "gone"] ELSE runs[i]]
      /\ approvals' = [a \in DOMAIN approvals |->
                         IF approvals[a].event \in old THEN [approvals[a] EXCEPT !.status = "gone"] ELSE approvals[a]]
      /\ skipped' = {s \in skipped : s[2] \notin Old(cutoff)}
  BY <1>1 DEF Cleanup
<1>3. PICK S : S = EventSet(AllSubjects)
  OBVIOUS
<1>4. events \in Seq(S) /\ runs \in Seq(RunSet) /\ approvals \in Seq(ApprovalSet)
  BY <1>3 DEF EngineInv, Records
<1>5. ASSUME NEW e \in DOMAIN events
      PROVE  /\ events'[e] \in S /\ events'[e].type = events[e].type /\ events'[e].subject = events[e].subject
             /\ events'[e].row = IF e \in old THEN "gone" ELSE events[e].row
  <2>1. events[e] \in S
    BY <1>4, ElementOfSeq, LenProperties
  <2>2. PICK w : w = [events[e] EXCEPT !.row = "gone"]
    OBVIOUS
  <2>3. w \in S /\ w.type = events[e].type /\ w.subject = events[e].subject /\ w.row = "gone"
    BY <1>3, <2>1, <2>2 DEF EventSet
  <2>4. events'[e] = IF e \in old THEN w ELSE events[e]
    BY <1>2, <2>2
  <2>5. QED
    BY <2>1, <2>3, <2>4
<1>6. ASSUME NEW i \in DOMAIN runs
      PROVE  /\ runs'[i] \in RunSet /\ runs'[i].rule = runs[i].rule /\ runs'[i].event = runs[i].event
             /\ runs'[i].engine = runs[i].engine /\ runs'[i].at = runs[i].at
             /\ runs'[i].status = IF runs[i].event \in old THEN "gone" ELSE runs[i].status
  <2>1. runs[i] \in RunSet
    BY <1>4, ElementOfSeq, LenProperties
  <2>2. PICK w : w = [runs[i] EXCEPT !.status = "gone"]
    OBVIOUS
  <2>3. /\ w \in RunSet /\ w.rule = runs[i].rule /\ w.event = runs[i].event /\ w.engine = runs[i].engine
        /\ w.at = runs[i].at /\ w.status = "gone"
    BY <2>1, <2>2 DEF RunSet, Statuses
  <2>4. runs'[i] = IF runs[i].event \in old THEN w ELSE runs[i]
    BY <1>2, <2>2
  <2>5. QED
    BY <2>1, <2>3, <2>4
<1>7. ASSUME NEW a \in DOMAIN approvals PROVE approvals'[a] \in ApprovalSet
  <2>1. approvals[a] \in ApprovalSet
    BY <1>4, ElementOfSeq, LenProperties
  <2>2. [approvals[a] EXCEPT !.status = "gone"] \in ApprovalSet
    BY <2>1 DEF ApprovalSet
  <2>3. QED
    BY <1>2, <2>1, <2>2
<1>8. events' \in Seq(S) /\ DOMAIN events' = DOMAIN events
  <2>1. PICK f : f = events'
    OBVIOUS
  <2>2. f = [e \in DOMAIN events |-> f[e]] /\ \A e \in DOMAIN events : f[e] \in S
    BY <1>2, <1>5, <2>1
  <2>3. PICK list : list = events
    OBVIOUS
  <2>4. list \in Seq(S) /\ f = [e \in DOMAIN list |-> f[e]] /\ \A e \in DOMAIN list : f[e] \in S
    BY <1>4, <2>2, <2>3
  <2>5. f \in Seq(S) /\ DOMAIN f = DOMAIN list
    BY <2>4, Rewritten
  <2>6. QED
    BY <2>1, <2>3, <2>5
<1>9. runs' \in Seq(RunSet) /\ DOMAIN runs' = DOMAIN runs
  <2>1. PICK f, R : f = runs' /\ R = RunSet
    OBVIOUS
  <2>2. f = [e \in DOMAIN runs |-> f[e]] /\ runs \in Seq(R) /\ \A e \in DOMAIN runs : f[e] \in R
    BY <1>2, <1>4, <1>6, <2>1
  <2>3. QED
    BY <2>1, <2>2, Rewritten
<1>10. approvals' \in Seq(ApprovalSet) /\ DOMAIN approvals' = DOMAIN approvals
  <2>1. PICK f, R : f = approvals' /\ R = ApprovalSet
    OBVIOUS
  <2>2. f = [e \in DOMAIN approvals |-> f[e]] /\ approvals \in Seq(R) /\ \A e \in DOMAIN approvals : f[e] \in R
    BY <1>2, <1>4, <1>7, <2>1
  <2>3. QED
    BY <2>1, <2>2, Rewritten
<1>11. SameEvents(events, events')
  <2>1. \A e \in old : events[e].row = "stored"
    BY <1>1 DEF Old, Stored
  <2>2. QED
    BY <1>5, <1>8, <2>1 DEF SameEvents
<1>12. SameRuns(runs, runs')
  BY <1>6, <1>9 DEF SameRuns
<1>13. Cleaned(cutoff)
  BY <1>1, <1>5, <1>6, <1>8, <1>9, <1>11, <1>12 DEF Cleaned
<1>14. QED
  BY <1>2, <1>3, <1>8, <1>9, <1>10, <1>13 DEF AllSubjects

LEMMA CleanupStep ==
  ASSUME EngineInv, NEW cutoff, Cleanup(cutoff)
  PROVE  EngineInv' /\ count'.crashes = count.crashes /\ count'.faults = count.faults
<1>1. PICK old : old = Old(cutoff)
  OBVIOUS
<1>2. /\ Trouble("cleanups") /\ UNCHANGED <<home, stack, loop, budget, now>>
      /\ Cleaned(cutoff) /\ AllSubjects' = AllSubjects
      /\ events' \in Seq(EventSet(AllSubjects)) /\ runs' \in Seq(RunSet) /\ approvals' \in Seq(ApprovalSet)
      /\ skipped' = {s \in skipped : s[2] \notin old}
  BY <1>1, CleanupRows DEF Cleanup
<1>3. /\ count' \in CountSet /\ Troubles' <= MaxTroubles /\ count'.crashes = count.crashes /\ count'.faults = count.faults
  BY <1>2, TroubleCounts
<1>4. Records'
  <2>1. skipped' \subseteq Rules \X (DOMAIN events')
    BY <1>2 DEF EngineInv, Records, Cleaned
  <2>2. QED
    BY <1>2, <1>3, <2>1 DEF EngineInv, Records
<1>5. RowsFit'
  <2>1. ASSUME NEW i \in DOMAIN runs
        PROVE  /\ runs'[i].event \in DOMAIN events' /\ events'[runs'[i].event].row # "new" /\ runs'[i].at <= now'
               /\ runs'[i].status = "gone" => events'[runs'[i].event].row = "gone"
    <3>1. PICK e : e = runs[i].event
      OBVIOUS
    <3>2. /\ e \in DOMAIN events /\ events[e].row # "new" /\ runs[i].at <= now
          /\ runs[i].status = "gone" => events[e].row = "gone"
      BY <3>1 DEF EngineInv, RowsFit
    <3>3. /\ runs'[i].event = e /\ runs'[i].at = runs[i].at
          /\ runs'[i].status = IF e \in old THEN "gone" ELSE runs[i].status
      BY <1>1, <1>2, <3>1 DEF Cleaned, SameRuns
    <3>4. e \in DOMAIN events' /\ events'[e].row = IF e \in old THEN "gone" ELSE events[e].row
      BY <1>1, <1>2, <3>2 DEF Cleaned
    <3>5. QED
      BY <1>2, <3>2, <3>3, <3>4
  <2>2. QED
    BY <1>2, <2>1 DEF RowsFit, Cleaned
<1>6. /\ home \in [Handlers -> Engines] /\ stack \in [Handlers -> Seq(Frames)]
      /\ loop \in [Engines -> Handlers \cup {NoOne}] /\ Stacks /\ LoopFits /\ Owned
  BY DEF EngineInv, Turning
<1>7. Stacks'
  <2>1. ASSUME NEW h \in Handlers PROVE StackFits(stack[h], events', runs')
    <3>1. StackFits(stack[h], events, runs)
      BY <1>6 DEF Stacks
    <3>2. ASSUME NEW e \in DOMAIN events, Announcing(stack[h], e) PROVE events'[e].row = "new"
      <4>1. events[e].row = "new"
        BY <3>1, <3>2, Announced
      <4>2. e \notin Old(cutoff)
        BY <4>1 DEF Old, Stored
      <4>3. QED
        BY <1>2, <4>1, <4>2 DEF Cleaned
    <3>3. SameEvents(events, events') /\ SameRuns(runs, runs')
      BY <1>2 DEF Cleaned
    <3>4. QED
      BY <3>1, <3>2, <3>3, StackStays
  <2>2. QED
    BY <1>2, <2>1 DEF Stacks
<1>8. Turning'
  BY <1>2, <1>6, <1>7 DEF Turning, LoopFits, Owned
<1>9. QED
  BY <1>3, <1>4, <1>5, <1>8 DEF EngineInv

-----------------------------------------------------------------------------
(* The invariant *)

LEMMA HandlerStep ==
  ASSUME EngineInv, NEW h \in Handlers, Starts(h) \/ Step(h)
  PROVE  /\ KeepsRows /\ \E q \in Seq(Frames) : Advances(h, q) /\ Tidy(h, q)
         /\ count'.faults = count.faults /\ count'.crashes = count.crashes
<1>1. KeepsRows /\ \E q \in Seq(Frames) : Advances(h, q) /\ Tidy(h, q)
  <2>1. CASE Starts(h)
    <3>1. Proceeds(h)
      BY <2>1, EmitStep, ReplayStep, ResolveStep DEF Starts
    <3>2. QED
      BY <3>1 DEF Proceeds
  <2>2. CASE Decide(h)
    BY <2>2, DecideStep
  <2>3. CASE AppendEvent(h) \/ InsertSkipped(h) \/ InsertRun(h) \/ Ask(h) \/ Routed(h)
    <3>1. Proceeds(h)
      BY <2>3, AppendEventStep, InsertSkippedStep, InsertRunStep, AskStep, RoutedStep
    <3>2. QED
      BY <3>1 DEF Proceeds
  <2>4. QED
    BY <2>1, <2>2, <2>3 DEF Step
<1>2. count'.faults = count.faults /\ count'.crashes = count.crashes
  <2>1. CASE Starts(h)
    <3>1. Starting
      BY <2>1 DEF Starts, Emit, Replay, Resolve
    <3>2. count \in CountSet
      BY DEF EngineInv, Records
    <3>3. QED
      BY <3>1, <3>2 DEF Starting, CountSet
  <2>2. CASE Step(h)
    BY <2>2 DEF Step, AppendEvent, Decide, InsertSkipped, InsertRun, Ask, Routed
  <2>3. QED
    BY <2>1, <2>2
<1>3. QED
  BY <1>1, <1>2

LEMMA EngineInit == Init => EngineInv
<1>1. SUFFICES ASSUME Init PROVE EngineInv
  OBVIOUS
<1>2. /\ home \in Homes /\ home \in [Handlers -> Engines] /\ NoOne \notin Handlers
      /\ MaxStarts \in Nat /\ MaxTroubles \in Nat /\ MaxTime \in Nat
      /\ events = <<>> /\ runs = <<>> /\ skipped = {} /\ approvals = <<>> /\ now = 0
      /\ stack = [h \in Handlers |-> <<>>] /\ loop = [x \in Engines |-> NoOne] /\ budget = [x \in Engines |-> {}]
      /\ count = [starts |-> 0, cleanups |-> 0, faults |-> 0, crashes |-> 0]
  BY <1>1, EngineAssumption DEF Init
<1>3. Records
  <2>1. count \in CountSet /\ Troubles <= MaxTroubles
    BY <1>2 DEF CountSet, Troubles
  <2>2. QED
    BY <1>2, <2>1 DEF Records
<1>4. Turning
  BY <1>2, NoFrame DEF Turning, Stacks, LoopFits, Owned, Holding
<1>5. RowsFit
  BY <1>2 DEF RowsFit
<1>6. QED
  BY <1>3, <1>4, <1>5 DEF EngineInv

LEMMA EngineStep ==
  ASSUME EngineInv, [Next]_vars
  PROVE  EngineInv'
<1>1. CASE UNCHANGED vars
  BY <1>1 DEF vars, EngineInv, Records, Turning, RowsFit, Stacks, LoopFits, Owned, AllSubjects, Troubles
<1>2. ASSUME NEW h \in Handlers, Starts(h) \/ Step(h) PROVE EngineInv'
  BY <1>2, HandlerStep, TurningStep DEF EngineInv, KeepsRows
<1>3. ASSUME NEW h \in Handlers, Fault(h) PROVE EngineInv'
  BY <1>3, FaultStep, TurningStep, NoFrame DEF EngineInv, KeepsRows
<1>4. QED
  BY <1>1, <1>2, <1>3, CrashStep, TickStep, CleanupStep DEF Next

LEMMA EngineHolds == Spec => []EngineInv
<1>1. EngineInv /\ [Next]_vars => EngineInv'
  BY EngineStep
<1>2. QED
  BY <1>1, EngineInit, PTL DEF Spec

\* Every variable stays in its set, and no handler nests deeper than two frames: the event
\* that announces an approval never asks for another.
THEOREM TypeCorrect == Spec => []TypeOK
<1>1. EngineInv => TypeOK
  <2>1. SUFFICES ASSUME EngineInv PROVE TypeOK
    OBVIOUS
  <2>2. ASSUME NEW h \in Handlers PROVE Len(stack[h]) <= 2
    <3>1. StackFits(stack[h], events, runs)
      BY <2>1 DEF EngineInv, Turning, Stacks
    <3>2. CASE stack[h] = <<>>
      BY <3>2
    <3>3. CASE stack[h] # <<>>
      <4>1. ASSUME NEW f, Single(stack[h], f, events, runs) PROVE Len(stack[h]) <= 2
        BY <4>1, OneFrame DEF Single
      <4>2. ASSUME NEW f, NEW g, Double(stack[h], f, g, events, runs) PROVE Len(stack[h]) <= 2
        <5>1. Pair(stack[h], f, g)
          BY <4>2, TwoFrames DEF Double
        <5>2. QED
          BY <5>1 DEF Pair
      <4>3. QED
        BY <3>1, <3>3, <4>1, <4>2, StackForms
    <3>4. QED
      BY <3>2, <3>3
  <2>3. QED
    BY <2>1, <2>2 DEF EngineInv, Records, Turning, TypeOK, EventSet, RunSet, ApprovalSet, BudgetSet, CountSet
<1>2. QED
  BY <1>1, EngineHolds, PTL

-----------------------------------------------------------------------------
(* No rule is left out *)

LEMMA NothingSkipped ==
  ASSUME EngineInv, NEW h \in Handlers, NEW q \in Seq(Frames), Advances(h, q), Tidy(h, q),
         \A e \in DOMAIN events, r \in Rules :
           Stored(e) /\ events[e].type \in Rule[r].types => Settled(r, e) \/ Pending(r, e),
         NEW e \in DOMAIN events', NEW r \in Rules, Stored(e)', events'[e].type \in Rule[r].types
  PROVE  Settled(r, e)' \/ Pending(r, e)'
<1>1. /\ stack' = [stack EXCEPT ![h] = q] /\ stack \in [Handlers -> Seq(Frames)] /\ SameEvents(events, events')
  BY DEF Advances, Continue, EngineInv, Turning
<1>2. stack'[h] = q /\ \A g \in Handlers : g # h => stack'[g] = stack[g]
  BY <1>1
<1>3. PendingIn(q, e, r) => Pending(r, e)'
  BY <1>2 DEF PendingIn, Pending
<1>4. CASE ~ (e \in DOMAIN events /\ Stored(e))
  BY <1>3, <1>4 DEF Tidy
<1>5. CASE e \in DOMAIN events /\ Stored(e) /\ Settled(r, e)
  BY <1>5 DEF Tidy
<1>6. CASE e \in DOMAIN events /\ Stored(e) /\ Pending(r, e)
  <2>1. PICK g \in Handlers : PendingIn(stack[g], e, r)
    BY <1>6 DEF Pending, PendingIn
  <2>2. CASE g = h
    BY <1>3, <1>6, <2>1, <2>2 DEF Tidy
  <2>3. CASE g # h
    BY <1>2, <2>1, <2>3 DEF Pending, PendingIn
  <2>4. QED
    BY <2>2, <2>3
<1>7. QED
  <2>1. e \in DOMAIN events => events[e].type = events'[e].type
    BY <1>1 DEF SameEvents
  <2>2. QED
    BY <1>4, <1>5, <1>6, <2>1

LEMMA NoneLeftOutStep ==
  ASSUME EngineInv, NoneLeftOut, [Next]_vars
  PROVE  NoneLeftOut'
<1>1. CASE UNCHANGED vars
  BY <1>1 DEF vars, NoneLeftOut, Settled, Pending, Stored, Acted
<1>2. ASSUME NEW h \in Handlers, Starts(h) \/ Step(h) PROVE NoneLeftOut'
  <2>1. PICK q \in Seq(Frames) : Advances(h, q) /\ Tidy(h, q)
    BY <1>2, HandlerStep
  <2>2. count'.faults = count.faults /\ count'.crashes = count.crashes
    BY <1>2, HandlerStep
  <2>3. SUFFICES ASSUME count.faults + count.crashes = 0,
                        NEW e \in DOMAIN events', NEW r \in Rules, Stored(e)', events'[e].type \in Rule[r].types
                 PROVE  Settled(r, e)' \/ Pending(r, e)'
    BY <2>2 DEF NoneLeftOut
  <2>4. \A x \in DOMAIN events, y \in Rules :
           Stored(x) /\ events[x].type \in Rule[y].types => Settled(y, x) \/ Pending(y, x)
    BY <2>3 DEF NoneLeftOut
  <2>5. QED
    BY <2>1, <2>3, <2>4, NothingSkipped
<1>3. ASSUME NEW h \in Handlers, Fault(h) PROVE NoneLeftOut'
  BY <1>3, FaultStep DEF NoneLeftOut
<1>4. ASSUME NEW x \in Engines, Crash(x) PROVE NoneLeftOut'
  BY <1>4, CrashStep DEF NoneLeftOut
<1>5. CASE Tick
  BY <1>5 DEF Tick, NoneLeftOut, Settled, Pending, Stored, Acted
<1>6. ASSUME NEW cutoff, Cleanup(cutoff) PROVE NoneLeftOut'
  <2>1. PICK old : old = Old(cutoff)
    OBVIOUS
  <2>2. /\ stack' = stack /\ count'.faults = count.faults /\ count'.crashes = count.crashes
        /\ skipped' = {s \in skipped : s[2] \notin old} /\ Cleaned(cutoff)
    BY <1>6, <2>1, CleanupStep, CleanupRows DEF Cleanup
  <2>3. SUFFICES ASSUME count.faults + count.crashes = 0,
                        NEW e \in DOMAIN events', NEW r \in Rules, Stored(e)', events'[e].type \in Rule[r].types
                 PROVE  Settled(r, e)' \/ Pending(r, e)'
    BY <2>2 DEF NoneLeftOut
  <2>4. e \in DOMAIN events /\ e \notin old /\ Stored(e) /\ events[e].type = events'[e].type
    BY <2>1, <2>2, <2>3 DEF Cleaned, SameEvents, Stored
  <2>5. Settled(r, e) \/ Pending(r, e)
    BY <2>3, <2>4 DEF NoneLeftOut
  <2>6. CASE Pending(r, e)
    BY <2>2, <2>6 DEF Pending
  <2>7. CASE <<r, e>> \in skipped
    <3>1. PICK p : p = <<r, e>>
      OBVIOUS
    <3>2. p \in skipped'
      BY <2>2, <2>4, <2>7, <3>1
    <3>3. QED
      BY <3>1, <3>2 DEF Settled
  <2>8. CASE \E i \in Acted(r) : runs[i].event = e /\ runs[i].status # "running"
    <3>1. PICK i \in DOMAIN runs : runs[i].rule = r /\ runs[i].event = e /\ runs[i].status \notin {"gone", "running"}
      BY <2>8 DEF Acted
    <3>2. i \in DOMAIN runs' /\ runs'[i].rule = r /\ runs'[i].event = e /\ runs'[i].status = runs[i].status
      BY <2>1, <2>2, <2>4, <3>1 DEF Cleaned, SameRuns
    <3>3. QED
      BY <3>1, <3>2 DEF Settled, Acted
  <2>9. QED
    BY <2>5, <2>6, <2>7, <2>8 DEF Settled
<1>7. QED
  BY <1>1, <1>2, <1>3, <1>4, <1>5, <1>6 DEF Next

\* A stored event has been ruled on by each of its rules, or some handler is still to do
\* it, as long as nothing crashed and nothing raised.
THEOREM EveryRuleTold == Spec => []NoneLeftOut
<1>1. EngineInv /\ NoneLeftOut /\ [Next]_vars => NoneLeftOut'
  BY NoneLeftOutStep
<1>2. Init => NoneLeftOut
  BY DEF Init, NoneLeftOut
<1>3. QED
  BY <1>1, <1>2, EngineHolds, PTL DEF Spec

-----------------------------------------------------------------------------
(* A process acts once on an event, and within its windows *)

\* What every step but the insertion of a run leaves of the runs.
Steady ==
  /\ home' = home /\ now \in Nat /\ now' \in Nat /\ now <= now'
  /\ SameEvents(events, events') /\ SameRuns(runs, runs') /\ DOMAIN runs' = DOMAIN runs
  /\ \A i \in DOMAIN runs : Present(i)' => Present(i)

\* The row that inserting a run adds.
Inserted(h, n) ==
  /\ DOMAIN runs' = DOMAIN runs \cup {n} /\ n \in Nat /\ \A i \in DOMAIN runs : i \in Nat /\ i < n /\ runs'[i] = runs[i]
  /\ runs'[n].rule = RuleOf(h) /\ runs'[n].event = Top(h).event /\ runs'[n].engine = home[h] /\ runs'[n].at = now
  /\ UNCHANGED <<home, events, budget, now, count>>

LEMMA InsertRunRow ==
  ASSUME EngineInv, NEW h \in Handlers, InsertRun(h)
  PROVE  \E n : Inserted(h, n)
<1>1. PICK n, w :
        /\ n = Len(runs) + 1
        /\ w = [rule |-> RuleOf(h), event |-> Top(h).event, engine |-> home[h], decision |-> Top(h).decision,
                status |-> "running", at |-> now]
  OBVIOUS
<1>2. runs' = Append(runs, w) /\ UNCHANGED <<home, events, budget, now, count>>
  BY <1>1 DEF InsertRun
<1>3. w.rule = RuleOf(h) /\ w.event = Top(h).event /\ w.engine = home[h] /\ w.at = now
  BY <1>1
<1>4. runs \in Seq(RunSet)
  BY DEF EngineInv, Records
<1>5. PICK T, s2 : T = RunSet \cup {w} /\ s2 = runs'
  OBVIOUS
<1>6. /\ DOMAIN s2 = DOMAIN runs \cup {Len(runs) + 1} /\ DOMAIN runs \subseteq Nat
      /\ Len(runs) + 1 \in Nat /\ s2[Len(runs) + 1] = w /\ \A i \in DOMAIN runs : s2[i] = runs[i]
  <2>1. RunSet \subseteq T /\ w \in T /\ s2 = Append(runs, w)
    BY <1>2, <1>5
  <2>2. QED
    BY <1>4, <2>1, Grown
<1>7. \A i \in DOMAIN runs : i < n
  <2>1. DOMAIN runs = 1..Len(runs) /\ Len(runs) \in Nat
    BY <1>4, LenProperties
  <2>2. QED
    BY <1>1, <2>1
<1>8. Inserted(h, n)
  BY <1>1, <1>2, <1>3, <1>5, <1>6, <1>7 DEF Inserted
<1>9. QED
  BY <1>8

LEMMA NowIsNatural == EngineInv => now \in Nat
BY DEF EngineInv, Records

LEMMA UnchangedIsSteady ==
  ASSUME EngineInv, UNCHANGED <<home, runs, now>>, SameEvents(events, events')
  PROVE  Steady
BY SameStays, NowIsNatural DEF Steady, Present

LEMMA SteadyStep ==
  ASSUME EngineInv, [Next]_vars
  PROVE  Steady \/ \E h \in Handlers : InsertRun(h)
<1>1. SameEvents(events, events)
  BY SameStays
<1>2. CASE UNCHANGED vars
  BY <1>1, <1>2, UnchangedIsSteady DEF vars
<1>3. ASSUME NEW h \in Handlers, Starts(h) PROVE Steady
  <2>1. SameEvents(events, events')
    BY <1>3, HandlerStep DEF Advances
  <2>2. QED
    BY <1>3, <2>1, UnchangedIsSteady DEF Starts, Emit, Replay, Resolve
<1>4. ASSUME NEW h \in Handlers, AppendEvent(h) \/ Decide(h) \/ InsertSkipped(h) \/ Ask(h) PROVE Steady
  <2>1. SameEvents(events, events')
    BY <1>4, HandlerStep DEF Advances, Step
  <2>2. QED
    BY <1>4, <2>1, UnchangedIsSteady DEF AppendEvent, Decide, InsertSkipped, Ask
<1>5. ASSUME NEW h \in Handlers, Routed(h) PROVE Steady
  <2>1. SameEvents(events, events') /\ SameRuns(runs, runs')
    BY <1>5, HandlerStep DEF Advances, Step
  <2>2. PICK i, status : /\ runs' = [runs EXCEPT ![i].status = status] /\ (runs[i].status = "gone" => status = "gone")
                         /\ UNCHANGED <<home, now>>
    BY <1>5 DEF Routed, RunUpdated
  <2>3. PICK w : w = [runs[i] EXCEPT !.status = status]
    OBVIOUS
  <2>4. runs' = [runs EXCEPT ![i] = w]
    BY <2>2, <2>3
  <2>5. DOMAIN runs' = DOMAIN runs
    BY <2>4
  <2>6. ASSUME NEW j \in DOMAIN runs, runs[j].status = "gone" PROVE runs'[j].status = "gone"
    <3>1. runs[j] \in RunSet
      <4>1. runs \in Seq(RunSet)
        BY DEF EngineInv, Records
      <4>2. QED
        BY <4>1, ElementOfSeq, LenProperties
    <3>2. CASE j = i
      <4>1. w.status = status
        BY <2>3, <3>1, <3>2 DEF RunSet
      <4>2. QED
        BY <2>2, <2>4, <2>6, <3>2, <4>1
    <3>3. CASE j # i
      BY <2>4, <2>6, <3>3
    <3>4. QED
      BY <3>2, <3>3
  <2>7. QED
    BY <2>1, <2>2, <2>5, <2>6, NowIsNatural DEF Steady, Present
<1>6. ASSUME NEW h \in Handlers, Fault(h) PROVE Steady
  BY <1>1, <1>6, UnchangedIsSteady DEF Fault
<1>7. ASSUME NEW x \in Engines, Crash(x) PROVE Steady
  BY <1>1, <1>7, UnchangedIsSteady DEF Crash
<1>8. CASE Tick
  <2>1. now' = now + 1 /\ runs' = runs /\ events' = events /\ home' = home /\ now \in Nat
    BY <1>8, NowIsNatural DEF Tick
  <2>2. QED
    BY <2>1, SameStays DEF Steady, Present
<1>9. ASSUME NEW cutoff, Cleanup(cutoff) PROVE Steady
  <2>1. Cleaned(cutoff) /\ home' = home /\ now' = now
    BY <1>9, CleanupRows DEF Cleanup
  <2>2. \A i \in DOMAIN runs : runs[i].status = "gone" => runs'[i].status = "gone"
    BY <2>1 DEF Cleaned
  <2>3. QED
    BY <2>1, <2>2, NowIsNatural DEF Steady, Present, Cleaned
<1>10. QED
  BY <1>2, <1>3, <1>4, <1>5, <1>6, <1>7, <1>8, <1>9 DEF Next, Step

\* Run i leaves room for another run of rule r at event e and time t.
Spaced(i, r, e, t) ==
  /\ runs[i].event # e
  /\ Rule[r].dedupe > 0 /\ Stored(runs[i].event) /\ Stored(e) /\ SubjectOf(i) = events[e].subject
       => t > runs[i].at + Rule[r].dedupe
  /\ t >= runs[i].at + Rule[r].cooldown

\* A handler that is about to insert a run still has the room it found.
Acting(h) == stack[h] # <<>> /\ Top(h).pc = "insert" /\ Top(h).decision # "skip"
Clear(h) ==
  Acting(h) => \A i \in DOMAIN runs :
    Present(i) /\ runs[i].rule = RuleOf(h) /\ runs[i].engine = home[h] => Spaced(i, RuleOf(h), Top(h).event, now)
SuppressionInv == (\A h \in Handlers : Clear(h)) /\ SuppressionHolds

LEMMA RuleNumbers ==
  ASSUME NEW r \in Rules
  PROVE  Rule[r].dedupe \in Nat /\ Rule[r].cooldown \in Nat /\ Rule[r].budget \in Nat
BY EngineAssumption

LEMMA RunRow ==
  ASSUME EngineInv, NEW i \in DOMAIN runs
  PROVE  /\ runs[i].rule \in Rules /\ runs[i].at \in Nat /\ runs[i].at <= now /\ runs[i].event \in DOMAIN events
         /\ events[runs[i].event].row # "new" /\ runs[i].engine \in Engines
<1>1. runs \in Seq(RunSet)
  BY DEF EngineInv, Records
<1>2. runs[i] \in RunSet
  BY <1>1, ElementOfSeq, LenProperties
<1>3. QED
  BY <1>2 DEF EngineInv, RowsFit, RunSet

LEMMA SuppressionAsSpace ==
  SuppressionHolds <=>
           \A i, j \in DOMAIN runs : SameRuleAndEngine(i, j) => Spaced(i, runs[j].rule, runs[j].event, runs[j].at)
BY DEF SuppressionHolds, OncePerEvent, WindowsKept, Spaced, SubjectOf, SameRuleAndEngine

\* Time, clean-ups and other rows leave the room there is.
LEMMA SpacedStays ==
  ASSUME EngineInv, SameEvents(events, events'), SameRuns(runs, runs'),
         NEW i \in DOMAIN runs, NEW r \in Rules, NEW e \in DOMAIN events, events[e].row # "new",
         NEW t \in Nat, NEW u \in Nat, t <= u, Spaced(i, r, e, t)
  PROVE  Spaced(i, r, e, u)'
<1>1. /\ runs[i].at \in Nat /\ runs[i].event \in DOMAIN events /\ events[runs[i].event].row # "new"
  BY RunRow
<1>2. /\ runs'[i].event = runs[i].event /\ runs'[i].at = runs[i].at
  BY DEF SameRuns
<1>3. /\ events'[runs[i].event].subject = events[runs[i].event].subject /\ events'[e].subject = events[e].subject
      /\ events'[runs[i].event].row = "stored" => events[runs[i].event].row = "stored"
      /\ events'[e].row = "stored" => events[e].row = "stored"
  BY <1>1 DEF SameEvents
<1>4. Rule[r].dedupe \in Nat /\ Rule[r].cooldown \in Nat
  BY RuleNumbers
<1>5. /\ t > runs[i].at + Rule[r].dedupe => u > runs[i].at + Rule[r].dedupe
      /\ t >= runs[i].at + Rule[r].cooldown => u >= runs[i].at + Rule[r].cooldown
  BY <1>1, <1>4
<1>6. QED
  BY <1>2, <1>3, <1>5 DEF Spaced, Stored, SubjectOf

\* A handler that stays where it is stays clear if the rows of its process do.
LEMMA ClearStays ==
  ASSUME EngineInv, NEW h \in Handlers, Clear(h), stack'[h] = stack[h], home' = home, now <= now', now' \in Nat,
         SameEvents(events, events'), SameRuns(runs, runs'),
         \A i \in DOMAIN runs' : (i \in DOMAIN runs /\ (Present(i)' => Present(i))) \/ runs'[i].engine # home[h]
  PROVE  Clear(h)'
<1>1. SUFFICES ASSUME Acting(h)', NEW i \in DOMAIN runs', Present(i)', runs'[i].rule = RuleOf(h), runs'[i].engine = home[h]
               PROVE  Spaced(i, RuleOf(h), Top(h).event, now)'
  BY DEF Clear, Top, RuleOf
<1>2. i \in DOMAIN runs /\ Present(i) /\ runs[i].rule = RuleOf(h) /\ runs[i].engine = home[h]
  BY <1>1 DEF SameRuns
<1>3. Acting(h)
  BY <1>1 DEF Acting, Top
<1>4. Spaced(i, RuleOf(h), Top(h).event, now)
  BY <1>2, <1>3 DEF Clear
<1>5. PICK r, e : r = RuleOf(h) /\ e = Top(h).event
  OBVIOUS
<1>6. r \in Rules /\ e \in DOMAIN events /\ events[e].row # "new"
  BY <1>3, <1>5, TopFrame DEF Acting, FrameFits
<1>7. now \in Nat
  BY NowIsNatural
<1>8. PICK u : u = now'
  OBVIOUS
<1>9. Spaced(i, r, e, u)'
  BY <1>2, <1>4, <1>5, <1>6, <1>7, <1>8, SpacedStays
<1>10. RuleOf(h)' = r /\ Top(h)'.event = e
  BY <1>5 DEF RuleOf, Top
<1>11. QED
  BY <1>8, <1>9, <1>10 DEF Spaced, Stored, SubjectOf

\* What decide read.
LEMMA EligibleIsClear ==
  ASSUME EngineInv, NEW h \in Handlers, stack[h] # <<>>, Top(h).pc # "append", Eligible(h),
         NEW i \in DOMAIN runs, Present(i), runs[i].rule = RuleOf(h)
  PROVE  Spaced(i, RuleOf(h), Top(h).event, now)
<1>1. PICK r, e : r = RuleOf(h) /\ e = Top(h).event
  OBVIOUS
<1>2. i \in Acted(r) /\ r \in Rules /\ EventOf(h) = events[e]
  BY <1>1, TopFrame DEF Acted, Present
<1>3. Rule[r].dedupe \in Nat /\ Rule[r].cooldown \in Nat /\ runs[i].at \in Nat /\ runs[i].at <= now /\ now \in Nat
  BY <1>2, RuleNumbers, RunRow, NowIsNatural
<1>4. runs[i].event # e
  BY <1>1, <1>2 DEF Eligible, HasRun
<1>5. Rule[r].dedupe > 0 /\ Stored(runs[i].event) /\ SubjectOf(i) = events[e].subject => now > runs[i].at + Rule[r].dedupe
  <2>1. SUFFICES ASSUME Rule[r].dedupe > 0, Stored(runs[i].event), SubjectOf(i) = events[e].subject
                 PROVE  ~ (runs[i].at + Rule[r].dedupe >= now)
    BY <1>3
  <2>2. ~ RecentSubject(r, events[e].subject)
    BY <1>1, <1>2, <2>1 DEF Eligible
  <2>3. QED
    BY <1>2, <2>1, <2>2 DEF RecentSubject, SubjectOf
<1>6. now >= runs[i].at + Rule[r].cooldown
  <2>1. CASE Rule[r].cooldown = 0
    BY <1>3, <2>1
  <2>2. CASE Rule[r].cooldown > 0
    <3>1. ~ CoolingDown(r)
      BY <1>1, <2>2 DEF Eligible
    <3>2. ~ (now < runs[i].at + Rule[r].cooldown)
      BY <1>2, <3>1 DEF CoolingDown
    <3>3. QED
      BY <1>3, <3>2
  <2>3. QED
    BY <1>3, <2>1, <2>2
<1>7. QED
  BY <1>1, <1>4, <1>5, <1>6 DEF Spaced

\* After every step of a handler but the decision no rule is about to be inserted by it.
LEMMA AfterStep ==
  ASSUME EngineInv, NEW h \in Handlers, Starts(h) \/ Fault(h) \/ (Step(h) /\ ~ Decide(h))
  PROVE  /\ ~ Acting(h)' /\ home' = home /\ \A g \in Handlers : g # h => stack'[g] = stack[g]
         /\ SameEvents(events, events') /\ SameRuns(runs, runs')
<1>1. \E q \in Seq(Frames) : Advances(h, q) /\ NotInserting(q)
  <2>1. CASE Fault(h)
    BY <2>1, FaultStep, NoFrame DEF NotInserting
  <2>2. CASE Starts(h) \/ (Step(h) /\ ~ Decide(h))
    <3>1. Proceeds(h)
      BY <2>2, EmitStep, ReplayStep, ResolveStep, AppendEventStep, InsertSkippedStep, InsertRunStep, AskStep, RoutedStep
        DEF Starts, Step
    <3>2. QED
      BY <3>1 DEF Proceeds
  <2>3. QED
    BY <2>1, <2>2
<1>2. PICK q \in Seq(Frames) : Advances(h, q) /\ NotInserting(q)
  BY <1>1
<1>3. stack \in [Handlers -> Seq(Frames)] /\ stack' = [stack EXCEPT ![h] = q]
  BY <1>2 DEF Advances, Continue, EngineInv, Turning
<1>4. stack'[h] = q /\ \A g \in Handlers : g # h => stack'[g] = stack[g]
  BY <1>3
<1>5. ~ Acting(h)'
  BY <1>2, <1>4 DEF Acting, NotInserting, Top
<1>6. QED
  BY <1>2, <1>4, <1>5 DEF Advances

\* What the decision leaves to insert.
LEMMA AfterDecide ==
  ASSUME EngineInv, NEW h \in Handlers, Decide(h)
  PROVE  /\ stack[h] # <<>> /\ Top(h).pc = "decide" /\ loop[home[h]] = h
         /\ RuleOf(h)' = RuleOf(h) /\ Top(h)'.event = Top(h).event /\ Top(h)'.pc = "insert"
         /\ Top(h)'.decision # "skip" => Eligible(h) /\ WithinBudget(h)
         /\ home' = home /\ events' = events /\ \A g \in Handlers : g # h => stack'[g] = stack[g]
<1>1. PICK o, yes, t, q :
        /\ o = Top(h) /\ yes \in BOOLEAN /\ (yes <=> Eligible(h) /\ WithinBudget(h))
        /\ t = [o EXCEPT !.pc = "insert", !.decision = IF yes THEN Mode(h) ELSE "skip"]
        /\ q = WithTop(stack[h], t)
  OBVIOUS
<1>2. /\ stack[h] # <<>> /\ loop[home[h]] = h /\ o.pc = "decide" /\ Continue(h, q)
      /\ UNCHANGED <<home, events, runs, skipped, approvals, now, count>>
  BY <1>1 DEF Decide, Runs, WithTop
<1>3. FrameFits(o, events, runs) /\ o \in Frames /\ StackFits(stack[h], events, runs) /\ o = Last(stack[h])
  <2>1. o = Last(stack[h])
    BY <1>1 DEF Top
  <2>2. QED
    BY <1>1, <1>2, <2>1, TopFrame
<1>4. t.event = o.event /\ t.todo = o.todo /\ t.pc = "insert" /\ (t.decision # "skip" => yes)
  BY <1>1, <1>3 DEF Frames
<1>5. stack[h] # <<>> /\ Last(q) = t
  <2>1. CASE \E f : Single(stack[h], f, events, runs)
    <3>1. PICK f : stack[h] = <<f>>
      BY <2>1 DEF Single
    <3>2. q = <<t>>
      BY <1>1, <3>1, OneFrame DEF WithTop
    <3>3. QED
      BY <1>2, <3>2, OneFrame
  <2>2. CASE \E f, g : Double(stack[h], f, g, events, runs)
    <3>1. PICK f, g : stack[h] = <<f, g>>
      BY <2>2 DEF Double
    <3>2. Pair(stack[h], f, g) /\ Pair(<<f, t>>, f, t)
      BY <3>1, TwoFrames
    <3>3. q = <<f, t>>
      BY <1>1, <3>2 DEF Pair, WithTop
    <3>4. QED
      BY <1>2, <3>2, <3>3 DEF Pair
  <2>3. QED
    BY <1>2, <1>3, <2>1, <2>2, StackForms
<1>6. stack'[h] = q /\ \A g \in Handlers : g # h => stack'[g] = stack[g]
  <2>1. stack \in [Handlers -> Seq(Frames)] /\ stack' = [stack EXCEPT ![h] = q]
    BY <1>2 DEF Continue, EngineInv, Turning
  <2>2. QED
    BY <2>1
<1>7. Top(h)' = t
  BY <1>5, <1>6 DEF Top
<1>8. RuleOf(h)' = RuleOf(h)
  BY <1>1, <1>4, <1>7 DEF RuleOf
<1>9. QED
  BY <1>1, <1>2, <1>4, <1>6, <1>7, <1>8

\* One handler of an engine acts at a time.
LEMMA OneActs ==
  ASSUME EngineInv, NEW h \in Handlers, NEW g \in Handlers, home[h] = home[g], loop[home[h]] = h, Acting(g)
  PROVE  g = h
BY DEF EngineInv, Turning, LoopFits, Holding, Acting, Top

LEMMA ClearStep ==
  ASSUME EngineInv, SuppressionInv, [Next]_vars, NEW h \in Handlers
  PROVE  Clear(h)'
<1>1. Clear(h)
  BY DEF SuppressionInv
<1>2. Steady /\ stack'[h] = stack[h] => Clear(h)'
  <2>1. SUFFICES ASSUME Steady, stack'[h] = stack[h] PROVE Clear(h)'
    OBVIOUS
  <2>2. \A i \in DOMAIN runs' : (i \in DOMAIN runs /\ (Present(i)' => Present(i))) \/ runs'[i].engine # home[h]
    BY <2>1 DEF Steady
  <2>3. /\ home' = home /\ now \in Nat /\ now' \in Nat /\ now <= now' /\ SameEvents(events, events') /\ SameRuns(runs, runs')
    BY <2>1 DEF Steady
  <2>4. QED
    BY <1>1, <2>1, <2>2, <2>3, ClearStays
<1>3. ~ Acting(h)' => Clear(h)'
  BY DEF Clear
<1>4. CASE UNCHANGED stack /\ Steady
  BY <1>2, <1>4
<1>5. CASE \E g \in Handlers : (Starts(g) \/ Fault(g) \/ (Step(g) /\ ~ Decide(g) /\ ~ InsertRun(g))) /\ Steady
  <2>1. PICK g \in Handlers : (Starts(g) \/ Fault(g) \/ (Step(g) /\ ~ Decide(g) /\ ~ InsertRun(g))) /\ Steady
    BY <1>5
  <2>2. ~ Acting(g)' /\ \A f \in Handlers : f # g => stack'[f] = stack[f]
    BY <2>1, AfterStep
  <2>3. QED
    BY <1>2, <1>3, <2>1, <2>2
<1>6. CASE \E g \in Handlers : InsertRun(g)
  <2>1. PICK g \in Handlers : InsertRun(g)
    BY <1>6
  <2>2. /\ ~ Acting(g)' /\ home' = home /\ \A f \in Handlers : f # g => stack'[f] = stack[f]
        /\ SameEvents(events, events') /\ SameRuns(runs, runs')
    <3>1. ~ Decide(g) /\ Step(g)
      BY <2>1 DEF InsertRun, Runs, Decide, Step
    <3>2. QED
      BY <3>1, AfterStep
  <2>3. SUFFICES ASSUME Acting(h)' PROVE Clear(h)'
    BY <1>3
  <2>4. h # g /\ stack'[h] = stack[h]
    BY <2>2, <2>3
  <2>5. Acting(h)
    BY <2>3, <2>4 DEF Acting, Top
  <2>6. home[g] # home[h]
    <3>1. loop[home[g]] = g
      BY <2>1 DEF InsertRun, Runs
    <3>2. QED
      BY <2>4, <2>5, <3>1, OneActs
  <2>7. PICK n : Inserted(g, n)
    BY <2>1, InsertRunRow
  <2>8. \A i \in DOMAIN runs' : (i \in DOMAIN runs /\ (Present(i)' => Present(i))) \/ runs'[i].engine # home[h]
    BY <2>6, <2>7 DEF Inserted, Present
  <2>9. now' \in Nat /\ now <= now'
    BY <2>7, NowIsNatural DEF Inserted
  <2>10. QED
    BY <1>1, <2>2, <2>4, <2>8, <2>9, ClearStays
<1>7. CASE \E g \in Handlers : Decide(g) /\ Steady
  <2>1. PICK g \in Handlers : Decide(g) /\ Steady
    BY <1>7
  <2>2. CASE h # g
    BY <1>2, <2>1, <2>2, AfterDecide
  <2>3. CASE h = g
    <3>1. /\ stack[h] # <<>> /\ Top(h).pc = "decide" /\ RuleOf(h)' = RuleOf(h) /\ Top(h)'.event = Top(h).event
          /\ Top(h)'.decision # "skip" => Eligible(h)
          /\ home' = home /\ events' = events /\ runs' = runs /\ now' = now
      BY <2>1, <2>3, AfterDecide DEF Decide
    <3>2. SUFFICES ASSUME Top(h)'.decision # "skip", NEW i \in DOMAIN runs, Present(i), runs[i].rule = RuleOf(h)
                   PROVE  Spaced(i, RuleOf(h), Top(h).event, now)'
      BY <3>1 DEF Clear, Acting, Present
    <3>3. Spaced(i, RuleOf(h), Top(h).event, now)
      BY <3>1, <3>2, EligibleIsClear
    <3>4. QED
      BY <3>1, <3>3 DEF Spaced, Stored, SubjectOf
  <2>4. QED
    BY <2>2, <2>3
<1>8. CASE \E x \in Engines : Crash(x) /\ Steady
  <2>1. PICK x \in Engines : Crash(x) /\ Steady
    BY <1>8
  <2>2. stack'[h] = (IF home[h] = x THEN <<>> ELSE stack[h])
    BY <2>1 DEF Crash
  <2>3. stack'[h] = <<>> \/ stack'[h] = stack[h]
    BY <2>2
  <2>4. stack'[h] = <<>> => ~ Acting(h)'
    BY DEF Acting
  <2>5. QED
    BY <1>2, <1>3, <2>1, <2>3, <2>4
<1>9. QED
  <2>1. Steady \/ \E g \in Handlers : InsertRun(g)
    BY SteadyStep
  <2>2. \/ UNCHANGED stack
        \/ \E g \in Handlers : Starts(g) \/ Fault(g) \/ Step(g)
        \/ \E x \in Engines : Crash(x)
    BY DEF Next, vars, Tick, Cleanup
  <2>3. QED
    BY <1>4, <1>5, <1>6, <1>7, <1>8, <2>1, <2>2

\* Two runs that were apart stay apart.
LEMMA ApartStays ==
  ASSUME EngineInv, SuppressionHolds, SameEvents(events, events'), SameRuns(runs, runs'),
         NEW i \in DOMAIN runs, NEW j \in DOMAIN runs, Present(i)' => Present(i), Present(j)' => Present(j),
         SameRuleAndEngine(i, j)'
  PROVE  Spaced(i, runs[j].rule, runs[j].event, runs[j].at)'
<1>1. PICK r, e, t : r = runs[j].rule /\ e = runs[j].event /\ t = runs[j].at
  OBVIOUS
<1>2. runs'[j].rule = r /\ runs'[j].event = e /\ runs'[j].at = t
  BY <1>1 DEF SameRuns
<1>3. SameRuleAndEngine(i, j)
  BY DEF SameRuleAndEngine, SameRuns
<1>4. Spaced(i, r, e, t)
  BY <1>1, <1>3, SuppressionAsSpace
<1>5. r \in Rules /\ e \in DOMAIN events /\ events[e].row # "new" /\ t \in Nat
  BY <1>1, RunRow
<1>6. t <= t
  BY <1>5
<1>7. Spaced(i, r, e, t)'
  BY <1>4, <1>5, <1>6, SpacedStays
<1>8. QED
  BY <1>2, <1>7 DEF Spaced, Stored, SubjectOf

LEMMA SuppressionStep ==
  ASSUME EngineInv, SuppressionInv, [Next]_vars
  PROVE  SuppressionInv'
<1>2. \A h \in Handlers : Clear(h)'
  BY ClearStep
<1>3. SuppressionHolds
  BY DEF SuppressionInv
<1>4. SUFFICES ASSUME NEW i \in DOMAIN runs', NEW j \in DOMAIN runs', SameRuleAndEngine(i, j)'
               PROVE  Spaced(i, runs[j].rule, runs[j].event, runs[j].at)'
  <2>1. \A k, l \in DOMAIN runs' : SameRuleAndEngine(k, l)' => Spaced(k, runs[l].rule, runs[l].event, runs[l].at)'
    BY <1>4
  <2>2. SuppressionHolds'
    BY <2>1 DEF SuppressionHolds, OncePerEvent, WindowsKept, Spaced, SubjectOf, SameRuleAndEngine
  <2>3. QED
    BY <1>2, <2>2 DEF SuppressionInv
<1>5. CASE Steady
  <2>1. i \in DOMAIN runs /\ j \in DOMAIN runs /\ (Present(i)' => Present(i)) /\ (Present(j)' => Present(j))
    BY <1>5 DEF Steady
  <2>2. SameEvents(events, events') /\ SameRuns(runs, runs')
    BY <1>5 DEF Steady
  <2>3. QED
    BY <1>3, <1>4, <2>1, <2>2, ApartStays
<1>6. CASE \E h \in Handlers : InsertRun(h)
  <2>1. PICK h \in Handlers : InsertRun(h)
    BY <1>6
  <2>2. PICK n : Inserted(h, n)
    BY <2>1, InsertRunRow
  <2>3. SameEvents(events, events') /\ SameRuns(runs, runs')
    <3>1. ~ Decide(h) /\ Step(h)
      BY <2>1 DEF InsertRun, Runs, Decide, Step
    <3>2. QED
      BY <3>1, AfterStep
  <2>4. i \in DOMAIN runs
    <3>1. i < j
      BY <1>4 DEF SameRuleAndEngine
    <3>2. \A k \in DOMAIN runs : k < n /\ k \in Nat /\ n \in Nat
      BY <2>2 DEF Inserted
    <3>3. i = n \/ i \in DOMAIN runs
      BY <2>2 DEF Inserted
    <3>4. j = n \/ j \in DOMAIN runs
      BY <2>2 DEF Inserted
    <3>5. n \in Nat
      BY <2>2 DEF Inserted
    <3>6. ASSUME i = n PROVE FALSE
      <4>1. j = n \/ (j < n /\ j \in Nat)
        BY <3>2, <3>4
      <4>2. QED
        BY <3>1, <3>5, <3>6, <4>1
    <3>7. QED
      BY <3>3, <3>6
  <2>5. runs'[i] = runs[i] /\ (Present(i)' => Present(i))
    BY <2>2, <2>4 DEF Inserted, Present
  <2>6. CASE j \in DOMAIN runs
    <3>1. Present(j)' => Present(j)
      BY <2>2, <2>6 DEF Inserted, Present
    <3>2. QED
      BY <1>3, <1>4, <2>3, <2>4, <2>5, <2>6, <3>1, ApartStays
  <2>7. CASE j = n
    <3>1. /\ runs'[j].rule = RuleOf(h) /\ runs'[j].event = Top(h).event /\ runs'[j].at = now
          /\ runs'[j].engine = home[h] /\ events' = events
      BY <2>2, <2>7 DEF Inserted
    <3>2. Present(i) /\ runs[i].rule = RuleOf(h) /\ runs[i].engine = home[h]
      BY <1>4, <2>5, <3>1 DEF SameRuleAndEngine
    <3>3. Acting(h) /\ Clear(h)
      BY <2>1 DEF InsertRun, Runs, Acting, SuppressionInv
    <3>4. Spaced(i, RuleOf(h), Top(h).event, now)
      BY <2>4, <3>2, <3>3 DEF Clear
    <3>5. QED
      BY <2>5, <3>1, <3>4 DEF Spaced, Stored, SubjectOf
  <2>8. QED
    BY <2>2, <2>6, <2>7 DEF Inserted
<1>7. QED
  BY <1>5, <1>6, SteadyStep

\* Inside one process a rule never acts where an earlier run of it forbids that: on an
\* event it has acted on, within its dedupe window for the subject, or in its cooldown.
THEOREM SuppressedRuns == Spec => []SuppressionHolds
<1>1. Init => SuppressionInv
  <2>1. SUFFICES ASSUME Init PROVE SuppressionInv
    OBVIOUS
  <2>2. runs = <<>> /\ \A h \in Handlers : stack[h] = <<>>
    BY <2>1 DEF Init
  <2>3. DOMAIN runs = {}
    BY <2>2
  <2>4. QED
    BY <2>3 DEF SuppressionInv, SuppressionHolds, OncePerEvent, WindowsKept, Clear
<1>2. EngineInv /\ SuppressionInv /\ [Next]_vars => SuppressionInv'
  BY SuppressionStep
<1>3. SuppressionInv => SuppressionHolds
  BY DEF SuppressionInv
<1>4. QED
  BY <1>1, <1>2, <1>3, EngineHolds, PTL DEF Spec

-----------------------------------------------------------------------------
(* The budget of attention *)

Extra(d) == IF d > 0 THEN 1 ELSE 0
DayOf(t) == t \div DayLength

\* The runs of a process for a rule and a subject on a day, and whether one is on its way.
RunsOf(x, r, s, d) ==
  {i \in DOMAIN runs : runs[i].engine = x /\ runs[i].rule = r /\ SubjectOf(i) = s /\ DayOf(runs[i].at) = d}
Inserting(x, r, s) == \E h \in Handlers : Acting(h) /\ home[h] = x /\ RuleOf(h) = r /\ EventOf(h).subject = s
Underway(x, r, s) == IF Inserting(x, r, s) THEN 1 ELSE 0

\* What the process has charged today.
Charged(x, r, s) == {b \in budget[x] : b.rule = r /\ b.subject = s /\ b.day = Today}
Spent(x, r, s, u) == (u = 0 /\ Charged(x, r, s) = {}) \/ \E b \in Charged(x, r, s) : b.used = u

\* A scope has one record, of no later day and within the budget of its rule.
Scopes ==
  \A x \in Engines : \A b \in budget[x] :
    /\ b.day <= Today /\ b.used <= Rule[b.rule].budget
    /\ \A c \in budget[x] : b.rule = c.rule /\ b.subject = c.subject => b = c

\* Every run of today was charged, but for one before a midnight and those a crash forgot.
Limit(r, d) == Rule[r].budget + Extra(d)
Paid(x, r, s) ==
  \E u \in Nat :
    /\ Spent(x, r, s, u) /\ u <= Rule[r].budget
    /\ Cardinality(RunsOf(x, r, s, Today)) + Underway(x, r, s) <= Limit(r, Today) * count.crashes + u + Extra(Today)
Bounded(x, r, s, d) == Cardinality(RunsOf(x, r, s, d)) <= Limit(r, d) * (1 + count.crashes)
BudgetFits ==
  \A x \in Engines, r \in Rules : Rule[r].budget > 0 => \A s : Paid(x, r, s) /\ \A d \in Nat \ {Today} : Bounded(x, r, s, d)
BudgetInv == Scopes /\ BudgetFits

LEMMA CountOfRuns ==
  ASSUME EngineInv, NEW x, NEW r, NEW s, NEW d
  PROVE  IsFiniteSet(RunsOf(x, r, s, d)) /\ Cardinality(RunsOf(x, r, s, d)) \in Nat /\ IsFiniteSet(DOMAIN runs)
<1>1. DOMAIN runs = 1..Len(runs) /\ Len(runs) \in Nat
  <2>1. runs \in Seq(RunSet)
    BY DEF EngineInv, Records
  <2>2. QED
    BY <2>1, LenProperties
<1>2. PICK D : D = DOMAIN runs
  OBVIOUS
<1>3. IsFiniteSet(D)
  <2>1. 1 \in Int /\ Len(runs) \in Int
    BY <1>1
  <2>2. IsFiniteSet(1..Len(runs))
    BY <2>1, FS_Interval
  <2>3. QED
    BY <1>1, <1>2, <2>2
<1>4. PICK R \in SUBSET D : R = RunsOf(x, r, s, d)
  BY <1>2 DEF RunsOf
<1>5. IsFiniteSet(R)
  BY <1>3, FS_Subset
<1>6. Cardinality(R) \in Nat
  BY <1>5, FS_CardinalityType
<1>7. QED
  BY <1>2, <1>3, <1>4, <1>5, <1>6

LEMMA SameRunsOf ==
  ASSUME EngineInv, SameEvents(events, events'), SameRuns(runs, runs'), DOMAIN runs' = DOMAIN runs
  PROVE  \A x, r, s, d : RunsOf(x, r, s, d)' = RunsOf(x, r, s, d)
<1>1. ASSUME NEW i \in DOMAIN runs
      PROVE  /\ runs'[i].engine = runs[i].engine /\ runs'[i].rule = runs[i].rule /\ runs'[i].at = runs[i].at
             /\ SubjectOf(i)' = SubjectOf(i)
  <2>1. /\ runs'[i].engine = runs[i].engine /\ runs'[i].rule = runs[i].rule /\ runs'[i].at = runs[i].at
        /\ runs'[i].event = runs[i].event
    BY DEF SameRuns
  <2>2. runs[i].event \in DOMAIN events
    BY RunRow
  <2>3. QED
    BY <2>1, <2>2 DEF SameEvents, SubjectOf
<1>2. QED
  BY <1>1 DEF RunsOf, DayOf

LEMMA LimitIsNatural ==
  ASSUME NEW r \in Rules, NEW d \in Nat
  PROVE  Limit(r, d) \in Nat /\ Extra(d) \in Nat /\ Limit(r, d) = Rule[r].budget + Extra(d) /\ Rule[r].budget \in Nat
BY RuleNumbers DEF Limit, Extra

LEMMA TodayIsNatural == EngineInv => Today \in Nat
BY DayIsNatural, NowIsNatural DEF Today

LEMMA CrashesIsNatural == EngineInv => count.crashes \in Nat
BY DEF EngineInv, Records, CountSet

\* What is paid for is within the limit.
LEMMA WithinLimit ==
  ASSUME NEW n \in Nat, NEW p \in {0, 1}, NEW k \in Nat, NEW c \in Nat, NEW u \in Nat, NEW b \in Nat, NEW z \in Nat,
         k = b + z, u <= b, n + p <= k * c + u + z
  PROVE  n <= k * (1 + c) /\ n <= k * (1 + (c + 1))
<1>1. k * c \in Nat
  OBVIOUS
<1>2. k * (1 + c) = k * c + k /\ k * (1 + (c + 1)) = k * c + k + k
  OBVIOUS
<1>3. PICK m \in Nat : m = k * c
  BY <1>1
<1>4. n <= m + k /\ n <= m + k + k
  BY <1>3
<1>5. QED
  BY <1>2, <1>3, <1>4

LEMMA InsertingKept ==
  ASSUME EngineInv, SameEvents(events, events'), home' = home,
         \A g \in Handlers : Acting(g)' => stack'[g] = stack[g]
  PROVE  \A x, r, s : Inserting(x, r, s)' => Inserting(x, r, s)
<1>1. SUFFICES ASSUME NEW g \in Handlers, Acting(g)'
               PROVE  Acting(g) /\ home'[g] = home[g] /\ RuleOf(g)' = RuleOf(g) /\ EventOf(g)'.subject = EventOf(g).subject
  BY DEF Inserting
<1>2. Top(g)' = Top(g) /\ stack'[g] = stack[g]
  BY <1>1 DEF Top
<1>3. Acting(g) /\ RuleOf(g)' = RuleOf(g)
  BY <1>1, <1>2 DEF Acting, RuleOf
<1>4. Top(g).event \in DOMAIN events
  BY <1>3, TopFrame DEF Acting
<1>5. EventOf(g)'.subject = EventOf(g).subject
  BY <1>2, <1>4 DEF EventOf, SameEvents
<1>6. QED
  BY <1>3, <1>5

\* A step that neither charges nor inserts, on the same day.
LEMMA PaidStays ==
  ASSUME EngineInv, NEW x \in Engines, NEW r \in Rules, NEW s, Paid(x, r, s),
         RunsOf(x, r, s, Today)' = RunsOf(x, r, s, Today), Charged(x, r, s)' = Charged(x, r, s), count'.crashes \in Nat,
         count.crashes <= count'.crashes, Today' = Today, Inserting(x, r, s)' => Inserting(x, r, s)
  PROVE  Paid(x, r, s)'
<1>1. PICK d : d = Today
  OBVIOUS
<1>2. PICK u \in Nat :
        /\ Spent(x, r, s, u) /\ u <= Rule[r].budget
        /\ Cardinality(RunsOf(x, r, s, d)) + Underway(x, r, s) <= Limit(r, d) * count.crashes + u + Extra(d)
  BY <1>1 DEF Paid
<1>3. Spent(x, r, s, u)'
  BY <1>2 DEF Spent
<1>4. Underway(x, r, s) \in {0, 1} /\ Underway(x, r, s)' \in {0, 1} /\ Underway(x, r, s)' <= Underway(x, r, s)
  BY DEF Underway
<1>5. PICK n, p, q, k, c, e, z :
        /\ n = Cardinality(RunsOf(x, r, s, d)) /\ p = Underway(x, r, s) /\ q = Underway(x, r, s)'
        /\ k = Limit(r, d) /\ c = count.crashes /\ e = count'.crashes /\ z = Extra(d)
  OBVIOUS
<1>6. n \in Nat /\ p \in Nat /\ q \in Nat /\ q <= p /\ k \in Nat /\ c \in Nat /\ e \in Nat /\ c <= e /\ z \in Nat
      /\ n + p <= k * c + u + z
  BY <1>1, <1>2, <1>4, <1>5, CountOfRuns, LimitIsNatural, TodayIsNatural, CrashesIsNatural
<1>7. n + q <= k * e + u + z
  <2>1. PICK m \in Nat : e = c + m
    <3>1. e - c \in Nat /\ e = c + (e - c)
      BY <1>6
    <3>2. QED
      BY <3>1
  <2>2. k * e = k * c + k * m /\ k * m \in Nat /\ k * c \in Nat
    BY <1>6, <2>1
  <2>3. PICK v, w \in Nat : v = k * c /\ w = k * m
    BY <2>2
  <2>4. k * e = v + w /\ n + p <= v + u + z
    BY <1>6, <2>2, <2>3
  <2>5. QED
    BY <1>6, <2>3, <2>4
<1>8. Cardinality(RunsOf(x, r, s, d))' = n /\ Limit(r, d)' = k /\ Extra(d)' = z
  BY <1>1, <1>5 DEF Limit, Extra
<1>9. QED
  BY <1>1, <1>2, <1>3, <1>5, <1>7, <1>8 DEF Paid

LEMMA MoreCrashes ==
  ASSUME NEW n \in Nat, NEW k \in Nat, NEW c \in Nat, NEW e \in Nat, c <= e, n <= k * (1 + c)
  PROVE  n <= k * (1 + e)
<1>1. PICK m \in Nat : e = c + m
  <2>1. e - c \in Nat /\ e = c + (e - c)
    OBVIOUS
  <2>2. QED
    BY <2>1
<1>2. k * (1 + e) = k * (1 + c) + k * m /\ k * m \in Nat /\ k * (1 + c) \in Nat
  BY <1>1
<1>3. QED
  BY <1>2

LEMMA BoundedStays ==
  ASSUME EngineInv, NEW x, NEW r \in Rules, NEW s, NEW d \in Nat, Bounded(x, r, s, d),
         RunsOf(x, r, s, d)' = RunsOf(x, r, s, d), count'.crashes \in Nat, count.crashes <= count'.crashes
  PROVE  Bounded(x, r, s, d)'
<1>1. PICK n, k, c, e : n = Cardinality(RunsOf(x, r, s, d)) /\ k = Limit(r, d) /\ c = count.crashes /\ e = count'.crashes
  OBVIOUS
<1>2. n \in Nat /\ k \in Nat /\ c \in Nat /\ e \in Nat /\ c <= e /\ n <= k * (1 + c)
  BY <1>1, CountOfRuns, LimitIsNatural, CrashesIsNatural DEF Bounded
<1>3. n <= k * (1 + e)
  BY <1>2, MoreCrashes
<1>4. Cardinality(RunsOf(x, r, s, d))' = n /\ Limit(r, d)' = k
  BY <1>1 DEF Limit, Extra
<1>5. QED
  BY <1>1, <1>3, <1>4 DEF Bounded

\* The runs of today are within the limit, and so they are after one more crash.
LEMMA PaidIsBounded ==
  ASSUME EngineInv, NEW x \in Engines, NEW r \in Rules, NEW s, Paid(x, r, s)
  PROVE  /\ Bounded(x, r, s, Today)
         /\ Cardinality(RunsOf(x, r, s, Today)) <= Limit(r, Today) * (1 + (count.crashes + 1))
<1>1. PICK u \in Nat :
        /\ u <= Rule[r].budget
        /\ Cardinality(RunsOf(x, r, s, Today)) + Underway(x, r, s) <= Limit(r, Today) * count.crashes + u + Extra(Today)
  BY DEF Paid
<1>2. PICK n, p, k, c, b, z :
        /\ n = Cardinality(RunsOf(x, r, s, Today)) /\ p = Underway(x, r, s) /\ k = Limit(r, Today) /\ c = count.crashes
        /\ b = Rule[r].budget /\ z = Extra(Today)
  OBVIOUS
<1>3. Today \in Nat
  BY TodayIsNatural
<1>4. n \in Nat /\ p \in {0, 1} /\ k \in Nat /\ c \in Nat /\ b \in Nat /\ z \in Nat /\ k = b + z
  BY <1>2, <1>3, CountOfRuns, LimitIsNatural, CrashesIsNatural DEF Underway
<1>5. u <= b /\ n + p <= k * c + u + z
  BY <1>1, <1>2
<1>6. n <= k * (1 + c) /\ n <= k * (1 + (c + 1))
  BY <1>4, <1>5, WithinLimit
<1>7. QED
  BY <1>2, <1>6 DEF Bounded

\* A step that neither charges nor inserts, on the same day.
LEMMA BudgetKept ==
  ASSUME EngineInv, BudgetInv, home' = home, SameEvents(events, events'), SameRuns(runs, runs'), DOMAIN runs' = DOMAIN runs,
         budget' = budget, count'.crashes = count.crashes, Today' = Today,
         \A x \in Engines, r \in Rules : \A s : Rule[r].budget > 0 /\ Inserting(x, r, s)' => Inserting(x, r, s)
  PROVE  BudgetInv'
<1>1. Scopes'
  BY DEF BudgetInv, Scopes
<1>2. count.crashes \in Nat /\ count'.crashes \in Nat /\ count.crashes <= count'.crashes
  BY CrashesIsNatural
<1>3. ASSUME NEW x \in Engines, NEW r \in Rules, Rule[r].budget > 0, NEW s
      PROVE  Paid(x, r, s)' /\ \A d \in Nat \ {Today} : Bounded(x, r, s, d)'
  <2>1. Paid(x, r, s) /\ \A d \in Nat \ {Today} : Bounded(x, r, s, d)
    BY <1>3 DEF BudgetInv, BudgetFits
  <2>2. \A d : RunsOf(x, r, s, d)' = RunsOf(x, r, s, d)
    BY SameRunsOf
  <2>3. Charged(x, r, s)' = Charged(x, r, s)
    BY DEF Charged
  <2>4. RunsOf(x, r, s, Today)' = RunsOf(x, r, s, Today)
    BY <2>2 DEF RunsOf
  <2>5. Inserting(x, r, s)' => Inserting(x, r, s)
    BY <1>3
  <2>6. Paid(x, r, s)'
    BY <1>2, <2>1, <2>3, <2>4, <2>5, PaidStays
  <2>7. \A d \in Nat \ {Today} : Bounded(x, r, s, d)'
    BY <1>2, <2>1, <2>2, BoundedStays
  <2>8. QED
    BY <2>6, <2>7
<1>4. BudgetFits'
  BY <1>3 DEF BudgetFits
<1>5. QED
  BY <1>1, <1>4 DEF BudgetInv

\* The record of today's charges is the one that is read.
LEMMA ReadsSpent ==
  ASSUME EngineInv, Scopes, NEW h \in Handlers, stack[h] # <<>>, Top(h).pc # "append",
         NEW u, Spent(home[h], RuleOf(h), EventOf(h).subject, u)
  PROVE  u = UsedToday(h)
<1>1. PICK x, r, s, S : x = home[h] /\ r = RuleOf(h) /\ s = EventOf(h).subject /\ S = ScopeOf(h)
  OBVIOUS
<1>2. x \in Engines
  BY <1>1, TopFrame
<1>3. S = {b \in budget[x] : b.rule = r /\ b.subject = s} /\ Charged(x, r, s) = {b \in S : b.day = Today}
  BY <1>1 DEF ScopeOf, Charged
<1>4. \A b, c \in S : b = c
  BY <1>2, <1>3 DEF Scopes
<1>5. CASE Charged(x, r, s) = {}
  <2>1. u = 0
    BY <1>1, <1>5 DEF Spent
  <2>2. ~ \E b \in S : b.day = Today
    BY <1>3, <1>5
  <2>3. QED
    BY <1>1, <2>1, <2>2 DEF UsedToday
<1>6. CASE Charged(x, r, s) # {}
  <2>1. PICK b \in S : b.day = Today /\ u = b.used
    BY <1>1, <1>3, <1>6 DEF Spent
  <2>2. UsedToday(h) = (CHOOSE c \in S : c.day = Today).used
    BY <1>1, <2>1 DEF UsedToday
  <2>3. (CHOOSE c \in S : c.day = Today) \in S
    BY <2>1
  <2>4. QED
    BY <1>4, <2>1, <2>2, <2>3
<1>7. QED
  BY <1>5, <1>6

\* The decision charges the run that it leaves to insert.
LEMMA ChargingStep ==
  ASSUME EngineInv, BudgetInv, NEW h \in Handlers, Decide(h), WithinBudget(h), Rule[RuleOf(h)].budget > 0,
         budget' = [budget EXCEPT ![home[h]] = (budget[home[h]] \ ScopeOf(h)) \cup {Charge(h)}]
  PROVE  BudgetInv'
<1>1. PICK x0, r0, s0, w, S : x0 = home[h] /\ r0 = RuleOf(h) /\ s0 = EventOf(h).subject /\ w = Charge(h) /\ S = ScopeOf(h)
  OBVIOUS
<1>2. /\ stack[h] # <<>> /\ Top(h).pc = "decide" /\ loop[home[h]] = h
      /\ RuleOf(h)' = r0 /\ Top(h)'.event = Top(h).event
      /\ home' = home /\ events' = events /\ \A g \in Handlers : g # h => stack'[g] = stack[g]
      /\ runs' = runs /\ now' = now /\ count' = count
  BY <1>1, AfterDecide DEF Decide
<1>3. x0 \in Engines /\ r0 \in Rules
  BY <1>1, <1>2, TopFrame
<1>4. Today \in Nat /\ Today' = Today /\ count.crashes \in Nat /\ Rule[r0].budget \in Nat /\ Rule[r0].budget > 0
  BY <1>1, <1>2, <1>3, TodayIsNatural, CrashesIsNatural, RuleNumbers DEF Today
<1>5. PICK u \in Nat :
        /\ Spent(x0, r0, s0, u) /\ u <= Rule[r0].budget
        /\ Cardinality(RunsOf(x0, r0, s0, Today)) + Underway(x0, r0, s0) <= Limit(r0, Today) * count.crashes + u + Extra(Today)
  BY <1>3, <1>4 DEF BudgetInv, BudgetFits, Paid
<1>6. u = UsedToday(h)
  BY <1>1, <1>2, <1>5, ReadsSpent DEF BudgetInv
<1>7. u < Rule[r0].budget
  BY <1>1, <1>4, <1>6 DEF WithinBudget
<1>8. w = [rule |-> r0, subject |-> s0, day |-> Today, used |-> u + 1]
  BY <1>1, <1>6 DEF Charge
<1>9. w.rule = r0 /\ w.subject = s0 /\ w.day = Today /\ w.used = u + 1
  BY <1>8
<1>10. S = {b \in budget[x0] : b.rule = r0 /\ b.subject = s0}
  BY <1>1 DEF ScopeOf
<1>11. budget \in [Engines -> SUBSET BudgetSet(AllSubjects)]
  BY DEF EngineInv, Records
<1>12. budget'[x0] = (budget[x0] \ S) \cup {w} /\ \A x \in Engines : x # x0 => budget'[x] = budget[x]
  BY <1>1, <1>3, <1>11
<1>13. Scopes'
  <2>1. ASSUME NEW x \in Engines, NEW b \in budget'[x]
        PROVE  /\ b.day <= Today /\ b.used <= Rule[b.rule].budget
               /\ \A c \in budget'[x] : b.rule = c.rule /\ b.subject = c.subject => b = c
    <3>1. CASE x # x0
      BY <1>12, <2>1, <3>1 DEF BudgetInv, Scopes
    <3>2. CASE x = x0 /\ b = w
      <4>1. b.day <= Today /\ b.used <= Rule[b.rule].budget
        BY <1>4, <1>7, <1>9, <3>2
      <4>2. \A c \in budget'[x] : b.rule = c.rule /\ b.subject = c.subject => b = c
        BY <1>9, <1>10, <1>12, <3>2
      <4>3. QED
        BY <4>1, <4>2
    <3>3. CASE x = x0 /\ b # w
      <4>1. b \in budget[x0] /\ ~ (b.rule = r0 /\ b.subject = s0)
        BY <1>10, <1>12, <2>1, <3>3
      <4>2. \A c \in budget'[x] : c = w \/ c \in budget[x0]
        BY <1>12, <3>3
      <4>3. /\ b.day <= Today /\ b.used <= Rule[b.rule].budget
            /\ \A c \in budget[x0] : b.rule = c.rule /\ b.subject = c.subject => b = c
        BY <1>3, <4>1 DEF BudgetInv, Scopes
      <4>4. QED
        BY <1>9, <4>1, <4>2, <4>3
    <3>4. QED
      BY <3>1, <3>2, <3>3
  <2>2. QED
    BY <1>4, <2>1 DEF Scopes
<1>14. \A x, r, s, d : RunsOf(x, r, s, d)' = RunsOf(x, r, s, d)
  BY <1>2 DEF RunsOf, SubjectOf, DayOf
<1>15. ASSUME NEW g \in Handlers, g # h, Acting(g)'
       PROVE  Acting(g) /\ home[g] # x0 /\ RuleOf(g)' = RuleOf(g) /\ EventOf(g)' = EventOf(g)
  <2>1. Top(g)' = Top(g)
    BY <1>2, <1>15 DEF Top
  <2>2. Acting(g) /\ RuleOf(g)' = RuleOf(g) /\ EventOf(g)' = EventOf(g)
    BY <1>2, <1>15, <2>1 DEF Acting, RuleOf, EventOf
  <2>3. home[g] # x0
    BY <1>1, <1>2, <1>15, <2>2, OneActs
  <2>4. QED
    BY <2>2, <2>3
<1>16. EventOf(h)'.subject = s0
  BY <1>1, <1>2 DEF EventOf
<1>17. ASSUME NEW x \in Engines, NEW r \in Rules, Rule[r].budget > 0, NEW s, ~ (x = x0 /\ r = r0 /\ s = s0)
       PROVE  Paid(x, r, s)'
  <2>1. Paid(x, r, s)
    BY <1>17 DEF BudgetInv, BudgetFits
  <2>2. Charged(x, r, s)' = Charged(x, r, s)
    <3>1. CASE x # x0
      BY <1>4, <1>12, <3>1 DEF Charged
    <3>2. CASE x = x0 /\ ~ (r = r0 /\ s = s0)
      BY <1>4, <1>9, <1>10, <1>12, <3>2 DEF Charged
    <3>3. QED
      BY <1>17, <3>1, <3>2
  <2>3. Inserting(x, r, s)' => Inserting(x, r, s)
    <3>1. SUFFICES ASSUME NEW g \in Handlers, Acting(g)', home'[g] = x, RuleOf(g)' = r, EventOf(g)'.subject = s
                   PROVE  Inserting(x, r, s)
      BY DEF Inserting
    <3>2. g # h
      BY <1>1, <1>2, <1>16, <1>17, <3>1
    <3>3. Acting(g) /\ home[g] = x /\ RuleOf(g) = r /\ EventOf(g).subject = s
      BY <1>2, <1>15, <3>1, <3>2
    <3>4. QED
      BY <3>3 DEF Inserting
  <2>4. RunsOf(x, r, s, Today)' = RunsOf(x, r, s, Today)
    BY <1>4, <1>14 DEF RunsOf
  <2>5. count'.crashes \in Nat /\ count.crashes <= count'.crashes
    BY <1>2, <1>4
  <2>6. QED
    BY <1>4, <2>1, <2>2, <2>3, <2>4, <2>5, PaidStays
<1>18. Paid(x0, r0, s0)'
  <2>1. Charged(x0, r0, s0)' = {w}
    BY <1>4, <1>9, <1>10, <1>12 DEF Charged
  <2>2. Spent(x0, r0, s0, u + 1)' /\ u + 1 \in Nat /\ u + 1 <= Rule[r0].budget
    BY <1>4, <1>7, <1>9, <2>1 DEF Spent
  <2>3. ~ Inserting(x0, r0, s0)
    <3>1. SUFFICES ASSUME NEW g \in Handlers, Acting(g), home[g] = x0 PROVE FALSE
      BY DEF Inserting
    <3>2. g = h
      BY <1>1, <1>2, <3>1, OneActs
    <3>3. QED
      BY <1>2, <3>1, <3>2 DEF Acting
  <2>4. Underway(x0, r0, s0) = 0 /\ Underway(x0, r0, s0)' \in {0, 1}
    BY <2>3 DEF Underway
  <2>5. PICK n, k, z, p, c, d : /\ d = Today /\ n = Cardinality(RunsOf(x0, r0, s0, d)) /\ k = Limit(r0, d) /\ z = Extra(d)
                                /\ p = Underway(x0, r0, s0)' /\ c = count.crashes
    OBVIOUS
  <2>6. n \in Nat /\ k \in Nat /\ z \in Nat /\ p \in {0, 1} /\ c \in Nat /\ n + 0 <= k * c + u + z
    BY <1>3, <1>4, <1>5, <2>4, <2>5, CountOfRuns, LimitIsNatural
  <2>7. n + p <= k * c + (u + 1) + z
    <3>1. PICK m \in Nat : m = k * c
      BY <2>6
    <3>2. QED
      BY <2>6, <3>1
  <2>8. Cardinality(RunsOf(x0, r0, s0, Today))' = n /\ Limit(r0, Today)' = k /\ Extra(Today)' = z /\ count'.crashes = c
    <3>1. RunsOf(x0, r0, s0, Today)' = RunsOf(x0, r0, s0, Today)
      BY <1>4, <1>14 DEF RunsOf
    <3>2. QED
      BY <1>2, <1>4, <2>5, <3>1 DEF Limit, Extra
  <2>9. QED
    BY <2>2, <2>5, <2>7, <2>8 DEF Paid
<1>19. \A x \in Engines, r \in Rules : Rule[r].budget > 0 =>
         \A s : Paid(x, r, s)' /\ \A d \in Nat \ {Today} : Bounded(x, r, s, d)'
  <2>1. count'.crashes \in Nat /\ count.crashes <= count'.crashes
    BY <1>2, <1>4
  <2>2. QED
    BY <1>14, <1>17, <1>18, <2>1, BoundedStays DEF BudgetInv, BudgetFits
<1>20. QED
  BY <1>4, <1>13, <1>19 DEF BudgetInv, BudgetFits

\* A run that is inserted has been charged.
LEMMA InsertingStep ==
  ASSUME EngineInv, BudgetInv, NEW h \in Handlers, InsertRun(h)
  PROVE  BudgetInv'
<1>1. PICK x0, r0, s0 : x0 = home[h] /\ r0 = RuleOf(h) /\ s0 = EventOf(h).subject
  OBVIOUS
<1>2. PICK i0 : Inserted(h, i0)
  BY InsertRunRow
<1>3. /\ stack[h] # <<>> /\ Top(h).pc = "insert" /\ loop[home[h]] = h /\ Acting(h)
  BY DEF InsertRun, Runs, Acting
<1>4. /\ ~ Acting(h)' /\ \A g \in Handlers : g # h => stack'[g] = stack[g]
      /\ SameEvents(events, events') /\ SameRuns(runs, runs')
  <2>1. ~ Decide(h) /\ Step(h)
    BY <1>3 DEF Decide, Runs, Step
  <2>2. QED
    BY <2>1, AfterStep
<1>5. /\ UNCHANGED <<home, events, budget, now, count>> /\ Today' = Today /\ x0 \in Engines /\ r0 \in Rules
      /\ count.crashes \in Nat /\ Today \in Nat /\ now \in Nat
  BY <1>1, <1>2, <1>3, TopFrame, CrashesIsNatural, TodayIsNatural, NowIsNatural DEF Inserted, Today
<1>6. /\ DOMAIN runs' = DOMAIN runs \cup {i0} /\ i0 \notin DOMAIN runs /\ \A i \in DOMAIN runs : runs'[i] = runs[i]
      /\ runs'[i0].rule = r0 /\ runs'[i0].engine = x0 /\ DayOf(runs'[i0].at) = Today /\ SubjectOf(i0)' = s0
  <2>1. i0 \notin DOMAIN runs
    <3>1. i0 \in Nat /\ \A i \in DOMAIN runs : i < i0
      BY <1>2 DEF Inserted
    <3>2. ~ (i0 < i0)
      BY <3>1
    <3>3. QED
      BY <3>1, <3>2
  <2>2. SubjectOf(i0)' = s0
    BY <1>1, <1>2, <1>5 DEF Inserted, SubjectOf, EventOf
  <2>3. QED
    BY <1>1, <1>2, <2>1, <2>2 DEF Inserted, DayOf, Today
<1>7. RunsOf(x0, r0, s0, Today)' = RunsOf(x0, r0, s0, Today) \cup {i0} /\ i0 \notin RunsOf(x0, r0, s0, Today)
  BY <1>5, <1>6 DEF RunsOf, SubjectOf
<1>8. ASSUME NEW x, NEW r, NEW s, NEW d, ~ (x = x0 /\ r = r0 /\ s = s0 /\ d = Today)
      PROVE  RunsOf(x, r, s, d)' = RunsOf(x, r, s, d)
  BY <1>5, <1>6, <1>8 DEF RunsOf, SubjectOf
<1>9. \A x, r, s : Inserting(x, r, s)' => Inserting(x, r, s)
  BY <1>4, <1>5, InsertingKept
<1>10. ASSUME NEW x \in Engines, NEW r \in Rules, Rule[r].budget > 0, NEW s, ~ (x = x0 /\ r = r0 /\ s = s0)
       PROVE  Paid(x, r, s)'
  <2>1. Paid(x, r, s)
    BY <1>10 DEF BudgetInv, BudgetFits
  <2>2. Charged(x, r, s)' = Charged(x, r, s)
    BY <1>5 DEF Charged
  <2>3. RunsOf(x, r, s, Today)' = RunsOf(x, r, s, Today)
    <3>1. PICK d : d = Today
      OBVIOUS
    <3>2. RunsOf(x, r, s, d)' = RunsOf(x, r, s, d)
      BY <1>8, <1>10
    <3>3. QED
      BY <1>5, <3>1, <3>2 DEF RunsOf
  <2>4. count'.crashes \in Nat /\ count.crashes <= count'.crashes
    BY <1>5
  <2>5. QED
    BY <1>5, <1>9, <2>1, <2>2, <2>3, <2>4, PaidStays
<1>11. ASSUME Rule[r0].budget > 0 PROVE Paid(x0, r0, s0)'
  <2>1. PICK u \in Nat :
          /\ Spent(x0, r0, s0, u) /\ u <= Rule[r0].budget
          /\ Cardinality(RunsOf(x0, r0, s0, Today)) + Underway(x0, r0, s0) <= Limit(r0, Today) * count.crashes + u + Extra(Today)
    BY <1>5, <1>11 DEF BudgetInv, BudgetFits, Paid
  <2>2. Spent(x0, r0, s0, u)'
    BY <1>5, <2>1 DEF Spent, Charged
  <2>3. Underway(x0, r0, s0) = 1
    BY <1>1, <1>3 DEF Underway, Inserting
  <2>4. Underway(x0, r0, s0)' = 0
    <3>1. SUFFICES ASSUME NEW g \in Handlers, Acting(g)', home'[g] = x0 PROVE FALSE
      BY DEF Underway, Inserting
    <3>2. g # h /\ stack'[g] = stack[g]
      BY <1>4, <3>1
    <3>3. Acting(g) /\ home[g] = home[h]
      BY <1>1, <1>5, <3>1, <3>2 DEF Acting, Top
    <3>4. QED
      BY <1>3, <3>2, <3>3, OneActs
  <2>5. PICK n, R : R = RunsOf(x0, r0, s0, Today) /\ n = Cardinality(R)
    OBVIOUS
  <2>6. n \in Nat /\ IsFiniteSet(R)
    BY <2>5, CountOfRuns
  <2>7. Cardinality(R \cup {i0}) = n + 1
    BY <1>7, <2>5, <2>6, FS_AddElement
  <2>8. Cardinality(RunsOf(x0, r0, s0, Today))' = n + 1
    BY <1>7, <2>5, <2>7
  <2>9. PICK k, z, c : k = Limit(r0, Today) /\ z = Extra(Today) /\ c = count.crashes
    OBVIOUS
  <2>10. n + 1 <= k * c + u + z
    BY <2>1, <2>3, <2>5, <2>9
  <2>11. (n + 1) + 0 <= k * c + u + z
    BY <2>6, <2>10
  <2>12. Limit(r0, Today)' = k /\ Extra(Today)' = z /\ count'.crashes = c
    BY <1>5, <2>9 DEF Limit, Extra
  <2>13. QED
    BY <2>1, <2>2, <2>4, <2>8, <2>11, <2>12 DEF Paid
<1>12. Scopes'
  BY <1>5 DEF BudgetInv, Scopes
<1>13. \A x \in Engines, r \in Rules : Rule[r].budget > 0 =>
         \A s : Paid(x, r, s)' /\ \A d \in Nat \ {Today} : Bounded(x, r, s, d)'
  <2>1. count'.crashes \in Nat /\ count.crashes <= count'.crashes
    BY <1>5
  <2>2. ASSUME NEW x \in Engines, NEW r \in Rules, Rule[r].budget > 0, NEW s, NEW d \in Nat \ {Today}
        PROVE  Bounded(x, r, s, d)'
    <3>1. Bounded(x, r, s, d)
      BY <2>2 DEF BudgetInv, BudgetFits
    <3>2. RunsOf(x, r, s, d)' = RunsOf(x, r, s, d)
      BY <1>8
    <3>3. QED
      BY <2>1, <3>1, <3>2, BoundedStays
  <2>3. QED
    BY <1>10, <1>11, <2>2
<1>14. QED
  BY <1>5, <1>12, <1>13 DEF BudgetInv, BudgetFits

LEMMA DayGoesOn ==
  ASSUME NEW t \in Nat, NEW u \in Nat, t <= u
  PROVE  t \div DayLength <= u \div DayLength
BY EngineAssumption

\* A midnight clears what was charged, and lets through what is on its way.
LEMMA BudgetTick ==
  ASSUME EngineInv, BudgetInv, Tick
  PROVE  BudgetInv'
<1>1. now' = now + 1 /\ UNCHANGED <<home, events, runs, skipped, approvals, stack, loop, budget, count>>
  BY DEF Tick
<1>2. now \in Nat /\ Today \in Nat /\ Today' \in Nat /\ Today <= Today' /\ count.crashes \in Nat
  <2>1. now \in Nat /\ now' \in Nat /\ now <= now'
    BY <1>1, NowIsNatural
  <2>2. QED
    BY <2>1, DayIsNatural, DayGoesOn, CrashesIsNatural DEF Today
<1>3. SameEvents(events, events') /\ SameRuns(runs, runs') /\ DOMAIN runs' = DOMAIN runs
  BY <1>1, SameStays
<1>4. \A x, r, s : Inserting(x, r, s)' => Inserting(x, r, s)
  BY <1>1, <1>3, InsertingKept
<1>5. CASE Today' = Today
  BY <1>1, <1>3, <1>4, <1>5, BudgetKept
<1>6. CASE Today' # Today
  <2>1. PICK D : D = Today'
    OBVIOUS
  <2>2. D \in Nat /\ Today < D /\ D > 0
    BY <1>2, <1>6, <2>1
  <2>3. \A x \in Engines : \A b \in budget[x] : b.day \in Nat /\ b.day <= Today
    <3>1. budget \in [Engines -> SUBSET BudgetSet(AllSubjects)]
      BY DEF EngineInv, Records
    <3>2. ASSUME NEW x \in Engines, NEW b \in budget[x] PROVE b.day \in Nat
      BY <3>1 DEF BudgetSet
    <3>3. QED
      BY <3>2 DEF BudgetInv, Scopes
  <2>4. Scopes'
    <3>1. \A x \in Engines : \A b \in budget[x] : b.day <= D
      BY <1>2, <2>2, <2>3
    <3>2. QED
      BY <1>1, <2>1, <3>1 DEF BudgetInv, Scopes
  <2>5. \A x, r, s, d : RunsOf(x, r, s, d)' = RunsOf(x, r, s, d)
    BY <1>3, SameRunsOf
  <2>6. \A x, r, s : RunsOf(x, r, s, D) = {}
    <3>1. ASSUME NEW i \in DOMAIN runs, DayOf(runs[i].at) = D PROVE FALSE
      <4>1. runs[i].at \in Nat /\ runs[i].at <= now
        BY RunRow
      <4>2. DayOf(runs[i].at) <= Today
        BY <1>2, <4>1, DayGoesOn DEF DayOf, Today
      <4>3. QED
        BY <1>2, <2>2, <3>1, <4>2
    <3>2. QED
      BY <3>1 DEF RunsOf
  <2>7. ASSUME NEW x \in Engines, NEW r \in Rules, Rule[r].budget > 0, NEW s
        PROVE  Paid(x, r, s)' /\ \A d \in Nat \ {D} : Bounded(x, r, s, d)'
    <3>1. Paid(x, r, s) /\ \A d \in Nat \ {Today} : Bounded(x, r, s, d)
      BY <2>7 DEF BudgetInv, BudgetFits
    <3>2. \A d \in Nat : Bounded(x, r, s, d)
      BY <1>2, <3>1, PaidIsBounded
    <3>3. \A d \in Nat \ {D} : Bounded(x, r, s, d)'
      BY <1>1, <1>2, <2>5, <3>2, BoundedStays
    <3>4. Spent(x, r, s, 0)'
      <4>1. Charged(x, r, s)' = {}
        <5>1. \A b \in budget[x] : b.day # D
          BY <1>2, <2>2, <2>3
        <5>2. QED
          BY <1>1, <2>1, <5>1 DEF Charged
      <4>2. QED
        BY <4>1 DEF Spent
    <3>5. Cardinality(RunsOf(x, r, s, Today))' = 0
      <4>1. RunsOf(x, r, s, Today)' = RunsOf(x, r, s, D)'
        BY <2>1 DEF RunsOf
      <4>2. RunsOf(x, r, s, Today)' = {}
        BY <2>5, <2>6, <4>1
      <4>3. QED
        BY <4>2, FS_EmptySet
    <3>6. Underway(x, r, s)' \in {0, 1}
      BY DEF Underway
    <3>7. Extra(Today)' = 1 /\ Limit(r, Today)' \in Nat /\ Rule[r].budget \in Nat
      <4>1. Extra(D) = 1 /\ Limit(r, D) \in Nat /\ Rule[r].budget \in Nat
        BY <2>2, LimitIsNatural DEF Extra
      <4>2. QED
        BY <2>1, <4>1 DEF Extra, Limit
    <3>8. PICK k, p, c : k = Limit(r, Today)' /\ p = Underway(x, r, s)' /\ c = count'.crashes
      OBVIOUS
    <3>9. 0 + p <= k * c + 0 + 1
      <4>1. k \in Nat /\ c \in Nat /\ p \in {0, 1}
        BY <1>1, <1>2, <3>6, <3>7, <3>8
      <4>2. k * c \in Nat
        BY <4>1
      <4>3. QED
        BY <4>1, <4>2
    <3>10. 0 \in Nat /\ 0 <= Rule[r].budget
      BY <3>7
    <3>11. Paid(x, r, s)'
      BY <3>4, <3>5, <3>7, <3>8, <3>9, <3>10 DEF Paid
    <3>12. QED
      BY <3>3, <3>11
  <2>8. QED
    BY <2>1, <2>4, <2>7 DEF BudgetInv, BudgetFits
<1>7. QED
  BY <1>5, <1>6

\* A crash forgets the charges of its process, and counts.
LEMMA BudgetCrash ==
  ASSUME EngineInv, BudgetInv, NEW x0 \in Engines, Crash(x0)
  PROVE  BudgetInv'
<1>1. /\ stack' = [h \in Handlers |-> IF home[h] = x0 THEN <<>> ELSE stack[h]]
      /\ budget' = [budget EXCEPT ![x0] = {}] /\ UNCHANGED <<home, events, runs, skipped, approvals, now>>
  BY DEF Crash
<1>2. /\ Today \in Nat /\ Today' = Today /\ count.crashes \in Nat /\ count'.crashes = count.crashes + 1
      /\ count'.crashes \in Nat /\ count.crashes <= count'.crashes
  <2>1. count.crashes \in Nat /\ count'.crashes = count.crashes + 1
    BY CrashStep, CrashesIsNatural
  <2>2. QED
    BY <1>1, <2>1, TodayIsNatural DEF Today
<1>3. SameEvents(events, events') /\ SameRuns(runs, runs') /\ DOMAIN runs' = DOMAIN runs
  BY <1>1, SameStays
<1>4. ASSUME NEW g \in Handlers, Acting(g)' PROVE stack'[g] = stack[g] /\ home[g] # x0
  BY <1>1, <1>4 DEF Acting
<1>5. \A x, r, s : Inserting(x, r, s)' => Inserting(x, r, s)
  BY <1>1, <1>3, <1>4, InsertingKept
<1>6. budget \in [Engines -> SUBSET BudgetSet(AllSubjects)]
  BY DEF EngineInv, Records
<1>7. budget'[x0] = {} /\ \A x \in Engines : x # x0 => budget'[x] = budget[x]
  BY <1>1, <1>6
<1>8. Scopes'
  BY <1>2, <1>7 DEF BudgetInv, Scopes
<1>9. \A x, r, s, d : RunsOf(x, r, s, d)' = RunsOf(x, r, s, d)
  BY <1>3, SameRunsOf
<1>10. ASSUME NEW x \in Engines, NEW r \in Rules, Rule[r].budget > 0, NEW s
       PROVE  Paid(x, r, s)' /\ \A d \in Nat \ {Today} : Bounded(x, r, s, d)'
  <2>1. Paid(x, r, s) /\ \A d \in Nat \ {Today} : Bounded(x, r, s, d)
    BY <1>10 DEF BudgetInv, BudgetFits
  <2>2. \A d \in Nat \ {Today} : Bounded(x, r, s, d)'
    BY <1>2, <1>9, <2>1, BoundedStays
  <2>3. RunsOf(x, r, s, Today)' = RunsOf(x, r, s, Today)
    <3>1. PICK d : d = Today
      OBVIOUS
    <3>2. RunsOf(x, r, s, d)' = RunsOf(x, r, s, d)
      BY <1>9
    <3>3. QED
      BY <1>2, <3>1, <3>2 DEF RunsOf
  <2>4. CASE x # x0
    <3>1. Charged(x, r, s)' = Charged(x, r, s)
      BY <1>2, <1>7, <2>4 DEF Charged
    <3>2. QED
      BY <1>2, <1>5, <2>1, <2>2, <2>3, <3>1, PaidStays
  <2>5. CASE x = x0
    <3>1. Spent(x, r, s, 0)'
      BY <1>7, <2>5 DEF Spent, Charged
    <3>2. Underway(x, r, s)' = 0
      BY <1>1, <1>4, <2>5 DEF Underway, Inserting
    <3>3. Bounded(x, r, s, Today)
      BY <2>1, PaidIsBounded
    <3>4. PICK n, k, z, c : /\ n = Cardinality(RunsOf(x, r, s, Today)) /\ k = Limit(r, Today) /\ z = Extra(Today)
                            /\ c = count.crashes
      OBVIOUS
    <3>5. n \in Nat /\ k \in Nat /\ z \in Nat /\ c \in Nat /\ n <= k * (1 + c) /\ Rule[r].budget \in Nat
      BY <1>2, <3>3, <3>4, CountOfRuns, LimitIsNatural DEF Bounded
    <3>6. n + 0 <= k * (c + 1) + 0 + z
      <4>1. 1 + c = c + 1
        BY <3>5
      <4>2. PICK m \in Nat : m = k * (c + 1)
        BY <3>5
      <4>3. n <= m
        BY <3>5, <4>1, <4>2
      <4>4. QED
        BY <3>5, <4>2, <4>3
    <3>7. /\ Cardinality(RunsOf(x, r, s, Today))' = n /\ Limit(r, Today)' = k /\ Extra(Today)' = z /\ count'.crashes = c + 1
          /\ 0 \in Nat /\ 0 <= Rule[r].budget
      BY <1>2, <2>3, <3>4, <3>5 DEF Limit, Extra
    <3>8. QED
      BY <2>2, <3>1, <3>2, <3>6, <3>7 DEF Paid
  <2>6. QED
    BY <2>4, <2>5
<1>11. QED
  BY <1>2, <1>8, <1>10 DEF BudgetInv, BudgetFits

LEMMA BudgetStep ==
  ASSUME EngineInv, BudgetInv, [Next]_vars
  PROVE  BudgetInv'
<1>1. /\ SameEvents(events, events) /\ SameRuns(runs, runs) /\ count.crashes \in Nat
  BY SameStays, CrashesIsNatural
<1>2. CASE UNCHANGED vars
  <2>1. /\ home' = home /\ SameEvents(events, events') /\ SameRuns(runs, runs') /\ DOMAIN runs' = DOMAIN runs
        /\ budget' = budget /\ count'.crashes = count.crashes /\ Today' = Today /\ stack' = stack
    BY <1>1, <1>2 DEF vars, Today
  <2>2. \A x, r, s : Inserting(x, r, s)' => Inserting(x, r, s)
    BY <2>1, InsertingKept
  <2>3. QED
    BY <2>1, <2>2, BudgetKept
<1>3. ASSUME NEW h \in Handlers, Starts(h) \/ Fault(h) \/ (Step(h) /\ ~ Decide(h) /\ ~ InsertRun(h)) PROVE BudgetInv'
  <2>1. /\ ~ Acting(h)' /\ home' = home /\ \A g \in Handlers : g # h => stack'[g] = stack[g]
        /\ SameEvents(events, events') /\ SameRuns(runs, runs')
    BY <1>3, AfterStep
  <2>2. \A x, r, s : Inserting(x, r, s)' => Inserting(x, r, s)
    BY <2>1, InsertingKept
  <2>3. budget' = budget /\ now' = now
    BY <1>3 DEF Starts, Emit, Replay, Resolve, Fault, Step, AppendEvent, InsertSkipped, Ask, Routed
  <2>4. count'.crashes = count.crashes
    BY <1>3, HandlerStep, FaultStep
  <2>5. DOMAIN runs' = DOMAIN runs
    <3>1. ASSUME NEW g \in Handlers, InsertRun(g) PROVE g = h
      <4>1. PICK n : Inserted(g, n)
        BY <3>1, InsertRunRow
      <4>2. stack[g] # <<>> /\ Top(g).pc = "insert" /\ Acting(g)
        BY <3>1 DEF InsertRun, Runs, Acting
      <4>3. ~ Acting(g)'
        <5>1. ~ Decide(g) /\ Step(g)
          BY <3>1, <4>2 DEF Decide, Runs, Step
        <5>2. QED
          BY <5>1, AfterStep
      <4>4. QED
        BY <2>1, <4>2, <4>3 DEF Acting, Top
    <3>2. CASE Steady
      BY <3>2 DEF Steady
    <3>3. CASE \E g \in Handlers : InsertRun(g)
      <4>1. InsertRun(h)
        BY <3>1, <3>3
      <4>2. Starts(h) \/ Fault(h)
        BY <1>3, <4>1
      <4>3. runs' = runs
        BY <4>2 DEF Starts, Emit, Replay, Resolve, Fault
      <4>4. QED
        BY <4>3
    <3>4. [Next]_vars
      OBVIOUS
    <3>5. QED
      BY <3>2, <3>3, SteadyStep
  <2>6. QED
    BY <2>1, <2>2, <2>3, <2>4, <2>5, BudgetKept DEF Today
<1>4. ASSUME NEW h \in Handlers, Decide(h) PROVE BudgetInv'
  <2>1. PICK yes \in BOOLEAN : yes <=> Eligible(h) /\ WithinBudget(h)
    OBVIOUS
  <2>2. \/ yes /\ Rule[RuleOf(h)].budget > 0 /\ budget' = [budget EXCEPT ![home[h]] = (budget[home[h]] \ ScopeOf(h)) \cup {Charge(h)}]
        \/ ~ (yes /\ Rule[RuleOf(h)].budget > 0) /\ budget' = budget
    BY <1>4, <2>1 DEF Decide
  <2>3. CASE yes /\ Rule[RuleOf(h)].budget > 0
    BY <1>4, <2>1, <2>2, <2>3, ChargingStep
  <2>4. CASE ~ (yes /\ Rule[RuleOf(h)].budget > 0)
    <3>1. /\ stack[h] # <<>> /\ Top(h).pc = "decide" /\ RuleOf(h)' = RuleOf(h) /\ Top(h)'.event = Top(h).event
          /\ Top(h)'.decision # "skip" => yes
          /\ \A g \in Handlers : g # h => stack'[g] = stack[g]
          /\ UNCHANGED <<home, events, runs, now, count>> /\ budget' = budget
      BY <1>4, <2>1, <2>2, <2>4, AfterDecide DEF Decide
    <3>2. ASSUME NEW x \in Engines, NEW r \in Rules, NEW s, Rule[r].budget > 0, Inserting(x, r, s)' PROVE Inserting(x, r, s)
      <4>1. PICK g \in Handlers : Acting(g)' /\ home'[g] = x /\ RuleOf(g)' = r /\ EventOf(g)'.subject = s
        BY <3>2 DEF Inserting
      <4>2. g # h
        <5>1. Acting(h)' => Rule[RuleOf(h)].budget = 0 \/ ~ (Rule[RuleOf(h)].budget > 0)
          BY <2>4, <3>1 DEF Acting
        <5>2. RuleOf(h)' = RuleOf(h)
          BY <3>1
        <5>3. ASSUME g = h PROVE FALSE
          <6>1. r = RuleOf(h) /\ Acting(h)'
            BY <4>1, <5>2, <5>3
          <6>2. Rule[r].budget \in Nat
            BY RuleNumbers
          <6>3. QED
            BY <3>2, <5>1, <6>1, <6>2
        <5>4. QED
          BY <5>3
      <4>3. Top(g)' = Top(g) /\ stack'[g] = stack[g]
        BY <3>1, <4>2 DEF Top
      <4>4. Acting(g) /\ home[g] = x /\ RuleOf(g) = r /\ EventOf(g).subject = s
        BY <3>1, <4>1, <4>3 DEF Acting, RuleOf, EventOf
      <4>5. QED
        BY <4>4 DEF Inserting
    <3>3. /\ SameEvents(events, events') /\ SameRuns(runs, runs') /\ DOMAIN runs' = DOMAIN runs
          /\ count'.crashes = count.crashes /\ Today' = Today
      BY <1>1, <3>1 DEF Today
    <3>4. QED
      BY <3>1, <3>2, <3>3, BudgetKept
  <2>5. QED
    BY <2>3, <2>4
<1>5. ASSUME NEW cutoff, Cleanup(cutoff) PROVE BudgetInv'
  <2>1. Cleaned(cutoff) /\ UNCHANGED <<home, stack, loop, budget, now>> /\ count'.crashes = count.crashes
    BY <1>5, CleanupRows, CleanupStep DEF Cleanup
  <2>2. /\ SameEvents(events, events') /\ SameRuns(runs, runs') /\ DOMAIN runs' = DOMAIN runs /\ Today' = Today
    BY <2>1 DEF Cleaned, Today
  <2>3. \A x, r, s : Inserting(x, r, s)' => Inserting(x, r, s)
    BY <2>1, <2>2, InsertingKept
  <2>4. QED
    BY <2>1, <2>2, <2>3, BudgetKept
<1>6. QED
  BY <1>2, <1>3, <1>4, <1>5, BudgetTick, BudgetCrash, InsertingStep DEF Next

LEMMA BudgetInit == Init => BudgetInv
<1>1. SUFFICES ASSUME Init PROVE BudgetInv
  OBVIOUS
<1>2. /\ runs = <<>> /\ budget = [x \in Engines |-> {}] /\ \A h \in Handlers : stack[h] = <<>>
      /\ now = 0 /\ count.crashes = 0
  BY <1>1 DEF Init
<1>3. DOMAIN runs = {} /\ EngineInv /\ Today \in Nat
  BY <1>1, <1>2, EngineInit, TodayIsNatural
<1>4. \A x, r, s, d : Cardinality(RunsOf(x, r, s, d)) = 0
  <2>1. \A x, r, s, d : RunsOf(x, r, s, d) = {}
    BY <1>3 DEF RunsOf
  <2>2. QED
    BY <2>1, FS_EmptySet
<1>5. \A x, r, s : Underway(x, r, s) = 0
  BY <1>2 DEF Underway, Inserting, Acting
<1>6. Scopes
  BY <1>2 DEF Scopes
<1>7. ASSUME NEW x \in Engines, NEW r \in Rules, NEW s
      PROVE  Paid(x, r, s) /\ \A d \in Nat : Bounded(x, r, s, d)
  <2>1. Spent(x, r, s, 0)
    BY <1>2 DEF Spent, Charged
  <2>2. \A d \in Nat : Limit(r, d) \in Nat /\ Extra(d) \in Nat /\ Rule[r].budget \in Nat
    BY LimitIsNatural
  <2>3. 0 + 0 <= Limit(r, Today) * 0 + 0 + Extra(Today) /\ 0 <= Rule[r].budget /\ 0 \in Nat
    <3>1. PICK k, z : k = Limit(r, Today) /\ z = Extra(Today)
      OBVIOUS
    <3>2. k \in Nat /\ z \in Nat /\ Rule[r].budget \in Nat
      BY <1>3, <2>2, <3>1
    <3>3. 0 + 0 <= k * 0 + 0 + z
      BY <3>2
    <3>4. QED
      BY <3>1, <3>2, <3>3
  <2>4. Paid(x, r, s)
    BY <1>2, <1>4, <1>5, <2>1, <2>3 DEF Paid
  <2>5. \A d \in Nat : 0 <= Limit(r, d) * (1 + 0)
    BY <2>2
  <2>6. \A d \in Nat : Bounded(x, r, s, d)
    <3>1. ASSUME NEW d \in Nat PROVE Cardinality(RunsOf(x, r, s, d)) <= Limit(r, d) * (1 + count.crashes)
      BY <1>2, <1>4, <2>5
    <3>2. QED
      BY <3>1 DEF Bounded
  <2>7. QED
    BY <2>4, <2>6
<1>8. QED
  BY <1>6, <1>7 DEF BudgetInv, BudgetFits

\* A process acts for a rule and a subject at most as often in a day as the budget allows,
\* plus once at a midnight, times its restarts.
THEOREM BudgetRespected == Spec => []BudgetHolds
<1>1. EngineInv /\ BudgetInv => BudgetHolds
  <2>1. SUFFICES ASSUME EngineInv, BudgetInv, NEW x \in Engines, NEW r \in Rules, NEW s \in AllSubjects,
                        NEW d \in 0..(MaxTime \div DayLength), Rule[r].budget > 0
                 PROVE  Bounded(x, r, s, d)
    BY DEF BudgetHolds, Bounded, Limit, Extra, RunsOf, DayOf
  <2>2. d \in Nat /\ Today \in Nat
    BY TodayIsNatural, <2>1
  <2>3. Paid(x, r, s) /\ \A e \in Nat \ {Today} : Bounded(x, r, s, e)
    BY <2>1 DEF BudgetInv, BudgetFits
  <2>4. Bounded(x, r, s, Today)
    BY <2>1, <2>3, PaidIsBounded
  <2>5. QED
    BY <2>2, <2>3, <2>4
<1>2. EngineInv /\ BudgetInv /\ [Next]_vars => BudgetInv'
  BY BudgetStep
<1>3. QED
  BY <1>1, <1>2, BudgetInit, EngineHolds, PTL DEF Spec
=============================================================================
