---------------------------- MODULE Availability ----------------------------
(***************************************************************************)
(* The working hours of one professional: AvailabilityService, whose       *)
(* isSlotAvailable decides for create, createPublicByTenantSlug and        *)
(* reschedule whether a slot may be booked at all.                         *)
(*                                                                         *)
(* Time is local to the tenant and counted in ticks, D to a day (the code  *)
(* counts minutes); day 0 of the calendar is day 0 of the week.  Zones     *)
(* whose offset changes are not modelled.  A range of hours is written     *)
(* "HH:mm"-"HH:mm" in the code and compared as text, which for two digits  *)
(* each is the order of the numbers.                                       *)
(***************************************************************************)
EXTENDS Integers, Sequences

CONSTANTS
  D,              \* ticks in a day
  Week,           \* days in a week
  Horizon,        \* days a slot may start on
  RangeChoices,   \* the sets of ranges clients send
  MaxRules,       \* bound on weekly rules sent
  MaxExceptions,  \* bound on exceptions sent
  MaxTicks,       \* longest service
  MaxUpdates      \* bound on calls of setAvailability

TimeRange == [start: 0..D - 1, end: 0..D - 1]

ASSUME AvailabilityAssumption ==
  /\ D \in Nat \ {0}
  /\ Week \in Nat \ {0}
  /\ Horizon \in Nat \ {0}
  /\ MaxRules \in Nat /\ MaxExceptions \in Nat /\ MaxUpdates \in Nat
  /\ MaxTicks \in Nat \ {0}
  /\ RangeChoices \subseteq SUBSET TimeRange

VARIABLES
  availability,  \* the document: at most one, as there is one professional
  asked,         \* the last question isSlotAvailable answered: at most one
  updates

vars == <<availability, asked, updates>>

WeeklyRule == [day: 0..Week - 1, ranges: RangeChoices]

AvailabilityException ==
  [date: 0..Horizon - 1, ranges: RangeChoices, type: {"blocked", "extra"}]

\* Sequences over S of at most n elements.
SeqUpTo(S, n) == UNION {[1..k -> S] : k \in 0..n}

Document == [weeklyRules: SeqUpTo(WeeklyRule, MaxRules),
             exceptions: SeqUpTo(AvailabilityException, MaxExceptions)]

TypeOK ==
  /\ Len(availability) <= 1
  /\ \A i \in DOMAIN availability : availability[i] \in Document
  /\ Len(asked) <= 1
  /\ \A i \in DOMAIN asked :
       asked[i] \in [startAt: 0..(Horizon * D - 1),
                    endAt: 1..(Horizon * D - 1 + MaxTicks),
                    open: BOOLEAN]
  /\ updates \in 0..MaxUpdates

Init == availability = <<>> /\ asked = <<>> /\ updates = 0

----------------------------------------------------------------------------
(* isSlotAvailable.                                                        *)

DateOf(t) == t \div D
DayOfWeek(t) == DateOf(t) % Week

\* Array.prototype.find, as a sequence of at most one element.
Find(s, Test(_)) ==
  LET hits == {i \in DOMAIN s : Test(s[i])} IN
    IF hits = {} THEN <<>>
    ELSE <<s[CHOOSE i \in hits : \A j \in hits : i <= j]>>

ExceptionOn(doc, date) == Find(doc.exceptions, LAMBDA e : e.date = date)
RuleOn(doc, day) == Find(doc.weeklyRules, LAMBDA r : r.day = day)

\* Seeded fault: only the start of the slot is compared.
StartInRanges(s, e, ranges) ==
  \E r \in ranges : s % D >= r.start /\ s % D <= r.end

\* Times of day only: which day each of them falls on plays no part.
IsTimeInRanges(s, e, ranges) ==
  \E r \in ranges : s % D >= r.start /\ e % D <= r.end

\* Seeded fault: the weekly rules are consulted after a whole-day block.
OpenAfterBlock(doc, s, e) ==
  LET rule == RuleOn(doc, DayOfWeek(s))
      exception == ExceptionOn(doc, DateOf(s)) IN
    IF exception # <<>> /\ exception[1].type = "extra"
    THEN IsTimeInRanges(s, e, exception[1].ranges)
    ELSE rule # <<>> /\ IsTimeInRanges(s, e, rule[1].ranges)

\* The first exception of the start's date decides alone; a "blocked" one with
\* ranges opens everything that is not inside one of them.
Open(doc, s, e) ==
  LET rule == RuleOn(doc, DayOfWeek(s))
      exception == ExceptionOn(doc, DateOf(s)) IN
    IF exception # <<>>
    THEN CASE exception[1].type = "blocked" ->
                /\ exception[1].ranges # {}
                /\ ~IsTimeInRanges(s, e, exception[1].ranges)
           [] exception[1].type = "extra" ->
                IsTimeInRanges(s, e, exception[1].ranges)
    ELSE rule # <<>> /\ IsTimeInRanges(s, e, rule[1].ranges)

\* A question changes nothing, so one per document is enough.
IsSlotAvailable(s, e) ==
  /\ asked = <<>>
  /\ asked' = <<[startAt |-> s, endAt |-> e,
                 open |-> availability # <<>> /\ Open(availability[1], s, e)]>>
  /\ UNCHANGED <<availability, updates>>

\* An upsert that replaces both lists; an omitted exceptions field means [].
\* The question asked last is forgotten: it was about the old document.
SetAvailability ==
  /\ updates < MaxUpdates
  /\ updates' = updates + 1
  /\ \E w \in SeqUpTo(WeeklyRule, MaxRules),
        x \in SeqUpTo(AvailabilityException, MaxExceptions) :
       availability' = <<[weeklyRules |-> w, exceptions |-> x]>>
  /\ asked' = <<>>

Next ==
  \/ SetAvailability
  \/ \E s \in 0..(Horizon * D - 1), n \in 1..MaxTicks :
       IsSlotAvailable(s, s + n)

Spec == Init /\ [][Next]_vars

----------------------------------------------------------------------------
(* What the schedule means, tick by tick, independently of the code above. *)

InHours(t, ranges) == \E r \in ranges : r.start <= t % D /\ t % D < r.end

WeeklyHours(doc, t) ==
  LET rule == RuleOn(doc, DayOfWeek(t)) IN
    rule # <<>> /\ InHours(t, rule[1].ranges)

\* The professional works during tick t.
Works(doc, t) ==
  LET x == ExceptionOn(doc, DateOf(t)) IN
    CASE x = <<>>              -> WeeklyHours(doc, t)
      [] x # <<>> /\ x[1].type = "extra"   -> InHours(t, x[1].ranges)
      [] x # <<>> /\ x[1].type = "blocked" ->
           /\ x[1].ranges # {} /\ ~InHours(t, x[1].ranges)
           /\ WeeklyHours(doc, t)

Covered(doc, q) == \A t \in q.startAt..(q.endAt - 1) : Works(doc, t)

\* A slot whose end reads as a time of the following day.
PastMidnight(q) == DateOf(q.endAt) # DateOf(q.startAt)

\* The date has an exception that blocks some hours and not the day.
PartlyBlocked(doc, q) ==
  LET x == ExceptionOn(doc, DateOf(q.startAt)) IN
    x # <<>> /\ x[1].type = "blocked" /\ x[1].ranges # {}

\* The ranges that apply on the date of t lie apart, as in README.md's example.
Separate(doc, t) ==
  LET x == ExceptionOn(doc, DateOf(t))
      w == RuleOn(doc, DayOfWeek(t))
      ranges == IF x # <<>> THEN x[1].ranges
                ELSE IF w # <<>> THEN w[1].ranges ELSE {} IN
    \A a, b \in ranges : a = b \/ a.end < b.start \/ b.end < a.start

\* The code compares the end points of a slot with one range at a time, the
\* schedule is a set of minutes.  A slot isSlotAvailable accepts lies in working
\* time, unless it runs past midnight or its date is partly blocked; a slot in
\* working time is refused only where two ranges of its date touch or overlap
\* and the slot lies across them.
AgreesWithSchedule ==
  \A i \in DOMAIN asked, k \in DOMAIN availability :
    LET q == asked[i]
        doc == availability[k] IN
      /\ (q.open /\ ~PastMidnight(q) /\ ~PartlyBlocked(doc, q))
           => Covered(doc, q)
      /\ /\ Covered(doc, q)
         /\ Separate(doc, q.startAt) \/ PartlyBlocked(doc, q)
         => q.open

\* A date blocked as a whole takes no slot that starts on it and, on a partly
\* blocked date, every slot accepted sticks out of every blocked range: some
\* tick of it is not in that range, whatever other entries for the date follow
\* and even if the slot ends on the following day.  More is not promised: a slot
\* that merely overlaps a block, or lies across two, is accepted, since
\* isTimeInRanges compares whole slots, and the weekly rules are not asked.
BlocksAreRespected ==
  \A i \in DOMAIN asked, k \in DOMAIN availability :
    LET q == asked[i]
        doc == availability[k]
        x == ExceptionOn(doc, DateOf(q.startAt)) IN
      (x # <<>> /\ x[1].type = "blocked" /\ q.open) =>
        /\ x[1].ranges # {}
        /\ \A r \in x[1].ranges :
             \E t \in q.startAt..(q.endAt - 1) : ~InHours(t, {r})

\* "Returns true if the slot (startAt-endAt) is covered by the professional's
\* schedule": the comment of isSlotAvailable.
OpenMeansCovered ==
  \A i \in DOMAIN asked, k \in DOMAIN availability :
    asked[i].open => Covered(availability[k], asked[i])
============================================================================
