------------------------- MODULE AvailabilityProofs -------------------------
(* Proofs about Availability for days and weeks of any length, and schedules *)
(* of any number of rules and exceptions.                                    *)
EXTENDS Availability, WellFoundedInduction, TLAPS

----------------------------------------------------------------------------
(* Time.                                                                     *)

TimeOf(t) == t % D

LEMMA DayAndTime ==
  ASSUME NEW t \in Nat
  PROVE  /\ t = D * DateOf(t) + TimeOf(t)
         /\ TimeOf(t) \in 0..D - 1
         /\ DateOf(t) \in Nat
  BY AvailabilityAssumption, SMT DEF DateOf, TimeOf

LEMMA DayPasses ==
  ASSUME NEW a \in Nat, NEW b \in Nat, a < b
  PROVE  D * a + D <= D * b
  BY AvailabilityAssumption, Z3

LEMMA DayType ==
  ASSUME NEW a \in Nat
  PROVE  D * a \in Nat
  BY AvailabilityAssumption, Z3

\* Written as days and a rest of less than a day, a moment has that time.
LEMMA TimeIsUnique ==
  ASSUME NEW e \in Nat, NEW d \in Nat, NEW k \in 0..D - 1, e = D * d + k
  PROVE  TimeOf(e) = k
<1>1. /\ e = D * DateOf(e) + TimeOf(e) /\ TimeOf(e) \in 0..D - 1
      /\ DateOf(e) \in Nat /\ D \in Nat
  BY DayAndTime, AvailabilityAssumption
<1>2. D * DateOf(e) \in Nat /\ D * d \in Nat
  BY <1>1, DayType
<1>3. CASE DateOf(e) < d
  <2>1. D * DateOf(e) + D <= D * d
    BY <1>1, <1>3, DayPasses
  <2> QED BY <1>1, <1>2, <2>1
<1>4. CASE d < DateOf(e)
  <2>1. D * d + D <= D * DateOf(e)
    BY <1>1, <1>4, DayPasses
  <2> QED BY <1>1, <1>2, <2>1
<1>5. CASE DateOf(e) = d
  <2>1. D * DateOf(e) = D * d
    BY <1>5
  <2> QED BY <1>1, <1>2, <2>1
<1> QED BY <1>1, <1>3, <1>4, <1>5

\* Days follow each other: what lies between two times of a day is of that day.
LEMMA SameDay ==
  ASSUME NEW s \in Nat, NEW t \in Nat, NEW e \in Nat, s <= t, t <= e,
         DateOf(s) = DateOf(e)
  PROVE  DateOf(t) = DateOf(s) /\ t - s = TimeOf(t) - TimeOf(s)
<1>d. D \in Nat
  BY AvailabilityAssumption
<1>1. /\ s = D * DateOf(s) + TimeOf(s) /\ TimeOf(s) \in 0..D - 1 /\ DateOf(s) \in Nat
      /\ t = D * DateOf(t) + TimeOf(t) /\ TimeOf(t) \in 0..D - 1 /\ DateOf(t) \in Nat
      /\ e = D * DateOf(e) + TimeOf(e) /\ TimeOf(e) \in 0..D - 1
  BY DayAndTime
<1>2. ASSUME DateOf(t) < DateOf(s) PROVE FALSE
  <2>1. D * DateOf(t) + D <= D * DateOf(s)
    BY <1>1, <1>2, DayPasses
  <2>2. D * DateOf(t) \in Nat /\ D * DateOf(s) \in Nat
    BY <1>1, DayType
  <2> QED BY <1>d, <1>1, <2>1, <2>2
<1>3. ASSUME DateOf(s) < DateOf(t) PROVE FALSE
  <2>1. D * DateOf(s) + D <= D * DateOf(t)
    BY <1>1, <1>3, DayPasses
  <2>2. D * DateOf(t) \in Nat /\ D * DateOf(s) \in Nat
    BY <1>1, DayType
  <2> QED BY <1>d, <1>1, <2>1, <2>2
<1>4. DateOf(t) = DateOf(s)
  BY <1>1, <1>2, <1>3
<1>5. t - s = TimeOf(t) - TimeOf(s)
  <2>1. D * DateOf(s) \in Nat
    BY <1>1, DayType
  <2> QED BY <1>d, <1>1, <1>4, <2>1
<1> QED BY <1>4, <1>5

\* What is put on the day of s is a time of that day, and comes at some tick.
LEMMA TimeToTick ==
  ASSUME NEW s \in Nat, NEW e \in Nat, s <= e, DateOf(s) = DateOf(e),
         NEW k \in Nat, TimeOf(s) <= k, k < TimeOf(e)
  PROVE  /\ s - TimeOf(s) + k \in s..(e - 1)
         /\ TimeOf(s - TimeOf(s) + k) = k
<1>1. TimeOf(s) \in Nat /\ TimeOf(e) \in Nat
  BY DayAndTime, AvailabilityAssumption
<1>2. e - s = TimeOf(e) - TimeOf(s)
  BY SameDay
<1>3. s - TimeOf(s) + k \in s..(e - 1)
  BY <1>1, <1>2
<1>4. PICK t \in Nat : t = s - TimeOf(s) + k /\ s <= t /\ t <= e
  BY <1>3
<1>5. t - s = TimeOf(t) - TimeOf(s)
  BY <1>4, SameDay
<1>6. TimeOf(t) \in Nat
  BY DayAndTime, AvailabilityAssumption
<1> QED BY <1>1, <1>3, <1>4, <1>5, <1>6

----------------------------------------------------------------------------
(* Ranges.                                                                   *)

Apart(ranges) ==
  \A a, b \in ranges : a = b \/ a.end < b.start \/ b.end < a.start

LEMMA RangeTypes ==
  ASSUME NEW ranges \in SUBSET TimeRange, NEW r \in ranges
  PROVE  r.start \in Nat /\ r.end \in Nat /\ r.end <= D - 1
  BY AvailabilityAssumption DEF TimeRange

\* When both end points lie in one range, so does every tick between them.
LEMMA EndPointsEnclose ==
  ASSUME NEW ranges \in SUBSET TimeRange,
         NEW s \in Nat, NEW e \in Nat, s < e, DateOf(s) = DateOf(e),
         IsTimeInRanges(s, e, ranges)
  PROVE  \E r \in ranges : \A t \in s..(e - 1) :
           r.start <= TimeOf(t) /\ TimeOf(t) < r.end
<1>1. PICK r \in ranges : TimeOf(s) >= r.start /\ TimeOf(e) <= r.end
  BY DEF IsTimeInRanges, TimeOf
<1>2. ASSUME NEW t \in s..(e - 1)
      PROVE  r.start <= TimeOf(t) /\ TimeOf(t) < r.end
  <2>1. t \in Nat /\ s <= t /\ t < e
    OBVIOUS
  <2>2. t - s = TimeOf(t) - TimeOf(s) /\ e - s = TimeOf(e) - TimeOf(s)
    BY <2>1, SameDay
  <2>3. TimeOf(t) \in Nat /\ TimeOf(s) \in Nat /\ TimeOf(e) \in Nat
    BY <2>1, DayAndTime, AvailabilityAssumption
  <2> QED BY <1>1, <2>1, <2>2, <2>3, RangeTypes
<1> QED BY <1>2

\* Where ranges lie apart, ticks that each lie in some range lie in one: at the
\* end of the range of s nothing else could go on.
LEMMA ApartTicksShareARange ==
  ASSUME NEW ranges \in SUBSET TimeRange, Apart(ranges),
         NEW s \in Nat, NEW e \in Nat, s < e, DateOf(s) = DateOf(e),
         \A t \in s..(e - 1) : InHours(t, ranges)
  PROVE  IsTimeInRanges(s, e, ranges)
<1>1. TimeOf(s) \in Nat /\ TimeOf(e) \in Nat
  BY DayAndTime, AvailabilityAssumption
<1>2. \A t \in s..(e - 1) : \E r \in ranges :
        r.start <= TimeOf(t) /\ TimeOf(t) < r.end
  BY DEF InHours, TimeOf
<1>3. PICK r \in ranges : r.start <= TimeOf(s) /\ TimeOf(s) < r.end
  BY <1>2
<1>4. r.start \in Nat /\ r.end \in Nat
  BY RangeTypes
<1>5. CASE r.end < TimeOf(e)
  <2>1. /\ s - TimeOf(s) + r.end \in s..(e - 1)
        /\ TimeOf(s - TimeOf(s) + r.end) = r.end
    BY <1>1, <1>3, <1>4, <1>5, TimeToTick
  <2>2. PICK q \in ranges : q.start <= r.end /\ r.end < q.end
    BY <1>2, <2>1
  <2>3. q = r \/ q.end < r.start \/ r.end < q.start
    BY DEF Apart
  <2> QED BY <1>1, <1>3, <1>4, <2>2, <2>3, RangeTypes
<1>6. CASE ~(r.end < TimeOf(e))
  BY <1>1, <1>3, <1>4, <1>6 DEF IsTimeInRanges, TimeOf
<1> QED BY <1>5, <1>6

\* A range ends before midnight, so a slot with all its ticks in one range ends
\* on the day it starts on, no later than the range.
LEMMA TicksInOneRange ==
  ASSUME NEW r \in TimeRange, NEW s \in Nat, NEW e \in Nat, s < e,
         \A t \in s..(e - 1) : InHours(t, {r})
  PROVE  IsTimeInRanges(s, e, {r})
<1>1. r.start \in Nat /\ r.end \in Nat /\ r.end <= D - 1
  BY AvailabilityAssumption DEF TimeRange
<1>2. s \in s..(e - 1) /\ e - 1 \in s..(e - 1) /\ e - 1 \in Nat
  OBVIOUS
<1>3. r.start <= TimeOf(s) /\ TimeOf(e - 1) < r.end
  BY <1>2 DEF InHours, TimeOf
<1>4. TimeOf(e) = TimeOf(e - 1) + 1
  <2>1. PICK t \in Nat : t = e - 1
    BY <1>2
  <2>2. t = D * DateOf(t) + TimeOf(t) /\ TimeOf(t) \in 0..D - 1 /\ DateOf(t) \in Nat
    BY DayAndTime
  <2>3. e = D * DateOf(t) + (TimeOf(t) + 1) /\ TimeOf(t) + 1 \in 0..D - 1
    <3>1. D * DateOf(t) \in Nat /\ D \in Nat
      BY <2>2, DayType, AvailabilityAssumption
    <3>2. TimeOf(t) < r.end
      BY <1>3, <2>1
    <3> QED BY <1>1, <2>1, <2>2, <3>1, <3>2
  <2>4. TimeOf(e) = TimeOf(t) + 1
    <3>1. PICK d \in Nat : d = DateOf(t)
      BY <2>2
    <3>2. PICK k \in 0..D - 1 : k = TimeOf(t) + 1
      BY <2>3
    <3>3. e = D * d + k
      BY <2>3, <3>1, <3>2
    <3> QED BY <3>2, <3>3, TimeIsUnique
  <2> QED BY <2>1, <2>4
<1>5. TimeOf(s) \in Nat /\ TimeOf(e - 1) \in Nat
  BY <1>2, DayAndTime, AvailabilityAssumption
<1>6. TimeOf(s) >= r.start /\ TimeOf(e) <= r.end
  BY <1>1, <1>3, <1>4, <1>5
<1> QED BY <1>6 DEF IsTimeInRanges, TimeOf

----------------------------------------------------------------------------
(* Rules and exceptions.                                                     *)

LEMMA FirstOf ==
  ASSUME NEW hits \in SUBSET Nat, hits # {}
  PROVE  (CHOOSE i \in hits : \A j \in hits : i <= j) \in hits
<1>1. \E i \in hits : \A j \in hits : ~(<<j, i>> \in OpToRel(<, Nat))
  BY NatLessThanWellFounded, WFMin
<1>2. \E i \in hits : \A j \in hits : i <= j
  <2>1. PICK i \in hits : \A j \in hits : ~(<<j, i>> \in OpToRel(<, Nat))
    BY <1>1
  <2>2. \A j \in hits : ~(j < i)
    BY <2>1 DEF OpToRel
  <2> QED BY <2>2
<1> QED BY <1>2

\* find returns an entry of the document, or none.
LEMMA EntriesFound ==
  ASSUME NEW doc \in Document
  PROVE  /\ \A date : \/ ExceptionOn(doc, date) = <<>>
                      \/ \E x \in AvailabilityException :
                           ExceptionOn(doc, date) = <<x>>
         /\ \A day : \/ RuleOn(doc, day) = <<>>
                     \/ \E r \in WeeklyRule : RuleOn(doc, day) = <<r>>
<1>1. PICK m \in Nat, n \in Nat :
        /\ doc.weeklyRules \in [1..m -> WeeklyRule]
        /\ doc.exceptions \in [1..n -> AvailabilityException]
  BY AvailabilityAssumption DEF Document, SeqUpTo
<1>2. ASSUME NEW date
      PROVE  \/ ExceptionOn(doc, date) = <<>>
             \/ \E x \in AvailabilityException : ExceptionOn(doc, date) = <<x>>
  <2> DEFINE hits == {i \in DOMAIN doc.exceptions : doc.exceptions[i].date = date}
             first == CHOOSE i \in hits : \A j \in hits : i <= j
  <2>1. ExceptionOn(doc, date) =
          IF hits = {} THEN <<>> ELSE <<doc.exceptions[first]>>
    BY DEF ExceptionOn, Find
  <2>2. hits \in SUBSET (1..n)
    BY <1>1
  <2> HIDE DEF hits
  <2>3. hits # {} => first \in hits
    BY <2>2, FirstOf
  <2> QED BY <1>1, <2>1, <2>2, <2>3
<1>3. ASSUME NEW day
      PROVE  \/ RuleOn(doc, day) = <<>>
             \/ \E r \in WeeklyRule : RuleOn(doc, day) = <<r>>
  <2> DEFINE hits == {i \in DOMAIN doc.weeklyRules : doc.weeklyRules[i].day = day}
             first == CHOOSE i \in hits : \A j \in hits : i <= j
  <2>1. RuleOn(doc, day) =
          IF hits = {} THEN <<>> ELSE <<doc.weeklyRules[first]>>
    BY DEF RuleOn, Find
  <2>2. hits \in SUBSET (1..m)
    BY <1>1
  <2> HIDE DEF hits
  <2>3. hits # {} => first \in hits
    BY <2>2, FirstOf
  <2> QED BY <1>1, <2>1, <2>2, <2>3
<1> QED BY <1>2, <1>3

----------------------------------------------------------------------------
(* The decision.                                                             *)

LEMMA EntryTypes ==
  /\ \A x \in AvailabilityException :
       x.ranges \in SUBSET TimeRange /\ x.type \in {"blocked", "extra"}
  /\ \A r \in WeeklyRule : r.ranges \in SUBSET TimeRange
  BY AvailabilityAssumption DEF AvailabilityException, WeeklyRule

\* No range of hours reaches the last tick of a day, so nobody works then.
LEMMA LastTickIsFree ==
  ASSUME NEW doc \in Document, NEW t \in Nat, Works(doc, t)
  PROVE  TimeOf(t) < D - 1
<1> DEFINE x == ExceptionOn(doc, DateOf(t))
<1>1. ASSUME NEW ranges \in SUBSET TimeRange, InHours(t, ranges)
      PROVE  TimeOf(t) < D - 1
  <2>1. PICK r \in ranges : TimeOf(t) < r.end
    BY <1>1 DEF InHours, TimeOf
  <2>2. TimeOf(t) \in Nat /\ D \in Nat
    BY DayAndTime, AvailabilityAssumption
  <2> QED BY <2>1, <2>2, RangeTypes
<1>2. WeeklyHours(doc, t) => TimeOf(t) < D - 1
  <2> SUFFICES ASSUME WeeklyHours(doc, t) PROVE TimeOf(t) < D - 1
    OBVIOUS
  <2>1. PICK r \in WeeklyRule : RuleOn(doc, DayOfWeek(t)) = <<r>>
    BY EntriesFound DEF WeeklyHours
  <2>2. InHours(t, r.ranges)
    BY <2>1 DEF WeeklyHours
  <2> QED BY <1>1, <2>2, EntryTypes
<1>3. CASE x = <<>>
  BY <1>2, <1>3 DEF Works
<1>4. ASSUME NEW y \in AvailabilityException, x = <<y>>
      PROVE  TimeOf(t) < D - 1
  <2>1. x # <<>> /\ x[1] = y
    BY <1>4
  <2>2. y.type = "extra" => InHours(t, y.ranges)
    BY <2>1 DEF Works
  <2>3. y.type = "blocked" => WeeklyHours(doc, t)
    BY <2>1 DEF Works
  <2> QED BY <1>1, <1>2, <2>2, <2>3, EntryTypes
<1> QED BY <1>3, <1>4, EntriesFound

\* Hence working time never runs past midnight.
LEMMA CoveredWithinOneDay ==
  ASSUME NEW doc \in Document, NEW q, q.startAt \in Nat, q.endAt \in Nat,
         q.startAt < q.endAt, Covered(doc, q)
  PROVE  ~PastMidnight(q)
<1> DEFINE s == q.startAt
           e == q.endAt
           m == D * DateOf(s) + (D - 1)
<1> SUFFICES ASSUME DateOf(s) # DateOf(e) PROVE FALSE
  BY DEF PastMidnight
<1>d. D \in Nat \ {0}
  BY AvailabilityAssumption
<1>1. /\ s = D * DateOf(s) + TimeOf(s) /\ TimeOf(s) \in 0..D - 1 /\ DateOf(s) \in Nat
      /\ e = D * DateOf(e) + TimeOf(e) /\ TimeOf(e) \in 0..D - 1 /\ DateOf(e) \in Nat
  BY DayAndTime
<1>2. D * DateOf(s) \in Nat /\ D * DateOf(e) \in Nat
  BY <1>1, DayType
<1>3. DateOf(s) < DateOf(e)
  <2>1. ASSUME DateOf(e) < DateOf(s) PROVE FALSE
    <3>1. D * DateOf(e) + D <= D * DateOf(s)
      BY <1>1, <2>1, DayPasses
    <3> QED BY <1>d, <1>1, <1>2, <3>1
  <2> QED BY <1>1, <2>1
<1>4. D * DateOf(s) + D <= D * DateOf(e)
  BY <1>1, <1>3, DayPasses
<1>5. m \in Nat /\ s <= m /\ m < e /\ m \in s..(e - 1)
  BY <1>d, <1>1, <1>2, <1>4
<1>6. TimeOf(m) < D - 1
  BY <1>5, LastTickIsFree DEF Covered
<1>7. m = D * DateOf(m) + TimeOf(m) /\ TimeOf(m) \in 0..D - 1 /\ DateOf(m) \in Nat
  BY <1>5, DayAndTime
<1>8. D * DateOf(m) \in Nat
  BY <1>7, DayType
<1>9. DateOf(m) # DateOf(s)
  BY <1>d, <1>2, <1>6, <1>7
<1>10. CASE DateOf(m) < DateOf(s)
  <2>1. D * DateOf(m) + D <= D * DateOf(s)
    BY <1>1, <1>7, <1>10, DayPasses
  <2> QED BY <1>d, <1>2, <1>6, <1>7, <1>8, <2>1
<1>11. CASE DateOf(s) < DateOf(m)
  <2>1. D * DateOf(s) + D <= D * DateOf(m)
    BY <1>1, <1>7, <1>11, DayPasses
  <2> QED BY <1>d, <1>2, <1>6, <1>7, <1>8, <2>1
<1> QED BY <1>1, <1>7, <1>9, <1>10, <1>11

\* The same entries count for all ticks of a slot that ends on its first day.
LEMMA SameEntries ==
  ASSUME NEW doc, NEW q, q.startAt \in Nat, q.endAt \in Nat,
         q.startAt < q.endAt, ~PastMidnight(q),
         NEW t \in q.startAt..(q.endAt - 1)
  PROVE  /\ t \in Nat
         /\ ExceptionOn(doc, DateOf(t)) = ExceptionOn(doc, DateOf(q.startAt))
         /\ RuleOn(doc, DayOfWeek(t)) = RuleOn(doc, DayOfWeek(q.startAt))
<1>1. t \in Nat /\ q.startAt <= t /\ t <= q.endAt
  OBVIOUS
<1>2. DateOf(t) = DateOf(q.startAt)
  BY <1>1, SameDay DEF PastMidnight
<1> QED BY <1>1, <1>2 DEF DayOfWeek

\* Without a partial block one set of ranges decides the whole date.
LEMMA OneSetOfRanges ==
  ASSUME NEW doc \in Document, NEW q, q.startAt \in Nat, q.endAt \in Nat,
         q.startAt < q.endAt, ~PastMidnight(q), ~PartlyBlocked(doc, q)
  PROVE  \E ranges \in SUBSET TimeRange :
           /\ Separate(doc, q.startAt) => Apart(ranges)
           /\ Open(doc, q.startAt, q.endAt)
                <=> IsTimeInRanges(q.startAt, q.endAt, ranges)
           /\ \A t \in q.startAt..(q.endAt - 1) :
                Works(doc, t) <=> InHours(t, ranges)
<1> DEFINE s == q.startAt
           e == q.endAt
           x == ExceptionOn(doc, DateOf(s))
           w == RuleOn(doc, DayOfWeek(s))
           Goal(ranges) ==
             /\ Separate(doc, s) => Apart(ranges)
             /\ Open(doc, s, e) <=> IsTimeInRanges(s, e, ranges)
             /\ \A t \in s..(e - 1) : Works(doc, t) <=> InHours(t, ranges)
<1>1. \A t \in s..(e - 1) : /\ ExceptionOn(doc, DateOf(t)) = x
                            /\ RuleOn(doc, DayOfWeek(t)) = w
  BY SameEntries
<1>2. ASSUME x = <<>>, w = <<>> PROVE Goal({})
  <2>1. ~Open(doc, s, e)
    BY <1>2 DEF Open
  <2>2. \A t \in s..(e - 1) : ~Works(doc, t)
    BY <1>1, <1>2 DEF Works, WeeklyHours
  <2> QED BY <2>1, <2>2 DEF Apart, IsTimeInRanges, InHours
<1>3. ASSUME NEW r \in WeeklyRule, w = <<r>>, x = <<>>
      PROVE  Goal(r.ranges)
  <2>1. Open(doc, s, e) <=> IsTimeInRanges(s, e, r.ranges)
    BY <1>3 DEF Open
  <2>2. ASSUME NEW t \in s..(e - 1)
        PROVE  Works(doc, t) <=> InHours(t, r.ranges)
    <3>1. /\ ExceptionOn(doc, DateOf(t)) = <<>>
          /\ RuleOn(doc, DayOfWeek(t)) # <<>>
          /\ RuleOn(doc, DayOfWeek(t))[1] = r
      BY <1>1, <1>3
    <3>2. WeeklyHours(doc, t) <=> InHours(t, r.ranges)
      BY <3>1 DEF WeeklyHours
    <3> QED BY <3>1, <3>2 DEF Works
  <2>3. Separate(doc, s) => Apart(r.ranges)
    BY <1>3 DEF Separate, Apart
  <2> QED BY <2>1, <2>2, <2>3
<1>4. ASSUME NEW y \in AvailabilityException, x = <<y>>, y.type = "extra"
      PROVE  Goal(y.ranges)
  <2>1. Open(doc, s, e) <=> IsTimeInRanges(s, e, y.ranges)
    <3>1. x # <<>> /\ x[1] = y
      BY <1>4
    <3> QED BY <1>4, <3>1 DEF Open
  <2>2. ASSUME NEW t \in s..(e - 1)
        PROVE  Works(doc, t) <=> InHours(t, y.ranges)
    <3>1. /\ ExceptionOn(doc, DateOf(t)) # <<>>
          /\ ExceptionOn(doc, DateOf(t))[1] = y
      BY <1>1, <1>4
    <3> QED BY <1>4, <3>1 DEF Works
  <2>3. Separate(doc, s) => Apart(y.ranges)
    BY <1>4 DEF Separate, Apart
  <2> QED BY <2>1, <2>2, <2>3
<1>5. ASSUME NEW y \in AvailabilityException, x = <<y>>, y.type = "blocked"
      PROVE  Goal({})
  <2>x. x # <<>> /\ x[1] = y
    BY <1>5
  <2>0. y.ranges = {}
    BY <1>5, <2>x DEF PartlyBlocked
  <2>1. ~Open(doc, s, e)
    BY <1>5, <2>x, <2>0 DEF Open
  <2>2. ASSUME NEW t \in s..(e - 1)
        PROVE  ~Works(doc, t)
    <3>1. /\ ExceptionOn(doc, DateOf(t)) # <<>>
          /\ ExceptionOn(doc, DateOf(t))[1] = y
      BY <1>1, <1>5
    <3> QED BY <1>5, <2>0, <3>1 DEF Works
  <2> QED BY <2>1, <2>2 DEF Apart, IsTimeInRanges, InHours
<1> HIDE DEF Goal
<1>6. \E ranges \in SUBSET TimeRange : Goal(ranges)
  <2>1. CASE x = <<>> /\ w = <<>>
    BY <1>2, <2>1
  <2>2. ASSUME NEW r \in WeeklyRule, w = <<r>>, x = <<>>
        PROVE  \E ranges \in SUBSET TimeRange : Goal(ranges)
    BY <1>3, <2>2, EntryTypes
  <2>3. ASSUME NEW y \in AvailabilityException, x = <<y>>
        PROVE  \E ranges \in SUBSET TimeRange : Goal(ranges)
    <3>1. CASE y.type = "extra"
      <4>1. Goal(y.ranges)
        BY <1>4, <2>3, <3>1
      <4> QED BY <4>1, EntryTypes
    <3>2. CASE y.type = "blocked"
      BY <1>5, <2>3, <3>2
    <3> QED BY <3>1, <3>2, EntryTypes
  <2> QED BY <2>1, <2>2, <2>3, EntriesFound
<1> QED BY <1>6 DEF Goal

LEMMA OpenIsCovered ==
  ASSUME NEW doc \in Document, NEW q, q.startAt \in Nat, q.endAt \in Nat,
         q.startAt < q.endAt, ~PastMidnight(q), ~PartlyBlocked(doc, q),
         Open(doc, q.startAt, q.endAt)
  PROVE  Covered(doc, q)
<1>1. PICK ranges \in SUBSET TimeRange :
        /\ IsTimeInRanges(q.startAt, q.endAt, ranges)
        /\ \A t \in q.startAt..(q.endAt - 1) : Works(doc, t) <=> InHours(t, ranges)
  BY OneSetOfRanges
<1>2. \A t \in q.startAt..(q.endAt - 1) : InHours(t, ranges)
  BY <1>1, EndPointsEnclose DEF PastMidnight, InHours, TimeOf
<1> QED BY <1>1, <1>2 DEF Covered

\* On a partly blocked date working time lies outside the blocked ranges, and so
\* do the end points of a slot in it.
LEMMA CoveredIsOpenDespiteBlock ==
  ASSUME NEW doc \in Document, NEW q, q.startAt \in Nat, q.endAt \in Nat,
         q.startAt < q.endAt, PartlyBlocked(doc, q), Covered(doc, q)
  PROVE  Open(doc, q.startAt, q.endAt)
<1> DEFINE s == q.startAt
           e == q.endAt
           x == ExceptionOn(doc, DateOf(s))
<1>1. PICK y \in AvailabilityException : x = <<y>>
  BY EntriesFound DEF PartlyBlocked
<1>2. x # <<>> /\ x[1] = y
  BY <1>1
<1>3. y.type = "blocked" /\ y.ranges # {} /\ y.ranges \in SUBSET TimeRange
  BY <1>2, EntryTypes DEF PartlyBlocked
<1>4. s \in s..(e - 1) /\ Works(doc, s)
  BY DEF Covered
<1>5. ~InHours(s, y.ranges)
  BY <1>2, <1>3, <1>4 DEF Works
<1>6. DateOf(s) = DateOf(e)
  BY CoveredWithinOneDay DEF PastMidnight
<1>7. ~IsTimeInRanges(s, e, y.ranges)
  <2> SUFFICES ASSUME IsTimeInRanges(s, e, y.ranges) PROVE FALSE
    OBVIOUS
  <2>1. PICK r \in y.ranges : \A t \in s..(e - 1) :
          r.start <= TimeOf(t) /\ TimeOf(t) < r.end
    BY <1>3, <1>6, EndPointsEnclose
  <2> QED BY <1>4, <1>5, <2>1 DEF InHours, TimeOf
<1> QED BY <1>2, <1>3, <1>7 DEF Open

LEMMA CoveredIsOpen ==
  ASSUME NEW doc \in Document, NEW q, q.startAt \in Nat, q.endAt \in Nat,
         q.startAt < q.endAt, Covered(doc, q),
         Separate(doc, q.startAt) \/ PartlyBlocked(doc, q)
  PROVE  Open(doc, q.startAt, q.endAt)
<1>1. ~PastMidnight(q)
  BY CoveredWithinOneDay
<1>2. CASE ~PartlyBlocked(doc, q)
  <2>1. PICK ranges \in SUBSET TimeRange :
          /\ Apart(ranges)
          /\ Open(doc, q.startAt, q.endAt)
               <=> IsTimeInRanges(q.startAt, q.endAt, ranges)
          /\ \A t \in q.startAt..(q.endAt - 1) :
               Works(doc, t) <=> InHours(t, ranges)
    BY <1>1, <1>2, OneSetOfRanges
  <2>2. \A t \in q.startAt..(q.endAt - 1) : InHours(t, ranges)
    BY <2>1 DEF Covered
  <2> QED BY <1>1, <2>1, <2>2, ApartTicksShareARange DEF PastMidnight
<1> QED BY <1>2, CoveredIsOpenDespiteBlock

----------------------------------------------------------------------------
(* The document and the question.                                            *)

Question == [startAt: 0..(Horizon * D - 1),
             endAt: 1..(Horizon * D - 1 + MaxTicks), open: BOOLEAN]

\* What was asked was decided on the document that is there.
Decided ==
  /\ availability = <<>> \/ \E doc \in Document : availability = <<doc>>
  /\ \/ asked = <<>>
     \/ \E q \in Question :
          /\ asked = <<q>> /\ q.startAt < q.endAt
          /\ q.open = (availability # <<>> /\ Open(availability[1], q.startAt, q.endAt))
  /\ updates \in 0..MaxUpdates

LEMMA QuestionTypes ==
  \A q \in Question : q.startAt \in Nat /\ q.endAt \in Nat
  BY DEF Question

LEMMA InitDecided == Init => Decided
  BY AvailabilityAssumption DEF Init, Decided

LEMMA StepDecided == Decided /\ [Next]_vars => Decided'
<1> SUFFICES ASSUME Decided, [Next]_vars PROVE Decided'
  OBVIOUS
<1>1. CASE SetAvailability
  <2>1. PICK w \in SeqUpTo(WeeklyRule, MaxRules),
             x \in SeqUpTo(AvailabilityException, MaxExceptions) :
          availability' = <<[weeklyRules |-> w, exceptions |-> x]>>
    BY <1>1 DEF SetAvailability
  <2>2. [weeklyRules |-> w, exceptions |-> x] \in Document
    BY DEF Document
  <2>3. asked' = <<>> /\ updates' \in 0..MaxUpdates
    BY <1>1, AvailabilityAssumption DEF SetAvailability, Decided
  <2> QED BY <2>1, <2>2, <2>3 DEF Decided
<1>2. ASSUME NEW s \in 0..(Horizon * D - 1), NEW n \in 1..MaxTicks,
             IsSlotAvailable(s, s + n)
      PROVE  Decided'
  <2> DEFINE answer == availability # <<>> /\ Open(availability[1], s, s + n)
             q == [startAt |-> s, endAt |-> s + n, open |-> answer]
  <2>1. asked' = <<q>> /\ UNCHANGED <<availability, updates>>
    BY <1>2 DEF IsSlotAvailable
  <2>2. s + n \in 1..(Horizon * D - 1 + MaxTicks) /\ s < s + n
    <3>1. Horizon * D \in Int /\ MaxTicks \in Int
      BY AvailabilityAssumption
    <3> QED BY <3>1
  <2>3. answer \in BOOLEAN
    OBVIOUS
  <2> HIDE DEF answer
  <2>4. q \in Question
    BY <2>2, <2>3 DEF Question
  <2>5. q.open = answer' /\ q.startAt = s /\ q.endAt = s + n
    BY <2>1 DEF answer
  <2> QED BY <2>1, <2>2, <2>4, <2>5 DEF Decided, answer
<1>3. CASE UNCHANGED vars
  BY <1>3 DEF vars, Decided
<1> QED BY <1>1, <1>2, <1>3 DEF Next

LEMMA AtMostOne ==
  ASSUME NEW S, NEW f, f = <<>> \/ \E v \in S : f = <<v>>
  PROVE  Len(f) <= 1 /\ \A i \in DOMAIN f : f[i] \in S
<1>1. CASE f = <<>>
  <2>1. Len(f) = 0 /\ DOMAIN f = {}
    BY <1>1
  <2> QED BY <2>1
<1>2. ASSUME NEW v \in S, f = <<v>>
      PROVE  Len(f) <= 1 /\ \A i \in DOMAIN f : f[i] \in S
  <2>1. Len(f) = 1 /\ DOMAIN f = {1} /\ f[1] = v
    BY <1>2
  <2> QED BY <2>1
<1> QED BY <1>1, <1>2

\* setAvailability stores what a form can send and isSlotAvailable answers yes or
\* no, for every kind of exception: no case of the decision is left open.
THEOREM TypeCorrect == Spec => []TypeOK
<1>1. Decided => TypeOK
  <2> SUFFICES ASSUME Decided PROVE TypeOK
    OBVIOUS
  <2>1. Len(availability) <= 1 /\ \A i \in DOMAIN availability :
          availability[i] \in Document
    BY AtMostOne DEF Decided
  <2>2. Len(asked) <= 1 /\ \A i \in DOMAIN asked : asked[i] \in Question
    <3>1. asked = <<>> \/ \E q \in Question : asked = <<q>>
      BY DEF Decided
    <3> QED BY <3>1, AtMostOne
  <2> QED BY <2>1, <2>2 DEF Decided, TypeOK, Question
<1> QED BY <1>1, InitDecided, StepDecided, PTL DEF Spec

\* isSlotAvailable compares the end points of a slot with one range at a time.
\* What it accepts is working time minute by minute unless the slot runs past
\* midnight or meets a partial block; what it refuses of working time lies across
\* ranges that touch.
THEOREM AgreesWithScheduleHolds == Spec => []AgreesWithSchedule
<1>1. Decided => AgreesWithSchedule
  <2> SUFFICES ASSUME Decided, NEW i \in DOMAIN asked,
                      NEW k \in DOMAIN availability
               PROVE  LET q == asked[i]
                          doc == availability[k] IN
                        /\ (q.open /\ ~PastMidnight(q) /\ ~PartlyBlocked(doc, q))
                             => Covered(doc, q)
                        /\ /\ Covered(doc, q)
                           /\ Separate(doc, q.startAt) \/ PartlyBlocked(doc, q)
                           => q.open
    BY DEF AgreesWithSchedule
  <2>1. PICK doc \in Document : availability = <<doc>>
    BY DEF Decided
  <2>2. PICK q \in Question :
          /\ asked = <<q>> /\ q.startAt < q.endAt
          /\ q.open <=> Open(doc, q.startAt, q.endAt)
    <3>1. availability # <<>> /\ availability[1] = doc /\ asked # <<>>
      BY <2>1
    <3> QED BY <3>1 DEF Decided
  <2>3. asked[i] = q /\ availability[k] = doc
    BY <2>1, <2>2
  <2> QED BY <2>2, <2>3, QuestionTypes, OpenIsCovered, CoveredIsOpen
<1> QED BY <1>1, InitDecided, StepDecided, PTL DEF Spec

\* A blocked date takes no slot and a blocked range none that lies in it, whatever
\* other entries the document has for that date and wherever the slot ends.
THEOREM BlocksAreRespectedHolds == Spec => []BlocksAreRespected
<1>1. Decided => BlocksAreRespected
  <2> SUFFICES ASSUME Decided, NEW i \in DOMAIN asked,
                      NEW k \in DOMAIN availability, asked[i].open,
                      ExceptionOn(availability[k], DateOf(asked[i].startAt)) # <<>>,
                      ExceptionOn(availability[k],
                                  DateOf(asked[i].startAt))[1].type = "blocked"
               PROVE  LET q == asked[i]
                          x == ExceptionOn(availability[k], DateOf(q.startAt)) IN
                        /\ x[1].ranges # {}
                        /\ \A r \in x[1].ranges :
                             \E t \in q.startAt..(q.endAt - 1) : ~InHours(t, {r})
    BY DEF BlocksAreRespected
  <2>1. PICK doc \in Document : availability = <<doc>>
    BY DEF Decided
  <2>2. PICK q \in Question :
          /\ asked = <<q>> /\ q.startAt < q.endAt
          /\ q.open <=> Open(doc, q.startAt, q.endAt)
    <3>1. availability # <<>> /\ availability[1] = doc /\ asked # <<>>
      BY <2>1
    <3> QED BY <3>1 DEF Decided
  <2>3. asked[i] = q /\ availability[k] = doc
    BY <2>1, <2>2
  <2>4. PICK x \in AvailabilityException :
          ExceptionOn(doc, DateOf(q.startAt)) = <<x>>
    BY <2>3, EntriesFound
  <2>5. x.type = "blocked" /\ Open(doc, q.startAt, q.endAt)
    BY <2>2, <2>3, <2>4
  <2>6. x.ranges # {} /\ ~IsTimeInRanges(q.startAt, q.endAt, x.ranges)
    <3>1. /\ ExceptionOn(doc, DateOf(q.startAt)) # <<>>
          /\ ExceptionOn(doc, DateOf(q.startAt))[1] = x
      BY <2>4
    <3> QED BY <2>5, <3>1 DEF Open
  <2>7. ASSUME NEW r \in x.ranges
        PROVE  \E t \in q.startAt..(q.endAt - 1) : ~InHours(t, {r})
    <3>1. q.startAt \in Nat /\ q.endAt \in Nat /\ r \in TimeRange
      BY QuestionTypes, EntryTypes
    <3>2. ~IsTimeInRanges(q.startAt, q.endAt, {r})
      BY <2>6 DEF IsTimeInRanges
    <3> QED BY <2>2, <3>1, <3>2, TicksInOneRange
  <2> QED BY <2>3, <2>4, <2>6, <2>7
<1> QED BY <1>1, InitDecided, StepDecided, PTL DEF Spec
============================================================================
