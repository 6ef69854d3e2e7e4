----------------------------- MODULE RuleProofs -----------------------------
(***************************************************************************)
(* Facts about the rules the engine is built from, of every configuration  *)
(* the loader accepts.  Of working days: the walk to the next one ends     *)
(* before its guard against an endless loop strikes, a settlement line is  *)
(* due on the day that walk finds, and a payment counts as settled in time *)
(* exactly if no working day lies between.  Of sums over rows, of the      *)
(* scores of P8 and of the classification of a case: what the proofs about *)
(* the engine rest on.                                                     *)
(***************************************************************************)
EXTENDS CaseRules, FiniteSetTheorems, WellFoundedInduction, TLAPS

(* Every set of numbers with a member has a least one. *)
LEMMA LeastNumber ==
  ASSUME NEW T \in SUBSET Nat, T # {}
  PROVE  \E x \in T : \A y \in T : x =< y
<1>. DEFINE Less == {pair \in Nat \X Nat : pair[1] < pair[2]}
<1>1. IsWellFoundedOn(Less, Nat)
  BY NatLessThanWellFounded DEF OpToRel
<1>2. PICK x \in T : \A y \in T : <<y, x>> \notin Less
  BY <1>1, WFMin
<1>3. ASSUME NEW y \in T, y < x
      PROVE  FALSE
  <2>1. <<y, x>> \in Less
    BY <1>3
  <2>. QED  BY <1>2, <2>1
<1>. QED  BY <1>3

(* So has every set of days that has a first possible one. *)
LEMMA FirstDay ==
  ASSUME NEW from \in Int, NEW S \in SUBSET Int, NEW d \in S,
         \A e \in S : from =< e
  PROVE  \E x \in S : \A y \in S : x =< y
<1>. DEFINE T == {n \in Nat : from + n \in S}
<1>1. d - from \in T
  OBVIOUS
<1>2. PICK x \in T : \A y \in T : x =< y
  BY <1>1, LeastNumber
<1>3. ASSUME NEW y \in S
      PROVE  from + x =< y
  <2>1. y - from \in T
    OBVIOUS
  <2>. QED  BY <1>2, <2>1
<1>. QED  BY <1>2, <1>3

(* Any seven days in a row include one that is no weekly off. *)
LEMMA WeekHasWorkedDay ==
  ASSUME ValidCalendar, NEW day \in Int
  PROVE  \E d \in day .. day + 6 : Weekday(d) \notin WeeklyOffs
<1>1. PICK w \in 0 .. 6 : w \notin WeeklyOffs
  BY DEF ValidCalendar
<1>2. /\ (w - day) % 7 \in 0 .. 6
      /\ (day + ((w - day) % 7)) % 7 = w
  BY SMTT(30)
<1>3. PICK n \in 0 .. 6 : (day + n) % 7 = w
  BY <1>2
<1>4. day + n \in day .. day + 6 /\ Weekday(day + n) = w
  BY <1>3 DEF Weekday
<1>. QED  BY <1>1, <1>4

(* Before the window and after it there are no holidays, so the walk finds *)
(* a working day at most six days before the window or six after it.       *)
LEMMA WorkingDayWithinReach ==
  ASSUME ValidCalendar, NEW day \in Int
  PROVE  \E d \in day .. day + MaxCalendarSteps - 1 : IsWorkingDay(d)
<1>. USE DEF ValidCalendar
<1>1. CASE day > WindowEnd \/ day + 6 < WindowStart
  <2>1. PICK d \in day .. day + 6 : Weekday(d) \notin WeeklyOffs
    BY WeekHasWorkedDay
  <2>2. d \notin WindowStart .. WindowEnd
    BY <1>1
  <2>. QED  BY <2>1, <2>2 DEF IsWorkingDay, MaxCalendarSteps
<1>2. CASE ~(day > WindowEnd \/ day + 6 < WindowStart)
  <2>1. PICK d \in WindowEnd + 1 .. WindowEnd + 1 + 6 : Weekday(d) \notin WeeklyOffs
    BY WeekHasWorkedDay
  <2>2. d \notin WindowStart .. WindowEnd
    OBVIOUS
  <2>3. d \in day .. day + MaxCalendarSteps - 1
    BY <1>2 DEF MaxCalendarSteps
  <2>. QED  BY <2>1, <2>2, <2>3 DEF IsWorkingDay
<1>. QED  BY <1>1, <1>2

-----------------------------------------------------------------------------
(* next_working_day returns: of every calendar load_calendar accepts, and  *)
(* of every date, the walk of at most 400 steps reaches the first working  *)
(* day on or after it, and the ValueError behind the loop is never raised. *)
THEOREM CalendarWalkTerminates ==
  ASSUME ValidCalendar, NEW day \in Int
  PROVE  /\ NextWorkingDay(day) \in day .. day + MaxCalendarSteps - 1
         /\ IsWorkingDay(NextWorkingDay(day))
         /\ \A e \in day .. NextWorkingDay(day) - 1 : ~IsWorkingDay(e)
<1>. DEFINE S == {d \in day .. day + MaxCalendarSteps - 1 : IsWorkingDay(d)}
<1>1. PICK d \in S : TRUE
  BY WorkingDayWithinReach
<1>2. S \in SUBSET Int /\ \A e \in S : day =< e
  OBVIOUS
<1>3. PICK x \in S : \A y \in S : x =< y
  BY <1>1, <1>2, FirstDay
<1>4. ASSUME NEW e \in day .. x - 1
      PROVE  ~IsWorkingDay(e)
  <2>1. e \in day .. day + MaxCalendarSteps - 1 /\ ~(x =< e)
    BY DEF MaxCalendarSteps
  <2>. QED  BY <1>3, <2>1
<1>5. \E c \in day .. day + MaxCalendarSteps - 1 :
         IsWorkingDay(c) /\ \A e \in day .. c - 1 : ~IsWorkingDay(e)
  BY <1>3, <1>4
<1>. QED  BY <1>5 DEF NextWorkingDay

(* settlement_line_due_date: T+0 is the first working day on or after the  *)
(* capture, and counting no working days goes no further than that.        *)
THEOREM LineDueIsNextWorkingDay ==
  ASSUME ValidCalendar, NEW captured \in Int
  PROVE  SettlementLineDue(captured) = NextWorkingDay(captured)
<1>. DEFINE first == NextWorkingDay(captured)
            Found(d) == /\ IsWorkingDay(d)
                        /\ Cardinality(WorkingDays(first + 1, d)) = 0
<1>1. first \in Int /\ IsWorkingDay(first)
  BY CalendarWalkTerminates
<1>2. Found(first)
  <2>1. WorkingDays(first + 1, first) = {}
    BY <1>1 DEF WorkingDays
  <2>. QED  BY <1>1, <2>1, FS_EmptySet
<1>3. ASSUME NEW d \in first .. first + MaxCalendarSteps, Found(d)
      PROVE  d = first
  <2>1. IsFiniteSet(WorkingDays(first + 1, d))
    <3>1. IsFiniteSet(first + 1 .. d)
      BY <1>1, FS_Interval
    <3>. QED  BY <3>1, FS_Subset DEF WorkingDays
  <2>2. WorkingDays(first + 1, d) = {}
    BY <1>3, <2>1, FS_EmptySet
  <2>3. d \notin first + 1 .. d
    BY <1>3, <2>2 DEF WorkingDays
  <2>. QED  BY <1>1, <2>3
<1>4. first \in first .. first + MaxCalendarSteps
  BY <1>1 DEF MaxCalendarSteps
<1>5. SettlementLineDue(captured)
        = CHOOSE d \in first .. first + MaxCalendarSteps : Found(d)
  BY DEF SettlementLineDue, AddWorkingDays
<1>6. (CHOOSE d \in first .. first + MaxCalendarSteps : Found(d)) = first
  <2>. HIDE DEF first, Found
  <2>. QED  BY <1>2, <1>3, <1>4
<1>. QED  BY <1>5, <1>6

(* is_timing_explained, at the tolerance the engine uses: a date explains  *)
(* itself by timing exactly if no working day lies after the earlier of it *)
(* and the due date, up to the later.                                      *)
THEOREM OnTimeMeansNoWorkingDay ==
  ASSUME NEW expected \in Int, NEW actual \in Int
  PROVE  IsTimingExplained(expected, actual, 0) <=>
           IF expected =< actual THEN WorkingDays(expected + 1, actual) = {}
                                 ELSE WorkingDays(actual, expected - 1) = {}
<1>1. ASSUME NEW from \in Int, NEW to \in Int
      PROVE  /\ Cardinality(WorkingDays(from, to)) \in Nat
             /\ Cardinality(WorkingDays(from, to)) = 0 <=> WorkingDays(from, to) = {}
  <2>1. IsFiniteSet(WorkingDays(from, to))
    <3>1. IsFiniteSet(from .. to)
      BY FS_Interval
    <3>. QED  BY <3>1, FS_Subset DEF WorkingDays
  <2>. QED  BY <2>1, FS_EmptySet, FS_CardinalityType
<1>2. ASSUME NEW n \in Nat
      PROVE  (Magnitude(n) =< 0 <=> n = 0) /\ (Magnitude(-n) =< 0 <=> n = 0)
  BY DEF Magnitude
<1>3. CASE expected =< actual
  <2>1. IsTimingExplained(expected, actual, 0)
          <=> Magnitude(Cardinality(WorkingDays(expected + 1, actual))) =< 0
    BY <1>3 DEF IsTimingExplained, WorkingDaysBetween
  <2>2. /\ Cardinality(WorkingDays(expected + 1, actual)) \in Nat
        /\ Cardinality(WorkingDays(expected + 1, actual)) = 0
              <=> WorkingDays(expected + 1, actual) = {}
    <3>1. expected + 1 \in Int
      OBVIOUS
    <3>. QED  BY <1>1, <3>1, Zenon
  <2>. QED  BY <1>2, <1>3, <2>1, <2>2
<1>4. CASE ~(expected =< actual)
  <2>1. IsTimingExplained(expected, actual, 0)
          <=> Magnitude(-Cardinality(WorkingDays(actual, expected - 1))) =< 0
    BY <1>4 DEF IsTimingExplained, WorkingDaysBetween
  <2>2. /\ Cardinality(WorkingDays(actual, expected - 1)) \in Nat
        /\ Cardinality(WorkingDays(actual, expected - 1)) = 0
              <=> WorkingDays(actual, expected - 1) = {}
    <3>1. expected - 1 \in Int
      OBVIOUS
    <3>. QED  BY <1>1, <3>1, Zenon
  <2>. QED  BY <1>2, <1>4, <2>1, <2>2
<1>. QED  BY <1>3, <1>4

-----------------------------------------------------------------------------
(* One working day more, counted from a first day: it comes within a week, *)
(* unless a window full of holidays lies in between, which happens once.   *)
WithinReach(first, day, count) ==
    \/ day =< first + 7 * count
    \/ day =< first + 371 + 7 * count /\ WindowEnd + 7 =< first + 371 + 7 * count

CountedTo(first, day, count) ==
    /\ day \in Int /\ first =< day /\ IsWorkingDay(day)
    /\ Cardinality(WorkingDays(first + 1, day)) = count
    /\ WithinReach(first, day, count)

LEMMA OneWorkingDayMore ==
  ASSUME ValidCalendar, NEW first \in Int, NEW day, NEW count \in Nat,
         CountedTo(first, day, count)
  PROVE  \E next : CountedTo(first, next, count + 1)
<1>. DEFINE next == NextWorkingDay(day + 1)
<1>0. /\ day \in Int /\ day + 1 \in Int /\ first =< day /\ WithinReach(first, day, count)
      /\ WindowEnd \in Int
  BY DEF CountedTo, ValidCalendar
<1>1. /\ next \in Int /\ day + 1 =< next /\ IsWorkingDay(next)
      /\ \A e \in day + 1 .. next - 1 : ~IsWorkingDay(e)
  BY <1>0, CalendarWalkTerminates
<1>. HIDE DEF next
<1>2. WorkingDays(first + 1, next) = WorkingDays(first + 1, day) \union {next}
  BY <1>0, <1>1 DEF WorkingDays
<1>3. Cardinality(WorkingDays(first + 1, next)) = count + 1
  <2>1. IsFiniteSet(WorkingDays(first + 1, day))
    <3>1. IsFiniteSet(first + 1 .. day)
      BY <1>0, FS_Interval
    <3>. QED  BY <3>1, FS_Subset DEF WorkingDays
  <2>2. next \notin WorkingDays(first + 1, day)
    BY <1>0, <1>1 DEF WorkingDays
  <2>. QED  BY <1>2, <2>1, <2>2, FS_AddElement DEF CountedTo
<1>4. CASE day + 1 > WindowEnd \/ day + 7 < WindowStart
  <2>1. PICK d \in day + 1 .. day + 1 + 6 : Weekday(d) \notin WeeklyOffs
    BY <1>0, WeekHasWorkedDay
  <2>2. IsWorkingDay(d)
    BY <1>0, <1>4, <2>1 DEF IsWorkingDay, ValidCalendar
  <2>3. next =< day + 7
    BY <1>0, <1>1, <2>2
  <2>4. WithinReach(first, next, count + 1)
    BY <1>0, <1>1, <2>3 DEF WithinReach
  <2>. QED  BY <1>0, <1>1, <1>3, <2>4 DEF CountedTo
<1>5. CASE ~(day + 1 > WindowEnd \/ day + 7 < WindowStart)
  <2>0. /\ WindowEnd \in Int /\ WindowEnd + 1 \in Int
        /\ WindowStart \in Int /\ WindowEnd - WindowStart < 365
    BY DEF ValidCalendar
  <2>1. PICK d \in WindowEnd + 1 .. WindowEnd + 1 + 6 : Weekday(d) \notin WeeklyOffs
    BY <2>0, WeekHasWorkedDay
  <2>2. IsWorkingDay(d)
    BY <2>0, <2>1 DEF IsWorkingDay, ValidCalendar
  <2>3. next =< WindowEnd + 7
    BY <1>0, <1>1, <1>5, <2>0, <2>2
  <2>4. WithinReach(first, next, count + 1)
    BY <1>0, <1>1, <1>5, <2>0, <2>3 DEF WithinReach
  <2>. QED  BY <1>0, <1>1, <1>3, <2>4 DEF CountedTo
<1>. QED  BY <1>4, <1>5

(* add_working_days returns: for the four working days a settlement takes  *)
(* at most, from any date and on any calendar, within its 400 steps.       *)
THEOREM SettlementWalkTerminates ==
  ASSUME ValidCalendar, NEW start \in Int, NEW count \in 0 .. 4
  PROVE  /\ AddWorkingDays(start, count) \in Int
         /\ start =< AddWorkingDays(start, count)
         /\ IsWorkingDay(AddWorkingDays(start, count))
         /\ Cardinality(WorkingDays(NextWorkingDay(start) + 1, AddWorkingDays(start, count)))
               = count
<1>. DEFINE first == NextWorkingDay(start)
<1>1. first \in Int /\ start =< first /\ IsWorkingDay(first)
  BY CalendarWalkTerminates
<1>. HIDE DEF first
<1>2. CountedTo(first, first, 0)
  <2>1. WorkingDays(first + 1, first) = {}
    BY <1>1 DEF WorkingDays
  <2>. QED  BY <1>1, <2>1, FS_EmptySet DEF CountedTo, WithinReach
<1>3. PICK d1 : CountedTo(first, d1, 0 + 1)
  BY <1>1, <1>2, OneWorkingDayMore
<1>4. PICK d2 : CountedTo(first, d2, 1 + 1)
  BY <1>1, <1>3, OneWorkingDayMore
<1>5. PICK d3 : CountedTo(first, d3, 2 + 1)
  BY <1>1, <1>4, OneWorkingDayMore
<1>6. PICK d4 : CountedTo(first, d4, 3 + 1)
  BY <1>1, <1>5, OneWorkingDayMore
<1>7. \E d : CountedTo(first, d, count)
  BY <1>2, <1>3, <1>4, <1>5, <1>6
<1>8. ASSUME NEW d, CountedTo(first, d, count)
      PROVE  d \in first .. first + MaxCalendarSteps
  BY <1>1, <1>8 DEF CountedTo, WithinReach, MaxCalendarSteps
<1>9. \E d \in first .. first + MaxCalendarSteps :
         IsWorkingDay(d) /\ Cardinality(WorkingDays(first + 1, d)) = count
  BY <1>7, <1>8 DEF CountedTo
<1>10. AddWorkingDays(start, count)
         = CHOOSE d \in first .. first + MaxCalendarSteps :
              IsWorkingDay(d) /\ Cardinality(WorkingDays(first + 1, d)) = count
  BY DEF AddWorkingDays, first
<1>11. /\ AddWorkingDays(start, count) \in first .. first + MaxCalendarSteps
       /\ IsWorkingDay(AddWorkingDays(start, count))
       /\ Cardinality(WorkingDays(first + 1, AddWorkingDays(start, count))) = count
  BY <1>9, <1>10
<1>. QED  BY <1>1, <1>11 DEF first, MaxCalendarSteps

-----------------------------------------------------------------------------
(* A finite set of ids has a last one. *)
LEMMA LastIsGreatest ==
  ASSUME NEW ids \in SUBSET Nat, IsFiniteSet(ids), ids # {}
  PROVE  Last(ids) \in ids /\ \A i \in ids : i =< Last(ids)
<1>. DEFINE HasLast(S) == \E x \in S : \A y \in S : y =< x
            Without == {n \in Nat : \E S \in SUBSET Nat :
                          IsFiniteSet(S) /\ S # {} /\ Cardinality(S) = n /\ ~HasLast(S)}
<1>1. ASSUME Without # {}
      PROVE  FALSE
  <2>1. PICK n \in Without : \A m \in Without : n =< m
    BY <1>1, LeastNumber
  <2>2. PICK S \in SUBSET Nat :
           IsFiniteSet(S) /\ S # {} /\ Cardinality(S) = n /\ ~HasLast(S)
    BY <2>1
  <2>3. PICK x \in S : TRUE
    BY <2>2
  <2>4. IsFiniteSet(S \ {x}) /\ Cardinality(S \ {x}) = n - 1 /\ n - 1 \in Nat
    <3>1. IsFiniteSet(S \ {x}) /\ Cardinality(S \ {x}) = Cardinality(S) - 1
      BY <2>2, <2>3, FS_RemoveElement
    <3>2. Cardinality(S \ {x}) \in Nat
      BY <3>1, FS_CardinalityType
    <3>. QED  BY <2>2, <3>1, <3>2
  <2>5. n - 1 \notin Without
    BY <2>1, <2>4
  <2>6. S \ {x} = {} \/ HasLast(S \ {x})
    BY <2>4, <2>5
  <2>7. CASE S \ {x} = {}
    <3>1. \A y \in S : y =< x
      BY <2>2, <2>3, <2>7
    <3>. QED  BY <2>2, <2>3, <3>1
  <2>8. CASE HasLast(S \ {x})
    <3>1. PICK z \in S \ {x} : \A y \in S \ {x} : y =< z
      BY <2>8
    <3>2. CASE x =< z
      <4>1. \A y \in S : y =< z
        BY <3>1, <3>2
      <4>. QED  BY <2>2, <3>1, <4>1
    <3>3. CASE ~(x =< z)
      <4>1. \A y \in S : y =< x
        BY <2>2, <2>3, <3>1, <3>3
      <4>. QED  BY <2>2, <2>3, <4>1
    <3>. QED  BY <3>2, <3>3
  <2>. QED  BY <2>6, <2>7, <2>8
<1>2. Cardinality(ids) \in Nat
  BY FS_CardinalityType
<1>3. HasLast(ids)
  <2>1. Cardinality(ids) \notin Without
    BY <1>1
  <2>. QED  BY <1>2, <2>1
<1>. QED  BY <1>3 DEF Last

(* Of dates, a last possible one is enough. *)
LEMMA LastDateIsLatest ==
  ASSUME NEW dates \in SUBSET Int, dates # {}, NEW end \in Int, \A d \in dates : d =< end
  PROVE  Last(dates) \in dates /\ \A d \in dates : d =< Last(dates)
<1>. DEFINE T == {n \in Nat : end - n \in dates}
<1>1. PICK d \in dates : TRUE
  OBVIOUS
<1>2. end - d \in T
  OBVIOUS
<1>3. PICK x \in T : \A y \in T : x =< y
  BY <1>2, LeastNumber
<1>4. ASSUME NEW y \in dates
      PROVE  y =< end - x
  <2>1. end - y \in T
    OBVIOUS
  <2>2. x =< end - y /\ x \in Nat
    BY <1>3, <2>1
  <2>. QED  BY <2>2
<1>5. \E l \in dates : \A y \in dates : y =< l
  BY <1>3, <1>4
<1>. QED  BY <1>5 DEF Last

-----------------------------------------------------------------------------
(* The fold a sum is, as the community module defines it. *)
Pick(s) == CHOOSE x \in s : TRUE

Folded(sum, value, s) ==
    IF s = {} THEN 0 ELSE value[Pick(s)] + sum[s \ {Pick(s)}]

IsFold(sum, value, ids) ==
    sum \in [SUBSET ids -> Int] /\ \A s \in SUBSET ids : sum[s] = Folded(sum, value, s)

LEMMA SubsetsShrink ==
  ASSUME NEW ids, IsFiniteSet(ids), NEW s \in SUBSET ids
  PROVE  /\ IsFiniteSet(s) /\ Cardinality(s) \in Nat
         /\ Cardinality(s) = 0 <=> s = {}
         /\ s # {} => /\ Pick(s) \in ids /\ s \ {Pick(s)} \in SUBSET ids
                      /\ Cardinality(s \ {Pick(s)}) = Cardinality(s) - 1
<1>1. IsFiniteSet(s)
  BY FS_Subset
<1>2. Cardinality(s) \in Nat /\ (Cardinality(s) = 0 <=> s = {})
  BY <1>1, FS_CardinalityType, FS_EmptySet
<1>3. ASSUME s # {}
      PROVE  /\ Pick(s) \in ids /\ s \ {Pick(s)} \in SUBSET ids
             /\ Cardinality(s \ {Pick(s)}) = Cardinality(s) - 1
  <2>1. Pick(s) \in s
    BY <1>3 DEF Pick
  <2>. QED  BY <1>1, <2>1, FS_RemoveElement
<1>. QED  BY <1>1, <1>2, <1>3

(* There is such a fold over every finite set. *)
LEMMA FoldExists ==
  ASSUME NEW ids, IsFiniteSet(ids), NEW value \in [ids -> Int]
  PROVE  \E sum : IsFold(sum, value, ids)
<1>. DEFINE UpTo(n) == \E sum \in [SUBSET ids -> Int] : \A s \in SUBSET ids :
                          Cardinality(s) =< n => sum[s] = Folded(sum, value, s)
            Failing == {n \in Nat : ~UpTo(n)}
<1>1. UpTo(0)
  <2>. DEFINE zero == [s \in SUBSET ids |-> 0]
  <2>1. zero \in [SUBSET ids -> Int]
    OBVIOUS
  <2>2. ASSUME NEW s \in SUBSET ids, Cardinality(s) =< 0
        PROVE  zero[s] = Folded(zero, value, s)
    <3>1. Cardinality(s) \in Nat /\ (Cardinality(s) = 0 <=> s = {})
      BY SubsetsShrink
    <3>2. s = {}
      BY <2>2, <3>1
    <3>. QED  BY <3>2 DEF Folded
  <2>. QED  BY <2>1, <2>2
<1>2. ASSUME NEW n \in Nat, UpTo(n)
      PROVE  UpTo(n + 1)
  <2>1. PICK sum \in [SUBSET ids -> Int] : \A s \in SUBSET ids :
           Cardinality(s) =< n => sum[s] = Folded(sum, value, s)
    BY <1>2
  <2>. DEFINE more == [s \in SUBSET ids |->
                         IF Cardinality(s) = n + 1 THEN Folded(sum, value, s) ELSE sum[s]]
  <2>2. ASSUME NEW s \in SUBSET ids
        PROVE  Folded(sum, value, s) \in Int
    <3>1. CASE s = {}
      BY <3>1 DEF Folded
    <3>2. CASE s # {}
      <4>1. Pick(s) \in ids /\ s \ {Pick(s)} \in SUBSET ids
        BY <3>2, SubsetsShrink
      <4>2. value[Pick(s)] \in Int /\ sum[s \ {Pick(s)}] \in Int
        BY <4>1
      <4>. QED  BY <3>2, <4>2 DEF Folded
    <3>. QED  BY <3>1, <3>2
  <2>3. more \in [SUBSET ids -> Int]
    BY <2>2
  <2>4. ASSUME NEW s \in SUBSET ids, Cardinality(s) =< n + 1
        PROVE  more[s] = Folded(more, value, s)
    <3>0. Cardinality(s) \in Nat
      BY SubsetsShrink
    <3>1. more[s] = Folded(sum, value, s)
      BY <2>1, <2>4, <3>0
    <3>2. CASE s = {}
      BY <3>1, <3>2 DEF Folded
    <3>3. CASE s # {}
      <4>1. s \ {Pick(s)} \in SUBSET ids /\ Cardinality(s \ {Pick(s)}) # n + 1
        BY <2>4, <3>3, SubsetsShrink
      <4>2. more[s \ {Pick(s)}] = sum[s \ {Pick(s)}]
        BY <4>1
      <4>. QED  BY <3>1, <3>3, <4>2 DEF Folded
    <3>. QED  BY <3>2, <3>3
  <2>. HIDE DEF more
  <2>. QED  BY <2>3, <2>4
<1>. HIDE DEF UpTo
<1>3. ASSUME Failing # {}
      PROVE  FALSE
  <2>1. PICK n \in Failing : \A m \in Failing : n =< m
    BY <1>3, LeastNumber
  <2>2. n # 0 /\ n - 1 \in Nat
    BY <1>1, <2>1
  <2>3. UpTo(n - 1)
    BY <2>1, <2>2
  <2>4. UpTo((n - 1) + 1)
    BY <1>2, <2>2, <2>3
  <2>. QED  BY <2>1, <2>2, <2>4
<1>4. Cardinality(ids) \in Nat
  BY FS_CardinalityType
<1>5. UpTo(Cardinality(ids))
  BY <1>3, <1>4
<1>6. ASSUME NEW s \in SUBSET ids
      PROVE  Cardinality(s) =< Cardinality(ids)
  BY FS_Subset
<1>7. PICK sum \in [SUBSET ids -> Int] : \A s \in SUBSET ids :
         Cardinality(s) =< Cardinality(ids) => sum[s] = Folded(sum, value, s)
  BY <1>5 DEF UpTo
<1>8. IsFold(sum, value, ids)
  BY <1>6, <1>7 DEF IsFold
<1>. QED  BY <1>8

(* Every such fold of finitely many amounts is an amount. *)
LEMMA FoldIsAmount ==
  ASSUME NEW ids, IsFiniteSet(ids), NEW value \in [ids -> Int], NEW fold,
         \A s \in SUBSET ids : fold[s] = Folded(fold, value, s)
  PROVE  fold[ids] \in Int
<1>. DEFINE Failing == {n \in Nat : \E s \in SUBSET ids :
                          Cardinality(s) = n /\ fold[s] \notin Int}
<1>1. ASSUME Failing # {}
      PROVE  FALSE
  <2>1. PICK n \in Failing : \A m \in Failing : n =< m
    BY <1>1, LeastNumber
  <2>2. PICK s \in SUBSET ids : Cardinality(s) = n /\ fold[s] \notin Int
    BY <2>1
  <2>3. fold[s] = Folded(fold, value, s)
    OBVIOUS
  <2>4. s # {}
    BY <2>2, <2>3 DEF Folded
  <2>5. /\ Pick(s) \in ids /\ s \ {Pick(s)} \in SUBSET ids
        /\ Cardinality(s \ {Pick(s)}) = n - 1 /\ n - 1 \in Nat
    <3>1. /\ Pick(s) \in ids /\ s \ {Pick(s)} \in SUBSET ids
          /\ Cardinality(s \ {Pick(s)}) = Cardinality(s) - 1
      BY <2>4, SubsetsShrink
    <3>2. Cardinality(s \ {Pick(s)}) \in Nat
      <4>. DEFINE rest == s \ {Pick(s)}
      <4>1. rest \in SUBSET ids
        BY <3>1
      <4>. HIDE DEF rest
      <4>2. Cardinality(rest) \in Nat
        BY <4>1, SubsetsShrink
      <4>. QED  BY <4>2 DEF rest
    <3>. QED  BY <2>2, <3>1, <3>2
  <2>6. fold[s \ {Pick(s)}] \in Int
    BY <2>1, <2>5
  <2>7. value[Pick(s)] \in Int
    BY <2>5
  <2>8. fold[s] = value[Pick(s)] + fold[s \ {Pick(s)}]
    BY <2>3, <2>4 DEF Folded
  <2>. QED  BY <2>2, <2>6, <2>7, <2>8
<1>2. Cardinality(ids) \in Nat
  BY FS_CardinalityType
<1>. QED  BY <1>1, <1>2

(* Of values that are all zero but one it is that one, if it is there.     *)
LEMMA FoldOfOne ==
  ASSUME NEW ids, IsFiniteSet(ids), NEW value \in [ids -> Int], NEW fold,
         \A s \in SUBSET ids : fold[s] = Folded(fold, value, s),
         NEW x, \A y \in ids \ {x} : value[y] = 0
  PROVE  fold[ids] = IF x \in ids THEN value[x] ELSE 0
<1>. DEFINE Right(s) == fold[s] = IF x \in s THEN value[x] ELSE 0
            Failing == {n \in Nat : \E s \in SUBSET ids : Cardinality(s) = n /\ ~Right(s)}
<1>1. ASSUME Failing # {}
      PROVE  FALSE
  <2>1. PICK n \in Failing : \A m \in Failing : n =< m
    BY <1>1, LeastNumber
  <2>2. PICK s \in SUBSET ids : Cardinality(s) = n /\ ~Right(s)
    BY <2>1
  <2>3. fold[s] = Folded(fold, value, s)
    OBVIOUS
  <2>4. s # {}
    BY <2>2, <2>3 DEF Folded
  <2>. DEFINE first == Pick(s)
              rest == s \ {Pick(s)}
  <2>5. /\ first \in ids /\ rest \in SUBSET ids
        /\ Cardinality(rest) = n - 1 /\ first \in s
    <3>1. first \in s
      BY <2>4 DEF Pick
    <3>. QED  BY <2>2, <2>4, <3>1, SubsetsShrink
  <2>6. fold[s] = value[first] + fold[rest]
    BY <2>3, <2>4 DEF Folded
  <2>7. first \notin rest /\ \A y : y \in s <=> y = first \/ y \in rest
    BY <2>5
  <2>. HIDE DEF first, rest
  <2>8. Cardinality(rest) \in Nat
    BY <2>5, SubsetsShrink
  <2>9. Right(rest)
    BY <2>1, <2>5, <2>8
  <2>10. CASE first = x
    <3>1. fold[rest] = 0
      BY <2>7, <2>9, <2>10
    <3>2. value[first] \in Int
      BY <2>5
    <3>. QED  BY <2>2, <2>5, <2>6, <2>10, <3>1, <3>2
  <2>11. CASE first # x
    <3>1. value[first] = 0
      BY <2>5, <2>11
    <3>2. fold[rest] = IF x \in s THEN value[x] ELSE 0
      BY <2>7, <2>9, <2>11
    <3>3. x \in s => value[x] \in Int
      OBVIOUS
    <3>4. fold[rest] \in Int
      BY <3>2, <3>3
    <3>. QED  BY <2>2, <2>6, <3>1, <3>2, <3>4
  <2>. QED  BY <2>10, <2>11
<1>2. Cardinality(ids) \in Nat
  BY FS_CardinalityType
<1>. HIDE DEF Right
<1>3. Right(ids)
  BY <1>1, <1>2
<1>. QED  BY <1>3 DEF Right

Folding(fold, value, ids) == \A s \in SUBSET ids : fold[s] = Folded(fold, value, s)

(* And of two values their sum.                                            *)
LEMMA FoldOfTwo ==
  ASSUME NEW k, NEW l, NEW ids, ids = {k, l}, NEW value \in [ids -> Int], NEW fold,
         Folding(fold, value, ids)
  PROVE  fold[ids] = IF k = l THEN value[k] ELSE value[k] + value[l]
<1>1. fold[{}] = 0
  BY DEF Folded, Folding
<1>2. ASSUME NEW x \in {k, l}
      PROVE  fold[{x}] = value[x]
  <2>1. Pick({x}) = x /\ {x} \ {x} = {}
    BY DEF Pick
  <2>2. fold[{x}] = value[x] + fold[{}]
    BY <2>1 DEF Folded, Folding
  <2>3. value[x] \in Int
    OBVIOUS
  <2>. QED  BY <1>1, <2>2, <2>3
<1>3. CASE k = l
  BY <1>2, <1>3
<1>4. CASE k # l
  <2>1. Pick({k, l}) \in {k, l}
    BY DEF Pick
  <2>2. fold[{k, l}] = value[Pick({k, l})] + fold[{k, l} \ {Pick({k, l})}]
    BY DEF Folded, Folding
  <2>3. {k, l} \ {k} = {l} /\ {k, l} \ {l} = {k}
    BY <1>4
  <2>4. value[k] \in Int /\ value[l] \in Int
    OBVIOUS
  <2>5. CASE Pick({k, l}) = k
    <3>1. fold[{k, l}] = value[k] + fold[{l}]
      BY <2>2, <2>3, <2>5
    <3>. QED  BY <1>2, <1>4, <3>1
  <2>6. CASE Pick({k, l}) = l
    <3>1. fold[{k, l}] = value[l] + fold[{k}]
      BY <2>2, <2>3, <2>6
    <3>. QED  BY <1>2, <1>4, <2>4, <3>1
  <2>. QED  BY <2>1, <2>5, <2>6
<1>. QED  BY <1>3, <1>4

(* A sum over finitely many rows is such a fold.                           *)
LEMMA SumIsFold ==
  ASSUME NEW table, NEW field, NEW ids, IsFiniteSet(ids),
         \A i \in ids : table[i][field] \in Int
  PROVE  \E fold : /\ SumOf(table, ids, field) = fold[ids]
                   /\ Folding(fold, [i \in ids |-> table[i][field]], ids)
<1>. DEFINE Fold(iter) == iter = [s \in SUBSET ids |->
                IF s = {} THEN 0
                ELSE table[CHOOSE x \in s : TRUE][field] + iter[s \ {CHOOSE x \in s : TRUE}]]
            fold == CHOOSE iter : Fold(iter)
            value == [i \in ids |-> table[i][field]]
<1>1. value \in [ids -> Int]
  OBVIOUS
<1>2. ASSUME NEW s \in SUBSET ids, s # {}
      PROVE  value[Pick(s)] = table[CHOOSE x \in s : TRUE][field]
  BY <1>2, SubsetsShrink DEF Pick
<1>3. \E iter : Fold(iter)
  <2>1. PICK sum : IsFold(sum, value, ids)
    BY <1>1, FoldExists
  <2>. HIDE DEF value
  <2>2. Fold(sum)
    BY <1>2, <2>1 DEF IsFold, Folded, Pick
  <2>. QED  BY <2>2
<1>4. Fold(fold)
  BY <1>3
<1>5. ASSUME NEW s \in SUBSET ids
      PROVE  fold[s] = Folded(fold, value, s)
  <2>. HIDE DEF fold, value
  <2>. QED  BY <1>2, <1>4 DEF Folded, Pick
<1>6. SumOf(table, ids, field) = fold[ids]
  BY DEF SumOf, MapThenSumSet, MapThenFoldSet
<1>. HIDE DEF fold, Fold, value
<1>7. Folding(fold, value, ids)
  BY <1>5 DEF Folding
<1>8. \E f : SumOf(table, ids, field) = f[ids] /\ Folding(f, value, ids)
  BY <1>6, <1>7
<1>. QED  BY <1>8 DEF value

(* So it is an amount if each row's is; and of one row or two, theirs.     *)
LEMMA SumIsAmount ==
  ASSUME NEW table, NEW field, NEW ids, IsFiniteSet(ids),
         \A i \in ids : table[i][field] \in Int
  PROVE  SumOf(table, ids, field) \in Int
<1>. DEFINE value == [i \in ids |-> table[i][field]]
<1>1. value \in [ids -> Int]
  OBVIOUS
<1>2. PICK fold : /\ SumOf(table, ids, field) = fold[ids]
                  /\ Folding(fold, value, ids)
  BY SumIsFold
<1>. HIDE DEF value
<1>3. fold[ids] \in Int
  BY <1>1, <1>2, FoldIsAmount DEF Folding
<1>. QED  BY <1>2, <1>3

LEMMA SumOfTwo ==
  ASSUME NEW table, NEW field, NEW k, NEW l,
         table[k][field] \in Int, table[l][field] \in Int
  PROVE  SumOf(table, {k, l}, field)
           = IF k = l THEN table[k][field] ELSE table[k][field] + table[l][field]
<1>. DEFINE ids == {k, l}
            value == [i \in ids |-> table[i][field]]
<1>1. value \in [ids -> Int] /\ value[k] = table[k][field] /\ value[l] = table[l][field]
  OBVIOUS
<1>2. IsFiniteSet(ids)
  <2>1. IsFiniteSet({k}) /\ IsFiniteSet({l}) /\ {k, l} = {k} \union {l}
    BY FS_Singleton
  <2>. QED  BY <2>1, FS_Union
<1>3. \A i \in ids : table[i][field] \in Int
  OBVIOUS
<1>4. ids = {k, l}
  OBVIOUS
<1>. HIDE DEF ids
<1>5. PICK fold : SumOf(table, ids, field) = fold[ids] /\ Folding(fold, value, ids)
  BY <1>2, <1>3, SumIsFold
<1>. HIDE DEF value
<1>6. fold[ids] = IF k = l THEN value[k] ELSE value[k] + value[l]
  BY <1>1, <1>4, <1>5, FoldOfTwo
<1>. QED  BY <1>1, <1>4, <1>5, <1>6

(* What a finite set of components leaves of a variance.                   *)
LEMMA RemainderIsFold ==
  ASSUME NEW total, NEW components, IsFiniteSet(components),
         \A c \in components : c.amount \in Int
  PROVE  \E fold : /\ Unexplained(total, components) = total - fold[components]
                   /\ Folding(fold, [c \in components |-> c.amount], components)
<1>. DEFINE Fold(iter) == iter = [s \in SUBSET components |->
                IF s = {} THEN 0
                ELSE (CHOOSE x \in s : TRUE).amount + iter[s \ {CHOOSE x \in s : TRUE}]]
            fold == CHOOSE iter : Fold(iter)
            value == [c \in components |-> c.amount]
<1>1. value \in [components -> Int]
  OBVIOUS
<1>2. ASSUME NEW s \in SUBSET components, s # {}
      PROVE  value[Pick(s)] = (CHOOSE x \in s : TRUE).amount
  BY <1>2, SubsetsShrink DEF Pick
<1>3. \E iter : Fold(iter)
  <2>1. PICK sum : IsFold(sum, value, components)
    BY <1>1, FoldExists
  <2>. HIDE DEF value
  <2>2. Fold(sum)
    BY <1>2, <2>1 DEF IsFold, Folded, Pick
  <2>. QED  BY <2>2
<1>4. Fold(fold)
  BY <1>3
<1>5. ASSUME NEW s \in SUBSET components
      PROVE  fold[s] = Folded(fold, value, s)
  <2>. HIDE DEF fold, value
  <2>. QED  BY <1>2, <1>4 DEF Folded, Pick
<1>6. Unexplained(total, components) = total - fold[components]
  BY DEF Unexplained, MapThenSumSet, MapThenFoldSet
<1>. HIDE DEF fold, Fold, value
<1>7. Folding(fold, value, components)
  BY <1>5 DEF Folding
<1>8. \E f : /\ Unexplained(total, components) = total - f[components]
             /\ Folding(f, value, components)
  BY <1>6, <1>7
<1>. QED  BY <1>8 DEF value

LEMMA RemainderIsAmount ==
  ASSUME NEW total \in Int, NEW components, IsFiniteSet(components),
         \A c \in components : c.amount \in Int
  PROVE  Unexplained(total, components) \in Int
<1>. DEFINE value == [c \in components |-> c.amount]
<1>1. value \in [components -> Int]
  OBVIOUS
<1>2. PICK fold : /\ Unexplained(total, components) = total - fold[components]
                  /\ Folding(fold, value, components)
  BY RemainderIsFold
<1>. HIDE DEF value
<1>3. fold[components] \in Int
  BY <1>1, <1>2, FoldIsAmount DEF Folding
<1>. QED  BY <1>2, <1>3

(* One component of its amount explains all of it, with others of none.    *)
LEMMA OneExplainsAll ==
  ASSUME NEW total \in Int, NEW components, IsFiniteSet(components), NEW x,
         \A c \in components : c.amount \in Int,
         \A c \in components \ {x} : c.amount = 0,
         IF x \in components THEN x.amount = total ELSE total = 0
  PROVE  Unexplained(total, components) = 0
<1>. DEFINE value == [c \in components |-> c.amount]
<1>1. value \in [components -> Int] /\ \A c \in components : value[c] = c.amount
  OBVIOUS
<1>2. PICK fold : /\ Unexplained(total, components) = total - fold[components]
                  /\ Folding(fold, value, components)
  BY RemainderIsFold
<1>. HIDE DEF value
<1>3. \A y \in components \ {x} : value[y] = 0
  BY <1>1
<1>4. fold[components] = IF x \in components THEN value[x] ELSE 0
  BY <1>1, <1>2, <1>3, FoldOfOne DEF Folding
<1>5. fold[components] = total
  BY <1>1, <1>4
<1>. QED  BY <1>2, <1>5

(* Without components all of a variance is unexplained. *)
LEMMA NothingToExplain ==
  ASSUME NEW total \in Int
  PROVE  Unexplained(total, {}) = total
<1>. DEFINE Fold(iter) == iter = [s \in SUBSET {} |->
                IF s = {} THEN 0
                ELSE (CHOOSE x \in s : TRUE).amount + iter[s \ {CHOOSE x \in s : TRUE}]]
<1>1. Fold([s \in SUBSET {} |-> 0])
  OBVIOUS
<1>2. (CHOOSE iter : Fold(iter))[{}] = 0
  <2>1. Fold(CHOOSE iter : Fold(iter))
    BY <1>1
  <2>. QED  BY <2>1
<1>. QED  BY <1>2 DEF Unexplained, MapThenSumSet, MapThenFoldSet

-----------------------------------------------------------------------------
(* A ratio rounded is within a half of it. *)
LEMMA RoundedIsNear ==
  ASSUME NEW num \in Int, NEW den \in Nat \ {0}
  PROVE  /\ RoundHalfEven(num, den) \in Int
         /\ 2 * (den * RoundHalfEven(num, den)) =< 2 * num + den
         /\ 2 * num - den =< 2 * (den * RoundHalfEven(num, den))
<1>. DEFINE down == num \div den
            rest == num % den
<1>1. /\ down \in Int /\ rest \in Int /\ num = den * down + rest /\ 0 =< rest /\ rest < den
  OBVIOUS
<1>2. RoundHalfEven(num, den) =
        IF 2 * rest < den \/ (2 * rest = den /\ down % 2 = 0) THEN down ELSE down + 1
  BY DEF RoundHalfEven
<1>. HIDE DEF down, rest
<1>3. den * (down + 1) = den * down + den /\ den * down \in Int
  BY <1>1
<1>. QED  BY <1>1, <1>2, <1>3

(* What is at most a whole number of times the divisor rounds to no more. *)
LEMMA RoundedIsAtMost ==
  ASSUME NEW num \in Int, NEW den \in Nat \ {0}, NEW bound \in Int, num =< den * bound
  PROVE  RoundHalfEven(num, den) =< bound
<1>. DEFINE r == RoundHalfEven(num, den)
<1>1. r \in Int /\ 2 * (den * r) =< 2 * num + den
  BY RoundedIsNear
<1>. HIDE DEF r
<1>2. ASSUME r >= bound + 1
      PROVE  FALSE
  <2>. DEFINE a == den * r
              b == den * bound
  <2>1. a >= den * (bound + 1)
    BY <1>1, <1>2
  <2>2. den * (bound + 1) = b + den /\ a \in Int /\ b \in Int
    BY <1>1
  <2>3. num =< b /\ 2 * a =< 2 * num + den
    BY <1>1
  <2>. HIDE DEF a, b
  <2>4. a >= b + den
    BY <2>1, <2>2
  <2>. QED  BY <2>2, <2>3, <2>4
<1>. QED  BY <1>1, <1>2 DEF r

(* The characters of a token, and what of them agrees with a UTR. *)
LEMMA TokenMeasures ==
  ASSUME NEW token \in Tokens, NEW utr \in Utrs
  PROVE  /\ TokenLength(token) \in 0 .. UtrLength
         /\ Shared(token, utr) \in 0 .. TokenLength(token)
         /\ TokenLength(token) - EditDistance(token, utr) \in 0 .. TokenLength(token)
         /\ IsCandidate(token) => TokenLength(token) \in Nat \ {0}
<1>. USE StemAssumption DEF TokenLength, Shared, EditDistance, IsCandidate, UtrLength, UtrCandidateMinLen
<1>1. CASE token = NoToken
  BY <1>1 DEF NoToken
<1>2. CASE token \in PrefixTokens
  <2>1. /\ token.kind = "PREFIX" /\ token.of \in Utrs /\ token.kept \in 1 .. 16
        /\ Stem[token.of][utr] \in 0 .. 16 /\ token # NoToken
    BY <1>2 DEF PrefixTokens, NoToken
  <2>2. TokenLength(token) = token.kept /\ Shared(token, utr) \in 0 .. token.kept
    BY <2>1
  <2>3. EditDistance(token, utr) = token.kept - Shared(token, utr)
    BY <2>1, <2>2
  <2>. HIDE DEF TokenLength, Shared, EditDistance
  <2>. QED  BY <2>1, <2>2, <2>3
<1>3. CASE token \in GarbledTokens
  <2>1. /\ token.kind = "GARBLED" /\ token.of \in Utrs /\ token.kept \in 0 .. 14
        /\ Stem[token.of][utr] \in 0 .. 16 /\ token # NoToken
    BY <1>3 DEF GarbledTokens, NoToken
  <2>2. TokenLength(token) = 16 /\ Shared(token, utr) \in 0 .. 14
    BY <2>1
  <2>3. EditDistance(token, utr) \in {2, 16 - Shared(token, utr)}
    BY <2>1, <2>2 DEF EditDistance
  <2>. HIDE DEF TokenLength, Shared, EditDistance
  <2>. QED  BY <2>2, <2>3
<1>. QED  BY <1>1, <1>2, <1>3 DEF Tokens

LEMMA WeightsTyped ==
  /\ Fuzzy.weight_prefix \in Int /\ Fuzzy.weight_edit \in Int /\ Fuzzy.weight_amount \in Int
  /\ Fuzzy.weight_amount_no_utr \in Int /\ Fuzzy.weight_date_no_utr \in Int
  /\ Fuzzy.accept_score \in Int /\ Fuzzy.accept_score_no_utr \in Int
  /\ Fuzzy.min_separation \in Int /\ Fuzzy.date_window_days \in Nat \ {0}
  /\ Fuzzy.fragment_min_chars \in Int
BY ConfigAssumption DEF ValidConfig, ValidFuzzy, FuzzyFields

(* A score along path A is what the UTR gives and what the amount gives. *)
UtrPart(token, utr) ==
    RoundHalfEven(Fuzzy.weight_prefix * Shared(token, utr)
                    + Fuzzy.weight_edit * (TokenLength(token) - EditDistance(token, utr)),
                  TokenLength(token))

LEMMA PathAParts ==
  ASSUME NEW credit, NEW batch, credit.token \in Tokens, batch.utr \in Utrs,
         IsCandidate(credit.token)
  PROVE  /\ UtrPart(credit.token, batch.utr) \in Int
         /\ ScorePathA(credit, batch) = UtrPart(credit.token, batch.utr)
              + (IF AmountAgrees(credit, batch) THEN Fuzzy.weight_amount ELSE 0)
<1>1. UtrPart(credit.token, batch.utr) \in Int
  <2>1. /\ TokenLength(credit.token) \in Nat \ {0}
        /\ Shared(credit.token, batch.utr) \in Int
        /\ TokenLength(credit.token) - EditDistance(credit.token, batch.utr) \in Int
    BY TokenMeasures
  <2>2. Fuzzy.weight_prefix * Shared(credit.token, batch.utr)
          + Fuzzy.weight_edit
              * (TokenLength(credit.token) - EditDistance(credit.token, batch.utr)) \in Int
    BY <2>1, WeightsTyped
  <2>. QED  BY <2>1, <2>2, RoundedIsNear DEF UtrPart
<1>2. Fuzzy.weight_amount * Agreement(credit, batch)
        = IF AmountAgrees(credit, batch) THEN Fuzzy.weight_amount ELSE 0
  BY WeightsTyped DEF Agreement
<1>. QED  BY <1>1, <1>2 DEF ScorePathA, UtrPart

(* The UTR alone gives no more than its two weights. *)
LEMMA UtrPartIsBounded ==
  ASSUME AmountDecides, NEW token \in Tokens, NEW utr \in Utrs, IsCandidate(token)
  PROVE  UtrPart(token, utr) =< Fuzzy.weight_prefix + Fuzzy.weight_edit
<1>. DEFINE p == Fuzzy.weight_prefix
            e == Fuzzy.weight_edit
            len == TokenLength(token)
            s == Shared(token, utr)
            k == len - EditDistance(token, utr)
<1>1. /\ p \in Nat /\ e \in Nat /\ len \in Nat \ {0} /\ s \in 0 .. len /\ k \in 0 .. len
      /\ UtrPart(token, utr) = RoundHalfEven(p * s + e * k, len)
  BY WeightsTyped, TokenMeasures DEF AmountDecides, UtrPart
<1>. HIDE DEF p, e, len, s, k
<1>2. p * s =< p * len /\ e * k =< e * len
  BY <1>1
<1>3. len * (p + e) = p * len + e * len /\ p * s + e * k \in Int /\ p + e \in Int
      /\ p * len \in Int /\ e * len \in Int /\ p * s \in Int /\ e * k \in Int
  BY <1>1
<1>4. p * s + e * k =< len * (p + e)
  BY <1>2, <1>3
<1>5. UtrPart(token, utr) =< p + e
  BY <1>1, <1>3, <1>4, RoundedIsAtMost
<1>. QED  BY <1>5 DEF p, e

LEMMA DatePartIsBounded ==
  ASSUME AmountDecides, NEW gap \in Int, Magnitude(gap) =< Fuzzy.date_window_days
  PROVE  DateProximityScore(gap) \in Int /\ DateProximityScore(gap) =< Fuzzy.weight_date_no_utr
<1>. DEFINE w == Fuzzy.weight_date_no_utr
            window == Fuzzy.date_window_days
            near == window - Magnitude(gap)
<1>1. w \in Nat /\ window \in Nat \ {0} /\ near \in 0 .. window
  BY WeightsTyped DEF AmountDecides, Magnitude
<1>2. DateProximityScore(gap) = RoundHalfEven(w * near, window)
  BY DEF DateProximityScore
<1>. HIDE DEF w, window, near
<1>3. w * near =< window * w /\ w * near \in Int
  BY <1>1
<1>4. RoundHalfEven(w * near, window) \in Int /\ RoundHalfEven(w * near, window) =< w
  BY <1>1, <1>3, RoundedIsAtMost, RoundedIsNear
<1>. QED  BY <1>2, <1>4 DEF w

(* Whatever P8 accepts agrees in amount. *)
LEMMA AcceptedAgrees ==
  ASSUME AmountDecides, NEW credit, NEW batch, NEW dueDay \in Int, NEW fragment \in BOOLEAN,
         credit.token \in Tokens, batch.utr \in Utrs, credit.valueDate \in Int,
         fragment => IsCandidate(credit.token),
         Score(credit, batch, dueDay, fragment) > 0,
         Score(credit, batch, dueDay, fragment) >= Threshold(fragment)
  PROVE  AmountAgrees(credit, batch)
<1>. DEFINE gap == credit.valueDate - dueDay
<1>1. gap \in Int /\ Magnitude(gap) =< Fuzzy.date_window_days
  <2>1. ~(0 > 0)
    OBVIOUS
  <2>. QED  BY <2>1 DEF Score
<1>2. CASE fragment
  <2>1. ScorePathA(credit, batch) >= Fuzzy.accept_score
    BY <1>1, <1>2 DEF Score, Threshold
  <2>2. UtrPart(credit.token, batch.utr) \in Int
        /\ UtrPart(credit.token, batch.utr) < Fuzzy.accept_score
    BY <1>2, PathAParts, UtrPartIsBounded, WeightsTyped DEF AmountDecides
  <2>3. ScorePathA(credit, batch) = UtrPart(credit.token, batch.utr)
           + (IF AmountAgrees(credit, batch) THEN Fuzzy.weight_amount ELSE 0)
    BY <1>2, PathAParts
  <2>4. ASSUME ~AmountAgrees(credit, batch)
        PROVE  ScorePathA(credit, batch) = UtrPart(credit.token, batch.utr)
    BY <2>2, <2>3, <2>4
  <2>. QED  BY <2>1, <2>2, <2>4, WeightsTyped
<1>3. CASE ~fragment
  <2>1. ScorePathB(credit, batch, gap) >= Fuzzy.accept_score_no_utr
    BY <1>1, <1>3 DEF Score, Threshold
  <2>2. DateProximityScore(gap) \in Int /\ DateProximityScore(gap) < Fuzzy.accept_score_no_utr
    BY <1>1, DatePartIsBounded, WeightsTyped DEF AmountDecides
  <2>3. ASSUME ~AmountAgrees(credit, batch)
        PROVE  ScorePathB(credit, batch, gap) = DateProximityScore(gap)
    <3>1. Agreement(credit, batch) = 0
      BY <2>3 DEF Agreement
    <3>2. Fuzzy.weight_amount_no_utr * 0 = 0
      BY WeightsTyped
    <3>. HIDE DEF gap
    <3>. QED  BY <2>2, <3>1, <3>2 DEF ScorePathB
  <2>. HIDE DEF gap
  <2>. QED  BY <2>1, <2>2, <2>3, WeightsTyped
<1>. QED  BY <1>2, <1>3

(* Rounding keeps what it rounds in order.                                 *)
LEMMA RoundedInOrder ==
  ASSUME NEW small \in Int, NEW large \in Int, small =< large, NEW den \in Nat \ {0}
  PROVE  RoundHalfEven(small, den) =< RoundHalfEven(large, den)
<1>. DEFINE r == RoundHalfEven(small, den)
            s == RoundHalfEven(large, den)
<1>1. /\ r \in Int /\ 2 * (den * r) =< 2 * small + den
      /\ s \in Int /\ 2 * large - den =< 2 * (den * s)
  BY RoundedIsNear
<1>2. small = large => r = s
  OBVIOUS
<1>. HIDE DEF r, s
<1>3. ASSUME r >= s + 1
      PROVE  FALSE
  <2>. DEFINE a == den * r
              b == den * s
  <2>1. a >= den * (s + 1)
    BY <1>1, <1>3
  <2>2. den * (s + 1) = b + den /\ a \in Int /\ b \in Int
    BY <1>1
  <2>. HIDE DEF a, b
  <2>3. 2 * a =< 2 * small + den /\ 2 * large - den =< 2 * b
    BY <1>1 DEF a, b
  <2>4. small = large
    BY <2>1, <2>2, <2>3
  <2>. QED  BY <1>1, <1>2, <1>3, <2>4
<1>. QED  BY <1>1, <1>3 DEF r, s

(* No UTR is closer to a token than the one it was made of.                *)
LEMMA OwnUtrIsClosest ==
  ASSUME AmountDecides, NEW token \in Tokens, IsCandidate(token), NEW utr \in Utrs
  PROVE  /\ token.of \in Utrs
         /\ UtrPart(token, utr) =< UtrPart(token, token.of)
<1>. DEFINE p == Fuzzy.weight_prefix
            e == Fuzzy.weight_edit
            len == TokenLength(token)
            s(u) == Shared(token, u)
            k(u) == len - EditDistance(token, u)
<1>1. token # NoToken /\ token \in PrefixTokens \union GarbledTokens
  BY DEF IsCandidate, Tokens
<1>2. token.of \in Utrs /\ token.kept \in 0 .. 16 /\ len \in Nat \ {0}
  BY <1>1 DEF PrefixTokens, GarbledTokens, TokenLength, UtrLength
<1>3. s(token.of) = token.kept /\ s(utr) \in 0 .. token.kept
  <2>1. /\ Stem[token.of][token.of] = 16 /\ Stem[token.of][utr] \in 0 .. 16
    BY <1>2, StemAssumption DEF UtrLength
  <2>. DEFINE all == Stem[token.of][token.of]
              some == Stem[token.of][utr]
  <2>2. /\ s(token.of) = IF all < token.kept THEN all ELSE token.kept
        /\ s(utr) = IF some < token.kept THEN some ELSE token.kept
    BY <1>1 DEF Shared
  <2>. HIDE DEF all, some, s
  <2>3. all = 16 /\ some \in 0 .. 16
    BY <2>1 DEF all, some
  <2>. QED  BY <1>2, <2>2, <2>3
<1>4. /\ k(utr) \in Int /\ k(token.of) \in Int /\ k(utr) =< k(token.of)
  <2>1. CASE token \in PrefixTokens
    <3>1. token.kind = "PREFIX" /\ len = token.kept
      BY <2>1 DEF PrefixTokens, TokenLength
    <3>. QED  BY <1>2, <1>3, <3>1 DEF EditDistance, UtrLength
  <2>2. CASE token \in GarbledTokens
    <3>1. token.kind = "GARBLED" /\ len = 16 /\ token.kept \in 0 .. 14
      BY <2>2 DEF GarbledTokens, TokenLength, UtrLength
    <3>2. EditDistance(token, token.of) = 2
      BY <3>1 DEF EditDistance
    <3>3. EditDistance(token, utr) \in {2, len - s(utr)}
      BY DEF EditDistance
    <3>. QED  BY <1>3, <3>1, <3>2, <3>3
  <2>. QED  BY <1>1, <2>1, <2>2
<1>5. p \in Int /\ e \in Int /\ p >= 0 /\ e >= 0
  BY WeightsTyped DEF AmountDecides
<1>6. \A u : UtrPart(token, u) = RoundHalfEven(p * s(u) + e * k(u), len)
  BY DEF UtrPart
<1>7. s(utr) \in Int /\ s(token.of) \in Int /\ s(utr) =< s(token.of)
  BY <1>2, <1>3
<1>. HIDE DEF p, e, len, s, k
<1>8. p * s(utr) =< p * s(token.of) /\ e * k(utr) =< e * k(token.of)
  BY <1>4, <1>5, <1>7
<1>. DEFINE x == p * s(utr)
            y == e * k(utr)
            xo == p * s(token.of)
            yo == e * k(token.of)
<1>9. x \in Int /\ y \in Int /\ xo \in Int /\ yo \in Int
  BY <1>4, <1>5, <1>7
<1>10. x + y \in Int /\ xo + yo \in Int /\ x + y =< xo + yo
  <2>1. x =< xo /\ y =< yo
    BY <1>8
  <2>. HIDE DEF x, y, xo, yo
  <2>. QED  BY <1>9, <2>1
<1>11. RoundHalfEven(x + y, len) =< RoundHalfEven(xo + yo, len)
  <2>. HIDE DEF x, y, xo, yo
  <2>. QED  BY <1>2, <1>10, RoundedInOrder
<1>12. UtrPart(token, utr) =< UtrPart(token, token.of)
  BY <1>6, <1>11
<1>. QED  BY <1>2, <1>12

(* No day is closer to a due date than the day itself.                     *)
LEMMA DueDayIsClosest ==
  ASSUME AmountDecides, NEW gap \in Int, Magnitude(gap) =< Fuzzy.date_window_days
  PROVE  DateProximityScore(gap) =< DateProximityScore(0)
<1>. DEFINE w == Fuzzy.weight_date_no_utr
            window == Fuzzy.date_window_days
            near(g) == window - Magnitude(g)
<1>1. w \in Int /\ w >= 0 /\ window \in Nat \ {0}
      /\ near(gap) \in Int /\ near(0) \in Int /\ near(gap) =< near(0)
  BY WeightsTyped DEF AmountDecides, Magnitude
<1>2. \A g : DateProximityScore(g) = RoundHalfEven(w * near(g), window)
  BY DEF DateProximityScore
<1>. HIDE DEF w, window, near
<1>3. w * near(gap) =< w * near(0) /\ w * near(gap) \in Int /\ w * near(0) \in Int
  BY <1>1
<1>4. RoundHalfEven(w * near(gap), window) =< RoundHalfEven(w * near(0), window)
  BY <1>1, <1>3, RoundedInOrder
<1>. QED  BY <1>2, <1>4

(* No candidate scores higher than the batch a credit is of, if the credit *)
(* agrees in amount and falls due on its day.                              *)
LEMMA OwnScoreIsBest ==
  ASSUME AmountDecides, NEW credit, NEW batch, NEW own, NEW dueDay \in Int,
         NEW fragment \in BOOLEAN, fragment => IsCandidate(credit.token),
         credit.token \in Tokens, batch.utr \in Utrs, own.utr \in Utrs,
         credit.valueDate \in Int,
         AmountAgrees(credit, batch), AmountAgrees(credit, own),
         credit.token = NoToken \/ credit.token.of = own.utr,
         Score(credit, batch, dueDay, fragment) > 0
  PROVE  /\ Score(credit, batch, dueDay, fragment)
              =< Score(credit, own, credit.valueDate, fragment)
         /\ Score(credit, batch, dueDay, fragment) \in Int
         /\ Score(credit, own, credit.valueDate, fragment) \in Int
<1>. DEFINE gap == credit.valueDate - dueDay
<1>1. gap \in Int /\ Magnitude(gap) =< Fuzzy.date_window_days
  <2>1. ~(0 > 0)
    OBVIOUS
  <2>. QED  BY <2>1 DEF Score
<1>2. credit.valueDate - credit.valueDate = 0 /\ Magnitude(0) =< Fuzzy.date_window_days
  BY WeightsTyped DEF Magnitude
<1>3. CASE fragment
  <2>1. credit.token.of = own.utr
    BY <1>3 DEF IsCandidate
  <2>2. /\ Score(credit, batch, dueDay, fragment) = ScorePathA(credit, batch)
        /\ Score(credit, own, credit.valueDate, fragment) = ScorePathA(credit, own)
    BY <1>1, <1>2, <1>3 DEF Score
  <2>3. UtrPart(credit.token, batch.utr) =< UtrPart(credit.token, own.utr)
    BY <1>3, <2>1, OwnUtrIsClosest
  <2>4. /\ UtrPart(credit.token, batch.utr) \in Int
        /\ ScorePathA(credit, batch) = UtrPart(credit.token, batch.utr) + Fuzzy.weight_amount
    BY <1>3, PathAParts
  <2>5. /\ UtrPart(credit.token, own.utr) \in Int
        /\ ScorePathA(credit, own) = UtrPart(credit.token, own.utr) + Fuzzy.weight_amount
    BY <1>3, PathAParts
  <2>. QED  BY <2>2, <2>3, <2>4, <2>5, WeightsTyped
<1>4. CASE ~fragment
  <2>1. /\ Score(credit, batch, dueDay, fragment) = ScorePathB(credit, batch, gap)
        /\ Score(credit, own, credit.valueDate, fragment) = ScorePathB(credit, own, 0)
    BY <1>1, <1>2, <1>4 DEF Score
  <2>2. Agreement(credit, batch) = 1 /\ Agreement(credit, own) = 1
    BY DEF Agreement
  <2>. HIDE DEF gap
  <2>3. DateProximityScore(gap) =< DateProximityScore(0)
    BY <1>1, DueDayIsClosest
  <2>4. DateProximityScore(gap) \in Int /\ DateProximityScore(0) \in Int
    BY <1>1, <1>2, DatePartIsBounded
  <2>5. Fuzzy.weight_amount_no_utr * 1 \in Int
    BY WeightsTyped
  <2>. DEFINE amount == Fuzzy.weight_amount_no_utr * 1
  <2>6. /\ ScorePathB(credit, batch, gap) = amount + DateProximityScore(gap)
        /\ ScorePathB(credit, own, 0) = amount + DateProximityScore(0)
    BY <2>2 DEF ScorePathB
  <2>7. amount \in Int
    BY <2>5
  <2>. HIDE DEF amount
  <2>. QED  BY <2>1, <2>3, <2>4, <2>6, <2>7
<1>. QED  BY <1>3, <1>4

(* A narration that carries a UTR in full is of that UTR and no other. *)
LEMMA CarriedUtr ==
  ASSUME NEW token \in Tokens, NEW utr \in Utrs, CarriesUtr(token, utr)
  PROVE  /\ token.kind = "PREFIX" /\ token.of = utr /\ token.kept = UtrLength
         /\ TokenLength(token) = UtrLength /\ IsCandidate(token)
<1>1. /\ token.kind = "PREFIX" /\ token # NoToken
      /\ token.of \in Utrs /\ token.kept \in 1 .. UtrLength
  BY DEF CarriesUtr, Tokens, PrefixTokens, GarbledTokens, NoToken, UtrLength
<1>2. Stem[token.of][utr] \in 0 .. UtrLength
  BY <1>1, StemAssumption
<1>3. Stem[token.of][utr] = UtrLength /\ token.kept = UtrLength
  BY <1>1, <1>2 DEF CarriesUtr, Shared, UtrLength
<1>4. token.of = utr
  BY <1>1, <1>3, StemAssumption
<1>. QED  BY <1>1, <1>3, <1>4 DEF TokenLength, IsCandidate, UtrLength, UtrCandidateMinLen

(* Nor is the credit accepted for any other. *)
LEMMA OtherNameRefused ==
  ASSUME AmountDecides, UtrsApart, NEW credit, NEW batch, NEW utr \in Utrs,
         credit.token \in Tokens, batch.utr \in Utrs, batch.utr # utr,
         CarriesUtr(credit.token, utr)
  PROVE  ScorePathA(credit, batch) < Fuzzy.accept_score
<1>. DEFINE s == Stem[utr][batch.utr]
<1>1. /\ credit.token.kind = "PREFIX" /\ credit.token.of = utr /\ credit.token.kept = UtrLength
      /\ TokenLength(credit.token) = UtrLength /\ IsCandidate(credit.token)
  BY CarriedUtr
<1>2. s \in 0 .. UtrLength
  BY StemAssumption
<1>3. Shared(credit.token, batch.utr) = s
  BY <1>1, <1>2 DEF Shared, NoToken, UtrLength
<1>4. TokenLength(credit.token) - EditDistance(credit.token, batch.utr) = s
  BY <1>1, <1>2, <1>3 DEF EditDistance, UtrLength
<1>. HIDE DEF s
<1>5. Fuzzy.weight_prefix * s + Fuzzy.weight_edit * s
        = (Fuzzy.weight_prefix + Fuzzy.weight_edit) * s
  BY <1>2, WeightsTyped
<1>6. UtrPart(credit.token, batch.utr)
        = RoundHalfEven((Fuzzy.weight_prefix + Fuzzy.weight_edit) * s, UtrLength)
  BY <1>1, <1>3, <1>4, <1>5 DEF UtrPart
<1>7. UtrPart(credit.token, batch.utr) + Fuzzy.weight_amount < Fuzzy.accept_score
  BY <1>6 DEF UtrsApart, s
<1>8. UtrPart(credit.token, batch.utr) < Fuzzy.accept_score
      /\ UtrPart(credit.token, batch.utr) \in Int
  BY <1>1, PathAParts, UtrPartIsBounded, WeightsTyped DEF AmountDecides
<1>. QED  BY <1>1, <1>7, <1>8, PathAParts, WeightsTyped

(* What is accepted on a narration agrees with most of its UTR. *)
LEMMA AcceptedSharesMost ==
  ASSUME MostOfTheUtr, NEW credit, NEW batch, credit.token \in Tokens, batch.utr \in Utrs,
         IsCandidate(credit.token), ScorePathA(credit, batch) >= Fuzzy.accept_score
  PROVE  16 * Shared(credit.token, batch.utr) >= 13 * TokenLength(credit.token)
<1>. DEFINE token == credit.token
            p == Fuzzy.weight_prefix
            e == Fuzzy.weight_edit
            a == Fuzzy.accept_score - Fuzzy.weight_amount
            len == TokenLength(token)
            s == Shared(token, batch.utr)
            k == len - EditDistance(token, batch.utr)
            part == UtrPart(token, batch.utr)
<1>1. /\ p \in Int /\ e \in Int /\ a \in Int /\ p + e > 128
      /\ 16 * a >= 13 * (p + e) /\ 8 * a > 6 * p + 7 * e + 4
  BY WeightsTyped DEF MostOfTheUtr
<1>2. len \in 1 .. 16 /\ s \in 0 .. len /\ k \in 0 .. len
  BY TokenMeasures DEF UtrLength
<1>3. part \in Int /\ part >= a
  BY PathAParts, WeightsTyped DEF MostOfTheUtr
<1>4. part = RoundHalfEven(p * s + e * k, len)
  BY DEF UtrPart
<1>5. \/ k = s
      \/ len = 16 /\ k = 14 /\ s =< 14
  <2>1. CASE token.kind = "GARBLED" /\ token.of = batch.utr
    <3>1. len = 16 /\ k = 14
      BY <2>1 DEF EditDistance, TokenLength, UtrLength
    <3>2. token \in GarbledTokens
      BY <2>1 DEF Tokens, PrefixTokens, NoToken
    <3>3. token.kept \in 0 .. 14
      BY <3>2 DEF GarbledTokens, UtrLength
    <3>4. s =< 14
      <4>1. Stem[token.of][batch.utr] \in 0 .. UtrLength
        BY <2>1, StemAssumption
      <4>. QED  BY <3>3, <4>1 DEF Shared, UtrLength
    <3>. QED  BY <3>1, <3>4
  <2>2. CASE ~(token.kind = "GARBLED" /\ token.of = batch.utr)
    <3>1. EditDistance(token, batch.utr) = len - s
      BY <2>2 DEF EditDistance
    <3>. QED  BY <1>2, <3>1
  <2>. QED  BY <2>1, <2>2
<1>. HIDE DEF p, e, a, len, s, k, part
<1>6. p * s + e * k \in Int
  BY <1>1, <1>2
<1>7. 2 * (len * part) =< 2 * (p * s + e * k) + len
  <2>. DEFINE num == p * s + e * k
  <2>1. num \in Int /\ len \in Nat \ {0} /\ part = RoundHalfEven(num, len)
    BY <1>2, <1>4, <1>6
  <2>. HIDE DEF num
  <2>2. 2 * (len * part) =< 2 * num + len
    BY <2>1, RoundedIsNear
  <2>. QED  BY <2>2 DEF num
<1>8. len * a =< len * part
  BY <1>1, <1>2, <1>3
<1>9. 2 * (len * a) =< 2 * (p * s + e * k) + len
  BY <1>1, <1>2, <1>3, <1>6, <1>7, <1>8
<1>10. CASE k = s
  <2>. DEFINE w == p + e
  <2>1. p * s + e * k = w * s
    BY <1>1, <1>2, <1>10
  <2>2. w \in Int /\ w > 128 /\ 16 * a >= 13 * w
    BY <1>1
  <2>. HIDE DEF w
  <2>3. 2 * (len * a) =< 2 * (w * s) + len
    BY <1>9, <2>1
  <2>4. len * (16 * a) >= len * (13 * w)
    BY <1>1, <1>2, <2>2
  <2>5. len * (16 * a) = 16 * (len * a) /\ len * (13 * w) = w * (13 * len)
    BY <1>1, <1>2, <2>2
  <2>6. 2 * (w * (13 * len)) =< 32 * (w * s) + 16 * len
    BY <1>1, <1>2, <2>2, <2>3, <2>4, <2>5
  <2>7. ASSUME 16 * s =< 13 * len - 1
        PROVE  FALSE
    <3>1. w * (16 * s) =< w * (13 * len - 1)
      BY <1>2, <2>2, <2>7
    <3>2. w * (16 * s) = 16 * (w * s) /\ w * (13 * len - 1) = w * (13 * len) - w
      BY <1>2, <2>2
    <3>3. w * s \in Int /\ w * (13 * len) \in Int
      BY <1>2, <2>2
    <3>4. 2 * w =< 16 * len
      BY <1>2, <2>2, <2>6, <3>1, <3>2, <3>3
    <3>. QED  BY <1>2, <2>2, <3>4
  <2>8. 16 * s >= 13 * len
    BY <1>2, <2>7
  <2>. QED  BY <2>8 DEF s, len
<1>11. CASE len = 16 /\ k = 14 /\ s =< 14
  <2>0. p >= 0
    BY DEF MostOfTheUtr, p
  <2>1. 32 * a =< 2 * (p * s) + 28 * e + 16
    BY <1>1, <1>2, <1>9, <1>11
  <2>2. ASSUME s =< 12
        PROVE  FALSE
    <3>1. p * s =< p * 12
      BY <1>1, <1>2, <2>0, <2>2
    <3>2. p * s \in Int
      BY <1>1, <1>2
    <3>. QED  BY <1>1, <2>1, <3>1, <3>2
  <2>3. 16 * s >= 13 * len
    BY <1>2, <1>11, <2>2
  <2>. QED  BY <2>3 DEF s, len
<1>. QED  BY <1>5, <1>10, <1>11

-----------------------------------------------------------------------------
(* The components _headline_category is asked about: only those that it    *)
(* has a place for in its precedence move no money.                        *)
Explaining(components) ==
    /\ IsFiniteSet(components)
    /\ \A c \in components :
          /\ c.amount \in Int
          /\ c.category \in CaseCategories
          /\ c.amount = 0 => \E k \in 1 .. 3 : ZeroAmountPrecedence[k] = c.category

(* It names the category of one of them.                                   *)
LEMMA HeadlineIsAmong ==
  ASSUME NEW components, Explaining(components), components # {}
  PROVE  \E c \in components : Headline(components) = c.category
<1>. DEFINE moving == {c \in components : c.amount # 0}
            present(k) == \E c \in components : c.category = ZeroAmountPrecedence[k]
            largest == {c \in moving :
                           \A o \in moving : Magnitude(o.amount) =< Magnitude(c.amount)}
            rounding == {c \in largest : c.category = "ROUNDING_DIFFERENCE"}
<1>1. CASE moving # {}
  <2>. DEFINE moved == {Magnitude(c.amount) : c \in moving}
  <2>1. IsFiniteSet(moving)
    BY FS_Subset DEF Explaining
  <2>2. IsFiniteSet(moved)
    <3>1. [c \in moving |-> Magnitude(c.amount)] \in Surjection(moving, moved)
      BY DEF Surjection
    <3>. HIDE DEF moved
    <3>. QED  BY <2>1, <3>1, FS_Surjection
  <2>3. moved \in SUBSET Nat /\ moved # {}
    BY <1>1 DEF Explaining, Magnitude
  <2>4. Last(moved) \in moved /\ \A n \in moved : n =< Last(moved)
    BY <2>2, <2>3, LastIsGreatest
  <2>5. \E c \in moving : \A o \in moving : Magnitude(o.amount) =< Magnitude(c.amount)
    BY <2>4
  <2>6. \E c \in largest : rounding = {} \/ c \in rounding
    BY <2>5
  <2>7. Headline(components)
          = (CHOOSE c \in largest : rounding = {} \/ c \in rounding).category
    BY <1>1 DEF Headline
  <2>8. (CHOOSE c \in largest : rounding = {} \/ c \in rounding) \in components
    <3>. HIDE DEF rounding
    <3>. QED  BY <2>6
  <2>. QED  BY <2>7, <2>8
<1>2. CASE moving = {}
  <2>. DEFINE Named(k) == present(k) /\ \A j \in 1 .. k - 1 : ~present(j)
  <2>1. \E k \in 1 .. 3 : present(k)
    BY <1>2 DEF Explaining
  <2>2. \E k \in 1 .. 3 : Named(k)
    <3>. HIDE DEF present
    <3>1. CASE present(1)
      BY <3>1
    <3>2. CASE ~present(1) /\ present(2)
      BY <3>2
    <3>3. CASE ~present(1) /\ ~present(2)
      BY <2>1, <3>3
    <3>. QED  BY <3>1, <3>2, <3>3
  <2>3. Headline(components) = ZeroAmountPrecedence[CHOOSE k \in 1 .. 3 : Named(k)]
    BY <1>2 DEF Headline
  <2>4. Named(CHOOSE k \in 1 .. 3 : Named(k))
    <3>. HIDE DEF Named
    <3>. QED  BY <2>2
  <2>. QED  BY <2>3, <2>4
<1>. QED  BY <1>1, <1>2

LEMMA HeadlineNames ==
  ASSUME NEW components, Explaining(components), components # {}
  PROVE  Headline(components) \in CaseCategories
BY HeadlineIsAmong DEF Explaining

(* A case _classify_case confirms without a category: no component, and    *)
(* nothing left to explain.                                                *)
LEMMA CleanVerdict ==
  ASSUME NEW facts, NEW isCandidate \in BOOLEAN,
         facts.payment.authorized \in Int, facts.payment.captured \in Int,
         facts.settledGross \in Int,
         ClassifyCase(facts, isCandidate).status = "CONFIRMED",
         ClassifyCase(facts, isCandidate).category = NoCategory
  PROVE  /\ facts.payment.authorized = facts.settledGross
         /\ UncapturedComponent(facts) = {} /\ TimingComponent(facts) = {}
         /\ facts.hasLines /\ ~isCandidate
<1>. DEFINE total == facts.payment.authorized - facts.settledGross
            direct == UncapturedComponent(facts) \union TimingComponent(facts)
                        \union (IF isCandidate THEN {Component("DUPLICATE_CANDIDATE", 0)} ELSE {})
            remainder == Unexplained(total, direct)
            isRounding == remainder # 0 /\ Magnitude(remainder) =< RoundingTolerance
            components == direct \union
                (IF isRounding THEN {Component("ROUNDING_DIFFERENCE", remainder)} ELSE {})
            unexplained == Unexplained(total, components)
<1>1. ClassifyCase(facts, isCandidate) =
        [status |-> IF unexplained # 0 \/ isCandidate \/ ~facts.hasLines
                    THEN "OPEN" ELSE "CONFIRMED",
         category |-> IF unexplained # 0 THEN "UNEXPLAINED" ELSE Headline(components),
         variance |-> total]
  BY DEF ClassifyCase
<1>2. unexplained = 0 /\ ~isCandidate /\ facts.hasLines
  <2>. HIDE DEF unexplained, components, total
  <2>. QED  BY <1>1
<1>3. Headline(components) = NoCategory
  <2>. HIDE DEF unexplained, components, total
  <2>. QED  BY <1>1, <1>2
<1>4. /\ IsFiniteSet(direct)
      /\ \A c \in direct : /\ c.amount \in Int /\ c.category \in CaseCategories
                           /\ c.amount = 0 => \E k \in 1 .. 3 : ZeroAmountPrecedence[k] = c.category
  <2>1. /\ IsFiniteSet(UncapturedComponent(facts)) /\ IsFiniteSet(TimingComponent(facts))
    BY FS_EmptySet, FS_Singleton DEF UncapturedComponent, TimingComponent
  <2>2. direct = UncapturedComponent(facts) \union TimingComponent(facts)
    BY <1>2
  <2>3. IsFiniteSet(direct)
    BY <2>1, <2>2, FS_Union
  <2>4. ASSUME NEW c \in UncapturedComponent(facts)
        PROVE  c.amount \in Int /\ c.category = "PARTIAL_CAPTURE" /\ c.amount # 0
    BY DEF UncapturedComponent, Component
  <2>5. ASSUME NEW c \in TimingComponent(facts)
        PROVE  c.amount = 0 /\ c.category = "T_PLUS_N_TIMING"
    BY DEF TimingComponent, Component
  <2>. QED  BY <2>2, <2>3, <2>4, <2>5 DEF CaseCategories, ZeroAmountPrecedence
<1>5. remainder \in Int
  BY <1>4, RemainderIsAmount
<1>6. Explaining(components)
  <2>. HIDE DEF direct, remainder
  <2>. DEFINE last == IF isRounding THEN {Component("ROUNDING_DIFFERENCE", remainder)} ELSE {}
  <2>1. IsFiniteSet(last)
    BY FS_EmptySet, FS_Singleton
  <2>2. IsFiniteSet(components)
    BY <1>4, <2>1, FS_Union
  <2>3. ASSUME NEW c \in last
        PROVE  c.amount \in Int /\ c.amount # 0 /\ c.category = "ROUNDING_DIFFERENCE"
    BY <1>5 DEF Component
  <2>. HIDE DEF isRounding
  <2>. QED  BY <1>4, <2>2, <2>3 DEF Explaining, CaseCategories
<1>7. components = {}
  <2>. HIDE DEF components
  <2>1. NoCategory \notin CaseCategories
    BY DEF NoCategory, CaseCategories
  <2>. QED  BY <1>3, <1>6, <2>1, HeadlineNames
<1>8. total = 0
  <2>1. total \in Int
    OBVIOUS
  <2>2. unexplained = Unexplained(total, {})
    BY <1>7
  <2>. HIDE DEF total
  <2>. QED  BY <1>2, <2>1, <2>2, NothingToExplain
<1>. QED  BY <1>2, <1>7, <1>8

-----------------------------------------------------------------------------
(* The one that moves money is the headline, whatever comes with it.       *)
LEMMA MoverIsHeadline ==
  ASSUME NEW components, NEW mover \in components, mover.amount \in Int, mover.amount # 0,
         \A c \in components : c # mover => c.amount = 0
  PROVE  Headline(components) = mover.category
<1>. DEFINE moving == {c \in components : c.amount # 0}
            largest == {c \in moving :
                           \A o \in moving : Magnitude(o.amount) =< Magnitude(c.amount)}
            rounding == {c \in largest : c.category = "ROUNDING_DIFFERENCE"}
<1>1. moving = {mover}
  OBVIOUS
<1>2. Headline(components)
        = (CHOOSE c \in largest : rounding = {} \/ c \in rounding).category
  BY <1>1 DEF Headline
<1>3. largest = {mover}
  BY <1>1 DEF Magnitude
<1>4. (CHOOSE c \in largest : rounding = {} \/ c \in rounding) = mover
  <2>1. rounding = {} \/ mover \in rounding
    BY <1>3
  <2>. HIDE DEF rounding
  <2>. QED  BY <1>3, <2>1
<1>. QED  BY <1>2, <1>4

(* What a payment that settled as captured, and is no candidate, is called. *)
Called(facts) ==
    IF facts.payment.captured < facts.payment.authorized THEN "PARTIAL_CAPTURE"
    ELSE IF TimingComponent(facts) # {} THEN "T_PLUS_N_TIMING" ELSE NoCategory

(* It stays open only as a candidate, and short comes before late.         *)
LEMMA ExplainedVerdict ==
  ASSUME NEW facts, NEW isCandidate \in BOOLEAN,
         facts.payment.authorized \in Int, facts.payment.captured \in Int,
         facts.payment.captured =< facts.payment.authorized,
         facts.settledGross = facts.payment.captured, facts.hasLines
  PROVE  /\ (ClassifyCase(facts, isCandidate).status = "OPEN") <=> isCandidate
         /\ ~isCandidate => /\ ClassifyCase(facts, isCandidate).status = "CONFIRMED"
                            /\ ClassifyCase(facts, isCandidate).category = Called(facts)
<1>. DEFINE total == facts.payment.authorized - facts.settledGross
            copied == IF isCandidate THEN {Component("DUPLICATE_CANDIDATE", 0)} ELSE {}
            direct == UncapturedComponent(facts) \union TimingComponent(facts) \union copied
            remainder == Unexplained(total, direct)
            isRounding == remainder # 0 /\ Magnitude(remainder) =< RoundingTolerance
            components == direct \union
                (IF isRounding THEN {Component("ROUNDING_DIFFERENCE", remainder)} ELSE {})
            unexplained == Unexplained(total, components)
            partial == Component("PARTIAL_CAPTURE", total)
<1>1. ClassifyCase(facts, isCandidate) =
        [status |-> IF unexplained # 0 \/ isCandidate \/ ~facts.hasLines
                    THEN "OPEN" ELSE "CONFIRMED",
         category |-> IF unexplained # 0 THEN "UNEXPLAINED" ELSE Headline(components),
         variance |-> total]
  BY DEF ClassifyCase
<1>2. total \in Int
  OBVIOUS
<1>3. /\ UncapturedComponent(facts)
           = IF facts.payment.captured < facts.payment.authorized THEN {partial} ELSE {}
      /\ facts.payment.captured < facts.payment.authorized <=> total # 0
  BY DEF UncapturedComponent
<1>4. partial.amount = total /\ partial.category = "PARTIAL_CAPTURE"
  BY DEF Component
<1>5. /\ TimingComponent(facts) = {}
           \/ TimingComponent(facts) = {Component("T_PLUS_N_TIMING", 0)}
      /\ copied = IF isCandidate THEN {Component("DUPLICATE_CANDIDATE", 0)} ELSE {}
  BY DEF TimingComponent
<1>6. IsFiniteSet(direct)
  <2>1. IsFiniteSet(UncapturedComponent(facts)) /\ IsFiniteSet(TimingComponent(facts))
    BY FS_EmptySet, FS_Singleton DEF UncapturedComponent, TimingComponent
  <2>2. IsFiniteSet(copied)
    BY FS_EmptySet, FS_Singleton
  <2>. QED  BY <2>1, <2>2, FS_Union
<1>7. ASSUME NEW c \in TimingComponent(facts) \union copied
      PROVE  /\ c.amount = 0
             /\ c.category = "T_PLUS_N_TIMING" \/ c.category = "DUPLICATE_CANDIDATE"
  BY <1>5 DEF Component
<1>8. partial \in direct <=> total # 0
  <2>1. partial \notin TimingComponent(facts) \union copied
    BY <1>4, <1>7
  <2>. HIDE DEF partial, copied, total
  <2>. QED  BY <1>3, <2>1
<1>9. ASSUME NEW c \in direct
      PROVE  /\ c.amount \in Int
             /\ c # partial => c.amount = 0
             /\ c.category \in CaseCategories
             /\ c.amount = 0 => \E k \in 1 .. 3 : ZeroAmountPrecedence[k] = c.category
  <2>1. CASE c = partial /\ total # 0
    BY <1>2, <1>4, <2>1 DEF CaseCategories
  <2>2. CASE c \in TimingComponent(facts) \union copied
    <3>1. c.amount = 0 /\ (c.category = "T_PLUS_N_TIMING" \/ c.category = "DUPLICATE_CANDIDATE")
      BY <1>7, <2>2
    <3>. QED  BY <3>1 DEF CaseCategories, ZeroAmountPrecedence
  <2>. HIDE DEF partial, copied, total
  <2>. QED  BY <1>3, <2>1, <2>2
<1>10. remainder = 0
  <2>1. IF partial \in direct THEN partial.amount = total ELSE total = 0
    BY <1>4, <1>8
  <2>. HIDE DEF partial, direct, total
  <2>2. \A c \in direct \ {partial} : c.amount = 0
    BY <1>9
  <2>3. \A c \in direct : c.amount \in Int
    BY <1>9
  <2>. QED  BY <1>2, <1>6, <2>1, <2>2, <2>3, OneExplainsAll
<1>11. components = direct /\ unexplained = 0
  <2>1. components = direct
    <3>. HIDE DEF direct, remainder
    <3>. QED  BY <1>10
  <2>. HIDE DEF direct, components
  <2>. QED  BY <1>10, <2>1
<1>12. /\ ClassifyCase(facts, isCandidate).status = IF isCandidate THEN "OPEN" ELSE "CONFIRMED"
       /\ ClassifyCase(facts, isCandidate).category = Headline(direct)
  <2>. HIDE DEF direct, components, unexplained, total
  <2>. QED  BY <1>1, <1>11
<1>13. ASSUME total # 0
       PROVE  Headline(direct) = "PARTIAL_CAPTURE"
  <2>1. /\ partial \in direct /\ partial.amount \in Int /\ partial.amount # 0
        /\ \A c \in direct : c # partial => c.amount = 0
    <3>. HIDE DEF direct, partial, total
    <3>. QED  BY <1>2, <1>4, <1>8, <1>9, <1>13
  <2>. HIDE DEF direct, partial, total
  <2>. QED  BY <1>4, <2>1, MoverIsHeadline
<1>14. ASSUME ~isCandidate, total = 0
       PROVE  direct = TimingComponent(facts)
  BY <1>3, <1>14
<1>15. ASSUME ~isCandidate, total = 0, TimingComponent(facts) # {}
       PROVE  Headline(direct) = "T_PLUS_N_TIMING"
  <2>1. Explaining(direct)
    <3>. HIDE DEF direct, partial
    <3>. QED  BY <1>6, <1>9 DEF Explaining
  <2>2. direct # {} /\ \A c \in direct : c.category = "T_PLUS_N_TIMING"
    <3>1. direct = {Component("T_PLUS_N_TIMING", 0)}
      BY <1>5, <1>14, <1>15
    <3>. HIDE DEF direct
    <3>. QED  BY <3>1 DEF Component
  <2>. HIDE DEF direct
  <2>. QED  BY <2>1, <2>2, HeadlineIsAmong
<1>16. direct = {} => Headline(direct) = NoCategory
  <2>. HIDE DEF direct
  <2>. QED  BY DEF Headline
<1>17. ASSUME ~isCandidate
       PROVE  Headline(direct) = Called(facts)
  <2>1. facts.payment.captured < facts.payment.authorized <=> total # 0
    BY <1>3
  <2>. HIDE DEF direct, total
  <2>. QED  BY <1>13, <1>14, <1>15, <1>16, <1>17, <2>1 DEF Called
<1>. HIDE DEF direct, total
<1>. QED  BY <1>12, <1>17

(* A payment that settled on working days, none before it was due, is late *)
(* by timing exactly if it settled on another day.                         *)
LEMMA LateIsTiming ==
  ASSUME NEW facts, facts.payment.capturedAt \in Int, facts.settledDates \in SUBSET Int,
         facts.settledDates # {}, NEW end \in Int, \A s \in facts.settledDates : s =< end,
         \A s \in facts.settledDates :
            NextWorkingDay(facts.payment.capturedAt) =< s /\ IsWorkingDay(s)
  PROVE  TimingComponent(facts) # {}
           <=> \E s \in facts.settledDates : s # NextWorkingDay(facts.payment.capturedAt)
<1>. DEFINE first == NextWorkingDay(facts.payment.capturedAt)
            last == Last(facts.settledDates)
<1>1. first \in Int /\ SettlementLineDue(facts.payment.capturedAt) = first
  <2>1. ValidCalendar
    BY ConfigAssumption DEF ValidConfig
  <2>. QED  BY <2>1, LineDueIsNextWorkingDay, CalendarWalkTerminates
<1>2. last \in facts.settledDates /\ \A s \in facts.settledDates : s =< last
  BY LastDateIsLatest
<1>3. last \in Int /\ first =< last /\ IsWorkingDay(last)
  BY <1>2
<1>4. TimingComponent(facts) # {} <=> ~IsTimingExplained(first, last, 0)
  BY <1>1 DEF TimingComponent, TimingToleranceDays
<1>. HIDE DEF first, last
<1>5. IsTimingExplained(first, last, 0) <=> WorkingDays(first + 1, last) = {}
  BY <1>1, <1>3, OnTimeMeansNoWorkingDay
<1>6. WorkingDays(first + 1, last) = {} <=> last = first
  <2>1. last # first => last \in WorkingDays(first + 1, last)
    BY <1>1, <1>3 DEF WorkingDays
  <2>2. last = first => WorkingDays(first + 1, last) = {}
    BY <1>1 DEF WorkingDays
  <2>. QED  BY <2>1, <2>2
<1>7. last = first <=> ~\E s \in facts.settledDates : s # first
  <2>1. ASSUME last = first, NEW s \in facts.settledDates
        PROVE  s = first
    <3>1. s \in Int /\ first =< s /\ s =< last
      BY <1>2, <2>1 DEF first
    <3>. QED  BY <1>1, <2>1, <3>1
  <2>. QED  BY <1>2, <2>1
<1>. QED  BY <1>4, <1>5, <1>6, <1>7 DEF first

-----------------------------------------------------------------------------
(* Of values that are all zero but two it is the sum of those of the two   *)
(* that are there.                                                         *)
Present(x, ids, amount) == IF x \in ids THEN amount ELSE 0

LEMMA FoldOfPair ==
  ASSUME NEW ids, IsFiniteSet(ids), NEW value \in [ids -> Int], NEW fold,
         Folding(fold, value, ids),
         NEW x, NEW y, x # y, \A z \in ids \ {x, y} : value[z] = 0
  PROVE  fold[ids] = Present(x, ids, value[x]) + Present(y, ids, value[y])
<1>. DEFINE Right(s) == fold[s] = Present(x, s, value[x]) + Present(y, s, value[y])
            Failing == {n \in Nat : \E s \in SUBSET ids : Cardinality(s) = n /\ ~Right(s)}
<1>1. ASSUME Failing # {}
      PROVE  FALSE
  <2>1. PICK n \in Failing : \A m \in Failing : n =< m
    BY <1>1, LeastNumber
  <2>2. PICK s \in SUBSET ids : Cardinality(s) = n /\ ~Right(s)
    BY <2>1
  <2>3. fold[s] = Folded(fold, value, s)
    BY DEF Folding
  <2>4. s # {}
    BY <2>2, <2>3 DEF Folded, Present
  <2>. DEFINE first == Pick(s)
              rest == s \ {Pick(s)}
  <2>5. /\ first \in ids /\ rest \in SUBSET ids
        /\ Cardinality(rest) = n - 1 /\ first \in s
    <3>1. first \in s
      BY <2>4 DEF Pick
    <3>. QED  BY <2>2, <2>4, <3>1, SubsetsShrink
  <2>6. fold[s] = value[first] + fold[rest]
    BY <2>3, <2>4 DEF Folded
  <2>7. first \notin rest /\ \A z : z \in s <=> z = first \/ z \in rest
    BY <2>5
  <2>8. value[first] \in Int
    BY <2>5
  <2>. HIDE DEF first, rest
  <2>9. Cardinality(rest) \in Nat
    BY <2>5, SubsetsShrink
  <2>10. Right(rest)
    BY <2>1, <2>5, <2>9
  <2>11. /\ x \in rest => value[x] \in Int
         /\ y \in rest => value[y] \in Int
    BY <2>5
  <2>12. CASE first = x
    <3>1. fold[rest] = Present(y, rest, value[y])
      BY <2>7, <2>10, <2>11, <2>12 DEF Present
    <3>2. (y \in s <=> y \in rest) /\ x \in s
      BY <2>7, <2>12
    <3>. QED  BY <2>2, <2>6, <2>12, <3>1, <3>2 DEF Present
  <2>13. CASE first = y
    <3>1. fold[rest] = Present(x, rest, value[x])
      BY <2>7, <2>10, <2>11, <2>13 DEF Present
    <3>2. (x \in s <=> x \in rest) /\ y \in s
      BY <2>7, <2>13
    <3>. QED  BY <2>2, <2>6, <2>8, <2>11, <2>13, <3>1, <3>2 DEF Present
  <2>14. CASE first \notin {x, y}
    <3>1. value[first] = 0
      BY <2>5, <2>14
    <3>2. /\ x \in s <=> x \in rest
          /\ y \in s <=> y \in rest
      BY <2>7, <2>14
    <3>. QED  BY <2>2, <2>6, <2>10, <2>11, <3>1, <3>2 DEF Present
  <2>. QED  BY <2>12, <2>13, <2>14
<1>2. Cardinality(ids) \in Nat
  BY FS_CardinalityType
<1>. HIDE DEF Right
<1>3. Right(ids)
  BY <1>1, <1>2
<1>. QED  BY <1>3 DEF Right

(* So is a sum over at most two rows of a table, or over at most one.      *)
LEMMA SumOfPair ==
  ASSUME NEW table, NEW field, NEW ids, NEW k, NEW l, k # l,
         ids \subseteq {k, l}, \A i \in ids : table[i][field] \in Int
  PROVE  SumOf(table, ids, field)
           = Present(k, ids, table[k][field]) + Present(l, ids, table[l][field])
<1>. DEFINE value == [i \in ids |-> table[i][field]]
<1>1. IsFiniteSet(ids)
  <2>1. IsFiniteSet({k}) /\ IsFiniteSet({l}) /\ {k, l} = {k} \union {l}
    BY FS_Singleton
  <2>2. IsFiniteSet({k, l})
    BY <2>1, FS_Union
  <2>3. ids \in SUBSET {k, l}
    OBVIOUS
  <2>. QED  BY <2>2, <2>3, FS_Subset
<1>2. value \in [ids -> Int] /\ \A i \in ids : value[i] = table[i][field]
  OBVIOUS
<1>3. PICK fold : SumOf(table, ids, field) = fold[ids] /\ Folding(fold, value, ids)
  BY <1>1, SumIsFold
<1>. HIDE DEF value
<1>4. \A z \in ids \ {k, l} : value[z] = 0
  OBVIOUS
<1>5. fold[ids] = Present(k, ids, value[k]) + Present(l, ids, value[l])
  BY <1>1, <1>2, <1>3, <1>4, FoldOfPair
<1>6. /\ Present(k, ids, value[k]) = Present(k, ids, table[k][field])
      /\ Present(l, ids, value[l]) = Present(l, ids, table[l][field])
  BY <1>2 DEF Present
<1>. QED  BY <1>3, <1>5, <1>6

LEMMA SumOfAtMostOne ==
  ASSUME NEW table, NEW field, NEW ids, NEW k,
         ids \subseteq {k}, \A i \in ids : table[i][field] \in Int
  PROVE  SumOf(table, ids, field) = Present(k, ids, table[k][field])
<1>. DEFINE value == [i \in ids |-> table[i][field]]
<1>1. IsFiniteSet(ids)
  <2>1. IsFiniteSet({k})
    BY FS_Singleton
  <2>2. ids \in SUBSET {k}
    OBVIOUS
  <2>. QED  BY <2>1, <2>2, FS_Subset
<1>2. value \in [ids -> Int] /\ \A i \in ids : value[i] = table[i][field]
  OBVIOUS
<1>3. PICK fold : SumOf(table, ids, field) = fold[ids] /\ Folding(fold, value, ids)
  BY <1>1, SumIsFold
<1>. HIDE DEF value
<1>4. \A y \in ids \ {k} : value[y] = 0
  OBVIOUS
<1>5. \A s \in SUBSET ids : fold[s] = Folded(fold, value, s)
  BY <1>3 DEF Folding
<1>6. fold[ids] = IF k \in ids THEN value[k] ELSE 0
  BY <1>1, <1>2, <1>4, <1>5, FoldOfOne
<1>. QED  BY <1>2, <1>3, <1>6 DEF Present

(* What two components leave of a variance, with others of no amount.      *)
LEMMA TwoExplain ==
  ASSUME NEW total \in Int, NEW components, IsFiniteSet(components), NEW x, NEW y, x # y,
         \A c \in components : c.amount \in Int,
         \A c \in components \ {x, y} : c.amount = 0
  PROVE  Unexplained(total, components)
           = total - (Present(x, components, x.amount) + Present(y, components, y.amount))
<1>. DEFINE value == [c \in components |-> c.amount]
<1>1. value \in [components -> Int] /\ \A c \in components : value[c] = c.amount
  OBVIOUS
<1>2. PICK fold : /\ Unexplained(total, components) = total - fold[components]
                  /\ Folding(fold, value, components)
  BY RemainderIsFold
<1>. HIDE DEF value
<1>3. \A z \in components \ {x, y} : value[z] = 0
  BY <1>1
<1>4. fold[components] = Present(x, components, value[x]) + Present(y, components, value[y])
  BY <1>1, <1>2, <1>3, FoldOfPair
<1>5. /\ Present(x, components, value[x]) = Present(x, components, x.amount)
      /\ Present(y, components, value[y]) = Present(y, components, y.amount)
  BY <1>1 DEF Present
<1>. QED  BY <1>2, <1>4, <1>5

(* A case is confirmed exactly if it is no candidate, its lines have come, *)
(* and what was captured has settled within the tolerance.                 *)
WithinTolerance(facts) ==
    Magnitude(facts.payment.captured - facts.settledGross) =< RoundingTolerance

LEMMA ConfirmedMeansSettled ==
  ASSUME NEW facts, NEW isCandidate \in BOOLEAN,
         facts.payment.authorized \in Int, facts.payment.captured \in Int,
         facts.payment.captured =< facts.payment.authorized, facts.settledGross \in Int
  PROVE  (ClassifyCase(facts, isCandidate).status = "CONFIRMED")
           <=> /\ ~isCandidate /\ facts.hasLines
               /\ WithinTolerance(facts)
<1>. DEFINE total == facts.payment.authorized - facts.settledGross
            uncaptured == facts.payment.authorized - facts.payment.captured
            copied == IF isCandidate THEN {Component("DUPLICATE_CANDIDATE", 0)} ELSE {}
            direct == UncapturedComponent(facts) \union TimingComponent(facts) \union copied
            remainder == Unexplained(total, direct)
            isRounding == remainder # 0 /\ Magnitude(remainder) =< RoundingTolerance
            rounded == IF isRounding THEN {Component("ROUNDING_DIFFERENCE", remainder)} ELSE {}
            components == direct \union rounded
            unexplained == Unexplained(total, components)
            partial == Component("PARTIAL_CAPTURE", uncaptured)
            rounding == Component("ROUNDING_DIFFERENCE", remainder)
<1>1. ClassifyCase(facts, isCandidate) =
        [status |-> IF unexplained # 0 \/ isCandidate \/ ~facts.hasLines
                    THEN "OPEN" ELSE "CONFIRMED",
         category |-> IF unexplained # 0 THEN "UNEXPLAINED" ELSE Headline(components),
         variance |-> total]
  BY DEF ClassifyCase
<1>2. total \in Int /\ uncaptured \in Nat /\ RoundingTolerance \in Nat
  BY ConfigAssumption DEF ValidConfig, ValidTolerance
<1>3. /\ UncapturedComponent(facts) = IF uncaptured # 0 THEN {partial} ELSE {}
      /\ TimingComponent(facts) = {}
           \/ TimingComponent(facts) = {Component("T_PLUS_N_TIMING", 0)}
      /\ copied = IF isCandidate THEN {Component("DUPLICATE_CANDIDATE", 0)} ELSE {}
  BY DEF UncapturedComponent, TimingComponent
<1>4. /\ partial.amount = uncaptured /\ partial.category = "PARTIAL_CAPTURE"
      /\ rounding.amount = remainder /\ rounding.category = "ROUNDING_DIFFERENCE"
      /\ partial # rounding
  BY DEF Component
<1>5. ASSUME NEW c \in TimingComponent(facts) \union copied
      PROVE  c.amount = 0 /\ c.category \in {"T_PLUS_N_TIMING", "DUPLICATE_CANDIDATE"}
  BY <1>3 DEF Component
<1>6. IsFiniteSet(direct) /\ IsFiniteSet(components)
  <2>1. IsFiniteSet(UncapturedComponent(facts)) /\ IsFiniteSet(TimingComponent(facts))
    BY FS_EmptySet, FS_Singleton DEF UncapturedComponent, TimingComponent
  <2>2. IsFiniteSet(copied) /\ IsFiniteSet(rounded)
    BY FS_EmptySet, FS_Singleton
  <2>. QED  BY <2>1, <2>2, FS_Union
<1>. HIDE DEF total, uncaptured, copied, partial
<1>7. /\ \A c \in direct : c.amount \in Int /\ c.category # "ROUNDING_DIFFERENCE"
      /\ \A c \in direct \ {partial} : c.amount = 0
      /\ partial \in direct <=> uncaptured # 0
  BY <1>2, <1>3, <1>4, <1>5
<1>8. remainder = total - uncaptured
  <2>1. rounding \notin direct
    BY <1>4, <1>7
  <2>. HIDE DEF direct, rounding
  <2>2. /\ \A c \in direct : c.amount \in Int
        /\ \A c \in direct \ {partial, rounding} : c.amount = 0
    BY <1>7
  <2>3. Unexplained(total, direct)
          = total - (Present(partial, direct, partial.amount)
                       + Present(rounding, direct, rounding.amount))
    BY <1>2, <1>4, <1>6, <2>2, TwoExplain
  <2>4. Present(partial, direct, partial.amount) = uncaptured
        /\ Present(rounding, direct, rounding.amount) = 0
    BY <1>2, <1>4, <1>7, <2>1 DEF Present
  <2>. QED  BY <1>2, <2>3, <2>4
<1>9. remainder = facts.payment.captured - facts.settledGross
  <2>. HIDE DEF remainder
  <2>. QED  BY <1>8 DEF total, uncaptured
<1>10. remainder \in Int
  <2>. HIDE DEF remainder
  <2>. QED  BY <1>9
<1>. HIDE DEF direct, remainder, rounding
<1>11. unexplained = IF isRounding THEN 0 ELSE remainder
  <2>1. CASE isRounding
    <3>1. components = direct \union {rounding}
      BY <2>1 DEF rounding
    <3>2. /\ rounding \in components
          /\ partial \in components <=> uncaptured # 0
          /\ \A c \in components : c.amount \in Int
          /\ \A c \in components \ {partial, rounding} : c.amount = 0
      BY <1>4, <1>7, <1>10, <3>1
    <3>. HIDE DEF components
    <3>3. Unexplained(total, components)
            = total - (Present(partial, components, partial.amount)
                         + Present(rounding, components, rounding.amount))
      <4>1. /\ \A c \in components : c.amount \in Int
            /\ \A c \in components \ {partial, rounding} : c.amount = 0
        BY <3>2
      <4>2. IsFiniteSet(components) /\ total \in Int /\ partial # rounding
        BY <1>2, <1>4, <1>6
      <4>. HIDE DEF isRounding
      <4>. QED  BY <4>1, <4>2, TwoExplain
    <3>4. /\ Present(partial, components, partial.amount) = uncaptured
          /\ Present(rounding, components, rounding.amount) = remainder
      BY <1>2, <1>4, <3>2 DEF Present
    <3>. QED  BY <1>2, <1>8, <1>10, <2>1, <3>3, <3>4
  <2>2. CASE ~isRounding
    <3>1. components = direct
      BY <2>2
    <3>. QED  BY <2>2, <3>1 DEF remainder
  <2>. QED  BY <2>1, <2>2
<1>. HIDE DEF components, unexplained
<1>12. unexplained # 0 <=> ~(Magnitude(remainder) =< RoundingTolerance)
  BY <1>2, <1>10, <1>11 DEF Magnitude
<1>13. WithinTolerance(facts) <=> Magnitude(remainder) =< RoundingTolerance
  BY <1>9 DEF WithinTolerance
<1>. QED  BY <1>1, <1>12, <1>13

=============================================================================
