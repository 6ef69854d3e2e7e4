------------------------------ MODULE Calendar ------------------------------
(***************************************************************************)
(* Working-day arithmetic over the configured calendar, as the matching    *)
(* engine does it.  The dates it is asked about are not confined to the    *)
(* simulation window: a late settlement may fall after it.                 *)
(***************************************************************************)
EXTENDS Config, FiniteSets

(* _MAX_CALENDAR_STEPS: a walk that takes more steps raises. *)
MaxCalendarSteps == 400

Weekday(day) == day % 7

IsWorkingDay(day) == Weekday(day) \notin WeeklyOffs /\ day \notin Holidays

(* The working days from one day to another, both included. *)
WorkingDays(from, to) == {day \in from .. to : IsWorkingDay(day)}

(* next_working_day: the first working day on or after a day.  That the    *)
(* walk always finds one is theorem CalendarWalkTerminates.                *)
NextWorkingDay(day) ==
    CHOOSE d \in day .. day + MaxCalendarSteps - 1 :
        IsWorkingDay(d) /\ \A e \in day .. d - 1 : ~IsWorkingDay(e)

(* add_working_days: count working days after the start, which is itself   *)
(* rolled forward to a working day first.                                  *)
AddWorkingDays(start, count) ==
    LET first == NextWorkingDay(start)
    IN  CHOOSE d \in first .. first + MaxCalendarSteps :
            /\ IsWorkingDay(d)
            /\ Cardinality(WorkingDays(first + 1, d)) = count

(* working_days_between: signed; the day walked from is not counted, the   *)
(* day walked to is.                                                       *)
WorkingDaysBetween(start, end) ==
    IF start =< end THEN Cardinality(WorkingDays(start + 1, end))
                    ELSE -Cardinality(WorkingDays(end, start - 1))

(* No merchant of the configuration is settled later than T+4; the loader  *)
(* does not ask for it, and a walk to a late enough date would raise.      *)
CyclesAreShort == \A profile \in Profiles : SettlementCycle[profile] =< 4

(* settlement_line_due_date: T+0 from capture. *)
SettlementLineDue(captured) == AddWorkingDays(captured, 0)

(* settlement_due_date: T+N from capture, to the cash. *)
SettlementDue(captured, profile) == AddWorkingDays(captured, SettlementCycle[profile])

(* bank_value_due_date: T+N from the batch. *)
BankValueDue(settled, profile) == AddWorkingDays(settled, SettlementCycle[profile])

Magnitude(n) == IF n < 0 THEN -n ELSE n

(* is_timing_explained *)
IsTimingExplained(expected, actual, toleranceDays) ==
    Magnitude(WorkingDaysBetween(expected, actual)) =< toleranceDays

=============================================================================
