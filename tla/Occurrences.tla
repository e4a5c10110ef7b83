---------------------------- MODULE Occurrences ----------------------------
(***************************************************************************)
(* When a recurrence rule is due (occurrences.ts).  Pure: no state.        *)
(*                                                                         *)
(* A date is a record of a month, counted from some month on, and a day.   *)
(* computeOccurrences() walks the months one step at a time and stops at   *)
(* the first that is out of bounds: LoopFrom below.  Since dates only grow *)
(* the months it visits are the set Occurrences, which the models use.     *)
(***************************************************************************)
EXTENDS Integers

CONSTANTS DaysIn(_),  \* the number of days of a month
          None        \* SQL NULL

NotAfter(d, e) == d.month < e.month \/ (d.month = e.month /\ d.day <= e.day)

LastDayOf(month) == [month |-> month, day |-> DaysIn(month)]

\* Mutant of OccurrenceDate: the day is not clamped.
OccurrenceDateUnclamped(month, dayOfMonth) == [month |-> month, day |-> dayOfMonth]

\* clampDayOfMonth() and occurrenceDate(): the 31st is the 28th in February.
OccurrenceDate(month, dayOfMonth) ==
    [month |-> month,
     day   |-> IF dayOfMonth <= DaysIn(month) THEN dayOfMonth ELSE DaysIn(month)]

\* Mutant of FirstMonth: starts at the last generated month, not after it.
FirstMonthAgain(rule) == IF rule.generatedUntil = None
                         THEN rule.startDate.month
                         ELSE rule.generatedUntil.month

FirstMonth(rule) == IF rule.generatedUntil = None
                    THEN rule.startDate.month
                    ELSE rule.generatedUntil.month + rule.step

OnGrid(rule, month) == (month - FirstMonth(rule)) % rule.step = 0

InTime(rule, month, until) ==
    LET date == OccurrenceDate(month, rule.dayOfMonth) IN
    NotAfter(date, until) /\ (rule.endDate # None => NotAfter(date, rule.endDate))

\* Mutant of WithinTotal: the last occurrence counts twice.
WithinTotalPlusOne(rule, month, alreadyGenerated) ==
    rule.totalOccurrences # None =>
        alreadyGenerated + (month - FirstMonth(rule)) \div rule.step
            <= rule.totalOccurrences

\* The cap on the lifetime of the rule, of which `alreadyGenerated` is used up.
WithinTotal(rule, month, alreadyGenerated) ==
    rule.totalOccurrences # None =>
        alreadyGenerated + (month - FirstMonth(rule)) \div rule.step
            < rule.totalOccurrences

\* computeOccurrences(), as the months it yields a date for.
Occurrences(rule, until, alreadyGenerated) ==
    {month \in FirstMonth(rule) .. until.month :
        /\ rule.isActive
        /\ OnGrid(rule, month)
        /\ InTime(rule, month, until)
        /\ WithinTotal(rule, month, alreadyGenerated)}

\* computeOccurrences() as its loop: what it yields from the n-th turn on.
LoopFrom(rule, until, alreadyGenerated) ==
    LET turn[n \in Nat] ==
            LET month == FirstMonth(rule) + n * rule.step IN
            IF \/ ~InTime(rule, month, until)
               \/ rule.totalOccurrences # None /\ alreadyGenerated + n >= rule.totalOccurrences
            THEN {} ELSE {month} \cup turn[n + 1]
    IN IF rule.isActive THEN turn[0] ELSE {}
=============================================================================
