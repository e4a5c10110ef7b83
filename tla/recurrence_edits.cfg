CONSTANTS
    r1 = r1
    r2 = r2
    None = None
    DaysIn <- ShortSecond
    Requests <- OneRequest
    LastMonth = 5
    Todays <- TwoTodays
    Horizon = 3
    Schedules <- SomeSchedules
    Plans <- SomePlans
    Patches <- SomePatches
    Movable <- LateMonth
    Removable <- AllMonths
SPECIFICATION Spec
INVARIANTS ProducedOnce OccurrencesAreTheLoop
PROPERTY DeletedUnreferenced
\* The rule may be deleted, and the clock stops at the last of Todays.
CHECK_DEADLOCK FALSE
