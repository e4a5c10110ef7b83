CONSTANTS
    r1 = r1
    r2 = r2
    None = None
    DaysIn <- ShortSecond
    Requests <- OneRequest
    LastMonth = 5
    Todays <- TwoTodays
    Horizon = 3
    Schedules <- Capped
    Plans <- NoPlans
    Patches <- NoPatches
    Movable <- NoMonths
    Removable <- AllMonths
SPECIFICATION Spec
INVARIANT LifetimeCap
\* The rule may be deleted, and the clock stops at the last of Todays.
CHECK_DEADLOCK FALSE
