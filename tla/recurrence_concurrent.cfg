CONSTANTS
    r1 = r1
    r2 = r2
    None = None
    DaysIn <- ShortSecond
    Requests <- TwoRequests
    LastMonth = 5
    Todays <- TwoTodays
    Horizon = 3
    Schedules <- SomeSchedules
    Plans <- SomePlans
    Patches <- NoPatches
    Movable <- NoMonths
    Removable <- NoMonths
SYMMETRY Symmetry
SPECIFICATION Spec
INVARIANTS TypeOK RowsWithinTotal NothingSkipped
\* The rule may be deleted, and the clock stops at the last of Todays.
CHECK_DEADLOCK FALSE
