---------------------------- MODULE MCRecurrence ----------------------------
(* TLC instances of Recurrence, with months of two and three days. *)
EXTENDS Recurrence, TLC

CONSTANTS r1, r2

OneRequest  == {r1}
TwoRequests == {r1, r2}

\* The second month is short, like February.
ShortSecond(month) == IF month = 1 THEN 2 ELSE 3

At(month, day) == [month |-> month, day |-> day]

AllMonths == 0 .. LastMonth
LateMonth == {4}
TwoTodays   == {At(1, 2), At(2, 1)}

NoPatches == {}
NoMonths  == {}
SomePatches == {[endDate |-> None],
                [endDate |-> At(3, 2)],
                [startDate |-> At(3, 2)],
                [totalOccurrences |-> 2],
                [step |-> 2, dayOfMonth |-> 1]}

\* Monthly and two-monthly rules, with and without an end and a total.
SomeSchedules ==
    [step : {1, 2}, dayOfMonth : {3}, startDate : {At(0, 2)},
     endDate : {None, At(3, 2)}, totalOccurrences : {None, 3, 6}]

Capped == [step : {1}, dayOfMonth : {3}, startDate : {At(0, 2)},
           endDate : {None}, totalOccurrences : {2}]

SomePlans == [firstPaymentDate : {At(1, 2)}, installments : {3}]
NoPlans   == {}

Symmetry == Permutations(Requests)
=============================================================================
