------------------------------- MODULE Amounts -------------------------------
(***************************************************************************)
(* Amounts in integer cents that are divided so that the parts add up: the *)
(* installments of a plan (installment-split.ts) and the percentages of a  *)
(* monthly report (report-math.ts).                                        *)
(***************************************************************************)
EXTENDS FiniteSets, Functions, Integers

CONSTANTS
  MaxAmount,  \* largest amount
  MaxParts    \* most amounts

ASSUME AmountsAssumption == MaxAmount \in Nat /\ MaxParts \in Nat

VARIABLE amounts  \* the amounts of a report; their total is that of a plan

AmountsInit == amounts \in UNION {[1..n -> 0..MaxAmount] : n \in 1..MaxParts}

Total == SumFunction(amounts)

-----------------------------------------------------------------------------
(* splitInstallments()                                                     *)

Splittable(totalCents, count) == count >= 1 /\ totalCents >= count

\* Mutant of LastInstallment: the odd cents are lost.
LastInstallmentBase(totalCents, count) == totalCents \div count

LastInstallment(totalCents, count) ==
  totalCents - (totalCents \div count) * (count - 1)

SplitInstallments(totalCents, count) ==
  [i \in 1..count |->
     IF i = count THEN LastInstallment(totalCents, count) ELSE totalCents \div count]

-----------------------------------------------------------------------------
(* distributePercentages(), in hundredths of a percent.  The code computes *)
(* a share in floating point, so that one that is a whole number of units  *)
(* may come out just below it: below is the set of those that do.          *)

Whole == 10000

Floored(below, i) ==
  (amounts[i] * Whole) \div Total - IF i \in below THEN 1 ELSE 0

\* What flooring cut off, over the total.
Fraction(below, i) ==
  IF i \in below THEN Total ELSE (amounts[i] * Whole) % Total

\* Mutant of Before: the smallest remainders first.
BeforeAscending(fraction, i, j) ==
  fraction[i] < fraction[j] \/ (fraction[i] = fraction[j] /\ i < j)

Before(fraction, i, j) ==
  fraction[i] > fraction[j] \/ (fraction[i] = fraction[j] /\ i < j)

DistributePercentages(below) ==
  LET parts == DOMAIN amounts
      floored == [i \in parts |-> Floored(below, i)]
      fraction == [i \in parts |-> Fraction(below, i)]
      remainder == Whole - SumFunction(floored)
  IN [i \in parts |->
        floored[i] + IF Cardinality({j \in parts : Before(fraction, j, i)}) < remainder
                     THEN 1 ELSE 0]

-----------------------------------------------------------------------------

\* The installments of every plan add up to its total, none is empty, all but
\* the last are equal, and the last is no smaller and less than count cents
\* larger.
SplitAddsUp ==
  \A count \in 1..Total : Splittable(Total, count) =>
    LET split == SplitInstallments(Total, count) IN
    /\ SumFunction(split) = Total
    /\ \A i \in 1..count : split[i] >= 1
    /\ \A i \in 1..(count - 1) :
         split[i] = split[1] /\ split[count] - split[i] \in 0..(count - 1)

\* The percentages of every list of amounts add up to exactly 100, and each is
\* off its share by less than a hundredth of a percent, also when floating
\* point falls short of a whole one.
SharesAddUp ==
  LET whole == {i \in DOMAIN amounts : amounts[i] > 0 /\ (amounts[i] * Whole) % Total = 0}
  IN Total > 0 => \A below \in SUBSET whole :
       LET shares == DistributePercentages(below) IN
       /\ SumFunction(shares) = Whole
       /\ \A i \in DOMAIN amounts :
            shares[i] * Total - amounts[i] * Whole \in (1 - Total)..(Total - 1)

=============================================================================
