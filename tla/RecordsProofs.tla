---------------------------- MODULE RecordsProofs ----------------------------
(***************************************************************************)
(* Theorems about MCRecords: what is proved of the categories, of the CSV  *)
(* import and of the investment trades holds of the three together, and    *)
(* the amounts that are divided add up, however many and large they are.   *)
(*                                                                         *)
(* Of the percentages: what flooring cuts off the shares is remainder      *)
(* times the total.  The ranks by what was cut off are all different, so   *)
(* remainder of the shares get one more.  One that was cut nothing off     *)
(* gets none, as those before it already account for all that was cut off; *)
(* one that was cut off a whole unit gets one, as it and those before it   *)
(* do not account for more.                                                *)
(***************************************************************************)
EXTENDS MCRecords, CategoriesProofs, CsvImportProofs, InvestmentsProofs

-----------------------------------------------------------------------------
(* Amounts *)

AmountsTyped == \E n \in Nat \ {0} : amounts \in [1..n -> Nat]

LEMMA AmountsTypedInit == AmountsInit => AmountsTyped
  <1> SUFFICES ASSUME AmountsInit PROVE AmountsTyped
    OBVIOUS
  <1>1. PICK n \in 1..MaxParts : amounts \in [1..n -> 0..MaxAmount]
    BY DEF AmountsInit
  <1>2. n \in Nat \ {0} /\ amounts \in [1..n -> Nat]
    BY <1>1, AmountsAssumption
  <1> QED
    BY <1>2 DEF AmountsTyped

LEMMA TotalIsNat == AmountsTyped => Total \in Nat
  <1> SUFFICES ASSUME AmountsTyped PROVE Total \in Nat
    OBVIOUS
  <1>1. PICK n \in Nat \ {0} : amounts \in [1..n -> Nat]
    BY DEF AmountsTyped
  <1>2. IsFiniteSet(1..n)
    BY FS_Interval
  <1>3. SumFunctionOnSet(amounts, 1..n) \in Nat
    BY <1>1, <1>2, SumCovers
  <1>4. DOMAIN amounts = 1..n
    BY <1>1
  <1> QED
    BY <1>3, <1>4 DEF Total, SumFunction

LEMMA DividedBy ==
    ASSUME NEW a \in Int, NEW b \in Nat \ {0}
    PROVE  /\ a \div b \in Int /\ a % b \in 0..(b - 1)
           /\ a = b * (a \div b) + (a % b)
  OBVIOUS

LEMMA Quotient ==
    ASSUME NEW a \in Nat, NEW b \in Nat \ {0}
    PROVE  /\ a \div b \in Nat /\ a % b \in 0..(b - 1)
           /\ a = b * (a \div b) + (a % b)
           /\ a >= b => a \div b >= 1
  <1> DEFINE q == a \div b
             r == a % b
  <1>1. q \in Int /\ r \in 0..(b - 1) /\ a = b * q + r
    BY DividedBy
  <1> HIDE DEF q, r
  <1>2. ASSUME q < 0 PROVE b * q <= 0 - b
    <2>1. PICK j \in Nat : q = 0 - j - 1
      BY <1>1, <1>2
    <2>2. b * j \in Nat /\ b * q = 0 - (b * j) - b
      BY <2>1
    <2> QED
      BY <2>2
  <1>3. q >= 0
    BY <1>1, <1>2
  <1>4. a >= b => q # 0
    BY <1>1
  <1> QED
    BY <1>1, <1>3, <1>4 DEF q, r

\* The installments but the last are equal; the last has what is left.
LEMMA InstallmentsAddUp ==
    ASSUME NEW total \in Nat, NEW count \in Nat \ {0}, total >= count
    PROVE  LET split == SplitInstallments(total, count) IN
           /\ SumFunction(split) = total
           /\ \A i \in 1..count : split[i] >= 1
           /\ \A i \in 1..(count - 1) :
                split[i] = split[1] /\ split[count] - split[i] \in 0..(count - 1)
  <1> DEFINE q == total \div count
             last == LastInstallment(total, count)
             split == SplitInstallments(total, count)
  <1>1. /\ q \in Nat /\ q >= 1 /\ total % count \in 0..(count - 1)
        /\ total = count * q + (total % count)
    BY Quotient
  <1>2. last = q + (total % count)
    <2>1. last = total - q * (count - 1)
      BY DEF LastInstallment
    <2> HIDE DEF q, last
    <2> QED
      BY <1>1, <2>1
  <1>3. DOMAIN split = 1..count /\ split[count] = last
        /\ \A i \in 1..(count - 1) : split[i] = q
    BY DEF SplitInstallments
  <1> HIDE DEF q, last, split
  <1>4. IsFiniteSet(1..(count - 1)) /\ Cardinality(1..(count - 1)) = count - 1
    BY FS_Interval
  <1>5. SumFunctionOnSet(split, 1..(count - 1)) = q * (count - 1)
    <2> DEFINE S == 1..(count - 1)
    <2>1. IsFiniteSet(S) /\ Cardinality(S) = count - 1 /\ \A i \in S : split[i] = q
      BY <1>3, <1>4
    <2>2. q \in Int
      BY <1>1
    <2> HIDE DEF S
    <2>3. SumFunctionOnSet(split, S) = q * Cardinality(S)
      BY <2>1, <2>2, SumConstant
    <2> QED
      BY <2>1, <2>3 DEF S
  <1>6. SumFunctionOnSet(split, (1..(count - 1)) \cup {count})
          = SumFunctionOnSet(split, 1..(count - 1)) + split[count]
    <2>1. count \notin 1..(count - 1) /\ split[count] \in Int
          /\ \A i \in 1..(count - 1) : split[i] \in Int
      BY <1>1, <1>2, <1>3
    <2> QED
      BY <1>4, <2>1, SumAdds
  <1>7. (1..(count - 1)) \cup {count} = 1..count
    OBVIOUS
  <1>8. last = total - q * (count - 1)
    BY <1>1, <1>2
  <1>9. SumFunction(split) = total
    <2>1. SumFunction(split) = SumFunctionOnSet(split, (1..(count - 1)) \cup {count})
      BY <1>3, <1>7 DEF SumFunction
    <2>2. q * (count - 1) \in Int
      BY <1>1
    <2> QED
      BY <1>3, <1>5, <1>6, <1>8, <2>1, <2>2
  <1>10. \A i \in 1..count : split[i] >= 1
    BY <1>1, <1>2, <1>3
  <1>11. \A i \in 1..(count - 1) :
           split[i] = split[1] /\ split[count] - split[i] \in 0..(count - 1)
    BY <1>1, <1>2, <1>3
  <1> QED
    BY <1>9, <1>10, <1>11 DEF split

LEMMA SplitsAddUp == AmountsTyped => SplitAddsUp
  BY TotalIsNat, InstallmentsAddUp DEF SplitAddsUp, Splittable

-----------------------------------------------------------------------------
(* Ranks *)

\* In a strict order of n things, r of them have less than r before them.
LEMMA RanksAreCounted ==
    ASSUME NEW S, IsFiniteSet(S), NEW before \in [S -> SUBSET S],
           \A i, j \in S : i # j => i \in before[j] \/ j \in before[i],
           \A i, j \in S : i \in before[j] => before[i] \subseteq before[j] /\ i \notin before[i],
           NEW r \in 0..Cardinality(S)
    PROVE  Cardinality({i \in S : Cardinality(before[i]) < r}) = r
  <1> DEFINE n == Cardinality(S)
             rank == [i \in S |-> Cardinality(before[i])]
             first == {i \in S : rank[i] < r}
  <1>1. n \in Nat
    BY FS_CardinalityType
  <1>2. ASSUME NEW i \in S PROVE i \notin before[i]
    OBVIOUS
  <1>3. ASSUME NEW i \in S
        PROVE  IsFiniteSet(before[i]) /\ rank[i] \in 0..(n - 1)
    <2>1. before[i] \in SUBSET S
      OBVIOUS
    <2>2. IsFiniteSet(before[i]) /\ Cardinality(before[i]) <= n
          /\ (n = Cardinality(before[i]) => S = before[i])
      BY <2>1, FS_Subset
    <2>3. Cardinality(before[i]) \in Nat
      BY <2>2, FS_CardinalityType
    <2>4. S # before[i]
      BY <1>2
    <2> QED
      BY <1>1, <2>2, <2>3, <2>4
  <1>4. ASSUME NEW i \in S, NEW j \in S, i \in before[j] PROVE rank[i] < rank[j]
    <2>1. before[i] \in SUBSET before[j] /\ i \notin before[i]
      BY <1>4
    <2>2. Cardinality(before[i]) <= Cardinality(before[j])
          /\ (Cardinality(before[j]) = Cardinality(before[i]) => before[j] = before[i])
      BY <1>3, <2>1, FS_Subset
    <2>3. before[i] # before[j]
      BY <1>4, <2>1
    <2>4. rank[i] = Cardinality(before[i]) /\ rank[j] = Cardinality(before[j])
      OBVIOUS
    <2>5. rank[i] \in Nat /\ rank[j] \in Nat
      BY <1>1, <1>3
    <2> HIDE DEF rank
    <2> QED
      BY <2>2, <2>3, <2>4, <2>5
  <1> HIDE DEF rank
  <1>5. rank \in Injection(S, 0..(n - 1))
    <2>1. rank \in [S -> 0..(n - 1)]
      BY <1>3 DEF rank
    <2>2. ASSUME NEW i \in S, NEW j \in S, rank[i] = rank[j] PROVE i = j
      <3>1. rank[i] \in Nat /\ rank[j] \in Nat
        BY <1>1, <1>3
      <3> QED
        BY <1>4, <2>2, <3>1
    <2> QED
      BY <2>1, <2>2 DEF Injection, IsInjective
  <1>6. IsFiniteSet(0..(n - 1)) /\ Cardinality(0..(n - 1)) = n
    <2>1. 0 \in Int /\ n - 1 \in Int
      BY <1>1
    <2> QED
      BY <1>1, <2>1, FS_Interval
  <1>7. rank \in Surjection(S, 0..(n - 1))
    <2> DEFINE places == 0..(n - 1)
    <2>1. rank \in Injection(S, places) /\ IsFiniteSet(places) /\ Cardinality(places) = n
      BY <1>5, <1>6
    <2> HIDE DEF places
    <2>2. Cardinality(S) = Cardinality(places) <=> rank \in Surjection(S, places)
      BY <2>1, FS_Injection
    <2> QED
      BY <2>1, <2>2 DEF places
  <1>8. r \in Nat /\ r <= n
    BY <1>1
  <1> DEFINE low == 0..(r - 1)
             ranks == [i \in first |-> rank[i]]
  <1>9. IsFiniteSet(low) /\ Cardinality(low) = r
    <2>1. 0 \in Int /\ r - 1 \in Int
      BY <1>8
    <2> QED
      BY <1>8, <2>1, FS_Interval
  <1>10. \A i \in S : rank[i] \in Nat
    BY <1>1, <1>3
  <1>11. ranks \in [first -> low]
    BY <1>8, <1>10
  <1>12. ranks \in Injection(first, low)
    <2>1. \A i, j \in S : rank[i] = rank[j] => i = j
      BY <1>5 DEF Injection, IsInjective
    <2> QED
      BY <1>11, <2>1 DEF Injection, IsInjective
  <1>13. ranks \in Surjection(first, low)
    <2>1. ASSUME NEW k \in low PROVE \E i \in first : ranks[i] = k
      <3>1. k \in 0..(n - 1) /\ k < r
        BY <1>1, <1>8
      <3>2. PICK i \in S : rank[i] = k
        BY <1>7, <3>1 DEF Surjection
      <3>3. i \in first
        BY <3>1, <3>2
      <3> QED
        BY <3>2, <3>3
    <2> QED
      BY <1>11, <2>1 DEF Surjection
  <1> HIDE DEF ranks, low, first
  <1>14. Cardinality(first) = Cardinality(low)
    BY <1>9, <1>12, <1>13, FS_Injection
  <1>15. first = {i \in S : Cardinality(before[i]) < r}
    BY DEF first, rank
  <1> QED
    BY <1>9, <1>14, <1>15

\* The same for each of some, and nothing for the others.
LEMMA SameForEach ==
    ASSUME NEW S, IsFiniteSet(S), NEW P \in SUBSET S, NEW c \in Int, NEW f,
           \A x \in S : f[x] = IF x \in P THEN c ELSE 0
    PROVE  SumFunctionOnSet(f, S) = c * Cardinality(P)
  <1>1. IsFiniteSet(P) /\ IsFiniteSet(S \ P)
    BY FS_Subset
  <1>2. SumFunctionOnSet(f, S) = SumFunctionOnSet(f, P) + SumFunctionOnSet(f, S \ P)
    <2>1. \A x \in S : f[x] \in Int
      OBVIOUS
    <2> QED
      BY <2>1, SumSplits
  <1>3. SumFunctionOnSet(f, P) = c * Cardinality(P)
    <2>1. \A x \in P : f[x] = c
      OBVIOUS
    <2> QED
      BY <1>1, <2>1, SumConstant
  <1>4. SumFunctionOnSet(f, S \ P) = 0 * Cardinality(S \ P)
    <2> DEFINE R == S \ P
    <2>1. IsFiniteSet(R) /\ \A x \in R : f[x] = 0
      BY <1>1
    <2> HIDE DEF R
    <2>2. SumFunctionOnSet(f, R) = 0 * Cardinality(R)
      BY <2>1, SumConstant
    <2> QED
      BY <2>2 DEF R
  <1>5. Cardinality(P) \in Nat /\ Cardinality(S \ P) \in Nat
    BY <1>1, FS_CardinalityType
  <1>6. c * Cardinality(P) \in Int
    BY <1>5
  <1> QED
    BY <1>2, <1>3, <1>4, <1>5, <1>6

LEMMA ProductOrder ==
    ASSUME NEW t \in Nat \ {0}, NEW a \in Int, NEW b \in Int, t * a <= t * b
    PROVE  a <= b
  <1> SUFFICES ASSUME a > b PROVE FALSE
    OBVIOUS
  <1>1. PICK j \in Nat : a = b + 1 + j
    <2>1. a - b - 1 \in Nat /\ a = b + 1 + (a - b - 1)
      OBVIOUS
    <2> QED
      BY <2>1
  <1>2. t * a = t * b + t + t * j /\ t * j \in Nat /\ t * b \in Int
    BY <1>1
  <1> QED
    BY <1>2

-----------------------------------------------------------------------------
(* Percentages *)

\* What flooring cuts off is dealt out to those it cut most off.
LEMMA SharesAreDealt ==
    ASSUME NEW n \in Nat \ {0}, amounts \in [1..n -> Nat], Total \in Nat \ {0},
           NEW below \in SUBSET {i \in 1..n : amounts[i] > 0
                                              /\ (amounts[i] * Whole) % Total = 0}
    PROVE  LET shares == DistributePercentages(below) IN
           /\ SumFunction(shares) = Whole
           /\ \A i \in 1..n :
                shares[i] * Total - amounts[i] * Whole \in (1 - Total)..(Total - 1)
  <1> DEFINE parts == 1..n
             T == Total
             floored == [i \in parts |-> Floored(below, i)]
             fraction == [i \in parts |-> Fraction(below, i)]
             remainder == Whole - SumFunctionOnSet(floored, parts)
             before == [i \in parts |-> {j \in parts : Before(fraction, j, i)}]
             chosen == {i \in parts : Cardinality(before[i]) < remainder}
             shares == DistributePercentages(below)
  <1>1. /\ parts = DOMAIN amounts /\ IsFiniteSet(parts) /\ Cardinality(parts) = n
        /\ parts \in SUBSET Int
    BY FS_Interval
  <1>2. T \in Nat \ {0} /\ T \in Int /\ Whole \in Nat /\ Whole \in Int
    BY DEF Whole
  <1>3. ASSUME NEW i \in parts
        PROVE  /\ floored[i] \in Int /\ fraction[i] \in 0..T
               /\ amounts[i] * Whole = T * floored[i] + fraction[i]
    <2> DEFINE a == amounts[i] * Whole
               q == a \div T
               m == a % T
    <2>1. a \in Int
      BY <1>2
    <2> HIDE DEF a, T
    <2>2. q \in Int /\ m \in 0..(T - 1) /\ a = T * q + m
      BY <1>2, <2>1, DividedBy
    <2>3. i \in below => m = 0
      BY DEF a, T
    <2>4. /\ floored[i] = q - (IF i \in below THEN 1 ELSE 0)
          /\ fraction[i] = IF i \in below THEN T ELSE m
      BY DEF Floored, Fraction, a, T
    <2> HIDE DEF q, m, floored, fraction
    <2>5. T * (q - 1) = T * q - T /\ T * q \in Int
      BY <1>2, <2>2
    <2>6. /\ floored[i] \in Int /\ fraction[i] \in 0..T
          /\ a = T * floored[i] + fraction[i]
      <3>1. CASE i \in below
        BY <1>2, <2>2, <2>3, <2>4, <2>5, <3>1
      <3>2. CASE i \notin below
        BY <1>2, <2>2, <2>4, <3>2
      <3> QED
        BY <3>1, <3>2
    <2> QED
      BY <2>6 DEF a
  <1>4. /\ shares = [i \in parts |-> floored[i] + IF i \in chosen THEN 1 ELSE 0]
        /\ SumFunction(shares) = SumFunctionOnSet(shares, parts)
    <2>1. SumFunction(floored) = SumFunctionOnSet(floored, parts)
      BY DEF SumFunction
    <2>2. shares = [i \in parts |->
                      floored[i] + IF Cardinality({j \in parts : Before(fraction, j, i)})
                                        < Whole - SumFunction(floored)
                                   THEN 1 ELSE 0]
      BY <1>1 DEF DistributePercentages
    <2>3. shares = [i \in parts |-> floored[i] + IF i \in chosen THEN 1 ELSE 0]
      BY <2>1, <2>2
    <2>4. DOMAIN shares = parts
      BY <2>3
    <2> QED
      BY <2>3, <2>4 DEF SumFunction
  <1>5. \A j, i \in parts : j \in before[i] <=>
          fraction[j] > fraction[i] \/ (fraction[j] = fraction[i] /\ j < i)
    BY DEF Before
  <1>6. before \in [parts -> SUBSET parts]
    OBVIOUS
  <1>7. /\ \A i \in parts : amounts[i] \in Nat
        /\ T = SumFunctionOnSet(amounts, parts)
    BY <1>1 DEF Total, SumFunction
  <1> HIDE DEF T, floored, fraction, before, shares, parts
  <1>0. \A i \in parts : i \in Int /\ fraction[i] \in Int /\ fraction[i] \in 0..T
    BY <1>1, <1>2, <1>3
  <1>8. SumFunctionOnSet(floored, parts) \in Int
    BY <1>1, <1>3, SumTakesAny
  <1>9. T * remainder = SumFunctionOnSet(fraction, parts) /\ remainder \in Int
    <2> DEFINE scaled == [i \in parts |-> amounts[i] * Whole]
               zero == [i \in parts |-> 0]
    <2>1. SumFunctionOnSet(zero, parts) = 0 * Cardinality(parts)
      <3>1. \A x \in parts : zero[x] = 0
        OBVIOUS
      <3> HIDE DEF zero
      <3> QED
        BY <1>1, <3>1, SumConstant
    <2>2. SumFunctionOnSet(scaled, parts)
            = Whole * SumFunctionOnSet(amounts, parts) + SumFunctionOnSet(zero, parts)
      <3> DEFINE given == amounts
                 W == Whole
      <3>1. \A x \in parts : given[x] \in Int /\ zero[x] \in Int
                             /\ scaled[x] = W * given[x] + zero[x]
        BY <1>2, <1>7
      <3>2. W \in Int /\ IsFiniteSet(parts)
        BY <1>1, <1>2
      <3> HIDE DEF zero, scaled, given, W
      <3>3. SumFunctionOnSet(scaled, parts)
              = W * SumFunctionOnSet(given, parts) + SumFunctionOnSet(zero, parts)
        BY <3>1, <3>2, SumLinear
      <3> QED
        BY <3>3 DEF given, W
    <2>3. SumFunctionOnSet(scaled, parts)
            = T * SumFunctionOnSet(floored, parts) + SumFunctionOnSet(fraction, parts)
      <3>1. \A x \in parts : floored[x] \in Int /\ fraction[x] \in Int
                             /\ scaled[x] = T * floored[x] + fraction[x]
        BY <1>2, <1>3
      <3> HIDE DEF scaled
      <3> QED
        BY <1>1, <1>2, <3>1, SumLinear
    <2>4. SumFunctionOnSet(fraction, parts) \in Int
      <3>1. \A x \in parts : fraction[x] \in Int
        BY <1>2, <1>3
      <3> QED
        BY <1>1, <3>1, SumTakesAny
    <2> HIDE DEF scaled, zero
    <2>5. Whole * T = T * SumFunctionOnSet(floored, parts) + SumFunctionOnSet(fraction, parts)
      BY <1>1, <1>2, <1>7, <2>1, <2>2, <2>3
    <2> DEFINE F == SumFunctionOnSet(floored, parts)
    <2>6. F \in Int /\ remainder = Whole - F
      BY <1>8
    <2> HIDE DEF F
    <2>7. T * (Whole - F) = Whole * T - T * F /\ T * F \in Int /\ Whole * T \in Int
      BY <1>2, <2>6
    <2>8. Whole * T = T * F + SumFunctionOnSet(fraction, parts)
      BY <2>5 DEF F
    <2> QED
      BY <1>2, <2>4, <2>6, <2>7, <2>8
  <1> HIDE DEF remainder
  \* Those with more than P have cut off are not enough, those in P too many.
  <1>10. ASSUME NEW P \in SUBSET parts, \A x \in parts : x \notin P => fraction[x] = 0
         PROVE  remainder <= Cardinality(P)
    <2> DEFINE full == [x \in parts |-> IF x \in P THEN T ELSE 0]
    <2>1. \A x \in parts : fraction[x] \in Int /\ full[x] \in Int /\ fraction[x] <= full[x]
      BY <1>2, <1>3, <1>10
    <2>2. \A x \in parts : full[x] = IF x \in P THEN T ELSE 0
      OBVIOUS
    <2> HIDE DEF full
    <2>3. SumFunctionOnSet(fraction, parts) <= SumFunctionOnSet(full, parts)
      BY <1>1, <2>1, SumGrows
    <2>4. SumFunctionOnSet(full, parts) = T * Cardinality(P)
      <3>1. IsFiniteSet(parts) /\ T \in Int /\ P \in SUBSET parts
        BY <1>1, <1>2
      <3> QED
        BY <2>2, <3>1, SameForEach
    <2>5. Cardinality(P) \in Int
      <3>1. IsFiniteSet(P)
        BY <1>1, FS_Subset
      <3> QED
        BY <3>1, FS_CardinalityType
    <2> QED
      BY <1>2, <1>9, <2>3, <2>4, <2>5, ProductOrder
  <1>11. ASSUME NEW P \in SUBSET parts, \A x \in P : fraction[x] = T
         PROVE  Cardinality(P) <= remainder
    <2> DEFINE full == [x \in parts |-> IF x \in P THEN T ELSE 0]
    <2>1. \A x \in parts : full[x] \in Int /\ fraction[x] \in Int /\ full[x] <= fraction[x]
      BY <1>2, <1>3, <1>11
    <2>2. \A x \in parts : full[x] = IF x \in P THEN T ELSE 0
      OBVIOUS
    <2> HIDE DEF full
    <2>3. SumFunctionOnSet(full, parts) <= SumFunctionOnSet(fraction, parts)
      BY <1>1, <2>1, SumGrows
    <2>4. SumFunctionOnSet(full, parts) = T * Cardinality(P)
      <3>1. IsFiniteSet(parts) /\ T \in Int /\ P \in SUBSET parts
        BY <1>1, <1>2
      <3> QED
        BY <2>2, <3>1, SameForEach
    <2>5. Cardinality(P) \in Int
      <3>1. IsFiniteSet(P)
        BY <1>1, FS_Subset
      <3> QED
        BY <3>1, FS_CardinalityType
    <2> QED
      BY <1>2, <1>9, <2>3, <2>4, <2>5, ProductOrder
  <1>12. remainder \in 0..Cardinality(parts)
    <2>1. Cardinality({}) <= remainder
      BY <1>11
    <2>2. remainder <= Cardinality(parts)
      BY <1>10
    <2> QED
      BY <1>1, <1>9, <2>1, <2>2, FS_EmptySet
  <1>13. Cardinality(chosen) = remainder
    <2>1. \A i, j \in parts : i # j => i \in before[j] \/ j \in before[i]
      BY <1>0, <1>5
    <2>2. ASSUME NEW i \in parts, NEW j \in parts, i \in before[j]
          PROVE  before[i] \subseteq before[j] /\ i \notin before[i]
      <3>1. ASSUME NEW k \in before[i] PROVE k \in before[j]
        <4>1. k \in parts
          BY <1>6
        <4> QED
          BY <1>0, <1>5, <2>2, <3>1, <4>1
      <3>2. i \notin before[i]
        BY <1>0, <1>5
      <3> QED
        BY <3>1, <3>2
    <2> QED
      BY <1>1, <1>6, <1>12, <2>1, <2>2, RanksAreCounted
  <1> DEFINE extra == [i \in parts |-> IF i \in chosen THEN 1 ELSE 0]
  <1>14. SumFunctionOnSet(extra, parts) = remainder
    <2>1. \A x \in parts : extra[x] = IF x \in chosen THEN 1 ELSE 0
      OBVIOUS
    <2>2. chosen \in SUBSET parts
      OBVIOUS
    <2> HIDE DEF extra, chosen
    <2>3. SumFunctionOnSet(extra, parts) = 1 * Cardinality(chosen)
      <3>1. IsFiniteSet(parts) /\ 1 \in Int
        BY <1>1
      <3> QED
        BY <2>1, <2>2, <3>1, SameForEach
    <2> QED
      BY <1>9, <1>13, <2>3
  <1>15. SumFunction(shares) = Whole
    <2>1. \A x \in parts : extra[x] \in Int /\ floored[x] \in Int
                           /\ shares[x] = 1 * extra[x] + floored[x]
      BY <1>3, <1>4
    <2> HIDE DEF extra, chosen
    <2>2. SumFunctionOnSet(shares, parts)
            = 1 * SumFunctionOnSet(extra, parts) + SumFunctionOnSet(floored, parts)
      BY <1>1, <2>1, SumLinear
    <2> QED
      BY <1>2, <1>4, <1>8, <1>14, <2>2 DEF remainder
  <1>16. ASSUME NEW i \in parts, i \in chosen PROVE fraction[i] # 0
    <2> SUFFICES ASSUME fraction[i] = 0 PROVE FALSE
      OBVIOUS
    <2>1. before[i] \in SUBSET parts
      BY <1>6
    <2>2. \A x \in parts : x \notin before[i] => fraction[x] = 0
      BY <1>2, <1>3, <1>5
    <2>3. remainder <= Cardinality(before[i])
      BY <1>10, <2>1, <2>2
    <2>4. Cardinality(before[i]) \in Int
      BY <1>1, <2>1, FS_Subset, FS_CardinalityType
    <2> QED
      BY <1>9, <1>16, <2>3, <2>4
  <1>17. ASSUME NEW i \in parts, i \notin chosen PROVE fraction[i] # T
    <2> SUFFICES ASSUME fraction[i] = T PROVE FALSE
      OBVIOUS
    <2>1. before[i] \in SUBSET parts /\ IsFiniteSet(before[i])
      BY <1>1, <1>6, FS_Subset
    <2>2. i \notin before[i]
      BY <1>0, <1>5
    <2> DEFINE P == before[i] \cup {i}
    <2>3. Cardinality(P) = Cardinality(before[i]) + 1 /\ Cardinality(before[i]) \in Nat
      BY <2>1, <2>2, FS_AddElement, FS_CardinalityType
    <2>4. \A x \in P : fraction[x] = T
      BY <1>2, <1>3, <1>5, <2>1
    <2>5. P \in SUBSET parts
      BY <2>1
    <2> HIDE DEF P
    <2>6. Cardinality(P) <= remainder
      BY <1>11, <2>4, <2>5
    <2> QED
      BY <1>9, <1>17, <2>3, <2>6
  <1>18. ASSUME NEW i \in parts
         PROVE  shares[i] * T - amounts[i] * Whole \in (1 - T)..(T - 1)
    <2>1. /\ floored[i] \in Int /\ fraction[i] \in 0..T
          /\ amounts[i] * Whole = T * floored[i] + fraction[i]
      BY <1>3
    <2>2. shares[i] = floored[i] + (IF i \in chosen THEN 1 ELSE 0)
      BY <1>4
    <2>3. (floored[i] + 1) * T = T * floored[i] + T /\ T * floored[i] \in Int
          /\ floored[i] * T = T * floored[i]
      BY <1>2, <2>1
    <2>4. CASE i \in chosen
      <3>1. fraction[i] >= 1
        BY <1>2, <1>16, <2>1, <2>4
      <3>2. shares[i] * T - amounts[i] * Whole = T - fraction[i]
        BY <1>2, <2>1, <2>2, <2>3, <2>4
      <3> QED
        BY <1>2, <2>1, <3>1, <3>2
    <2>5. CASE i \notin chosen
      <3>1. fraction[i] <= T - 1
        BY <1>2, <1>17, <2>1, <2>5
      <3>2. shares[i] * T - amounts[i] * Whole = 0 - fraction[i]
        BY <1>2, <2>1, <2>2, <2>3, <2>5
      <3> QED
        BY <1>2, <2>1, <3>1, <3>2
    <2> QED
      BY <2>4, <2>5
  <1> QED
    BY <1>15, <1>18 DEF shares, T, parts

LEMMA AllSharesAddUp == AmountsTyped => SharesAddUp
  <1> SUFFICES ASSUME AmountsTyped, Total > 0 PROVE SharesAddUp
    BY DEF SharesAddUp
  <1>1. PICK n \in Nat \ {0} : amounts \in [1..n -> Nat]
    BY DEF AmountsTyped
  <1>2. Total \in Nat \ {0} /\ DOMAIN amounts = 1..n
    BY <1>1, TotalIsNat
  <1> QED
    BY <1>1, <1>2, SharesAreDealt DEF SharesAddUp

-----------------------------------------------------------------------------
(* The components *)

\* What the history of the tree is about are categories.
TreeHistoryTyped == silent \subseteq Cats /\ hollowed \subseteq Cats /\ repurposed \subseteq Cats

LEMMA TreeHistoryStep ==
    ASSUME TreeHistoryTyped, [TreeNext]_treeVars
    PROVE  TreeHistoryTyped'
  <1> USE DEF TreeHistoryTyped
  <1>1. /\ Live \subseteq Cats /\ \A c : Children(c) \subseteq Cats
        /\ \A rows : HollowedBy(rows) => hollowed' \subseteq Cats
    BY DEF Live, HollowedBy, Hollow, Roots, Children
  <1>2. CASE UNCHANGED treeVars
    BY <1>2 DEF treeVars
  <1>3. CASE \E r \in Editors : Update(r)
    BY <1>1, <1>3 DEF Update
  <1>4. CASE \E r \in Editors : Put(r)
    BY <1>4 DEF Put
  <1>5. CASE \E r \in Editors, c \in Cats : CreateSub(r, c)
    BY <1>1, <1>5 DEF CreateSub
  <1>6. CASE \E r \in Editors, c \in Cats : Remove(r, c)
    BY <1>1, <1>6 DEF Remove
  <1>7. CASE \E r \in Editors : SetActive(r)
    BY <1>1, <1>7 DEF SetActive
  <1>8. CASE UNCHANGED history
    BY <1>8 DEF history
  <1>9. TreeNext =>
          \/ \E r \in Editors : Update(r) \/ Put(r) \/ SetActive(r)
          \/ \E r \in Editors, c \in Cats : CreateSub(r, c) \/ Remove(r, c)
          \/ UNCHANGED history
    <2>1. \A r, root, others, kind, active :
            CreateRoot(r, root, others, kind, active) => UNCHANGED history
      BY Zenon DEF CreateRoot
    <2>2. \A r, p, kind, active : CheckCreate(r, p, kind, active) => UNCHANGED history
      BY Zenon DEF CheckCreate, Pass
    <2>3. \A r, c, parent, kind, active :
            CheckUpdate(r, c, parent, kind, active) => UNCHANGED history
      BY Zenon DEF CheckUpdate, Pass
    <2>4. \A r, c, active : CheckSetActive(r, c, active) => UNCHANGED history
      BY Zenon DEF CheckSetActive, Pass
    <2>5. \A r, targets : CheckPut(r, targets) => UNCHANGED history
      BY Zenon DEF CheckPut, Pass
    <2>6. \A r : GiveUp(r) => UNCHANGED history
      BY Zenon DEF GiveUp
    <2> QED
      BY Zenon, <2>1, <2>2, <2>3, <2>4, <2>5, <2>6 DEF TreeNext
  <1> QED
    BY <1>2, <1>3, <1>4, <1>5, <1>6, <1>7, <1>8, <1>9

LEMMA TreeTypesHold == TreeSpec => []TreeTypeOK
  <1>1. TreeInit => TreeHistoryTyped
    BY DEF TreeInit, TreeHistoryTyped
  <1>2. TreeHistoryTyped /\ [TreeNext]_treeVars => TreeHistoryTyped'
    BY TreeHistoryStep
  <1>3. TreeInv /\ TreeHistoryTyped => TreeTypeOK
    BY DEF TreeInv, Typed, TreeHistoryTyped, TreeTypeOK, CategoryRow, Write
  <1> QED
    BY TreeInvariant, <1>1, <1>2, <1>3, PTL DEF TreeSpec

LEMMA StepsOfRecords ==
    ASSUME [Next]_vars
    PROVE  /\ [TreeNext]_treeVars
           /\ [CsvNext]_csvVars
           /\ [TradesNext]_tradeVars
           /\ UNCHANGED amounts
  <1>1. CASE UNCHANGED vars
    BY <1>1 DEF vars
  <1>2. CASE Next /\ InTree
    <2>1. UNCHANGED <<csvVars, tradeVars, amounts>>
      BY <1>2 DEF InTree
    <2>2. \A r : \A targets : CheckPut(r, targets) => targets \in SUBSET Cats
      BY DEF CheckPut, Allocatable, Roots, Live
    <2>3. TreeNext \/ UNCHANGED treeVars
      BY <1>2, <2>2, Zenon DEF Next, InCsv, InTrades, TreeNext
    <2> QED
      BY <2>1, <2>3
  <1>3. CASE Next /\ InCsv
    <2>1. UNCHANGED <<treeVars, tradeVars, amounts>>
      BY <1>3 DEF InCsv
    <2>2. CsvNext \/ UNCHANGED csvVars
      BY <1>3, Zenon DEF Next, InTree, InTrades, CsvNext
    <2> QED
      BY <2>1, <2>2
  <1>4. CASE Next /\ InTrades
    <2>1. UNCHANGED <<treeVars, csvVars, amounts>>
      BY <1>4 DEF InTrades
    <2>2. TradesNext \/ UNCHANGED tradeVars
      BY <1>4, Zenon DEF Next, InTree, InCsv, TradesNext
    <2> QED
      BY <2>1, <2>2
  <1>5. Next => InTree \/ InCsv \/ InTrades
    BY Zenon DEF Next
  <1> QED
    BY <1>1, <1>2, <1>3, <1>4, <1>5

\* A behaviour of the whole is one of the categories, of the CSV import and of
\* the trades, so that what is proved of each holds of the whole.
THEOREM RecordsRunAll == Spec => TreeSpec /\ CsvSpec /\ TradesSpec
  <1>1. Init => TreeInit /\ CsvInit /\ TradesInit
    BY DEF Init
  <1>2. [Next]_vars => [TreeNext]_treeVars /\ [CsvNext]_csvVars /\ [TradesNext]_tradeVars
    BY StepsOfRecords
  <1> QED
    BY <1>1, <1>2, PTL DEF Spec, TreeSpec, CsvSpec, TradesSpec

\* The types of all three components are kept, whichever of them moves.
THEOREM RecordsTypesHold == Spec => []RecordsTypeOK
  <1>1. CsvInv => CsvTypeOK
    BY DEF CsvInv
  <1>2. CsvSpec => []CsvTypeOK
    BY CsvInvInit, CsvInvStep, <1>1, PTL DEF CsvSpec
  <1>3. TreeTypeOK /\ CsvTypeOK /\ TradesTypeOK => RecordsTypeOK
    BY DEF RecordsTypeOK
  <1> QED
    BY RecordsRunAll, TreeTypesHold, TradesTypesHold, <1>2, <1>3, PTL

-----------------------------------------------------------------------------
(* The amounts of any report or plan *)

LEMMA AmountsStay == Spec => []AmountsTyped
  <1>1. Init => AmountsTyped
    BY AmountsTypedInit DEF Init
  <1>2. AmountsTyped /\ [Next]_vars => AmountsTyped'
    BY StepsOfRecords DEF AmountsTyped
  <1> QED
    BY <1>1, <1>2, PTL DEF Spec

\* splitInstallments(): the installments of any plan add up to its total to the
\* cent, whatever it is divided into.
THEOREM InstallmentsOfAnyPlanAddUp == Spec => []SplitAddsUp
  BY AmountsStay, SplitsAddUp, PTL

\* distributePercentages(): the percentages of any amounts add up to exactly
\* 100, each within a hundredth of its share, wherever floating point fell short.
THEOREM PercentagesOfAnyReportAddUp == Spec => []SharesAddUp
  BY AmountsStay, AllSharesAddUp, PTL

=============================================================================
