-------------------------- MODULE RecurrenceProofs --------------------------
(***************************************************************************)
(* Theorems about Recurrence, for every set of schedules, plans, edits and *)
(* concurrent requests, and every calendar.                                *)
(***************************************************************************)
EXTENDS Recurrence, FiniteSetTheorems, TLAPS

-----------------------------------------------------------------------------
(* Dates and occurrences. *)

LEMMA DateTypes ==
    /\ \A month \in Months : LastDayOf(month) \in Date
    /\ \A month \in Months, day \in Nat \ {0} : OccurrenceDate(month, day) \in Date
    /\ \A date \in Todays : HorizonOf(date) \in Date
  <1>1. ASSUME NEW month \in Months PROVE LastDayOf(month) \in Date
    BY RecurrenceAssumption DEF LastDayOf, Date
  <1>2. ASSUME NEW month \in Months, NEW day \in Nat \ {0}
        PROVE  OccurrenceDate(month, day) \in Date
    BY RecurrenceAssumption DEF OccurrenceDate, Date, Months
  <1> QED
    BY <1>1, <1>2, RecurrenceAssumption DEF HorizonOf

\* The months a run works on are in play.
LEMMA OccurrencesInPlay ==
    ASSUME NEW copy \in Rule, NEW until \in Date, NEW n \in Nat
    PROVE  /\ FirstMonth(copy) \in Nat
           /\ Occurrences(copy, until, n) \subseteq Months
  <1>1. FirstMonth(copy) \in Nat
    BY RecurrenceAssumption DEF FirstMonth, Rule, Date, Months
  <1> QED
    BY <1>1, RecurrenceAssumption DEF Occurrences, Months, Date

\* The last of some months is one of them, and none comes after it.
LEMMA LastOfType ==
    ASSUME NEW months \in SUBSET Months, months # {}
    PROVE  LastOf(months) \in months /\ \A m \in months : m <= LastOf(months)
  <1> DEFINE Left == {LastMonth - m : m \in months}
  <1>1. LastMonth \in Nat
    BY RecurrenceAssumption
  <1>2. \A m \in months : m \in Int /\ LastMonth - m \in Nat
    BY <1>1 DEF Months
  <1>3. Left \subseteq Nat /\ Left # {}
    BY <1>2
  <1>4. PICK n \in Left : \A m \in Left : <<m, n>> \notin OpToRel(<, Nat)
    BY <1>3, WFMin, NatLessThanWellFounded
  <1>5. PICK month \in months : n = LastMonth - month
    OBVIOUS
  <1>6. \A m \in months : ~(LastMonth - m < n)
    BY <1>3, <1>4 DEF OpToRel
  <1>7. \A m \in months : m <= month
    BY <1>1, <1>2, <1>5, <1>6
  <1> QED
    BY <1>7 DEF LastOf

\* The fields of a body or a patch have the types of the columns.
LEMMA FieldTypes ==
    ASSUME NEW record, OfFields(record)
    PROVE  /\ "step" \in DOMAIN record => record["step"] \in Nat \ {0}
           /\ "dayOfMonth" \in DOMAIN record => record["dayOfMonth"] \in Nat \ {0}
           /\ "startDate" \in DOMAIN record => record["startDate"] \in Date
           /\ "endDate" \in DOMAIN record => record["endDate"] \in Date \cup {None}
           /\ "totalOccurrences" \in DOMAIN record =>
                 record["totalOccurrences"] \in (Nat \ {0}) \cup {None}
  BY DEF OfFields, Field
-----------------------------------------------------------------------------
(* Type correctness. *)

\* A request that generates has fixed a horizon, one that updates has a body.
PendingOK ==
    \A r \in Requests :
        /\ request[r].step = "generate" => request[r].until \in Date
        /\ request[r].step = "update" => request[r].patch \in Patches

TypeInv == TypeOK /\ PendingOK

LEMMA LiveType == TypeOK /\ Live => rule \in Rule
  BY DEF TypeOK, Live, Unborn, Deleted

LEMMA PendingType ==
    ASSUME TypeOK, NEW r \in Requests, request[r] # Idle
    PROVE  request[r] \in Pending
  BY DEF TypeOK

\* Rows inserted for months in play are dated in the calendar.
LEMMA InsertType ==
    ASSUME TypeOK, NEW months \in SUBSET Months, NEW dayOfMonth \in Nat \ {0},
           Insert(months, dayOfMonth)
    PROVE  /\ row' \in [Months -> Date \cup {None}]
           /\ produced' \in [Months -> Nat]
  BY DateTypes DEF Insert, Inserted, TypeOK

LEMMA NewRuleType ==
    ASSUME NEW schedule, NEW generatedUntil \in Date \cup {None},
           schedule.step \in Nat \ {0}, schedule.dayOfMonth \in Nat \ {0},
           schedule.startDate \in Date, schedule.endDate \in Date \cup {None},
           schedule.totalOccurrences \in (Nat \ {0}) \cup {None}
    PROVE  NewRule(schedule, generatedUntil) \in Rule
  BY DEF NewRule, Rule

LEMMA UpdatedType ==
    ASSUME rule \in Rule, NEW patch \in Patches
    PROVE  Updated(patch) \in Rule
  <1>1. OfFields(patch)
    BY RecurrenceAssumption
  <1>2. /\ PatchedField(patch, rule, "step") \in Nat \ {0}
        /\ PatchedField(patch, rule, "dayOfMonth") \in Nat \ {0}
        /\ PatchedField(patch, rule, "startDate") \in Date
        /\ PatchedField(patch, rule, "endDate") \in Date \cup {None}
        /\ PatchedField(patch, rule, "totalOccurrences") \in (Nat \ {0}) \cup {None}
    BY <1>1, FieldTypes DEF PatchedField, Rule
  <1> QED
    BY <1>2 DEF Updated, Rule

\* The months of a plan are in play, and its rule is one.
LEMMA PlanTypes ==
    ASSUME NEW plan \in Plans
    PROVE  /\ plan.installments \in Nat \ {0}
           /\ plan.firstPaymentDate.day \in Nat \ {0}
           /\ PlanRule(plan) \in Rule
           /\ [PlanRule(plan) EXCEPT !.endDate = None, !.generatedUntil = None] \in Rule
           /\ LastDayOf(plan.firstPaymentDate.month + plan.installments) \in Date
           /\ PlanMonths(plan) \subseteq Months
  <1>1. /\ plan.installments \in Nat \ {0}
        /\ plan.firstPaymentDate \in Date
        /\ plan.firstPaymentDate.month + plan.installments \in Months
    BY RecurrenceAssumption
  <1>2. /\ plan.firstPaymentDate.day \in Nat \ {0}
        /\ plan.firstPaymentDate.month + plan.installments - 1 \in Months
    BY <1>1, RecurrenceAssumption DEF Date, Months
  <1>3. OccurrenceDate(plan.firstPaymentDate.month + plan.installments - 1,
                       plan.firstPaymentDate.day) \in Date
    BY <1>2, DateTypes
  <1>4. PlanRule(plan) \in Rule
    BY <1>1, <1>2, <1>3 DEF PlanRule, NewRule, Rule
  <1>5. [PlanRule(plan) EXCEPT !.endDate = None, !.generatedUntil = None] \in Rule
    BY <1>4 DEF Rule
  <1>6. LastDayOf(plan.firstPaymentDate.month + plan.installments) \in Date
    BY <1>1, DateTypes
  <1>7. PlanMonths(plan) \subseteq Months
    BY <1>5, <1>6, OccurrencesInPlay DEF PlanMonths
  <1> QED
    BY <1>1, <1>2, <1>4, <1>5, <1>6, <1>7

LEMMA RowsFinite == TypeOK => IsFiniteSet(Rows) /\ AlreadyGenerated \in Nat
  <1>1. LastMonth \in Nat
    BY RecurrenceAssumption
  <1>2. IsFiniteSet(Months)
    BY <1>1, FS_Interval DEF Months
  <1>3. Rows \in SUBSET Months
    BY DEF Rows
  <1> QED
    BY <1>2, <1>3, FS_Subset, FS_CardinalityType DEF AlreadyGenerated

LEMMA TypeInit == Init => TypeInv
  BY DEF Init, TypeInv, TypeOK, PendingOK, Unborn, Idle

\* A read leaves a well-typed request behind.
LEMMA ReadType ==
    ASSUME TypeInv, NEW r \in Requests,
           NEW step \in {"generate", "update", "remove", "retire", "deactivate", "cancel"},
           NEW until \in Date \cup {None}, NEW patch \in Patches \cup {None},
           step = "generate" => until \in Date,
           step = "update" => patch \in Patches,
           Read(r, step, until, patch)
    PROVE  TypeInv'
  <1>1. [step |-> step, rule |-> rule, until |-> until, patch |-> patch] \in Pending
    BY LiveType DEF Read, Pending, TypeInv
  <1> QED
    BY <1>1 DEF Read, TypeInv, TypeOK, PendingOK

LEMMA LoadType ==
    ASSUME TypeInv, NEW r \in Requests, Load(r)
    PROVE  TypeInv'
  <1>1. today \in Todays /\ HorizonOf(today) \in Date
    BY DateTypes DEF TypeInv, TypeOK
  <1>2. today \in Date
    BY <1>1, RecurrenceAssumption
  <1>3. CASE LoadForGenerate(r)
    BY <1>1, <1>3, ReadType DEF LoadForGenerate
  <1>4. CASE LoadForCatchUp(r)
    BY <1>1, <1>4, ReadType DEF LoadForCatchUp
  <1>5. ASSUME NEW patch \in Patches, LoadForUpdate(r, patch)
        PROVE  TypeInv'
    BY <1>5, ReadType DEF LoadForUpdate
  <1>6. CASE LoadForRemove(r)
    BY <1>6, ReadType DEF LoadForRemove
  <1>7. CASE LoadForDeactivate(r)
    BY <1>7, ReadType DEF LoadForDeactivate
  <1>8. CASE LoadForCancel(r)
    BY <1>2, <1>8, ReadType DEF LoadForCancel
  <1> QED
    BY <1>3, <1>4, <1>5, <1>6, <1>7, <1>8 DEF Load

LEMMA CommitType ==
    ASSUME TypeInv, NEW r \in Requests, Commit(r)
    PROVE  TypeInv'
  <1>1. ASSUME Done(r) PROVE /\ request' \in [Requests -> Pending \cup {Idle}]
                             /\ PendingOK'
    BY <1>1 DEF Done, TypeInv, TypeOK, PendingOK, Idle
  <1>2. CASE Generate(r)
    <2> DEFINE copy   == request[r].rule
               until  == request[r].until
               months == Occurrences(copy, until, AlreadyGenerated)
    <2>1. request[r] \in Pending
      BY <1>2, PendingType DEF Generate, TypeInv, Idle
    <2>2. copy \in Rule /\ until \in Date /\ copy.dayOfMonth \in Nat \ {0}
      BY <1>2, <2>1 DEF Generate, TypeInv, PendingOK, Pending, Rule
    <2>3. months \in SUBSET Months /\ months # {}
      BY <1>2, <2>2, RowsFinite, OccurrencesInPlay DEF Generate, TypeInv
    <2>4. Watermark(copy, until, months) \in Date
      BY <2>2, <2>3, LastOfType, DateTypes DEF Watermark
    <2>5. rule' \in Rule
      BY <1>2, <2>4, LiveType DEF Generate, TypeInv, Rule
    <2>6. Insert(months, copy.dayOfMonth)
      BY <1>2 DEF Generate
    <2>7. /\ row' \in [Months -> Date \cup {None}]
          /\ produced' \in [Months -> Nat]
      BY <2>2, <2>3, <2>6, InsertType DEF TypeInv
    <2> QED
      BY <1>1, <1>2, <2>5, <2>7 DEF Generate, TypeInv, TypeOK
  <1>3. CASE UpdateRule(r)
    <2>1. request[r].patch \in Patches /\ rule \in Rule
      BY <1>3, LiveType DEF UpdateRule, TypeInv, PendingOK
    <2>2. rule' \in Rule
      BY <1>3, <2>1, UpdatedType DEF UpdateRule
    <2> QED
      BY <1>1, <1>3, <2>2 DEF UpdateRule, TypeInv, TypeOK
  <1>4. CASE CountForRemove(r)
    <2>1. request[r] \in Pending
      BY <1>4, PendingType DEF CountForRemove, TypeInv, Idle
    <2> QED
      BY <1>4, <2>1 DEF CountForRemove, TypeInv, TypeOK, PendingOK, Pending
  <1>5. CASE Deactivate(r)
    <2>1. rule' \in Rule
      BY <1>5, LiveType DEF Deactivate, Deactivated, TypeInv, Rule
    <2> QED
      BY <1>1, <1>5, <2>1 DEF Deactivate, TypeInv, TypeOK
  <1>6. CASE DeleteRule(r)
    BY <1>1, <1>6 DEF DeleteRule, TypeInv, TypeOK
  <1>7. CASE CancelPlan(r)
    <2>1. rule' \in Rule
      BY <1>7, LiveType DEF CancelPlan, Deactivated, TypeInv, Rule
    <2>2. row' \in [Months -> Date \cup {None}]
      BY <1>7 DEF CancelPlan, TypeInv, TypeOK
    <2> QED
      BY <1>1, <1>7, <2>1, <2>2 DEF CancelPlan, TypeInv, TypeOK
  <1>8. CASE Finish(r)
    BY <1>1, <1>8 DEF Finish, TypeInv, TypeOK
  <1> QED
    BY <1>2, <1>3, <1>4, <1>5, <1>6, <1>7, <1>8 DEF Commit

LEMMA TypeStep == TypeInv /\ [Next]_vars => TypeInv'
  <1> SUFFICES ASSUME TypeInv, [Next]_vars PROVE TypeInv'
    OBVIOUS
  <1>1. CASE UNCHANGED vars
    BY <1>1 DEF vars, TypeInv, TypeOK, PendingOK
  <1>2. ASSUME NEW schedule \in Schedules, CreateRule(schedule)
        PROVE  TypeInv'
    <2>1. OfFields(schedule) /\ DOMAIN schedule = DOMAIN Field
      BY RecurrenceAssumption
    <2>2. DOMAIN Field = {"step", "dayOfMonth", "startDate", "endDate", "totalOccurrences"}
      BY DEF Field
    <2>3. NewRule(schedule, None) \in Rule
      BY <2>1, <2>2, FieldTypes, NewRuleType
    <2> QED
      BY <1>2, <2>3 DEF CreateRule, TypeInv, TypeOK, PendingOK
  <1>3. ASSUME NEW plan \in Plans, CreatePlan(plan)
        PROVE  TypeInv'
    <2>1. /\ row' \in [Months -> Date \cup {None}]
          /\ produced' \in [Months -> Nat]
      BY <1>3, PlanTypes, InsertType DEF CreatePlan, TypeInv
    <2> QED
      BY <1>3, <2>1, PlanTypes DEF CreatePlan, TypeInv, TypeOK, PendingOK
  <1>4. ASSUME NEW r \in Requests, Load(r) \/ Commit(r)
        PROVE  TypeInv'
    BY <1>4, LoadType, CommitType
  <1>5. ASSUME NEW from \in Months, NEW to \in Movable, MoveRow(from, to)
        PROVE  TypeInv'
    BY <1>5, RecurrenceAssumption DEF MoveRow, TypeInv, TypeOK, PendingOK
  <1>6. ASSUME NEW month \in Removable, RemoveRow(month)
        PROVE  TypeInv'
    BY <1>6, RecurrenceAssumption DEF RemoveRow, TypeInv, TypeOK, PendingOK
  <1>7. CASE Tick
    BY <1>7 DEF Tick, TypeInv, TypeOK, PendingOK
  <1> QED
    BY <1>1, <1>2, <1>3, <1>4, <1>5, <1>6, <1>7 DEF Next

\* The state is well-typed: in particular every row and every watermark is a
\* date of the calendar, also in months shorter than dayOfMonth.
THEOREM TypeCorrect == Spec => []TypeOK
  <1>1. TypeInv => TypeOK
    BY DEF TypeInv
  <1> QED
    BY <1>1, TypeInit, TypeStep, PTL DEF Spec
-----------------------------------------------------------------------------
(* The total. *)

\* What is left of the total bounds the occurrences of a run.
LEMMA OccurrencesWithinTotal ==
    ASSUME NEW copy \in Rule, NEW until \in Date, NEW n \in Nat,
           copy.totalOccurrences # None, n <= copy.totalOccurrences
    PROVE  /\ IsFiniteSet(Occurrences(copy, until, n))
           /\ n + Cardinality(Occurrences(copy, until, n)) <= copy.totalOccurrences
  <1> DEFINE months == Occurrences(copy, until, n)
             first  == FirstMonth(copy)
             left   == 0 .. (copy.totalOccurrences - n - 1)
             nth    == [month \in months |-> (month - first) \div copy.step]
  <1>1. /\ copy.totalOccurrences \in Nat /\ copy.step \in Nat \ {0}
        /\ first \in Nat /\ until.month \in Nat
    BY OccurrencesInPlay DEF Rule, Date, Months
  <1>2. ASSUME NEW a \in Nat, NEW s \in Nat \ {0}, a % s = 0
        PROVE  a \div s \in Nat /\ a = s * (a \div s)
    BY <1>2
  <1>3. ASSUME NEW month \in months
        PROVE  /\ month \in Nat /\ month - first \in Nat
               /\ (month - first) % copy.step = 0
               /\ n + (month - first) \div copy.step < copy.totalOccurrences
    BY <1>1 DEF Occurrences, OnGrid, WithinTotal
  <1> HIDE DEF months, first
  <1>4. ASSUME NEW month \in months
        PROVE  /\ nth[month] \in left
               /\ month - first = copy.step * nth[month]
    <2>1. /\ (month - first) \div copy.step \in Nat
          /\ month - first = copy.step * ((month - first) \div copy.step)
      BY <1>1, <1>2, <1>3
    <2>2. nth[month] = (month - first) \div copy.step
      OBVIOUS
    <2>3. nth[month] \in Nat /\ n + nth[month] < copy.totalOccurrences
      BY <1>3, <2>1, <2>2
    <2> QED
      BY <1>1, <2>1, <2>2, <2>3
  <1>5. nth \in [months -> left]
    <2>1. \A month \in months : (month - first) \div copy.step \in left
      BY <1>4
    <2> QED
      BY <2>1
  <1> HIDE DEF nth
  <1>6. nth \in Injection(months, left)
    <2>1. ASSUME NEW a \in months, NEW b \in months, nth[a] = nth[b]
          PROVE  a = b
      <3>1. a - first = b - first
        BY <1>4, <2>1
      <3>2. a \in Nat /\ b \in Nat /\ first \in Nat
        BY <1>1, <1>3
      <3> QED
        BY <3>1, <3>2
    <2> QED
      BY <1>5, <2>1 DEF Injection, IsInjective
  <1>7. /\ IsFiniteSet(left)
        /\ Cardinality(left) = copy.totalOccurrences - n
    <2>1. copy.totalOccurrences - n - 1 \in Int
      BY <1>1
    <2>2. Cardinality(left) = IF 0 > copy.totalOccurrences - n - 1 THEN 0
                              ELSE copy.totalOccurrences - n - 1 - 0 + 1
      BY <2>1, FS_Interval
    <2>3. IsFiniteSet(left)
      BY <2>1, FS_Interval
    <2> HIDE DEF left
    <2> QED
      BY <1>1, <2>2, <2>3
  <1>8. /\ IsFiniteSet(months)
        /\ Cardinality(months) <= Cardinality(left)
    BY <1>6, <1>7, FS_Injection
  <1> QED
    <2>1. Cardinality(months) \in Nat
      BY <1>8, FS_CardinalityType
    <2>2. n + Cardinality(months) <= copy.totalOccurrences
      BY <1>1, <1>7, <1>8, <2>1
    <2> QED
      BY <1>8, <2>2 DEF months

\* Inserting rows adds at most as many as there are months to insert.
LEMMA InsertBound ==
    ASSUME TypeOK, NEW months \in SUBSET Months, IsFiniteSet(months),
           NEW dayOfMonth \in Nat \ {0}, Insert(months, dayOfMonth)
    PROVE  /\ Cardinality(Rows') \in Nat
           /\ Cardinality(Rows') <= Cardinality(Rows) + Cardinality(months)
  <1>1. Rows' \subseteq Rows \cup months
    BY DEF Insert, Inserted, Rows
  <1>2. IsFiniteSet(Rows)
    BY RowsFinite
  <1>3. /\ IsFiniteSet(Rows \cup months)
        /\ Cardinality(Rows \cup months)
              = Cardinality(Rows) + Cardinality(months) - Cardinality(Rows \cap months)
    BY <1>2, FS_Union
  <1>4. IsFiniteSet(Rows \cap months)
    BY <1>2, FS_Subset
  <1>5. /\ Cardinality(Rows) \in Nat /\ Cardinality(months) \in Nat
        /\ Cardinality(Rows \cap months) \in Nat
    BY <1>2, <1>4, FS_CardinalityType
  <1>6. /\ IsFiniteSet(Rows')
        /\ Cardinality(Rows') <= Cardinality(Rows \cup months)
    BY <1>1, <1>3, FS_Subset
  <1>7. Cardinality(Rows') \in Nat
    BY <1>6, FS_CardinalityType
  <1> QED
    BY <1>3, <1>5, <1>6, <1>7

\* The condition: a client does not edit the total itself.
TotalKept == \A patch \in Patches : "totalOccurrences" \notin DOMAIN patch

\* RowsWithinTotal is not inductive: a run bounds its rows by the total of the
\* copy it read, which is the rule's as long as nobody edits it; and a plan must
\* find no rows of its rule.
NothingBefore == rule = Unborn => Rows = {} /\ \A r \in Requests : request[r] = Idle

CopiesAgree ==
    Live => \A r \in Requests :
        request[r] # Idle => request[r].rule.totalOccurrences = rule.totalOccurrences

TotalInv == TypeInv /\ RowsWithinTotal /\ NothingBefore /\ CopiesAgree

LEMMA TotalInit == Init => TotalInv
  BY TypeInit DEF Init, TotalInv, RowsWithinTotal, NothingBefore, CopiesAgree, Live,
                  Rows, Unborn

LEMMA RowsCounted == TypeOK => Cardinality(Rows) \in Nat
  BY RowsFinite, FS_CardinalityType

\* The step leaves the total of a rule alone.
SameTotal == Live' => Live /\ rule'.totalOccurrences = rule.totalOccurrences

\* A moved row is still one row.
LEMMA MovedRows ==
    ASSUME TypeOK, NEW from \in Months, NEW to \in Months, MoveRow(from, to)
    PROVE  Cardinality(Rows') = Cardinality(Rows)
  <1>1. /\ from \in Rows /\ to \notin Rows
        /\ Rows' = (Rows \ {from}) \cup {to}
    BY DEF MoveRow, Rows, TypeOK
  <1>2. IsFiniteSet(Rows) /\ Cardinality(Rows) \in Nat
    BY RowsFinite, FS_CardinalityType
  <1>3. /\ IsFiniteSet(Rows \ {from})
        /\ Cardinality(Rows \ {from}) = Cardinality(Rows) - 1
    BY <1>1, <1>2, FS_RemoveElement
  <1>4. Cardinality((Rows \ {from}) \cup {to}) = Cardinality(Rows \ {from}) + 1
    BY <1>1, <1>3, FS_AddElement
  <1> QED
    BY <1>1, <1>2, <1>3, <1>4

\* A step that adds no row stays within the total.
LEMMA FewerRows ==
    ASSUME TotalInv, SameTotal, Rows' \subseteq Rows
    PROVE  RowsWithinTotal'
  <1>1. TypeOK
    BY DEF TotalInv, TypeInv
  <1>2. Cardinality(Rows') \in Nat /\ Cardinality(Rows') <= Cardinality(Rows)
    BY <1>1, RowsFinite, FS_Subset, FS_CardinalityType
  <1>3. Cardinality(Rows) \in Nat
    BY <1>1, RowsCounted
  <1>4. SUFFICES ASSUME Live', rule'.totalOccurrences # None
                 PROVE  Cardinality(Rows') <= rule'.totalOccurrences
    BY DEF RowsWithinTotal
  <1>5. Live /\ rule'.totalOccurrences = rule.totalOccurrences
    BY <1>4 DEF SameTotal
  <1>6. Cardinality(Rows) <= rule.totalOccurrences
    BY <1>4, <1>5 DEF TotalInv, RowsWithinTotal
  <1>7. rule.totalOccurrences \in Nat
    BY <1>1, <1>4, <1>5, LiveType DEF Rule
  <1> QED
    BY <1>2, <1>3, <1>5, <1>6, <1>7

\* Requests end, or go on with the copy they have.
LEMMA SameCopies ==
    ASSUME TotalInv, SameTotal,
           \A s \in Requests : \/ request'[s] = Idle
                               \/ request[s] # Idle /\ request'[s].rule = request[s].rule
    PROVE  CopiesAgree'
  <1>1. SUFFICES ASSUME Live', NEW s \in Requests, request'[s] # Idle
                 PROVE  request'[s].rule.totalOccurrences = rule'.totalOccurrences
    BY DEF CopiesAgree
  <1>2. Live /\ rule'.totalOccurrences = rule.totalOccurrences
    BY <1>1 DEF SameTotal
  <1>3. request[s] # Idle /\ request'[s].rule = request[s].rule
    BY <1>1
  <1>4. request[s].rule.totalOccurrences = rule.totalOccurrences
    BY <1>2, <1>3 DEF TotalInv, CopiesAgree
  <1> QED
    BY <1>2, <1>3, <1>4

\* The request that ends is idle, the others go on.
LEMMA DoneCopies ==
    ASSUME TotalInv, SameTotal, NEW r \in Requests, Done(r)
    PROVE  CopiesAgree'
  <1>1. request' = [request EXCEPT ![r] = Idle] /\ DOMAIN request = Requests
    BY DEF Done, TotalInv, TypeInv, TypeOK
  <1>2. \A s \in Requests : \/ request'[s] = Idle
                            \/ request[s] # Idle /\ request'[s].rule = request[s].rule
    BY <1>1
  <1> QED
    BY <1>2, SameCopies

\* A rule that is about to be written was there when it was read.
LEMMA WrittenRule ==
    ASSUME TotalInv, Live
    PROVE  rule \in Rule /\ rule # Unborn
  BY LiveType DEF TotalInv, TypeInv, Live, Unborn

LEMMA LoadTotal ==
    ASSUME TotalInv, TypeInv', NEW r \in Requests, Live, Load(r)
    PROVE  TotalInv'
  <1>1. PICK q : q.rule = rule /\ request' = [request EXCEPT ![r] = q]
    BY DEF Load, Read, LoadForGenerate, LoadForCatchUp, LoadForUpdate, LoadForRemove,
           LoadForDeactivate, LoadForCancel
  <1>2. UNCHANGED <<rule, row>>
    BY DEF Load, Read, LoadForGenerate, LoadForCatchUp, LoadForUpdate, LoadForRemove,
           LoadForDeactivate, LoadForCancel
  <1>3. DOMAIN request = Requests
    BY DEF TotalInv, TypeInv, TypeOK
  <1>4. \A s \in Requests : request'[s] = IF s = r THEN q ELSE request[s]
    BY <1>1, <1>3
  <1>5. CopiesAgree'
    BY <1>1, <1>2, <1>4 DEF TotalInv, CopiesAgree
  <1>6. SameTotal /\ Rows' = Rows
    BY <1>2 DEF SameTotal, Rows, Live
  <1>7. RowsWithinTotal'
    BY <1>6, FewerRows
  <1>8. NothingBefore'
    BY <1>2, WrittenRule DEF NothingBefore
  <1> QED
    BY <1>5, <1>7, <1>8 DEF TotalInv

LEMMA GenerateTotal ==
    ASSUME TotalInv, TypeInv', NEW r \in Requests, Generate(r)
    PROVE  TotalInv'
  <1> DEFINE copy   == request[r].rule
             until  == request[r].until
             n      == AlreadyGenerated
             months == Occurrences(copy, until, n)
  <1>1. request[r] \in Pending /\ request[r] # Idle
    BY PendingType DEF Generate, TotalInv, TypeInv, Idle
  <1>2. /\ copy \in Rule /\ until \in Date /\ copy.dayOfMonth \in Nat \ {0}
        /\ Live /\ rule \in Rule /\ copy.totalOccurrences = rule.totalOccurrences
    BY <1>1, WrittenRule DEF Generate, TotalInv, TypeInv, PendingOK, Pending, Rule,
                             CopiesAgree
  <1>3. n \in Nat /\ n = Cardinality(Rows) /\ months \in SUBSET Months
    BY <1>2, RowsFinite, OccurrencesInPlay DEF TotalInv, TypeInv, AlreadyGenerated
  <1>4. Insert(months, copy.dayOfMonth) /\ Done(r)
    BY DEF Generate
  <1>5. SameTotal /\ rule' # Unborn /\ rule'.totalOccurrences = rule.totalOccurrences
    BY <1>2 DEF Generate, SameTotal, Live, Rule, Unborn
  <1>6. RowsWithinTotal'
    <2> SUFFICES ASSUME rule'.totalOccurrences # None
                 PROVE  Cardinality(Rows') <= rule'.totalOccurrences
      BY DEF RowsWithinTotal
    <2>1. n <= copy.totalOccurrences /\ copy.totalOccurrences # None
      BY <1>2, <1>3, <1>5 DEF TotalInv, RowsWithinTotal
    <2>2. /\ IsFiniteSet(months)
          /\ n + Cardinality(months) <= copy.totalOccurrences
      BY <1>2, <1>3, <2>1, OccurrencesWithinTotal
    <2>3. /\ Cardinality(Rows') \in Nat
          /\ Cardinality(Rows') <= Cardinality(Rows) + Cardinality(months)
      BY <1>2, <1>3, <1>4, <2>2, InsertBound DEF TotalInv, TypeInv
    <2>4. Cardinality(months) \in Nat /\ copy.totalOccurrences \in Nat
      BY <1>2, <2>1, <2>2, FS_CardinalityType DEF Rule
    <2> HIDE DEF months, copy, n
    <2> QED
      BY <1>2, <1>3, <1>5, <2>2, <2>3, <2>4
  <1>7. CopiesAgree'
    BY <1>4, <1>5, DoneCopies
  <1> QED
    BY <1>5, <1>6, <1>7 DEF TotalInv, NothingBefore

\* What the other writes have in common: the request ends, the rule keeps its
\* total, no row is added.
LEMMA WriteTotal ==
    ASSUME TotalInv, TypeInv', NEW r \in Requests, Done(r), SameTotal,
           Rows' \subseteq Rows, rule' # Unborn
    PROVE  TotalInv'
  <1>1. RowsWithinTotal'
    BY FewerRows
  <1>2. CopiesAgree'
    BY DoneCopies
  <1> QED
    BY <1>1, <1>2 DEF TotalInv, NothingBefore

LEMMA CommitTotal ==
    ASSUME TotalKept, TotalInv, TypeInv', NEW r \in Requests, Commit(r)
    PROVE  TotalInv'
  <1>1. CASE Generate(r)
    BY <1>1, GenerateTotal
  <1>2. CASE UpdateRule(r)
    <2>1. Live /\ request[r].patch \in Patches /\ rule \in Rule
      BY <1>2, WrittenRule DEF UpdateRule, TotalInv, TypeInv, PendingOK
    <2>2. rule' # Unborn /\ rule'.totalOccurrences = rule.totalOccurrences
      BY <1>2, <2>1 DEF UpdateRule, Updated, PatchedField, TotalKept, Rule, Unborn
    <2>3. SameTotal /\ Rows' \subseteq Rows /\ Done(r)
      BY <1>2, <2>1, <2>2 DEF UpdateRule, SameTotal, Rows
    <2> QED
      BY <2>2, <2>3, WriteTotal
  <1>3. CASE CountForRemove(r)
    <2>1. request[r] \in Pending /\ request[r] # Idle
      BY <1>3, PendingType DEF CountForRemove, TotalInv, TypeInv, Idle
    <2>2. UNCHANGED <<rule, row>> /\ rule # Unborn
      BY <1>3, <2>1 DEF CountForRemove, TotalInv, NothingBefore
    <2>3. SameTotal /\ Rows' \subseteq Rows
      BY <2>2 DEF SameTotal, Live, Rows
    <2>4. \A s \in Requests : \/ request'[s] = Idle
                              \/ request[s] # Idle /\ request'[s].rule = request[s].rule
      BY <1>3, <2>1 DEF CountForRemove, TotalInv, TypeInv, TypeOK, Pending
    <2>5. RowsWithinTotal' /\ CopiesAgree'
      BY <2>3, <2>4, FewerRows, SameCopies
    <2> QED
      BY <2>2, <2>5 DEF TotalInv, NothingBefore
  <1>4. CASE Deactivate(r)
    <2>1. Live /\ rule \in Rule
      BY <1>4, WrittenRule DEF Deactivate
    <2>2. rule' # Unborn /\ rule'.totalOccurrences = rule.totalOccurrences
      BY <1>4, <2>1 DEF Deactivate, Deactivated, Rule, Unborn
    <2>3. SameTotal /\ Rows' \subseteq Rows /\ Done(r)
      BY <1>4, <2>1, <2>2 DEF Deactivate, SameTotal, Rows
    <2> QED
      BY <2>2, <2>3, WriteTotal
  <1>5. CASE DeleteRule(r)
    <2>1. rule' # Unborn /\ SameTotal /\ Rows' \subseteq Rows /\ Done(r)
      BY <1>5 DEF DeleteRule, Deleted, Unborn, SameTotal, Live, Rows
    <2> QED
      BY <2>1, WriteTotal
  <1>6. CASE CancelPlan(r)
    <2>1. Live /\ rule \in Rule
      BY <1>6, WrittenRule DEF CancelPlan
    <2>2. rule' # Unborn /\ rule'.totalOccurrences = rule.totalOccurrences
      BY <1>6, <2>1 DEF CancelPlan, Deactivated, Rule, Unborn
    <2>3. Rows' \subseteq Rows
      BY <1>6 DEF CancelPlan, Rows
    <2>4. SameTotal /\ Done(r)
      BY <1>6, <2>1, <2>2 DEF CancelPlan, SameTotal
    <2> QED
      BY <2>2, <2>3, <2>4, WriteTotal
  <1>7. CASE Finish(r)
    <2>1. rule' # Unborn /\ SameTotal /\ Rows' \subseteq Rows /\ Done(r)
      BY <1>7 DEF Finish, TotalInv, NothingBefore, SameTotal, Live, Rows
    <2> QED
      BY <2>1, WriteTotal
  <1> QED
    BY <1>1, <1>2, <1>3, <1>4, <1>5, <1>6, <1>7 DEF Commit

\* A plan finds no rows of its rule and inserts at most its installments.
LEMMA PlanTotal ==
    ASSUME TotalInv, TypeInv', NEW plan \in Plans, CreatePlan(plan)
    PROVE  TotalInv'
  <1> DEFINE copy   == [PlanRule(plan) EXCEPT !.endDate = None, !.generatedUntil = None]
             until  == LastDayOf(plan.firstPaymentDate.month + plan.installments)
             months == PlanMonths(plan)
  <1>1. /\ plan.installments \in Nat \ {0} /\ plan.firstPaymentDate.day \in Nat \ {0}
        /\ copy \in Rule /\ until \in Date /\ months \in SUBSET Months
        /\ months = Occurrences(copy, until, 0)
    BY PlanTypes DEF PlanMonths
  <1>2. copy.totalOccurrences = plan.installments /\ plan.installments # None
    BY <1>1, RecurrenceAssumption DEF PlanRule, NewRule
  <1>3. Rows = {} /\ \A s \in Requests : request'[s] = Idle
    BY DEF CreatePlan, TotalInv, NothingBefore
  <1>4. rule' # Unborn /\ rule'.totalOccurrences = plan.installments
    BY DEF CreatePlan, PlanRule, NewRule, Unborn
  <1> HIDE DEF copy, until, months
  <1>5. /\ IsFiniteSet(months)
        /\ 0 + Cardinality(months) <= copy.totalOccurrences
    BY <1>1, <1>2, OccurrencesWithinTotal
  <1>6. Insert(months, plan.firstPaymentDate.day)
    BY DEF CreatePlan, months
  <1>7. /\ Cardinality(Rows') \in Nat
        /\ Cardinality(Rows') <= Cardinality(Rows) + Cardinality(months)
    BY <1>1, <1>5, <1>6, InsertBound DEF TotalInv, TypeInv
  <1>8. Cardinality(Rows) = 0 /\ Cardinality(months) \in Nat
    BY <1>3, <1>5, FS_EmptySet, FS_CardinalityType
  <1>9. Cardinality(Rows') <= plan.installments
    BY <1>1, <1>2, <1>5, <1>7, <1>8
  <1> QED
    BY <1>3, <1>4, <1>9 DEF TotalInv, RowsWithinTotal, NothingBefore, CopiesAgree

LEMMA TotalStep == TotalKept /\ TotalInv /\ [Next]_vars => TotalInv'
  <1> SUFFICES ASSUME TotalKept, TotalInv, [Next]_vars PROVE TotalInv'
    OBVIOUS
  <1>1. TypeInv'
    BY TypeStep DEF TotalInv
  <1>2. CASE UNCHANGED vars
    <2>1. Rows' = Rows
      BY <1>2 DEF vars, Rows
    <2> QED
      BY <1>1, <1>2, <2>1 DEF vars, TotalInv, RowsWithinTotal, NothingBefore,
                              CopiesAgree, Live
  <1>3. ASSUME NEW schedule \in Schedules, CreateRule(schedule)
        PROVE  TotalInv'
    <2>1. /\ rule' \in Rule /\ rule' # Unborn
          /\ Rows' = {} /\ \A s \in Requests : request'[s] = Idle
      <3>1. rule' = NewRule(schedule, None)
        BY <1>3 DEF CreateRule
      <3>2. rule' # Unborn /\ rule'.state = "live"
        BY <3>1 DEF NewRule, Unborn
      <3>3. rule' \in Rule
        BY <1>1, <3>2 DEF TypeInv, TypeOK, Unborn, Deleted
      <3>4. Rows' = {} /\ \A s \in Requests : request'[s] = Idle
        BY <1>3 DEF CreateRule, TotalInv, NothingBefore, Rows
      <3> QED
        BY <3>2, <3>3, <3>4
    <2>2. rule'.totalOccurrences # None => 0 <= rule'.totalOccurrences
      BY <2>1 DEF Rule
    <2>3. Cardinality(Rows') = 0
      BY <2>1, FS_EmptySet
    <2> QED
      BY <1>1, <2>1, <2>2, <2>3 DEF TotalInv, RowsWithinTotal, NothingBefore, CopiesAgree
  <1>4. ASSUME NEW plan \in Plans, CreatePlan(plan)
        PROVE  TotalInv'
    BY <1>1, <1>4, PlanTotal
  <1>5. ASSUME NEW r \in Requests, (Live /\ Load(r)) \/ Commit(r)
        PROVE  TotalInv'
    BY <1>1, <1>5, LoadTotal, CommitTotal
  <1>6. ASSUME NEW from \in Months, NEW to \in Movable, MoveRow(from, to)
        PROVE  TotalInv'
    <2>1. to \in Months
      BY RecurrenceAssumption
    <2>2. Cardinality(Rows') = Cardinality(Rows)
      BY <1>6, <2>1, MovedRows DEF TotalInv, TypeInv
    <2>3. UNCHANGED <<rule, request>> /\ rule # Unborn
      BY <1>6 DEF MoveRow, TotalInv, NothingBefore, Rows
    <2> QED
      BY <1>1, <2>2, <2>3 DEF TotalInv, RowsWithinTotal, NothingBefore, CopiesAgree, Live
  <1>7. ASSUME NEW month \in Removable, RemoveRow(month)
        PROVE  TotalInv'
    <2>1. UNCHANGED <<rule, request>>
      BY <1>7 DEF RemoveRow
    <2>2. Rows' \subseteq Rows
      BY <1>7 DEF RemoveRow, Rows, TotalInv, TypeInv, TypeOK
    <2>3. RowsWithinTotal'
      BY <2>1, <2>2, FewerRows DEF SameTotal, Live
    <2> QED
      BY <1>1, <2>1, <2>2, <2>3 DEF TotalInv, NothingBefore, CopiesAgree, Live
  <1>8. CASE Tick
    <2>1. UNCHANGED <<rule, row, request>> /\ Rows' = Rows
      BY <1>8 DEF Tick, Rows
    <2> QED
      BY <1>1, <2>1 DEF TotalInv, RowsWithinTotal, NothingBefore, CopiesAgree, Live
  <1> QED
    BY <1>2, <1>3, <1>4, <1>5, <1>6, <1>7, <1>8 DEF Next

\* The generator counts the rows inside its own Serializable transaction, so
\* however many runs, edits, moves and deletions interleave, and however stale
\* the copy of the rule a run works from, a rule never has more rows than
\* totalOccurrences, as long as nobody edits totalOccurrences itself.
THEOREM TotalHolds == TotalKept => (Spec => []RowsWithinTotal)
  <1> SUFFICES ASSUME TotalKept PROVE Spec => []RowsWithinTotal
    OBVIOUS
  <1>1. TotalInv /\ [Next]_vars => TotalInv'
    BY TotalStep
  <1>2. TotalInv => RowsWithinTotal
    BY DEF TotalInv
  <1> QED
    BY <1>1, <1>2, TotalInit, PTL DEF Spec
-----------------------------------------------------------------------------
(* Arithmetic: the multiples of a step. *)

LEMMA Quotient ==
    ASSUME NEW a \in Int, NEW s \in Nat \ {0}
    PROVE  /\ a \div s \in Int
           /\ a % s \in 0 .. (s - 1)
           /\ a = s * (a \div s) + (a % s)
  OBVIOUS

LEMMA Exact ==
    ASSUME NEW s \in Nat \ {0}, NEW a \in Int, a % s = 0
    PROVE  \E p \in Int : a = s * p
  <1>1. a \div s \in Int /\ a = s * (a \div s)
    OBVIOUS
  <1> QED
    BY <1>1

LEMMA ProductBounds ==
    ASSUME NEW s \in Nat \ {0}, NEW k \in Int
    PROVE  /\ k > 0 => s * k >= s
           /\ k < 0 => s * k <= 0 - s
  <1>1. CASE k > 0
    <2>1. PICK j \in Nat : k = j + 1
      BY <1>1
    <2>2. s * j \in Nat /\ s * k = s * j + s
      BY <2>1
    <2> QED
      BY <1>1, <2>2
  <1>2. CASE k < 0
    <2>1. PICK j \in Nat : k = 0 - j - 1
      BY <1>2
    <2>2. s * j \in Nat /\ s * k = 0 - (s * j) - s
      BY <2>1
    <2> QED
      BY <1>2, <2>2
  <1>3. CASE k = 0
    BY <1>3
  <1> QED
    BY <1>1, <1>2, <1>3

LEMMA Multiple ==
    ASSUME NEW s \in Nat \ {0}, NEW k \in Int
    PROVE  (s * k) % s = 0
  <1> DEFINE d == (s * k) \div s
             m == (s * k) % s
  <1>1. ASSUME NEW a \in Int
        PROVE  /\ a \div s \in Int /\ a % s \in 0 .. (s - 1)
               /\ a = s * (a \div s) + (a % s)
    BY Quotient
  <1>2. d \in Int /\ m \in 0 .. (s - 1) /\ s * k = s * d + m
    <2>1. s * k \in Int
      OBVIOUS
    <2> QED
      BY <1>1, <2>1
  <1> HIDE DEF d, m
  <1>3. s * (k - d) = m /\ k - d \in Int
    BY <1>2
  <1>4. k - d = 0
    BY <1>2, <1>3, ProductBounds
  <1>5. m = 0
    BY <1>3, <1>4
  <1> QED
    BY <1>5 DEF m

LEMMA MultiplesAdd ==
    ASSUME NEW s \in Nat \ {0}, NEW a \in Int, NEW b \in Int, a % s = 0, b % s = 0
    PROVE  (a - b) % s = 0 /\ (a + b) % s = 0
  <1>1. PICK p \in Int : a = s * p
    BY Exact
  <1>2. PICK q \in Int : b = s * q
    BY Exact
  <1>3. a - b = s * (p - q) /\ a + b = s * (p + q)
    BY <1>1, <1>2
  <1>4. p - q \in Int /\ p + q \in Int
    OBVIOUS
  <1>5. (s * (p - q)) % s = 0 /\ (s * (p + q)) % s = 0
    BY <1>4, Multiple
  <1> QED
    BY <1>3, <1>5

LEMMA FirstMultiples == ASSUME NEW s \in Nat \ {0} PROVE s % s = 0 /\ 0 % s = 0
  <1>1. s = s * 1 /\ 0 = s * 0
    OBVIOUS
  <1> QED
    BY <1>1, Multiple

\* Months a whole number of steps apart.
LEMMA StepsApart ==
    ASSUME NEW s \in Nat \ {0}, NEW x \in Int, NEW y \in Int, NEW z \in Int
    PROVE  /\ (x - y) % s = 0 /\ (y - z) % s = 0 => (x - z) % s = 0
           /\ (x - z) % s = 0 /\ (y - z) % s = 0 => (x - y) % s = 0
           /\ (x - y) % s = 0 <=> (x - (y + s)) % s = 0
  <1> DEFINE a == x - y
             b == y - z
             c == x - z
             d == x - (y + s)
  <1>1. /\ a \in Int /\ b \in Int /\ c \in Int /\ d \in Int
        /\ c = a + b /\ a = c - b /\ d = a - s /\ a = d + s
    OBVIOUS
  <1>2. s % s = 0 /\ s \in Int
    BY FirstMultiples
  <1> HIDE DEF a, b, c, d
  <1>3. a % s = 0 /\ b % s = 0 => (a + b) % s = 0
    BY <1>1, MultiplesAdd
  <1>4. c % s = 0 /\ b % s = 0 => (c - b) % s = 0
    BY <1>1, MultiplesAdd
  <1>5. a % s = 0 => (a - s) % s = 0
    BY <1>1, <1>2, MultiplesAdd
  <1>6. d % s = 0 => (d + s) % s = 0
    BY <1>1, <1>2, MultiplesAdd
  <1>7. /\ a % s = 0 /\ b % s = 0 => c % s = 0
        /\ c % s = 0 /\ b % s = 0 => a % s = 0
        /\ a % s = 0 <=> d % s = 0
    BY <1>1, <1>3, <1>4, <1>5, <1>6
  <1> QED
    BY <1>7 DEF a, b, c, d

\* The next multiple is a whole step away.
LEMMA NextMultiple ==
    ASSUME NEW s \in Nat \ {0}, NEW a \in Nat \ {0}, a % s = 0
    PROVE  a >= s
  <1>1. PICK p \in Int : a = s * p
    BY Exact
  <1> QED
    BY <1>1, ProductBounds

LEMMA QuotientGrows ==
    ASSUME NEW s \in Nat \ {0}, NEW a \in Nat, NEW b \in Nat, a <= b,
           a % s = 0, b % s = 0
    PROVE  a \div s <= b \div s
  <1> DEFINE p == a \div s
             q == b \div s
  <1>1. p \in Int /\ q \in Int /\ a = s * p /\ b = s * q
    BY Quotient
  <1> HIDE DEF p, q
  <1>2. s * (q - p) = b - a /\ q - p \in Int
    BY <1>1
  <1>3. ~(q - p < 0)
    BY <1>2, ProductBounds
  <1>4. p <= q
    BY <1>1, <1>3
  <1> QED
    BY <1>4 DEF p, q
-----------------------------------------------------------------------------
(* The loop. *)

\* A month that is in time is no later than the horizon, and no earlier one is late.
LEMMA EarlierInTime ==
    ASSUME NEW copy \in Rule, NEW until \in Date, NEW month \in Int,
           InTime(copy, month, until)
    PROVE  /\ month <= until.month
           /\ \A earlier \in Int : earlier < month => InTime(copy, earlier, until)
  <1>1. until.month \in Int /\ copy.endDate \in Date \cup {None}
    BY DEF Rule, Date, Months
  <1>2. copy.endDate # None => copy.endDate.month \in Int
    BY <1>1 DEF Date, Months
  <1>3. \A m : OccurrenceDate(m, copy.dayOfMonth).month = m
    BY DEF OccurrenceDate
  <1> QED
    BY <1>1, <1>2, <1>3 DEF InTime, NotAfter

\* The turns of the loop visit the occurrences one after the other: what it has
\* left to visit at a turn are those from the month of that turn on.
LEMMA LoopVisitsOccurrences ==
    ASSUME NEW copy \in Rule, NEW until \in Date, NEW already \in Nat
    PROVE  Occurrences(copy, until, already) = LoopFrom(copy, until, already)
  <1> DEFINE first == FirstMonth(copy)
             s == copy.step
             due == Occurrences(copy, until, already)
             at(k) == first + k * s
             Stops(k) == \/ ~InTime(copy, at(k), until)
                         \/ copy.totalOccurrences # None
                              /\ already + k >= copy.totalOccurrences
             IsTurn(f) == f = [k \in Nat |-> IF Stops(k) THEN {} ELSE {at(k)} \cup f[k + 1]]
             left == [k \in Nat |-> {m \in due : m >= at(k)}]
  <1>1. /\ first \in Nat /\ s \in Nat \ {0} /\ until.month \in Nat
        /\ copy.totalOccurrences \in (Nat \ {0}) \cup {None}
    BY OccurrencesInPlay DEF Rule, Date, Months
  <1>2. CASE ~copy.isActive
    BY <1>2 DEF Occurrences, LoopFrom
  <1>3. CASE copy.isActive
    <2>1. \A m : m \in due <=>
            /\ m \in first .. until.month
            /\ (m - first) % s = 0
            /\ InTime(copy, m, until)
            /\ copy.totalOccurrences # None =>
                  already + (m - first) \div s < copy.totalOccurrences
      BY <1>3 DEF Occurrences, OnGrid, WithinTotal
    <2>2. LoopFrom(copy, until, already) = (CHOOSE f : IsTurn(f))[0]
      BY <1>3 DEF LoopFrom
    <2> HIDE DEF due, first, s
    <2>3. ASSUME NEW k \in Nat
          PROVE  /\ at(k) \in Nat /\ k * s \in Nat /\ at(k) + s = at(k + 1)
                 /\ (at(k) - first) % s = 0 /\ (at(k) - first) \div s = k
      <3>1. k * s \in Nat /\ (k + 1) * s = k * s + s /\ k * s = s * k
        BY <1>1
      <3>2. (s * k) % s = 0
        BY <1>1, Multiple
      <3> DEFINE q == (k * s) \div s
      <3>3. q \in Int /\ k * s = s * q
        BY <1>1, <3>1, <3>2, Quotient
      <3> HIDE DEF q
      <3>4. s * (k - q) = 0 /\ k - q \in Int
        BY <1>1, <3>1, <3>3
      <3>5. q = k
        BY <1>1, <3>3, <3>4, ProductBounds
      <3>6. at(k) - first = k * s
        BY <1>1, <3>1
      <3> QED
        BY <1>1, <3>1, <3>2, <3>5, <3>6 DEF q
    <2>4. ASSUME NEW k \in Nat, NEW m \in due, m >= at(k)
          PROVE  /\ m = at(k) \/ m >= at(k + 1)
                 /\ ~Stops(k)
      <3> DEFINE q == (m - first) \div s
      <3>1. /\ m \in Int /\ m - first \in Int /\ (m - first) % s = 0
            /\ InTime(copy, m, until)
            /\ copy.totalOccurrences # None => already + q < copy.totalOccurrences
        BY <1>1, <2>1
      <3>2. q \in Int /\ m - first = s * q
        BY <1>1, <3>1, Quotient
      <3> HIDE DEF q
      <3>3. s * (q - k) = m - at(k) /\ q - k \in Int
        BY <1>1, <2>3, <3>1, <3>2
      <3>4. q >= k
        BY <1>1, <2>3, <2>4, <3>1, <3>2, <3>3, ProductBounds
      <3>5. m = at(k) \/ m >= at(k) + s
        <4>1. CASE q = k
          BY <1>1, <2>3, <3>1, <3>3, <4>1
        <4>2. CASE q > k
          <5>1. s * (q - k) >= s
            <6>1. q - k > 0
              BY <3>2, <4>2
            <6> QED
              BY <1>1, <3>3, <6>1, ProductBounds
          <5> QED
            BY <1>1, <2>3, <3>1, <3>3, <5>1
        <4> QED
          BY <3>2, <3>4, <4>1, <4>2
      <3>6. InTime(copy, at(k), until)
        <4>1. \A earlier \in Int : earlier < m => InTime(copy, earlier, until)
          BY <3>1, EarlierInTime
        <4>2. at(k) \in Int /\ (at(k) = m \/ at(k) < m)
          <5>1. at(k) \in Nat
            BY <2>3
          <5>2. m \in Int /\ m >= at(k)
            BY <2>4, <3>1
          <5> HIDE DEF at
          <5> QED
            BY <5>1, <5>2
        <4> HIDE DEF at
        <4> QED
          BY <3>1, <4>1, <4>2
      <3>7. copy.totalOccurrences # None => already + k < copy.totalOccurrences
        BY <1>1, <3>1, <3>2, <3>4
      <3> QED
        BY <1>1, <2>3, <3>5, <3>6, <3>7
    <2>5. ASSUME NEW k \in Nat, ~Stops(k)
          PROVE  at(k) \in due /\ at(k) <= until.month
      <3>1. at(k) <= until.month
        BY <2>3, <2>5, EarlierInTime
      <3>2. at(k) >= first
        BY <1>1, <2>3
      <3> QED
        BY <1>1, <2>1, <2>3, <2>5, <3>1, <3>2
    <2>6. \A k \in Nat : left[k] = {m \in due : m >= at(k)}
      OBVIOUS
    <2>7. \A m \in due : m \in Int /\ m >= first
      BY <1>1, <2>1
    <2> HIDE DEF at, Stops
    <2>8. ASSUME NEW k \in Nat
          PROVE  left[k] = IF Stops(k) THEN {} ELSE {at(k)} \cup left[k + 1]
      <3>1. CASE Stops(k)
        BY <2>4, <2>6, <3>1
      <3>2. CASE ~Stops(k)
        <4>1. at(k) \in due /\ at(k) \in Nat /\ at(k + 1) = at(k) + s /\ s \in Nat
          BY <1>1, <2>3, <2>5, <3>2
        <4>2. {m \in due : m >= at(k)} = {at(k)} \cup {m \in due : m >= at(k + 1)}
          BY <2>4, <2>7, <4>1
        <4> QED
          BY <2>6, <3>2, <4>2
      <3> QED
        BY <3>1, <3>2
    <2>9. IsTurn(left)
      <3>1. left = [k \in Nat |-> left[k]]
        OBVIOUS
      <3> HIDE DEF left
      <3> QED
        BY <2>8, <3>1
    <2> HIDE DEF left
    <2>10. ASSUME NEW f, IsTurn(f) PROVE f[0] = left[0]
      <3> DEFINE Differs(k) == f[k] # left[k]
                 Ahead == {until.month - at(k) : k \in {k \in Nat : Differs(k)}}
      <3>1. \A k \in Nat : f[k] = IF Stops(k) THEN {} ELSE {at(k)} \cup f[k + 1]
        BY <2>10, Zenon
      <3>2. ASSUME NEW k \in Nat, Differs(k)
            PROVE  Differs(k + 1) /\ until.month - at(k) \in Nat
        <4>1. ~Stops(k)
          BY <2>8, <3>1, <3>2
        <4>2. f[k] = {at(k)} \cup f[k + 1] /\ left[k] = {at(k)} \cup left[k + 1]
          BY <2>8, <3>1, <4>1
        <4>3. at(k) \in Nat /\ at(k) <= until.month
          BY <2>3, <2>5, <4>1
        <4>4. until.month - at(k) \in Nat
          BY <1>1, <4>3
        <4> QED
          BY <3>2, <4>2, <4>4
      <3> SUFFICES ASSUME Differs(0) PROVE FALSE
        OBVIOUS
      <3>3. Ahead \subseteq Nat /\ Ahead # {}
        BY <3>2
      <3>4. PICK n \in Ahead : \A m \in Ahead : <<m, n>> \notin OpToRel(<, Nat)
        BY <3>3, WFMin, NatLessThanWellFounded
      <3>5. PICK k \in Nat : Differs(k) /\ n = until.month - at(k)
        OBVIOUS
      <3>6. Differs(k + 1) /\ k + 1 \in Nat
        BY <3>2, <3>5
      <3>7. until.month - at(k + 1) \in Ahead
        BY <3>6
      <3>8. until.month - at(k + 1) < n
        <4>1. at(k + 1) = at(k) + s /\ at(k) \in Nat /\ s \in Nat \ {0}
          BY <1>1, <2>3
        <4> QED
          BY <1>1, <3>5, <4>1
      <3> QED
        BY <3>3, <3>4, <3>7, <3>8 DEF OpToRel
    <2>11. (CHOOSE f : IsTurn(f))[0] = left[0]
      <3>1. IsTurn(CHOOSE f : IsTurn(f))
        <4> HIDE DEF IsTurn
        <4> QED
          BY <2>9
      <3> QED
        BY <2>10, <3>1
    <2>12. left[0] = due
      <3>1. at(0) = first
        BY <1>1 DEF at
      <3> QED
        BY <2>6, <2>7, <3>1
    <2> QED
      BY <2>2, <2>11, <2>12 DEF due
  <1> QED
    BY <1>2, <1>3

\* What the models take a run to generate is what computeOccurrences() computes,
\* one month after the other, for any rule that requests have made of it.
THEOREM RunsVisitTheirOccurrences == Spec => []OccurrencesAreTheLoop
  <1>1. TypeOK => OccurrencesAreTheLoop
    <2> SUFFICES ASSUME TypeOK, Live
                 PROVE  Occurrences(rule, HorizonOf(today), AlreadyGenerated)
                          = LoopFrom(rule, HorizonOf(today), AlreadyGenerated)
      BY DEF OccurrencesAreTheLoop
    <2>1. rule \in Rule /\ AlreadyGenerated \in Nat
      BY LiveType, RowsFinite
    <2>2. HorizonOf(today) \in Date
      BY DateTypes DEF TypeOK
    <2> QED
      BY <2>1, <2>2, LoopVisitsOccurrences
  <1> QED
    BY <1>1, TypeCorrect, PTL
-----------------------------------------------------------------------------
(* Nothing is skipped. *)

\* No edit changes the months in which the rule is due, and no row is moved into a
\* month it was not generated for, where it would keep the generator from filling it.
GridKept == /\ \A patch \in Patches : {"step", "startDate"} \cap DOMAIN patch = {}
            /\ Movable = {}

\* Every month a schedule is due in, up to its watermark, was produced; and the
\* watermark is such a month, so that the next run starts a whole step after it.
ProducedUpTo(r, history) ==
    r.generatedUntil # None =>
        /\ r.startDate.month <= r.generatedUntil.month
        /\ (r.generatedUntil.month - r.startDate.month) % r.step = 0
        /\ \A month \in r.startDate.month .. r.generatedUntil.month :
              (month - r.startDate.month) % r.step = 0 => history[month] > 0

RowsProduced == \A month \in Months : row[month] # None => produced[month] > 0

\* NothingSkipped of the rule is not inductive: a run extends the watermark of its
\* copy, which may be an older one, and skips the months that have a row.
SkipInv ==
    /\ TypeInv
    /\ NothingBefore
    /\ RowsProduced
    /\ Live => ProducedUpTo(rule, produced)
    /\ Live => \A r \in Requests : request[r] # Idle =>
                  /\ ProducedUpTo(request[r].rule, produced)
                  /\ request[r].rule.step = rule.step
                  /\ request[r].rule.startDate = rule.startDate

\* A run leaves no hole: with a month it produces every month due before it.
LEMMA OccurrencesContiguous ==
    ASSUME NEW copy \in Rule, NEW until \in Date, NEW n \in Nat,
           NEW last \in Occurrences(copy, until, n),
           NEW month \in FirstMonth(copy) .. last, OnGrid(copy, month)
    PROVE  month \in Occurrences(copy, until, n)
  <1> DEFINE first == FirstMonth(copy)
  <1>1. /\ first \in Nat /\ until.month \in Nat /\ copy.step \in Nat \ {0}
        /\ last \in Nat /\ first <= last /\ last <= until.month
        /\ month \in Nat /\ first <= month /\ month <= last
    BY OccurrencesInPlay DEF Occurrences, Rule, Date, Months
  <1>2. copy.isActive /\ OnGrid(copy, last) /\ InTime(copy, last, until)
        /\ WithinTotal(copy, last, n)
    BY DEF Occurrences
  <1>3. InTime(copy, month, until)
    <2>1. CASE month = last
      BY <1>2, <2>1
    <2>2. CASE month < last
      <3>1. OccurrenceDate(last, copy.dayOfMonth).month = last
            /\ OccurrenceDate(month, copy.dayOfMonth).month = month
        BY DEF OccurrenceDate
      <3>2. month < until.month
        BY <1>1, <2>2
      <3>3. copy.endDate # None => copy.endDate.month \in Nat /\ last <= copy.endDate.month
        BY <1>1, <1>2, <3>1 DEF InTime, NotAfter, Rule, Date, Months
      <3> QED
        BY <1>1, <2>2, <3>1, <3>2, <3>3 DEF InTime, NotAfter
    <2> QED
      BY <1>1, <2>1, <2>2
  <1>4. WithinTotal(copy, month, n)
    <2>1. /\ month - first \in Nat /\ last - first \in Nat /\ month - first <= last - first
          /\ (month - first) % copy.step = 0 /\ (last - first) % copy.step = 0
      BY <1>1, <1>2 DEF OnGrid
    <2>2. (month - first) \div copy.step <= (last - first) \div copy.step
      BY <1>1, <2>1, QuotientGrows
    <2>3. /\ (month - first) \div copy.step \in Int
          /\ (last - first) \div copy.step \in Int
      BY <1>1, <2>1
    <2>4. copy.totalOccurrences # None => copy.totalOccurrences \in Nat
      BY DEF Rule
    <2> HIDE DEF first
    <2> QED
      BY <1>2, <2>2, <2>3, <2>4 DEF WithinTotal, first
  <1>5. month \in first .. until.month
    BY <1>1
  <1> QED
    BY <1>2, <1>3, <1>4, <1>5 DEF Occurrences

\* The months due after the watermark are those due from the next run's first month.
LEMMA GridContinues ==
    ASSUME NEW copy \in Rule, NEW month \in Nat,
           copy.startDate.month <= month,
           (month - copy.startDate.month) % copy.step = 0,
           ProducedUpTo(copy, produced),
           copy.generatedUntil # None => copy.generatedUntil.month < month
    PROVE  FirstMonth(copy) <= month /\ OnGrid(copy, month)
  <1>1. /\ copy.step \in Nat \ {0} /\ copy.startDate.month \in Nat
        /\ copy.generatedUntil # None => copy.generatedUntil.month \in Nat
    BY DEF Rule, Date, Months
  <1>2. CASE copy.generatedUntil = None
    BY <1>1, <1>2 DEF FirstMonth, OnGrid
  <1>3. CASE copy.generatedUntil # None
    <2> DEFINE s    == copy.startDate.month
               g    == copy.generatedUntil.month
               step == copy.step
    <2>1. /\ g \in Int /\ s \in Int /\ month \in Int /\ step \in Nat \ {0} /\ g < month
          /\ (month - s) % step = 0 /\ (g - s) % step = 0
      BY <1>1, <1>3 DEF ProducedUpTo
    <2> HIDE DEF s, g, step
    <2>2. (month - g) % step = 0
      BY <2>1, StepsApart, Zenon
    <2>3. (month - (g + step)) % step = 0
      BY <2>1, <2>2, StepsApart, Zenon
    <2>4. month - g \in Nat \ {0}
      BY <2>1
    <2>5. month - g >= step
      BY <2>1, <2>2, <2>4, NextMultiple
    <2>6. g + step <= month
      BY <2>1, <2>5
    <2> QED
      BY <1>3, <2>3, <2>6 DEF FirstMonth, OnGrid, g, step
  <1> QED
    BY <1>2, <1>3

\* The months a run works on are due.
LEMMA OccurrencesOnGrid ==
    ASSUME NEW copy \in Rule, NEW until \in Date, NEW n \in Nat, ProducedUpTo(copy, produced),
           NEW month \in Occurrences(copy, until, n)
    PROVE  /\ copy.startDate.month <= month
           /\ (month - copy.startDate.month) % copy.step = 0
  <1>1. /\ copy.step \in Nat \ {0} /\ copy.startDate.month \in Nat /\ month \in Nat
        /\ copy.generatedUntil # None => copy.generatedUntil.month \in Nat
        /\ FirstMonth(copy) <= month /\ OnGrid(copy, month)
    BY OccurrencesInPlay DEF Rule, Date, Months, Occurrences
  <1>2. CASE copy.generatedUntil = None
    BY <1>1, <1>2 DEF FirstMonth, OnGrid
  <1>3. CASE copy.generatedUntil # None
    <2> DEFINE s    == copy.startDate.month
               g    == copy.generatedUntil.month
               step == copy.step
    <2>1. /\ g \in Int /\ s \in Int /\ month \in Int /\ step \in Nat \ {0}
          /\ s <= g /\ (g - s) % step = 0
          /\ g + step <= month /\ (month - (g + step)) % step = 0
      BY <1>1, <1>3 DEF ProducedUpTo, FirstMonth, OnGrid
    <2> HIDE DEF s, g, step
    <2>2. (month - g) % step = 0
      BY <2>1, StepsApart, Zenon
    <2>3. (month - s) % step = 0
      BY <2>1, <2>2, StepsApart, Zenon
    <2>4. s <= month
      BY <2>1
    <2> QED
      BY <2>3, <2>4 DEF s, step
  <1> QED
    BY <1>2, <1>3

\* What was produced stays produced.
HistoryGrows == \A month \in Months : produced[month] > 0 => produced'[month] > 0

LEMMA StillProduced ==
    ASSUME HistoryGrows, NEW copy \in Rule, ProducedUpTo(copy, produced)
    PROVE  ProducedUpTo(copy, produced')
  <1>1. /\ copy.startDate.month \in Months
        /\ copy.generatedUntil # None => copy.generatedUntil.month \in Months
    BY DEF Rule, Date
  <1>2. copy.generatedUntil # None =>
            copy.startDate.month .. copy.generatedUntil.month \subseteq Months
    BY <1>1, RecurrenceAssumption DEF Months
  <1> QED
    BY <1>2 DEF ProducedUpTo, HistoryGrows

\* Inserting fills the months in hand, for those that have a row were produced.
LEMMA InsertFills ==
    ASSUME TypeOK, RowsProduced, NEW months \in SUBSET Months,
           NEW dayOfMonth \in Nat \ {0}, Insert(months, dayOfMonth)
    PROVE  /\ HistoryGrows
           /\ RowsProduced'
           /\ \A month \in months : produced'[month] > 0
  BY DEF TypeOK, RowsProduced, Insert, Inserted, HistoryGrows

\* A step that ends or keeps requests, and leaves the grid of the rule alone,
\* keeps what is known of the copies.
SameGrid == Live' => /\ Live
                     /\ rule'.step = rule.step
                     /\ rule'.startDate = rule.startDate

LEMMA CopiesStillProduced ==
    ASSUME SkipInv, HistoryGrows, SameGrid,
           \A s \in Requests : \/ request'[s] = Idle
                               \/ request[s] # Idle /\ request'[s].rule = request[s].rule
    PROVE  (Live => \A r \in Requests : request[r] # Idle =>
                       /\ ProducedUpTo(request[r].rule, produced)
                       /\ request[r].rule.step = rule.step
                       /\ request[r].rule.startDate = rule.startDate)'
  <1> SUFFICES ASSUME Live', NEW r \in Requests, request'[r] # Idle
               PROVE  /\ ProducedUpTo(request'[r].rule, produced')
                      /\ request'[r].rule.step = rule'.step
                      /\ request'[r].rule.startDate = rule'.startDate
    OBVIOUS
  <1>1. /\ request[r] # Idle /\ request'[r].rule = request[r].rule
        /\ Live /\ rule'.step = rule.step /\ rule'.startDate = rule.startDate
    BY DEF SameGrid
  <1>2. request[r].rule \in Rule
    BY <1>1, PendingType DEF SkipInv, TypeInv, Pending
  <1>3. /\ ProducedUpTo(request[r].rule, produced)
        /\ request[r].rule.step = rule.step
        /\ request[r].rule.startDate = rule.startDate
    BY <1>1 DEF SkipInv
  <1>4. ProducedUpTo(request[r].rule, produced')
    BY <1>2, <1>3, StillProduced
  <1> QED
    BY <1>1, <1>3, <1>4

\* The steps that produce nothing: they leave the watermark alone too.
LEMMA QuietSkip ==
    ASSUME SkipInv, TypeInv', SameGrid, produced' = produced, rule' # Unborn,
           Live' => rule'.generatedUntil = rule.generatedUntil,
           \A month \in Months : row'[month] # None => row[month] # None,
           \A s \in Requests : \/ request'[s] = Idle
                               \/ request[s] # Idle /\ request'[s].rule = request[s].rule
    PROVE  SkipInv'
  <1>1. HistoryGrows /\ RowsProduced'
    BY DEF HistoryGrows, SkipInv, RowsProduced
  <1>2. (Live => ProducedUpTo(rule, produced))'
    BY DEF SkipInv, SameGrid, ProducedUpTo
  <1>3. NothingBefore'
    BY DEF NothingBefore
  <1> QED
    BY <1>1, <1>2, <1>3, CopiesStillProduced DEF SkipInv

LEMMA DoneKeeps ==
    ASSUME TypeInv, NEW r \in Requests, Done(r)
    PROVE  \A s \in Requests : \/ request'[s] = Idle
                               \/ request[s] # Idle /\ request'[s].rule = request[s].rule
  BY DEF Done, TypeInv, TypeOK

\* The watermark a run sets is due, and so was all that is due before it produced:
\* what precedes the watermark of the copy earlier, the rest by this run.
LEMMA WatermarkProduced ==
    ASSUME SkipInv, NEW copy \in Rule, NEW until \in Date, NEW n \in Nat,
           ProducedUpTo(copy, produced), Occurrences(copy, until, n) # {},
           Insert(Occurrences(copy, until, n), copy.dayOfMonth)
    PROVE  \A r : /\ r.step = copy.step /\ r.startDate = copy.startDate
                  /\ r.generatedUntil = Watermark(copy, until, Occurrences(copy, until, n))
                  => ProducedUpTo(r, produced')
  <1> DEFINE months == Occurrences(copy, until, n)
             last   == LastOf(months)
             start  == copy.startDate.month
  <1>1. months \in SUBSET Months /\ months # {}
    BY OccurrencesInPlay
  <1>2. last \in months
    BY <1>1, LastOfType
  <1>3. Watermark(copy, until, months).month = last
    BY DEF Watermark, OccurrenceDate
  <1>4. start \in Nat /\ last \in Nat /\ start <= last /\ (last - start) % copy.step = 0
    BY <1>1, <1>2, OccurrencesOnGrid DEF Months, Rule, Date
  <1>5. HistoryGrows /\ \A month \in months : produced'[month] > 0
    BY <1>1, InsertFills DEF SkipInv, TypeInv, Rule
  <1>6. ASSUME NEW month \in start .. last, (month - start) % copy.step = 0
        PROVE  produced'[month] > 0
    <2>1. month \in Nat /\ start <= month /\ month <= last /\ month \in Months
      <3>1. last \in Months /\ LastMonth \in Nat
        BY <1>1, <1>2, RecurrenceAssumption
      <3> HIDE DEF last, start, months
      <3> QED
        BY <1>4, <3>1 DEF Months
    <2>2. CASE copy.generatedUntil # None /\ month <= copy.generatedUntil.month
      <3>1. copy.generatedUntil.month \in Nat
        BY <2>2 DEF Rule, Date, Months
      <3>2. month \in start .. copy.generatedUntil.month
        BY <1>4, <2>1, <2>2, <3>1
      <3>3. produced[month] > 0
        BY <1>6, <2>2, <3>2 DEF ProducedUpTo
      <3> QED
        BY <1>5, <2>1, <3>3 DEF HistoryGrows
    <2>3. CASE copy.generatedUntil # None => copy.generatedUntil.month < month
      <3>1. FirstMonth(copy) <= month /\ OnGrid(copy, month)
        BY <1>6, <2>1, <2>3, GridContinues
      <3>2. month \in FirstMonth(copy) .. last
        BY <1>4, <2>1, <3>1, OccurrencesInPlay
      <3>3. month \in months
        BY <1>2, <3>1, <3>2, OccurrencesContiguous
      <3> QED
        BY <1>5, <3>3
    <2>4. copy.generatedUntil # None => copy.generatedUntil.month \in Nat
      BY DEF Rule, Date, Months
    <2> QED
      BY <2>1, <2>2, <2>3, <2>4
  <1> SUFFICES ASSUME NEW r, r.step = copy.step, r.startDate = copy.startDate,
                      r.generatedUntil = Watermark(copy, until, months)
               PROVE  ProducedUpTo(r, produced')
    OBVIOUS
  <1> HIDE DEF months, last
  <1> QED
    BY <1>3, <1>4, <1>6 DEF ProducedUpTo

LEMMA GenerateSkip ==
    ASSUME SkipInv, TypeInv', NEW r \in Requests, Generate(r)
    PROVE  SkipInv'
  <1> DEFINE copy   == request[r].rule
             until  == request[r].until
             n      == AlreadyGenerated
             months == Occurrences(copy, until, n)
  <1>1. request[r] \in Pending /\ request[r] # Idle /\ Live /\ rule \in Rule
    BY PendingType, LiveType DEF Generate, SkipInv, TypeInv, Idle
  <1>2. /\ copy \in Rule /\ until \in Date /\ n \in Nat
        /\ copy.dayOfMonth \in Nat \ {0} /\ months \in SUBSET Months
        /\ ProducedUpTo(copy, produced)
        /\ copy.step = rule.step /\ copy.startDate = rule.startDate
    BY <1>1, RowsFinite, OccurrencesInPlay
       DEF Generate, SkipInv, TypeInv, PendingOK, Pending, Rule
  <1>3. /\ months # {} /\ Insert(months, copy.dayOfMonth) /\ Done(r)
        /\ rule' = [rule EXCEPT !.generatedUntil = Watermark(copy, until, months)]
    BY DEF Generate
  <1>4. HistoryGrows /\ RowsProduced'
    BY <1>2, <1>3, InsertFills DEF SkipInv, TypeInv
  <1> HIDE DEF copy, until, n, months
  <1>5. /\ rule'.step = rule.step /\ rule'.startDate = rule.startDate
        /\ rule'.generatedUntil = Watermark(copy, until, months)
        /\ rule'.state = rule.state
    BY <1>1, <1>3 DEF Rule
  <1>6. SameGrid /\ rule' # Unborn
    BY <1>1, <1>5 DEF SameGrid, Live, Unborn
  <1>7. ProducedUpTo(rule', produced')
    BY <1>2, <1>3, <1>5, WatermarkProduced DEF months
  <1>8. (Live => \A s \in Requests : request[s] # Idle =>
                    /\ ProducedUpTo(request[s].rule, produced)
                    /\ request[s].rule.step = rule.step
                    /\ request[s].rule.startDate = rule.startDate)'
    BY <1>3, <1>4, <1>6, DoneKeeps, CopiesStillProduced DEF SkipInv
  <1>9. NothingBefore'
    BY <1>6 DEF NothingBefore
  <1> QED
    BY <1>4, <1>7, <1>8, <1>9 DEF SkipInv

LEMMA LoadSkip ==
    ASSUME SkipInv, TypeInv', NEW r \in Requests, Live, Load(r)
    PROVE  SkipInv'
  <1>1. PICK q : q.rule = rule /\ request' = [request EXCEPT ![r] = q]
    BY DEF Load, Read, LoadForGenerate, LoadForCatchUp, LoadForUpdate, LoadForRemove,
           LoadForDeactivate, LoadForCancel
  <1>2. UNCHANGED <<rule, row, produced>>
    BY DEF Load, Read, LoadForGenerate, LoadForCatchUp, LoadForUpdate, LoadForRemove,
           LoadForDeactivate, LoadForCancel
  <1>3. DOMAIN request = Requests
    BY DEF SkipInv, TypeInv, TypeOK
  <1>4. \A s \in Requests : request'[s] = IF s = r THEN q ELSE request[s]
    BY <1>1, <1>3
  <1>5. (Live => \A s \in Requests : request[s] # Idle =>
                    /\ ProducedUpTo(request[s].rule, produced)
                    /\ request[s].rule.step = rule.step
                    /\ request[s].rule.startDate = rule.startDate)'
    BY <1>1, <1>2, <1>4 DEF SkipInv, ProducedUpTo
  <1>6. NothingBefore'
    BY <1>2, LiveType DEF NothingBefore, Live, Unborn
  <1>7. RowsProduced' /\ (Live => ProducedUpTo(rule, produced))'
    BY <1>2 DEF SkipInv, RowsProduced, Live
  <1> QED
    BY <1>5, <1>6, <1>7 DEF SkipInv

LEMMA CommitSkip ==
    ASSUME GridKept, SkipInv, TypeInv', NEW r \in Requests, Commit(r)
    PROVE  SkipInv'
  <1>1. CASE Generate(r)
    BY <1>1, GenerateSkip
  <1>2. ASSUME Live PROVE rule \in Rule
    BY <1>2, LiveType DEF SkipInv, TypeInv
  <1>3. CASE UpdateRule(r)
    <2>1. Live /\ request[r].patch \in Patches /\ rule \in Rule /\ Done(r)
      BY <1>2, <1>3 DEF UpdateRule, SkipInv, TypeInv, PendingOK
    <2>2. rule' = Updated(request[r].patch) /\ UNCHANGED <<row, produced>>
      BY <1>3 DEF UpdateRule
    <2>3. /\ rule' # Unborn /\ rule'.step = rule.step /\ rule'.startDate = rule.startDate
          /\ rule'.generatedUntil = rule.generatedUntil
      BY <2>1, <2>2 DEF Updated, PatchedField, GridKept, Rule, Unborn
    <2> QED
      BY <2>1, <2>2, <2>3, DoneKeeps, QuietSkip DEF SameGrid, SkipInv
  <1>4. CASE CountForRemove(r)
    <2>1. request[r] \in Pending /\ request[r] # Idle
      BY <1>4, PendingType DEF CountForRemove, SkipInv, TypeInv, Idle
    <2>2. UNCHANGED <<rule, row, produced>> /\ rule # Unborn
      BY <1>4, <2>1 DEF CountForRemove, SkipInv, NothingBefore
    <2>3. \A s \in Requests : \/ request'[s] = Idle
                              \/ request[s] # Idle /\ request'[s].rule = request[s].rule
      BY <1>4, <2>1 DEF CountForRemove, SkipInv, TypeInv, TypeOK, Pending
    <2> QED
      BY <2>2, <2>3, QuietSkip DEF SameGrid, Live
  <1>5. CASE Deactivate(r)
    <2>1. Live /\ rule \in Rule /\ Done(r) /\ rule' = Deactivated
          /\ UNCHANGED <<row, produced>>
      BY <1>2, <1>5 DEF Deactivate
    <2>2. /\ rule' # Unborn /\ rule'.step = rule.step /\ rule'.startDate = rule.startDate
          /\ rule'.generatedUntil = rule.generatedUntil
      BY <2>1 DEF Deactivated, Rule, Unborn
    <2> QED
      BY <2>1, <2>2, DoneKeeps, QuietSkip DEF SameGrid, SkipInv
  <1>6. CASE DeleteRule(r)
    <2>1. rule' # Unborn /\ ~Live' /\ Done(r) /\ produced' = produced
      BY <1>6 DEF DeleteRule, Deleted, Unborn, Live
    <2>2. \A month \in Months : row'[month] = None
      BY <1>6 DEF DeleteRule
    <2> QED
      BY <2>1, <2>2, DoneKeeps, QuietSkip DEF SameGrid, SkipInv
  <1>7. CASE CancelPlan(r)
    <2>1. Live /\ rule \in Rule /\ Done(r) /\ rule' = Deactivated /\ produced' = produced
      BY <1>2, <1>7 DEF CancelPlan
    <2>2. /\ rule' # Unborn /\ rule'.step = rule.step /\ rule'.startDate = rule.startDate
          /\ rule'.generatedUntil = rule.generatedUntil
      BY <2>1 DEF Deactivated, Rule, Unborn
    <2>3. \A month \in Months : row'[month] # None => row[month] # None
      BY <1>7 DEF CancelPlan
    <2> QED
      BY <2>1, <2>2, <2>3, DoneKeeps, QuietSkip DEF SameGrid, SkipInv
  <1>8. CASE Finish(r)
    <2>1. Done(r) /\ UNCHANGED <<rule, row, produced>> /\ rule # Unborn
      BY <1>8 DEF Finish, SkipInv, NothingBefore
    <2> QED
      BY <2>1, DoneKeeps, QuietSkip DEF SameGrid, SkipInv, Live
  <1> QED
    BY <1>1, <1>3, <1>4, <1>5, <1>6, <1>7, <1>8 DEF Commit

\* A plan produces all its installments at once.
LEMMA PlanSkip ==
    ASSUME SkipInv, TypeInv', NEW plan \in Plans, CreatePlan(plan)
    PROVE  SkipInv'
  <1> DEFINE copy  == [PlanRule(plan) EXCEPT !.endDate = None, !.generatedUntil = None]
             first == plan.firstPaymentDate.month
             count == plan.installments
             until == LastDayOf(first + count)
  <1>1. /\ count \in Nat \ {0} /\ plan.firstPaymentDate.day \in Nat \ {0}
        /\ copy \in Rule /\ until \in Date /\ PlanMonths(plan) \in SUBSET Months
        /\ first \in Nat /\ until.month = first + count
    <2>1. plan.firstPaymentDate \in Date /\ LastMonth \in Nat
      BY RecurrenceAssumption
    <2>2. first \in Nat
      BY <2>1 DEF Date, Months
    <2>3. until.month = first + count
      BY DEF LastDayOf
    <2>4. /\ count \in Nat \ {0} /\ plan.firstPaymentDate.day \in Nat \ {0}
          /\ copy \in Rule /\ until \in Date
      BY PlanTypes
    <2>5. PlanMonths(plan) \in SUBSET Months
      BY PlanTypes
    <2> QED
      BY <2>2, <2>3, <2>4, <2>5
  <1>2. /\ rule' = PlanRule(plan) /\ Insert(PlanMonths(plan), plan.firstPaymentDate.day)
        /\ rule = Unborn /\ request' = request
    BY DEF CreatePlan
  <1>3. HistoryGrows /\ RowsProduced' /\ \A month \in PlanMonths(plan) : produced'[month] > 0
    BY <1>1, <1>2, InsertFills DEF SkipInv, TypeInv
  <1>4. /\ rule'.step = 1 /\ rule'.startDate.month = first
        /\ rule'.generatedUntil.month = first + count - 1
        /\ rule' # Unborn
    BY <1>2 DEF PlanRule, NewRule, OccurrenceDate, Unborn
  <1>5. /\ copy.step = 1 /\ copy.totalOccurrences = count /\ copy.endDate = None
        /\ copy.isActive /\ FirstMonth(copy) = first
        /\ copy.dayOfMonth = plan.firstPaymentDate.day
    BY DEF PlanRule, NewRule, FirstMonth
  <1>6. PlanMonths(plan) = Occurrences(copy, until, 0)
    BY DEF PlanMonths
  <1> HIDE DEF copy, first, count, until
  <1>7. ASSUME NEW month \in first .. (first + count - 1)
        PROVE  month \in PlanMonths(plan)
    <2>1. month \in Nat /\ month - first \in Nat /\ month - first < count
          /\ month < until.month
      BY <1>1
    <2>2. (month - first) % 1 = 0 /\ (month - first) \div 1 = month - first
      BY <2>1
    <2>3. InTime(copy, month, until)
      BY <1>5, <2>1 DEF InTime, NotAfter, OccurrenceDate
    <2>4. OnGrid(copy, month)
      BY <1>5, <2>2 DEF OnGrid
    <2>5. WithinTotal(copy, month, 0)
      BY <1>5, <2>1, <2>2 DEF WithinTotal
    <2>6. month \in FirstMonth(copy) .. until.month
      BY <1>1, <1>5, <2>1
    <2> QED
      BY <1>5, <1>6, <2>3, <2>4, <2>5, <2>6 DEF Occurrences
  <1>8. ProducedUpTo(rule', produced')
    <2>1. first <= first + count - 1
      BY <1>1
    <2>2. ((first + count - 1) - first) % 1 = 0
      BY <1>1
    <2> QED
      BY <1>3, <1>4, <1>7, <2>1, <2>2 DEF ProducedUpTo
  <1>9. \A r \in Requests : request'[r] = Idle
    BY <1>2 DEF SkipInv, NothingBefore
  <1> QED
    BY <1>3, <1>4, <1>8, <1>9 DEF SkipInv, NothingBefore

LEMMA SkipInit == Init => SkipInv
  BY TypeInit DEF Init, SkipInv, NothingBefore, RowsProduced, Live, Rows, Unborn

LEMMA SkipStep == GridKept /\ SkipInv /\ [Next]_vars => SkipInv'
  <1> SUFFICES ASSUME GridKept, SkipInv, [Next]_vars PROVE SkipInv'
    OBVIOUS
  <1>1. TypeInv'
    BY TypeStep DEF SkipInv
  <1>2. CASE UNCHANGED vars
    <2>1. Rows' = Rows
      BY <1>2 DEF vars, Rows
    <2> QED
      BY <1>1, <1>2, <2>1 DEF vars, SkipInv, NothingBefore, RowsProduced, Live
  <1>3. ASSUME NEW schedule \in Schedules, CreateRule(schedule)
        PROVE  SkipInv'
    <2>1. rule' # Unborn /\ rule'.generatedUntil = None
      BY <1>3 DEF CreateRule, NewRule, Unborn
    <2>2. RowsProduced' /\ \A r \in Requests : request'[r] = Idle
      BY <1>3 DEF CreateRule, SkipInv, NothingBefore, RowsProduced
    <2> QED
      BY <1>1, <2>1, <2>2 DEF SkipInv, NothingBefore, ProducedUpTo
  <1>4. ASSUME NEW plan \in Plans, CreatePlan(plan)
        PROVE  SkipInv'
    BY <1>1, <1>4, PlanSkip
  <1>5. ASSUME NEW r \in Requests, (Live /\ Load(r)) \/ Commit(r)
        PROVE  SkipInv'
    BY <1>1, <1>5, LoadSkip, CommitSkip
  <1>6. ASSUME NEW from \in Months, NEW to \in Movable, MoveRow(from, to)
        PROVE  SkipInv'
    BY DEF GridKept
  <1>7. ASSUME NEW month \in Removable, RemoveRow(month)
        PROVE  SkipInv'
    <2>1. UNCHANGED <<rule, produced, request>>
      BY <1>7 DEF RemoveRow
    <2>2. \A m \in Months : row'[m] # None => row[m] # None
      BY <1>7 DEF RemoveRow, SkipInv, TypeInv, TypeOK
    <2>3. rule # Unborn
      BY <1>7, RecurrenceAssumption DEF RemoveRow, SkipInv, NothingBefore, Rows
    <2> QED
      BY <1>1, <2>1, <2>2, <2>3, QuietSkip DEF SameGrid, Live
  <1>8. CASE Tick
    <2>1. UNCHANGED <<rule, row, produced, request>> /\ Rows' = Rows
      BY <1>8 DEF Tick, Rows
    <2> QED
      BY <1>1, <2>1 DEF SkipInv, NothingBefore, RowsProduced, Live
  <1> QED
    BY <1>2, <1>3, <1>4, <1>5, <1>6, <1>7, <1>8 DEF Next

\* Later runs start after generatedUntil and never look back; nothing due before it
\* is missed all the same, however many runs, cancellations and deletions of rows
\* interleave and however old the copy a run extends, as long as no edit changes the
\* months in which the rule is due and no row is moved to another month.
THEOREM NothingIsSkipped == GridKept => (Spec => []NothingSkipped)
  <1> SUFFICES ASSUME GridKept PROVE Spec => []NothingSkipped
    OBVIOUS
  <1>1. SkipInv /\ [Next]_vars => SkipInv'
    BY SkipStep
  <1>2. SkipInv => NothingSkipped
    BY DEF SkipInv, ProducedUpTo, NothingSkipped
  <1> QED
    BY <1>1, <1>2, SkipInit, PTL DEF Spec
-----------------------------------------------------------------------------
(* One request at a time. *)

OneAtATime == \A r \in Requests, s \in Requests : r = s

\* With one request the copy it works from is the rule as it is, so a run begins
\* after everything produced so far; and what a removal has counted still holds.
OnceInv ==
    /\ TypeInv
    /\ NothingBefore
    /\ ProducedOnce
    /\ \A r \in Requests : request[r].step = "generate" /\ Live => request[r].rule = rule
    /\ \A r \in Requests : request[r].step = "retire" => Rows = {}
    /\ rule = Unborn => \A month \in Months : produced[month] = 0
    /\ Live => \A month \in Months : produced[month] > 0 =>
                   rule.generatedUntil # None /\ month <= rule.generatedUntil.month

LEMMA OnceInit == Init => OnceInv
  BY TypeInit DEF Init, OnceInv, ProducedOnce, NothingBefore, Live, Rows, Unborn, Idle

\* A request that ends leaves nothing to know about requests.
LEMMA NobodyLeft ==
    ASSUME OneAtATime, TypeInv, NEW r \in Requests, Done(r)
    PROVE  \A s \in Requests : request'[s] = Idle
  BY DEF OneAtATime, Done, TypeInv, TypeOK

\* The steps that produce nothing and keep the watermark of the rule.
LEMMA QuietOnce ==
    ASSUME OnceInv, TypeInv', rule' # Unborn, produced' = produced,
           Live' => Live /\ rule'.generatedUntil = rule.generatedUntil,
           \A r \in Requests : request'[r].step = "generate" /\ Live' =>
                                  request'[r].rule = rule',
           \A r \in Requests : request'[r].step = "retire" => Rows' = {}
    PROVE  OnceInv'
  BY DEF OnceInv, ProducedOnce, NothingBefore

LEMMA GenerateOnce ==
    ASSUME OneAtATime, OnceInv, TypeInv', NEW r \in Requests, Generate(r)
    PROVE  OnceInv'
  <1> DEFINE copy   == request[r].rule
             until  == request[r].until
             n      == AlreadyGenerated
             months == Occurrences(copy, until, n)
             last   == LastOf(months)
  <1>1. request[r] \in Pending /\ request[r] # Idle /\ Live /\ rule \in Rule
    BY PendingType, LiveType DEF Generate, OnceInv, TypeInv, Idle
  <1>2. /\ copy \in Rule /\ until \in Date /\ n \in Nat
        /\ months \in SUBSET Months /\ copy = rule
    BY <1>1, RowsFinite, OccurrencesInPlay DEF Generate, OnceInv, TypeInv, PendingOK, Pending
  <1>3. /\ months # {} /\ Insert(months, copy.dayOfMonth) /\ Done(r)
        /\ rule' = [rule EXCEPT !.generatedUntil = Watermark(copy, until, months)]
    BY DEF Generate
  <1>4. last \in months /\ \A m \in months : m <= last
    BY <1>2, <1>3, LastOfType
  <1>5. /\ rule'.generatedUntil.month = last /\ rule'.generatedUntil \in Date
        /\ rule'.generatedUntil # None
        /\ rule' # Unborn /\ Live'
    <2>1. Watermark(copy, until, months).month = last
      BY DEF Watermark, OccurrenceDate
    <2>2. rule'.generatedUntil = Watermark(copy, until, months) /\ rule'.state = "live"
      BY <1>1, <1>3 DEF Rule, Live
    <2>3. Watermark(copy, until, months) \in Date
      BY <1>2, <1>4, DateTypes DEF Watermark, Rule
    <2> QED
      BY <2>1, <2>2, <2>3, RecurrenceAssumption DEF Live, Unborn
  <1>6. ASSUME NEW m \in months, rule.generatedUntil # None
        PROVE  rule.generatedUntil.month < m
    <2>1. /\ m \in Nat /\ rule.generatedUntil.month \in Nat /\ rule.step \in Nat \ {0}
      BY <1>1, <1>2, <1>6 DEF Rule, Date, Months
    <2>2. rule.generatedUntil.month + rule.step <= m
      BY <1>2, <1>6 DEF Occurrences, FirstMonth
    <2> QED
      BY <2>1, <2>2
  <1>7. ASSUME NEW m \in months PROVE produced[m] = 0
    <2>1. m \in Months /\ m \in Nat /\ produced[m] \in Nat
      BY <1>2 DEF OnceInv, TypeInv, TypeOK, Months
    <2>2. rule.generatedUntil # None => rule.generatedUntil.month \in Nat
      BY <1>1 DEF Rule, Date, Months
    <2>3. ~(produced[m] > 0)
      BY <1>1, <1>6, <2>1, <2>2 DEF OnceInv
    <2> QED
      BY <2>1, <2>3
  <1>8. \A m \in Months : \/ m \in months /\ produced'[m] \in {0, 1}
                          \/ produced'[m] = produced[m]
    BY <1>2, <1>3, <1>7 DEF Insert, Inserted, OnceInv, TypeInv, TypeOK
  <1>9. ProducedOnce'
    BY <1>8 DEF OnceInv, ProducedOnce
  <1>10. ASSUME NEW m \in Months, produced'[m] > 0
         PROVE  m <= rule'.generatedUntil.month
    <2>1. CASE m \in months
      BY <1>4, <1>5, <2>1
    <2>2. CASE produced'[m] = produced[m]
      <3>1. rule.generatedUntil # None /\ m <= rule.generatedUntil.month
        BY <1>1, <1>10, <2>2 DEF OnceInv
      <3>2. rule.generatedUntil.month < last
        BY <1>4, <1>6, <3>1
      <3>3. m \in Nat /\ last \in Nat /\ rule.generatedUntil.month \in Nat
        BY <1>1, <1>2, <1>4, <3>1 DEF Rule, Date, Months
      <3> HIDE DEF last
      <3> QED
        BY <1>5, <3>1, <3>2, <3>3
    <2> QED
      BY <1>8, <2>1, <2>2
  <1>11. \A s \in Requests : request'[s] = Idle
    BY <1>3, NobodyLeft DEF OnceInv
  <1> QED
    BY <1>5, <1>9, <1>10, <1>11 DEF OnceInv, NothingBefore, Idle

LEMMA LoadOnce ==
    ASSUME OneAtATime, OnceInv, TypeInv', NEW r \in Requests, Live, Load(r)
    PROVE  OnceInv'
  <1>1. PICK q : /\ q.rule = rule /\ q.step # "retire"
                 /\ request' = [request EXCEPT ![r] = q]
    BY DEF Load, Read, LoadForGenerate, LoadForCatchUp, LoadForUpdate, LoadForRemove,
           LoadForDeactivate, LoadForCancel
  <1>2. UNCHANGED <<rule, row, produced>>
    BY DEF Load, Read, LoadForGenerate, LoadForCatchUp, LoadForUpdate, LoadForRemove,
           LoadForDeactivate, LoadForCancel
  <1>3. \A s \in Requests : request'[s] = q
    BY <1>1 DEF OneAtATime, OnceInv, TypeInv, TypeOK
  <1>4. rule' # Unborn
    BY <1>2 DEF Live, Unborn
  <1>5. Live' => Live /\ rule'.generatedUntil = rule.generatedUntil
    BY <1>2 DEF Live
  <1> QED
    BY <1>1, <1>2, <1>3, <1>4, <1>5, QuietOnce

LEMMA CommitOnce ==
    ASSUME OneAtATime, OnceInv, TypeInv', NEW r \in Requests, Commit(r)
    PROVE  OnceInv'
  <1>1. CASE Generate(r)
    BY <1>1, GenerateOnce
  <1>2. ASSUME Live PROVE rule \in Rule /\ rule # Unborn
    BY <1>2, LiveType DEF OnceInv, TypeInv, Live, Unborn
  <1>3. ASSUME Done(r)
        PROVE  /\ \A s \in Requests : request'[s].step # "generate"
               /\ \A s \in Requests : request'[s].step # "retire"
    BY <1>3, NobodyLeft DEF OnceInv, Idle
  <1>4. CASE UpdateRule(r)
    <2>1. /\ Live /\ rule \in Rule /\ Done(r) /\ produced' = produced
          /\ rule' = Updated(request[r].patch)
      BY <1>2, <1>4 DEF UpdateRule
    <2>2. rule' # Unborn /\ rule'.generatedUntil = rule.generatedUntil
      BY <2>1 DEF Updated, Rule, Unborn
    <2> QED
      BY <1>3, <2>1, <2>2, QuietOnce
  <1>5. CASE CountForRemove(r)
    <2>1. request[r] \in Pending /\ request[r] # Idle
      BY <1>5, PendingType DEF CountForRemove, OnceInv, TypeInv, Idle
    <2>2. UNCHANGED <<rule, row, produced>> /\ rule # Unborn /\ Rows' = Rows
      BY <1>5, <2>1 DEF CountForRemove, OnceInv, NothingBefore, Rows
    <2>3. \A s \in Requests : /\ request'[s].step # "generate"
                              /\ request'[s].step = "retire" => Rows = {}
      BY <1>5, <2>1 DEF CountForRemove, MayDelete, OneAtATime, OnceInv, TypeInv, TypeOK,
                        Pending
    <2> QED
      BY <2>2, <2>3, QuietOnce DEF Live
  <1>6. CASE Deactivate(r)
    <2>1. Live /\ rule \in Rule /\ Done(r) /\ produced' = produced /\ rule' = Deactivated
      BY <1>2, <1>6 DEF Deactivate
    <2>2. rule' # Unborn /\ rule'.generatedUntil = rule.generatedUntil
      BY <2>1 DEF Deactivated, Rule, Unborn
    <2> QED
      BY <1>3, <2>1, <2>2, QuietOnce
  <1>7. CASE DeleteRule(r)
    <2>1. rule' # Unborn /\ ~Live' /\ Done(r) /\ produced' = produced
      BY <1>7 DEF DeleteRule, Deleted, Unborn, Live
    <2> QED
      BY <1>3, <2>1, QuietOnce
  <1>8. CASE CancelPlan(r)
    <2>1. Live /\ rule \in Rule /\ Done(r) /\ produced' = produced /\ rule' = Deactivated
      BY <1>2, <1>8 DEF CancelPlan
    <2>2. rule' # Unborn /\ rule'.generatedUntil = rule.generatedUntil
      BY <2>1 DEF Deactivated, Rule, Unborn
    <2> QED
      BY <1>3, <2>1, <2>2, QuietOnce
  <1>9. CASE Finish(r)
    <2>1. Done(r) /\ UNCHANGED <<rule, produced>> /\ rule # Unborn
      BY <1>9 DEF Finish, OnceInv, NothingBefore
    <2> QED
      BY <1>3, <2>1, QuietOnce DEF Live
  <1> QED
    BY <1>1, <1>4, <1>5, <1>6, <1>7, <1>8, <1>9 DEF Commit

\* The installments end with the watermark of the plan.
LEMMA PlanOnce ==
    ASSUME OnceInv, TypeInv', NEW plan \in Plans, CreatePlan(plan)
    PROVE  OnceInv'
  <1> DEFINE copy  == [PlanRule(plan) EXCEPT !.endDate = None, !.generatedUntil = None]
             first == plan.firstPaymentDate.month
             count == plan.installments
             until == LastDayOf(first + count)
  <1>1. /\ count \in Nat \ {0} /\ count # None
        /\ PlanMonths(plan) \in SUBSET Months /\ first \in Nat
    <2>1. plan.firstPaymentDate \in Date /\ LastMonth \in Nat /\ None \notin Nat
      BY RecurrenceAssumption
    <2>2. first \in Nat
      BY <2>1 DEF Date, Months
    <2>3. count \in Nat \ {0} /\ PlanMonths(plan) \in SUBSET Months
      BY PlanTypes
    <2> QED
      BY <2>1, <2>2, <2>3
  <1>2. /\ rule' = PlanRule(plan) /\ Insert(PlanMonths(plan), plan.firstPaymentDate.day)
        /\ rule = Unborn /\ request' = request
    BY DEF CreatePlan
  <1>3. /\ rule'.generatedUntil.month = first + count - 1 /\ rule' # Unborn /\ Live'
        /\ rule'.generatedUntil # None
    <2>1. first + count - 1 \in Months
      BY <1>1, RecurrenceAssumption DEF Months
    <2>2. OccurrenceDate(first + count - 1, plan.firstPaymentDate.day) # None
      BY <2>1, PlanTypes, DateTypes, RecurrenceAssumption
    <2> QED
      BY <1>2, <2>2 DEF PlanRule, NewRule, OccurrenceDate, Unborn, Live
  <1>4. /\ copy.step = 1 /\ copy.totalOccurrences = count
        /\ FirstMonth(copy) = first /\ PlanMonths(plan) = Occurrences(copy, until, 0)
    BY DEF PlanRule, NewRule, FirstMonth, PlanMonths
  <1> HIDE DEF copy, until
  <1>5. ASSUME NEW m \in PlanMonths(plan) PROVE m <= first + count - 1
    <2>1. m \in Nat /\ first <= m /\ WithinTotal(copy, m, 0)
      BY <1>1, <1>4 DEF Occurrences, Months
    <2>2. (m - first) \div 1 = m - first
      BY <1>1, <2>1
    <2> HIDE DEF first, count
    <2>3. 0 + (m - first) < count
      BY <1>1, <1>4, <2>1, <2>2 DEF WithinTotal
    <2> QED
      BY <1>1, <2>1, <2>3
  <1>6. \A m \in Months : \/ m \in PlanMonths(plan) /\ produced'[m] \in {0, 1}
                          \/ produced'[m] = 0
    BY <1>1, <1>2 DEF Insert, Inserted, OnceInv, TypeInv, TypeOK
  <1>7. \A r \in Requests : request'[r] = Idle
    BY <1>2 DEF OnceInv, NothingBefore
  <1> QED
    BY <1>3, <1>5, <1>6, <1>7 DEF OnceInv, ProducedOnce, NothingBefore, Idle

LEMMA OnceStep == OneAtATime /\ OnceInv /\ [Next]_vars => OnceInv'
  <1> SUFFICES ASSUME OneAtATime, OnceInv, [Next]_vars PROVE OnceInv'
    OBVIOUS
  <1>1. TypeInv'
    BY TypeStep DEF OnceInv
  <1>2. CASE UNCHANGED vars
    <2>1. Rows' = Rows
      BY <1>2 DEF vars, Rows
    <2> QED
      BY <1>1, <1>2, <2>1 DEF vars, OnceInv, NothingBefore, ProducedOnce, Live
  <1>3. ASSUME NEW schedule \in Schedules, CreateRule(schedule)
        PROVE  OnceInv'
    <2>1. rule' # Unborn /\ produced' = produced
      BY <1>3 DEF CreateRule, NewRule, Unborn
    <2>2. \A month \in Months : produced[month] = 0
      BY <1>3 DEF CreateRule, OnceInv
    <2>3. \A r \in Requests : request'[r] = Idle
      BY <1>3 DEF CreateRule, OnceInv, NothingBefore
    <2> QED
      BY <1>1, <2>1, <2>2, <2>3 DEF OnceInv, NothingBefore, ProducedOnce, Idle
  <1>4. ASSUME NEW plan \in Plans, CreatePlan(plan)
        PROVE  OnceInv'
    BY <1>1, <1>4, PlanOnce
  <1>5. ASSUME NEW r \in Requests, (Live /\ Load(r)) \/ Commit(r)
        PROVE  OnceInv'
    BY <1>1, <1>5, LoadOnce, CommitOnce
  <1>6. ASSUME NEW from \in Months, NEW to \in Movable, MoveRow(from, to)
        PROVE  OnceInv'
    <2>1. UNCHANGED <<rule, produced, request>> /\ from \in Rows
      BY <1>6 DEF MoveRow, Rows
    <2>2. rule # Unborn /\ \A r \in Requests : request[r].step # "retire"
      BY <2>1 DEF OnceInv, NothingBefore
    <2> QED
      BY <1>1, <2>1, <2>2, QuietOnce DEF OnceInv, Live
  <1>7. ASSUME NEW month \in Removable, RemoveRow(month)
        PROVE  OnceInv'
    <2>1. UNCHANGED <<rule, produced, request>> /\ month \in Rows
      BY <1>7, RecurrenceAssumption DEF RemoveRow, Rows
    <2>2. rule # Unborn /\ \A r \in Requests : request[r].step # "retire"
      BY <2>1 DEF OnceInv, NothingBefore
    <2> QED
      BY <1>1, <2>1, <2>2, QuietOnce DEF OnceInv, Live
  <1>8. CASE Tick
    <2>1. UNCHANGED <<rule, row, produced, request>> /\ Rows' = Rows
      BY <1>8 DEF Tick, Rows
    <2> QED
      BY <1>1, <2>1 DEF OnceInv, NothingBefore, ProducedOnce, Live
  <1> QED
    BY <1>2, <1>3, <1>4, <1>5, <1>6, <1>7, <1>8 DEF Next

\* A rerun of the generator inserts no occurrence a second time, also after edits of
\* the rule and after rows were moved or deleted, when requests are served one at a
\* time: a run begins after the watermark, and nothing later was produced.
THEOREM NothingComesBack == OneAtATime => (Spec => []ProducedOnce)
  <1> SUFFICES ASSUME OneAtATime PROVE Spec => []ProducedOnce
    OBVIOUS
  <1>1. OnceInv /\ [Next]_vars => OnceInv'
    BY OnceStep
  <1>2. OnceInv => ProducedOnce
    BY DEF OnceInv
  <1> QED
    BY <1>1, <1>2, OnceInit, PTL DEF Spec

LEMMA DeletedAsCounted ==
    ASSUME OnceInv, [Next]_vars, Live, rule' = Deleted
    PROVE  Rows = {}
  <1>1. rule.state = "live" /\ rule'.state = "deleted" /\ rule' # rule /\ rule \in Rule
    BY LiveType DEF Live, Deleted, OnceInv, TypeInv
  <1>2. ASSUME NEW r \in Requests, Load(r) PROVE rule' = rule
    BY <1>2 DEF Load, Read, LoadForGenerate, LoadForCatchUp, LoadForUpdate, LoadForRemove,
                LoadForDeactivate, LoadForCancel
  <1>3. ASSUME NEW r \in Requests, Commit(r), ~DeleteRule(r)
        PROVE  rule'.state = "live" \/ rule' = rule
    BY <1>1, <1>3 DEF Commit, Generate, UpdateRule, Updated, CountForRemove, Deactivate,
                      Deactivated, CancelPlan, Finish, Rule
  <1>4. rule # Unborn
    BY <1>1 DEF Unborn
  <1>5. \/ rule' = rule
        \/ \E r \in Requests : Load(r) \/ Commit(r)
    BY <1>4 DEF Next, vars, CreateRule, CreatePlan, MoveRow, RemoveRow, Tick
  <1>6. PICK r \in Requests : DeleteRule(r)
    BY <1>1, <1>2, <1>3, <1>5
  <1> QED
    BY <1>6 DEF DeleteRule, OnceInv

\* A rule that has rows is never deleted outright, although the rows are counted in an
\* earlier step, when requests are served one at a time.
THEOREM DeletedRulesHadNoRows == OneAtATime => (Spec => DeletedUnreferenced)
  <1> SUFFICES ASSUME OneAtATime PROVE Spec => DeletedUnreferenced
    OBVIOUS
  <1>1. OnceInv /\ [Next]_vars => OnceInv'
    BY OnceStep
  <1>2. OnceInv /\ [Next]_vars => [Live /\ rule' = Deleted => Rows = {}]_vars
    BY DeletedAsCounted
  <1> QED
    BY <1>1, <1>2, OnceInit, PTL DEF Spec, DeletedUnreferenced
=============================================================================
