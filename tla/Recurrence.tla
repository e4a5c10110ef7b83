----------------------------- MODULE Recurrence -----------------------------
(***************************************************************************)
(* A recurrence rule and the transactions it generates: the rule's own     *)
(* handlers (recurrence-rules.service.ts), the generator                   *)
(* (recurrence-generator.service.ts), the catch-up that runs it at login   *)
(* (recurrence-catch-up.service.ts) and installment plans                  *)
(* (installments.service.ts).  Rules do not touch each other, so one is    *)
(* modelled; any number of requests work on it.                            *)
(*                                                                         *)
(* Every handler reads the rule first and acts on that copy, which is kept *)
(* in request[r]; the write is a later step.  The generator's Serializable *)
(* transaction is one step: it counts the rows afresh, but computes the    *)
(* occurrences from the copy.                                              *)
(***************************************************************************)
EXTENDS Occurrences, FiniteSets, Functions

CONSTANTS Requests,   \* HTTP requests the API serves at the same time
          LastMonth,  \* a bound: months after it are out of play
          Todays,     \* the dates the clock passes through
          Horizon,    \* ROLLING_HORIZON_MONTHS
          Schedules,  \* what a client may create a rule with
          Plans,      \* what a client may create an installment plan with
          Patches,    \* schedule fields a client may change, with their values
          Movable,    \* months a client may move a generated row to
          Removable   \* months of which a client may delete the row

Months == 0 .. LastMonth

\* The dates of the calendar.
Date == {date \in [month : Months, day : Nat \ {0}] : date.day <= DaysIn(date.month)}

\* The fields of a rule that say when it is due, with their values.
Field == [step             |-> Nat \ {0},
          dayOfMonth       |-> Nat \ {0},
          startDate        |-> Date,
          endDate          |-> Date \cup {None},
          totalOccurrences |-> (Nat \ {0}) \cup {None}]

OfFields(record) == /\ DOMAIN record \subseteq DOMAIN Field
                    /\ \A f \in DOMAIN record : record[f] \in Field[f]

ASSUME RecurrenceAssumption ==
    /\ LastMonth \in Nat /\ Horizon \in Nat
    /\ \A month \in Months : DaysIn(month) \in Nat \ {0}
    /\ Todays \subseteq Date
    /\ \A date \in Todays : date.month + Horizon \in Months
    /\ \A schedule \in Schedules : OfFields(schedule) /\ DOMAIN schedule = DOMAIN Field
    /\ \A patch \in Patches : OfFields(patch)
    /\ Plans \subseteq [firstPaymentDate : Date, installments : Nat \ {0}]
    /\ \A plan \in Plans : plan.firstPaymentDate.month + plan.installments \in Months
    /\ Movable \subseteq Months /\ Removable \subseteq Months
    /\ None \notin Date \cup Nat \cup Patches

\* assertDateRange()
DatesInOrder(startDate, endDate) == endDate # None => ~NotAfter(endDate, startDate)

VARIABLES rule,      \* the recurrence_rules row
          row,       \* the date of the row the rule has in each reference month
          produced,  \* history: how often the occurrence of a month was inserted
          request,   \* what each request in flight has read
          today      \* the clock

vars == <<rule, row, produced, request, today>>

-----------------------------------------------------------------------------
Unborn  == [state |-> "unborn"]
Deleted == [state |-> "deleted"]

Rule == [state            : {"live"},
         step             : Nat \ {0},
         dayOfMonth       : Nat \ {0},
         startDate        : Date,
         endDate          : Date \cup {None},
         totalOccurrences : (Nat \ {0}) \cup {None},
         isActive         : BOOLEAN,
         generatedUntil   : Date \cup {None}]

Idle    == [step |-> "idle"]
Pending == [step  : {"generate", "update", "remove", "retire", "deactivate", "cancel"},
            rule  : Rule,
            until : Date \cup {None},
            patch : Patches \cup {None}]

TypeOK ==
    /\ rule \in Rule \cup {Unborn, Deleted}
    /\ row \in [Months -> Date \cup {None}]
    /\ produced \in [Months -> Nat]
    /\ request \in [Requests -> Pending \cup {Idle}]
    /\ today \in Todays

Live == rule.state = "live"

\* The rows the rule has: the unique index on (recurrenceRuleId,
\* referenceMonth) leaves at most one in a month.
Rows == {month \in Months : row[month] # None}

\* rollingHorizon()
HorizonOf(date) == LastDayOf(date.month + Horizon)

-----------------------------------------------------------------------------
\* The reads.

Read(r, step, until, patch) ==
    /\ Live
    /\ request[r] = Idle
    /\ request' = [request EXCEPT ![r] = [step |-> step, rule |-> rule,
                                          until |-> until, patch |-> patch]]
    /\ UNCHANGED <<rule, row, produced, today>>

\* RecurrenceRulesService.generate(): any rule, of any age.
LoadForGenerate(r) == Read(r, "generate", HorizonOf(today), None)

\* The catch-up picks the rules that are active, have begun by the horizon and
\* have not ended.
LoadForCatchUp(r) ==
    /\ rule.isActive
    /\ NotAfter(rule.startDate, HorizonOf(today))
    /\ rule.endDate # None => NotAfter(today, rule.endDate)
    /\ Read(r, "generate", HorizonOf(today), None)

PatchedField(patch, schedule, f) == IF f \in DOMAIN patch THEN patch[f] ELSE schedule[f]

LoadForUpdate(r, patch) ==
    /\ DatesInOrder(PatchedField(patch, rule, "startDate"),
                    PatchedField(patch, rule, "endDate"))
    /\ Read(r, "update", None, patch)

LoadForRemove(r) == Read(r, "remove", None, None)

LoadForDeactivate(r) == rule.isActive /\ Read(r, "deactivate", None, None)

\* The cancellation date is fixed as soon as the rule is read.
LoadForCancel(r) == rule.totalOccurrences # None /\ Read(r, "cancel", today, None)

Done(r) == request' = [request EXCEPT ![r] = Idle]

\* A request that has nothing left to do, or that fails: a rule that is gone
\* (P2025, P2003), a serialization failure, a lost connection, a restart.
Finish(r) == /\ request[r] # Idle
             /\ Done(r)
             /\ UNCHANGED <<rule, row, produced, today>>

-----------------------------------------------------------------------------
\* RecurrenceGeneratorService.generate(), the database transaction.

LastOf(months) == CHOOSE month \in months : \A m \in months : m <= month

\* Mutant of Inserted: without the unique index, nothing is skipped.
InsertedAll(months, dayOfMonth) == months

\* createMany with skipDuplicates: the months that really get a row.
Inserted(months, dayOfMonth) == {month \in months : row[month] = None}

Insert(months, dayOfMonth) ==
    LET new == Inserted(months, dayOfMonth) IN
    /\ row' = [month \in Months |-> IF month \in new
                                    THEN OccurrenceDate(month, dayOfMonth) ELSE row[month]]
    /\ produced' = [month \in Months |-> IF month \in new
                                         THEN produced[month] + 1 ELSE produced[month]]

\* Mutant of AlreadyGenerated: only this batch counts.
AlreadyGeneratedNone == 0

AlreadyGenerated == Cardinality(Rows)

\* Mutant of Watermark: generatedUntil is set to the horizon.
WatermarkAtHorizon(copy, until, months) == until

\* What generatedUntil becomes.
Watermark(copy, until, months) == OccurrenceDate(LastOf(months), copy.dayOfMonth)

Generate(r) ==
    LET copy   == request[r].rule
        until  == request[r].until
        months == Occurrences(copy, until, AlreadyGenerated)
    IN /\ request[r].step = "generate"
       /\ months # {}
       /\ Live
       /\ Insert(months, copy.dayOfMonth)
       /\ rule' = [rule EXCEPT !.generatedUntil = Watermark(copy, until, months)]
       /\ Done(r)
       /\ UNCHANGED today

-----------------------------------------------------------------------------
\* RecurrenceRulesService.

NewRule(schedule, generatedUntil) ==
    [state            |-> "live",
     step             |-> schedule.step,
     dayOfMonth       |-> schedule.dayOfMonth,
     startDate        |-> schedule.startDate,
     endDate          |-> schedule.endDate,
     totalOccurrences |-> schedule.totalOccurrences,
     isActive         |-> TRUE,
     generatedUntil   |-> generatedUntil]

CreateRule(schedule) ==
    /\ rule = Unborn
    /\ DatesInOrder(schedule.startDate, schedule.endDate)
    /\ rule' = NewRule(schedule, None)
    /\ UNCHANGED <<row, produced, request, today>>

\* The fields of the body are written, whatever the rule has become since it was
\* read; generatedUntil stays.
Updated(patch) ==
    [rule EXCEPT !.step             = PatchedField(patch, rule, "step"),
                 !.dayOfMonth       = PatchedField(patch, rule, "dayOfMonth"),
                 !.startDate        = PatchedField(patch, rule, "startDate"),
                 !.endDate          = PatchedField(patch, rule, "endDate"),
                 !.totalOccurrences = PatchedField(patch, rule, "totalOccurrences")]

\* update(), the write.
UpdateRule(r) ==
    /\ request[r].step = "update"
    /\ Live
    /\ rule' = Updated(request[r].patch)
    /\ Done(r)
    /\ UNCHANGED <<row, produced, today>>

Deactivated == [rule EXCEPT !.isActive = FALSE]

\* Mutant of MayDelete: the rows are not counted.
MayDeleteAnyway == TRUE

MayDelete == Rows = {}

\* remove(), the count: what it decides is acted upon in a later step.
CountForRemove(r) ==
    /\ request[r].step = "remove"
    /\ request' = [request EXCEPT ![r].step = IF MayDelete THEN "retire" ELSE "deactivate"]
    /\ UNCHANGED <<rule, row, produced, today>>

\* deactivate(), and remove() when there are rows.
Deactivate(r) ==
    /\ request[r].step = "deactivate"
    /\ Live
    /\ rule' = Deactivated
    /\ Done(r)
    /\ UNCHANGED <<row, produced, today>>

\* remove() when there were none.  onDelete: SetNull detaches what is there.
DeleteRule(r) ==
    /\ request[r].step = "retire"
    /\ Live
    /\ rule' = Deleted
    /\ row' = [month \in Months |-> None]
    /\ Done(r)
    /\ UNCHANGED <<produced, today>>

-----------------------------------------------------------------------------
\* InstallmentsService.

\* occurrenceDates(): consecutive months, bounded by the number of installments.
PlanRule(plan) ==
    LET last == plan.firstPaymentDate.month + plan.installments - 1 IN
    NewRule([step             |-> 1,
             dayOfMonth       |-> plan.firstPaymentDate.day,
             startDate        |-> plan.firstPaymentDate,
             endDate          |-> OccurrenceDate(last, plan.firstPaymentDate.day),
             totalOccurrences |-> plan.installments],
            OccurrenceDate(last, plan.firstPaymentDate.day))

PlanMonths(plan) ==
    Occurrences([PlanRule(plan) EXCEPT !.endDate = None, !.generatedUntil = None],
                LastDayOf(plan.firstPaymentDate.month + plan.installments), 0)

\* createPlan(): the rule and all its rows in one database transaction.
CreatePlan(plan) ==
    /\ rule = Unborn
    /\ rule' = PlanRule(plan)
    /\ Insert(PlanMonths(plan), plan.firstPaymentDate.day)
    /\ UNCHANGED <<request, today>>

\* cancelPlan(): what settles after the cancellation date goes.
CancelPlan(r) ==
    /\ request[r].step = "cancel"
    /\ Live
    /\ row' = [month \in Months |->
                  IF row[month] # None /\ ~NotAfter(row[month], request[r].until)
                  THEN None ELSE row[month]]
    /\ rule' = Deactivated
    /\ Done(r)
    /\ UNCHANGED <<produced, today>>

-----------------------------------------------------------------------------
\* What TransactionsService lets a client do to a generated row.

\* update() with a referenceMonth: refused by the unique index if the month is
\* taken (P2002).
MoveRow(from, to) ==
    /\ row[from] # None /\ row[to] = None
    /\ row' = [row EXCEPT ![from] = None, ![to] = row[from]]
    /\ UNCHANGED <<rule, produced, request, today>>

RemoveRow(month) ==
    /\ row[month] # None
    /\ row' = [row EXCEPT ![month] = None]
    /\ UNCHANGED <<rule, produced, request, today>>

Tick == /\ today' \in {date \in Todays : ~NotAfter(date, today)}
        /\ UNCHANGED <<rule, row, produced, request>>

-----------------------------------------------------------------------------
Init == /\ rule = Unborn
        /\ row = [month \in Months |-> None]
        /\ produced = [month \in Months |-> 0]
        /\ request = [r \in Requests |-> Idle]
        /\ today \in Todays

Load(r) == \/ LoadForGenerate(r)
           \/ LoadForCatchUp(r)
           \/ \E patch \in Patches : LoadForUpdate(r, patch)
           \/ LoadForRemove(r)
           \/ LoadForDeactivate(r)
           \/ LoadForCancel(r)

Commit(r) == \/ Generate(r)
             \/ UpdateRule(r)
             \/ CountForRemove(r)
             \/ Deactivate(r)
             \/ DeleteRule(r)
             \/ CancelPlan(r)
             \/ Finish(r)

Next == \/ \E schedule \in Schedules : CreateRule(schedule)
        \/ \E plan \in Plans : CreatePlan(plan)
        \/ \E r \in Requests : (Live /\ Load(r)) \/ Commit(r)
        \/ \E from \in Months, to \in Movable : MoveRow(from, to)
        \/ \E month \in Removable : RemoveRow(month)
        \/ Tick

Spec == Init /\ [][Next]_vars

-----------------------------------------------------------------------------
(***************************************************************************)
(* What must hold.                                                         *)
(***************************************************************************)

\* A rerun of the generator, manual or a concurrent one, is a no-op rather than
\* a duplicate: an occurrence is inserted at most once, so it neither appears
\* twice nor comes back after its row was deleted.
ProducedOnce == \A month \in Months : produced[month] <= 1

\* The months a run would generate are the months the loop visits.
OccurrencesAreTheLoop ==
    Live => Occurrences(rule, HorizonOf(today), AlreadyGenerated)
              = LoopFrom(rule, HorizonOf(today), AlreadyGenerated)

\* However many runs overlap, a rule has no more rows than its total.
RowsWithinTotal ==
    Live /\ rule.totalOccurrences # None => Cardinality(Rows) <= rule.totalOccurrences

\* totalOccurrences "caps the lifetime count, not just this batch".
LifetimeCap ==
    Live /\ rule.totalOccurrences # None =>
        SumFunction(produced) <= rule.totalOccurrences

\* No occurrence is skipped for good: everything due up to generatedUntil,
\* which later runs start after, was produced.
NothingSkipped ==
    Live /\ rule.generatedUntil # None =>
        \A month \in rule.startDate.month .. rule.generatedUntil.month :
            (month - rule.startDate.month) % rule.step = 0 => produced[month] > 0

\* A rule is deleted outright only when nothing points at it yet, so deleting
\* one loses no generated transaction its rule.
DeletedUnreferenced ==
    [][Live /\ rule' = Deleted => Rows = {}]_vars
=============================================================================
