# Verification of the family budget web application

TLA+ modules of the parts of the application whose correctness depends on the
order of things: the cashbox ledger, the recurrence generator and the lock of
its catch-up, the category tree and the budget, imports, investment trades and
quotes, the database backup, and the session of a browser tab. TLC checks them on
small instances; TLAPS proves their invariants and the refinement for every instance.

Paths below are relative to the repository; `transactions.service.ts` is
`apps/api/src/modules/transactions/transactions.service.ts`, and so on.

## The system

A NestJS API over PostgreSQL (Prisma), a generated API client and a React web
application. One API process serves requests concurrently; all durable state is
in the database. There is no queue, no cron and no second process: background
work (recurrence catch-up, quote synchronization) is started by requests and runs
inside them.

| component | state | operations | with whom | what is hard | what makes it correct |
|---|---|---|---|---|---|
| Transactions | `transactions` | create, update, remove, list | validator reads accounts, categories, cashboxes; balances | reads before the Serializable write; guards on the ids read first | no cashbox overdrawn; references exist; labels and nulls as in ADR-0019 |
| Cashboxes | `cashboxes` | create, update, (de)activate, remove | balance derived from transactions; `SetNull` on them | deletion against a request in flight | closed only when empty, others untouched |
| Recurrence rules | `recurrence_rules`, their rows | create, update, remove, deactivate, generate, preview | transactions edit and delete the rows | generation from a stale copy of the rule | each occurrence once, within the total, none skipped |
| Installment plans | a rule and all its rows | createPlan, cancelPlan | the generator on the same rule | cancellation against generation | split adds up; cancelled stays cancelled |
| Recurrence catch-up | advisory lock | run at login | generator | session lock over a pool | one run at a time, lock released |
| Account balances | none (derived) | instrument balances | transactions, trades, adjustments | one snapshot | agrees with the rows |
| CSV import | advisory lock | preview, confirm | transactions | duplicate detection as multisets | a line imported once |
| Investments | trades, adjustments, quotes, instruments, listings | create, update, remove; synchronizeQuotes | balances, accounts | locks on some keys only; chronological histories; provider budget | no history goes negative |
| Investment import | batches | confirm, rollback | investments | duplicates, adjustments after rollback | a batch all or nothing |
| Accounts | `accounts` | CRUD, (de)activate | balances | empty check outside the write | inactive implies empty |
| Categories | two-level tree | create, update (move, kind), (de)activate, remove | transactions, budgets | checks outside the write | invariants 1 to 3 of `categories.service.ts` |
| Budgets | budget, allocations | put | categories | check outside the write | allocations replaced as a whole |
| Reports | none | monthly, yearly | transactions | rounding | percentages add up |
| Backup | in-process lock | dump | all mutations | requests already past the middleware | nothing written during a dump |
| Authentication, users, platform | tokens, profile | login, refresh, CRUD | all | none kept between requests | |
| Client session | access token, pending refresh | refresh, logout, replay | API | late 401s, refresh against logout | one refresh at a time; logged out stays logged out |
| Web screens | view state | | API client | presentation | |
| Tooling | none | git hooks, CI, vendored agent skills | | not part of the program | |

`PROJECT.json` has the same list with the status of each, and under `hazards`
the places where these can go wrong.

## Modules

| module | models | |
|---|---|---|
| `CashboxLedger` | `transactions.service.ts`, `transaction-validator.ts`, `cashboxes.service.ts`, `cashbox-balance.ts`, `onDelete: SetNull` of the schema | state machine |
| `CashboxPots` | what a cashbox promises its user: amounts that open, change by postings, and close when empty | abstract specification |
| `CashboxLedgerProofs` | theorems about `CashboxLedger` | proofs |
| `Occurrences` | `occurrences.ts`, in closed form and as the loop | pure operators |
| `Recurrence` | `recurrence-rules.service.ts`, `recurrence-generator.service.ts`, `recurrence-catch-up.service.ts`, `installments.service.ts` | state machine |
| `RecurrenceProofs` | theorems about `Recurrence` | proofs |
| `CatchUpLock` | `recurrence-catch-up.service.ts` and the advisory lock it takes over a pool of connections | state machine, liveness |
| `SessionRefresh` | `auth-interceptors.ts`, `auth-session.ts`, `auth-provider.tsx`, the cookies of the authentication controller | state machine, liveness |
| `BackupLock` | `database-backup.service.ts`, `backup-lock.service.ts`, `backup-write-lock.middleware.ts` | state machine, liveness |
| `QuoteSync` | `synchronizeQuotes()` and `createMarketQuote()` of `investments.service.ts`, `market-quote-sync.interceptor.ts` | state machine |
| `Categories` | `categories.service.ts`, `put()` of `budgets.service.ts`, their foreign keys | state machine |
| `CsvImport` | `confirm()` of `csv-import.service.ts`, beside the transactions endpoints | state machine |
| `Investments` | the trades of `investments.service.ts`, `confirm()` and `rollback()` of `investment-import.service.ts` | state machine |
| `Amounts` | `installment-split.ts`, `report-math.ts` | pure operators |
| `CategoriesProofs`, `CsvImportProofs`, `InvestmentsProofs` | theorems about the module of that name | proofs |
| `PlatformProofs` | theorems about `SessionRefresh`, `CatchUpLock`, `BackupLock`, `QuoteSync`, and that `MCPlatform` composes them | proofs |
| `RecordsProofs` | theorems about `Amounts`, and that `MCRecords` composes `Categories`, `CsvImport` and `Investments` | proofs |
| `Sums` | lemmas about `SumFunctionOnSet` of the community modules | proofs |
| `MCCashboxLedger`, `MCRecurrence` | finite instances | TLC |
| `MCPlatform` | `SessionRefresh`, `CatchUpLock`, `BackupLock`, `QuoteSync` in one instance | TLC |
| `MCRecords` | `Categories`, `CsvImport`, `Investments`, `Amounts` in one instance | TLC |

### How a request is modelled

A handler reads outside a database transaction and writes inside one. Each read
the later steps depend on is an action that keeps what was read in `request[r]`;
a Serializable transaction, with all its reads, writes and guards, is one action.
A transaction that PostgreSQL rolls back, a lost connection, a restart of the
API and a validation the model does not follow (account and category references)
all have the same effect: the request ends and nothing is written. That is
`Abort` in the ledger and `Finish` in the recurrence module. Serializable
isolation is what the code asks of PostgreSQL: transactions behave as if one
after the other. It says nothing of the reads made before them, and those are
the interesting ones.

### CashboxLedger

- `cashbox`, `transaction`: the tables. Ids go from unborn to live to deleted
  and are never reused, as UUIDs.
- `ref[f]` are the two cashbox columns, `label[f]` the names copied next to
  them; a name is modelled by the cashbox it was taken from.
- `LoadForUpdate`, `ValidateUpdate`, `CommitUpdate` are the three phases of
  `update()`; likewise `ValidateCreate`, `CommitCreate` and `LoadForRemove`,
  `CommitRemove`. `GuardIds` is `collectCashboxIds()` of what was loaded.
- `CreateCashbox`, `UpdateCashbox`, `SetActive`, `RemoveCashbox` are the
  handlers of `cashboxes.service.ts`.

Status and null amounts are not in the model: `CreateTransactionDto` has no
status, so every row a client creates is `CONFIRMED`, and drafts come only from
recurrence, installments and CSV import, which make `INCOME` and `EXPENSE` rows,
whose cashbox fields the validator forbids. Settlement dates are not either,
because `cashbox-balance.ts` does not look at them.

The balance guard is modelled on the rows as written (`NonNegativeAfter`), as in
`assertNonNegative()`.

### Recurrence

- `rule`: one row of `recurrence_rules` and its schedule; monthly and yearly are
  the `step` in months. Rules do not touch each other, so one is enough.
- `row[m]`: the date of the row the rule has in reference month `m`; the unique
  index on rule and month leaves at most one.
- `produced[m]`: a history variable, how often an occurrence of month `m` was
  inserted.
- `LoadForGenerate`, `LoadForCatchUp` read the rule and fix the horizon;
  `Generate` is the transaction of the generator: it counts the rows afresh and
  computes the occurrences from the copy. `CountForRemove` and `DeleteRule` or
  `Deactivate` are the two separate statements of `remove()`.
- `CreatePlan`, `CancelPlan`; `MoveRow`, `RemoveRow` are what the transactions
  endpoints can do to a generated row; `Tick` is the clock.

`Occurrences` says in closed form which months `computeOccurrences()` yields, and
`LoopFrom` is the loop itself, turn by turn; they are compared in every state a run
reaches (`OccurrencesAreTheLoop`) and proved equal.

The advisory lock of the catch-up is left out of this module on purpose: it is a
session lock taken over a pool of connections, and the manual generate endpoint
does not take it, so two runs of the generator can overlap with or without it.
`CatchUpLock` is about the lock itself.

### CatchUpLock

- `held[c]`: how often the session of connection `c` of the pool holds the lock. The
  connection is chosen afresh for each statement, so `TryLock(r, c)` and
  `Unlock(r, d)` of one run may name different ones.
- `TryLock` succeeds on the connection that already holds the lock (`reentered`);
  `SkipLocked` is the answer `skipped`. `LoadRules`, `Generate`, `GenerateFails`,
  `AllTried` are the loop; `LoadFails` and `UnlockFails` the two ways an error gets out.
- `CloseConnection` is the pool retiring or losing a connection, and the lock with it.

The three history variables say what has happened to the lock; `OverlapHasCause`
and `LockOutlivesRun` say that nothing else can make runs overlap or leave the lock
held. What a rule's generation does is `Recurrence`.

### SessionRefresh

- `accessToken`, `pendingRefresh`: the two module variables of the client; `cookie`
  and `session` the browser's and React Query's.
- `call[c]`: a request with what it carries, whether it is marked `retried`, and the
  refresh it waits for. `Rejected` is the error interceptor, `RefreshOnce` its shared
  promise; `RefreshGranted` and `RefreshDenied` are the continuations of that promise,
  which run in one turn of the event loop for all who wait.
- A request (`Send`, `RefreshOnce`, `Logout`), what the server makes of it (`Served`,
  `Unauthorized`, `GrantRefresh`, ...) and the arrival of the answer are apart, so
  answers overtake one another: a refresh granted before a logout may arrive after it.

### BackupLock

- `locked` is the flag of `BackupLockService`; `Arrive` is the middleware, which looks
  at it once; `write[w]` is "running" from there to the answer (`Finish`).
- `Acquire`, `VersionFails`, `StartDump`, `DumpEnds` are `stream()` with its `finally`;
  `ClientLeaves` may come at any moment, and only kills when the listener is there.
- `fits`: whether a dump that nobody reads fits into the buffers on its way. A child
  that is not read and does not fit blocks.

### QuoteSync

- `sync[l]` is today's row of `market_quote_syncs`, `quote[l]` the source of the stored
  quote. `Start` is the reads and the choice of candidates within the budget;
  `CallProvider` the call and the write of its quote; `Record` the write of the
  attempt, counted on from what was read at the start; `Break` an error or a restart.
- `calls`, `lost`, `overlapped` are history.

### Categories

- `category[c]`: row with parent, kind, active; `allocated`: the categories of one
  budget's allocations.
- `CheckCreate`/`CreateSub`, `CheckUpdate`/`Update`, `CheckSetActive`/`SetActive`,
  `CheckPut`/`Put` are the reads and the write of each handler. A request between the
  two becomes `stale` when another one writes; `raced` records that a stale one wrote.
- `CreateRoot` makes the root and its first subcategory, as `create()` does; the root
  has the `isActive` of the body, the first subcategory is active. `Remove` is one
  statement, refused by the foreign keys.
- `Update` writes the fields the body has, `isActive` included: of that row alone, with
  no cascade and no check for the last subcategory (`update-category.dto.ts:9-10`).
  `SetActive` is the toggle, with both.

Without races the three invariants of the service hold as far as the properties go.
Three writes take the last active subcategory from an active root without a check: a
removal, a move and a PATCH of `isActive` (which may also switch on a root that has
none). `HollowedBy` records the root in `hollowed`, and it stays excused until it has an
active subcategory again; a creation or a toggle never needs the excuse. So invariant 3
as `categories.service.ts:32` states it ("an active root always has an active
subcategory") does not hold: deactivating the last one is refused, deleting it, moving
it or patching its `isActive` is not. What moves without a kind is in `silent`, and a
finding below.

### CsvImport

- `stored[p]`: how many rows of the account have fingerprint `p`. Equal lines are told
  apart by counting only, so numbers are all there is.
- `BeginImport` is the first statement of the Serializable transaction: it fixes the
  snapshot and waits for the account's lock; `LockAccount` gets it; `CommitImport`
  writes the selected lines that are new for the snapshot. A snapshot that another
  import has outdated is `stale`, and PostgreSQL refuses to commit new lines on it.
- `AddRow`, `RemoveRow`, `EditRow` are the transactions endpoints. They are
  Serializable too (`transactions.service.ts:127`, `:204`, `:223`), so PostgreSQL may
  also refuse an import, or an endpoint, for what the other did; the model refuses
  neither, so it has every behaviour of the code and some more.

### Investments

- `trade[t]`: instant and change per instrument; `base[i]` everything else that
  `instrumentBalances()` adds up, moved by `MoveBase`.
- A transaction is a sequence of statements at READ COMMITTED: `TakeLock`,
  `InsertTrade` (balance check and insert), then `ListTrades` and `AssertCovered`
  (`assertChronologicalBalances()`, whose list and balances are separate statements),
  then `CommitWrite`. `UpdateTrade`, `RemoveTrade` and `RollBackBatch` take no lock.
- The trades of the model have all happened. The balance check of `createTrade()` counts
  only what has (`investments.service.ts:501`, `balances.service.ts:104`), the
  chronological check everything (`investments.service.ts:644`), so a trade dated ahead
  meets the same second check and is never spent by the first.
- `ConfirmImport` only warns; `excuse` records why a negative balance may be there.
  `spent`: another endpoint has taken `base` below zero, that is, spent what only the
  trades brought. Taking such a trade back (`RemoveTrade`, `RollBackBatch`) passes the
  chronological check, since no trade is short, and leaves a negative balance.
  `HoldingsCovered` excuses that, `HistoryCovered` need not. It is not what the
  documents want: ADR-0025:57 says that negative non-bank Instrument Balances are
  rejected, plans/0002-investments.md:208 that they cannot become negative.

### Amounts

`SplitInstallments` and `DistributePercentages` are the two functions on integer
cents and hundredths of a percent. The shares are computed in floating point by the
code: one that is exactly a whole number may come out just below it, and `below`
is any set of such shares.

## Runs

`CHECK_DEADLOCK FALSE` is there because the finite supply of ids, calls or trades,
or the clock, runs out, which a real system does not.

| run | bounds | result |
|---|---|---|
| `ledger_concurrent` | 2 cashboxes, 2 rows, 2 requests, amounts 1 and 2, initial balances 0 and 1; edits change amount and month, not the cashbox | no overdraft, guards cover the row, references live |
| `ledger_sequential` | as above, 1 request; edits may change the cashbox | the same, plus labels, nulls, distinct sides, and the ledger implements `CashboxPots` |
| `ledger_overdraft` | 2 requests, edits may change the cashbox | **violated**: `NonNegative` |
| `ledger_null_detach` | 1 request, a PATCH may send null | **violated**: `NullMeansDeleted` |
| `ledger_lost_month` | 2 requests, 2 months | **violated**: `MonthKept` |
| `recurrence_concurrent` | 2 requests, 12 schedules (steps 1 and 2, with and without end, totals none, 3 and 6), a plan of 3; months 0 to 5, one of them short; horizon 3 | rows within the total, nothing skipped |
| `recurrence_edits` | 1 request, five kinds of edit, any row deleted, rows moved | each occurrence once, no rule with rows deleted, closed form equals loop |
| `recurrence_revived` | 2 requests | **violated**: `ProducedOnce` |
| `recurrence_lifetime` | 1 request, rows deleted | **violated**: `LifetimeCap` |
| `platform` | session: 2 calls, 2 refreshes; catch-up: 2 runs, 2 connections, 2 rules; backup: 2 dumps, 2 mutations; quotes: 2 listings, 2 requests, 3 calls a day | safety of the four, and `CallsEnd`, `RunsEnd`, `LockComesFree`; 77,506 states |
| `records` | tree: 4 categories, 1 request; CSV: 2 fingerprints, files of at most 2 lines, 2 confirmations, 2 rows, 1 deletion or edit; trades: 3 trades, 2 instruments, 3 drafts, 2 requests, other balances from -1 to 1; amounts: up to 4 amounts of 0 to 7 | types, and safety of the four; 846,503 states |
| `category_kind` | 4 categories, 1 request | **violated**: `SubcategoryMatchesParent` |

`TypeOK` of a module is checked in one of its runs.

Why these bounds are enough: every hazard of the ledger needs two requests at
most (one reads, one interferes), two cashboxes (a transfer, or a move from one
to the other) and two rows (one that funds, one that spends); the amounts are
such that one withdrawal fits and another does not. For the recurrence, two
requests for the same reason; a total of 3 is used up within the horizon, one of
6 is not; the second month is shorter than `dayOfMonth`, which the clamp needs;
the clock moves once, so that a second run has something new to produce.

In `platform` and `records` the components share no state, neither in the code nor
in the model. A variable `part` chooses at the start which one moves, so the states
are the sum and not the product of the parts, and every property speaks of one of
them. Session and backup need two of each thing (a refresh and another, a dump and
another, a mutation before and one after); catch-up two runs for an overlap and two
connections for a release that misses; quotes two listings for a budget of 3 that
one retry exceeds.

In `records` four categories give two roots with a subcategory each, which a move
needs. With one request at a time `raced` stays FALSE, so the run is about sequences
of requests; requests that overlap are covered by the theorems, for any number.
The budget there allocates the first category or none. `MCRecords` leaves out what
leads to no new state (ids other than the next one, patches that change nothing) and
stops the trades where an overlap with a transaction that takes no lock, or an
excuse, has silenced both properties for good. Confirmations of the CSV import and
requests on trades are symmetric, and the only ones under `SYMMETRY`; that run has
no liveness. Three trades are a purchase, a disposal and one in
between; a CSV file of two equal lines against one stored row is the smallest on
which counting matters.

### Fairness

Only steps the system takes by itself are fair, each under weak fairness:

- `SessionFairness`: a request that was sent is answered or fails, and the answer is
  handled. Users who click, log in or log out are not fair.
- `LockFairness`: a catch-up that has begun takes its next step, since its statements
  return or throw. Connections closing is not fair.
- `BackupFairness`: `pg_dump --version` returns, and a child whose output is taken or
  that was killed ends. A client leaving is not fair. `LockComesFree` excuses one case,
  `Stuck`: the client left before anyone listened and the dump does not fit into the
  buffers, so the child waits for a reader for ever and the lock stays taken. No
  document promises otherwise, so it is a property of the code and not a finding.

The other modules are about safety and state no fairness: their requests may stop
anywhere.

### What the violations say

1. **Overdraft** (`transactions.service.ts:183`). `update()` guards the cashboxes
   of the row as it was before the transaction. If another edit moves the row
   meanwhile, the guard looks at the old cashbox.
2. **A null cashbox** (`transactions.service.ts:188`). A PATCH with `null` is
   validated with the stored value and written as null.
3. **A lost month** (`transactions.service.ts:178`). An edit that does not
   mention the reference month writes back the one it read.
4. **Cancelled occurrences come back** (`recurrence-generator.service.ts:41`). The
   generator uses a rule read before its transaction, so it may produce what has
   been cancelled since, on an inactive rule.
5. **One occurrence too many** (`recurrence-generator.service.ts:40`). The total is
   compared with the rows that exist, so a deleted row is replaced by one after
   the last.
6. **An inherited kind is dropped** (`categories.service.ts:192`). `targetParentId()`
   calls `inheritedKind()` and ignores what it returns: a subcategory moved under a
   root of the other kind keeps its own.

## Proofs

`CashboxLedgerProofs`, for any sets of cashboxes, rows, requests and amounts,
from `LedgerAssumption`:

- `TypeCorrect`: `Spec => []TypeOK`.
- `ReferencesHold`: `Spec => []RefsLive`. The commit of a create or an edit fails on
  a cashbox that is gone, and `SetNull` clears the rows of one that goes.
- `LabelsHold`: `Spec => []LabelNamesItsCashbox`. Needs that a request which is ready
  to commit carries references of the shape its type requires.
- `NeverOverdrawn`: `SafePatching => (Spec => []NonNegative)` and
  `GuardStaysSufficient`: `SafePatching => (Spec => []GuardCoversRow)`, where
  `SafePatching` says that no edit changes a cashbox, or there is only one request.
  `NonNegative` alone is not inductive: a commit is safe only because its guard
  covers the row it replaces, so the invariant adds what a request in flight
  knows about its row (its type never changes, its cashboxes are those of the
  row or have become null) and from it that the guard covers the row. The sums
  are handled by lemmas: a write changes the balance of no cashbox outside the
  row before and the row after. `ledger_overdraft` shows that the
  condition is needed.
- `LedgerImplementsPots`: `SafePatching => (Spec => ImplementsPots)`. The initial state
  has no pots; `CreateCashbox` opens one, `RemoveCashbox` closes an empty one, and every
  other step is a posting or a stutter, for the invariant of `NeverOverdrawn` holds
  after it.
- `NullsAreDeletions`: `None \notin PatchableRefs => (Spec => []NullMeansDeleted)`. Only
  the deletion of a cashbox leaves a null then, and a deleted id does not come back.
- `SidesDiffer`: `SafePatching => (Spec => []DistinctCashboxes)`. The invariant adds that
  what a request is about to write differs on its two sides, and that the row still has
  the sides it read, or null.

`RecurrenceProofs`, for any calendar, schedules, plans, edits and number of
requests, from `RecurrenceAssumption`:

- `TypeCorrect`: `Spec => []TypeOK`. Needs that a run has fixed its horizon and an
  edit has its body (`PendingOK`).
- `TotalHolds`: `TotalKept => (Spec => []RowsWithinTotal)`, where `TotalKept` says that
  no edit changes `totalOccurrences` itself (lowered below the rows there are, it
  is exceeded at once). The invariant adds that the copy a request works from
  carries the rule's total, and that nothing has happened before the rule exists.
  With them, numbering the occurrences of a run maps them one to one into
  what the total leaves (`OccurrencesWithinTotal`), and the run inserts at most
  those (`InsertBound`): the count inside the transaction makes up for the stale copy.
- `NothingIsSkipped`: `GridKept => (Spec => []NothingSkipped)`, where `GridKept` says that
  no edit changes the start or the step of the rule and no row is moved to another month
  (a moved row keeps the generator from filling the month it is moved to). The
  invariant adds that a month with a row was produced, and that what was read holds of
  every copy in flight: up to its own watermark, which is a month in which the rule is
  due, everything due was produced (`ProducedUpTo`). A run that extends an old copy then
  leaves no hole: with a month it produces every month due before it
  (`OccurrencesContiguous`), from one step after the watermark on (`GridContinues`).
- `NothingComesBack`: `OneAtATime => (Spec => []ProducedOnce)` and `DeletedRulesHadNoRows`:
  `OneAtATime => (Spec => DeletedUnreferenced)`, where `OneAtATime` says that there is one
  request. With one, the copy of a run is the rule as it is, nothing after its watermark
  was produced, and what a removal has counted still holds (`OnceInv`).
  `recurrence_revived` shows that the condition is needed for the first.

- `RunsVisitTheirOccurrences`: `Spec => []OccurrencesAreTheLoop`. For a rule with types
  (`LoopVisitsOccurrences`), the months a turn of the loop has left to visit are the
  occurrences from the month of that turn on. That function satisfies the loop's equation;
  it is the only one that does, for where another differs it differs at the next turn
  too, and each turn before the loop stops brings the horizon nearer.

The other proof modules have the same shape: an inductive invariant that adds to the
property what the steps in between know, one step per action.

`PlatformProofs`, for any numbers of calls, refreshes, runs, connections, rules, backups,
writers, listings and requests:

- Session, from `SessionAssumption`. `CallInv`: a call has cost as many
  requests as its mark allows, one before it is `retried` and two after:
  `NoCallTwiceReplayed`. `RefreshInv`: a refresh in flight is the pending one
  (`OnlyPending`), and after a clean logout any refresh in flight was sent without the
  cookie (`AfterLogout`): `RefreshesAreShared`, `SignedInKeepsToken`, `LogoutIsFinal`.
- Catch-up lock, from `LockAssumption` (finitely many runs). `RulesKept`: what
  is left, generated and failed make up what was loaded, without overlap:
  `EveryRuleIsTried`. `OneHolder`
  and `Alone`: until a session has re-entered or dropped the lock, a run under way is
  alone and one session holds the lock for it: `OverlapsAreExplained`. `HeldByRuns`:
  until a release has missed, a session holds the lock no more often than there are
  runs under way: `LocksAreGivenBack`.
- Backup lock. `HoldersAlone`: a dump past `Acquire` is alone and the lock is
  taken: `DumpsAlone`, `WritersBeforeDumps`.
- Quotes, from `QuoteAssumption` (finitely many listings). `Kept`: without overlap, what a
  synchronization has still to call or to record has no success today, and a success
  it is about to record has left its quote (`AloneAndFresh`): `QuotesSurvive`.
  `WithinBudget`: the attempts on record are within the budget, a synchronization under
  way has room for its whole queue besides, and the calls made are those on record, those
  lost to an error and at most one not yet recorded: `BudgetIsKept`. The
  attempts are a sum over the listings; `Sums` says how a write changes it.
- `PlatformRunsAll`: a behaviour of `MCPlatform` is one of each of the four, so the
  theorems hold of the composition; `PlatformTypesHold`: `Spec => []PlatformTypeOK`.

`CategoriesProofs`, from `CategoryAssumption`. `TreeInv`: types, foreign keys, and
`ChecksStand`: what the check of a request found still holds until another request
writes. With it, a tree that nobody has raced on is sound, for any number of requests:
`TreeHasTwoLevels`, `KindsAreKept`, `ActiveRootsAreUsable`, `BudgetsAllocateRoots`.

`CsvImportProofs`, from `ImportAssumption`. `RowsAccounted`: the rows imported are at
most those stored and those removed, and `SnapshotsAccounted` the same of a snapshot
that is not stale, at any moment of a confirmation: `LinesImportedOnce`.

`InvestmentsProofs`, from `InvestmentAssumption` (any finite set of trades, any
instruments, drafts, quantities and requests). What a commit leaves depends on what its
transaction found earlier, so `WritersKnow` says what that is still worth:

- `Apart`: two transactions under way write different trades and have met.
- `Undisturbed`: one that has met none has listed the rows it is going to commit, and
  once it has asserted, that history is covered from `base` on. The start that
  `assertChronologicalBalances()` works out, the balances now less the trades, is then
  `base` (`StartIsBase`). A new transaction, another's commit or `MoveBase` is met.
- `Funded`: a creation that met only creations, once it has inserted its row, holds the
  lock of every instrument it lowers, and the balance with its row is not negative.
  A commit of another creation lowers only what that one holds the lock of, hence
  nothing this one depends on (`CreationMoves`).
- `RowsKeepUp`: as long as the excuses allow, `base` is not negative (`BaseHeld`), the
  history is covered (`HistoryCovered`) and so is every balance (`HoldingsCovered`). A
  transaction without company leaves a covered history, and a covered
  history on a `base` of at least zero ends in balances that are not negative
  (`CoveredInTheEndToo`, by the last trade that lowers the instrument).

From it `HistoryIsCovered`, `HoldingsAreCovered` and `TradesTypesHold`. The condition on
`base` came out of this proof: with `base` at least zero in the bounds of the run
the case `spent` above never happened.

`RecordsProofs`:

- `RecordsRunAll`: a behaviour of `MCRecords` is one of the tree, of the import and of
  the trades; `RecordsTypesHold`: `Spec => []RecordsTypeOK`.
- `InstallmentsOfAnyPlanAddUp`: `Spec => []SplitAddsUp`, by division with remainder
  (`InstallmentsAddUp`).
- `PercentagesOfAnyReportAddUp`: `Spec => []SharesAddUp`. What flooring takes off, times
  the total, is the sum of the fractions (`SumLinear`), each at most the total; so the
  remainder is a number from zero to the number of shares, and the ranking by fraction,
  a strict order, has exactly that many shares ahead (`RanksAreCounted`). No share
  without a fraction is among them and none put just below a whole one is left out, or
  the fractions would add up to something else.

`Sums`: the sum of a function over a finite set does not depend on the order in which the
community modules' fold takes the elements (`SumTakesAny`); what changing one value, adding
an element or a constant does to it.

Induction over data: the library's induction theorems cannot be instantiated here, but
what `Sums`, `RanksAreCounted` and `LoopVisitsOccurrences` say of a recursive function is
proved from a smallest counterexample: a set, or a number, below which the claim holds.

Assumptions. The constants are arbitrary up to those named above: numbers are natural,
and the sets over which something is counted or added up (runs, listings, trades) are
finite, as are the rows of a database. Conditions in front of a theorem
(`SafePatching`, `TotalKept`, `GridKept`, `OneAtATime`, `None \notin PatchableRefs`) name
the case in which the code keeps the property; `ledger_overdraft`,
`ledger_null_detach` and `recurrence_revived` show what happens without the first, the
last and `OneAtATime`.

TLC only: liveness (`CallsEnd`, `RunsEnd`, `LockComesFree`), which needs fairness and
`ENABLED`. Every invariant and action property of a passing run is a theorem.

## Plan

Done: the ledger with its abstract specification, the recurrence generator and its
lock, categories and budgets, the CSV import, investment trades and quotes, the
backup, the client session, and the divisions of amounts. Left, in this order:

1. Settlement dates in the ledger: what the guards count against what the screens show.
2. Accounts: deactivation of an empty account against trades and transactions; the
   locks of position adjustments.

## Not modelled

- Accounts, users, institutions, instruments, listings, import models: CRUD of one row.
  Deactivating an account that is empty is the one operation with a rule across rows;
  it is among the hazards.
- Position adjustments, but for what they do to a balance; the valuation of positions;
  the grouping and averages of reports, which only read.
- Parsing of CSV and investment files, suggestions of categories, duplicates of an
  investment import.
- Account and category references of transactions: one kind of validation failure.
- Tokens, hashing, configuration, health, OpenAPI and the generated client; screens,
  formatting, translation, pagination and filters.
- The vendored agent skills under `.agents`, by far the largest part of the
  repository's lines, git hooks and CI: tools of its authors, not the application.
