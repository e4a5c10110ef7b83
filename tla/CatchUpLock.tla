---------------------------- MODULE CatchUpLock -----------------------------
(***************************************************************************)
(* The recurrence catch-up of one user (recurrence-catch-up.service.ts):   *)
(* runs started by tabs that log in, kept apart by a PostgreSQL advisory   *)
(* lock, which generate rule after rule and go on when one fails.          *)
(*                                                                         *)
(* The lock belongs to a database session, and pg_try_advisory_lock() lets *)
(* the session that holds it take it again.  Each statement goes to        *)
(* whichever connection the pool hands out, so the run that takes the lock *)
(* and the connection that holds it are different things.  A connection    *)
(* that closes gives its locks up.                                         *)
(***************************************************************************)
EXTENDS FiniteSets, Naturals

CONSTANTS
  Runs,         \* catch-up requests
  Connections,  \* the pool
  Rules         \* the user's recurrence rules

ASSUME LockAssumption == IsFiniteSet(Runs)

VARIABLES
  run,          \* each request: the rules it loaded and what became of them
  held,         \* how often each connection's session holds the lock
  reentered,    \* history: a session took the lock it already held
  dropped,      \* history: a connection closed while it held the lock
  unreleased    \* history: a run ended and its lock was not given back

lockVars == <<run, held, reentered, dropped, unreleased>>

NoRun == [phase |-> "idle", loaded |-> {}, todo |-> {}, generated |-> {},
          failed |-> {}, broken |-> FALSE]

LockInit ==
  /\ run = [r \in Runs |-> NoRun]
  /\ held = [c \in Connections |-> 0]
  /\ reentered = FALSE
  /\ dropped = FALSE
  /\ unreleased = FALSE

-----------------------------------------------------------------------------

\* What pg_try_advisory_lock() answers to connection c.
Grants(c) == \A d \in Connections \ {c} : held[d] = 0

\* Mutant of TryLock: the answer is not looked at.
TryLockUnheeded(r, c) ==
  /\ run[r].phase = "idle"
  /\ held' = [held EXCEPT ![c] = IF Grants(c) THEN @ + 1 ELSE @]
  /\ reentered' = (reentered \/ held[c] > 0)
  /\ run' = [run EXCEPT ![r].phase = "loading"]
  /\ UNCHANGED <<dropped, unreleased>>

TryLock(r, c) ==
  /\ run[r].phase = "idle"
  /\ Grants(c)
  /\ held' = [held EXCEPT ![c] = @ + 1]
  /\ reentered' = (reentered \/ held[c] > 0)
  /\ run' = [run EXCEPT ![r].phase = "loading"]
  /\ UNCHANGED <<dropped, unreleased>>

SkipLocked(r, c) ==
  /\ run[r].phase = "idle"
  /\ ~Grants(c)
  /\ run' = [run EXCEPT ![r].phase = "skipped"]
  /\ UNCHANGED <<held, reentered, dropped, unreleased>>

LoadRules(r) ==
  /\ run[r].phase = "loading"
  /\ \E rules \in SUBSET Rules :
       run' = [run EXCEPT ![r].phase = "generating",
                          ![r].loaded = rules,
                          ![r].todo = rules]
  /\ UNCHANGED <<held, reentered, dropped, unreleased>>

\* Mutant of AfterLoadError: the error leaves before the finally block.
AfterLoadErrorDone == "done"

AfterLoadError == "unlocking"

\* Reading the rules throws: straight to the finally block.
LoadFails(r) ==
  /\ run[r].phase = "loading"
  /\ run' = [run EXCEPT ![r].phase = AfterLoadError, ![r].broken = TRUE]
  /\ UNCHANGED <<held, reentered, dropped, unreleased>>

Generate(r, rule) ==
  /\ run[r].phase = "generating"
  /\ rule \in run[r].todo
  /\ run' = [run EXCEPT ![r].todo = @ \ {rule},
                        ![r].generated = @ \union {rule}]
  /\ UNCHANGED <<held, reentered, dropped, unreleased>>

\* Mutant of LeftAfterError: the error ends the loop.
LeftNone(todo, rule) == {}

LeftAfterError(todo, rule) == todo \ {rule}

\* The error is reported with the others and the loop goes on.
GenerateFails(r, rule) ==
  /\ run[r].phase = "generating"
  /\ rule \in run[r].todo
  /\ run' = [run EXCEPT ![r].todo = LeftAfterError(@, rule),
                        ![r].failed = @ \union {rule}]
  /\ UNCHANGED <<held, reentered, dropped, unreleased>>

\* Mutant of LoopOver: it waits for every rule to be generated.
AllGenerated(r) == run[r].generated = run[r].loaded

LoopOver(r) == run[r].todo = {}

AllTried(r) ==
  /\ run[r].phase = "generating"
  /\ LoopOver(r)
  /\ run' = [run EXCEPT ![r].phase = "unlocking"]
  /\ UNCHANGED <<held, reentered, dropped, unreleased>>

\* pg_advisory_unlock() on a session that does not hold the lock does nothing.
Unlock(r, c) ==
  /\ run[r].phase = "unlocking"
  /\ run' = [run EXCEPT ![r].phase = "done"]
  /\ held' = [held EXCEPT ![c] = IF @ > 0 THEN @ - 1 ELSE 0]
  /\ unreleased' = (unreleased \/ held[c] = 0)
  /\ UNCHANGED <<reentered, dropped>>

UnlockFails(r) ==
  /\ run[r].phase = "unlocking"
  /\ run' = [run EXCEPT ![r].phase = "done", ![r].broken = TRUE]
  /\ unreleased' = TRUE
  /\ UNCHANGED <<held, reentered, dropped>>

\* The pool retires a connection that has been idle, or loses it.
CloseConnection(c) ==
  /\ held[c] > 0
  /\ held' = [held EXCEPT ![c] = 0]
  /\ dropped' = TRUE
  /\ UNCHANGED <<run, reentered, unreleased>>

-----------------------------------------------------------------------------

Active(r) == run[r].phase \in {"loading", "generating", "unlocking"}

RunStep(r) ==
  \/ LoadRules(r) \/ LoadFails(r)
  \/ \E rule \in Rules : Generate(r, rule) \/ GenerateFails(r, rule)
  \/ AllTried(r)
  \/ \E c \in Connections : Unlock(r, c)
  \/ UnlockFails(r)

LockNext ==
  \/ \E r \in Runs, c \in Connections : TryLock(r, c) \/ SkipLocked(r, c)
  \/ \E r \in Runs : RunStep(r)
  \/ \E c \in Connections : CloseConnection(c)

\* A run that has begun goes on: its statements return or throw.
LockFairness == \A r \in Runs : WF_lockVars(RunStep(r))

LockSpec == LockInit /\ [][LockNext]_lockVars /\ LockFairness

-----------------------------------------------------------------------------

\* Every variable has its type.
LockTypeOK ==
  /\ run \in [Runs ->
       [phase : {"idle", "loading", "generating", "unlocking", "done", "skipped"},
        loaded : SUBSET Rules, todo : SUBSET Rules, generated : SUBSET Rules,
        failed : SUBSET Rules, broken : BOOLEAN]]
  /\ held \in [Connections -> Nat]
  /\ reentered \in BOOLEAN
  /\ dropped \in BOOLEAN
  /\ unreleased \in BOOLEAN

\* A run that answers has tried every rule it loaded: each one is generated or
\* reported as failed, never both, whatever failed before it.
EveryRuleTried ==
  \A r \in Runs : run[r].phase = "done" /\ ~run[r].broken =>
    /\ run[r].generated \union run[r].failed = run[r].loaded
    /\ run[r].generated \intersect run[r].failed = {}

\* Two runs overlap only where a session lock over a pool lets them: the second
\* one is handed the connection of the first, or that connection has closed.
OverlapHasCause ==
  \A r, s \in Runs : Active(r) /\ Active(s) /\ r # s => reentered \/ dropped

\* The lock is held with no run under way only if a run failed to give it back:
\* every way a run can end goes through the release.
LockOutlivesRun ==
  (\E c \in Connections : held[c] > 0) =>
    (\E r \in Runs : Active(r)) \/ unreleased

\* A run that got the lock ends, also when the rules cannot be read, a rule
\* fails or the release does.
RunsEnd == \A r \in Runs : Active(r) ~> run[r].phase = "done"

=============================================================================
