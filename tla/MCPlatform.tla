----------------------------- MODULE MCPlatform -----------------------------
(***************************************************************************)
(* The four components around the handlers, in one run: the session of a   *)
(* tab, the catch-up and its lock, the backup and its lock, the quote      *)
(* synchronization.  They share no state in the code, so that a behaviour  *)
(* of all of them is a behaviour of each one with the others resting, and  *)
(* the properties speak of one at a time.  part says which one moves.      *)
(***************************************************************************)
EXTENDS SessionRefresh, CatchUpLock, BackupLock, QuoteSync

VARIABLE part

vars == <<part, sessionVars, lockVars, backupVars, quoteVars>>

Init ==
  /\ part \in {"session", "catchUp", "backup", "quotes"}
  /\ SessionInit /\ (part # "session" => cookie)
  /\ LockInit
  /\ BackupInit /\ (part # "backup" => fits)
  /\ QuoteInit

InSession ==
  part = "session" /\ UNCHANGED <<part, lockVars, backupVars, quoteVars>>
InCatchUp ==
  part = "catchUp" /\ UNCHANGED <<part, sessionVars, backupVars, quoteVars>>
InBackup ==
  part = "backup" /\ UNCHANGED <<part, sessionVars, lockVars, quoteVars>>
InQuotes ==
  part = "quotes" /\ UNCHANGED <<part, sessionVars, lockVars, backupVars>>

Next ==
  \/ InSession /\ RestoreGranted
  \/ InSession /\ RestoreDenied
  \/ InSession /\ Login
  \/ InSession /\ Logout
  \/ InSession /\ LogoutAnswered
  \/ InSession /\ LogoutFailed
  \/ InSession /\ CookieExpires
  \/ \E c \in Calls :
       \/ InSession /\ Send(c)
       \/ InSession /\ Served(c)
       \/ InSession /\ Fails(c)
       \/ InSession /\ Unauthorized(c)
       \/ InSession /\ Rejected(c)
  \/ \E r \in Refreshes :
       \/ InSession /\ GrantRefresh(r)
       \/ InSession /\ DenyRefresh(r)
       \/ InSession /\ RefreshGranted(r)
       \/ InSession /\ RefreshDenied(r)
  \/ \E r \in Runs :
       \/ InCatchUp /\ LoadRules(r)
       \/ InCatchUp /\ LoadFails(r)
       \/ InCatchUp /\ AllTried(r)
       \/ InCatchUp /\ UnlockFails(r)
  \/ \E r \in Runs, c \in Connections :
       \/ InCatchUp /\ TryLock(r, c)
       \/ InCatchUp /\ SkipLocked(r, c)
       \/ InCatchUp /\ Unlock(r, c)
  \/ \E r \in Runs, rule \in Rules :
       \/ InCatchUp /\ Generate(r, rule)
       \/ InCatchUp /\ GenerateFails(r, rule)
  \/ \E c \in Connections : InCatchUp /\ CloseConnection(c)
  \/ \E w \in Writes :
       \/ InBackup /\ Arrive(w)
       \/ InBackup /\ Finish(w)
  \/ \E d \in Dumps :
       \/ InBackup /\ Acquire(d)
       \/ InBackup /\ AlreadyInProgress(d)
       \/ InBackup /\ ClientLeaves(d)
       \/ InBackup /\ VersionFails(d)
       \/ InBackup /\ StartDump(d)
       \/ InBackup /\ DumpEnds(d)
  \/ \E q \in Requests :
       \/ InQuotes /\ \E retry \in BOOLEAN : Start(q, retry)
       \/ InQuotes /\ \E l \in Listings : CallProvider(q, l)
       \/ InQuotes /\ Record(q)
       \/ InQuotes /\ Break(q)
       \/ InQuotes /\ Handle(q)
  \/ \E l \in Listings : InQuotes /\ EnterQuote(l)

Spec ==
  /\ Init /\ [][Next]_vars
  /\ SessionFairness /\ LockFairness /\ BackupFairness

\* The type invariants of the four.
PlatformTypeOK == SessionTypeOK /\ LockTypeOK /\ BackupTypeOK /\ QuoteTypeOK

=============================================================================
