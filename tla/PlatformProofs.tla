--------------------------- MODULE PlatformProofs ---------------------------
(***************************************************************************)
(* Theorems about the four components around the handlers, SessionRefresh, *)
(* CatchUpLock, BackupLock and QuoteSync, for every value of their         *)
(* constants, and about the run of all four.                               *)
(***************************************************************************)
EXTENDS MCPlatform, Sums

-----------------------------------------------------------------------------
(* The session of a browser tab.  Each action is first reduced to what it may
   change; the invariants then follow from the kind of step alone. *)

Request == [phase : {"idle", "sent", "granted", "denied"}, cookie : BOOLEAN]

Call == [phase : {"idle", "sent", "rejected", "waiting", "served", "failed"},
         token : BOOLEAN, retried : BOOLEAN,
         waitsFor : Refreshes \union {NoRefresh}, tries : Nat]

(* The requests a call costs                                               *)

\* A call has cost no request before it is sent, one until it is replayed, and
\* is replayed only once.
TriesBounded(w) ==
  /\ w.phase = "idle" => w.tries = 0 /\ ~w.retried
  /\ ~w.retried => w.tries <= 1
  /\ w.phase = "waiting" => w.retried /\ w.tries <= 1
  /\ w.tries <= 2

\* What may become of the record of a call.
CallMoves(old, new) ==
  \/ new = old
  \/ /\ old.phase \in {"idle", "waiting"}
     /\ \E token \in BOOLEAN :
          new = [old EXCEPT !.phase = "sent", !.token = token, !.tries = @ + 1]
  \/ /\ old.phase \in {"sent", "rejected", "waiting"}
     /\ \E phase \in {"served", "failed", "rejected"} : new = [old EXCEPT !.phase = phase]
  \/ /\ ~old.retried
     /\ old.phase = "rejected"
     /\ \E r \in Refreshes :
          new = [old EXCEPT !.phase = "waiting", !.retried = TRUE, !.waitsFor = r]

CallInv ==
  /\ accessToken \in BOOLEAN
  /\ call \in [Calls -> Call]
  /\ \A c \in Calls : TriesBounded(call[c])

LEMMA CallMovesSound ==
  ASSUME NEW old \in Call, NEW new, CallMoves(old, new)
  PROVE  new \in Call
  <1> USE DEF Call
  <1>1. CASE new = old
    BY <1>1
  <1>2. ASSUME NEW token \in BOOLEAN,
               new = [old EXCEPT !.phase = "sent", !.token = token, !.tries = @ + 1]
        PROVE  new \in Call
    <2>1. new = [phase |-> "sent", token |-> token, retried |-> old.retried,
                 waitsFor |-> old.waitsFor, tries |-> old.tries + 1]
      BY <1>2
    <2>2. old.tries + 1 \in Nat
      OBVIOUS
    <2> QED
      BY <2>1, <2>2
  <1>3. ASSUME NEW phase \in {"served", "failed", "rejected"},
               new = [old EXCEPT !.phase = phase]
        PROVE  new \in Call
    BY <1>3
  <1>4. ASSUME NEW r \in Refreshes,
               new = [old EXCEPT !.phase = "waiting", !.retried = TRUE, !.waitsFor = r]
        PROVE  new \in Call
    BY <1>4
  <1> QED
    BY <1>1, <1>2, <1>3, <1>4 DEF CallMoves

LEMMA CallMovesBounded ==
  ASSUME NEW old \in Call, NEW new, CallMoves(old, new), TriesBounded(old)
  PROVE  TriesBounded(new)
  <1> USE DEF Call, TriesBounded
  <1>1. CASE new = old
    BY <1>1
  <1>2. ASSUME NEW token \in BOOLEAN, old.phase \in {"idle", "waiting"},
               new = [old EXCEPT !.phase = "sent", !.token = token, !.tries = @ + 1]
        PROVE  TriesBounded(new)
    <2>1. new.phase = "sent" /\ new.retried = old.retried /\ new.tries = old.tries + 1
      BY <1>2
    <2>2. old.tries \in Nat
      OBVIOUS
    <2> QED
      BY <1>2, <2>1, <2>2
  <1>3. ASSUME NEW phase \in {"served", "failed", "rejected"},
               new = [old EXCEPT !.phase = phase]
        PROVE  TriesBounded(new)
    BY <1>3
  <1>4. ASSUME NEW r \in Refreshes, ~old.retried, old.phase = "rejected",
               new = [old EXCEPT !.phase = "waiting", !.retried = TRUE, !.waitsFor = r]
        PROVE  TriesBounded(new)
    BY <1>4
  <1> QED
    BY <1>1, <1>2, <1>3, <1>4 DEF CallMoves

\* Every step moves the calls in these ways only.
LEMMA CallsMove ==
  ASSUME CallInv, [SessionNext]_sessionVars
  PROVE  /\ accessToken' \in BOOLEAN
         /\ call' \in [Calls -> Call]
         /\ \A c \in Calls : CallMoves(call[c], call'[c])
  <1> DEFINE Moved ==
        /\ DOMAIN call' = Calls /\ call' = [c \in DOMAIN call' |-> call'[c]]
        /\ \A c \in Calls : CallMoves(call[c], call'[c])
  <1>1. accessToken' \in BOOLEAN
    BY DEF CallInv, SessionNext, RestoreGranted, RestoreDenied, Login, Send, CallStep,
       Served, Fails, Unauthorized, Rejected, RefreshStep, GrantRefresh, DenyRefresh,
       RefreshGranted, RefreshDenied, Logout, LogoutAnswered, LogoutFailed,
       CookieExpires, EndSession, sessionVars
  <1>2. ASSUME NEW c \in Calls, NEW new, CallMoves(call[c], new),
               call' = [call EXCEPT ![c] = new]
        PROVE  Moved
    BY <1>2 DEF CallInv, CallMoves
  <1>3. ASSUME NEW c \in Calls, Send(c)
        PROVE  Moved
    <2>1. call' = [call EXCEPT ![c] = Requested(call[c])] /\ call[c].phase = "idle"
      BY <1>3 DEF Send, CallInv
    <2>2. CallMoves(call[c], Requested(call[c]))
      BY <1>1, <2>1 DEF CallMoves, Requested
    <2> QED
      BY <1>2, <2>1, <2>2
  <1>4. ASSUME NEW c \in Calls, Served(c) \/ Fails(c) \/ Unauthorized(c)
        PROVE  Moved
    <2>1. PICK phase \in {"served", "failed", "rejected"} :
            call' = [call EXCEPT ![c] = [call[c] EXCEPT !.phase = phase]]
      BY <1>4 DEF Served, Fails, Unauthorized, CallInv
    <2>2. CallMoves(call[c], [call[c] EXCEPT !.phase = phase])
      BY <1>4 DEF CallMoves, Served, Fails, Unauthorized
    <2> QED
      BY <1>2, <2>1, <2>2
  <1>5. ASSUME NEW c \in Calls, Rejected(c)
        PROVE  Moved
    <2>1. ASSUME NEW r \in Refreshes, MayRetry(c),
                 call' = [call EXCEPT ![c].phase = "waiting", ![c].retried = TRUE,
                                      ![c].waitsFor = r]
          PROVE  Moved
      <3>1. call' = [call EXCEPT ![c] =
              [call[c] EXCEPT !.phase = "waiting", !.retried = TRUE, !.waitsFor = r]]
        BY <2>1 DEF CallInv
      <3>2. CallMoves(call[c],
              [call[c] EXCEPT !.phase = "waiting", !.retried = TRUE, !.waitsFor = r])
        BY <1>5, <2>1 DEF CallMoves, Rejected, MayRetry
      <3> QED
        BY <1>2, <3>1, <3>2
    <2>2. CASE call' = [call EXCEPT ![c].phase = "failed"]
      <3>1. call' = [call EXCEPT ![c] = [call[c] EXCEPT !.phase = "failed"]]
        BY <2>2 DEF CallInv
      <3>2. CallMoves(call[c], [call[c] EXCEPT !.phase = "failed"])
        BY <1>5 DEF CallMoves, Rejected
      <3> QED
        BY <1>2, <3>1, <3>2
    <2> QED
      BY <1>5, <2>1, <2>2 DEF Rejected
  <1>6. ASSUME NEW r \in Refreshes, RefreshGranted(r) \/ RefreshDenied(r)
        PROVE  Moved
    <2>1. CASE RefreshGranted(r)
      <3>1. call' = [c \in Calls |-> IF Waiting(c, r) THEN Requested(call[c]) ELSE call[c]]
        BY <2>1 DEF RefreshGranted
      <3>2. \A c \in Calls : Waiting(c, r) => CallMoves(call[c], Requested(call[c]))
        BY <1>1 DEF Waiting, CallMoves, Requested
      <3>3. \A c \in Calls : CallMoves(call[c], call[c])
        BY DEF CallMoves
      <3> QED
        BY <3>1, <3>2, <3>3
    <2>2. CASE RefreshDenied(r)
      <3>1. call' = [c \in Calls |->
              IF Waiting(c, r) THEN [call[c] EXCEPT !.phase = "failed"] ELSE call[c]]
        BY <2>2 DEF RefreshDenied, Refused
      <3>2. \A c \in Calls :
              Waiting(c, r) => CallMoves(call[c], [call[c] EXCEPT !.phase = "failed"])
        BY DEF Waiting, CallMoves
      <3>3. \A c \in Calls : CallMoves(call[c], call[c])
        BY DEF CallMoves
      <3> QED
        BY <3>1, <3>2, <3>3
    <2> QED
      BY <1>6, <2>1, <2>2
  <1>7. Moved
    <2>1. CASE UNCHANGED call
      BY <2>1 DEF CallInv, CallMoves
    <2>2. CASE ~UNCHANGED call
      BY <2>2, <1>3, <1>4, <1>5, <1>6
         DEF SessionNext, CallStep, RefreshStep, RestoreGranted, RestoreDenied, Login,
             GrantRefresh, DenyRefresh, Logout, LogoutAnswered, LogoutFailed,
             CookieExpires, sessionVars
    <2> QED
      BY <2>1, <2>2
  <1> QED
    BY <1>1, <1>7, CallMovesSound DEF CallInv

LEMMA CallInvInit == SessionInit => CallInv
  <1> SUFFICES ASSUME SessionInit PROVE CallInv
    OBVIOUS
  <1>1. NoCall \in Call /\ TriesBounded(NoCall)
    BY DEF NoCall, Call, TriesBounded
  <1> QED
    BY <1>1 DEF SessionInit, CallInv

LEMMA CallInvStep == CallInv /\ [SessionNext]_sessionVars => CallInv'
  BY CallsMove, CallMovesBounded DEF CallInv

\* However many calls are rejected and in whatever order answers arrive, each
\* call costs at most two requests.
THEOREM NoCallTwiceReplayed == SessionSpec => []ReplayedOnce
  <1>1. CallInv => ReplayedOnce
    BY DEF CallInv, TriesBounded, ReplayedOnce
  <1> QED
    BY CallInvInit, CallInvStep, <1>1, PTL DEF SessionSpec

(* The refresh on the wire                                                 *)

RefreshTypes ==
  /\ cookie \in BOOLEAN
  /\ pendingRefresh \in Refreshes \union {NoRefresh}
  /\ refresh \in [Refreshes -> Request]

\* Only the pending refresh can be on the wire.
OnlyPending == \A r \in Refreshes : InFlight(r) => pendingRefresh = r

\* A refresh sent after a clean logout carries no cookie and is not granted.
AfterLogout ==
  clean =>
    /\ ~accessToken /\ ~cookie /\ session = "out"
    /\ \A r \in Refreshes :
         refresh[r].phase # "granted" /\ (InFlight(r) => ~refresh[r].cookie)

RefreshInv == RefreshTypes /\ OnlyPending /\ SignedInHasToken /\ AfterLogout

LEMMA RefreshInvInit == SessionInit => RefreshInv
  <1> SUFFICES ASSUME SessionInit PROVE RefreshInv
    OBVIOUS
  <1>1. RefreshTypes
    BY DEF SessionInit, NoRequest, RefreshTypes, Request
  <1>2. OnlyPending
    BY DEF SessionInit, NoRequest, OnlyPending, InFlight
  <1>3. SignedInHasToken /\ AfterLogout
    BY DEF SessionInit, SignedInHasToken, AfterLogout
  <1> QED
    BY <1>1, <1>2, <1>3 DEF RefreshInv

LEMMA RefreshInvStep == RefreshInv /\ [SessionNext]_sessionVars => RefreshInv'
  <1> SUFFICES ASSUME RefreshTypes, OnlyPending, SignedInHasToken, AfterLogout,
                      [SessionNext]_sessionVars
               PROVE  RefreshInv'
    BY DEF RefreshInv
  <1> USE DEF RefreshInv, RefreshTypes, Request, OnlyPending, InFlight,
          SignedInHasToken, AfterLogout
  <1>1. CASE RestoreGranted \/ RestoreDenied
    BY <1>1 DEF RestoreGranted, RestoreDenied, EndSession
  <1>2. CASE Login
    BY <1>2 DEF Login
  <1>3. ASSUME NEW c \in Calls, Send(c) \/ Served(c) \/ Fails(c) \/ Unauthorized(c)
        PROVE  RefreshInv'
    BY <1>3 DEF Send, Served, Fails, Unauthorized
  <1>4. ASSUME NEW c \in Calls, Rejected(c)
        PROVE  RefreshInv'
    <2>1. UNCHANGED <<accessToken, cookie, session, logout, clean>>
      BY <1>4 DEF Rejected
    <2>2. CASE UNCHANGED <<pendingRefresh, refresh>>
      BY <2>1, <2>2
    <2>3. ASSUME NEW r \in Refreshes, RefreshOnce(r)
          PROVE  RefreshInv'
      BY <2>1, <2>3, SessionAssumption DEF RefreshOnce
    <2> QED
      BY <1>4, <2>2, <2>3 DEF Rejected
  <1>5. ASSUME NEW r \in Refreshes, GrantRefresh(r) \/ DenyRefresh(r)
        PROVE  RefreshInv'
    BY <1>5 DEF GrantRefresh, DenyRefresh
  <1>6. ASSUME NEW r \in Refreshes, RefreshGranted(r)
        PROVE  RefreshInv'
    BY <1>6 DEF RefreshGranted, SettleRefresh, NoRequest
  <1>7. ASSUME NEW r \in Refreshes, RefreshDenied(r)
        PROVE  RefreshInv'
    BY <1>7 DEF RefreshDenied, EndSession, SettleRefresh, NoRequest
  <1>8. CASE Logout \/ LogoutFailed \/ CookieExpires
    <2>1. CASE Logout
      BY <2>1 DEF Logout
    <2>2. CASE LogoutFailed
      BY <2>2 DEF LogoutFailed, EndSession
    <2>3. CASE CookieExpires
      BY <2>3 DEF CookieExpires
    <2> QED
      BY <1>8, <2>1, <2>2, <2>3
  <1>9. CASE LogoutAnswered
    <2>1. /\ UNCHANGED <<pendingRefresh, refresh>>
          /\ ~cookie' /\ ~accessToken' /\ session' = "out"
          /\ clean' => \A r \in Refreshes : refresh[r].phase = "idle"
      BY <1>9, Zenon DEF LogoutAnswered, ClearCookie, EndSession
    <2>2. RefreshTypes' /\ OnlyPending'
      BY <1>9, <2>1 DEF LogoutAnswered, ClearCookie, EndSession
    <2>3. SignedInHasToken' /\ AfterLogout'
      BY <2>1
    <2> QED
      BY <2>2, <2>3
  <1>10. CASE UNCHANGED sessionVars
    BY <1>10 DEF sessionVars
  <1> QED
    BY <1>1, <1>2, <1>3, <1>4, <1>5, <1>6, <1>7, <1>8, <1>9, <1>10
       DEF SessionNext, CallStep, RefreshStep

LEMMA RefreshInvariant == SessionSpec => []RefreshInv
  BY RefreshInvInit, RefreshInvStep, PTL DEF SessionSpec

\* The rest of the types.
LEMMA SessionTypesKept == SessionSpec => []SessionTypeOK
  <1> DEFINE Flags == session \in {"checking", "in", "out"} /\ logout \in {"idle", "sent"}
                      /\ clean \in BOOLEAN
  <1>1. SessionInit => Flags
    BY DEF SessionInit
  <1>2. Flags /\ [SessionNext]_sessionVars => Flags'
    <2> SUFFICES ASSUME Flags, [SessionNext]_sessionVars PROVE Flags'
      OBVIOUS
    <2>1. CASE LogoutAnswered
      <3>1. clean' \in BOOLEAN
        BY <2>1, Zenon DEF LogoutAnswered
      <3> QED
        BY <2>1, <3>1 DEF LogoutAnswered, EndSession
    <2>2. CASE ~LogoutAnswered
      BY <2>2 DEF SessionNext, RestoreGranted, RestoreDenied, Login, Send, CallStep,
         Served, Fails, Unauthorized, Rejected, RefreshStep, GrantRefresh, DenyRefresh,
         RefreshGranted, RefreshDenied, Logout, LogoutFailed, CookieExpires, EndSession,
         sessionVars
    <2> QED
      BY <2>1, <2>2
  <1>3. CallInv /\ RefreshInv /\ Flags => SessionTypeOK
    BY DEF CallInv, RefreshInv, RefreshTypes, SessionTypeOK, Call, Request
  <1> QED
    BY RefreshInvariant, CallInvInit, CallInvStep, <1>1, <1>2, <1>3, PTL DEF SessionSpec

\* Whatever calls are rejected at once or one after the other, one refresh at
\* most is on the wire.
THEOREM RefreshesAreShared == SessionSpec => []OneRefresh
  <1>1. RefreshInv => OneRefresh
    BY DEF RefreshInv, OnlyPending, OneRefresh
  <1> QED
    BY RefreshInvariant, <1>1, PTL

\* Whatever order answers arrive in, a user shown as signed in has a token.
THEOREM SignedInKeepsToken == SessionSpec => []SignedInHasToken
  <1>1. RefreshInv => SignedInHasToken
    BY DEF RefreshInv
  <1> QED
    BY RefreshInvariant, <1>1, PTL

\* After a logout that overlapped no refresh, no late 401 and no refresh it
\* asks for brings the session back.
THEOREM LogoutIsFinal == SessionSpec => []LogoutSticks
  <1>1. RefreshInv => LogoutSticks
    BY DEF RefreshInv, AfterLogout, LogoutSticks
  <1> QED
    BY RefreshInvariant, <1>1, PTL

-----------------------------------------------------------------------------
(* The lock of the catch-up. *)

(* Type correctness and what a run has done with its rules                 *)

\* The rules of a run that has loaded them: left, generated or failed.
RulesKept(r) ==
  /\ run[r].todo \union run[r].generated \union run[r].failed = run[r].loaded
  /\ run[r].todo \intersect (run[r].generated \union run[r].failed) = {}
  /\ run[r].generated \intersect run[r].failed = {}

RunOK ==
  \A r \in Runs :
    /\ ~run[r].broken => RulesKept(r)
    /\ run[r].phase \in {"idle", "loading", "skipped"} =>
         /\ run[r].todo = {} /\ run[r].generated = {} /\ run[r].failed = {}
    /\ run[r].phase \in {"idle", "loading", "generating"} => ~run[r].broken
    /\ run[r].phase \in {"unlocking", "done"} /\ ~run[r].broken => run[r].todo = {}

RunInv == LockTypeOK /\ RunOK

\* What the record of a run looks like.
RunRecord ==
  [phase : {"idle", "loading", "generating", "unlocking", "done", "skipped"},
   loaded : SUBSET Rules, todo : SUBSET Rules, generated : SUBSET Rules,
   failed : SUBSET Rules, broken : BOOLEAN]

LEMMA RecordLoaded ==
  ASSUME NEW w \in RunRecord, NEW rules \in SUBSET Rules
  PROVE  [w EXCEPT !.phase = "generating", !.loaded = rules, !.todo = rules] \in RunRecord
  BY DEF RunRecord

LEMMA RecordBroken ==
  ASSUME NEW w \in RunRecord
  PROVE  [w EXCEPT !.phase = "done", !.broken = TRUE] \in RunRecord
  BY DEF RunRecord

LEMMA RunInvInit == LockInit => RunInv
  <1> SUFFICES ASSUME LockInit PROVE RunInv
    OBVIOUS
  <1> USE DEF LockInit, NoRun
  <1>1. LockTypeOK
    BY DEF LockTypeOK
  <1>2. RunOK
    BY DEF RunOK, RulesKept
  <1> QED
    BY <1>1, <1>2 DEF RunInv

\* What a step of one run changes in its record.
LEMMA RunInvStep == RunInv /\ [LockNext]_lockVars => RunInv'
  <1> SUFFICES ASSUME LockTypeOK, RunOK, [LockNext]_lockVars
               PROVE  RunInv'
    BY DEF RunInv
  <1> USE DEF RunInv, LockTypeOK, RunOK, RulesKept
  <1>1. ASSUME NEW r \in Runs, NEW c \in Connections, TryLock(r, c)
        PROVE  RunInv'
    BY <1>1 DEF TryLock
  <1>2. ASSUME NEW r \in Runs, NEW c \in Connections, SkipLocked(r, c)
        PROVE  RunInv'
    BY <1>2 DEF SkipLocked
  <1>3. ASSUME NEW r \in Runs, LoadRules(r)
        PROVE  RunInv'
    <2>1. PICK rules \in SUBSET Rules :
            run' = [run EXCEPT ![r].phase = "generating",
                               ![r].loaded = rules, ![r].todo = rules]
      BY <1>3 DEF LoadRules
    <2>2. /\ run[r].phase = "loading"
          /\ UNCHANGED <<held, reentered, dropped, unreleased>>
      BY <1>3 DEF LoadRules
    <2>3. LockTypeOK'
      <3>1. run' \in [Runs -> RunRecord]
        <4>1. run \in [Runs -> RunRecord]
          BY DEF RunRecord
        <4>2. run' = [run EXCEPT ![r] =
                [run[r] EXCEPT !.phase = "generating", !.loaded = rules, !.todo = rules]]
          BY <2>1
        <4> QED
          BY <4>1, <4>2, RecordLoaded
      <3> QED
        BY <2>2, <3>1 DEF RunRecord
    <2>4. RunOK'
      BY <2>1, <2>2
    <2> QED
      BY <2>3, <2>4
  <1>4. ASSUME NEW r \in Runs, LoadFails(r)
        PROVE  RunInv'
    BY <1>4 DEF LoadFails, AfterLoadError
  <1>5. ASSUME NEW r \in Runs, NEW rule \in Rules, Generate(r, rule)
        PROVE  RunInv'
    BY <1>5 DEF Generate
  <1>6. ASSUME NEW r \in Runs, NEW rule \in Rules, GenerateFails(r, rule)
        PROVE  RunInv'
    BY <1>6 DEF GenerateFails, LeftAfterError
  <1>7. ASSUME NEW r \in Runs, AllTried(r)
        PROVE  RunInv'
    BY <1>7 DEF AllTried, LoopOver
  <1>8. ASSUME NEW r \in Runs, NEW c \in Connections, Unlock(r, c)
        PROVE  RunInv'
    BY <1>8 DEF Unlock
  <1>9. ASSUME NEW r \in Runs, UnlockFails(r)
        PROVE  RunInv'
    <2>1. LockTypeOK'
      <3>1. run' = [run EXCEPT ![r].phase = "done", ![r].broken = TRUE]
        BY <1>9 DEF UnlockFails
      <3>2. run' \in [Runs -> RunRecord]
        <4>1. run \in [Runs -> RunRecord]
          BY DEF RunRecord
        <4>2. run' = [run EXCEPT ![r] = [run[r] EXCEPT !.phase = "done", !.broken = TRUE]]
          BY <3>1
        <4> QED
          BY <4>1, <4>2, RecordBroken
      <3>3. unreleased' \in BOOLEAN
        BY <1>9, Zenon DEF UnlockFails
      <3> QED
        BY <1>9, <3>2, <3>3, Zenon DEF UnlockFails, RunRecord
    <2>2. RunOK'
      BY <1>9 DEF UnlockFails
    <2> QED
      BY <2>1, <2>2
  <1>10. ASSUME NEW c \in Connections, CloseConnection(c)
         PROVE  RunInv'
    BY <1>10 DEF CloseConnection
  <1>11. CASE UNCHANGED lockVars
    BY <1>11 DEF lockVars
  <1> QED
    BY <1>1, <1>2, <1>3, <1>4, <1>5, <1>6, <1>7, <1>8, <1>9, <1>10, <1>11
       DEF LockNext, RunStep

\* However many rules fail and in whatever order the runs go, a catch-up that
\* answers has generated or reported each of its rules.
THEOREM EveryRuleIsTried == LockSpec => []EveryRuleTried
  <1>1. RunInv => EveryRuleTried
    BY DEF RunInv, RunOK, RulesKept, EveryRuleTried
  <1> QED
    BY RunInvInit, RunInvStep, <1>1, PTL DEF LockSpec

LEMMA TypesKept == LockSpec => []LockTypeOK
  <1>1. RunInv => LockTypeOK
    BY DEF RunInv
  <1> QED
    BY RunInvInit, RunInvStep, <1>1, PTL DEF LockSpec

(* Who holds the lock                                                      *)

\* Two sessions never hold it.
OneHolder ==
  \A c, d \in Connections : held[c] > 0 /\ held[d] > 0 => c = d

\* Until a session takes it twice or a connection drops it, a run under way is
\* alone and some session holds the lock for it.
Alone ==
  ~reentered /\ ~dropped =>
    \A r \in Runs : Active(r) =>
      /\ \E c \in Connections : held[c] > 0
      /\ \A s \in Runs : Active(s) => r = s

LEMMA OneHolderStep ==
    LockTypeOK /\ OneHolder /\ [LockNext]_lockVars => OneHolder'
  <1> SUFFICES ASSUME LockTypeOK, OneHolder, [LockNext]_lockVars
               PROVE  OneHolder'
    OBVIOUS
  <1> USE DEF LockTypeOK, OneHolder
  <1>1. ASSUME NEW r \in Runs, NEW c \in Connections, TryLock(r, c) \/ SkipLocked(r, c)
        PROVE  OneHolder'
    BY <1>1 DEF TryLock, SkipLocked, Grants
  <1>2. ASSUME NEW r \in Runs, RunStep(r)
        PROVE  OneHolder'
    <2>1. ASSUME NEW c \in Connections, Unlock(r, c)
          PROVE  OneHolder'
      BY <2>1 DEF Unlock
    <2>2. CASE UNCHANGED held
      BY <2>2
    <2> QED
      BY <1>2, <2>1, <2>2
         DEF RunStep, LoadRules, LoadFails, Generate, GenerateFails, AllTried, UnlockFails
  <1>3. ASSUME NEW c \in Connections, CloseConnection(c)
        PROVE  OneHolder'
    BY <1>3 DEF CloseConnection
  <1>4. CASE UNCHANGED lockVars
    BY <1>4 DEF lockVars
  <1> QED
    BY <1>1, <1>2, <1>3, <1>4 DEF LockNext

\* What is not taking the lock, giving it back or losing it leaves it alone.
Between(r) ==
  \/ LoadRules(r) \/ LoadFails(r) \/ AllTried(r)
  \/ \E rule \in Rules : Generate(r, rule) \/ GenerateFails(r, rule)

LEMMA BetweenKeeps ==
  ASSUME LockTypeOK, NEW r \in Runs, Between(r)
  PROVE  /\ \A s \in Runs : Active(s)' = Active(s)
         /\ UNCHANGED <<held, reentered, dropped, unreleased>>
  <1> USE DEF LockTypeOK, Active
  <1>1. CASE LoadRules(r)
    BY <1>1 DEF LoadRules
  <1>2. CASE LoadFails(r)
    BY <1>2 DEF LoadFails, AfterLoadError
  <1>3. CASE AllTried(r)
    BY <1>3 DEF AllTried
  <1>4. ASSUME NEW rule \in Rules, Generate(r, rule) \/ GenerateFails(r, rule)
        PROVE  /\ \A s \in Runs : Active(s)' = Active(s)
               /\ UNCHANGED <<held, reentered, dropped, unreleased>>
    BY <1>4 DEF Generate, GenerateFails, LeftAfterError
  <1> QED
    BY <1>1, <1>2, <1>3, <1>4 DEF Between

LEMMA AloneStep ==
    LockTypeOK /\ Alone /\ [LockNext]_lockVars => Alone'
  <1> SUFFICES ASSUME LockTypeOK, Alone, [LockNext]_lockVars
               PROVE  Alone'
    OBVIOUS
  <1> USE DEF LockTypeOK, Alone
  <1>1. ASSUME NEW r \in Runs, NEW c \in Connections, TryLock(r, c)
        PROVE  Alone'
    \* Granted without taking it twice: nobody held it, so nobody was under way.
    <2>1. CASE \E s \in Runs : Active(s)
      <3>1. held[c] > 0 => reentered'
        BY <1>1, Zenon DEF TryLock
      <3>2. ~dropped' => ~dropped /\ (reentered => reentered')
        BY <1>1, Zenon DEF TryLock
      <3>3. ~reentered' /\ ~dropped' => \E d \in Connections : held[d] > 0
        BY <2>1, <3>2
      <3>4. \A d \in Connections : held[d] > 0 => d = c
        BY <1>1 DEF TryLock, Grants
      <3>5. reentered' \/ dropped'
        BY <3>1, <3>3, <3>4
      <3> QED
        BY <3>5
    <2>2. CASE \A s \in Runs : ~Active(s)
      <3>1. /\ held'[c] > 0
            /\ \A s \in Runs : s # r => ~Active(s)'
        BY <1>1, <2>2 DEF TryLock, Active
      <3> QED
        BY <3>1
    <2> QED
      BY <2>1, <2>2
  <1>2. ASSUME NEW r \in Runs, NEW c \in Connections, SkipLocked(r, c)
        PROVE  Alone'
    BY <1>2 DEF SkipLocked, Active
  <1>3. ASSUME NEW r \in Runs, Between(r)
        PROVE  Alone'
    BY <1>3, BetweenKeeps
  <1>4. ASSUME NEW r \in Runs, (\E c \in Connections : Unlock(r, c)) \/ UnlockFails(r)
        PROVE  Alone'
    <2>1. /\ Active(r)
          /\ ~Active(r)'
          /\ \A s \in Runs : s # r => Active(s)' = Active(s)
          /\ UNCHANGED <<reentered, dropped>>
      BY <1>4 DEF Unlock, UnlockFails, Active
    <2> QED
      BY <2>1
  <1>5. ASSUME NEW c \in Connections, CloseConnection(c)
        PROVE  Alone'
    BY <1>5 DEF CloseConnection
  <1>6. CASE UNCHANGED lockVars
    BY <1>6 DEF lockVars, Active
  <1> QED
    BY <1>1, <1>2, <1>3, <1>4, <1>5, <1>6 DEF LockNext, RunStep, Between

\* Of any number of catch-ups over any pool, two overlap only after a session
\* has been granted a lock it already held, or a connection took it down with it.
THEOREM OverlapsAreExplained == LockSpec => []OverlapHasCause
  <1>1. LockInit => Alone
    BY DEF LockInit, NoRun, Alone, Active
  <1>2. Alone => OverlapHasCause
    BY DEF Alone, OverlapHasCause
  <1> QED
    BY TypesKept, AloneStep, <1>1, <1>2, PTL DEF LockSpec

(* The lock does not outlive the runs that took it                         *)

UnderWay == {r \in Runs : Active(r)}

\* As long as every run that ended gave the lock back, a session holds it no
\* more often than there are runs under way.
HeldByRuns ==
  ~unreleased => \A c \in Connections : held[c] <= Cardinality(UnderWay)

LEMMA UnderWayFinite == IsFiniteSet(UnderWay) /\ Cardinality(UnderWay) \in Nat
  BY LockAssumption, FS_Subset, FS_CardinalityType DEF UnderWay

LEMMA HeldByRunsStep ==
    LockTypeOK /\ OneHolder /\ HeldByRuns /\ [LockNext]_lockVars => HeldByRuns'
  <1> SUFFICES ASSUME LockTypeOK, OneHolder, HeldByRuns, [LockNext]_lockVars
               PROVE  HeldByRuns'
    OBVIOUS
  <1> USE DEF LockTypeOK, HeldByRuns
  <1>1. ASSUME NEW r \in Runs, NEW c \in Connections, TryLock(r, c)
        PROVE  HeldByRuns'
    <2>1. UnderWay' = UnderWay \union {r} /\ r \notin UnderWay
      BY <1>1 DEF TryLock, UnderWay, Active
    <2>2. Cardinality(UnderWay') = Cardinality(UnderWay) + 1
      BY <2>1, UnderWayFinite, FS_AddElement
    <2> QED
      BY <1>1, <2>2, UnderWayFinite DEF TryLock
  <1>2. ASSUME NEW r \in Runs, NEW c \in Connections, SkipLocked(r, c)
        PROVE  HeldByRuns'
    <2>1. UnderWay' = UnderWay
      BY <1>2 DEF SkipLocked, UnderWay, Active
    <2> QED
      BY <1>2, <2>1 DEF SkipLocked
  <1>3. ASSUME NEW r \in Runs, Between(r)
        PROVE  HeldByRuns'
    <2>1. UnderWay' = UnderWay
      BY <1>3, BetweenKeeps DEF UnderWay
    <2> QED
      BY <1>3, <2>1, BetweenKeeps
  <1>4. ASSUME NEW r \in Runs, NEW c \in Connections, Unlock(r, c)
        PROVE  HeldByRuns'
    <2>1. UnderWay' = UnderWay \ {r} /\ r \in UnderWay
      BY <1>4 DEF Unlock, UnderWay, Active
    <2>2. Cardinality(UnderWay') = Cardinality(UnderWay) - 1
      BY <2>1, UnderWayFinite, FS_RemoveElement
    \* The session that gives it back held it, so no other session does.
    <2>3. ~unreleased' => \A d \in Connections : d # c => held[d] = 0
      <3>1. ~unreleased' => held[c] # 0
        BY <1>4, Zenon DEF Unlock
      <3>2. held[c] # 0 => \A d \in Connections : d # c => held[d] = 0
        BY DEF OneHolder
      <3> QED
        BY <3>1, <3>2
    <2>4. Cardinality(UnderWay) > 0
      BY <2>1, UnderWayFinite, FS_EmptySet
    <2> QED
      BY <1>4, <2>2, <2>3, <2>4, UnderWayFinite DEF Unlock
  <1>5. ASSUME NEW r \in Runs, UnlockFails(r)
        PROVE  HeldByRuns'
    BY <1>5 DEF UnlockFails
  <1>6. ASSUME NEW c \in Connections, CloseConnection(c)
        PROVE  HeldByRuns'
    <2>1. UnderWay' = UnderWay
      BY <1>6 DEF CloseConnection, UnderWay, Active
    <2> QED
      BY <1>6, <2>1, UnderWayFinite DEF CloseConnection
  <1>7. CASE UNCHANGED lockVars
    <2>1. UnderWay' = UnderWay
      BY <1>7 DEF lockVars, UnderWay, Active
    <2> QED
      BY <1>7, <2>1 DEF lockVars
  <1> QED
    BY <1>1, <1>2, <1>3, <1>4, <1>5, <1>6, <1>7 DEF LockNext, RunStep, Between

\* Whatever the runs meet, a lock that is held belongs to a run under way,
\* unless a run has ended whose release did not reach the session that held it.
THEOREM LocksAreGivenBack == LockSpec => []LockOutlivesRun
  <1>1. LockInit => OneHolder /\ HeldByRuns
    BY UnderWayFinite DEF LockInit, OneHolder, HeldByRuns
  <1>2. LockTypeOK /\ HeldByRuns => LockOutlivesRun
    <2> SUFFICES ASSUME LockTypeOK, HeldByRuns, ~unreleased,
                        NEW c \in Connections, held[c] > 0
                 PROVE  \E r \in Runs : Active(r)
      BY DEF LockOutlivesRun
    <2>1. Cardinality(UnderWay) > 0
      BY UnderWayFinite DEF HeldByRuns, LockTypeOK
    <2>2. UnderWay # {}
      BY <2>1, FS_EmptySet
    <2> QED
      BY <2>2 DEF UnderWay
  <1> QED
    BY TypesKept, OneHolderStep, HeldByRunsStep, <1>1, <1>2, PTL DEF LockSpec

-----------------------------------------------------------------------------
(* The lock of the backup. *)

\* A backup request is between taking the lock and giving it back.
Holding(d) == dump[d] \in {"version", "listening", "deaf"}

\* pg_dump runs for those that hold the lock, who hold it alone.
HoldersAlone ==
  /\ \A d \in Dumps : child[d] # "none" => dump[d] \in {"listening", "deaf"}
  /\ \A d \in Dumps : Holding(d) => locked
  /\ \A d, e \in Dumps : Holding(d) /\ Holding(e) => d = e

BackupInv == BackupTypeOK /\ HoldersAlone /\ WritersPredateDump

LEMMA BackupInvInit == BackupInit => BackupInv
  <1> SUFFICES ASSUME BackupInit PROVE BackupInv
    OBVIOUS
  <1> USE DEF BackupInit
  <1>1. BackupTypeOK
    BY DEF BackupTypeOK
  <1>2. HoldersAlone
    BY DEF HoldersAlone, Holding
  <1>3. WritersPredateDump
    BY DEF WritersPredateDump
  <1> QED
    BY <1>1, <1>2, <1>3 DEF BackupInv

LEMMA BackupTypeStep == BackupTypeOK /\ [BackupNext]_backupVars => BackupTypeOK'
  <1> SUFFICES ASSUME BackupTypeOK, [BackupNext]_backupVars
               PROVE  BackupTypeOK'
    OBVIOUS
  <1> USE DEF BackupTypeOK
  <1>1. ASSUME NEW w \in Writes, Arrive(w) \/ Finish(w)
        PROVE  BackupTypeOK'
    BY <1>1 DEF Arrive, Finish
  <1>2. ASSUME NEW d \in Dumps, Acquire(d) \/ AlreadyInProgress(d) \/ ClientLeaves(d)
        PROVE  BackupTypeOK'
    BY <1>2 DEF Acquire, AlreadyInProgress, ClientLeaves, Underway
  <1>3. ASSUME NEW d \in Dumps, DumpStep(d)
        PROVE  BackupTypeOK'
    BY <1>3 DEF DumpStep, VersionFails, ReleaseOnError, StartDump, DumpEnds, Release
  <1>4. CASE UNCHANGED backupVars
    BY <1>4 DEF backupVars
  <1> QED
    BY <1>1, <1>2, <1>3, <1>4 DEF BackupNext

\* The lock is taken only while nobody holds it, and given back by the holder.
LEMMA HoldersAloneStep ==
    BackupTypeOK /\ HoldersAlone /\ [BackupNext]_backupVars => HoldersAlone'
  <1> SUFFICES ASSUME BackupTypeOK, HoldersAlone, [BackupNext]_backupVars
               PROVE  HoldersAlone'
    OBVIOUS
  <1> USE DEF BackupTypeOK, HoldersAlone, Holding
  <1>1. ASSUME NEW w \in Writes, Arrive(w) \/ Finish(w)
        PROVE  HoldersAlone'
    BY <1>1 DEF Arrive, Finish
  <1>2. ASSUME NEW d \in Dumps, Acquire(d)
        PROVE  HoldersAlone'
    BY <1>2 DEF Acquire
  <1>3. ASSUME NEW d \in Dumps, AlreadyInProgress(d)
        PROVE  HoldersAlone'
    BY <1>3 DEF AlreadyInProgress
  <1>4. ASSUME NEW d \in Dumps, ClientLeaves(d)
        PROVE  HoldersAlone'
    BY <1>4 DEF ClientLeaves
  <1>5. ASSUME NEW d \in Dumps, VersionFails(d)
        PROVE  HoldersAlone'
    BY <1>5 DEF VersionFails, ReleaseOnError, Release
  <1>6. ASSUME NEW d \in Dumps, StartDump(d)
        PROVE  HoldersAlone'
    BY <1>6 DEF StartDump
  <1>7. ASSUME NEW d \in Dumps, DumpEnds(d)
        PROVE  HoldersAlone'
    BY <1>7 DEF DumpEnds, Release
  <1>8. CASE UNCHANGED backupVars
    BY <1>8 DEF backupVars
  <1> QED
    BY <1>1, <1>2, <1>3, <1>4, <1>5, <1>6, <1>7, <1>8 DEF BackupNext, DumpStep

LEMMA WritersStep ==
    BackupTypeOK /\ WritersPredateDump /\ [BackupNext]_backupVars => WritersPredateDump'
  <1> SUFFICES ASSUME BackupTypeOK, WritersPredateDump, [BackupNext]_backupVars
               PROVE  WritersPredateDump'
    OBVIOUS
  <1> USE DEF BackupTypeOK, WritersPredateDump, Underway
  <1>1. ASSUME NEW w \in Writes, Arrive(w)
        PROVE  WritersPredateDump'
    BY <1>1 DEF Arrive, Admitted
  <1>2. ASSUME NEW w \in Writes, Finish(w)
        PROVE  WritersPredateDump'
    BY <1>2 DEF Finish
  <1>3. ASSUME NEW d \in Dumps, Acquire(d) \/ AlreadyInProgress(d) \/ ClientLeaves(d)
        PROVE  WritersPredateDump'
    BY <1>3 DEF Acquire, AlreadyInProgress, ClientLeaves
  <1>4. ASSUME NEW d \in Dumps, DumpStep(d)
        PROVE  WritersPredateDump'
    BY <1>4 DEF DumpStep, VersionFails, ReleaseOnError, StartDump, DumpEnds, Release
  <1>5. CASE UNCHANGED backupVars
    BY <1>5 DEF backupVars
  <1> QED
    BY <1>1, <1>2, <1>3, <1>4, <1>5 DEF BackupNext

LEMMA BackupInvariant == BackupSpec => []BackupInv
  <1>1. BackupInv /\ [BackupNext]_backupVars => BackupInv'
    BY BackupTypeStep, HoldersAloneStep, WritersStep DEF BackupInv
  <1> QED
    BY BackupInvInit, <1>1, PTL DEF BackupSpec

\* Whatever number of backups is asked for at once and whenever their clients
\* leave, at most one pg_dump runs, and only while the lock turns mutations away.
THEOREM DumpsAlone == BackupSpec => []DumpsUnderLock
  <1>1. BackupInv => DumpsUnderLock
    BY DEF BackupInv, BackupTypeOK, HoldersAlone, Holding, DumpsUnderLock
  <1> QED
    BY BackupInvariant, <1>1, PTL

\* Of any number of mutations, those that run during a dump were admitted
\* before the dump took the lock.
THEOREM WritersBeforeDumps == BackupSpec => []WritersPredateDump
  <1>1. BackupInv => WritersPredateDump
    BY DEF BackupInv
  <1> QED
    BY BackupInvariant, <1>1, PTL

-----------------------------------------------------------------------------
(* The quote synchronization. *)

SyncRecord == [status : Status, attempts : Nat]

Synchronization ==
  [phase : {"idle", "calling", "recording", "handled", "broken"},
   prior : [Listings -> SyncRecord], queue : SUBSET Listings,
   listing : SUBSET Listings, outcome : Status]

SyncTyped ==
  /\ sync \in [Listings -> SyncRecord]
  /\ quote \in [Listings -> {"none", "manual", "provider", "error"}]
  /\ syncing \in [Requests -> Synchronization]
  /\ overlapped \in BOOLEAN

LEMMA RestingTyped == Resting \in Synchronization /\ Resting.phase = "idle"
  BY DEF Resting, NoSync, Synchronization, SyncRecord, Status

LEMMA SyncTypedInit == QuoteInit => SyncTyped
  <1> SUFFICES ASSUME QuoteInit PROVE SyncTyped
    OBVIOUS
  <1>1. sync \in [Listings -> SyncRecord]
    BY DEF QuoteInit, NoSync, SyncRecord, Status
  <1> QED
    BY <1>1, RestingTyped DEF QuoteInit, SyncTyped

LEMMA SyncTypedStep == SyncTyped /\ [QuoteNext]_quoteVars => SyncTyped'
  <1> SUFFICES ASSUME SyncTyped, [QuoteNext]_quoteVars PROVE SyncTyped'
    OBVIOUS
  <1> USE DEF SyncTyped
  <1>1. ASSUME NEW q \in Requests, NEW retry \in BOOLEAN, Start(q, retry)
        PROVE  SyncTyped'
    <2>1. PICK chosen \in Chosen(retry) :
            syncing' = [syncing EXCEPT ![q] = [Resting EXCEPT !.phase = "calling",
                                                              !.prior = sync,
                                                              !.queue = chosen]]
      BY <1>1 DEF Start
    <2>2. chosen \subseteq Listings
      BY DEF Chosen, Candidates
    <2>3. [Resting EXCEPT !.phase = "calling", !.prior = sync, !.queue = chosen]
            \in Synchronization
      BY <2>2, RestingTyped DEF Synchronization
    <2>4. overlapped' \in BOOLEAN
      BY <1>1, Zenon DEF Start
    <2> QED
      BY <1>1, <2>1, <2>3, <2>4 DEF Start
  <1>2. ASSUME NEW q \in Requests, NEW l \in Listings, CallProvider(q, l)
        PROVE  SyncTyped'
    <2>1. PICK outcome \in {"SUCCESS", "UNSUPPORTED", "FAILED"} :
            /\ quote' = [quote EXCEPT ![l] = QuoteAfter(@, outcome)]
            /\ syncing' = [syncing EXCEPT ![q].phase = "recording", ![q].queue = @ \ {l},
                                          ![q].listing = {l}, ![q].outcome = outcome]
      BY <1>2 DEF CallProvider
    <2>2. [syncing[q] EXCEPT !.phase = "recording", !.queue = @ \ {l},
                             !.listing = {l}, !.outcome = outcome] \in Synchronization
      BY DEF Synchronization, Status
    <2>3. syncing' \in [Requests -> Synchronization]
      BY <2>1, <2>2
    <2>4. quote' \in [Listings -> {"none", "manual", "provider", "error"}]
      BY <2>1 DEF QuoteAfter
    <2> QED
      BY <1>2, <2>3, <2>4 DEF CallProvider
  <1>3. ASSUME NEW q \in Requests, Record(q)
        PROVE  SyncTyped'
    <2>1. sync' \in [Listings -> SyncRecord]
      BY <1>3 DEF Record, SyncRecord, Synchronization
    <2>2. [syncing[q] EXCEPT !.phase = "calling", !.listing = {}, !.outcome = "none"]
            \in Synchronization
      BY DEF Synchronization, Status
    <2>3. syncing' \in [Requests -> Synchronization]
      BY <1>3, <2>2 DEF Record
    <2> QED
      BY <1>3, <2>1, <2>3 DEF Record
  <1>4. ASSUME NEW q \in Requests, Break(q) \/ Handle(q)
        PROVE  SyncTyped'
    <2>1. [Resting EXCEPT !.phase = "broken"] \in Synchronization
          /\ [Resting EXCEPT !.phase = "handled"] \in Synchronization
      BY RestingTyped DEF Synchronization
    <2> QED
      BY <1>4, <2>1 DEF Break, Handle
  <1>5. ASSUME NEW l \in Listings, EnterQuote(l)
        PROVE  SyncTyped'
    BY <1>5 DEF EnterQuote
  <1>6. CASE UNCHANGED quoteVars
    BY <1>6 DEF quoteVars
  <1> QED
    BY <1>1, <1>2, <1>3, <1>4, <1>5, <1>6 DEF QuoteNext, SyncStep

-----------------------------------------------------------------------------

Good == {"provider", "manual"}

\* A synchronization that is alone never has a listing with a quote of today
\* before it, and what it is about to record has left its quote.
AloneAndFresh(q) ==
  Syncing(q) =>
    /\ \A other \in Requests : Syncing(other) => other = q
    /\ syncing[q].queue \intersect syncing[q].listing = {}
    /\ \A l \in syncing[q].queue \union syncing[q].listing : sync[l].status # "SUCCESS"
    /\ syncing[q].outcome = "SUCCESS" => \A l \in syncing[q].listing : quote[l] \in Good

QuotesGood == \A l \in Listings : sync[l].status = "SUCCESS" => quote[l] \in Good

Kept == ~overlapped => QuotesGood /\ \A q \in Requests : AloneAndFresh(q)

LEMMA KeptInit == QuoteInit => Kept
  BY RestingTyped DEF QuoteInit, NoSync, Kept, QuotesGood, AloneAndFresh, Syncing

LEMMA KeptStep == SyncTyped /\ Kept /\ [QuoteNext]_quoteVars => Kept'
  <1> SUFFICES ASSUME SyncTyped, Kept, [QuoteNext]_quoteVars, ~overlapped'
               PROVE  QuotesGood' /\ \A q \in Requests : AloneAndFresh(q)'
    BY DEF Kept
  <1>1. ASSUME NEW q \in Requests, NEW retry \in BOOLEAN, Start(q, retry)
        PROVE  QuotesGood' /\ \A p \in Requests : AloneAndFresh(p)'
    <2>1. PICK chosen \in Chosen(retry) :
            syncing' = [syncing EXCEPT ![q] = [Resting EXCEPT !.phase = "calling",
                                                              !.prior = sync,
                                                              !.queue = chosen]]
      BY <1>1 DEF Start
    <2>2. chosen \subseteq Listings /\ \A l \in chosen : sync[l].status # "SUCCESS"
      BY DEF Chosen, Candidates
    <2>3. ~overlapped /\ \A other \in Requests : ~Syncing(other)
      BY <1>1, Zenon DEF Start
    <2>4. UNCHANGED <<sync, quote>>
      BY <1>1 DEF Start
    <2>5. /\ syncing'[q].phase = "calling" /\ syncing'[q].queue = chosen
          /\ syncing'[q].listing = {} /\ syncing'[q].outcome = "none"
          /\ \A p \in Requests : p # q => syncing'[p] = syncing[p]
      BY <2>1 DEF Resting, SyncTyped
    <2>6. QuotesGood'
      BY <2>3, <2>4 DEF Kept, QuotesGood
    <2>7. ASSUME NEW p \in Requests
          PROVE  AloneAndFresh(p)'
      BY <2>2, <2>3, <2>4, <2>5 DEF AloneAndFresh, Syncing
    <2> QED
      BY <2>6, <2>7
  <1>2. ASSUME ~overlapped
        PROVE  QuotesGood /\ \A p \in Requests : AloneAndFresh(p)
    BY <1>2 DEF Kept
  <1>3. ASSUME NEW q \in Requests, NEW l \in Listings, CallProvider(q, l)
        PROVE  QuotesGood' /\ \A p \in Requests : AloneAndFresh(p)'
    <2>1. PICK outcome \in {"SUCCESS", "UNSUPPORTED", "FAILED"} :
            /\ quote' = [quote EXCEPT ![l] = QuoteAfter(@, outcome)]
            /\ syncing' = [syncing EXCEPT ![q].phase = "recording", ![q].queue = @ \ {l},
                                          ![q].listing = {l}, ![q].outcome = outcome]
      BY <1>3 DEF CallProvider
    <2>2. /\ syncing[q].phase = "calling" /\ l \in syncing[q].queue
          /\ sync' = sync /\ overlapped' = overlapped
      BY <1>3 DEF CallProvider
    <2>3. /\ syncing'[q].phase = "recording" /\ syncing'[q].queue = syncing[q].queue \ {l}
          /\ syncing'[q].listing = {l} /\ syncing'[q].outcome = outcome
          /\ \A p \in Requests : p # q => syncing'[p] = syncing[p]
      BY <2>1 DEF SyncTyped, Synchronization
    <2>4. /\ \A k \in Listings : k # l => quote'[k] = quote[k]
          /\ outcome = "SUCCESS" => quote'[l] \in Good
      BY <2>1 DEF SyncTyped, QuoteAfter, Good
    <2>5. QuotesGood /\ AloneAndFresh(q) /\ Syncing(q)
      BY <1>2, <2>2 DEF Syncing
    <2>6. QuotesGood'
      BY <2>2, <2>4, <2>5 DEF QuotesGood, AloneAndFresh
    <2>7. AloneAndFresh(q)'
      BY <2>2, <2>3, <2>4, <2>5 DEF AloneAndFresh, Syncing
    <2>8. ASSUME NEW p \in Requests, p # q
          PROVE  AloneAndFresh(p)'
      BY <2>3, <2>5, <2>8 DEF AloneAndFresh, Syncing
    <2> QED
      BY <2>6, <2>7, <2>8
  <1>4. ASSUME NEW q \in Requests, Record(q)
        PROVE  QuotesGood' /\ \A p \in Requests : AloneAndFresh(p)'
    <2>1. /\ syncing[q].phase = "recording" /\ quote' = quote /\ overlapped' = overlapped
          /\ sync' = [k \in Listings |->
               IF k \in syncing[q].listing
               THEN [status |-> syncing[q].outcome,
                     attempts |-> syncing[q].prior[k].attempts + 1]
               ELSE sync[k]]
          /\ syncing' = [syncing EXCEPT ![q].phase = "calling", ![q].listing = {},
                                        ![q].outcome = "none"]
      BY <1>4 DEF Record
    <2>2. /\ syncing'[q].phase = "calling" /\ syncing'[q].queue = syncing[q].queue
          /\ syncing'[q].listing = {} /\ syncing'[q].outcome = "none"
          /\ \A p \in Requests : p # q => syncing'[p] = syncing[p]
      BY <2>1 DEF SyncTyped, Synchronization
    <2>3. \A k \in Listings : sync'[k].status =
            IF k \in syncing[q].listing THEN syncing[q].outcome ELSE sync[k].status
      BY <2>1
    <2>4. QuotesGood /\ AloneAndFresh(q) /\ Syncing(q) /\ syncing[q].queue \subseteq Listings
      BY <1>2, <2>1 DEF Syncing, SyncTyped, Synchronization
    <2>5. QuotesGood'
      BY <2>1, <2>3, <2>4 DEF QuotesGood, AloneAndFresh
    <2>6. AloneAndFresh(q)'
      BY <2>2, <2>3, <2>4 DEF AloneAndFresh, Syncing
    <2>7. ASSUME NEW p \in Requests, p # q
          PROVE  AloneAndFresh(p)'
      BY <2>2, <2>4, <2>7 DEF AloneAndFresh, Syncing
    <2> QED
      BY <2>5, <2>6, <2>7
  <1>5. ASSUME NEW q \in Requests, Break(q) \/ Handle(q)
        PROVE  QuotesGood' /\ \A p \in Requests : AloneAndFresh(p)'
    <2>1. /\ UNCHANGED <<sync, quote, overlapped>>
          /\ \/ syncing' = [syncing EXCEPT ![q] = [Resting EXCEPT !.phase = "broken"]]
             \/ syncing' = [syncing EXCEPT ![q] = [Resting EXCEPT !.phase = "handled"]]
      BY <1>5 DEF Break, Handle
    <2>2. /\ syncing'[q].phase \in {"broken", "handled"}
          /\ \A p \in Requests : p # q => syncing'[p] = syncing[p]
      BY <2>1 DEF SyncTyped, Resting
    <2>3. QuotesGood'
      BY <1>2, <2>1 DEF QuotesGood
    <2>4. ASSUME NEW p \in Requests
          PROVE  AloneAndFresh(p)'
      BY <1>2, <2>1, <2>2 DEF AloneAndFresh, Syncing
    <2> QED
      BY <2>3, <2>4
  <1>6. ASSUME NEW l \in Listings, EnterQuote(l)
        PROVE  QuotesGood' /\ \A p \in Requests : AloneAndFresh(p)'
    <2>1. /\ UNCHANGED <<sync, syncing, overlapped>>
          /\ \A k \in Listings : quote'[k] = quote[k] \/ quote'[k] \in Good
      BY <1>6 DEF EnterQuote, SyncTyped, Good
    <2>2. QuotesGood'
      BY <1>2, <2>1 DEF QuotesGood
    <2>3. ASSUME NEW p \in Requests
          PROVE  AloneAndFresh(p)'
      BY <1>2, <2>1 DEF AloneAndFresh, Syncing, SyncTyped, Synchronization
    <2> QED
      BY <2>2, <2>3
  <1>7. CASE UNCHANGED quoteVars
    BY <1>2, <1>7 DEF quoteVars, QuotesGood, AloneAndFresh, Syncing
  <1> QED
    BY <1>1, <1>3, <1>4, <1>5, <1>6, <1>7 DEF QuoteNext, SyncStep

\* However many requests synchronize and retry on a day, and wherever they
\* break off, a quote the provider has given today is not spoiled by a later
\* failure, as long as no two of them overlap.
THEOREM QuotesSurvive == QuoteSpec => []SuccessKeepsQuote
  <1>1. Kept => SuccessKeepsQuote
    BY DEF Kept, QuotesGood, Good, SuccessKeepsQuote
  <1> QED
    BY SyncTypedInit, SyncTypedStep, KeptInit, KeptStep, <1>1, PTL DEF QuoteSpec

-----------------------------------------------------------------------------
(* The calls of a day *)

Attempts(s) == [l \in Listings |-> s[l].attempts]

\* The fold by which the calls are added up is the sum of a function.
LEMMA FoldIsSum ==
    ASSUME NEW s, NEW it,
           it = CHOOSE i : i = [t \in SUBSET Listings |->
                                  IF t = {} THEN 0
                                  ELSE s[CHOOSE x \in t : TRUE].attempts
                                         + i[t \ {CHOOSE x \in t : TRUE}]]
    PROVE  it[Listings] = SumFunctionOnSet(Attempts(s), Listings)
  <1> DEFINE Is(i) == i = [t \in SUBSET Listings |->
                             IF t = {} THEN 0
                             ELSE s[Pick(t)].attempts + i[t \ {Pick(t)}]]
  <1>1. ASSUME NEW i PROVE Is(i) <=> Sums(Attempts(s), Listings, i)
    <2>1. \A t \in SUBSET Listings : t # {} => Attempts(s)[Pick(t)] = s[Pick(t)].attempts
      BY PickIn DEF Attempts
    <2>2. [t \in SUBSET Listings |-> IF t = {} THEN 0
                                     ELSE s[Pick(t)].attempts + i[t \ {Pick(t)}]]
          = [t \in SUBSET Listings |-> IF t = {} THEN 0
                                       ELSE Attempts(s)[Pick(t)] + i[t \ {Pick(t)}]]
      BY <2>1
    <2> QED
      BY <2>2 DEF Sums
  <1>2. it = CHOOSE i : Is(i)
    BY DEF Pick
  <1> HIDE DEF Is
  <1>3. \E i : Is(i)
    BY <1>1, SumsExist, QuoteAssumption
  <1>4. Sums(Attempts(s), Listings, it)
    BY <1>1, <1>2, <1>3
  <1>5. PICK j : Sums(Attempts(s), Listings, j)
                 /\ SumFunctionOnSet(Attempts(s), Listings) = j[Listings]
    BY SumIsLast, QuoteAssumption
  <1> QED
    BY <1>4, <1>5, SumsUnique, QuoteAssumption

LEMMA CallsUsedIsSum == CallsUsed = SumFunctionOnSet(Attempts(sync), Listings)
  BY FoldIsSum DEF CallsUsed, MapThenSumSet, MapThenFoldSet

LEMMA CallsUsedIsSumNext == CallsUsed' = SumFunctionOnSet(Attempts(sync'), Listings)
  BY FoldIsSum DEF CallsUsed, MapThenSumSet, MapThenFoldSet

\* The calls used are a number, unchanged with the records, and one more after
\* an attempt on one listing.
LEMMA CallsUsedType == SyncTyped => CallsUsed \in Nat
  <1> SUFFICES ASSUME SyncTyped PROVE CallsUsed \in Nat
    OBVIOUS
  <1>1. \A l \in Listings : Attempts(sync)[l] \in Nat
    BY DEF SyncTyped, SyncRecord, Attempts
  <1> QED
    BY <1>1, SumCovers, CallsUsedIsSum, QuoteAssumption

LEMMA CallsUsedKept == sync' = sync => CallsUsed' = CallsUsed
  BY CallsUsedIsSum, CallsUsedIsSumNext

LEMMA CallsUsedOneMore ==
    ASSUME SyncTyped, NEW l \in Listings, sync' \in [Listings -> SyncRecord],
           sync'[l].attempts = sync[l].attempts + 1,
           \A k \in Listings : k # l => sync'[k] = sync[k]
    PROVE  CallsUsed' = CallsUsed + 1
  <1> DEFINE f == Attempts(sync)
             g == Attempts(sync')
             rest == Listings \ {l}
  <1>1. IsFiniteSet(Listings) /\ IsFiniteSet(rest)
    BY QuoteAssumption, FS_RemoveElement
  <1>2. \A k \in Listings : f[k] \in Int /\ g[k] \in Int
    BY DEF SyncTyped, SyncRecord, Attempts
  <1>3. g[l] = f[l] + 1 /\ \A k \in rest : g[k] = f[k]
    BY DEF Attempts
  <1>4. CallsUsed = SumFunctionOnSet(f, Listings) /\ CallsUsed' = SumFunctionOnSet(g, Listings)
    BY CallsUsedIsSum, CallsUsedIsSumNext
  <1> HIDE DEF f, g
  <1>5. SumFunctionOnSet(f, Listings) = f[l] + SumFunctionOnSet(f, rest)
    BY <1>1, <1>2, SumTakesAny
  <1>6. SumFunctionOnSet(g, Listings) = g[l] + SumFunctionOnSet(g, rest)
    BY <1>1, <1>2, SumTakesAny
  <1>7. SumFunctionOnSet(g, rest) = SumFunctionOnSet(f, rest)
        /\ SumFunctionOnSet(f, rest) \in Int
    BY <1>1, <1>2, <1>3, SumSame, SumTakesAny
  <1> QED
    BY <1>2, <1>3, <1>4, <1>5, <1>6, <1>7

-----------------------------------------------------------------------------

\* A synchronization has one call to record, or none.
OneListing(q) ==
  IF syncing[q].phase = "recording"
  THEN \E l \in Listings : syncing[q].listing = {l}
  ELSE syncing[q].listing = {}

Counted ==
  /\ calls \in Nat
  /\ lost \in Nat
  /\ \A q \in Requests : OneListing(q)

LEMMA OneOrNone ==
    ASSUME Counted, NEW q \in Requests
    PROVE  /\ Cardinality(syncing[q].listing) \in {0, 1}
           /\ syncing[q].phase = "recording" => Cardinality(syncing[q].listing) = 1
           /\ syncing[q].phase # "recording" => Cardinality(syncing[q].listing) = 0
  <1>1. CASE syncing[q].phase = "recording"
    <2>1. PICK l \in Listings : syncing[q].listing = {l}
      BY <1>1 DEF Counted, OneListing
    <2>2. Cardinality({l}) = 1
      BY FS_Singleton
    <2> QED
      BY <1>1, <2>1, <2>2
  <1>2. CASE syncing[q].phase # "recording"
    <2>1. syncing[q].listing = {} /\ Cardinality({}) = 0
      BY <1>2, FS_EmptySet DEF Counted, OneListing
    <2> QED
      BY <1>2, <2>1
  <1> QED
    BY <1>1, <1>2

LEMMA CountedInit == QuoteInit => Counted
  BY DEF QuoteInit, Counted, OneListing, Resting

LEMMA CountedStep == SyncTyped /\ Counted /\ [QuoteNext]_quoteVars => Counted'
  <1> SUFFICES ASSUME SyncTyped, Counted, [QuoteNext]_quoteVars PROVE Counted'
    OBVIOUS
  <1> USE DEF Counted, OneListing
  <1>1. ASSUME NEW q \in Requests, NEW retry \in BOOLEAN, Start(q, retry)
        PROVE  Counted'
    <2>1. PICK chosen \in Chosen(retry) :
            syncing' = [syncing EXCEPT ![q] = [Resting EXCEPT !.phase = "calling",
                                                              !.prior = sync,
                                                              !.queue = chosen]]
      BY <1>1 DEF Start
    <2>2. /\ syncing'[q].phase = "calling" /\ syncing'[q].listing = {}
          /\ \A p \in Requests : p # q => syncing'[p] = syncing[p]
      BY <2>1 DEF Resting, SyncTyped
    <2> QED
      BY <1>1, <2>2 DEF Start
  <1>2. ASSUME NEW q \in Requests, NEW l \in Listings, CallProvider(q, l)
        PROVE  Counted'
    <2>1. /\ syncing'[q].phase = "recording" /\ syncing'[q].listing = {l}
          /\ \A p \in Requests : p # q => syncing'[p] = syncing[p]
      BY <1>2 DEF CallProvider, SyncTyped, Synchronization
    <2>2. calls' \in Nat /\ lost' \in Nat
      BY <1>2 DEF CallProvider
    <2>3. \A p \in Requests : OneListing(p)'
      BY <2>1
    <2> QED
      BY <2>2, <2>3
  <1>3. ASSUME NEW q \in Requests, Record(q)
        PROVE  Counted'
    <2>1. /\ syncing'[q].phase = "calling" /\ syncing'[q].listing = {}
          /\ \A p \in Requests : p # q => syncing'[p] = syncing[p]
      BY <1>3 DEF Record, SyncTyped, Synchronization
    <2> QED
      BY <1>3, <2>1 DEF Record
  <1>4. ASSUME NEW q \in Requests, Break(q) \/ Handle(q)
        PROVE  Counted'
    <2>1. /\ syncing'[q].phase # "recording" /\ syncing'[q].listing = {}
          /\ \A p \in Requests : p # q => syncing'[p] = syncing[p]
      BY <1>4 DEF Break, Handle, SyncTyped, Resting
    <2>2. Cardinality(syncing[q].listing) \in Nat
      <3> HIDE DEF Counted
      <3> QED
        BY OneOrNone
    <2> QED
      BY <1>4, <2>1, <2>2 DEF Break, Handle
  <1>5. ASSUME NEW l \in Listings, EnterQuote(l)
        PROVE  Counted'
    BY <1>5 DEF EnterQuote
  <1>6. CASE UNCHANGED quoteVars
    BY <1>6 DEF quoteVars
  <1> QED
    BY <1>1, <1>2, <1>3, <1>4, <1>5, <1>6 DEF QuoteNext, SyncStep

-----------------------------------------------------------------------------

Unrecorded(q) == Cardinality(syncing[q].listing)

\* A synchronization that is alone knows the attempts on what it has before it,
\* and what it has chosen fits into the budget.
BudgetOf(q) ==
  Syncing(q) =>
    /\ \A l \in syncing[q].queue \union syncing[q].listing : syncing[q].prior[l] = sync[l]
    /\ calls <= CallsUsed + lost + Unrecorded(q)
    /\ CallsUsed + Cardinality(syncing[q].queue) + Unrecorded(q) <= DailyCalls

WithinBudget ==
  ~overlapped =>
    /\ CallsUsed <= DailyCalls
    /\ (\A q \in Requests : ~Syncing(q)) => calls <= CallsUsed + lost
    /\ \A q \in Requests : BudgetOf(q)

LEMMA WithinBudgetInit == QuoteInit => WithinBudget
  <1> SUFFICES ASSUME QuoteInit PROVE WithinBudget
    OBVIOUS
  <1>1. \A q \in Requests : ~Syncing(q)
    BY DEF QuoteInit, Syncing, Resting
  <1>2. CallsUsed = 0
    <2>1. \A l \in Listings : Attempts(sync)[l] = 0
      BY DEF QuoteInit, Attempts, NoSync
    <2>2. SumFunctionOnSet(Attempts(sync), Listings) = 0 * Cardinality(Listings)
      BY <2>1, SumConstant, QuoteAssumption
    <2> QED
      BY <2>2, CallsUsedIsSum, FS_CardinalityType, QuoteAssumption
  <1> QED
    BY <1>1, <1>2, QuoteAssumption DEF QuoteInit, WithinBudget, BudgetOf

\* A start chooses no more listings than calls are left.
LEMMA ChosenFits ==
    ASSUME SyncTyped, CallsUsed <= DailyCalls, NEW retry, NEW s \in Chosen(retry)
    PROVE  CallsUsed + Cardinality(s) <= DailyCalls
  <1>1. CallsUsed \in Nat /\ DailyCalls \in Nat
    BY CallsUsedType, QuoteAssumption
  <1>2. Candidates(retry) \subseteq Listings
    BY DEF Candidates
  <1>3. Cardinality(Candidates(retry)) \in Nat
    BY <1>2, FS_Subset, FS_CardinalityType, QuoteAssumption
  <1>4. Allowance \in Nat /\ CallsUsed + Allowance <= DailyCalls
    BY <1>1 DEF Allowance
  <1>5. Cardinality(s) \in Nat /\ Cardinality(s) <= Allowance
    BY <1>3, <1>4 DEF Chosen
  <1> QED
    BY <1>1, <1>4, <1>5

LEMMA OverlapsStay == [QuoteNext]_quoteVars /\ overlapped => overlapped'
  <1> SUFFICES ASSUME [QuoteNext]_quoteVars, overlapped PROVE overlapped'
    OBVIOUS
  <1>1. ASSUME NEW q \in Requests, NEW retry \in BOOLEAN, Start(q, retry)
        PROVE  overlapped'
    BY <1>1, Zenon DEF Start
  <1>2. ASSUME NEW q \in Requests, SyncStep(q)
        PROVE  overlapped'
    BY <1>2 DEF SyncStep, CallProvider, Record, Break, Handle
  <1> QED
    BY <1>1, <1>2 DEF QuoteNext, EnterQuote, quoteVars

LEMMA WithinBudgetStep ==
    SyncTyped /\ SyncTyped' /\ Counted /\ Kept /\ WithinBudget /\ [QuoteNext]_quoteVars
      => WithinBudget'
  <1> SUFFICES ASSUME SyncTyped, SyncTyped', Counted, Kept, WithinBudget,
                      [QuoteNext]_quoteVars, ~overlapped'
               PROVE  /\ CallsUsed' <= DailyCalls
                      /\ (\A q \in Requests : ~Syncing(q)') => calls' <= CallsUsed' + lost'
                      /\ \A q \in Requests : BudgetOf(q)'
    BY DEF WithinBudget
  <1> DEFINE Goal == /\ CallsUsed' <= DailyCalls
                     /\ (\A q \in Requests : ~Syncing(q)') => calls' <= CallsUsed' + lost'
                     /\ \A q \in Requests : BudgetOf(q)'
  <1>1. CallsUsed \in Nat /\ calls \in Nat /\ lost \in Nat /\ DailyCalls \in Nat
    BY CallsUsedType, QuoteAssumption DEF Counted
  <1>2. /\ CallsUsed <= DailyCalls
        /\ (\A q \in Requests : ~Syncing(q)) => calls <= CallsUsed + lost
        /\ \A q \in Requests : BudgetOf(q) /\ AloneAndFresh(q)
        /\ ~overlapped
    BY OverlapsStay, Zenon DEF WithinBudget, Kept
  <1>3. ASSUME NEW q \in Requests
        PROVE  /\ Cardinality(syncing[q].queue) \in Nat /\ IsFiniteSet(syncing[q].queue)
               /\ Unrecorded(q) \in Nat
               /\ syncing[q].phase = "calling" => Unrecorded(q) = 0
               /\ syncing[q].phase = "recording" => Unrecorded(q) = 1
    <2>1. syncing[q].queue \subseteq Listings /\ OneListing(q)
      BY DEF SyncTyped, Synchronization, Counted
    <2>2. Cardinality(syncing[q].queue) \in Nat /\ IsFiniteSet(syncing[q].queue)
      BY <2>1, FS_Subset, FS_CardinalityType, QuoteAssumption
    <2> QED
      BY <2>2, OneOrNone DEF Unrecorded
  <1>4. ASSUME NEW q \in Requests, NEW retry \in BOOLEAN, Start(q, retry)
        PROVE  Goal
    <2>1. PICK chosen \in Chosen(retry) :
            syncing' = [syncing EXCEPT ![q] = [Resting EXCEPT !.phase = "calling",
                                                              !.prior = sync,
                                                              !.queue = chosen]]
      BY <1>4 DEF Start
    <2>2. \A other \in Requests : ~Syncing(other)
      BY <1>4, Zenon DEF Start
    <2>3. /\ UNCHANGED <<sync, calls, lost>> /\ CallsUsed' = CallsUsed
      BY <1>4, CallsUsedKept DEF Start
    <2>4. /\ syncing'[q].phase = "calling" /\ syncing'[q].queue = chosen
          /\ syncing'[q].listing = {} /\ syncing'[q].prior = sync
          /\ \A p \in Requests : p # q => syncing'[p] = syncing[p]
      BY <2>1 DEF Resting, SyncTyped
    <2>5. CallsUsed + Cardinality(chosen) <= DailyCalls /\ Cardinality(chosen) \in Nat
      <3>1. chosen \subseteq Listings
        BY DEF Chosen, Candidates
      <3> QED
        BY <1>2, <3>1, ChosenFits, FS_Subset, FS_CardinalityType, QuoteAssumption
    <2>6. Unrecorded(q)' = 0
      BY <2>4, FS_EmptySet DEF Unrecorded
    <2>7. BudgetOf(q)'
      BY <1>1, <1>2, <2>2, <2>3, <2>4, <2>5, <2>6 DEF BudgetOf
    <2>8. \A p \in Requests : p # q => ~Syncing(p)'
      BY <2>2, <2>4 DEF Syncing
    <2> QED
      BY <1>1, <1>2, <2>2, <2>3, <2>7, <2>8 DEF BudgetOf
  <1>5. ASSUME NEW q \in Requests, NEW l \in Listings, CallProvider(q, l)
        PROVE  Goal
    <2>1. /\ syncing[q].phase = "calling" /\ l \in syncing[q].queue /\ calls' = calls + 1
          /\ UNCHANGED <<sync, lost>> /\ CallsUsed' = CallsUsed
      BY <1>5, CallsUsedKept DEF CallProvider
    <2>2. /\ syncing'[q].phase = "recording" /\ syncing'[q].queue = syncing[q].queue \ {l}
          /\ syncing'[q].listing = {l} /\ syncing'[q].prior = syncing[q].prior
          /\ \A p \in Requests : p # q => syncing'[p] = syncing[p]
      BY <1>5 DEF CallProvider, SyncTyped, Synchronization
    <2>3. Syncing(q) /\ Syncing(q)' /\ BudgetOf(q) /\ AloneAndFresh(q)
      BY <1>2, <2>1, <2>2 DEF Syncing
    <2>4. Unrecorded(q)' = 1 /\ Unrecorded(q) = 0
      BY <1>3, <2>1, <2>2, FS_Singleton DEF Unrecorded
    <2>5. Cardinality(syncing'[q].queue) = Cardinality(syncing[q].queue) - 1
      BY <1>3, <2>1, <2>2, FS_RemoveElement
    <2>6. BudgetOf(q)'
      <3>1. \A k \in syncing'[q].queue \union syncing'[q].listing :
              syncing'[q].prior[k] = sync'[k]
        BY <2>1, <2>2, <2>3 DEF BudgetOf
      <3>2. calls <= CallsUsed + lost
        BY <1>1, <2>3, <2>4 DEF BudgetOf
      <3>3. CallsUsed + Cardinality(syncing[q].queue) <= DailyCalls
        BY <1>1, <1>3, <2>3, <2>4 DEF BudgetOf
      <3>4. calls' <= CallsUsed' + lost' + Unrecorded(q)'
        BY <1>1, <2>1, <2>4, <3>2
      <3>5. CallsUsed' + Cardinality(syncing'[q].queue) + Unrecorded(q)' <= DailyCalls
        BY <1>1, <1>3, <2>1, <2>4, <2>5, <3>3
      <3> QED
        BY <3>1, <3>4, <3>5 DEF BudgetOf
    <2>7. \A p \in Requests : p # q => ~Syncing(p)'
      BY <2>2, <2>3 DEF Syncing, AloneAndFresh
    <2> QED
      BY <1>1, <1>2, <2>1, <2>3, <2>6, <2>7 DEF BudgetOf
  <1>6. ASSUME NEW q \in Requests, Record(q)
        PROVE  Goal
    <2>1. /\ syncing[q].phase = "recording"
          /\ UNCHANGED <<calls, lost>>
          /\ sync' = [k \in Listings |->
               IF k \in syncing[q].listing
               THEN [status |-> syncing[q].outcome,
                     attempts |-> syncing[q].prior[k].attempts + 1]
               ELSE sync[k]]
      BY <1>6 DEF Record
    <2>2. /\ syncing'[q].phase = "calling" /\ syncing'[q].queue = syncing[q].queue
          /\ syncing'[q].listing = {} /\ syncing'[q].prior = syncing[q].prior
          /\ \A p \in Requests : p # q => syncing'[p] = syncing[p]
      BY <1>6 DEF Record, SyncTyped, Synchronization
    <2>3. Syncing(q) /\ Syncing(q)' /\ BudgetOf(q) /\ AloneAndFresh(q)
      BY <1>2, <2>1, <2>2 DEF Syncing
    <2>4. PICK l \in Listings : syncing[q].listing = {l}
      BY <2>1 DEF Counted, OneListing
    <2>5. CallsUsed' = CallsUsed + 1
      <3>1. sync'[l].attempts = sync[l].attempts + 1
        BY <2>1, <2>3, <2>4 DEF BudgetOf
      <3>2. \A k \in Listings : k # l => sync'[k] = sync[k]
        BY <2>1, <2>4
      <3> QED
        BY <3>1, <3>2, CallsUsedOneMore DEF SyncTyped
    <2>6. Unrecorded(q)' = 0 /\ Unrecorded(q) = 1
      BY <1>3, <2>1, <2>2, FS_EmptySet DEF Unrecorded
    <2>7. /\ calls <= CallsUsed + lost + 1
          /\ CallsUsed + Cardinality(syncing[q].queue) + 1 <= DailyCalls
      BY <2>3, <2>6 DEF BudgetOf
    <2>8. BudgetOf(q)'
      <3>1. \A k \in syncing'[q].queue \union syncing'[q].listing :
              syncing'[q].prior[k] = sync'[k]
        <4>1. ASSUME NEW k \in syncing[q].queue
              PROVE  syncing[q].prior[k] = sync'[k]
          <5>1. k \in Listings /\ k \notin syncing[q].listing
            BY <2>3 DEF AloneAndFresh, SyncTyped, Synchronization
          <5> QED
            BY <2>1, <2>3, <5>1 DEF BudgetOf
        <4> QED
          BY <2>2, <4>1
      <3>2. calls' <= CallsUsed' + lost' + Unrecorded(q)'
        BY <1>1, <2>1, <2>5, <2>6, <2>7
      <3>3. CallsUsed' + Cardinality(syncing'[q].queue) + Unrecorded(q)' <= DailyCalls
        BY <1>1, <1>3, <2>2, <2>5, <2>6, <2>7
      <3> QED
        BY <3>1, <3>2, <3>3 DEF BudgetOf
    <2>9. \A p \in Requests : p # q => ~Syncing(p)'
      BY <2>2, <2>3 DEF Syncing, AloneAndFresh
    <2>10. CallsUsed' <= DailyCalls
      BY <1>1, <1>3, <2>5, <2>7
    <2> QED
      BY <2>3, <2>8, <2>9, <2>10 DEF BudgetOf
  <1>7. ASSUME NEW q \in Requests, Break(q) \/ Handle(q)
        PROVE  Goal
    <2>1. /\ UNCHANGED <<sync, calls>> /\ Syncing(q) /\ CallsUsed' = CallsUsed
          /\ \/ lost' = lost + Unrecorded(q)
             \/ lost' = lost /\ syncing[q].phase = "calling"
      BY <1>7, CallsUsedKept DEF Break, Handle, Syncing, Unrecorded
    <2>2. /\ syncing'[q].phase \in {"broken", "handled"}
          /\ \A p \in Requests : p # q => syncing'[p] = syncing[p]
      BY <1>7 DEF Break, Handle, SyncTyped, Resting
    <2>3. BudgetOf(q) /\ AloneAndFresh(q)
      BY <1>2
    <2>4. \A p \in Requests : ~Syncing(p)'
      BY <2>1, <2>2, <2>3 DEF Syncing, AloneAndFresh
    <2>5. lost' = lost + Unrecorded(q)
      BY <1>1, <1>3, <2>1
    <2>6. calls' <= CallsUsed' + lost'
      <3>1. calls <= CallsUsed + lost + Unrecorded(q)
        BY <2>1, <2>3 DEF BudgetOf
      <3> QED
        BY <1>1, <1>3, <2>1, <2>5, <3>1
    <2> QED
      BY <1>2, <2>1, <2>4, <2>6 DEF BudgetOf
  <1>8. CASE UNCHANGED <<sync, syncing, calls, lost>>
    <2>1. CallsUsed' = CallsUsed
      BY <1>8, CallsUsedKept
    <2> QED
      BY <1>2, <1>8, <2>1 DEF Syncing, BudgetOf, Unrecorded
  <1> QED
    BY <1>4, <1>5, <1>6, <1>7, <1>8
    DEF QuoteNext, SyncStep, quoteVars, EnterQuote

\* For every number of listings, of requests and of calls a day, and wherever a
\* synchronization breaks off: those that do not overlap call the provider no
\* more often than the budget allows, but for the calls that were not recorded.
THEOREM BudgetIsKept == QuoteSpec => []BudgetKept
  <1>1. SyncTyped /\ Counted /\ WithinBudget => BudgetKept
    <2> SUFFICES ASSUME SyncTyped, Counted, WithinBudget, ~overlapped
                 PROVE  calls <= DailyCalls + lost
      BY DEF BudgetKept
    <2>1. CallsUsed \in Nat /\ calls \in Nat /\ lost \in Nat /\ DailyCalls \in Nat
      BY CallsUsedType, QuoteAssumption DEF Counted
    <2>2. CASE \A q \in Requests : ~Syncing(q)
      BY <2>1, <2>2 DEF WithinBudget
    <2>3. CASE \E q \in Requests : Syncing(q)
      <3>1. PICK q \in Requests : Syncing(q)
        BY <2>3
      <3>2. /\ calls <= CallsUsed + lost + Unrecorded(q)
            /\ CallsUsed + Cardinality(syncing[q].queue) + Unrecorded(q) <= DailyCalls
        BY <3>1 DEF WithinBudget, BudgetOf
      <3>3. Cardinality(syncing[q].queue) \in Nat
        <4>1. syncing[q].queue \subseteq Listings
          BY DEF SyncTyped, Synchronization
        <4> QED
          BY <4>1, FS_Subset, FS_CardinalityType, QuoteAssumption
      <3>4. Unrecorded(q) \in Nat
        BY OneOrNone DEF Unrecorded
      <3> QED
        BY <2>1, <3>2, <3>3, <3>4
    <2> QED
      BY <2>2, <2>3
  <1> QED
    BY SyncTypedInit, SyncTypedStep, CountedInit, CountedStep, KeptInit, KeptStep,
       WithinBudgetInit, WithinBudgetStep, <1>1, PTL DEF QuoteSpec

LEMMA QuoteInvariant == QuoteSpec => []QuoteTypeOK
  <1>1. SyncTyped /\ Counted => QuoteTypeOK
    BY DEF QuoteTypeOK, SyncTyped, Counted, SyncRecord, Synchronization
  <1> QED
    BY SyncTypedInit, SyncTypedStep, CountedInit, CountedStep, <1>1, PTL DEF QuoteSpec

-----------------------------------------------------------------------------
(* The four together *)

\* What a step of one component may not be: a step of another one.
LEMMA StepsOfComponents ==
    ASSUME [Next]_vars
    PROVE  /\ [SessionNext]_sessionVars
           /\ [LockNext]_lockVars
           /\ [BackupNext]_backupVars
           /\ [QuoteNext]_quoteVars
  <1>1. CASE UNCHANGED vars
    BY <1>1 DEF vars
  <1>2. CASE Next /\ InSession
    <2>1. UNCHANGED <<lockVars, backupVars, quoteVars>>
      BY <1>2 DEF InSession
    <2>2. SessionNext \/ UNCHANGED sessionVars
      BY <1>2, Zenon DEF Next, InSession, InCatchUp, InBackup, InQuotes,
         SessionNext, CallStep, RefreshStep
    <2> QED
      BY <2>1, <2>2
  <1>3. CASE Next /\ InCatchUp
    <2>1. UNCHANGED <<sessionVars, backupVars, quoteVars>>
      BY <1>3 DEF InCatchUp
    <2>2. LockNext \/ UNCHANGED lockVars
      BY <1>3, Zenon DEF Next, InSession, InCatchUp, InBackup, InQuotes,
         LockNext, RunStep
    <2> QED
      BY <2>1, <2>2
  <1>4. CASE Next /\ InBackup
    <2>1. UNCHANGED <<sessionVars, lockVars, quoteVars>>
      BY <1>4 DEF InBackup
    <2>2. BackupNext \/ UNCHANGED backupVars
      BY <1>4, Zenon DEF Next, InSession, InCatchUp, InBackup, InQuotes,
         BackupNext, DumpStep
    <2> QED
      BY <2>1, <2>2
  <1>5. CASE Next /\ InQuotes
    <2>1. UNCHANGED <<sessionVars, lockVars, backupVars>>
      BY <1>5 DEF InQuotes
    <2>2. QuoteNext \/ UNCHANGED quoteVars
      BY <1>5, Zenon DEF Next, InSession, InCatchUp, InBackup, InQuotes,
         QuoteNext, SyncStep
    <2> QED
      BY <2>1, <2>2
  <1>6. Next => InSession \/ InCatchUp \/ InBackup \/ InQuotes
    BY Zenon DEF Next
  <1> QED
    BY <1>1, <1>2, <1>3, <1>4, <1>5, <1>6

\* A behaviour of the whole is one of each component, with its fairness, so
\* that what is proved of a component holds of the whole.
THEOREM PlatformRunsAll == Spec => SessionSpec /\ LockSpec /\ BackupSpec /\ QuoteSpec
  <1>1. Init => SessionInit /\ LockInit /\ BackupInit /\ QuoteInit
    BY DEF Init
  <1>2. [Next]_vars => [SessionNext]_sessionVars /\ [LockNext]_lockVars
                       /\ [BackupNext]_backupVars /\ [QuoteNext]_quoteVars
    BY StepsOfComponents
  <1> QED
    BY <1>1, <1>2, PTL DEF Spec, SessionSpec, LockSpec, BackupSpec, QuoteSpec

\* The types of all four components are kept, whichever of them moves.
THEOREM PlatformTypesHold == Spec => []PlatformTypeOK
  <1>1. BackupInv => BackupTypeOK
    BY DEF BackupInv
  <1>2. SessionTypeOK /\ LockTypeOK /\ BackupTypeOK /\ QuoteTypeOK => PlatformTypeOK
    BY DEF PlatformTypeOK
  <1> QED
    BY PlatformRunsAll, SessionTypesKept, TypesKept, BackupInvariant, QuoteInvariant,
       <1>1, <1>2, PTL

=============================================================================
