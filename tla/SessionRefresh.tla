--------------------------- MODULE SessionRefresh ---------------------------
(***************************************************************************)
(* The session of one browser tab: the interceptors of the API client      *)
(* (auth-interceptors.ts, auth-session.ts), the provider that restores and *)
(* ends it (auth-provider.tsx), and what the authentication controller     *)
(* does with the refresh cookie.                                           *)
(*                                                                         *)
(* A request and its answer are separate steps, so that answers may        *)
(* overtake one another.  What runs in one turn of the browser's event     *)
(* loop is one step: storing a refreshed token, forgetting the pending     *)
(* refresh and replaying every call that waited for it.                    *)
(*                                                                         *)
(* A token is present or not.  Whether the server still accepts one is     *)
(* decided when it looks at it: a call that carries a token may be served  *)
(* or rejected, one without a token is always rejected.                    *)
(***************************************************************************)
EXTENDS Naturals

CONSTANTS
  Calls,        \* the API calls the screens make
  Refreshes,    \* identities of the refresh requests on the wire
  NoRefresh     \* pendingRefresh is null

ASSUME SessionAssumption == NoRefresh \notin Refreshes

VARIABLES
  accessToken,      \* the client holds an access token
  cookie,           \* the browser holds the refresh cookie
  session,          \* the session query: being restored, a user, or null
  pendingRefresh,   \* the refresh in flight, shared by all who wait
  refresh,          \* each refresh request, with the cookie it was sent with
  call,             \* each API call; tries counts the requests it has cost
  logout,           \* the logout request
  clean             \* signed out by a logout that overlapped no refresh

sessionVars ==
  <<accessToken, cookie, session, pendingRefresh, refresh, call, logout, clean>>

NoRequest == [phase |-> "idle", cookie |-> FALSE]

NoCall == [phase |-> "idle", token |-> FALSE, retried |-> FALSE,
           waitsFor |-> NoRefresh, tries |-> 0]

InFlight(r) == refresh[r].phase # "idle"

\* A tab that has just been loaded: the token does not survive, the cookie may.
SessionInit ==
  /\ accessToken = FALSE
  /\ cookie \in BOOLEAN
  /\ session = "checking"
  /\ pendingRefresh = NoRefresh
  /\ refresh = [r \in Refreshes |-> NoRequest]
  /\ call = [c \in Calls |-> NoCall]
  /\ logout = "idle"
  /\ clean = FALSE

-----------------------------------------------------------------------------
(* Opening a session.  Nothing is rendered while it is restored, so the    *)
(* silent refresh of restoreSession() overlaps nothing.                    *)

\* Mutant of EndSession: the session query is not told.
EndToken == accessToken' = FALSE /\ UNCHANGED session

EndSession == accessToken' = FALSE /\ session' = "out"

RestoreGranted ==
  /\ session = "checking"
  /\ cookie
  /\ accessToken' = TRUE
  /\ session' = "in"
  /\ UNCHANGED <<cookie, pendingRefresh, refresh, call, logout, clean>>

RestoreDenied ==
  /\ session = "checking"
  /\ EndSession
  /\ UNCHANGED <<cookie, pendingRefresh, refresh, call, logout, clean>>

Login ==
  /\ session = "out"
  /\ accessToken' = TRUE
  /\ cookie' = TRUE
  /\ session' = "in"
  /\ clean' = FALSE
  /\ UNCHANGED <<pendingRefresh, refresh, call, logout>>

-----------------------------------------------------------------------------
(* A call: sent with the token there is, served, lost, or rejected with    *)
(* 401.  A rejected call is replayed once, after a refresh it shares.      *)

Requested(entry) ==
  [entry EXCEPT !.phase = "sent", !.token = accessToken', !.tries = @ + 1]

Send(c) ==
  /\ session = "in"
  /\ call[c].phase = "idle"
  /\ UNCHANGED accessToken
  /\ call' = [call EXCEPT ![c] = Requested(@)]
  /\ UNCHANGED <<cookie, session, pendingRefresh, refresh, logout, clean>>

Served(c) ==
  /\ call[c].phase = "sent"
  /\ call[c].token
  /\ call' = [call EXCEPT ![c].phase = "served"]
  /\ UNCHANGED <<accessToken, cookie, session, pendingRefresh, refresh, logout, clean>>

\* Any error but 401, a lost connection included.
Fails(c) ==
  /\ call[c].phase = "sent"
  /\ call' = [call EXCEPT ![c].phase = "failed"]
  /\ UNCHANGED <<accessToken, cookie, session, pendingRefresh, refresh, logout, clean>>

Unauthorized(c) ==
  /\ call[c].phase = "sent"
  /\ call' = [call EXCEPT ![c].phase = "rejected"]
  /\ UNCHANGED <<accessToken, cookie, session, pendingRefresh, refresh, logout, clean>>

\* Mutant of RefreshOnce: every call sends one of its own.
RefreshEach(r) ==
  /\ ~InFlight(r)
  /\ pendingRefresh' = r
  /\ refresh' = [refresh EXCEPT ![r] = [phase |-> "sent", cookie |-> cookie]]

\* Joins the pending refresh, or sends one with the cookie of this moment.
RefreshOnce(r) ==
  \/ /\ pendingRefresh = r
     /\ UNCHANGED <<pendingRefresh, refresh>>
  \/ /\ pendingRefresh = NoRefresh
     /\ ~InFlight(r)
     /\ pendingRefresh' = r
     /\ refresh' = [refresh EXCEPT ![r] = [phase |-> "sent", cookie |-> cookie]]

\* Mutant of MayRetry: a replay is not marked.
MayRetryAgain(c) == TRUE

MayRetry(c) == ~call[c].retried

\* The 401 reaches the client.
Rejected(c) ==
  /\ call[c].phase = "rejected"
  /\ \/ /\ MayRetry(c)
        /\ \E r \in Refreshes :
             /\ RefreshOnce(r)
             /\ call' = [call EXCEPT ![c].phase = "waiting",
                                     ![c].retried = TRUE,
                                     ![c].waitsFor = r]
     \/ /\ ~MayRetry(c)
        /\ call' = [call EXCEPT ![c].phase = "failed"]
        /\ UNCHANGED <<pendingRefresh, refresh>>
  /\ UNCHANGED <<accessToken, cookie, session, logout, clean>>

-----------------------------------------------------------------------------
(* The refresh request at the server, and its answer at the client.        *)

GrantRefresh(r) ==
  /\ refresh[r].phase = "sent"
  /\ refresh[r].cookie
  /\ refresh' = [refresh EXCEPT ![r].phase = "granted"]
  /\ UNCHANGED <<accessToken, cookie, session, pendingRefresh, call, logout, clean>>

\* No cookie, an expired one, a deleted account, or no answer at all.
DenyRefresh(r) ==
  /\ refresh[r].phase = "sent"
  /\ refresh' = [refresh EXCEPT ![r].phase = "denied"]
  /\ UNCHANGED <<accessToken, cookie, session, pendingRefresh, call, logout, clean>>

Waiting(c, r) == call[c].phase = "waiting" /\ call[c].waitsFor = r

SettleRefresh(r) ==
  /\ refresh' = [refresh EXCEPT ![r] = NoRequest]
  /\ pendingRefresh' = NoRefresh

\* Mutant of Refused: nobody tells the calls that wait.
RefusedNone(r) == call

\* The calls that wait for r get the 401 they had.
Refused(r) ==
  [c \in Calls |-> IF Waiting(c, r) THEN [call[c] EXCEPT !.phase = "failed"] ELSE call[c]]

RefreshGranted(r) ==
  /\ refresh[r].phase = "granted"
  /\ cookie' = TRUE
  /\ accessToken' = TRUE
  /\ SettleRefresh(r)
  /\ call' = [c \in Calls |-> IF Waiting(c, r) THEN Requested(call[c]) ELSE call[c]]
  /\ UNCHANGED <<session, logout, clean>>

RefreshDenied(r) ==
  /\ refresh[r].phase = "denied"
  /\ EndSession
  /\ SettleRefresh(r)
  /\ call' = Refused(r)
  /\ UNCHANGED <<cookie, logout, clean>>

-----------------------------------------------------------------------------
(* Ending a session.                                                       *)

Logout ==
  /\ session = "in"
  /\ logout = "idle"
  /\ logout' = "sent"
  /\ UNCHANGED <<accessToken, cookie, session, pendingRefresh, refresh, call, clean>>

\* Mutant of ClearCookie: cleared with attributes the browser does not match.
CookieKept == UNCHANGED cookie

ClearCookie == cookie' = FALSE

\* The answer clears the cookie; the client forgets the token.
LogoutAnswered ==
  /\ logout = "sent"
  /\ logout' = "idle"
  /\ ClearCookie
  /\ EndSession
  /\ clean' = \A r \in Refreshes : ~InFlight(r)
  /\ UNCHANGED <<pendingRefresh, refresh, call>>

\* The call failed: the client forgets the token all the same.
LogoutFailed ==
  /\ logout = "sent"
  /\ logout' = "idle"
  /\ EndSession
  /\ UNCHANGED <<cookie, pendingRefresh, refresh, call, clean>>

CookieExpires ==
  /\ cookie
  /\ cookie' = FALSE
  /\ UNCHANGED <<accessToken, session, pendingRefresh, refresh, call, logout, clean>>

-----------------------------------------------------------------------------

CallStep(c) == Served(c) \/ Fails(c) \/ Unauthorized(c) \/ Rejected(c)

RefreshStep(r) ==
  GrantRefresh(r) \/ DenyRefresh(r) \/ RefreshGranted(r) \/ RefreshDenied(r)

SessionNext ==
  \/ RestoreGranted \/ RestoreDenied \/ Login
  \/ \E c \in Calls : Send(c) \/ CallStep(c)
  \/ \E r \in Refreshes : RefreshStep(r)
  \/ Logout \/ LogoutAnswered \/ LogoutFailed
  \/ CookieExpires

\* A request on the wire is answered or fails in the end, and the client's
\* continuations run.  What the user does is not fair.
SessionFairness ==
  /\ \A c \in Calls : WF_sessionVars(CallStep(c))
  /\ \A r \in Refreshes : WF_sessionVars(RefreshStep(r))

SessionSpec == SessionInit /\ [][SessionNext]_sessionVars /\ SessionFairness

-----------------------------------------------------------------------------

\* Every variable has its type.
SessionTypeOK ==
  /\ accessToken \in BOOLEAN
  /\ cookie \in BOOLEAN
  /\ session \in {"checking", "in", "out"}
  /\ pendingRefresh \in Refreshes \union {NoRefresh}
  /\ refresh \in [Refreshes -> [phase : {"idle", "sent", "granted", "denied"},
                                cookie : BOOLEAN]]
  /\ call \in [Calls -> [phase : {"idle", "sent", "rejected", "waiting", "served", "failed"},
                         token : BOOLEAN, retried : BOOLEAN,
                         waitsFor : Refreshes \union {NoRefresh}, tries : Nat]]
  /\ logout \in {"idle", "sent"}
  /\ clean \in BOOLEAN

\* However many calls are rejected at once or one after the other, the
\* interceptor never has two refresh requests on the wire.
OneRefresh ==
  \A r, s \in Refreshes : InFlight(r) /\ InFlight(s) => r = s

\* A call costs two requests at most: it is replayed once and no more, also
\* when the replay is rejected or other calls refresh in between.
ReplayedOnce == \A c \in Calls : call[c].tries <= 2

\* A user who is shown as signed in has a token; late answers to refreshes of
\* an earlier session may end the session but never leave it without one.
SignedInHasToken == session = "in" => accessToken

\* After a logout that overlapped no refresh, neither token nor cookie comes
\* back before the next login, although calls of the old session may still be
\* rejected and ask for a refresh.  (One that did overlap may bring both back.)
LogoutSticks == clean => ~accessToken /\ ~cookie /\ session = "out"

\* Every call the screens make is answered, replayed or not.
CallsEnd ==
  \A c \in Calls :
    (call[c].phase # "idle") ~> (call[c].phase \in {"served", "failed"})

=============================================================================
