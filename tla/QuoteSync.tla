----------------------------- MODULE QuoteSync ------------------------------
(***************************************************************************)
(* The daily synchronization of market quotes for one user:                *)
(* synchronizeQuotes() of investments.service.ts, run by                   *)
(* market-quote-sync.interceptor.ts before every authenticated request     *)
(* and, with retry, by the retry endpoint; createMarketQuote() beside it.  *)
(*                                                                         *)
(* One UTC day.  A synchronization reads today's records once, then calls  *)
(* the provider listing after listing and records each attempt on the      *)
(* basis of what it read at first.                                         *)
(***************************************************************************)
EXTENDS FiniteSetsExt, Naturals

CONSTANTS
  Listings,     \* active listings with a provider symbol: rows of a table
  Requests,     \* authenticated requests
  DailyCalls    \* the provider's daily budget: 20 in the code

ASSUME QuoteAssumption == DailyCalls \in Nat /\ IsFiniteSet(Listings)

VARIABLES
  sync,     \* market_quote_syncs: today's record of each listing
  quote,    \* market_quotes: where the quote of each listing is from
  syncing,  \* each request: what it read, what is left, what it just got
  calls,    \* history: calls to the provider today
  lost,     \* history: calls whose attempt was never recorded
  overlapped  \* history: two synchronizations were under way at once

quoteVars == <<sync, quote, syncing, calls, lost, overlapped>>

NoSync == [status |-> "none", attempts |-> 0]
Resting == [phase |-> "idle", prior |-> [l \in Listings |-> NoSync], queue |-> {},
            listing |-> {}, outcome |-> "none"]

QuoteInit ==
  /\ sync = [l \in Listings |-> NoSync]
  /\ quote = [l \in Listings |-> "none"]
  /\ syncing = [q \in Requests |-> Resting]
  /\ calls = 0
  /\ lost = 0
  /\ overlapped = FALSE

Syncing(q) == syncing[q].phase \in {"calling", "recording"}

-----------------------------------------------------------------------------

CallsUsed == MapThenSumSet(LAMBDA l : sync[l].attempts, Listings)

\* Mutant of Candidates: a retry takes every listing again.
CandidatesAll(retry) == {l \in Listings : sync[l].status = "none" \/ retry}

\* Listings not attempted today; a retry takes those without a quote again.
Candidates(retry) ==
  {l \in Listings : \/ sync[l].status = "none"
                    \/ retry /\ sync[l].status # "SUCCESS"}

\* Mutant of Allowance: the calls used are not subtracted.
AllowanceFull == DailyCalls

Allowance == IF CallsUsed < DailyCalls THEN DailyCalls - CallsUsed ELSE 0

\* As many candidates as the rest of the budget pays for.
Chosen(retry) ==
  LET candidates == Candidates(retry)
      n == IF Cardinality(candidates) < Allowance THEN Cardinality(candidates) ELSE Allowance
  IN {s \in SUBSET candidates : Cardinality(s) = n}

Start(q, retry) ==
  /\ syncing[q].phase = "idle"
  /\ \E chosen \in Chosen(retry) :
       syncing' = [syncing EXCEPT ![q] = [Resting EXCEPT !.phase = "calling",
                                                         !.prior = sync,
                                                         !.queue = chosen]]
  /\ overlapped' = (overlapped \/ \E other \in Requests : Syncing(other))
  /\ UNCHANGED <<sync, quote, calls, lost>>

\* Mutant of QuoteAfter: the status of the attempt is stored as the quote's.
QuoteAfterRaw(old, outcome) == IF outcome = "SUCCESS" THEN "provider" ELSE outcome

\* What a call leaves in market_quotes.  A failure marks a provider's quote
\* as erroneous and leaves one entered by hand alone.
QuoteAfter(old, outcome) ==
  CASE outcome = "SUCCESS" -> "provider"
    [] outcome = "FAILED" /\ old = "provider" -> "error"
    [] OTHER -> old

\* The provider answers with a quote, without one, or not at all.
CallProvider(q, l) ==
  /\ syncing[q].phase = "calling"
  /\ l \in syncing[q].queue
  /\ calls' = calls + 1
  /\ \E outcome \in {"SUCCESS", "UNSUPPORTED", "FAILED"} :
       /\ quote' = [quote EXCEPT ![l] = QuoteAfter(@, outcome)]
       /\ syncing' = [syncing EXCEPT ![q].phase = "recording",
                                     ![q].queue = @ \ {l},
                                     ![q].listing = {l},
                                     ![q].outcome = outcome]
  /\ UNCHANGED <<sync, lost, overlapped>>

\* The attempt is counted on from the record read at the start.
Record(q) ==
  /\ syncing[q].phase = "recording"
  /\ sync' = [l \in Listings |->
                IF l \in syncing[q].listing
                THEN [status |-> syncing[q].outcome,
                      attempts |-> syncing[q].prior[l].attempts + 1]
                ELSE sync[l]]
  /\ syncing' = [syncing EXCEPT ![q].phase = "calling",
                                ![q].listing = {},
                                ![q].outcome = "none"]
  /\ UNCHANGED <<quote, calls, lost, overlapped>>

\* The database fails, or the API stops: the request ends unanswered by its
\* handler, and the call it had made is not recorded.
Break(q) ==
  /\ Syncing(q)
  /\ lost' = lost + Cardinality(syncing[q].listing)
  /\ syncing' = [syncing EXCEPT ![q] = [Resting EXCEPT !.phase = "broken"]]
  /\ UNCHANGED <<sync, quote, calls, overlapped>>

\* Nothing left: the request goes on to its handler.
Handle(q) ==
  /\ syncing[q].phase = "calling"
  /\ syncing[q].queue = {}
  /\ syncing' = [syncing EXCEPT ![q] = [Resting EXCEPT !.phase = "handled"]]
  /\ UNCHANGED <<sync, quote, calls, lost, overlapped>>

EnterQuote(l) ==
  /\ quote' = [quote EXCEPT ![l] = "manual"]
  /\ UNCHANGED <<sync, syncing, calls, lost, overlapped>>

-----------------------------------------------------------------------------

SyncStep(q) ==
  \/ \E l \in Listings : CallProvider(q, l)
  \/ Record(q) \/ Break(q) \/ Handle(q)

QuoteNext ==
  \/ \E q \in Requests : SyncStep(q) \/ \E retry \in BOOLEAN : Start(q, retry)
  \/ \E l \in Listings : EnterQuote(l)

QuoteSpec == QuoteInit /\ [][QuoteNext]_quoteVars

-----------------------------------------------------------------------------

Status == {"none", "SUCCESS", "FAILED", "UNSUPPORTED"}

\* Every variable has its type.
QuoteTypeOK ==
  /\ sync \in [Listings -> [status : Status, attempts : Nat]]
  /\ quote \in [Listings -> {"none", "manual", "provider", "error"}]
  /\ syncing \in [Requests ->
       [phase : {"idle", "calling", "recording", "handled", "broken"},
        prior : [Listings -> [status : Status, attempts : Nat]],
        queue : SUBSET Listings, listing : SUBSET Listings, outcome : Status]]
  /\ calls \in Nat
  /\ lost \in Nat
  /\ overlapped \in BOOLEAN

\* The provider's daily budget is kept by synchronizations that do not overlap,
\* over all the requests and retries of a day, but for the calls that were
\* made and never recorded.
BudgetKept == overlapped \/ calls <= DailyCalls + lost

\* Of synchronizations that do not overlap, one that fails later in the day never
\* spoils the quote an earlier one got.
SuccessKeepsQuote ==
  \A l \in Listings :
    sync[l].status = "SUCCESS" => overlapped \/ quote[l] \in {"provider", "manual"}

=============================================================================
