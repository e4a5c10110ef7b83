----------------------------- MODULE Investments -----------------------------
(***************************************************************************)
(* The investment trades of one account that is not a bank: createTrade(), *)
(* updateTrade() and removeTrade() of investments.service.ts, confirm()    *)
(* and rollback() of investment-import.service.ts.                         *)
(*                                                                         *)
(* A trade is an instant and what it adds to or takes from the quantity of *)
(* each instrument.  Everything else the balances add up (opening balance, *)
(* transactions, adjustments) is base, which the other endpoints move      *)
(* without asking whether the trades still have what they dispose of.      *)
(*                                                                         *)
(* The transactions are READ COMMITTED: each statement sees what is        *)
(* committed when it starts, and the transaction's own writes.             *)
(***************************************************************************)
EXTENDS FiniteSetsExt, Integers

CONSTANTS
  Trades,       \* trade ids; equal instants are ordered by them
  Instruments,
  Drafts,       \* trades a request or a row of a file may ask for
  Writers       \* requests

ASSUME InvestmentAssumption ==
  /\ Trades \subseteq Nat /\ IsFiniteSet(Trades)
  /\ Drafts \subseteq [at : Nat, change : [Instruments -> Int]]

VARIABLES
  trade,    \* the rows
  base,     \* what the balances have besides the trades
  writing,  \* the transaction of each request
  excuse    \* history: why a balance may have become negative

tradeVars == <<trade, base, writing, excuse>>

NoTrade == [life |-> "none", at |-> 0, change |-> [i \in Instruments |-> 0], imported |-> FALSE]

TradeRow(draft, imported) ==
  [life |-> "live", at |-> draft.at, change |-> draft.change, imported |-> imported]

NoWriting == [op |-> "none", phase |-> "idle", new |-> <<>>, locks |-> {},
              listed |-> <<>>, warned |-> FALSE, met |-> {}]

TradesInit ==
  /\ trade = [t \in Trades |-> NoTrade]
  /\ base = [i \in Instruments |-> 0]
  /\ writing = [w \in Writers |-> NoWriting]
  /\ excuse = {}

-----------------------------------------------------------------------------
(* Balances                                                                *)

LiveIn(rows) == {t \in DOMAIN rows : rows[t].life = "live"}

Moved(rows, ids, i) == MapThenSumSet(LAMBDA t : rows[t].change[i], ids)

\* instrumentBalances(), when every trade and everything else has happened.
Balance(rows, i) == base[i] + Moved(rows, LiveIn(rows), i)

\* The order of the walk: executedAt, then createdAt and id.
UpTo(rows, t) ==
  {s \in LiveIn(rows) : rows[s].at < rows[t].at \/ (rows[s].at = rows[t].at /\ s <= t)}

\* The walk from start comes to trade t without what t disposes of.
Uncovered(start, rows, t) ==
  \E i \in Instruments :
    rows[t].change[i] < 0 /\ start[i] + Moved(rows, UpTo(rows, t), i) < 0

Short(start, rows) == \E t \in LiveIn(rows) : Uncovered(start, rows, t)

Negative(rows) == \E i \in Instruments : Balance(rows, i) < 0

\* What a transaction sees: what is committed, and its own rows.
Applied(new) == [t \in Trades |-> IF t \in DOMAIN new THEN new[t] ELSE trade[t]]

Seen(w) == Applied(writing[w].new)

-----------------------------------------------------------------------------
(* Beginning and ending a transaction                                      *)

Others(w) == {v \in Writers \ {w} : writing[v].op # "none"}

\* A creation begins with its locks, everything else with its write.
Begun(w, op, new) ==
  [NoWriting EXCEPT
     !.op = op, !.new = new,
     !.phase = IF op = "create" THEN "locking" ELSE "written",
     !.warned = op = "import" /\ \E t \in DOMAIN new : Uncovered(base, Applied(new), t),
     !.met = {writing[x].op : x \in Others(w)}]

Met(v, op) == [writing[v] EXCEPT !.met = @ \union {op}]

\* Two transactions do not write the same trade: the second waits for the row.
BeginWrite(w, op, new) ==
  /\ writing[w].op = "none"
  /\ \A v \in Others(w) : DOMAIN new \intersect DOMAIN writing[v].new = {}
  /\ writing' = [v \in Writers |-> CASE v = w -> Begun(w, op, new)
                                     [] v \in Others(w) -> Met(v, op)
                                     [] OTHER -> writing[v]]
  /\ UNCHANGED <<trade, base, excuse>>

\* What a transaction has run beside, and does not look for.
Beside(w) ==
  (IF writing[w].met # {} THEN {"overlap"} ELSE {})
    \union IF \/ writing[w].met \ {"create"} # {}
              \/ writing[w].met # {} /\ writing[w].op # "create"
           THEN {"unlocked"} ELSE {}

CommitTrades(w, why) ==
  /\ trade' = Seen(w)
  /\ excuse' = excuse \union Beside(w) \union why
  /\ writing' = [writing EXCEPT ![w] = NoWriting]
  /\ UNCHANGED base

\* Refused by a check, chosen by deadlock detection, or cut off.
RollBack(w) ==
  /\ writing[w].op # "none"
  /\ writing' = [writing EXCEPT ![w] = NoWriting]
  /\ UNCHANGED <<trade, base, excuse>>

-----------------------------------------------------------------------------
(* createTrade()                                                           *)

CreateTrade(w, t, draft) ==
  /\ trade[t].life = "none"
  /\ BeginWrite(w, "create", [s \in {t} |-> TradeRow(draft, FALSE)])

\* The instruments whose quantity the new trade lowers.
Lowered(w) ==
  {i \in Instruments : \E t \in DOMAIN writing[w].new : writing[w].new[t].change[i] < 0}

\* Mutant of Free: the lock is not waited for.
FreeAlways(i) == TRUE

Free(i) == \A v \in Writers : i \notin writing[v].locks

\* The advisory lock of an instrument of the account, held until the end.
TakeLock(w, i) ==
  /\ writing[w].phase = "locking"
  /\ i \in Lowered(w) \ writing[w].locks
  /\ Free(i)
  /\ writing' = [writing EXCEPT ![w].locks = @ \union {i}]
  /\ UNCHANGED <<trade, base, excuse>>

\* Enough is held of each now; the row is inserted.  The code adds up what has
\* happened by now, the chronological check after it what happens ever: the
\* trades of the model are in the past, where the two are the same.
InsertTrade(w) ==
  /\ writing[w].phase = "locking"
  /\ Lowered(w) \subseteq writing[w].locks
  /\ \A i \in Lowered(w) : Balance(Seen(w), i) >= 0
  /\ writing' = [writing EXCEPT ![w].phase = "written"]
  /\ UNCHANGED <<trade, base, excuse>>

-----------------------------------------------------------------------------
(* updateTrade(), removeTrade() and rollback(): no lock.                   *)

UpdateTrade(w, t, draft) ==
  /\ trade[t].life = "live" /\ ~trade[t].imported
  /\ BeginWrite(w, "update", [s \in {t} |-> TradeRow(draft, FALSE)])

RemoveTrade(w, t) ==
  /\ trade[t].life = "live" /\ ~trade[t].imported
  /\ BeginWrite(w, "remove", [s \in {t} |-> NoTrade])

\* The trades of one batch.
RollBackBatch(w) ==
  LET batch == {t \in LiveIn(trade) : trade[t].imported} IN
  /\ batch # {}
  /\ BeginWrite(w, "rollback", [t \in batch |-> NoTrade])

-----------------------------------------------------------------------------
(* assertChronologicalBalances(), which comes last in all four: one        *)
(* statement lists the trades, later ones add up the balances.             *)

ListTrades(w) ==
  /\ writing[w].op # "import"
  /\ writing[w].phase = "written"
  /\ writing' = [writing EXCEPT ![w].phase = "listed", ![w].listed = Seen(w)]
  /\ UNCHANGED <<trade, base, excuse>>

\* What there was before the trades: the balances now, less the listed trades.
StartOf(w) ==
  LET listed == writing[w].listed IN
  [i \in Instruments |-> Balance(Seen(w), i) - Moved(listed, LiveIn(listed), i)]

\* Mutant of Covered: what is left in the end is looked at.
CoveredInTheEnd(w) == ~Negative(Seen(w))

Covered(w) == ~Short(StartOf(w), writing[w].listed)

AssertCovered(w) ==
  /\ writing[w].phase = "listed"
  /\ Covered(w)
  /\ writing' = [writing EXCEPT ![w].phase = "asserted", ![w].listed = <<>>]
  /\ UNCHANGED <<trade, base, excuse>>

\* What it asserted is committed later, whatever was committed meanwhile.
CommitWrite(w) ==
  /\ writing[w].phase = "asserted"
  /\ CommitTrades(w, {})

-----------------------------------------------------------------------------
(* confirm() of an import, which only warns, of the rows of the file, on   *)
(* what prepare() read before the transaction; and everything else.        *)

PrepareImport(w, rows) ==
  /\ rows # <<>>
  /\ \A t \in DOMAIN rows : trade[t].life = "none"
  /\ \A t \in Trades : ~trade[t].imported
  /\ BeginWrite(w, "import", [t \in DOMAIN rows |-> TradeRow(rows[t], TRUE)])

\* An acknowledged warning, or a later trade that a row has left short.
ConfirmImport(w) ==
  /\ writing[w].op = "import"
  /\ CommitTrades(w, IF writing[w].warned THEN {"acknowledged"}
               ELSE IF Short(base, Seen(w)) THEN {"later"} ELSE {})

\* It may take away what a trade disposes of, or spend what only trades brought.
MoveBase(i, by) ==
  LET moved == [base EXCEPT ![i] = @ + by] IN
  /\ base' = moved
  /\ excuse' = excuse
       \union (IF by < 0 /\ (moved[i] + Moved(trade, LiveIn(trade), i) < 0 \/ Short(moved, trade))
               THEN {"lowered"} ELSE {})
       \union (IF moved[i] < 0 THEN {"spent"} ELSE {})
  /\ writing' = [v \in Writers |-> IF writing[v].op = "none" THEN writing[v]
                                   ELSE Met(v, "other")]
  /\ UNCHANGED trade

-----------------------------------------------------------------------------

TradesNext ==
  \/ \E w \in Writers, t \in Trades, draft \in Drafts : CreateTrade(w, t, draft)
  \/ \E w \in Writers, i \in Instruments : TakeLock(w, i)
  \/ \E w \in Writers : InsertTrade(w)
  \/ \E w \in Writers, t \in Trades, draft \in Drafts : UpdateTrade(w, t, draft)
  \/ \E w \in Writers, t \in Trades : RemoveTrade(w, t)
  \/ \E w \in Writers : RollBackBatch(w)
  \/ \E w \in Writers : ListTrades(w)
  \/ \E w \in Writers : AssertCovered(w)
  \/ \E w \in Writers : CommitWrite(w)
  \/ \E w \in Writers, ids \in SUBSET Trades :
       \E rows \in [ids -> Drafts] : PrepareImport(w, rows)
  \/ \E w \in Writers : ConfirmImport(w)
  \/ \E w \in Writers : RollBack(w)
  \/ \E i \in Instruments, by \in {-1, 1} : MoveBase(i, by)

TradesSpec == TradesInit /\ [][TradesNext]_tradeVars

-----------------------------------------------------------------------------

\* Every variable has its type.
TradesTypeOK ==
  LET rows == [life : {"none", "live"}, at : Nat, change : [Instruments -> Int], imported : BOOLEAN]
  IN /\ trade \in [Trades -> rows]
     /\ base \in [Instruments -> Int]
     /\ \A w \in Writers :
          /\ writing[w].op \in {"none", "create", "update", "remove", "rollback", "import"}
          /\ writing[w].phase \in {"idle", "locking", "written", "listed", "asserted"}
          /\ DOMAIN writing[w].new \subseteq Trades
          /\ \A t \in DOMAIN writing[w].new : writing[w].new[t] \in rows
          /\ writing[w].locks \subseteq Instruments
          /\ writing[w].phase = "listed" => writing[w].listed \in [Trades -> rows]
     /\ excuse \subseteq {"overlap", "unlocked", "acknowledged", "later", "lowered", "spent"}

\* Nothing is disposed of that was not there at that moment: no trade, created,
\* edited or left behind by a removal or a rollback, takes a balance below zero
\* anywhere in the history, if no transaction ran beside another, no import
\* left one short and no other endpoint took away what it disposed of.
HistoryCovered == excuse \subseteq {"spent"} => ~Short(base, trade)

\* However many createTrade() run at once, they do not together dispose of more
\* than the account holds, if no other endpoint spent what only trades brought:
\* taking back such a trade leaves less than nothing, and no trade short.
HoldingsCovered == excuse \subseteq {"overlap"} => ~Negative(trade)

=============================================================================
