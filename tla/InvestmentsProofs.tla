--------------------------- MODULE InvestmentsProofs ---------------------------
(***************************************************************************)
(* HistoryCovered and HoldingsCovered, for any number of trades,           *)
(* instruments and requests and any quantities.                            *)
(*                                                                         *)
(* Neither is inductive: what a commit leaves depends on what its          *)
(* transaction found before the others committed.  WritersKnow says what   *)
(* that is still worth: transactions under way have met (Apart), so one    *)
(* that met none has listed and asserted what there is (Undisturbed), and  *)
(* creations that met only creations hold the locks of what they lower, so *)
(* that what the others commit does not lower it (Funded).                 *)
(***************************************************************************)
EXTENDS Investments, Sums

-----------------------------------------------------------------------------
(* What trades move *)

TradeRecord ==
  [life : {"none", "live"}, at : Nat, change : [Instruments -> Int], imported : BOOLEAN]

ChangeOf(rows, i) == [t \in Trades |-> rows[t].change[i]]

\* The fold by which the changes are added up is the sum of a function.
LEMMA MovedIsSum ==
    ASSUME NEW rows, NEW ids \in SUBSET Trades, NEW i
    PROVE  Moved(rows, ids, i) = SumFunctionOnSet(ChangeOf(rows, i), ids)
  <1> DEFINE Is(it) == it = [t \in SUBSET ids |->
                             IF t = {} THEN 0
                             ELSE rows[Pick(t)].change[i] + it[t \ {Pick(t)}]]
             fold == CHOOSE it : Is(it)
             f == ChangeOf(rows, i)
  <1>1. ASSUME NEW it PROVE Is(it) <=> Sums(f, ids, it)
    <2>1. \A t \in SUBSET ids : t # {} => f[Pick(t)] = rows[Pick(t)].change[i]
      BY PickIn DEF ChangeOf
    <2>2. [t \in SUBSET ids |-> IF t = {} THEN 0
                                ELSE rows[Pick(t)].change[i] + it[t \ {Pick(t)}]]
          = [t \in SUBSET ids |-> IF t = {} THEN 0 ELSE f[Pick(t)] + it[t \ {Pick(t)}]]
      BY <2>1
    <2> QED
      BY <2>2 DEF Sums
  <1>2. Moved(rows, ids, i) = fold[ids]
    BY DEF Moved, MapThenSumSet, MapThenFoldSet, Pick
  <1> HIDE DEF Is, f
  <1>3. IsFiniteSet(ids)
    BY FS_Subset, InvestmentAssumption
  <1>4. Sums(f, ids, fold)
    BY <1>1, <1>3, SumsExist
  <1>5. PICK it : Sums(f, ids, it) /\ SumFunctionOnSet(f, ids) = it[ids]
    BY <1>3, SumIsLast
  <1>6. fold[ids] = it[ids]
    BY <1>3, <1>4, <1>5, SumsUnique
  <1> QED
    BY <1>2, <1>5, <1>6 DEF f

LEMMA ChangeIsInt ==
    ASSUME NEW rows \in [Trades -> TradeRecord], NEW i \in Instruments
    PROVE  \A t \in Trades : ChangeOf(rows, i)[t] \in Int
                             /\ ChangeOf(rows, i)[t] = rows[t].change[i]
  BY DEF ChangeOf, TradeRecord

LEMMA MovedIsInt ==
    ASSUME NEW rows \in [Trades -> TradeRecord], NEW ids \in SUBSET Trades,
           NEW i \in Instruments
    PROVE  Moved(rows, ids, i) \in Int
  <1>1. IsFiniteSet(ids)
    BY FS_Subset, InvestmentAssumption
  <1>2. \A t \in ids : ChangeOf(rows, i)[t] \in Int
    BY ChangeIsInt
  <1> QED
    BY <1>1, <1>2, MovedIsSum, SumTakesAny

LEMMA LiveInTrades ==
    ASSUME NEW rows \in [Trades -> TradeRecord]
    PROVE  LiveIn(rows) \in SUBSET Trades
  BY DEF LiveIn

\* A row that becomes live adds what it changes.
LEMMA MovedByNew ==
    ASSUME NEW rows \in [Trades -> TradeRecord], NEW next \in [Trades -> TradeRecord],
           NEW t \in Trades, rows[t].life = "none", next[t].life = "live",
           \A s \in Trades : s # t => next[s] = rows[s], NEW i \in Instruments
    PROVE  Moved(next, LiveIn(next), i) = Moved(rows, LiveIn(rows), i) + next[t].change[i]
  <1> DEFINE f == ChangeOf(rows, i)
             g == ChangeOf(next, i)
             L == LiveIn(rows)
  <1>1. LiveIn(next) = L \cup {t} /\ t \notin L /\ L \in SUBSET Trades
    BY DEF LiveIn
  <1>2. IsFiniteSet(L)
    BY <1>1, FS_Subset, InvestmentAssumption
  <1>3. \A s \in Trades : f[s] \in Int /\ g[s] \in Int
    BY ChangeIsInt
  <1>4. \A s \in L : g[s] = f[s]
    BY <1>1 DEF ChangeOf
  <1>5. g[t] = next[t].change[i]
    BY ChangeIsInt
  <1>6. Moved(rows, L, i) = SumFunctionOnSet(f, L)
        /\ Moved(next, LiveIn(next), i) = SumFunctionOnSet(g, LiveIn(next))
    BY <1>1, MovedIsSum
  <1>7. SumFunctionOnSet(g, LiveIn(next)) = g[t] + SumFunctionOnSet(g, L)
    <2>1. IsFiniteSet(LiveIn(next)) /\ t \in LiveIn(next) /\ LiveIn(next) \ {t} = L
          /\ \A s \in LiveIn(next) : g[s] \in Int
      BY <1>1, <1>2, <1>3, FS_AddElement
    <2> HIDE DEF f, g, L
    <2>2. SumFunctionOnSet(g, LiveIn(next))
            = g[t] + SumFunctionOnSet(g, LiveIn(next) \ {t})
      BY <2>1, SumTakesAny
    <2> QED
      BY <2>1, <2>2, Zenon
  <1> HIDE DEF f, g, L
  <1>8. SumFunctionOnSet(g, L) = SumFunctionOnSet(f, L)
    BY <1>1, <1>2, <1>3, <1>4, SumSame
  <1>9. SumFunctionOnSet(f, L) \in Int /\ g[t] \in Int
    BY <1>1, <1>2, <1>3, SumTakesAny
  <1> QED
    BY <1>5, <1>6, <1>7, <1>8, <1>9 DEF L

\* Of the live trades of some kind there is a last one.
LEMMA LastTrade ==
    ASSUME NEW rows \in [Trades -> TradeRecord], NEW S \in SUBSET LiveIn(rows), S # {}
    PROVE  \E t \in S : S \subseteq UpTo(rows, t)
  <1> DEFINE Kind == {T \in SUBSET S : T # {} /\ ~ \E t \in T : T \subseteq UpTo(rows, t)}
  <1>1. SUFFICES ASSUME Kind # {} PROVE FALSE
    OBVIOUS
  <1>2. IsFiniteSet(S) /\ S \subseteq Trades
    BY LiveInTrades, FS_Subset, InvestmentAssumption
  <1>3. PICK T \in Kind : \A u \in SUBSET T : u # T => u \notin Kind
    <2>1. Kind \in SUBSET SUBSET S
      OBVIOUS
    <2> HIDE DEF Kind
    <2> QED
      BY <1>1, <1>2, <2>1, SmallestSubset
  <1>4. PICK p \in T : TRUE
    OBVIOUS
  <1>5. \A t \in T : t \in Nat /\ rows[t].at \in Nat /\ t \in LiveIn(rows)
    BY <1>2, InvestmentAssumption DEF TradeRecord
  <1>6. CASE T = {p}
    BY <1>5, <1>6 DEF UpTo
  <1>7. CASE T # {p}
    <2>1. PICK q \in T \ {p} : T \ {p} \subseteq UpTo(rows, q)
      <3>1. T \ {p} \in SUBSET T /\ T \ {p} # T /\ T \ {p} # {}
        BY <1>7
      <3> QED
        BY <1>3, <3>1
    <2>2. CASE p \in UpTo(rows, q)
      BY <2>1, <2>2
    <2>3. CASE p \notin UpTo(rows, q)
      <3>1. rows[q].at < rows[p].at \/ (rows[q].at = rows[p].at /\ q < p)
        BY <1>5, <2>1, <2>3 DEF UpTo
      <3>2. ASSUME NEW s \in T PROVE s \in UpTo(rows, p)
        <4>1. CASE s = p
          BY <1>5, <4>1 DEF UpTo
        <4>2. CASE s # p
          <5>1. s \in UpTo(rows, q)
            BY <2>1, <4>2
          <5> QED
            BY <1>5, <2>1, <3>1, <5>1 DEF UpTo
        <4> QED
          BY <4>1, <4>2
      <3> QED
        BY <3>2
    <2> QED
      BY <2>2, <2>3
  <1> QED
    BY <1>6, <1>7

\* A history no trade of which is short ends with nothing owed, unless it began so.
LEMMA CoveredInTheEndToo ==
    ASSUME NEW start \in [Instruments -> Int], NEW rows \in [Trades -> TradeRecord],
           ~Short(start, rows), NEW i \in Instruments, start[i] >= 0
    PROVE  start[i] + Moved(rows, LiveIn(rows), i) >= 0
  <1> DEFINE L == LiveIn(rows)
             f == ChangeOf(rows, i)
             Lowering == {t \in L : rows[t].change[i] < 0}
  <1>1. L \in SUBSET Trades /\ IsFiniteSet(L)
    BY LiveInTrades, FS_Subset, InvestmentAssumption
  <1>2. \A t \in L : f[t] \in Int /\ f[t] = rows[t].change[i]
    BY <1>1, ChangeIsInt
  <1>3. ASSUME NEW P \in SUBSET L, P \intersect Lowering = {}
        PROVE  SumFunctionOnSet(f, P) \in Nat
    <2>1. IsFiniteSet(P)
      BY <1>1, FS_Subset
    <2>2. \A t \in P : f[t] \in Nat
      BY <1>2, <1>3
    <2> HIDE DEF f, L
    <2> QED
      BY <2>1, <2>2, SumCovers
  <1>4. Moved(rows, L, i) = SumFunctionOnSet(f, L)
    BY <1>1, MovedIsSum
  <1>5. CASE Lowering = {}
    <2>1. SumFunctionOnSet(f, L) \in Nat
      BY <1>3, <1>5
    <2> QED
      BY <1>4, <2>1
  <1>6. CASE Lowering # {}
    <2>1. PICK t \in Lowering : Lowering \subseteq UpTo(rows, t)
      BY <1>6, LastTrade
    <2> DEFINE U == UpTo(rows, t)
    <2>2. U \in SUBSET L /\ U \in SUBSET Trades
      BY <1>1 DEF UpTo
    <2>3. ~(start[i] + Moved(rows, U, i) < 0)
      BY <2>1 DEF Short, Uncovered
    <2>4. Moved(rows, U, i) = SumFunctionOnSet(f, U) /\ Moved(rows, U, i) \in Int
      BY <2>2, MovedIsSum, MovedIsInt
    <2>5. SumFunctionOnSet(f, L \ U) \in Nat
      <3>1. L \ U \in SUBSET L /\ (L \ U) \intersect Lowering = {}
        BY <2>1
      <3> HIDE DEF f, L, U, Lowering
      <3> QED
        BY <1>3, <3>1
    <2>6. SumFunctionOnSet(f, L) = SumFunctionOnSet(f, U) + SumFunctionOnSet(f, L \ U)
      <3>1. \A x \in L : f[x] \in Int
        BY <1>2
      <3> HIDE DEF f, L, U
      <3> QED
        BY <1>1, <2>2, <3>1, SumSplits
    <2> HIDE DEF f, L, U
    <2>7. start[i] \in Int
      OBVIOUS
    <2> QED
      BY <1>4, <2>3, <2>4, <2>5, <2>6, <2>7 DEF L
  <1> QED
    BY <1>5, <1>6

\* More to begin with leaves fewer trades short.
LEMMA ShortFromMore ==
    ASSUME NEW less \in [Instruments -> Int], NEW more \in [Instruments -> Int],
           \A i \in Instruments : less[i] <= more[i],
           NEW rows \in [Trades -> TradeRecord], Short(more, rows)
    PROVE  Short(less, rows)
  <1>1. PICK t \in LiveIn(rows), i \in Instruments :
          rows[t].change[i] < 0 /\ more[i] + Moved(rows, UpTo(rows, t), i) < 0
    BY DEF Short, Uncovered
  <1>2. Moved(rows, UpTo(rows, t), i) \in Int
    BY LiveInTrades, MovedIsInt DEF UpTo
  <1>3. less[i] + Moved(rows, UpTo(rows, t), i) < 0
    BY <1>1, <1>2
  <1> QED
    BY <1>1, <1>3 DEF Short, Uncovered
-----------------------------------------------------------------------------
(* Types *)

TradeOp == {"create", "update", "remove", "rollback", "import"}

NewRows == UNION {[ids -> TradeRecord] : ids \in SUBSET Trades}

WriteRecord ==
  [op : TradeOp \union {"none"},
   phase : {"idle", "locking", "written", "listed", "asserted"},
   new : NewRows, locks : SUBSET Instruments,
   listed : {<<>>} \union [Trades -> TradeRecord],
   warned : BOOLEAN, met : SUBSET (TradeOp \union {"other"})]

UnderWay(w) == writing[w].op # "none"

TradesTyped ==
  /\ trade \in [Trades -> TradeRecord]
  /\ base \in [Instruments -> Int]
  /\ writing \in [Writers -> WriteRecord]
  /\ \A w \in Writers :
       /\ ~UnderWay(w) => writing[w] = NoWriting
       /\ writing[w].phase = "listed" => writing[w].listed \in [Trades -> TradeRecord]
  /\ excuse \subseteq {"overlap", "unlocked", "acknowledged", "later", "lowered", "spent"}

LEMMA NoRows == <<>> \in NewRows /\ DOMAIN <<>> = {}
  <1>1. <<>> \in [{} -> TradeRecord] /\ DOMAIN <<>> = {}
    OBVIOUS
  <1> QED
    BY <1>1 DEF NewRows

LEMMA NoWritingTyped ==
    /\ NoWriting \in WriteRecord
    /\ NoWriting.op = "none" /\ NoWriting.phase = "idle" /\ DOMAIN NoWriting.new = {}
    /\ NoWriting.locks = {}
  BY NoRows DEF NoWriting, WriteRecord

LEMMA NoTradeTyped == NoTrade \in TradeRecord /\ NoTrade.life = "none"
  BY DEF NoTrade, TradeRecord

LEMMA TradeRowTyped ==
    ASSUME NEW draft \in Drafts, NEW imported \in BOOLEAN
    PROVE  /\ TradeRow(draft, imported) \in TradeRecord
           /\ TradeRow(draft, imported).life = "live"
  BY InvestmentAssumption DEF TradeRow, TradeRecord

LEMMA AppliedTyped ==
    ASSUME TradesTyped, NEW new \in NewRows
    PROVE  Applied(new) \in [Trades -> TradeRecord] /\ DOMAIN new \subseteq Trades
  <1>1. PICK ids \in SUBSET Trades : new \in [ids -> TradeRecord]
    BY DEF NewRows
  <1> QED
    BY <1>1 DEF TradesTyped, Applied

LEMMA MetTyped ==
    ASSUME TradesTyped, NEW w \in Writers, NEW op \in TradeOp \union {"other"}
    PROVE  /\ Met(w, op) \in WriteRecord
           /\ Met(w, op).op = writing[w].op /\ Met(w, op).phase = writing[w].phase
           /\ Met(w, op).new = writing[w].new /\ Met(w, op).locks = writing[w].locks
           /\ Met(w, op).listed = writing[w].listed
           /\ Met(w, op).met = writing[w].met \union {op}
  <1>1. writing[w] \in WriteRecord
    BY DEF TradesTyped
  <1>2. writing[w].met \union {op} \in SUBSET (TradeOp \union {"other"})
    BY <1>1 DEF WriteRecord
  <1> QED
    BY <1>1, <1>2 DEF Met, WriteRecord

LEMMA SeenTyped ==
    ASSUME TradesTyped, NEW w \in Writers
    PROVE  Seen(w) \in [Trades -> TradeRecord] /\ DOMAIN writing[w].new \subseteq Trades
  BY AppliedTyped DEF TradesTyped, WriteRecord, Seen

-----------------------------------------------------------------------------
(* What a transaction knows *)

\* Transactions that are under way have met, touch other rows and hold other locks.
Apart ==
  \A v, w \in Writers : v # w =>
    /\ UnderWay(v) /\ UnderWay(w) => writing[v].op \in writing[w].met
    /\ DOMAIN writing[v].new \intersect DOMAIN writing[w].new = {}
    /\ writing[v].locks \intersect writing[w].locks = {}

\* A creation adds one live row, under an id that has none.
Creating(w, t, row) ==
  /\ trade[t].life = "none"
  /\ row.life = "live"
  /\ writing[w].new = [s \in {t} |-> row]

OneRow ==
  \A w \in Writers : writing[w].op = "create" =>
    \E t \in Trades, row \in TradeRecord : Creating(w, t, row)

Checked == {"written", "listed", "asserted"}

\* Past its own check a creation holds the locks of what it takes from, and only
\* creations having met it, there is still enough.
Funded ==
  \A w \in Writers :
    writing[w].op = "create" /\ writing[w].phase \in Checked =>
      /\ Lowered(w) \subseteq writing[w].locks
      /\ writing[w].met \subseteq {"create"} => \A i \in Lowered(w) : Balance(Seen(w), i) >= 0

\* What a transaction that met none has listed is what there is, and what it has
\* asserted still holds.
Undisturbed ==
  \A w \in Writers : UnderWay(w) /\ writing[w].met = {} =>
    /\ writing[w].phase = "listed" => writing[w].listed = Seen(w)
    /\ writing[w].phase = "asserted" => ~Short(base, Seen(w))

BaseHeld == "spent" \notin excuse => \A i \in Instruments : base[i] >= 0

WritersKnow == Apart /\ OneRow /\ Funded /\ Undisturbed

RowsKeepUp == BaseHeld /\ HistoryCovered /\ HoldingsCovered

TradesInv == TradesTyped /\ WritersKnow /\ RowsKeepUp

LEMMA TradesInvInit == TradesInit => TradesInv
  <1> SUFFICES ASSUME TradesInit PROVE TradesInv
    OBVIOUS
  <1> USE DEF TradesInit
  <1>1. TradesTyped
    BY NoTradeTyped, NoWritingTyped DEF TradesTyped, UnderWay
  <1>2. WritersKnow
    BY NoWritingTyped DEF WritersKnow, Apart, OneRow, Funded, Undisturbed, UnderWay, Checked
  <1>3. LiveIn(trade) = {}
    BY NoTradeTyped DEF LiveIn
  <1>4. ASSUME NEW i \in Instruments PROVE Balance(trade, i) = 0
    <2>1. Moved(trade, {}, i) = SumFunctionOnSet(ChangeOf(trade, i), {})
      BY MovedIsSum
    <2>2. Moved(trade, {}, i) = 0
      BY <2>1, SumEmpty
    <2> QED
      BY <1>3, <2>2 DEF Balance
  <1>5. RowsKeepUp
    BY <1>3, <1>4 DEF RowsKeepUp, BaseHeld, HistoryCovered, HoldingsCovered, Short, Negative
  <1> QED
    BY <1>1, <1>2, <1>5 DEF TradesInv

-----------------------------------------------------------------------------
(* Beginning a transaction *)

Begins(w, op, new) ==
  /\ op \in TradeOp
  /\ new \in NewRows
  /\ op = "create" =>
       \E t \in Trades, row \in TradeRecord :
         trade[t].life = "none" /\ row.life = "live" /\ new = [s \in {t} |-> row]
  /\ BeginWrite(w, op, new)

LEMMA BeginKeeps ==
    ASSUME TradesInv, NEW w \in Writers, NEW op, NEW new, Begins(w, op, new)
    PROVE  TradesInv'
  <1> USE DEF TradesInv
  <1> DEFINE others == {writing[x].op : x \in Others(w)}
  <1>1. /\ writing[w].op = "none"
        /\ \A v \in Others(w) : DOMAIN new \intersect DOMAIN writing[v].new = {}
        /\ UNCHANGED <<trade, base, excuse>>
        /\ op \in TradeOp /\ new \in NewRows
    BY DEF Begins, BeginWrite
  <1>0. /\ writing'[w] = Begun(w, op, new)
        /\ \A v \in Writers : v # w =>
             writing'[v] = IF UnderWay(v) THEN Met(v, op) ELSE writing[v]
        /\ writing' = [v \in Writers |-> writing'[v]]
    BY DEF Begins, BeginWrite, Others, UnderWay
  <1>2. /\ writing'[w].op = op /\ writing'[w].new = new
        /\ writing'[w].phase = (IF op = "create" THEN "locking" ELSE "written")
        /\ writing'[w].locks = {} /\ writing'[w].met = others
        /\ writing'[w] \in WriteRecord
    <2>1. PICK warned \in BOOLEAN :
            Begun(w, op, new) = [NoWriting EXCEPT
                                   !.op = op, !.new = new,
                                   !.phase = IF op = "create" THEN "locking" ELSE "written",
                                   !.warned = warned, !.met = others]
      BY DEF Begun
    <2>2. others \subseteq TradeOp
      BY DEF TradesTyped, WriteRecord, Others
    <2>3. NoWriting.locks = {} /\ NoWriting \in WriteRecord
      BY NoWritingTyped
    <2> DEFINE phase == IF op = "create" THEN "locking" ELSE "written"
    <2>4. phase \in {"locking", "written"}
      OBVIOUS
    <2> HIDE DEF others, phase
    <2>5. [NoWriting EXCEPT !.op = op, !.new = new, !.phase = phase, !.warned = warned,
                            !.met = others] \in WriteRecord
      BY <1>1, <2>2, <2>3, <2>4 DEF WriteRecord
    <2>6. writing'[w] = [NoWriting EXCEPT !.op = op, !.new = new, !.phase = phase,
                                          !.warned = warned, !.met = others]
      BY <1>0, <2>1 DEF phase
    <2>7. /\ writing'[w].op = op /\ writing'[w].new = new /\ writing'[w].phase = phase
          /\ writing'[w].locks = {} /\ writing'[w].met = others
      BY <2>3, <2>6 DEF WriteRecord
    <2> QED
      BY <2>5, <2>6, <2>7 DEF phase
  <1>3. ASSUME NEW v \in Writers, v # w
        PROVE  /\ writing'[v].op = writing[v].op /\ writing'[v].new = writing[v].new
               /\ writing'[v].phase = writing[v].phase /\ writing'[v].locks = writing[v].locks
               /\ writing'[v].listed = writing[v].listed
               /\ UnderWay(v) => writing'[v].met = writing[v].met \union {op}
               /\ ~UnderWay(v) => writing'[v] = writing[v]
               /\ writing'[v] \in WriteRecord
    <2>1. CASE UnderWay(v)
      <3>1. writing'[v] = Met(v, op)
        BY <1>0, <1>3, <2>1
      <3> QED
        BY <1>1, <2>1, <3>1, MetTyped
    <2>2. CASE ~UnderWay(v)
      <3>1. writing'[v] = writing[v]
        BY <1>0, <1>3, <2>2
      <3> QED
        BY <2>2, <3>1 DEF TradesTyped
    <2> QED
      BY <2>1, <2>2
  <1>4. \A v \in Writers : v # w => (v \in Others(w) <=> UnderWay(v))
    BY DEF Others, UnderWay
  <1>5. writing' \in [Writers -> WriteRecord]
    <2>1. \A v \in Writers : writing'[v] \in WriteRecord
      BY <1>2, <1>3
    <2> QED
      BY <1>0, <2>1
  <1>6. op # "none" /\ ~UnderWay(w) /\ UnderWay(w)'
    BY <1>1, <1>2 DEF TradeOp, UnderWay
  <1>7. ASSUME NEW v \in Writers, v # w PROVE UnderWay(v)' <=> UnderWay(v)
    BY <1>3, <1>7 DEF UnderWay
  <1>8. TradesTyped'
    <2>1. \A v \in Writers :
            /\ ~UnderWay(v)' => writing'[v] = NoWriting
            /\ writing'[v].phase = "listed" => writing'[v].listed \in [Trades -> TradeRecord]
      BY <1>2, <1>3, <1>6, <1>7 DEF TradesTyped
    <2> QED
      BY <1>1, <1>5, <2>1 DEF TradesTyped
  <1>9. Apart'
    <2>1. ASSUME NEW v \in Writers, v # w
          PROVE  /\ UnderWay(v) => writing'[v].op \in writing'[w].met
                 /\ UnderWay(v) => writing'[w].op \in writing'[v].met
                 /\ DOMAIN writing'[v].new \intersect DOMAIN writing'[w].new = {}
                 /\ writing'[v].locks \intersect writing'[w].locks = {}
      <3>1. UnderWay(v) => writing'[v].op \in writing'[w].met
        BY <1>2, <1>3, <1>4, <2>1
      <3>2. UnderWay(v) => writing'[w].op \in writing'[v].met
        BY <1>2, <1>3, <2>1
      <3>3. DOMAIN writing'[v].new \intersect DOMAIN writing'[w].new = {}
        <4>1. CASE UnderWay(v)
          BY <1>1, <1>2, <1>3, <1>4, <2>1, <4>1
        <4>2. CASE ~UnderWay(v)
          <5>1. DOMAIN writing'[v].new = {}
            BY <1>3, <2>1, <4>2, NoWritingTyped DEF TradesTyped
          <5> QED
            BY <5>1
        <4> QED
          BY <4>1, <4>2
      <3>4. writing'[v].locks \intersect writing'[w].locks = {}
        BY <1>2
      <3> QED
        BY <3>1, <3>2, <3>3, <3>4
    <2>2. ASSUME NEW v \in Writers, NEW u \in Writers, v # u, v # w, u # w
          PROVE  /\ UnderWay(v) /\ UnderWay(u) => writing'[v].op \in writing'[u].met
                 /\ DOMAIN writing'[v].new \intersect DOMAIN writing'[u].new = {}
                 /\ writing'[v].locks \intersect writing'[u].locks = {}
      BY <1>3, <2>2 DEF WritersKnow, Apart
    <2> QED
      BY <1>7, <2>1, <2>2 DEF Apart
  <1>10. \A v \in Writers : v # w => Seen(v)' = Seen(v) /\ Lowered(v)' = Lowered(v)
    BY <1>1, <1>3 DEF Seen, Applied, Lowered
  <1>11. OneRow'
    <2>1. ASSUME NEW v \in Writers, writing'[v].op = "create", v # w
          PROVE  \E t \in Trades, row \in TradeRecord : Creating(v, t, row)'
      <3>1. PICK t \in Trades, row \in TradeRecord : Creating(v, t, row)
        BY <1>3, <2>1 DEF WritersKnow, OneRow
      <3>2. Creating(v, t, row)'
        BY <1>1, <1>3, <2>1, <3>1 DEF Creating
      <3> QED
        BY <3>2
    <2>2. ASSUME op = "create"
          PROVE  \E t \in Trades, row \in TradeRecord : Creating(w, t, row)'
      BY <1>1, <1>2, <2>2 DEF Begins, Creating
    <2> QED
      BY <1>2, <2>1, <2>2 DEF OneRow
  <1>12. Funded'
    <2>1. ASSUME NEW v \in Writers, writing'[v].op = "create", writing'[v].phase \in Checked
          PROVE  /\ Lowered(v)' \subseteq writing'[v].locks
                 /\ writing'[v].met \subseteq {"create"}
                      => \A i \in Lowered(v)' : Balance(Seen(v), i)' >= 0
      <3>1. v # w
        BY <1>2, <2>1 DEF Checked
      <3>2. UnderWay(v) /\ writing'[v].met = writing[v].met \union {op}
        BY <1>3, <2>1, <3>1 DEF UnderWay
      <3>3. \A i \in Instruments : Balance(Seen(v), i)' = Balance(Seen(v), i)
        BY <1>1, <1>10, <3>1 DEF Balance
      <3> QED
        BY <1>3, <1>10, <2>1, <3>1, <3>2, <3>3 DEF WritersKnow, Funded, Lowered
    <2> QED
      BY <2>1 DEF Funded
  <1>13. Undisturbed'
    <2>1. ASSUME NEW v \in Writers, UnderWay(v)', writing'[v].met = {}
          PROVE  writing'[v].phase \notin {"listed", "asserted"}
      BY <1>2, <1>3, <1>7, <2>1
    <2> QED
      BY <2>1 DEF Undisturbed
  <1>14. RowsKeepUp'
    BY <1>1 DEF RowsKeepUp, BaseHeld, HistoryCovered, HoldingsCovered, Short, Uncovered,
       Negative, Balance
  <1> QED
    BY <1>8, <1>9, <1>11, <1>12, <1>13, <1>14 DEF WritersKnow
-----------------------------------------------------------------------------
(* Going on with a transaction *)

\* A step of w that keeps what it writes and whom it has met.
LEMMA AdvanceKeeps ==
    ASSUME TradesInv, NEW w \in Writers, UnderWay(w), NEW rec \in WriteRecord,
           rec.op = writing[w].op, rec.new = writing[w].new, rec.met = writing[w].met,
           UNCHANGED <<trade, base, excuse>>, writing' = [writing EXCEPT ![w] = rec],
           \A v \in Writers : v # w => rec.locks \intersect writing[v].locks = {},
           rec.phase = "listed" => rec.listed \in [Trades -> TradeRecord],
           rec.op = "create" /\ rec.phase \in Checked =>
             /\ Lowered(w) \subseteq rec.locks
             /\ rec.met \subseteq {"create"} => \A i \in Lowered(w) : Balance(Seen(w), i) >= 0,
           rec.met = {} =>
             /\ rec.phase = "listed" => rec.listed = Seen(w)
             /\ rec.phase = "asserted" => ~Short(base, Seen(w))
    PROVE  TradesInv'
  <1> USE DEF TradesInv
  <1>1. writing'[w] = rec /\ \A v \in Writers : v # w => writing'[v] = writing[v]
    BY DEF TradesTyped
  <1>2. \A v \in Writers :
          writing'[v].op = writing[v].op /\ writing'[v].new = writing[v].new
          /\ writing'[v].met = writing[v].met
    BY <1>1
  <1>3. \A v \in Writers : UnderWay(v)' <=> UnderWay(v)
    BY <1>2 DEF UnderWay
  <1>4. \A v \in Writers : Seen(v)' = Seen(v) /\ Lowered(v)' = Lowered(v)
    BY <1>2 DEF Seen, Applied, Lowered
  <1>5. \A v \in Writers : \A i \in Instruments : Balance(Seen(v), i)' = Balance(Seen(v), i)
    BY <1>4 DEF Balance
  <1>6. TradesTyped'
    <2>1. writing' \in [Writers -> WriteRecord]
      BY DEF TradesTyped
    <2> QED
      BY <1>1, <1>3, <2>1 DEF TradesTyped
  <1>7. Apart'
    BY <1>1, <1>2, <1>3 DEF WritersKnow, Apart
  <1>8. OneRow'
    <2>1. ASSUME NEW v \in Writers, writing'[v].op = "create"
          PROVE  \E t \in Trades, row \in TradeRecord : Creating(v, t, row)'
      <3>1. PICK t \in Trades, row \in TradeRecord : Creating(v, t, row)
        BY <1>2, <2>1 DEF WritersKnow, OneRow
      <3>2. Creating(v, t, row)'
        BY <1>2, <3>1 DEF Creating
      <3> QED
        BY <3>2
    <2> QED
      BY <2>1 DEF OneRow
  <1>9. Funded'
    <2>1. ASSUME NEW v \in Writers, writing'[v].op = "create", writing'[v].phase \in Checked
          PROVE  /\ Lowered(v)' \subseteq writing'[v].locks
                 /\ writing'[v].met \subseteq {"create"}
                      => \A i \in Lowered(v)' : Balance(Seen(v), i)' >= 0
      <3>1. CASE v = w
        BY <1>1, <1>4, <1>5, <2>1, <3>1 DEF Lowered
      <3>2. CASE v # w
        BY <1>1, <1>4, <1>5, <2>1, <3>2 DEF WritersKnow, Funded, Lowered
      <3> QED
        BY <3>1, <3>2
    <2> QED
      BY <2>1 DEF Funded
  <1>10. Undisturbed'
    <2>1. ASSUME NEW v \in Writers, UnderWay(v)', writing'[v].met = {}
          PROVE  /\ writing'[v].phase = "listed" => writing'[v].listed = Seen(v)'
                 /\ writing'[v].phase = "asserted" => ~Short(base, Seen(v))'
      <3>1. Short(base, Seen(v))' <=> Short(base, Seen(v))
        BY <1>4 DEF Short, Uncovered
      <3>2. CASE v = w
        BY <1>1, <1>4, <2>1, <3>1, <3>2
      <3>3. CASE v # w
        BY <1>1, <1>3, <1>4, <2>1, <3>1, <3>3 DEF WritersKnow, Undisturbed
      <3> QED
        BY <3>2, <3>3
    <2> QED
      BY <2>1 DEF Undisturbed
  <1>11. RowsKeepUp'
    BY DEF RowsKeepUp, BaseHeld, HistoryCovered, HoldingsCovered, Short, Uncovered,
       Negative, Balance
  <1> QED
    BY <1>6, <1>7, <1>8, <1>9, <1>10, <1>11 DEF WritersKnow

LEMMA PhaseUnderWay ==
    ASSUME TradesTyped, NEW w \in Writers, writing[w].phase # "idle"
    PROVE  UnderWay(w)
  BY NoWritingTyped DEF TradesTyped

LEMMA TakeLockKeeps ==
    ASSUME TradesInv, NEW w \in Writers, NEW i \in Instruments, TakeLock(w, i)
    PROVE  TradesInv'
  <1> DEFINE rec == [writing[w] EXCEPT !.locks = @ \union {i}]
  <1>1. /\ writing[w].phase = "locking" /\ UNCHANGED <<trade, base, excuse>>
        /\ \A v \in Writers : i \notin writing[v].locks
        /\ writing' = [writing EXCEPT ![w].locks = @ \union {i}]
    BY DEF TakeLock, Free
  <1>2. writing[w] \in WriteRecord /\ writing \in [Writers -> WriteRecord]
    BY DEF TradesInv, TradesTyped
  <1>3. writing' = [writing EXCEPT ![w] = rec]
    BY <1>1, <1>2
  <1>4. rec \in WriteRecord
    BY <1>2 DEF WriteRecord
  <1>5. /\ rec.op = writing[w].op /\ rec.new = writing[w].new /\ rec.met = writing[w].met
        /\ rec.phase = "locking" /\ rec.locks = writing[w].locks \union {i}
    BY <1>1, <1>2 DEF WriteRecord
  <1>6. UnderWay(w)
    BY <1>1, PhaseUnderWay DEF TradesInv
  <1>7. \A v \in Writers : v # w => rec.locks \intersect writing[v].locks = {}
    <2>1. \A v \in Writers : v # w => writing[w].locks \intersect writing[v].locks = {}
      BY DEF TradesInv, WritersKnow, Apart
    <2> QED
      BY <1>1, <1>5, <2>1
  <1> HIDE DEF rec
  <1> QED
    BY <1>1, <1>3, <1>4, <1>5, <1>6, <1>7, AdvanceKeeps DEF Checked

LEMMA InsertTradeKeeps ==
    ASSUME TradesInv, NEW w \in Writers, InsertTrade(w)
    PROVE  TradesInv'
  <1> DEFINE rec == [writing[w] EXCEPT !.phase = "written"]
  <1>1. /\ writing[w].phase = "locking" /\ UNCHANGED <<trade, base, excuse>>
        /\ Lowered(w) \subseteq writing[w].locks
        /\ \A i \in Lowered(w) : Balance(Seen(w), i) >= 0
        /\ writing' = [writing EXCEPT ![w].phase = "written"]
    BY DEF InsertTrade
  <1>2. writing[w] \in WriteRecord /\ writing \in [Writers -> WriteRecord]
    BY DEF TradesInv, TradesTyped
  <1>3. writing' = [writing EXCEPT ![w] = rec]
    BY <1>1, <1>2
  <1>4. rec \in WriteRecord
    BY <1>2 DEF WriteRecord
  <1>5. /\ rec.op = writing[w].op /\ rec.new = writing[w].new /\ rec.met = writing[w].met
        /\ rec.phase = "written" /\ rec.locks = writing[w].locks
    BY <1>1, <1>2 DEF WriteRecord
  <1>6. UnderWay(w)
    BY <1>1, PhaseUnderWay DEF TradesInv
  <1>7. \A v \in Writers : v # w => rec.locks \intersect writing[v].locks = {}
    BY <1>5 DEF TradesInv, WritersKnow, Apart
  <1> HIDE DEF rec
  <1> QED
    BY <1>1, <1>3, <1>4, <1>5, <1>6, <1>7, AdvanceKeeps

LEMMA ListTradesKeeps ==
    ASSUME TradesInv, NEW w \in Writers, ListTrades(w)
    PROVE  TradesInv'
  <1> DEFINE rec == [writing[w] EXCEPT !.phase = "listed", !.listed = Seen(w)]
  <1>1. /\ writing[w].phase = "written" /\ UNCHANGED <<trade, base, excuse>>
        /\ writing' = [writing EXCEPT ![w].phase = "listed", ![w].listed = Seen(w)]
    BY DEF ListTrades
  <1>2. writing[w] \in WriteRecord /\ writing \in [Writers -> WriteRecord]
        /\ Seen(w) \in [Trades -> TradeRecord]
    BY SeenTyped DEF TradesInv, TradesTyped
  <1>3. writing' = [writing EXCEPT ![w] = rec]
    BY <1>1, <1>2 DEF WriteRecord
  <1>4. rec \in WriteRecord
    BY <1>2 DEF WriteRecord
  <1>5. /\ rec.op = writing[w].op /\ rec.new = writing[w].new /\ rec.met = writing[w].met
        /\ rec.phase = "listed" /\ rec.locks = writing[w].locks /\ rec.listed = Seen(w)
    BY <1>1, <1>2 DEF WriteRecord
  <1>6. UnderWay(w)
    BY <1>1, PhaseUnderWay DEF TradesInv
  <1>7. \A v \in Writers : v # w => rec.locks \intersect writing[v].locks = {}
    BY <1>5 DEF TradesInv, WritersKnow, Apart
  <1>8. rec.op = "create" =>
          /\ Lowered(w) \subseteq rec.locks
          /\ rec.met \subseteq {"create"} => \A i \in Lowered(w) : Balance(Seen(w), i) >= 0
    BY <1>1, <1>5 DEF TradesInv, WritersKnow, Funded, Checked
  <1>9. rec.phase = "listed" => rec.listed \in [Trades -> TradeRecord]
    BY <1>2, <1>5
  <1>10. rec.met = {} =>
           /\ rec.phase = "listed" => rec.listed = Seen(w)
           /\ rec.phase = "asserted" => ~Short(base, Seen(w))
    BY <1>5
  <1> HIDE DEF rec
  <1> QED
    BY <1>1, <1>3, <1>4, <1>5, <1>6, <1>7, <1>8, <1>9, <1>10, AdvanceKeeps

\* Where nothing has changed since the list was read, the walk starts from base.
LEMMA StartIsBase ==
    ASSUME TradesTyped, NEW w \in Writers, writing[w].listed = Seen(w)
    PROVE  StartOf(w) = base
  <1>1. Seen(w) \in [Trades -> TradeRecord]
    BY SeenTyped
  <1>2. ASSUME NEW i \in Instruments PROVE StartOf(w)[i] = base[i]
    <2>1. StartOf(w)[i] = Balance(Seen(w), i) - Moved(Seen(w), LiveIn(Seen(w)), i)
      BY DEF StartOf
    <2>2. Moved(Seen(w), LiveIn(Seen(w)), i) \in Int /\ base[i] \in Int
      BY <1>1, LiveInTrades, MovedIsInt DEF TradesTyped
    <2> QED
      BY <2>1, <2>2 DEF Balance
  <1>3. StartOf(w) = [i \in Instruments |-> StartOf(w)[i]]
    BY DEF StartOf
  <1> HIDE DEF StartOf
  <1> QED
    BY <1>2, <1>3 DEF TradesTyped

LEMMA AssertCoveredKeeps ==
    ASSUME TradesInv, NEW w \in Writers, AssertCovered(w)
    PROVE  TradesInv'
  <1> DEFINE rec == [writing[w] EXCEPT !.phase = "asserted", !.listed = <<>>]
  <1>1. /\ writing[w].phase = "listed" /\ UNCHANGED <<trade, base, excuse>>
        /\ ~Short(StartOf(w), writing[w].listed)
        /\ writing' = [writing EXCEPT ![w].phase = "asserted", ![w].listed = <<>>]
    BY DEF AssertCovered, Covered
  <1>2. writing[w] \in WriteRecord /\ writing \in [Writers -> WriteRecord]
    BY DEF TradesInv, TradesTyped
  <1>3. writing' = [writing EXCEPT ![w] = rec]
    BY <1>1, <1>2 DEF WriteRecord
  <1>4. rec \in WriteRecord
    BY <1>2 DEF WriteRecord
  <1>5. /\ rec.op = writing[w].op /\ rec.new = writing[w].new /\ rec.met = writing[w].met
        /\ rec.phase = "asserted" /\ rec.locks = writing[w].locks
    BY <1>1, <1>2 DEF WriteRecord
  <1>6. UnderWay(w)
    BY <1>1, PhaseUnderWay DEF TradesInv
  <1>7. \A v \in Writers : v # w => rec.locks \intersect writing[v].locks = {}
    BY <1>5 DEF TradesInv, WritersKnow, Apart
  <1>8. rec.op = "create" =>
          /\ Lowered(w) \subseteq rec.locks
          /\ rec.met \subseteq {"create"} => \A i \in Lowered(w) : Balance(Seen(w), i) >= 0
    BY <1>1, <1>5 DEF TradesInv, WritersKnow, Funded, Checked
  <1>9. rec.met = {} => ~Short(base, Seen(w))
    <2>1. SUFFICES ASSUME writing[w].met = {} PROVE ~Short(base, Seen(w))
      BY <1>5
    <2>2. writing[w].listed = Seen(w)
      BY <1>1, <1>6, <2>1 DEF TradesInv, WritersKnow, Undisturbed
    <2>3. StartOf(w) = base
      BY <2>2, StartIsBase DEF TradesInv
    <2> QED
      BY <1>1, <2>2, <2>3
  <1> HIDE DEF rec
  <1> QED
    BY <1>1, <1>3, <1>4, <1>5, <1>6, <1>7, <1>8, <1>9, AdvanceKeeps
-----------------------------------------------------------------------------
(* Ending a transaction *)

LEMMA Ended ==
    ASSUME TradesInv, NEW w \in Writers, writing' = [writing EXCEPT ![w] = NoWriting]
    PROVE  /\ writing' \in [Writers -> WriteRecord]
           /\ writing'[w] = NoWriting /\ \A v \in Writers : v # w => writing'[v] = writing[v]
           /\ ~UnderWay(w)' /\ \A v \in Writers : v # w => (UnderWay(v)' <=> UnderWay(v))
           /\ \A v \in Writers :
                /\ ~UnderWay(v)' => writing'[v] = NoWriting
                /\ writing'[v].phase = "listed" => writing'[v].listed \in [Trades -> TradeRecord]
           /\ Apart'
  <1>1. writing' \in [Writers -> WriteRecord]
    BY NoWritingTyped DEF TradesInv, TradesTyped
  <1>2. writing'[w] = NoWriting /\ \A v \in Writers : v # w => writing'[v] = writing[v]
    BY DEF TradesInv, TradesTyped
  <1>3. ~UnderWay(w)' /\ \A v \in Writers : v # w => (UnderWay(v)' <=> UnderWay(v))
    BY <1>2, NoWritingTyped DEF UnderWay
  <1>4. \A v \in Writers :
          /\ ~UnderWay(v)' => writing'[v] = NoWriting
          /\ writing'[v].phase = "listed" => writing'[v].listed \in [Trades -> TradeRecord]
    BY <1>2, <1>3, NoWritingTyped DEF TradesInv, TradesTyped
  <1>5. DOMAIN writing'[w].new = {} /\ writing'[w].locks = {}
    BY <1>2, NoWritingTyped
  <1>6. Apart'
    <2>1. ASSUME NEW u \in Writers, NEW v \in Writers, u # v
          PROVE  /\ UnderWay(u)' /\ UnderWay(v)' => writing'[u].op \in writing'[v].met
                 /\ DOMAIN writing'[u].new \intersect DOMAIN writing'[v].new = {}
                 /\ writing'[u].locks \intersect writing'[v].locks = {}
      <3>1. CASE u = w \/ v = w
        BY <1>3, <1>5, <3>1
      <3>2. CASE u # w /\ v # w
        BY <1>2, <1>3, <2>1, <3>2 DEF TradesInv, WritersKnow, Apart
      <3> QED
        BY <3>1, <3>2
    <2> QED
      BY <2>1 DEF Apart
  <1> QED
    BY <1>1, <1>2, <1>3, <1>4, <1>6

LEMMA RollBackKeeps ==
    ASSUME TradesInv, NEW w \in Writers, RollBack(w)
    PROVE  TradesInv'
  <1>1. writing' = [writing EXCEPT ![w] = NoWriting] /\ UNCHANGED <<trade, base, excuse>>
    BY DEF RollBack
  <1>2. /\ writing' \in [Writers -> WriteRecord]
        /\ writing'[w] = NoWriting /\ \A v \in Writers : v # w => writing'[v] = writing[v]
        /\ ~UnderWay(w)' /\ \A v \in Writers : v # w => (UnderWay(v)' <=> UnderWay(v))
        /\ \A v \in Writers :
             /\ ~UnderWay(v)' => writing'[v] = NoWriting
             /\ writing'[v].phase = "listed" => writing'[v].listed \in [Trades -> TradeRecord]
        /\ Apart'
    BY <1>1, Ended
  <1>3. TradesTyped'
    BY <1>1, <1>2 DEF TradesInv, TradesTyped
  <1>4. \A v \in Writers : v # w => Seen(v)' = Seen(v) /\ Lowered(v)' = Lowered(v)
    BY <1>1, <1>2 DEF Seen, Applied, Lowered
  <1>5. writing'[w].op = "none"
    BY <1>2, NoWritingTyped
  <1>6. OneRow'
    <2>1. ASSUME NEW v \in Writers, writing'[v].op = "create"
          PROVE  \E t \in Trades, row \in TradeRecord : Creating(v, t, row)'
      <3>1. v # w
        BY <1>5, <2>1
      <3>2. PICK t \in Trades, row \in TradeRecord : Creating(v, t, row)
        BY <1>2, <2>1, <3>1 DEF TradesInv, WritersKnow, OneRow
      <3>3. Creating(v, t, row)'
        BY <1>1, <1>2, <3>1, <3>2 DEF Creating
      <3> QED
        BY <3>3
    <2> QED
      BY <2>1 DEF OneRow
  <1>7. Funded'
    <2>1. ASSUME NEW v \in Writers, writing'[v].op = "create", writing'[v].phase \in Checked
          PROVE  /\ Lowered(v)' \subseteq writing'[v].locks
                 /\ writing'[v].met \subseteq {"create"}
                      => \A i \in Lowered(v)' : Balance(Seen(v), i)' >= 0
      <3>1. v # w
        BY <1>5, <2>1
      <3>2. \A i \in Instruments : Balance(Seen(v), i)' = Balance(Seen(v), i)
        BY <1>1, <1>4, <3>1 DEF Balance
      <3> QED
        BY <1>2, <1>4, <2>1, <3>1, <3>2 DEF TradesInv, WritersKnow, Funded, Lowered
    <2> QED
      BY <2>1 DEF Funded
  <1>8. Undisturbed'
    <2>1. ASSUME NEW v \in Writers, UnderWay(v)', writing'[v].met = {}
          PROVE  /\ writing'[v].phase = "listed" => writing'[v].listed = Seen(v)'
                 /\ writing'[v].phase = "asserted" => ~Short(base, Seen(v))'
      <3>1. v # w
        BY <1>2, <2>1
      <3>2. Short(base, Seen(v))' <=> Short(base, Seen(v))
        BY <1>1, <1>4, <3>1 DEF Short, Uncovered
      <3> QED
        BY <1>2, <1>4, <2>1, <3>1, <3>2 DEF TradesInv, WritersKnow, Undisturbed
    <2> QED
      BY <2>1 DEF Undisturbed
  <1>9. RowsKeepUp'
    BY <1>1 DEF TradesInv, RowsKeepUp, BaseHeld, HistoryCovered, HoldingsCovered, Short,
       Uncovered, Negative, Balance
  <1> QED
    BY <1>2, <1>3, <1>6, <1>7, <1>8, <1>9 DEF TradesInv, WritersKnow

\* What a creation brings is seen once it has committed, by itself and by the others.
LEMMA CreationMoves ==
    ASSUME TradesInv, NEW w \in Writers, NEW t \in Trades, NEW row \in TradeRecord,
           Creating(w, t, row), NEW i \in Instruments
    PROVE  /\ row.change[i] \in Int
           /\ i \notin Lowered(w) => row.change[i] >= 0
           /\ Moved(Seen(w), LiveIn(Seen(w)), i)
                = Moved(trade, LiveIn(trade), i) + row.change[i]
  <1>1. DOMAIN writing[w].new = {t} /\ writing[w].new[t] = row
    BY DEF Creating
  <1>2. row.change[i] \in Int
    BY DEF TradeRecord
  <1>3. i \notin Lowered(w) => row.change[i] >= 0
    BY <1>1, <1>2 DEF Lowered
  <1>4. Seen(w) \in [Trades -> TradeRecord] /\ trade \in [Trades -> TradeRecord]
    BY SeenTyped DEF TradesInv, TradesTyped
  <1>5. Seen(w)[t] = row /\ \A s \in Trades : s # t => Seen(w)[s] = trade[s]
    BY <1>1 DEF Seen, Applied
  <1>6. trade[t].life = "none" /\ Seen(w)[t].life = "live"
    BY <1>5 DEF Creating
  <1>7. Moved(Seen(w), LiveIn(Seen(w)), i)
          = Moved(trade, LiveIn(trade), i) + Seen(w)[t].change[i]
    BY <1>4, <1>5, <1>6, MovedByNew
  <1> QED
    BY <1>2, <1>3, <1>5, <1>7

LEMMA CommitKeeps ==
    ASSUME TradesInv, NEW w \in Writers, UnderWay(w),
           NEW why \in SUBSET {"acknowledged", "later"}, CommitTrades(w, why),
           writing[w].op = "create" => writing[w].phase \in Checked,
           writing[w].met = {} /\ why = {} => ~Short(base, Seen(w))
    PROVE  TradesInv'
  <1>1. /\ writing' = [writing EXCEPT ![w] = NoWriting]
        /\ trade' = Seen(w) /\ base' = base
        /\ excuse' = excuse \union Beside(w) \union why
    BY DEF CommitTrades
  <1>2. /\ writing' \in [Writers -> WriteRecord]
        /\ writing'[w] = NoWriting /\ \A v \in Writers : v # w => writing'[v] = writing[v]
        /\ ~UnderWay(w)' /\ \A v \in Writers : v # w => (UnderWay(v)' <=> UnderWay(v))
        /\ \A v \in Writers :
             /\ ~UnderWay(v)' => writing'[v] = NoWriting
             /\ writing'[v].phase = "listed" => writing'[v].listed \in [Trades -> TradeRecord]
        /\ Apart'
    BY <1>1, Ended
  <1>0. \A v \in Writers : Seen(v) \in [Trades -> TradeRecord]
    BY SeenTyped DEF TradesInv
  <1>3. TradesTyped'
    <2>1. trade' \in [Trades -> TradeRecord]
      BY <1>0, <1>1
    <2>2. excuse' \subseteq {"overlap", "unlocked", "acknowledged", "later", "lowered", "spent"}
      BY <1>1 DEF Beside, TradesInv, TradesTyped
    <2> QED
      BY <1>1, <1>2, <2>1, <2>2 DEF TradesInv, TradesTyped
  <1>4. ASSUME NEW v \in Writers, v # w, UnderWay(v) PROVE writing[w].op \in writing[v].met
    BY <1>4 DEF TradesInv, WritersKnow, Apart
  <1>5. writing'[w].op = "none"
    BY <1>2, NoWritingTyped
  <1>6. \A v \in Writers : v # w =>
          \A t \in DOMAIN writing[v].new \intersect Trades : trade'[t] = trade[t]
    <2>1. \A v \in Writers : v # w =>
            DOMAIN writing[v].new \intersect DOMAIN writing[w].new = {}
      BY DEF TradesInv, WritersKnow, Apart
    <2> QED
      BY <1>1, <2>1 DEF Seen, Applied
  <1>7. OneRow'
    <2>1. ASSUME NEW v \in Writers, writing'[v].op = "create"
          PROVE  \E t \in Trades, row \in TradeRecord : Creating(v, t, row)'
      <3>1. v # w
        BY <1>5, <2>1
      <3>2. PICK t \in Trades, row \in TradeRecord : Creating(v, t, row)
        BY <1>2, <2>1, <3>1 DEF TradesInv, WritersKnow, OneRow
      <3>3. t \in DOMAIN writing[v].new
        BY <3>2 DEF Creating
      <3>4. Creating(v, t, row)'
        BY <1>2, <1>6, <3>1, <3>2, <3>3 DEF Creating
      <3> QED
        BY <3>4
    <2> QED
      BY <2>1 DEF OneRow
  <1>8. Funded'
    <2>1. ASSUME NEW v \in Writers, writing'[v].op = "create", writing'[v].phase \in Checked
          PROVE  /\ Lowered(v)' \subseteq writing'[v].locks
                 /\ writing'[v].met \subseteq {"create"}
                      => \A i \in Lowered(v)' : Balance(Seen(v), i)' >= 0
      <3>1. v # w /\ writing'[v] = writing[v]
        BY <1>2, <1>5, <2>1
      <3>2. Lowered(v)' = Lowered(v) /\ Lowered(v) \subseteq writing[v].locks
        BY <2>1, <3>1 DEF Lowered, TradesInv, WritersKnow, Funded
      <3>3. ASSUME writing[v].met \subseteq {"create"}, NEW i \in Lowered(v)
            PROVE  Balance(Seen(v), i)' >= 0
        <4>1. i \in Instruments /\ base[i] \in Int
          BY DEF Lowered, TradesInv, TradesTyped
        <4>2. Balance(Seen(v), i) >= 0
          BY <2>1, <3>1, <3>3 DEF TradesInv, WritersKnow, Funded
        <4>3. writing[w].op = "create"
          BY <1>4, <2>1, <3>1, <3>3 DEF UnderWay
        <4>4. Lowered(w) \subseteq writing[w].locks
          BY <4>3 DEF TradesInv, WritersKnow, Funded
        <4>5. i \notin Lowered(w)
          <5>1. writing[v].locks \intersect writing[w].locks = {}
            BY <3>1 DEF TradesInv, WritersKnow, Apart
          <5> QED
            BY <3>2, <4>4, <5>1
        <4>6. PICK t \in Trades, row \in TradeRecord : Creating(w, t, row)
          BY <4>3 DEF TradesInv, WritersKnow, OneRow
        <4>7. row.change[i] \in Int /\ row.change[i] >= 0
          BY <4>1, <4>5, <4>6, CreationMoves
        <4> DEFINE rows == Seen(v)
                   next == [s \in Trades |-> IF s \in DOMAIN writing[v].new THEN writing[v].new[s]
                                             ELSE Seen(w)[s]]
        <4>8. Seen(v)' = next
          BY <1>1, <3>1 DEF Seen, Applied
        <4>9. rows \in [Trades -> TradeRecord] /\ next \in [Trades -> TradeRecord]
          <5>1. rows \in [Trades -> TradeRecord] /\ Seen(w) \in [Trades -> TradeRecord]
            BY <1>0 DEF rows
          <5>2. PICK ids \in SUBSET Trades : writing[v].new \in [ids -> TradeRecord]
            <6>1. writing[v] \in WriteRecord
              BY DEF TradesInv, TradesTyped
            <6>2. writing[v].new \in NewRows
              BY <6>1 DEF WriteRecord
            <6> QED
              BY <6>2 DEF NewRows
          <5> QED
            BY <5>1, <5>2
        <4>10. DOMAIN writing[w].new = {t} /\ writing[w].new[t] = row
          BY <4>6 DEF Creating
        <4>11. t \notin DOMAIN writing[v].new
          BY <3>1, <4>10 DEF TradesInv, WritersKnow, Apart
        <4>12. rows[t].life = "none" /\ next[t] = row /\ row.life = "live"
          BY <4>6, <4>10, <4>11 DEF Seen, Applied, Creating
        <4>13. \A s \in Trades : s # t => next[s] = rows[s]
          BY <4>10 DEF Seen, Applied
        <4> HIDE DEF rows, next
        <4>14. Moved(next, LiveIn(next), i) = Moved(rows, LiveIn(rows), i) + next[t].change[i]
          BY <4>1, <4>9, <4>12, <4>13, MovedByNew
        <4>15. Moved(rows, LiveIn(rows), i) \in Int
          BY <4>1, <4>9, LiveInTrades, MovedIsInt
        <4>16. base[i] + Moved(next, LiveIn(next), i) >= 0
          BY <4>1, <4>2, <4>7, <4>12, <4>14, <4>15 DEF Balance, rows
        <4>17. Balance(Seen(v), i)' = base[i] + Moved(next, LiveIn(next), i)
          BY <1>1, <4>8 DEF Balance
        <4> QED
          BY <4>16, <4>17
      <3> QED
        BY <3>1, <3>2, <3>3
    <2> QED
      BY <2>1 DEF Funded
  <1>9. Undisturbed'
    <2>1. ASSUME NEW v \in Writers, UnderWay(v)' PROVE writing'[v].met # {}
      BY <1>2, <1>4, <2>1
    <2> QED
      BY <2>1 DEF Undisturbed
  <1>10. BaseHeld'
    BY <1>1 DEF TradesInv, RowsKeepUp, BaseHeld
  <1>11. HistoryCovered'
    <2>1. SUFFICES ASSUME excuse' \subseteq {"spent"} PROVE ~Short(base', trade')
      BY <1>1 DEF HistoryCovered, Short, Uncovered
    <2>2. writing[w].met = {}
      BY <1>1, <2>1 DEF Beside
    <2>3. why = {}
      BY <1>1, <2>1
    <2> QED
      BY <1>1, <2>2, <2>3
  <1>12. HoldingsCovered'
    <2>1. SUFFICES ASSUME excuse' \subseteq {"overlap"}, NEW i \in Instruments
                   PROVE  base[i] + Moved(Seen(w), LiveIn(Seen(w)), i) >= 0
      <3>1. \A i \in Instruments :
              base[i] \in Int /\ Moved(Seen(w), LiveIn(Seen(w)), i) \in Int
        BY SeenTyped, LiveInTrades, MovedIsInt DEF TradesInv, TradesTyped
      <3> QED
        BY <1>1, <3>1 DEF HoldingsCovered, Negative, Balance
    <2>2. excuse \subseteq {"overlap"} /\ why = {} /\ "unlocked" \notin Beside(w)
      BY <1>1, <2>1
    <2>3. /\ writing[w].met \subseteq {"create"}
          /\ writing[w].op # "create" => writing[w].met = {}
      BY <2>2 DEF Beside
    <2>4. base[i] \in Int /\ base[i] >= 0 /\ ~Negative(trade)
      BY <2>2 DEF TradesInv, TradesTyped, RowsKeepUp, BaseHeld, HoldingsCovered
    <2>5. CASE writing[w].op # "create"
      <3>1. ~Short(base, Seen(w))
        BY <2>2, <2>3, <2>5
      <3> QED
        BY <2>4, <3>1, SeenTyped, CoveredInTheEndToo DEF TradesInv, TradesTyped
    <2>6. CASE writing[w].op = "create"
      <3>1. PICK t \in Trades, row \in TradeRecord : Creating(w, t, row)
        BY <2>6 DEF TradesInv, WritersKnow, OneRow
      <3>2. CASE i \in Lowered(w)
        BY <2>3, <2>6, <3>2 DEF TradesInv, WritersKnow, Funded, Balance
      <3>3. CASE i \notin Lowered(w)
        <4>1. /\ row.change[i] \in Int /\ row.change[i] >= 0
              /\ Moved(Seen(w), LiveIn(Seen(w)), i)
                   = Moved(trade, LiveIn(trade), i) + row.change[i]
          BY <3>1, <3>3, CreationMoves
        <4>2. Moved(trade, LiveIn(trade), i) \in Int
          BY LiveInTrades, MovedIsInt DEF TradesInv, TradesTyped
        <4>3. base[i] + Moved(trade, LiveIn(trade), i) >= 0
          BY <2>4, <4>2 DEF Negative, Balance
        <4> QED
          BY <2>4, <4>1, <4>2, <4>3
      <3> QED
        BY <3>2, <3>3
    <2> QED
      BY <2>5, <2>6
  <1> QED
    BY <1>2, <1>3, <1>7, <1>8, <1>9, <1>10, <1>11, <1>12
       DEF TradesInv, WritersKnow, RowsKeepUp
\* createTrade(), updateTrade(), removeTrade() and rollback() commit what they
\* have asserted.
LEMMA CommitWriteKeeps ==
    ASSUME TradesInv, NEW w \in Writers, CommitWrite(w)
    PROVE  TradesInv'
  <1>1. writing[w].phase = "asserted" /\ CommitTrades(w, {})
    BY DEF CommitWrite
  <1>2. UnderWay(w)
    BY <1>1, PhaseUnderWay DEF TradesInv
  <1>3. writing[w].op = "create" => writing[w].phase \in Checked
    BY <1>1 DEF Checked
  <1>4. writing[w].met = {} => ~Short(base, Seen(w))
    BY <1>1, <1>2 DEF TradesInv, WritersKnow, Undisturbed
  <1> QED
    BY <1>1, <1>2, <1>3, <1>4, CommitKeeps

\* confirm() commits whatever the history has become, and says why.
LEMMA ConfirmImportKeeps ==
    ASSUME TradesInv, NEW w \in Writers, ConfirmImport(w)
    PROVE  TradesInv'
  <1> DEFINE why == IF writing[w].warned THEN {"acknowledged"}
                    ELSE IF Short(base, Seen(w)) THEN {"later"} ELSE {}
  <1>1. writing[w].op = "import" /\ CommitTrades(w, why)
    BY DEF ConfirmImport
  <1>2. UnderWay(w)
    BY <1>1 DEF UnderWay
  <1>3. why \in SUBSET {"acknowledged", "later"}
    OBVIOUS
  <1>4. why = {} => ~Short(base, Seen(w))
    OBVIOUS
  <1> HIDE DEF why
  <1> QED
    BY <1>1, <1>2, <1>3, <1>4, CommitKeeps

-----------------------------------------------------------------------------
(* The other endpoints *)

LEMMA MoveBaseKeeps ==
    ASSUME TradesInv, NEW i \in Instruments, NEW by \in {-1, 1}, MoveBase(i, by)
    PROVE  TradesInv'
  <1> DEFINE moved == [base EXCEPT ![i] = @ + by]
  <1>1. /\ base' = moved /\ trade' = trade
        /\ excuse' = excuse
             \union (IF by < 0 /\ (moved[i] + Moved(trade, LiveIn(trade), i) < 0
                                   \/ Short(moved, trade))
                     THEN {"lowered"} ELSE {})
             \union (IF moved[i] < 0 THEN {"spent"} ELSE {})
        /\ writing' = [v \in Writers |-> IF writing[v].op = "none" THEN writing[v]
                                         ELSE Met(v, "other")]
    BY DEF MoveBase
  <1>2. /\ base \in [Instruments -> Int] /\ moved \in [Instruments -> Int]
        /\ trade \in [Trades -> TradeRecord]
        /\ moved[i] = base[i] + by /\ \A j \in Instruments : j # i => moved[j] = base[j]
    BY DEF TradesInv, TradesTyped
  <1> HIDE DEF moved
  <1>3. ASSUME NEW v \in Writers
        PROVE  /\ writing'[v].op = writing[v].op /\ writing'[v].new = writing[v].new
               /\ writing'[v].phase = writing[v].phase /\ writing'[v].locks = writing[v].locks
               /\ writing'[v].listed = writing[v].listed
               /\ UnderWay(v) => writing'[v].met = writing[v].met \union {"other"}
               /\ ~UnderWay(v) => writing'[v] = writing[v]
               /\ writing'[v] \in WriteRecord
    <2>1. CASE UnderWay(v)
      <3>1. writing'[v] = Met(v, "other")
        BY <1>1, <2>1 DEF UnderWay
      <3>2. TradesTyped
        BY DEF TradesInv
      <3> QED
        BY <2>1, <3>1, <3>2, MetTyped
    <2>2. CASE ~UnderWay(v)
      <3>1. writing'[v] = writing[v]
        BY <1>1, <2>2 DEF UnderWay
      <3> QED
        BY <2>2, <3>1 DEF TradesInv, TradesTyped
    <2> QED
      BY <2>1, <2>2
  <1>4. \A v \in Writers : UnderWay(v)' <=> UnderWay(v)
    BY <1>3 DEF UnderWay
  <1>5. \A v \in Writers : Seen(v)' = Seen(v) /\ Lowered(v)' = Lowered(v)
    BY <1>1, <1>3 DEF Seen, Applied, Lowered
  <1>6. TradesTyped'
    <2>1. writing' \in [Writers -> WriteRecord]
      <3>1. writing' = [v \in Writers |-> writing'[v]]
        BY <1>1
      <3> QED
        BY <1>3, <3>1
    <2>2. \A v \in Writers :
            /\ ~UnderWay(v)' => writing'[v] = NoWriting
            /\ writing'[v].phase = "listed" => writing'[v].listed \in [Trades -> TradeRecord]
      BY <1>3, <1>4 DEF TradesInv, TradesTyped
    <2>3. excuse' \subseteq {"overlap", "unlocked", "acknowledged", "later", "lowered", "spent"}
      BY <1>1 DEF TradesInv, TradesTyped
    <2> QED
      BY <1>1, <1>2, <2>1, <2>2, <2>3 DEF TradesTyped
  <1>7. Apart'
    BY <1>3, <1>4 DEF TradesInv, WritersKnow, Apart
  <1>8. OneRow'
    <2>1. ASSUME NEW v \in Writers, writing'[v].op = "create"
          PROVE  \E t \in Trades, row \in TradeRecord : Creating(v, t, row)'
      <3>1. PICK t \in Trades, row \in TradeRecord : Creating(v, t, row)
        BY <1>3, <2>1 DEF TradesInv, WritersKnow, OneRow
      <3>2. Creating(v, t, row)'
        BY <1>1, <1>3, <3>1 DEF Creating
      <3> QED
        BY <3>2
    <2> QED
      BY <2>1 DEF OneRow
  <1>9. \A v \in Writers : UnderWay(v) => "other" \in writing'[v].met
    BY <1>3
  <1>10. Funded'
    <2>1. ASSUME NEW v \in Writers, writing'[v].op = "create", writing'[v].phase \in Checked
          PROVE  /\ Lowered(v)' \subseteq writing'[v].locks
                 /\ ~(writing'[v].met \subseteq {"create"})
      <3>1. Lowered(v) \subseteq writing[v].locks
        BY <1>3, <2>1 DEF TradesInv, WritersKnow, Funded
      <3>2. "other" \in writing'[v].met
        BY <1>3, <1>9, <2>1 DEF UnderWay
      <3> QED
        BY <1>3, <1>5, <3>1, <3>2
    <2> QED
      BY <2>1 DEF Funded
  <1>11. Undisturbed'
    BY <1>4, <1>9 DEF Undisturbed
  <1>12. BaseHeld'
    <2>1. SUFFICES ASSUME "spent" \notin excuse', NEW j \in Instruments PROVE moved[j] >= 0
      BY <1>1 DEF BaseHeld
    <2>2. "spent" \notin excuse /\ ~(moved[i] < 0)
      BY <1>1, <2>1
    <2>3. base[j] >= 0 /\ moved[j] \in Int
      BY <1>2, <2>2 DEF TradesInv, RowsKeepUp, BaseHeld
    <2> QED
      BY <1>2, <2>2, <2>3
  <1>13. HistoryCovered'
    <2>1. SUFFICES ASSUME excuse' \subseteq {"spent"}, Short(moved, trade) PROVE FALSE
      BY <1>1 DEF HistoryCovered, Short, Uncovered
    <2>2. ~Short(base, trade)
      BY <1>1, <2>1 DEF TradesInv, RowsKeepUp, HistoryCovered
    <2>3. by = 1
      BY <1>1, <2>1
    <2>4. \A j \in Instruments : base[j] <= moved[j]
      BY <1>2, <2>3
    <2> QED
      BY <1>2, <2>1, <2>2, <2>4, ShortFromMore
  <1>14. HoldingsCovered'
    <2>1. SUFFICES ASSUME excuse' \subseteq {"overlap"}, NEW j \in Instruments
                   PROVE  moved[j] + Moved(trade, LiveIn(trade), j) >= 0
      <3>1. \A j \in Instruments : moved[j] \in Int /\ Moved(trade, LiveIn(trade), j) \in Int
        BY <1>2, LiveInTrades, MovedIsInt
      <3> QED
        BY <1>1, <3>1 DEF HoldingsCovered, Negative, Balance
    <2>2. base[j] \in Int /\ moved[j] \in Int /\ Moved(trade, LiveIn(trade), j) \in Int
      BY <1>2, LiveInTrades, MovedIsInt
    <2>3. base[j] + Moved(trade, LiveIn(trade), j) >= 0
      <3>1. excuse \subseteq {"overlap"}
        BY <1>1, <2>1
      <3>2. ~(Balance(trade, j) < 0)
        BY <3>1 DEF TradesInv, RowsKeepUp, HoldingsCovered, Negative
      <3> QED
        BY <2>2, <3>2 DEF Balance
    <2>4. CASE j # i
      BY <1>2, <2>3, <2>4
    <2>5. CASE j = i /\ by = 1
      BY <1>2, <2>2, <2>3, <2>5
    <2>6. CASE j = i /\ by = -1
      <3>1. ~(moved[i] + Moved(trade, LiveIn(trade), i) < 0)
        BY <1>1, <2>1, <2>6
      <3> QED
        BY <2>2, <2>6, <3>1
    <2> QED
      BY <2>4, <2>5, <2>6
  <1> QED
    BY <1>6, <1>7, <1>8, <1>10, <1>11, <1>12, <1>13, <1>14
       DEF TradesInv, WritersKnow, RowsKeepUp

-----------------------------------------------------------------------------
(* Every step *)

\* The request handlers that begin a transaction.
LEMMA HandlersBegin ==
    ASSUME TradesInv, NEW w \in Writers
    PROVE  /\ \A t \in Trades, draft \in Drafts :
                CreateTrade(w, t, draft) => \E op, new : Begins(w, op, new)
           /\ \A t \in Trades, draft \in Drafts :
                UpdateTrade(w, t, draft) => \E op, new : Begins(w, op, new)
           /\ \A t \in Trades : RemoveTrade(w, t) => \E op, new : Begins(w, op, new)
           /\ RollBackBatch(w) => \E op, new : Begins(w, op, new)
           /\ \A ids \in SUBSET Trades : \A rows \in [ids -> Drafts] :
                PrepareImport(w, rows) => \E op, new : Begins(w, op, new)
  <1>1. ASSUME NEW t \in Trades, NEW row \in TradeRecord PROVE [s \in {t} |-> row] \in NewRows
    <2>1. [s \in {t} |-> row] \in [{t} -> TradeRecord] /\ {t} \in SUBSET Trades
      OBVIOUS
    <2> QED
      BY <2>1 DEF NewRows
  <1>2. ASSUME NEW t \in Trades, NEW draft \in Drafts, CreateTrade(w, t, draft)
        PROVE  Begins(w, "create", [s \in {t} |-> TradeRow(draft, FALSE)])
    <2>1. TradeRow(draft, FALSE) \in TradeRecord /\ TradeRow(draft, FALSE).life = "live"
      BY TradeRowTyped
    <2>2. [s \in {t} |-> TradeRow(draft, FALSE)] \in NewRows
      BY <1>1, <2>1
    <2> QED
      BY <1>2, <2>1, <2>2 DEF CreateTrade, Begins, TradeOp
  <1>3. ASSUME NEW t \in Trades, NEW draft \in Drafts, UpdateTrade(w, t, draft)
        PROVE  Begins(w, "update", [s \in {t} |-> TradeRow(draft, FALSE)])
    <2>1. [s \in {t} |-> TradeRow(draft, FALSE)] \in NewRows
      BY <1>1, TradeRowTyped
    <2> QED
      BY <1>3, <2>1 DEF UpdateTrade, Begins, TradeOp
  <1>4. ASSUME NEW t \in Trades, RemoveTrade(w, t)
        PROVE  Begins(w, "remove", [s \in {t} |-> NoTrade])
    <2>1. [s \in {t} |-> NoTrade] \in NewRows
      BY <1>1, NoTradeTyped
    <2> QED
      BY <1>4, <2>1 DEF RemoveTrade, Begins, TradeOp
  <1>5. ASSUME RollBackBatch(w)
        PROVE  \E new : Begins(w, "rollback", new)
    <2> DEFINE batch == {t \in LiveIn(trade) : trade[t].imported}
    <2>1. BeginWrite(w, "rollback", [t \in batch |-> NoTrade])
      BY <1>5 DEF RollBackBatch
    <2>2. batch \in SUBSET Trades
      BY DEF LiveIn, TradesInv, TradesTyped
    <2> HIDE DEF batch
    <2>3. [t \in batch |-> NoTrade] \in NewRows
      BY <2>2, NoTradeTyped DEF NewRows
    <2>4. Begins(w, "rollback", [t \in batch |-> NoTrade])
      BY <2>1, <2>3 DEF Begins, TradeOp
    <2> QED
      BY <2>4
  <1>6. ASSUME NEW ids \in SUBSET Trades, NEW rows \in [ids -> Drafts], PrepareImport(w, rows)
        PROVE  Begins(w, "import", [t \in DOMAIN rows |-> TradeRow(rows[t], TRUE)])
    <2>1. \A t \in ids : TradeRow(rows[t], TRUE) \in TradeRecord
      BY TradeRowTyped
    <2>2. [t \in DOMAIN rows |-> TradeRow(rows[t], TRUE)] \in NewRows
      <3>1. DOMAIN rows = ids
        OBVIOUS
      <3>2. [t \in ids |-> TradeRow(rows[t], TRUE)] \in [ids -> TradeRecord]
        BY <2>1
      <3> QED
        BY <3>1, <3>2 DEF NewRows
    <2> QED
      BY <1>6, <2>2 DEF PrepareImport, Begins, TradeOp
  <1> QED
    BY <1>2, <1>3, <1>4, <1>5, <1>6

LEMMA TradesInvStep == TradesInv /\ [TradesNext]_tradeVars => TradesInv'
  <1> SUFFICES ASSUME TradesInv, [TradesNext]_tradeVars PROVE TradesInv'
    OBVIOUS
  <1>1. ASSUME NEW w \in Writers, \E op, new : Begins(w, op, new) PROVE TradesInv'
    BY <1>1, BeginKeeps
  <1>2. CASE \E w \in Writers, t \in Trades, draft \in Drafts : CreateTrade(w, t, draft)
    BY <1>1, <1>2, HandlersBegin
  <1>3. CASE \E w \in Writers, i \in Instruments : TakeLock(w, i)
    BY <1>3, TakeLockKeeps
  <1>4. CASE \E w \in Writers : InsertTrade(w)
    BY <1>4, InsertTradeKeeps
  <1>5. CASE \E w \in Writers, t \in Trades, draft \in Drafts : UpdateTrade(w, t, draft)
    BY <1>1, <1>5, HandlersBegin
  <1>6. CASE \E w \in Writers, t \in Trades : RemoveTrade(w, t)
    BY <1>1, <1>6, HandlersBegin
  <1>7. CASE \E w \in Writers : RollBackBatch(w)
    BY <1>1, <1>7, HandlersBegin
  <1>8. CASE \E w \in Writers : ListTrades(w)
    BY <1>8, ListTradesKeeps
  <1>9. CASE \E w \in Writers : AssertCovered(w)
    BY <1>9, AssertCoveredKeeps
  <1>10. CASE \E w \in Writers : CommitWrite(w)
    BY <1>10, CommitWriteKeeps
  <1>11. CASE \E w \in Writers, ids \in SUBSET Trades :
                \E rows \in [ids -> Drafts] : PrepareImport(w, rows)
    BY <1>1, <1>11, HandlersBegin
  <1>12. CASE \E w \in Writers : ConfirmImport(w)
    BY <1>12, ConfirmImportKeeps
  <1>13. CASE \E w \in Writers : RollBack(w)
    BY <1>13, RollBackKeeps
  <1>14. CASE \E i \in Instruments, by \in {-1, 1} : MoveBase(i, by)
    <2>1. PICK i \in Instruments, by \in {-1, 1} : MoveBase(i, by)
      BY <1>14
    <2> QED
      BY <2>1, MoveBaseKeeps
  <1>15. CASE UNCHANGED tradeVars
    <2>1. trade' = trade /\ base' = base /\ writing' = writing /\ excuse' = excuse
      BY <1>15 DEF tradeVars
    <2>2. TradesTyped'
      BY <2>1 DEF TradesInv, TradesTyped, UnderWay
    <2>3. Apart' /\ OneRow'
      BY <2>1 DEF TradesInv, WritersKnow, Apart, OneRow, Creating, UnderWay
    <2>4. Funded'
      BY <2>1 DEF TradesInv, WritersKnow, Funded, Lowered, Seen, Applied, Balance
    <2>5. Undisturbed'
      BY <2>1 DEF TradesInv, WritersKnow, Undisturbed, UnderWay, Seen, Applied, Short,
         Uncovered
    <2>6. RowsKeepUp'
      BY <2>1 DEF TradesInv, RowsKeepUp, BaseHeld, HistoryCovered, HoldingsCovered, Short,
         Uncovered, Negative, Balance
    <2> QED
      BY <2>2, <2>3, <2>4, <2>5, <2>6 DEF TradesInv, WritersKnow
  <1> QED
    BY <1>2, <1>3, <1>4, <1>5, <1>6, <1>7, <1>8, <1>9, <1>10, <1>11, <1>12, <1>13, <1>14, <1>15
       DEF TradesNext

THEOREM TradesInvariant == TradesSpec => []TradesInv
  BY TradesInvInit, TradesInvStep, PTL DEF TradesSpec

\* Every variable has its type.
THEOREM TradesTypesHold == TradesSpec => []TradesTypeOK
  <1>1. TradesInv => TradesTypeOK
    <2> SUFFICES ASSUME TradesTyped PROVE TradesTypeOK
      BY DEF TradesInv
    <2>1. ASSUME NEW w \in Writers
          PROVE  /\ writing[w].op \in {"none", "create", "update", "remove", "rollback", "import"}
                 /\ writing[w].phase \in {"idle", "locking", "written", "listed", "asserted"}
                 /\ DOMAIN writing[w].new \subseteq Trades
                 /\ \A t \in DOMAIN writing[w].new : writing[w].new[t] \in TradeRecord
                 /\ writing[w].locks \subseteq Instruments
      <3>1. writing[w] \in WriteRecord
        BY DEF TradesTyped
      <3>2. PICK ids \in SUBSET Trades : writing[w].new \in [ids -> TradeRecord]
        BY <3>1 DEF WriteRecord, NewRows
      <3>3. DOMAIN writing[w].new = ids /\ \A t \in ids : writing[w].new[t] \in TradeRecord
        BY <3>2
      <3> QED
        BY <3>1, <3>3 DEF WriteRecord, TradeOp
    <2>2. \A w \in Writers :
            writing[w].phase = "listed" => writing[w].listed \in [Trades -> TradeRecord]
      BY DEF TradesTyped
    <2> QED
      BY <2>1, <2>2 DEF TradesTypeOK, TradesTyped, TradeRecord
  <1> QED
    BY <1>1, TradesInvariant, PTL

\* No trade ever disposes of more than there was at its moment, whatever is
\* created, edited, removed, imported and rolled back: an account that no two
\* transactions change at once, no import leaves short and no other endpoint
\* takes from has a history every moment of which is covered.
THEOREM HistoryIsCovered == TradesSpec => []HistoryCovered
  <1>1. TradesInv => HistoryCovered
    BY DEF TradesInv, RowsKeepUp
  <1> QED
    BY <1>1, TradesInvariant, PTL

\* Creations that run at once do not together dispose of more than is held: the
\* locks of the instruments keep what each has found there until it has committed.
THEOREM HoldingsAreCovered == TradesSpec => []HoldingsCovered
  <1>1. TradesInv => HoldingsCovered
    BY DEF TradesInv, RowsKeepUp
  <1> QED
    BY <1>1, TradesInvariant, PTL

=============================================================================
