----------------------------- MODULE MCRecords ------------------------------
(***************************************************************************)
(* Components that keep records for the user, in one run: the categories   *)
(* with the budget, the CSV import, the investment trades; and the amounts *)
(* that are divided, where every input is a state.  As in MCPlatform they  *)
(* share no state in the model, the properties speak of one at a time, and *)
(* part says which one moves.                                              *)
(***************************************************************************)
EXTENDS Amounts, Categories, CsvImport, Investments, TLC

CONSTANTS
  MaxStored,    \* most rows of the account
  MaxRemoved,   \* most rows deleted or edited
  MaxBase       \* most of an instrument gained or lost other than by trades

VARIABLE part

vars == <<part, treeVars, csvVars, tradeVars, amounts>>

Init ==
  /\ part \in {"tree", "csv", "trades", "amounts"}
  /\ TreeInit
  /\ CsvInit
  /\ TradesInit
  /\ AmountsInit /\ (part # "amounts" => amounts = <<0>>)

InTree == part = "tree" /\ UNCHANGED <<part, csvVars, tradeVars, amounts>>

InCsv == part = "csv" /\ UNCHANGED <<part, treeVars, tradeVars, amounts>>

\* Where a transaction has overlapped one that takes no lock, or a balance is
\* excused, both properties are silent for good: the run goes no further.
InTrades ==
  /\ part = "trades"
  /\ excuse \in {{}, {"overlap"}, {"spent"}}
  /\ \A w \in Writers : "unlocked" \notin Beside(w)
  /\ UNCHANGED <<part, treeVars, csvVars, amounts>>

\* Ids are as good as one another: the new one is the next.
NextId(c) == \A d \in Cats : d < c => d \notin Unborn

\* A patch that names what the row has already is as one that does not, and a
\* toggle that is where it should be changes nothing.
Changes(c, parent, kind, active) ==
  /\ parent # category[c].parent
  /\ active # category[c].active
  /\ parent = Absent => kind # category[c].kind /\ ~(kind = Absent /\ active = Absent)

Sets(c, active) == \E d \in Children(c) \union {c} : category[d].active # active

\* Room for a row; a row more may be taken away.
Room == SumFunction(stored) < MaxStored
MayRemove == SumFunction(removed) < MaxRemoved

\* The budget is of one category, the first, or of none.
MCTargets == {{}, {1}}

Next ==
  \/ \E r \in Editors :
       \/ InTree /\ Idle(r) /\ \E root, others \in Cats, kind \in Kinds, active \in BOOLEAN :
            NextId(root) /\ others = root + 1 /\ CreateRoot(r, root, others, kind, active)
       \/ InTree /\ Idle(r) /\ \E p \in Cats, kind \in Kinds \union {Absent}, active \in BOOLEAN :
            CheckCreate(r, p, kind, active)
       \/ InTree /\ \E c \in Cats : NextId(c) /\ CreateSub(r, c)
       \/ InTree /\ Idle(r) /\ \E c \in Cats, parent \in Cats \union {Absent},
                                 kind \in Kinds \union {Absent}, active \in BOOLEAN \union {Absent} :
            Changes(c, parent, kind, active) /\ CheckUpdate(r, c, parent, kind, active)
       \/ InTree /\ Update(r)
       \/ InTree /\ Idle(r) /\ \E c \in Cats, active \in BOOLEAN :
            Sets(c, active) /\ CheckSetActive(r, c, active)
       \/ InTree /\ SetActive(r)
       \/ InTree /\ Idle(r) /\ \E c \in Cats : Remove(r, c)
       \/ InTree /\ Idle(r) /\ \E targets \in MCTargets : CheckPut(r, targets)
       \/ InTree /\ Put(r)
       \/ InTree /\ GiveUp(r)
  \/ \E r \in Imports :
       \/ \E file \in Files : InCsv /\ BeginImport(r, file)
       \/ InCsv /\ LockAccount(r)
       \/ InCsv /\ \E new \in Selections(r) : CommitImport(r, new) /\ SumFunction(stored') <= MaxStored
       \/ InCsv /\ AbortImport(r)
  \/ \E p \in Prints : InCsv /\ Room /\ AddRow(p)
  \/ \E p \in Prints : InCsv /\ MayRemove /\ RemoveRow(p)
  \/ \E p, q \in Prints : InCsv /\ MayRemove /\ EditRow(p, q)
  \/ \E w \in Writers :
       \/ InTrades /\ \E t \in Trades, draft \in Drafts : CreateTrade(w, t, draft)
       \/ InTrades /\ \E i \in Instruments : TakeLock(w, i)
       \/ InTrades /\ InsertTrade(w)
       \/ InTrades /\ \E t \in Trades, draft \in Drafts : UpdateTrade(w, t, draft)
       \/ InTrades /\ \E t \in Trades : RemoveTrade(w, t)
       \/ InTrades /\ RollBackBatch(w)
       \/ InTrades /\ ListTrades(w)
       \/ InTrades /\ AssertCovered(w)
       \/ InTrades /\ CommitWrite(w)
       \/ InTrades /\ \E ids \in SUBSET Trades : \E rows \in [ids -> Drafts] : PrepareImport(w, rows)
       \/ InTrades /\ ConfirmImport(w)
       \/ InTrades /\ RollBack(w)
  \/ \E i \in Instruments, by \in {-1, 1} :
       InTrades /\ base[i] + by \in (-MaxBase)..MaxBase /\ MoveBase(i, by)

Spec == Init /\ [][Next]_vars

-----------------------------------------------------------------------------
(* The constants of the run                                                *)

MCFiles == {f \in [Prints -> 0..MaxRows] : SumFunction(f) \in 1..MaxRows}

\* One unit of an asset for one of a currency: bought before it is sold, or after.
MCDrafts ==
  LET deal(at, bought) ==
        [at |-> at, change |-> [i \in Instruments |-> IF i = "asset" THEN bought ELSE -bought]]
  IN {deal(1, 1), deal(2, -1), deal(3, 1)}

Symmetry == Permutations(Writers)

\* The type invariants of the three.
RecordsTypeOK == TreeTypeOK /\ CsvTypeOK /\ TradesTypeOK

=============================================================================
