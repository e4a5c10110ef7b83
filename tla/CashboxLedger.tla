--------------------------- MODULE CashboxLedger ---------------------------
(***************************************************************************)
(* Transactions that move money in and out of cashboxes                    *)
(* (transactions.service.ts, transaction-validator.ts), the cashboxes      *)
(* themselves (cashboxes.service.ts) and the balance both derive from the  *)
(* rows (cashbox-balance.ts).                                              *)
(*                                                                         *)
(* Every handler first reads outside a database transaction (the row it    *)
(* edits, the entities it refers to) and then writes and re-checks the     *)
(* balances inside one Serializable transaction.  A read is a step of its  *)
(* own; a Serializable transaction is one atomic step, or an Abort.  What  *)
(* a request has read so far is kept in request[r].                        *)
(***************************************************************************)
EXTENDS Integers, Functions

CONSTANTS Cashboxes,        \* cashbox ids; an id is never used twice
          TxIds,            \* transaction ids; an id is never used twice
          Requests,         \* HTTP requests the API serves at the same time
          Types,            \* the transaction types in play
          Amounts,          \* cents a client may send
          InitialBalances,  \* initial balances a client may send
          Months,           \* reference months
          PatchableRefs,    \* values a PATCH may give a cashbox field
          None,             \* SQL NULL
          Absent            \* a field the request body does not carry

RefFields == {"cashboxId", "destinationCashboxId"}

\* REQUIRED_FIELDS, narrowed to the cashbox fields: what is not required is
\* forbidden.
RequiredRefs ==
    [INCOME           |-> {},
     EXPENSE          |-> {},
     TRANSFER         |-> {},
     CASHBOX_IN       |-> {"cashboxId"},
     CASHBOX_OUT      |-> {"cashboxId"},
     CASHBOX_TRANSFER |-> RefFields]

ASSUME LedgerAssumption ==
    /\ Types \subseteq DOMAIN RequiredRefs
    /\ Amounts \subseteq Nat \ {0}
    /\ InitialBalances \subseteq Nat
    /\ None \notin Cashboxes
    /\ Absent \notin Cashboxes \cup {None} \cup Amounts \cup Months
    /\ PatchableRefs \subseteq Cashboxes \cup {None}

VARIABLES cashbox,      \* the cashboxes table
          transaction,  \* the transactions table
          request       \* what each request in flight has read

vars == <<cashbox, transaction, request>>

-----------------------------------------------------------------------------
\* The tables.

Unborn  == [state |-> "unborn"]
Deleted == [state |-> "deleted"]

Cashbox == [state          : {"live"},
            initialBalance : InitialBalances,
            isActive       : BOOLEAN]

Refs == [RefFields -> Cashboxes \cup {None}]

\* A row's label is modelled by the cashbox whose name it carries.
Row == [state          : {"live"},
        type           : Types,
        amount         : Amounts,
        ref            : Refs,
        label          : Refs,
        referenceMonth : Months]

\* The part of a request body the cashboxes depend on.
Patch == [amount         : Amounts \cup {Absent},
          ref            : [RefFields -> PatchableRefs \cup {Absent}],
          referenceMonth : Months \cup {Absent}]

NoPatch == [amount         |-> Absent,
            ref            |-> [f \in RefFields |-> Absent],
            referenceMonth |-> Absent]

\* What later steps use of the row load() returned; for a create, of the body.
Current == [type : Types, ref : Refs, referenceMonth : Months]

Idle    == [step |-> "idle"]
Pending == [step    : {"loaded", "ready"},
            op      : {"create", "update", "remove"},
            tx      : TxIds \cup {None},
            patch   : Patch,
            current : Current]

TypeOK ==
    /\ cashbox \in [Cashboxes -> Cashbox \cup {Unborn, Deleted}]
    /\ transaction \in [TxIds -> Row \cup {Unborn, Deleted}]
    /\ request \in [Requests -> Pending \cup {Idle}]

LiveBox(c) == cashbox[c].state = "live"
LiveRow(t) == transaction[t].state = "live"

-----------------------------------------------------------------------------
\* cashboxBalances().

\* The sign a type gives the cashbox in field f.
Sign(type, f) ==
    CASE type = "CASHBOX_IN"       /\ f = "cashboxId"            -> 1
      [] type = "CASHBOX_OUT"      /\ f = "cashboxId"            -> -1
      [] type = "CASHBOX_TRANSFER" /\ f = "cashboxId"            -> -1
      [] type = "CASHBOX_TRANSFER" /\ f = "destinationCashboxId" -> 1
      [] OTHER                                                   -> 0

BoxesOf(refs) == {refs[f] : f \in RefFields} \cap Cashboxes

\* The rows the balance of cashbox c is computed from.
RowsOf(c) == {t \in TxIds : LiveRow(t) /\ c \in BoxesOf(transaction[t].ref)}

Side(row, f, c) == IF row.ref[f] = c THEN Sign(row.type, f) * row.amount ELSE 0

\* What a row contributes to cashbox c.
Flow(row, c) == Side(row, "cashboxId", c) + Side(row, "destinationCashboxId", c)

InitialBalance(c) == IF LiveBox(c) THEN cashbox[c].initialBalance ELSE 0

Balance(c) ==
    InitialBalance(c) + SumFunction([t \in RowsOf(c) |-> Flow(transaction[t], c)])

\* Mutant of NonNegativeAfter: the balances are read before the write.
NonNegativeBefore(ids) == \A c \in ids : Balance(c) >= 0

\* assertNonNegative(), on the rows the enclosing step has written.
NonNegativeAfter(ids) == \A c \in ids : Balance(c)' >= 0

-----------------------------------------------------------------------------
\* TransactionValidator and the reads made before the database transaction.

\* Mutants of GuardIds: one side of a transfer is forgotten; only the body counts.
SourceGuardIds(q) == ({q.current.ref["cashboxId"]} \cup {q.patch.ref["cashboxId"]})
                        \cap Cashboxes
BodyGuardIds(q)   == BoxesOf(q.patch.ref)

\* collectCashboxIds(): computed from what the request loaded, not re-read.
GuardIds(q) == BoxesOf(q.current.ref) \cup BoxesOf(q.patch.ref)

\* dto.x ?? current.x : an explicit null falls back to the loaded value too.
MergedRefs(q) ==
    [f \in RefFields |-> IF q.patch.ref[f] \in Cashboxes
                         THEN q.patch.ref[f] ELSE q.current.ref[f]]

ShapeOK(type, refs) ==
    \A f \in RefFields : (refs[f] # None) <=> (f \in RequiredRefs[type])

DistinctOK(refs) ==
    refs["cashboxId"] # None => refs["cashboxId"] # refs["destinationCashboxId"]

ActiveOK(refs) == \A c \in BoxesOf(refs) : LiveBox(c) /\ cashbox[c].isActive

\* Mutant of Valid: assertDistinct() is not called.
ValidUnlessSame(type, refs) == ShapeOK(type, refs) /\ ActiveOK(refs)

Valid(type, refs) == ShapeOK(type, refs) /\ DistinctOK(refs) /\ ActiveOK(refs)

TouchesRef(patch) == \E f \in RefFields : patch.ref[f] # Absent

Begin(r, q) == /\ request[r] = Idle
               /\ request' = [request EXCEPT ![r] = q]
               /\ UNCHANGED <<cashbox, transaction>>

\* create(), up to the database transaction.
ValidateCreate(r, body, amount) ==
    /\ Valid(body.type, body.ref)
    /\ Begin(r, [step |-> "ready", op |-> "create", tx |-> None,
                 patch |-> [NoPatch EXCEPT !.amount = amount], current |-> body])

CurrentOf(t) == [type           |-> transaction[t].type,
                 ref            |-> transaction[t].ref,
                 referenceMonth |-> transaction[t].referenceMonth]

\* update(), the load() and the checks made on it.
LoadForUpdate(r, t, patch) ==
    /\ LiveRow(t)
    /\ Begin(r, [step |-> IF TouchesRef(patch) THEN "loaded" ELSE "ready",
                 op |-> "update", tx |-> t, patch |-> patch,
                 current |-> CurrentOf(t)])

\* update(), the validator: it runs only when the patch touches a ref field.
ValidateUpdate(r) ==
    /\ request[r].step = "loaded"
    /\ Valid(request[r].current.type, MergedRefs(request[r]))
    /\ request' = [request EXCEPT ![r].step = "ready"]
    /\ UNCHANGED <<cashbox, transaction>>

\* remove(), the load().
LoadForRemove(r, t) ==
    /\ LiveRow(t)
    /\ Begin(r, [step |-> "ready", op |-> "remove", tx |-> t,
                 patch |-> NoPatch, current |-> CurrentOf(t)])

\* A rejected or failed request leaves no trace: a 4xx of the validator or of
\* the guard, a missing row (P2025), a broken foreign key (P2003), a
\* serialization failure (P2034, not retried), a lost connection, a restart.
Abort(r) == /\ request[r] # Idle
            /\ request' = [request EXCEPT ![r] = Idle]
            /\ UNCHANGED <<cashbox, transaction>>

-----------------------------------------------------------------------------
\* The Serializable database transactions of TransactionsService.

Ready(r, op) == request[r] # Idle /\ request[r].step = "ready" /\ request[r].op = op

Write(r, t, row) == /\ transaction' = [transaction EXCEPT ![t] = row]
                    /\ request' = [request EXCEPT ![r] = Idle]
                    /\ UNCHANGED cashbox
                    /\ NonNegativeAfter(GuardIds(request[r]))

\* The row create() inserts for request q, the label being the name the
\* validator resolved.
NewRow(q) == [state          |-> "live",
              type           |-> q.current.type,
              amount         |-> q.patch.amount,
              ref            |-> q.current.ref,
              label          |-> q.current.ref,
              referenceMonth |-> q.current.referenceMonth]

\* create(), the database transaction.
CommitCreate(r, t) ==
    /\ Ready(r, "create")
    /\ transaction[t] = Unborn
    /\ \A c \in BoxesOf(request[r].current.ref) : LiveBox(c)
    /\ Write(r, t, NewRow(request[r]))

\* Mutants of Patched: the month of the body is written even when absent; the
\* label is not taken again when the cashbox changes.
PatchedRawMonth(q, row) ==
    [row EXCEPT !.amount = IF q.patch.amount = Absent THEN @ ELSE q.patch.amount,
                !.referenceMonth = q.patch.referenceMonth]
PatchedKeepingLabel(q, row) ==
    [row EXCEPT !.ref = [f \in RefFields |-> IF q.patch.ref[f] = Absent
                                             THEN row.ref[f] ELSE q.patch.ref[f]]]

\* `row` with the columns update() sets: the fields of the body, a label only
\* where its id field is in the body, and a reference month in any case.
Patched(q, row) ==
    [row EXCEPT
        !.amount = IF q.patch.amount = Absent THEN @ ELSE q.patch.amount,
        !.ref    = [f \in RefFields |-> IF q.patch.ref[f] = Absent
                                        THEN row.ref[f] ELSE q.patch.ref[f]],
        !.label  = [f \in RefFields |-> IF q.patch.ref[f] = Absent
                                        THEN row.label[f] ELSE MergedRefs(q)[f]],
        !.referenceMonth = IF q.patch.referenceMonth = Absent
                           THEN q.current.referenceMonth
                           ELSE q.patch.referenceMonth]

\* update(), the database transaction.
CommitUpdate(r) ==
    LET q == request[r] IN
    /\ Ready(r, "update")
    /\ LiveRow(q.tx)
    /\ \A c \in BoxesOf(q.patch.ref) : LiveBox(c)
    /\ Write(r, q.tx, Patched(q, transaction[q.tx]))

\* remove(), the database transaction.
CommitRemove(r) ==
    /\ Ready(r, "remove")
    /\ LiveRow(request[r].tx)
    /\ Write(r, request[r].tx, Deleted)

-----------------------------------------------------------------------------
\* CashboxesService.  Its load() only proves that the row exists, which the
\* write proves again, so each handler is one step.

CreateCashbox(c, initialBalance, isActive) ==
    /\ cashbox[c] = Unborn
    /\ cashbox' = [cashbox EXCEPT ![c] = [state          |-> "live",
                                          initialBalance |-> initialBalance,
                                          isActive       |-> isActive]]
    /\ UNCHANGED <<transaction, request>>

\* update() with an initialBalance in the body: a Serializable transaction.
UpdateCashbox(c, initialBalance, isActive) ==
    /\ LiveBox(c)
    /\ cashbox' = [cashbox EXCEPT ![c].initialBalance = initialBalance,
                                  ![c].isActive = isActive]
    /\ UNCHANGED <<transaction, request>>
    /\ NonNegativeAfter({c})

\* setActive(), and update() without an initialBalance: no guard.
SetActive(c, isActive) ==
    /\ LiveBox(c)
    /\ cashbox' = [cashbox EXCEPT ![c].isActive = isActive]
    /\ UNCHANGED <<transaction, request>>

\* Mutants of Detached: one relation without its SetNull; Cascade for SetNull;
\* both sides of a transfer set to null.
DetachedSourceOnly(row, c) ==
    IF row.state = "live" /\ row.ref["cashboxId"] = c
    THEN [row EXCEPT !.ref["cashboxId"] = None] ELSE row
DetachedByCascade(row, c) ==
    IF row.state = "live" /\ c \in BoxesOf(row.ref) THEN Deleted ELSE row
DetachedBothSides(row, c) ==
    IF row.state = "live" /\ c \in BoxesOf(row.ref)
    THEN [row EXCEPT !.ref = [f \in RefFields |-> None]] ELSE row

\* onDelete: SetNull on both relations; the labels stay.
Detached(row, c) ==
    IF row.state = "live"
    THEN [row EXCEPT !.ref = [f \in RefFields |->
                                 IF row.ref[f] = c THEN None ELSE row.ref[f]]]
    ELSE row

RemoveCashbox(c) ==
    /\ LiveBox(c)
    /\ Balance(c) = 0
    /\ cashbox' = [cashbox EXCEPT ![c] = Deleted]
    /\ transaction' = [t \in TxIds |-> Detached(transaction[t], c)]
    /\ UNCHANGED request

-----------------------------------------------------------------------------
Init == /\ cashbox = [c \in Cashboxes |-> Unborn]
        /\ transaction = [t \in TxIds |-> Unborn]
        /\ request = [r \in Requests |-> Idle]

CashboxStep(c) ==
    \/ \E b \in InitialBalances, a \in BOOLEAN : CreateCashbox(c, b, a)
    \/ \E b \in InitialBalances, a \in BOOLEAN : UpdateCashbox(c, b, a)
    \/ \E a \in BOOLEAN : SetActive(c, a)
    \/ RemoveCashbox(c)

RequestStep(r) ==
    \/ \E body \in Current, amount \in Amounts : ValidateCreate(r, body, amount)
    \/ \E t \in TxIds : CommitCreate(r, t)
    \/ \E t \in TxIds, patch \in Patch : LoadForUpdate(r, t, patch)
    \/ ValidateUpdate(r)
    \/ CommitUpdate(r)
    \/ \E t \in TxIds : LoadForRemove(r, t)
    \/ CommitRemove(r)
    \/ Abort(r)

Next == (\E c \in Cashboxes : CashboxStep(c)) \/ (\E r \in Requests : RequestStep(r))

Spec == Init /\ [][Next]_vars

\* The cashboxes as their user sees them.
Pot == INSTANCE CashboxPots
           WITH Pots     <- Cashboxes,
                standing <- [c \in Cashboxes |-> cashbox[c].state],
                funds    <- [c \in Cashboxes |-> Balance(c)]

\* The ledger of rows implements the pots: in particular a cashbox is closed
\* only when empty, and closing it, which detaches its rows, leaves the balance
\* of every other cashbox as it was.
ImplementsPots == Pot!PotsSpec

-----------------------------------------------------------------------------
(***************************************************************************)
(* What must hold.                                                         *)
(***************************************************************************)

\* No cashbox is overdrawn: "CASHBOX_OUT must not drive a cashbox balance
\* negative", however creates, edits, deletions and changes of the initial
\* balance interleave.
NonNegative == \A c \in Cashboxes : LiveBox(c) => Balance(c) >= 0

Covers(q) ==
    q # Idle /\ q.op # "create" /\ LiveRow(q.tx)
        => BoxesOf(transaction[q.tx].ref) \subseteq GuardIds(q)

\* The guard of an edit or a deletion in flight still looks at every cashbox
\* the row now counts in, although its ids come from an earlier read.  This is
\* what makes the guard of update() and remove() sufficient.
GuardCoversRow == \A r \in Requests : Covers(request[r])

\* A row refers to existing cashboxes only, although they are validated before
\* the database transaction and may be deleted in between.
RefsLive ==
    \A t \in TxIds :
        LiveRow(t) => \A c \in BoxesOf(transaction[t].ref) : LiveBox(c)

\* ADR-0019: a row carries the name of every cashbox its type takes, and it is
\* the name of the cashbox it points at for as long as it points at one.
LabelNamesItsCashbox ==
    \A t \in TxIds : LiveRow(t) =>
        \A f \in RequiredRefs[transaction[t].type] :
            /\ transaction[t].label[f] \in Cashboxes
            /\ transaction[t].ref[f] \in {None, transaction[t].label[f]}

\* Overview, 5.3: a null cashbox on a CASHBOX_* row means that its cashbox was
\* deleted, never "no cashbox".
NullMeansDeleted ==
    \A t \in TxIds : LiveRow(t) =>
        \A f \in RequiredRefs[transaction[t].type] :
            transaction[t].ref[f] = None =>
                \E c \in Cashboxes : /\ transaction[t].label[f] = c
                                     /\ cashbox[c] = Deleted

\* Overview, 5.3: destinationCashboxId # cashboxId, also for a row edited one
\* side at a time.
DistinctCashboxes ==
    \A t \in TxIds, c \in Cashboxes :
        LiveRow(t) => \E f \in RefFields : transaction[t].ref[f] # c

\* ADR-0023: an update preserves the stored reference month when the body
\* omits it: the month of a row changes only in the step of an update that was
\* asked to change it.
MonthKept ==
    [][\A t \in TxIds :
          (LiveRow(t) /\ LiveRow(t)' /\
             transaction[t].referenceMonth # transaction'[t].referenceMonth)
          => \E r \in Requests : /\ Ready(r, "update")
                                 /\ request[r].tx = t
                                 /\ request[r].patch.referenceMonth # Absent
                                 /\ request'[r] = Idle]_vars
=============================================================================
