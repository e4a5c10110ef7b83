------------------------ MODULE CashboxLedgerProofs ------------------------
(***************************************************************************)
(* Theorems about CashboxLedger, for every set of cashboxes, transactions  *)
(* and concurrent requests and every set of amounts.                       *)
(***************************************************************************)
EXTENDS CashboxLedger, TLAPS

-----------------------------------------------------------------------------
(* Type correctness. *)

LEMMA FreshTypes ==
    /\ NoPatch \in Patch
    /\ \A t \in TxIds : TypeOK /\ LiveRow(t) => transaction[t] \in Row
    /\ \A r \in Requests : TypeOK /\ request[r] # Idle => request[r] \in Pending
    /\ \A c \in Cashboxes : TypeOK /\ LiveBox(c) => cashbox[c] \in Cashbox
  <1>1. NoPatch \in Patch
    BY DEF NoPatch, Patch
  <1>2. ASSUME NEW t \in TxIds, TypeOK, LiveRow(t)
        PROVE  transaction[t] \in Row
    BY <1>2 DEF TypeOK, LiveRow, Unborn, Deleted
  <1>3. ASSUME NEW r \in Requests, TypeOK, request[r] # Idle
        PROVE  request[r] \in Pending
    BY <1>3 DEF TypeOK
  <1>4. ASSUME NEW c \in Cashboxes, TypeOK, LiveBox(c)
        PROVE  cashbox[c] \in Cashbox
    BY <1>4 DEF TypeOK, LiveBox, Unborn, Deleted
  <1> QED
    BY <1>1, <1>2, <1>3, <1>4

\* The row update() leaves has the type of a row.
LEMMA PatchedType ==
    ASSUME NEW q \in Pending, NEW row \in Row
    PROVE  /\ MergedRefs(q) \in Refs
           /\ Patched(q, row) \in Row
  <1>1. MergedRefs(q) \in Refs
    BY DEF MergedRefs, Refs, Pending, Current
  <1>2. [f \in RefFields |-> IF q.patch.ref[f] = Absent
                             THEN row.ref[f] ELSE q.patch.ref[f]] \in Refs
    BY LedgerAssumption DEF Refs, Row, Pending, Patch
  <1>3. [f \in RefFields |-> IF q.patch.ref[f] = Absent
                             THEN row.label[f] ELSE MergedRefs(q)[f]] \in Refs
    BY <1>1 DEF Refs, Row
  <1>4. (IF q.patch.amount = Absent THEN row.amount ELSE q.patch.amount) \in Amounts
    BY DEF Row, Pending, Patch
  <1>5. (IF q.patch.referenceMonth = Absent THEN q.current.referenceMonth
         ELSE q.patch.referenceMonth) \in Months
    BY DEF Pending, Patch, Current
  <1> QED
    BY <1>1, <1>2, <1>3, <1>4, <1>5 DEF Patched, Row

\* The row create() inserts has the type of a row.
LEMMA NewRowType ==
    ASSUME NEW q \in Pending, q.patch.amount # Absent
    PROVE  NewRow(q) \in Row
  BY DEF NewRow, Row, Pending, Patch, Current

\* A request to create carries an amount, every other one a row.
RequestOK ==
    \A r \in Requests : request[r] # Idle =>
        /\ request[r].op = "create" => request[r].patch.amount # Absent
        /\ request[r].op # "create" => request[r].tx \in TxIds

TypeInv == TypeOK /\ RequestOK

LEMMA TypeInit == Init => TypeInv
  BY DEF Init, TypeInv, TypeOK, RequestOK

\* Rows change only inside Write and RemoveCashbox.
LEMMA TypeWrite ==
    ASSUME TypeInv, NEW r \in Requests, NEW t \in TxIds,
           NEW row \in Row \cup {Deleted}, Write(r, t, row)
    PROVE  TypeInv'
  BY DEF TypeInv, TypeOK, RequestOK, Write

LEMMA TypeBegin ==
    ASSUME TypeInv, NEW r \in Requests, NEW q \in Pending, Begin(r, q),
           q.op = "create" => q.patch.amount # Absent,
           q.op # "create" => q.tx \in TxIds
    PROVE  TypeInv'
  BY DEF TypeInv, TypeOK, RequestOK, Begin

\* Every step of the specification keeps every variable in its type.
LEMMA TypeStep == TypeInv /\ [Next]_vars => TypeInv'
  <1> SUFFICES ASSUME TypeInv, [Next]_vars PROVE TypeInv'
    OBVIOUS
  <1> USE FreshTypes
  <1>1. CASE UNCHANGED vars
    BY <1>1 DEF vars, TypeInv, TypeOK, RequestOK, Idle
  <1>2. ASSUME NEW c \in Cashboxes, CashboxStep(c)
        PROVE  TypeInv'
    <2>1. ASSUME NEW b \in InitialBalances, NEW a \in BOOLEAN, CreateCashbox(c, b, a)
          PROVE  TypeInv'
      BY <2>1 DEF CreateCashbox, TypeInv, TypeOK, RequestOK, Cashbox
    <2>2. ASSUME NEW b \in InitialBalances, NEW a \in BOOLEAN, UpdateCashbox(c, b, a)
          PROVE  TypeInv'
      BY <2>2 DEF UpdateCashbox, TypeInv, TypeOK, RequestOK, Cashbox
    <2>3. ASSUME NEW a \in BOOLEAN, SetActive(c, a)
          PROVE  TypeInv'
      BY <2>3 DEF SetActive, TypeInv, TypeOK, RequestOK, Cashbox
    <2>4. CASE RemoveCashbox(c)
      <3>1. ASSUME NEW t \in TxIds
            PROVE  Detached(transaction[t], c) \in Row \cup {Unborn, Deleted}
        <4>1. CASE LiveRow(t)
          BY <4>1 DEF TypeInv, TypeOK, Detached, LiveRow, Row, Refs
        <4>2. CASE ~LiveRow(t)
          BY <4>2 DEF TypeInv, TypeOK, Detached, LiveRow
        <4> QED
          BY <4>1, <4>2
      <3> QED
        BY <2>4, <3>1 DEF RemoveCashbox, TypeInv, TypeOK, RequestOK
    <2> QED
      BY <1>2, <2>1, <2>2, <2>3, <2>4 DEF CashboxStep
  <1>3. ASSUME NEW r \in Requests, RequestStep(r)
        PROVE  TypeInv'
    <2>1. ASSUME NEW body \in Current, NEW amount \in Amounts,
                 ValidateCreate(r, body, amount)
          PROVE  TypeInv'
      <3>1. [NoPatch EXCEPT !.amount = amount] \in Patch
        BY DEF Patch, NoPatch
      <3>2. [NoPatch EXCEPT !.amount = amount].amount # Absent
        BY LedgerAssumption DEF NoPatch
      <3> QED
        BY <2>1, <3>1, <3>2, TypeBegin DEF ValidateCreate, Pending
    <2>2. ASSUME NEW t \in TxIds, CommitCreate(r, t)
          PROVE  TypeInv'
      BY <2>2, NewRowType, TypeWrite DEF CommitCreate, Ready, TypeInv, RequestOK
    <2>3. ASSUME NEW t \in TxIds, NEW patch \in Patch, LoadForUpdate(r, t, patch)
          PROVE  TypeInv'
      <3>1. CurrentOf(t) \in Current
        BY <2>3 DEF LoadForUpdate, TypeInv, CurrentOf, Current, Row
      <3> QED
        BY <2>3, <3>1, TypeBegin DEF LoadForUpdate, Pending
    <2>4. CASE ValidateUpdate(r)
      <3>1. request[r] \in Pending
        BY <2>4 DEF ValidateUpdate, TypeInv, Idle
      <3> QED
        BY <2>4, <3>1 DEF ValidateUpdate, TypeInv, TypeOK, RequestOK, Pending, Idle
    <2>5. CASE CommitUpdate(r)
      BY <2>5, PatchedType, TypeWrite DEF CommitUpdate, Ready, TypeInv, RequestOK
    <2>6. ASSUME NEW t \in TxIds, LoadForRemove(r, t)
          PROVE  TypeInv'
      <3>1. CurrentOf(t) \in Current
        BY <2>6 DEF LoadForRemove, TypeInv, CurrentOf, Current, Row
      <3> QED
        BY <2>6, <3>1, TypeBegin DEF LoadForRemove, Pending
    <2>7. CASE CommitRemove(r)
      BY <2>7, TypeWrite DEF CommitRemove, Ready, TypeInv, RequestOK
    <2>8. CASE Abort(r)
      BY <2>8 DEF Abort, TypeInv, TypeOK, RequestOK
    <2> QED
      BY <1>3, <2>1, <2>2, <2>3, <2>4, <2>5, <2>6, <2>7, <2>8 DEF RequestStep
  <1> QED
    BY <1>1, <1>2, <1>3 DEF Next

\* Whatever the requests and however they interleave, the tables and the
\* requests in flight stay within their types.
THEOREM TypeCorrect == Spec => []TypeOK
  <1>1. TypeInv => TypeOK
    BY DEF TypeInv
  <1> QED
    BY <1>1, TypeInit, TypeStep, PTL DEF Spec

-----------------------------------------------------------------------------
(* References and labels. *)

\* What a request in flight knows: a create has a body of the right shape, a
\* row that was loaded exists or was deleted and keeps its type, and a patch
\* that is ready to be written has the right shape once merged.
ShapeRight(q) ==
    /\ q.op = "create" => ShapeOK(q.current.type, q.current.ref)
    /\ (q.op = "update" /\ q.step = "ready" /\ TouchesRef(q.patch))
          => ShapeOK(q.current.type, MergedRefs(q))

RowRight(q) ==
    q.op # "create" => /\ transaction[q.tx] # Unborn
                       /\ LiveRow(q.tx) => transaction[q.tx].type = q.current.type

ReadOK == \A r \in Requests :
              request[r] # Idle => ShapeRight(request[r]) /\ RowRight(request[r])

RefInv == TypeInv /\ ReadOK /\ RefsLive /\ LabelNamesItsCashbox

LEMMA RefInit == Init => RefInv
  BY TypeInit DEF Init, RefInv, ReadOK, RefsLive, LabelNamesItsCashbox, LiveRow, Unborn

\* A write that keeps the type of an existing row keeps ReadOK.
LEMMA ReadWrite ==
    ASSUME TypeInv, ReadOK, NEW r \in Requests, NEW t \in TxIds,
           NEW row \in Row \cup {Deleted}, Write(r, t, row),
           LiveRow(t) /\ row # Deleted => row.type = transaction[t].type,
           row # Deleted => transaction[t] = Unborn \/ LiveRow(t)
    PROVE  ReadOK'
  <1>1. \A u \in TxIds : transaction'[u] = IF u = t THEN row ELSE transaction[u]
    BY DEF Write, TypeInv, TypeOK
  <1>2. row # Unborn
    BY DEF Row, Unborn, Deleted
  <1>3. ASSUME NEW s \in Requests, request'[s] # Idle
        PROVE  ShapeRight(request'[s]) /\ RowRight(request[s])' /\ request'[s] = request[s]
    <2>1. request'[s] = request[s] /\ request[s] # Idle
      BY <1>3 DEF Write, TypeInv, TypeOK
    <2>2. ShapeRight(request[s]) /\ RowRight(request[s])
      BY <2>1 DEF ReadOK
    <2>3. request[s].op # "create" => request[s].tx \in TxIds
      BY <2>1 DEF TypeInv, RequestOK
    <2>4. RowRight(request[s])'
      BY <1>1, <1>2, <2>1, <2>2, <2>3 DEF RowRight, LiveRow, Deleted
    <2> QED
      BY <2>1, <2>2, <2>4
  <1> QED
    BY <1>3 DEF ReadOK

\* A new row that names live cashboxes and carries their names keeps the rest.
LEMMA RowWrite ==
    ASSUME TypeInv, RefsLive, LabelNamesItsCashbox,
           NEW r \in Requests, NEW t \in TxIds,
           NEW row \in Row \cup {Deleted}, Write(r, t, row),
           row # Deleted =>
               /\ \A c \in BoxesOf(row.ref) : LiveBox(c)
               /\ \A f \in RequiredRefs[row.type] :
                     row.label[f] \in Cashboxes /\ row.ref[f] \in {None, row.label[f]}
    PROVE  RefsLive' /\ LabelNamesItsCashbox'
  <1>1. \A u \in TxIds : transaction'[u] = IF u = t THEN row ELSE transaction[u]
    BY DEF Write, TypeInv, TypeOK
  <1>2. \A c \in Cashboxes : LiveBox(c)' <=> LiveBox(c)
    BY DEF Write, LiveBox
  <1>3. RefsLive'
    BY <1>1, <1>2 DEF RefsLive, LiveRow, Deleted, BoxesOf
  <1>4. LabelNamesItsCashbox'
    BY <1>1 DEF LabelNamesItsCashbox, LiveRow, Deleted
  <1> QED
    BY <1>3, <1>4

\* Steps that leave the rows alone.
LEMMA RequestRead ==
    ASSUME TypeInv, ReadOK, UNCHANGED <<cashbox, transaction>>,
           RefsLive, LabelNamesItsCashbox,
           \A s \in Requests : request'[s] # Idle =>
               \/ request'[s] = request[s]
               \/ ShapeRight(request'[s]) /\ RowRight(request'[s])
    PROVE  ReadOK' /\ RefsLive' /\ LabelNamesItsCashbox'
  <1>1. \A q : RowRight(q) => RowRight(q)'
    BY DEF RowRight, LiveRow
  <1>2. ReadOK'
    BY <1>1 DEF ReadOK, RowRight, LiveRow
  <1>3. RefsLive'
    BY DEF RefsLive, LiveRow, LiveBox
  <1>4. LabelNamesItsCashbox'
    BY DEF LabelNamesItsCashbox, LiveRow
  <1> QED
    BY <1>2, <1>3, <1>4

\* Opening or changing a cashbox disturbs no row.
LEMMA BoxChange ==
    ASSUME TypeInv, ReadOK, RefsLive, LabelNamesItsCashbox,
           UNCHANGED <<transaction, request>>,
           \A c \in Cashboxes : LiveBox(c) => LiveBox(c)'
    PROVE  ReadOK' /\ RefsLive' /\ LabelNamesItsCashbox'
  <1>1. ReadOK'
    BY DEF ReadOK, RowRight, LiveRow
  <1>2. RefsLive'
    BY DEF RefsLive, LiveRow, BoxesOf
  <1>3. LabelNamesItsCashbox'
    BY DEF LabelNamesItsCashbox, LiveRow
  <1> QED
    BY <1>1, <1>2, <1>3

\* What a detached row keeps.
LEMMA DetachedRow ==
    ASSUME TypeInv, NEW t \in TxIds, NEW c \in Cashboxes
    PROVE  LET row == Detached(transaction[t], c) IN
           /\ row.state = transaction[t].state
           /\ ~LiveRow(t) => row = transaction[t]
           /\ LiveRow(t) =>
                /\ row.type = transaction[t].type
                /\ row.amount = transaction[t].amount
                /\ row.label = transaction[t].label
                /\ \A f \in RefFields : row.ref[f] =
                      IF transaction[t].ref[f] = c THEN None ELSE transaction[t].ref[f]
                /\ BoxesOf(row.ref) = BoxesOf(transaction[t].ref) \ {c}
  <1>1. CASE ~LiveRow(t)
    BY <1>1 DEF Detached, LiveRow
  <1>2. CASE LiveRow(t)
    <2>1. transaction[t] \in Row
      BY <1>2, FreshTypes DEF TypeInv
    <2>2. Detached(transaction[t], c) =
             [transaction[t] EXCEPT !.ref = [f \in RefFields |->
                 IF transaction[t].ref[f] = c THEN None ELSE transaction[t].ref[f]]]
      BY <1>2 DEF Detached, LiveRow
    <2>3. \A f \in RefFields : Detached(transaction[t], c).ref[f] =
             IF transaction[t].ref[f] = c THEN None ELSE transaction[t].ref[f]
      BY <2>1, <2>2 DEF Row
    <2>4. BoxesOf(Detached(transaction[t], c).ref) = BoxesOf(transaction[t].ref) \ {c}
      BY <2>3, LedgerAssumption DEF BoxesOf
    <2> QED
      BY <1>2, <2>1, <2>2, <2>3, <2>4 DEF Row
  <1> QED
    BY <1>1, <1>2

\* What a patched row keeps and takes.
LEMMA PatchedRow ==
    ASSUME NEW q \in Pending, NEW row \in Row
    PROVE  /\ Patched(q, row).type = row.type
           /\ \A f \in RefFields :
                /\ Patched(q, row).ref[f] =
                      IF q.patch.ref[f] = Absent THEN row.ref[f] ELSE q.patch.ref[f]
                /\ Patched(q, row).label[f] =
                      IF q.patch.ref[f] = Absent THEN row.label[f] ELSE MergedRefs(q)[f]
  BY DEF Patched, Row

\* A patched row names live cashboxes and carries their names.
LEMMA PatchedRight ==
    ASSUME TypeInv, ReadOK, RefsLive, LabelNamesItsCashbox,
           NEW r \in Requests, CommitUpdate(r)
    PROVE  LET q == request[r]
               row == Patched(q, transaction[q.tx])
           IN  /\ q \in Pending /\ q.tx \in TxIds /\ transaction[q.tx] \in Row
               /\ row \in Row
               /\ row.type = transaction[q.tx].type
               /\ \A c \in BoxesOf(row.ref) : LiveBox(c)
               /\ \A f \in RequiredRefs[row.type] :
                     row.label[f] \in Cashboxes /\ row.ref[f] \in {None, row.label[f]}
  <1> DEFINE q == request[r]
             old == transaction[q.tx]
             row == Patched(q, old)
  <1>1. q \in Pending /\ q.tx \in TxIds /\ LiveRow(q.tx) /\ old \in Row
    BY FreshTypes DEF CommitUpdate, Ready, TypeInv, RequestOK
  <1>2. row \in Row /\ row.type = old.type
    BY <1>1, PatchedType, PatchedRow
  <1>3. \A f \in RefFields :
           /\ row.ref[f] = IF q.patch.ref[f] = Absent THEN old.ref[f] ELSE q.patch.ref[f]
           /\ row.label[f] = IF q.patch.ref[f] = Absent THEN old.label[f]
                             ELSE MergedRefs(q)[f]
    BY <1>1, PatchedRow
  <1>4. ASSUME NEW c \in BoxesOf(row.ref)
        PROVE  LiveBox(c)
    <2>1. c \in BoxesOf(old.ref) \/ c \in BoxesOf(q.patch.ref)
      BY <1>3 DEF BoxesOf
    <2> QED
      BY <1>1, <2>1 DEF RefsLive, CommitUpdate
  <1>5. ASSUME NEW f \in RequiredRefs[row.type]
        PROVE  row.label[f] \in Cashboxes /\ row.ref[f] \in {None, row.label[f]}
    <2>1. f \in RefFields
      BY <1>2, LedgerAssumption DEF RequiredRefs, Row, RefFields
    <2>2. CASE q.patch.ref[f] = Absent
      BY <1>1, <1>2, <1>3, <2>1, <2>2 DEF LabelNamesItsCashbox
    <2>3. CASE q.patch.ref[f] # Absent
      <3>1. TouchesRef(q.patch)
        BY <2>1, <2>3 DEF TouchesRef
      <3>2. q.current.type = old.type /\ ShapeOK(q.current.type, MergedRefs(q))
        BY <1>1, <3>1 DEF ReadOK, ShapeRight, RowRight, CommitUpdate, Ready
      <3>3. MergedRefs(q)[f] \in Cashboxes
        BY <1>1, <1>2, <2>1, <3>2, PatchedType DEF ShapeOK, Refs
      <3>4. q.patch.ref[f] \in Cashboxes => MergedRefs(q)[f] = q.patch.ref[f]
        BY <2>1 DEF MergedRefs
      <3>5. q.patch.ref[f] \in Cashboxes \cup {None}
        BY <1>1, <2>1, <2>3, LedgerAssumption DEF Pending, Patch
      <3> QED
        BY <1>3, <2>1, <2>3, <3>3, <3>4, <3>5
    <2> QED
      BY <2>2, <2>3
  <1> QED
    BY <1>1, <1>2, <1>4, <1>5

\* A new row names live cashboxes and carries their names.
LEMMA NewRowRight ==
    ASSUME TypeInv, ReadOK, NEW r \in Requests, NEW t \in TxIds, CommitCreate(r, t)
    PROVE  LET row == NewRow(request[r]) IN
           /\ request[r] \in Pending
           /\ row \in Row
           /\ row.ref = request[r].current.ref
           /\ \A c \in BoxesOf(row.ref) : LiveBox(c)
           /\ \A f \in RequiredRefs[row.type] :
                 row.label[f] \in Cashboxes /\ row.ref[f] \in {None, row.label[f]}
  <1> DEFINE q == request[r]
  <1>1. q \in Pending /\ q.patch.amount # Absent
    BY FreshTypes DEF CommitCreate, Ready, TypeInv, RequestOK
  <1>2. NewRow(q) \in Row /\ NewRow(q).ref = q.current.ref
    BY <1>1, NewRowType DEF NewRow
  <1>3. \A c \in BoxesOf(q.current.ref) : LiveBox(c)
    BY DEF CommitCreate
  <1>4. ASSUME NEW f \in RequiredRefs[NewRow(q).type]
        PROVE  NewRow(q).label[f] \in Cashboxes /\ NewRow(q).ref[f] = NewRow(q).label[f]
    <2>1. f \in RefFields
      BY <1>2, LedgerAssumption DEF RequiredRefs, Row, RefFields
    <2>2. ShapeOK(q.current.type, q.current.ref)
      BY DEF ReadOK, ShapeRight, CommitCreate, Ready
    <2>3. q.current.ref[f] \in Cashboxes
      BY <1>1, <2>1, <2>2 DEF ShapeOK, NewRow, Pending, Current, Refs
    <2> QED
      BY <2>3 DEF NewRow
  <1> QED
    BY <1>1, <1>2, <1>3, <1>4

\* Deleting a cashbox detaches its rows.
LEMMA RefRemoveCashbox ==
    ASSUME RefInv, NEW c \in Cashboxes, RemoveCashbox(c)
    PROVE  ReadOK' /\ RefsLive' /\ LabelNamesItsCashbox'
  <1>1. \A t \in TxIds : transaction'[t] = Detached(transaction[t], c)
    BY DEF RemoveCashbox
  <1>2. \A t \in TxIds : LiveRow(t)' <=> LiveRow(t)
    BY <1>1, DetachedRow DEF LiveRow, RefInv
  <1>3. \A t \in TxIds : transaction[t] # Unborn => transaction'[t] # Unborn
    BY <1>1, DetachedRow DEF LiveRow, RefInv, Unborn
  <1>4. ReadOK'
    <2> SUFFICES ASSUME NEW s \in Requests, request[s] # Idle
                 PROVE  ShapeRight(request[s]) /\ RowRight(request[s])'
      BY DEF ReadOK, RemoveCashbox, ShapeRight
    <2>1. request[s].op # "create" => request[s].tx \in TxIds
      BY DEF RefInv, TypeInv, RequestOK
    <2>2. ShapeRight(request[s]) /\ RowRight(request[s])
      BY DEF RefInv, ReadOK
    <2> QED
      BY <1>1, <1>2, <1>3, <2>1, <2>2, DetachedRow DEF RefInv, RowRight, RemoveCashbox
  <1>5. RefsLive'
    <2> SUFFICES ASSUME NEW t \in TxIds, LiveRow(t)',
                        NEW b \in BoxesOf(transaction'[t].ref)
                 PROVE  LiveBox(b)'
      BY DEF RefsLive, BoxesOf
    <2>1. b \in BoxesOf(transaction[t].ref) \ {c}
      BY <1>1, <1>2, DetachedRow DEF RefInv
    <2>2. LiveBox(b) /\ b \in Cashboxes
      BY <1>2, <2>1 DEF RefInv, RefsLive, BoxesOf
    <2> QED
      BY <2>1, <2>2 DEF RemoveCashbox, LiveBox, RefInv, TypeInv, TypeOK
  <1>6. LabelNamesItsCashbox'
    <2> SUFFICES ASSUME NEW t \in TxIds, LiveRow(t)',
                        NEW f \in RequiredRefs[transaction'[t].type]
                 PROVE  /\ transaction'[t].label[f] \in Cashboxes
                        /\ transaction'[t].ref[f] \in {None, transaction'[t].label[f]}
      BY DEF LabelNamesItsCashbox
    <2>1. LiveRow(t) /\ transaction[t] \in Row
      BY <1>2, FreshTypes DEF RefInv, TypeInv
    <2>2. transaction'[t].type = transaction[t].type
          /\ transaction'[t].label = transaction[t].label
      BY <1>1, <2>1, DetachedRow DEF RefInv
    <2>3. f \in RefFields
      BY <2>1, <2>2, LedgerAssumption DEF RequiredRefs, Row, RefFields
    <2> QED
      BY <1>1, <2>1, <2>2, <2>3, DetachedRow DEF RefInv, LabelNamesItsCashbox
  <1> QED
    BY <1>4, <1>5, <1>6

LEMMA RefStep == RefInv /\ [Next]_vars => RefInv'
  <1> SUFFICES ASSUME RefInv, [Next]_vars
               PROVE  ReadOK' /\ RefsLive' /\ LabelNamesItsCashbox'
    BY TypeStep DEF RefInv
  <1> USE DEF RefInv
  <1>1. CASE UNCHANGED vars
    BY <1>1, RequestRead DEF vars
  <1>2. ASSUME NEW c \in Cashboxes, CashboxStep(c)
        PROVE  ReadOK' /\ RefsLive' /\ LabelNamesItsCashbox'
    <2>1. ASSUME NEW b \in InitialBalances, NEW a \in BOOLEAN, CreateCashbox(c, b, a)
          PROVE  \A d \in Cashboxes : LiveBox(d) => LiveBox(d)'
      BY <2>1 DEF CreateCashbox, LiveBox, TypeInv, TypeOK
    <2>2. ASSUME NEW b \in InitialBalances, NEW a \in BOOLEAN, UpdateCashbox(c, b, a)
          PROVE  \A d \in Cashboxes : LiveBox(d) => LiveBox(d)'
      BY <2>2, FreshTypes DEF UpdateCashbox, LiveBox, TypeInv, TypeOK, Cashbox
    <2>3. ASSUME NEW a \in BOOLEAN, SetActive(c, a)
          PROVE  \A d \in Cashboxes : LiveBox(d) => LiveBox(d)'
      BY <2>3, FreshTypes DEF SetActive, LiveBox, TypeInv, TypeOK, Cashbox
    <2> QED
      BY <1>2, <2>1, <2>2, <2>3, BoxChange, RefRemoveCashbox
         DEF CashboxStep, CreateCashbox, UpdateCashbox, SetActive
  <1>3. ASSUME NEW r \in Requests, RequestStep(r)
        PROVE  ReadOK' /\ RefsLive' /\ LabelNamesItsCashbox'
    <2>1. ASSUME NEW q, Begin(r, q), ShapeRight(q), RowRight(q)
          PROVE  ReadOK' /\ RefsLive' /\ LabelNamesItsCashbox'
      <3>1. \A s \in Requests : request'[s] = IF s = r THEN q ELSE request[s]
        BY <2>1 DEF Begin, TypeInv, TypeOK
      <3> QED
        BY <2>1, <3>1, RequestRead DEF Begin
    <2>2. ASSUME NEW body \in Current, NEW amount \in Amounts,
                 ValidateCreate(r, body, amount)
          PROVE  ReadOK' /\ RefsLive' /\ LabelNamesItsCashbox'
      BY <2>1, <2>2 DEF ValidateCreate, Valid, ShapeRight, RowRight
    <2>3. ASSUME NEW t \in TxIds, CommitCreate(r, t)
          PROVE  ReadOK' /\ RefsLive' /\ LabelNamesItsCashbox'
      <3>1. ~LiveRow(t) /\ transaction[t] = Unborn
        BY <2>3 DEF CommitCreate, LiveRow, Unborn
      <3> QED
        BY <2>3, <3>1, NewRowRight, ReadWrite, RowWrite DEF CommitCreate
    <2>4. ASSUME NEW t \in TxIds, NEW patch \in Patch, LoadForUpdate(r, t, patch)
          PROVE  ReadOK' /\ RefsLive' /\ LabelNamesItsCashbox'
      BY <2>1, <2>4 DEF LoadForUpdate, ShapeRight, RowRight, CurrentOf, LiveRow, Unborn
    <2>5. CASE ValidateUpdate(r)
      <3>1. request[r] \in Pending
        BY <2>5, FreshTypes DEF ValidateUpdate, Idle, TypeInv
      <3>2. \A s \in Requests :
               request'[s] = IF s = r THEN [request[r] EXCEPT !.step = "ready"]
                                      ELSE request[s]
        BY <2>5 DEF ValidateUpdate, TypeInv, TypeOK
      <3>3. /\ request'[r].op = request[r].op
            /\ request'[r].tx = request[r].tx
            /\ request'[r].patch = request[r].patch
            /\ request'[r].current = request[r].current
        BY <3>1, <3>2 DEF Pending
      <3>4. ShapeRight(request[r]) /\ RowRight(request[r])
        BY <3>1 DEF ReadOK, Pending, Idle
      <3>5. ShapeRight(request'[r]) /\ RowRight(request'[r])
        BY <2>5, <3>3, <3>4
           DEF ShapeRight, RowRight, ValidateUpdate, Valid, MergedRefs
      <3> QED
        BY <2>5, <3>2, <3>5, RequestRead DEF ValidateUpdate
    <2>6. CASE CommitUpdate(r)
      BY <2>6, PatchedRight, ReadWrite, RowWrite DEF CommitUpdate
    <2>7. ASSUME NEW t \in TxIds, LoadForRemove(r, t)
          PROVE  ReadOK' /\ RefsLive' /\ LabelNamesItsCashbox'
      BY <2>1, <2>7 DEF LoadForRemove, ShapeRight, RowRight, CurrentOf, LiveRow, Unborn
    <2>8. CASE CommitRemove(r)
      <3>1. request[r].tx \in TxIds
        BY <2>8 DEF CommitRemove, Ready, TypeInv, RequestOK
      <3> QED
        BY <2>8, <3>1, ReadWrite, RowWrite DEF CommitRemove
    <2>9. CASE Abort(r)
      <3>1. \A s \in Requests : request'[s] = IF s = r THEN Idle ELSE request[s]
        BY <2>9 DEF Abort, TypeInv, TypeOK
      <3> QED
        BY <2>9, <3>1, RequestRead DEF Abort
    <2> QED
      BY <1>3, <2>2, <2>3, <2>4, <2>5, <2>6, <2>7, <2>8, <2>9 DEF RequestStep
  <1> QED
    BY <1>1, <1>2, <1>3 DEF Next

\* However requests interleave, and although cashboxes are validated before the
\* database transaction that uses them, rows refer to existing cashboxes only.
THEOREM ReferencesHold == Spec => []RefsLive
  <1>1. RefInv => RefsLive
    BY DEF RefInv
  <1> QED
    BY <1>1, RefInit, RefStep, PTL DEF Spec

\* However requests interleave, the label of a row names the cashbox the row
\* points at, and outlives it.
THEOREM LabelsHold == Spec => []LabelNamesItsCashbox
  <1>1. RefInv => LabelNamesItsCashbox
    BY DEF RefInv
  <1> QED
    BY <1>1, RefInit, RefStep, PTL DEF Spec

-----------------------------------------------------------------------------
(* Balances. *)

LEMMA SumOfNone ==
    ASSUME NEW f, DOMAIN f = {}
    PROVE  SumFunction(f) = 0
  <1>1. \E iter : iter = [s \in SUBSET {} |->
                            IF s = {} THEN 0
                            ELSE LET x == CHOOSE x \in s : TRUE
                                 IN  f[x] + iter[s \ {x}]]
    <2> WITNESS [s \in SUBSET {} |-> 0]
    <2> QED OBVIOUS
  <1> QED
    BY <1>1 DEF SumFunction, SumFunctionOnSet, FoldFunctionOnSet, MapThenFoldSet

\* A cashbox no row refers to holds its initial balance.
LEMMA UntouchedBalance ==
    ASSUME NEW c \in Cashboxes, RowsOf(c) = {}, InitialBalance(c) \in Int
    PROVE  Balance(c) = InitialBalance(c)
  <1>1. SumFunction([t \in RowsOf(c) |-> Flow(transaction[t], c)]) = 0
    BY SumOfNone
  <1> QED
    BY <1>1 DEF Balance

\* A balance depends on the initial balance and on the rows that refer to the
\* cashbox, and on nothing else.
LEMMA SameBalance ==
    ASSUME NEW c \in Cashboxes, InitialBalance(c)' = InitialBalance(c),
           RowsOf(c)' = RowsOf(c),
           \A t \in RowsOf(c) : Flow(transaction[t], c)' = Flow(transaction[t], c)
    PROVE  Balance(c)' = Balance(c)
  BY DEF Balance

\* A write to a row that does not refer to c, before or after, leaves the
\* balance of c alone.
LEMMA WriteElsewhere ==
    ASSUME TypeInv, NEW r \in Requests, NEW t \in TxIds,
           NEW row \in Row \cup {Deleted}, Write(r, t, row), NEW c \in Cashboxes,
           LiveRow(t) => c \notin BoxesOf(transaction[t].ref),
           row # Deleted => c \notin BoxesOf(row.ref)
    PROVE  Balance(c)' = Balance(c)
  <1>1. \A u \in TxIds : transaction'[u] = IF u = t THEN row ELSE transaction[u]
    BY DEF Write, TypeInv, TypeOK
  <1>2. t \notin RowsOf(c)
    BY DEF RowsOf
  <1>3. ~(row.state = "live" /\ c \in BoxesOf(row.ref))
    BY DEF Deleted
  <1>4. RowsOf(c)' = {u \in TxIds : transaction'[u].state = "live"
                                   /\ c \in BoxesOf(transaction'[u].ref)}
    BY DEF RowsOf, LiveRow, BoxesOf
  <1>5. RowsOf(c)' = RowsOf(c)
    BY <1>1, <1>2, <1>3, <1>4 DEF RowsOf, LiveRow
  <1>6. \A u \in RowsOf(c) : transaction'[u] = transaction[u]
    BY <1>1, <1>2 DEF RowsOf
  <1>7. \A u \in RowsOf(c) : Flow(transaction[u], c)' = Flow(transaction[u], c)
    BY <1>6 DEF Flow, Side
  <1>8. InitialBalance(c)' = InitialBalance(c)
    BY DEF InitialBalance, LiveBox, Write
  <1> QED
    BY <1>5, <1>7, <1>8, SameBalance

\* A step that leaves the rows alone leaves alone the balance of every cashbox
\* it does not change.
LEMMA RowsAlone ==
    ASSUME NEW c \in Cashboxes, UNCHANGED transaction, cashbox'[c] = cashbox[c]
    PROVE  Balance(c)' = Balance(c)
  <1>1. RowsOf(c)' = RowsOf(c)
    BY DEF RowsOf, LiveRow, BoxesOf
  <1>2. \A u \in RowsOf(c) : Flow(transaction[u], c)' = Flow(transaction[u], c)
    BY DEF Flow, Side
  <1>3. InitialBalance(c)' = InitialBalance(c)
    BY DEF InitialBalance, LiveBox
  <1> QED
    BY <1>1, <1>2, <1>3, SameBalance

\* A cashbox that does not exist has no rows and no balance.
LEMMA NoBoxNoBalance ==
    ASSUME RefsLive, NEW c \in Cashboxes, ~LiveBox(c)
    PROVE  RowsOf(c) = {} /\ Balance(c) = 0
  <1>1. RowsOf(c) = {}
    BY DEF RefsLive, RowsOf
  <1>2. InitialBalance(c) = 0
    BY DEF InitialBalance
  <1> QED
    BY <1>1, <1>2, UntouchedBalance

\* Deleting a cashbox leaves the balance of every other cashbox alone.
LEMMA RemoveElsewhere ==
    ASSUME TypeInv, NEW c \in Cashboxes, NEW d \in Cashboxes, c # d, RemoveCashbox(d)
    PROVE  Balance(c)' = Balance(c)
  <1>1. \A t \in TxIds : transaction'[t] = Detached(transaction[t], d)
    BY DEF RemoveCashbox
  <1>2. \A t \in TxIds : LiveRow(t)' <=> LiveRow(t)
    BY <1>1, DetachedRow DEF LiveRow
  <1>3. RowsOf(c)' = {t \in TxIds : LiveRow(t)' /\ c \in BoxesOf(transaction'[t].ref)}
    BY DEF RowsOf, BoxesOf
  <1>4. RowsOf(c)' = RowsOf(c)
    BY <1>1, <1>2, <1>3, DetachedRow DEF RowsOf
  <1>5. ASSUME NEW t \in RowsOf(c)
        PROVE  Flow(transaction[t], c)' = Flow(transaction[t], c)
    <2>1. t \in TxIds /\ LiveRow(t) /\ c # None
      BY LedgerAssumption DEF RowsOf
    <2>2. /\ transaction'[t].type = transaction[t].type
          /\ transaction'[t].amount = transaction[t].amount
          /\ \A f \in RefFields :
                transaction'[t].ref[f] =
                  IF transaction[t].ref[f] = d THEN None ELSE transaction[t].ref[f]
      BY <1>1, <2>1, DetachedRow
    <2>3. \A f \in RefFields : (transaction'[t].ref[f] = c) <=> (transaction[t].ref[f] = c)
      BY <2>1, <2>2
    <2> QED
      BY <2>2, <2>3 DEF Flow, Side, RefFields
  <1>6. InitialBalance(c)' = InitialBalance(c)
    BY DEF InitialBalance, LiveBox, RemoveCashbox, TypeInv, TypeOK
  <1> QED
    BY <1>4, <1>5, <1>6, SameBalance

-----------------------------------------------------------------------------
(* No cashbox is overdrawn. *)

\* Either the cashbox of an existing row cannot be changed, or requests are
\* served one at a time.  Without this the guard of an edit may look at the
\* cashbox a row has left (run ledger_overdraft).
SafePatching == PatchableRefs = {} \/ \A r, s \in Requests : r = s

SafeInv == RefInv /\ GuardCoversRow /\ NonNegative

LEMMA SafeInit == Init => SafeInv
  BY RefInit DEF Init, SafeInv, GuardCoversRow, Covers, NonNegative, LiveBox, Unborn

\* The guard covers every cashbox a write can take money from.
LEMMA GuardedWrite ==
    ASSUME TypeInv, NonNegative, NEW r \in Requests, NEW t \in TxIds,
           NEW row \in Row \cup {Deleted}, Write(r, t, row),
           LiveRow(t) => BoxesOf(transaction[t].ref) \subseteq GuardIds(request[r]),
           row # Deleted => BoxesOf(row.ref) \subseteq GuardIds(request[r])
    PROVE  NonNegative'
  <1> SUFFICES ASSUME NEW c \in Cashboxes, LiveBox(c)'
               PROVE  Balance(c)' >= 0
    BY DEF NonNegative
  <1>1. CASE c \in GuardIds(request[r])
    BY <1>1 DEF Write, NonNegativeAfter
  <1>2. CASE c \notin GuardIds(request[r])
    <2>1. Balance(c)' = Balance(c)
      BY <1>2, WriteElsewhere
    <2>2. LiveBox(c)
      BY DEF Write, LiveBox
    <2> QED
      BY <2>1, <2>2 DEF NonNegative
  <1> QED
    BY <1>1, <1>2

\* A write that adds no cashbox to a row another request has loaded keeps the
\* guards of the other requests sufficient.
LEMMA CoverWrite ==
    ASSUME TypeInv, ReadOK, GuardCoversRow, NEW r \in Requests, NEW t \in TxIds,
           NEW row \in Row \cup {Deleted}, Write(r, t, row),
           \/ transaction[t] = Unborn
           \/ row = Deleted
           \/ \A s \in Requests : s = r
           \/ LiveRow(t) /\ BoxesOf(row.ref) \subseteq BoxesOf(transaction[t].ref)
    PROVE  GuardCoversRow'
  <1>1. \A u \in TxIds : transaction'[u] = IF u = t THEN row ELSE transaction[u]
    BY DEF Write, TypeInv, TypeOK
  <1>2. ASSUME NEW s \in Requests, s # r, request[s] # Idle, request[s].op # "create",
               transaction'[request[s].tx].state = "live"
        PROVE  BoxesOf(transaction'[request[s].tx].ref) \subseteq GuardIds(request[s])
    <2>1. request[s].tx \in TxIds /\ transaction[request[s].tx] # Unborn
      BY <1>2 DEF TypeInv, RequestOK, ReadOK, RowRight
    <2>2. CASE request[s].tx # t
      BY <1>1, <1>2, <2>1, <2>2 DEF GuardCoversRow, Covers, LiveRow
    <2>3. CASE request[s].tx = t
      <3>1. transaction'[t] = row /\ row # Deleted
        BY <1>1, <1>2, <2>3 DEF LiveRow, Deleted
      <3>2. LiveRow(t) /\ BoxesOf(row.ref) \subseteq BoxesOf(transaction[t].ref)
        BY <1>2, <2>1, <2>3, <3>1
      <3> QED
        BY <1>2, <2>3, <3>1, <3>2 DEF GuardCoversRow, Covers
    <2> QED
      BY <2>2, <2>3
  <1>3. \A s \in Requests : request'[s] = IF s = r THEN Idle ELSE request[s]
    BY DEF Write, TypeInv, TypeOK
  <1>4. ASSUME NEW s \in Requests
        PROVE  Covers(request[s])'
    BY <1>2, <1>3 DEF Covers, LiveRow, BoxesOf, GuardIds
  <1> QED
    BY <1>4 DEF GuardCoversRow

\* A patch adds only the cashboxes of the body to a row.
LEMMA PatchedBoxes ==
    ASSUME NEW q \in Pending, NEW row \in Row
    PROVE  /\ BoxesOf(Patched(q, row).ref) \subseteq
                 BoxesOf(row.ref) \cup BoxesOf(q.patch.ref)
           /\ PatchableRefs = {} => BoxesOf(Patched(q, row).ref) = BoxesOf(row.ref)
  <1>1. \A f \in RefFields : Patched(q, row).ref[f] =
           IF q.patch.ref[f] = Absent THEN row.ref[f] ELSE q.patch.ref[f]
    BY PatchedRow
  <1>2. PatchableRefs = {} => \A f \in RefFields : q.patch.ref[f] = Absent
    BY DEF Pending, Patch
  <1> QED
    BY <1>1, <1>2 DEF BoxesOf

\* A step that changes no row keeps the guards sufficient if what the requests
\* that remain or begin have read covers their row.
LEMMA CoverRead ==
    ASSUME TypeInv, GuardCoversRow, UNCHANGED transaction,
           \A s \in Requests : request'[s] = request[s] \/ Covers(request'[s])
    PROVE  GuardCoversRow'
  <1>1. \A q : Covers(q) => (q # Idle /\ q.op # "create" /\ transaction'[q.tx].state = "live"
                                => BoxesOf(transaction'[q.tx].ref) \subseteq GuardIds(q))
    BY DEF Covers, LiveRow
  <1>2. ASSUME NEW s \in Requests
        PROVE  Covers(request[s])'
    BY <1>1 DEF GuardCoversRow, Covers, LiveRow, BoxesOf, GuardIds
  <1> QED
    BY <1>2 DEF GuardCoversRow

\* Every step keeps every cashbox from being overdrawn.
LEMMA SafeStep == SafePatching /\ SafeInv /\ [Next]_vars => SafeInv'
  <1> SUFFICES ASSUME SafePatching, SafeInv, [Next]_vars
               PROVE  GuardCoversRow' /\ NonNegative'
    BY RefStep DEF SafeInv
  <1> USE DEF SafeInv, RefInv
  <1>1. CASE UNCHANGED vars
    <2>1. \A c \in Cashboxes : Balance(c)' = Balance(c)
      BY <1>1, RowsAlone DEF vars
    <2> QED
      BY <1>1, <2>1, CoverRead DEF vars, NonNegative, LiveBox
  <1>2. ASSUME NEW d \in Cashboxes, CashboxStep(d)
        PROVE  GuardCoversRow' /\ NonNegative'
    <2>1. ASSUME UNCHANGED <<transaction, request>>,
                 \A c \in Cashboxes \ {d} : cashbox'[c] = cashbox[c],
                 LiveBox(d)' => Balance(d)' >= 0
          PROVE  GuardCoversRow' /\ NonNegative'
      <3>1. \A c \in Cashboxes \ {d} : Balance(c)' = Balance(c)
        BY <2>1, RowsAlone
      <3>2. NonNegative'
        BY <2>1, <3>1 DEF NonNegative, LiveBox
      <3> QED
        BY <2>1, <3>2, CoverRead
    <2>2. ASSUME NEW b \in InitialBalances, NEW a \in BOOLEAN, CreateCashbox(d, b, a)
          PROVE  GuardCoversRow' /\ NonNegative'
      <3>1. RowsOf(d)' = {}
        <4>1. RowsOf(d) = {}
          BY <2>2, NoBoxNoBalance DEF CreateCashbox, LiveBox, Unborn
        <4> QED
          BY <2>2, <4>1 DEF CreateCashbox, RowsOf, LiveRow, BoxesOf
      <3>2. InitialBalance(d)' = b
        BY <2>2 DEF CreateCashbox, InitialBalance, LiveBox, TypeInv, TypeOK
      <3>3. SumFunction([t \in RowsOf(d)' |-> Flow(transaction[t], d)']) = 0
        BY <3>1, SumOfNone
      <3>4. Balance(d)' = b + SumFunction([t \in RowsOf(d)' |-> Flow(transaction[t], d)'])
        BY <3>2 DEF Balance
      <3>5. Balance(d)' >= 0
        BY <3>3, <3>4, LedgerAssumption
      <3> QED
        BY <2>1, <2>2, <3>5 DEF CreateCashbox, TypeInv, TypeOK
    <2>3. ASSUME NEW b \in InitialBalances, NEW a \in BOOLEAN, UpdateCashbox(d, b, a)
          PROVE  GuardCoversRow' /\ NonNegative'
      BY <2>1, <2>3 DEF UpdateCashbox, NonNegativeAfter, TypeInv, TypeOK
    <2>4. ASSUME NEW a \in BOOLEAN, SetActive(d, a)
          PROVE  GuardCoversRow' /\ NonNegative'
      <3>1. LiveBox(d) /\ cashbox[d] \in Cashbox
        BY <2>4, FreshTypes DEF SetActive, TypeInv
      <3>2. InitialBalance(d)' = InitialBalance(d)
        BY <2>4, <3>1 DEF SetActive, InitialBalance, LiveBox, TypeInv, TypeOK, Cashbox
      <3>3. RowsOf(d)' = RowsOf(d)
        BY <2>4 DEF SetActive, RowsOf, LiveRow, BoxesOf
      <3>4. \A u \in RowsOf(d) : Flow(transaction[u], d)' = Flow(transaction[u], d)
        BY <2>4 DEF SetActive, Flow, Side
      <3>5. Balance(d)' = Balance(d)
        BY <3>2, <3>3, <3>4, SameBalance
      <3> QED
        BY <2>1, <2>4, <3>1, <3>5 DEF SetActive, TypeInv, TypeOK, NonNegative
    <2>5. CASE RemoveCashbox(d)
      <3>1. ASSUME NEW c \in Cashboxes, LiveBox(c)'
            PROVE  Balance(c)' >= 0
        <4>1. c # d /\ LiveBox(c)
          BY <2>5, <3>1 DEF RemoveCashbox, LiveBox, Deleted, TypeInv, TypeOK
        <4> QED
          BY <2>5, <4>1, RemoveElsewhere DEF NonNegative
      <3>2. ASSUME NEW s \in Requests, request[s] # Idle, request[s].op # "create",
                   transaction'[request[s].tx].state = "live"
            PROVE  BoxesOf(transaction'[request[s].tx].ref) \subseteq GuardIds(request[s])
        <4>1. request[s].tx \in TxIds
          BY <3>2 DEF TypeInv, RequestOK
        <4>2. transaction'[request[s].tx] = Detached(transaction[request[s].tx], d)
          BY <2>5, <4>1 DEF RemoveCashbox
        <4>3. LiveRow(request[s].tx)
          BY <3>2, <4>1, <4>2, DetachedRow DEF LiveRow
        <4>4. BoxesOf(transaction'[request[s].tx].ref) \subseteq
                 BoxesOf(transaction[request[s].tx].ref)
          BY <4>1, <4>2, <4>3, DetachedRow
        <4> QED
          BY <3>2, <4>3, <4>4 DEF GuardCoversRow, Covers
      <3>3. GuardCoversRow'
        BY <2>5, <3>2 DEF GuardCoversRow, Covers, LiveRow, BoxesOf, GuardIds, RemoveCashbox
      <3> QED
        BY <3>1, <3>3 DEF NonNegative
    <2> QED
      BY <1>2, <2>2, <2>3, <2>4, <2>5 DEF CashboxStep
  <1>3. ASSUME NEW r \in Requests, RequestStep(r)
        PROVE  GuardCoversRow' /\ NonNegative'
    <2>1. ASSUME UNCHANGED <<cashbox, transaction>>,
                 \A s \in Requests : request'[s] = request[s] \/ Covers(request'[s])
          PROVE  GuardCoversRow' /\ NonNegative'
      <3>1. \A c \in Cashboxes : Balance(c)' = Balance(c)
        BY <2>1, RowsAlone
      <3> QED
        BY <2>1, <3>1, CoverRead DEF NonNegative, LiveBox
    <2>2. ASSUME NEW q, Begin(r, q), Covers(q)
          PROVE  GuardCoversRow' /\ NonNegative'
      <3>1. \A s \in Requests : request'[s] = IF s = r THEN q ELSE request[s]
        BY <2>2 DEF Begin, TypeInv, TypeOK
      <3> QED
        BY <2>1, <2>2, <3>1 DEF Begin
    <2>3. ASSUME NEW body \in Current, NEW amount \in Amounts,
                 ValidateCreate(r, body, amount)
          PROVE  GuardCoversRow' /\ NonNegative'
      BY <2>2, <2>3 DEF ValidateCreate, Covers
    <2>4. ASSUME NEW t \in TxIds, CommitCreate(r, t)
          PROVE  GuardCoversRow' /\ NonNegative'
      <3>1. ~LiveRow(t) /\ transaction[t] = Unborn
        BY <2>4 DEF CommitCreate, LiveRow, Unborn
      <3>2. BoxesOf(NewRow(request[r]).ref) \subseteq GuardIds(request[r])
        BY DEF NewRow, GuardIds
      <3> QED
        BY <2>4, <3>1, <3>2, NewRowRight, CoverWrite, GuardedWrite DEF CommitCreate
    <2>5. ASSUME NEW t \in TxIds, NEW patch \in Patch, LoadForUpdate(r, t, patch)
          PROVE  GuardCoversRow' /\ NonNegative'
      BY <2>2, <2>5 DEF LoadForUpdate, Covers, CurrentOf, GuardIds
    <2>6. CASE ValidateUpdate(r)
      <3>1. request[r] \in Pending
        BY <2>6, FreshTypes DEF ValidateUpdate, Idle, TypeInv
      <3>2. \A s \in Requests :
               request'[s] = IF s = r THEN [request[r] EXCEPT !.step = "ready"]
                                      ELSE request[s]
        BY <2>6 DEF ValidateUpdate, TypeInv, TypeOK
      <3>3. /\ request'[r].op = request[r].op
            /\ request'[r].tx = request[r].tx
            /\ request'[r].patch = request[r].patch
            /\ request'[r].current = request[r].current
        BY <3>1, <3>2 DEF Pending
      <3>4. Covers(request[r]) /\ request[r] # Idle
        BY <2>6 DEF GuardCoversRow, ValidateUpdate, Idle
      <3>5. Covers(request'[r])
        BY <3>3, <3>4 DEF Covers, GuardIds
      <3> QED
        BY <2>1, <2>6, <3>2, <3>5 DEF ValidateUpdate
    <2>7. CASE CommitUpdate(r)
      <3> DEFINE q == request[r]
                 old == transaction[q.tx]
                 row == Patched(q, old)
      <3>1. /\ q \in Pending /\ q.tx \in TxIds /\ old \in Row /\ row \in Row
            /\ LiveRow(q.tx)
        BY <2>7, PatchedRight DEF CommitUpdate
      <3>2. BoxesOf(old.ref) \subseteq GuardIds(q)
        BY <2>7, <3>1 DEF GuardCoversRow, Covers, CommitUpdate, Ready
      <3>3. BoxesOf(row.ref) \subseteq GuardIds(q)
        BY <3>1, <3>2, PatchedBoxes DEF GuardIds
      <3>4. \/ \A s \in Requests : s = r
            \/ LiveRow(q.tx) /\ BoxesOf(row.ref) \subseteq BoxesOf(old.ref)
        BY <3>1, PatchedBoxes DEF SafePatching
      <3>5. Write(r, q.tx, row)
        BY <2>7 DEF CommitUpdate
      <3>6. GuardCoversRow'
        BY <3>1, <3>4, <3>5, CoverWrite
      <3> QED
        BY <3>1, <3>2, <3>3, <3>5, <3>6, GuardedWrite
    <2>8. ASSUME NEW t \in TxIds, LoadForRemove(r, t)
          PROVE  GuardCoversRow' /\ NonNegative'
      BY <2>2, <2>8 DEF LoadForRemove, Covers, CurrentOf, GuardIds
    <2>9. CASE CommitRemove(r)
      <3>1. /\ request[r].tx \in TxIds
            /\ BoxesOf(transaction[request[r].tx].ref) \subseteq GuardIds(request[r])
        BY <2>9 DEF CommitRemove, Ready, TypeInv, RequestOK, GuardCoversRow, Covers
      <3> QED
        BY <2>9, <3>1, CoverWrite, GuardedWrite DEF CommitRemove
    <2>10. CASE Abort(r)
      <3>1. \A s \in Requests : request'[s] = IF s = r THEN Idle ELSE request[s]
        BY <2>10 DEF Abort, TypeInv, TypeOK
      <3> QED
        BY <2>1, <2>10, <3>1 DEF Abort, Covers
    <2> QED
      BY <1>3, <2>3, <2>4, <2>5, <2>6, <2>7, <2>8, <2>9, <2>10 DEF RequestStep
  <1> QED
    BY <1>1, <1>2, <1>3 DEF Next

\* No cashbox is ever overdrawn, however many requests interleave, as long as
\* the cashbox of an existing row is not changed; and with any edits when
\* requests are served one at a time.
THEOREM NeverOverdrawn == SafePatching => (Spec => []NonNegative)
  <1> SUFFICES ASSUME SafePatching PROVE Spec => []NonNegative
    OBVIOUS
  <1>1. SafeInv /\ [Next]_vars => SafeInv'
    BY SafeStep
  <1>2. SafeInv => NonNegative
    BY DEF SafeInv
  <1> QED
    BY <1>1, <1>2, SafeInit, PTL DEF Spec

\* The cashboxes an edit or a deletion guards, computed from what it read
\* first, still include those of the row when it writes.
THEOREM GuardStaysSufficient == SafePatching => (Spec => []GuardCoversRow)
  <1> SUFFICES ASSUME SafePatching PROVE Spec => []GuardCoversRow
    OBVIOUS
  <1>1. SafeInv /\ [Next]_vars => SafeInv'
    BY SafeStep
  <1>2. SafeInv => GuardCoversRow
    BY DEF SafeInv
  <1> QED
    BY <1>1, <1>2, SafeInit, PTL DEF Spec

-----------------------------------------------------------------------------
(* The ledger implements the pots. *)

\* A cashbox that no row refers to and that is not live holds nothing.
LEMMA NothingLeft ==
    ASSUME RefsLive', NEW c \in Cashboxes, ~LiveBox(c)'
    PROVE  RowsOf(c)' = {} /\ InitialBalance(c)' = 0 /\ Balance(c)' = 0
  <1>1. RowsOf(c)' = {}
    BY DEF RefsLive, RowsOf
  <1>2. InitialBalance(c)' = 0
    BY DEF InitialBalance
  <1>3. SumFunction([t \in RowsOf(c)' |-> Flow(transaction[t], c)']) = 0
    BY <1>1, SumOfNone
  <1>4. Balance(c)' = 0 + SumFunction([t \in RowsOf(c)' |-> Flow(transaction[t], c)'])
    BY <1>2 DEF Balance
  <1> QED
    BY <1>1, <1>2, <1>3, <1>4

LEMMA PotsInitially == Init => Pot!PotsInit
  <1> SUFFICES ASSUME Init PROVE Pot!PotsInit
    OBVIOUS
  <1>1. RefsLive
    BY RefInit DEF RefInv
  <1>2. ASSUME NEW c \in Cashboxes
        PROVE  cashbox[c].state = "unborn" /\ Balance(c) = 0
    BY <1>1, NoBoxNoBalance DEF Init, LiveBox, Unborn
  <1> QED
    BY <1>2 DEF Pot!PotsInit

\* A step that opens and closes no cashbox is a posting.
LEMMA PotsPost ==
    ASSUME SafeInv, SafeInv', \A c \in Cashboxes : cashbox'[c].state = cashbox[c].state
    PROVE  Pot!Post
  <1>1. ASSUME NEW c \in Cashboxes
        PROVE  Balance(c)' = Balance(c) \/ (cashbox[c].state = "live" /\ Balance(c)' >= 0)
    <2>1. CASE LiveBox(c)
      BY <2>1 DEF SafeInv, NonNegative, LiveBox
    <2>2. CASE ~LiveBox(c)
      BY <2>2, NoBoxNoBalance, NothingLeft DEF SafeInv, RefInv, LiveBox
    <2> QED
      BY <2>1, <2>2
  <1> QED
    BY <1>1 DEF Pot!Post

LEMMA PotsOpen ==
    ASSUME SafeInv, SafeInv', NEW c \in Cashboxes, NEW b \in InitialBalances,
           NEW a \in BOOLEAN, CreateCashbox(c, b, a)
    PROVE  Pot!Open(c)
  <1>1. \A d \in Cashboxes :
           cashbox'[d] = IF d = c THEN [state |-> "live", initialBalance |-> b, isActive |-> a]
                         ELSE cashbox[d]
    BY DEF CreateCashbox, SafeInv, RefInv, TypeInv, TypeOK
  <1>2. Balance(c)' >= 0
    BY <1>1 DEF SafeInv, NonNegative, LiveBox
  <1>3. \A d \in Cashboxes \ {c} : Balance(d)' = Balance(d)
    BY <1>1, RowsAlone DEF CreateCashbox
  <1>4. cashbox[c].state = "unborn"
    BY DEF CreateCashbox, Unborn
  <1>5. [d \in Cashboxes |-> cashbox[d].state]' =
           [[d \in Cashboxes |-> cashbox[d].state] EXCEPT ![c] = "live"]
    <2>1. \A d \in Cashboxes : cashbox'[d].state = IF d = c THEN "live" ELSE cashbox[d].state
      BY <1>1
    <2>2. [d \in Cashboxes |-> cashbox'[d].state] =
             [d \in Cashboxes |-> IF d = c THEN "live" ELSE cashbox[d].state]
      BY <2>1
    <2> QED
      BY <2>2
  <1> QED
    BY <1>2, <1>3, <1>4, <1>5 DEF Pot!Open, Pot!OthersKeepFunds

LEMMA PotsClose ==
    ASSUME SafeInv, SafeInv', NEW c \in Cashboxes, RemoveCashbox(c)
    PROVE  Pot!Close(c)
  <1>1. \A d \in Cashboxes : cashbox'[d] = IF d = c THEN Deleted ELSE cashbox[d]
    BY DEF RemoveCashbox, SafeInv, RefInv, TypeInv, TypeOK
  <1>2. Balance(c)' = 0
    BY <1>1, NothingLeft DEF SafeInv, RefInv, LiveBox, Deleted
  <1>3. \A d \in Cashboxes \ {c} : Balance(d)' = Balance(d)
    BY RemoveElsewhere DEF SafeInv, RefInv
  <1>4. cashbox[c].state = "live" /\ Balance(c) = 0
    BY DEF RemoveCashbox, LiveBox
  <1>5. [d \in Cashboxes |-> Balance(d)]' = [d \in Cashboxes |-> Balance(d)]
    BY <1>2, <1>3, <1>4
  <1>6. [d \in Cashboxes |-> cashbox[d].state]' =
           [[d \in Cashboxes |-> cashbox[d].state] EXCEPT ![c] = "deleted"]
    <2>1. \A d \in Cashboxes : cashbox'[d].state = IF d = c THEN "deleted" ELSE cashbox[d].state
      BY <1>1 DEF Deleted
    <2>2. [d \in Cashboxes |-> cashbox'[d].state] =
             [d \in Cashboxes |-> IF d = c THEN "deleted" ELSE cashbox[d].state]
      BY <2>1
    <2> QED
      BY <2>2
  <1> QED
    BY <1>4, <1>5, <1>6 DEF Pot!Close

LEMMA PotsStep ==
    ASSUME SafeInv, SafeInv', [Next]_vars
    PROVE  [Pot!PotsNext]_(Pot!potVars)
  <1> DEFINE Stays == \A c \in Cashboxes : cashbox'[c].state = cashbox[c].state
  <1>1. CASE UNCHANGED vars
    BY <1>1, PotsPost DEF vars, Pot!PotsNext
  <1>2. ASSUME NEW c \in Cashboxes, CashboxStep(c)
        PROVE  Pot!PotsNext
    <2>1. ASSUME NEW b \in InitialBalances, NEW a \in BOOLEAN, CreateCashbox(c, b, a)
          PROVE  Pot!PotsNext
      BY <2>1, PotsOpen DEF Pot!PotsNext
    <2>2. ASSUME NEW b \in InitialBalances, NEW a \in BOOLEAN, UpdateCashbox(c, b, a)
          PROVE  Stays
      <3>1. cashbox[c] \in Cashbox
        BY <2>2, FreshTypes DEF UpdateCashbox, SafeInv, RefInv, TypeInv
      <3> QED
        BY <2>2, <3>1 DEF UpdateCashbox, Cashbox, SafeInv, RefInv, TypeInv, TypeOK
    <2>3. ASSUME NEW a \in BOOLEAN, SetActive(c, a)
          PROVE  Stays
      <3>1. cashbox[c] \in Cashbox
        BY <2>3, FreshTypes DEF SetActive, SafeInv, RefInv, TypeInv
      <3> QED
        BY <2>3, <3>1 DEF SetActive, Cashbox, SafeInv, RefInv, TypeInv, TypeOK
    <2>4. CASE RemoveCashbox(c)
      BY <2>4, PotsClose DEF Pot!PotsNext
    <2> QED
      BY <1>2, <2>1, <2>2, <2>3, <2>4, PotsPost DEF CashboxStep, Pot!PotsNext
  <1>3. ASSUME NEW r \in Requests, RequestStep(r)
        PROVE  Pot!PotsNext
    <2>1. UNCHANGED cashbox
      BY <1>3 DEF RequestStep, ValidateCreate, CommitCreate, LoadForUpdate, ValidateUpdate,
                  CommitUpdate, LoadForRemove, CommitRemove, Abort, Begin, Write
    <2> QED
      BY <2>1, PotsPost DEF Pot!PotsNext
  <1> QED
    BY <1>1, <1>2, <1>3 DEF Next

\* Under the same condition the rows implement the pots: every step of the
\* ledger opens one, closes an empty one, posts, or changes nothing a user
\* sees; closing one detaches its rows and leaves all other balances.
THEOREM LedgerImplementsPots == SafePatching => (Spec => ImplementsPots)
  <1> SUFFICES ASSUME SafePatching PROVE Spec => ImplementsPots
    OBVIOUS
  <1>1. SafeInv /\ [Next]_vars => SafeInv'
    BY SafeStep
  <1>2. SafeInv /\ SafeInv' /\ [Next]_vars => [Pot!PotsNext]_(Pot!potVars)
    BY PotsStep
  <1> QED
    BY <1>1, <1>2, SafeInit, PotsInitially, PTL DEF Spec, ImplementsPots, Pot!PotsSpec

-----------------------------------------------------------------------------
(* A null cashbox. *)

\* How the cashboxes may move on: a deleted one stays so.
LEMMA DeletedStays ==
    ASSUME TypeInv, [Next]_vars, NEW c \in Cashboxes, cashbox[c] = Deleted
    PROVE  cashbox'[c] = Deleted
  <1>1. CASE UNCHANGED cashbox
    BY <1>1
  <1>2. ASSUME NEW d \in Cashboxes, CashboxStep(d)
        PROVE  cashbox'[c] = Deleted
    <2>1. ASSUME d # c, \E box : cashbox' = [cashbox EXCEPT ![d] = box]
          PROVE  cashbox'[c] = Deleted
      BY <2>1 DEF TypeInv, TypeOK
    <2>2. \/ LiveBox(d) \/ cashbox[d] = Unborn
      BY <1>2 DEF CashboxStep, CreateCashbox, UpdateCashbox, SetActive, RemoveCashbox
    <2>3. d # c
      BY <2>2 DEF LiveBox, Unborn, Deleted
    <2>4. \E box : cashbox' = [cashbox EXCEPT ![d] = box]
      BY <1>2 DEF CashboxStep, CreateCashbox, UpdateCashbox, SetActive, RemoveCashbox
    <2> QED
      BY <2>1, <2>3, <2>4
  <1>3. ASSUME NEW r \in Requests, RequestStep(r)
        PROVE  UNCHANGED cashbox
    BY <1>3 DEF RequestStep, ValidateCreate, CommitCreate, LoadForUpdate, ValidateUpdate,
                CommitUpdate, LoadForRemove, CommitRemove, Abort, Begin, Write
  <1> QED
    BY <1>1, <1>2, <1>3 DEF Next, vars

\* The field f of a row is null only because its cashbox was deleted.
NullRight(row, f, boxes) ==
    row.ref[f] = None => \E c \in Cashboxes : row.label[f] = c /\ boxes[c] = Deleted

LEMMA NullStep ==
    ASSUME None \notin PatchableRefs, RefInv, NullMeansDeleted, [Next]_vars
    PROVE  NullMeansDeleted'
  <1> USE DEF RefInv
  <1>1. ASSUME NEW row, NEW f, NullRight(row, f, cashbox)
        PROVE  NullRight(row, f, cashbox')
    BY <1>1, DeletedStays DEF NullRight
  <1>2. \A t \in TxIds : LiveRow(t) =>
          \A f \in RequiredRefs[transaction[t].type] : NullRight(transaction[t], f, cashbox)
    BY DEF NullMeansDeleted, NullRight
  <1> SUFFICES ASSUME NEW t \in TxIds, LiveRow(t)',
                      NEW f \in RequiredRefs[transaction'[t].type]
               PROVE  NullRight(transaction'[t], f, cashbox')
    BY DEF NullMeansDeleted, NullRight
  <1>3. CASE transaction'[t] = transaction[t]
    BY <1>1, <1>2, <1>3 DEF LiveRow
  <1>4. ASSUME NEW r \in Requests, NEW u \in TxIds, CommitCreate(r, u)
        PROVE  NullRight(transaction'[t], f, cashbox')
    <2>1. transaction'[t] = IF t = u THEN NewRow(request[r]) ELSE transaction[t]
      BY <1>4 DEF CommitCreate, Write, TypeInv, TypeOK
    <2>2. CASE t = u
      <3>1. /\ request[r] \in Pending /\ NewRow(request[r]) \in Row
            /\ ShapeOK(request[r].current.type, request[r].current.ref)
        BY <1>4, NewRowRight DEF ReadOK, ShapeRight, CommitCreate, Ready
      <3>2. transaction'[t].type = request[r].current.type
            /\ transaction'[t].ref = request[r].current.ref
        BY <2>1, <2>2 DEF NewRow
      <3>3. f \in RefFields
        BY <3>1, <3>2, LedgerAssumption DEF RequiredRefs, RefFields, Pending, Current
      <3>4. transaction'[t].ref[f] # None
        BY <3>1, <3>2, <3>3 DEF ShapeOK
      <3> QED
        BY <3>4 DEF NullRight
    <2> QED
      BY <1>3, <2>1, <2>2
  <1>5. ASSUME NEW r \in Requests, CommitUpdate(r)
        PROVE  NullRight(transaction'[t], f, cashbox')
    <2> DEFINE q == request[r]
               old == transaction[q.tx]
               row == Patched(q, old)
    <2>1. q \in Pending /\ q.tx \in TxIds /\ old \in Row /\ LiveRow(q.tx)
      BY <1>5, PatchedRight DEF CommitUpdate
    <2>2. transaction'[t] = IF t = q.tx THEN row ELSE transaction[t]
      BY <1>5, <2>1 DEF CommitUpdate, Write, TypeInv, TypeOK
    <2>3. CASE t = q.tx
      <3>1. row.type = old.type
        BY <2>1, PatchedRow
      <3>2. f \in RequiredRefs[old.type] /\ f \in RefFields
        BY <2>1, <2>2, <2>3, <3>1, LedgerAssumption DEF RequiredRefs, RefFields, Row
      <3>3. /\ row.ref[f] = IF q.patch.ref[f] = Absent THEN old.ref[f] ELSE q.patch.ref[f]
            /\ row.label[f] = IF q.patch.ref[f] = Absent THEN old.label[f]
                              ELSE MergedRefs(q)[f]
        BY <2>1, <3>2, PatchedRow
      <3>4. q.patch.ref[f] # Absent => row.ref[f] # None
        BY <2>1, <3>2, <3>3 DEF Pending, Patch
      <3>5. NullRight(old, f, cashbox)
        BY <1>2, <2>1, <3>2
      <3>6. NullRight(row, f, cashbox)
        BY <3>3, <3>4, <3>5 DEF NullRight
      <3> QED
        BY <1>1, <2>2, <2>3, <3>6
    <2> QED
      BY <1>3, <2>2, <2>3
  <1>6. ASSUME NEW r \in Requests, CommitRemove(r)
        PROVE  NullRight(transaction'[t], f, cashbox')
    <2>1. request[r].tx \in TxIds
      BY <1>6 DEF CommitRemove, Ready, TypeInv, RequestOK
    <2>2. transaction'[t] = IF t = request[r].tx THEN Deleted ELSE transaction[t]
      BY <1>6, <2>1 DEF CommitRemove, Write, TypeInv, TypeOK
    <2> QED
      BY <1>3, <2>2 DEF LiveRow, Deleted
  <1>7. ASSUME NEW c \in Cashboxes, RemoveCashbox(c)
        PROVE  NullRight(transaction'[t], f, cashbox')
    <2>1. transaction'[t] = Detached(transaction[t], c)
      BY <1>7 DEF RemoveCashbox
    <2>2. LiveRow(t) /\ transaction[t] \in Row
      BY <2>1, DetachedRow, FreshTypes DEF LiveRow, TypeInv
    <2>3. transaction'[t].type = transaction[t].type
          /\ transaction'[t].label = transaction[t].label
      BY <2>1, <2>2, DetachedRow
    <2>4. f \in RequiredRefs[transaction[t].type] /\ f \in RefFields
      BY <2>2, <2>3, LedgerAssumption DEF RequiredRefs, RefFields, Row
    <2>5. transaction'[t].ref[f] =
             IF transaction[t].ref[f] = c THEN None ELSE transaction[t].ref[f]
      BY <2>1, <2>2, <2>4, DetachedRow
    <2>6. CASE transaction[t].ref[f] = c
      <3>1. transaction[t].label[f] = c
        BY <2>2, <2>4, <2>6, LedgerAssumption DEF LabelNamesItsCashbox
      <3>2. cashbox'[c] = Deleted
        BY <1>7 DEF RemoveCashbox, TypeInv, TypeOK
      <3> QED
        BY <2>3, <3>1, <3>2 DEF NullRight
    <2>7. CASE transaction[t].ref[f] # c
      <3>1. NullRight(transaction[t], f, cashbox')
        BY <1>1, <1>2, <2>2, <2>4
      <3> QED
        BY <2>3, <2>5, <2>7, <3>1 DEF NullRight
    <2> QED
      BY <2>6, <2>7
  <1>8. \/ UNCHANGED transaction
        \/ \E r \in Requests, u \in TxIds : CommitCreate(r, u)
        \/ \E r \in Requests : CommitUpdate(r) \/ CommitRemove(r)
        \/ \E c \in Cashboxes : RemoveCashbox(c)
    BY DEF Next, vars, CashboxStep, CreateCashbox, UpdateCashbox, SetActive, RequestStep,
           ValidateCreate, LoadForUpdate, ValidateUpdate, LoadForRemove, Abort, Begin
  <1> QED
    BY <1>3, <1>4, <1>5, <1>6, <1>7, <1>8

\* If no edit sends an explicit null, a null cashbox on a row means that its
\* cashbox was deleted, however many requests interleave.
THEOREM NullsAreDeletions == None \notin PatchableRefs => (Spec => []NullMeansDeleted)
  <1> SUFFICES ASSUME None \notin PatchableRefs PROVE Spec => []NullMeansDeleted
    OBVIOUS
  <1>1. Init => RefInv /\ NullMeansDeleted
    BY RefInit DEF Init, NullMeansDeleted, LiveRow, Unborn
  <1>2. RefInv /\ NullMeansDeleted /\ [Next]_vars => (RefInv /\ NullMeansDeleted)'
    BY RefStep, NullStep
  <1> QED
    BY <1>1, <1>2, PTL DEF Spec

-----------------------------------------------------------------------------
(* The two sides of a transfer. *)

\* What a request in flight knows of the two sides, when SafePatching holds: the
\* references it is about to write differ, and those of the row are still the
\* ones it read, or null.
SidesRight(q) ==
    /\ q.op = "create" => DistinctOK(q.current.ref)
    /\ (q.op = "update" /\ q.step = "ready" /\ TouchesRef(q.patch))
          => DistinctOK(MergedRefs(q))
    /\ (q.op # "create" /\ LiveRow(q.tx))
          => \A f \in RefFields : transaction[q.tx].ref[f] \in {None, q.current.ref[f]}

SidesOK == \A r \in Requests : request[r] # Idle => SidesRight(request[r])

SidesInv == TypeInv /\ ReadOK /\ SidesOK /\ DistinctCashboxes

\* No cashbox is on both sides.
Distinct(refs) == \A c \in Cashboxes : \E f \in RefFields : refs[f] # c

LEMMA DistinctAsGuarded ==
    ASSUME NEW refs, DistinctOK(refs)
    PROVE  Distinct(refs)
  BY LedgerAssumption DEF DistinctOK, Distinct, RefFields

\* A step that leaves a row, or some of its sides, keeps the sides apart.
LEMMA SidesWrite ==
    ASSUME TypeInv, ReadOK, SidesOK, DistinctCashboxes,
           NEW r \in Requests, NEW t \in TxIds, NEW row \in Row \cup {Deleted},
           Write(r, t, row),
           row # Deleted => Distinct(row.ref),
           \/ transaction[t] = Unborn
           \/ row = Deleted
           \/ \A s \in Requests : s = r
           \/ LiveRow(t) /\ \A f \in RefFields : row.ref[f] = transaction[t].ref[f]
    PROVE  SidesOK' /\ DistinctCashboxes'
  <1>1. \A u \in TxIds : transaction'[u] = IF u = t THEN row ELSE transaction[u]
    BY DEF Write, TypeInv, TypeOK
  <1>2. DistinctCashboxes'
    BY <1>1 DEF DistinctCashboxes, Distinct, LiveRow, Deleted
  <1>3. ASSUME NEW s \in Requests, request'[s] # Idle
        PROVE  SidesRight(request[s])'
    <2>1. s # r /\ request'[s] = request[s] /\ request[s] # Idle
      BY <1>3 DEF Write, TypeInv, TypeOK
    <2>2. SidesRight(request[s]) /\ RowRight(request[s])
      BY <2>1 DEF SidesOK, ReadOK
    <2>3. request[s].op # "create" => request[s].tx \in TxIds
      BY <2>1 DEF TypeInv, RequestOK
    <2>4. ASSUME request[s].op # "create", transaction'[request[s].tx].state = "live"
          PROVE  \A f \in RefFields :
                    transaction'[request[s].tx].ref[f] \in {None, request[s].current.ref[f]}
      <3>1. CASE request[s].tx # t
        BY <1>1, <2>2, <2>3, <2>4, <3>1 DEF SidesRight, LiveRow
      <3>2. CASE request[s].tx = t
        <4>1. transaction[t] # Unborn /\ row # Deleted
          BY <1>1, <2>2, <2>3, <2>4, <3>2 DEF RowRight, Deleted
        <4>2. LiveRow(t) /\ \A f \in RefFields : row.ref[f] = transaction[t].ref[f]
          BY <2>1, <4>1
        <4> QED
          BY <1>1, <2>2, <2>3, <2>4, <3>2, <4>2 DEF SidesRight
      <3> QED
        BY <3>1, <3>2
    <2>5. SidesRight(request[s]) =>
            /\ request[s].op = "create" => DistinctOK(request[s].current.ref)
            /\ (request[s].op = "update" /\ request[s].step = "ready"
                  /\ TouchesRef(request[s].patch)) => DistinctOK(MergedRefs(request[s]))
      BY DEF SidesRight
    <2> QED
      BY <2>1, <2>2, <2>4, <2>5 DEF SidesRight, LiveRow, DistinctOK, MergedRefs, TouchesRef
  <1> QED
    BY <1>2, <1>3 DEF SidesOK

\* Steps that leave the rows alone, or detach some.
LEMMA SidesRead ==
    ASSUME TypeInv, SidesOK, DistinctCashboxes,
           \A t \in TxIds : LiveRow(t)' =>
               /\ LiveRow(t)
               /\ \A f \in RefFields : transaction'[t].ref[f] \in {None, transaction[t].ref[f]},
           \A s \in Requests : request'[s] # Idle =>
               /\ request'[s].op # "create" => request'[s].tx \in TxIds
               /\ request'[s] = request[s] \/ SidesRight(request'[s])
    PROVE  SidesOK' /\ DistinctCashboxes'
  <1>1. DistinctCashboxes'
    BY LedgerAssumption DEF DistinctCashboxes
  <1>2. ASSUME NEW s \in Requests, request'[s] # Idle
        PROVE  SidesRight(request[s])'
    <2> DEFINE q == request'[s]
    <2>1. SidesRight(q)
      BY <1>2 DEF SidesOK
    <2>2. /\ q.op = "create" => DistinctOK(q.current.ref)
          /\ (q.op = "update" /\ q.step = "ready" /\ TouchesRef(q.patch))
                => DistinctOK(MergedRefs(q))
          /\ (q.op # "create" /\ LiveRow(q.tx))
                => \A f \in RefFields : transaction[q.tx].ref[f] \in {None, q.current.ref[f]}
      BY <2>1 DEF SidesRight
    <2>3. (q.op # "create" /\ transaction'[q.tx].state = "live")
                => \A f \in RefFields : transaction'[q.tx].ref[f] \in {None, q.current.ref[f]}
      BY <1>2, <2>2 DEF LiveRow
    <2> QED
      BY <2>2, <2>3 DEF SidesRight, LiveRow, DistinctOK, MergedRefs, TouchesRef
  <1> QED
    BY <1>1, <1>2 DEF SidesOK

\* The sides an edit writes differ: each is what it read, what the body names,
\* or null.
LEMMA PatchedSides ==
    ASSUME SidesInv, NEW r \in Requests, CommitUpdate(r)
    PROVE  LET q == request[r] IN Distinct(Patched(q, transaction[q.tx]).ref)
  <1> DEFINE q == request[r]
             old == transaction[q.tx]
             row == Patched(q, old)
  <1>1. q \in Pending /\ q.tx \in TxIds /\ LiveRow(q.tx) /\ old \in Row
    BY FreshTypes DEF CommitUpdate, Ready, SidesInv, TypeInv, RequestOK
  <1>2. \A f \in RefFields :
          row.ref[f] = IF q.patch.ref[f] = Absent THEN old.ref[f] ELSE q.patch.ref[f]
    BY <1>1, PatchedRow
  <1>3. SidesRight(q)
    BY DEF SidesInv, SidesOK, CommitUpdate, Ready
  <1>4. CASE ~TouchesRef(q.patch)
    <2>1. \A f \in RefFields : row.ref[f] = old.ref[f]
      BY <1>2, <1>4 DEF TouchesRef
    <2> QED
      BY <1>1, <2>1 DEF SidesInv, DistinctCashboxes, Distinct
  <1>5. CASE TouchesRef(q.patch)
    <2>1. DistinctOK(MergedRefs(q))
      BY <1>3, <1>5 DEF SidesRight, CommitUpdate, Ready
    <2>2. Distinct(MergedRefs(q))
      BY <2>1, DistinctAsGuarded
    <2>3. ASSUME NEW c \in Cashboxes, NEW f \in RefFields, row.ref[f] = c
          PROVE  MergedRefs(q)[f] = c
      <3>1. CASE q.patch.ref[f] = Absent
        <4>1. old.ref[f] = c /\ c # None
          BY <1>2, <2>3, <3>1, LedgerAssumption
        <4>2. q.current.ref[f] = c
          BY <1>1, <1>3, <4>1 DEF SidesRight, CommitUpdate, Ready
        <4> QED
          BY <3>1, <4>2, LedgerAssumption DEF MergedRefs
      <3>2. CASE q.patch.ref[f] # Absent
        BY <1>2, <2>3, <3>2 DEF MergedRefs
      <3> QED
        BY <3>1, <3>2
    <2> QED
      BY <2>2, <2>3 DEF Distinct
  <1> QED
    BY <1>4, <1>5

LEMMA SidesStep ==
    ASSUME SafePatching, SidesInv, [Next]_vars
    PROVE  SidesOK' /\ DistinctCashboxes'
  <1> USE DEF SidesInv
  <1>1. ASSUME UNCHANGED <<transaction, request>>
        PROVE  SidesOK' /\ DistinctCashboxes'
    BY <1>1, SidesRead DEF LiveRow, TypeInv, RequestOK
  <1>2. ASSUME NEW c \in Cashboxes, RemoveCashbox(c)
        PROVE  SidesOK' /\ DistinctCashboxes'
    <2>1. ASSUME NEW t \in TxIds, LiveRow(t)'
          PROVE  /\ LiveRow(t)
                 /\ \A f \in RefFields :
                       transaction'[t].ref[f] \in {None, transaction[t].ref[f]}
      <3>1. transaction'[t] = Detached(transaction[t], c)
        BY <1>2 DEF RemoveCashbox
      <3> QED
        BY <2>1, <3>1, DetachedRow DEF LiveRow
    <2> QED
      BY <1>2, <2>1, SidesRead DEF RemoveCashbox, TypeInv, RequestOK
  <1>3. ASSUME NEW r \in Requests, RequestStep(r)
        PROVE  SidesOK' /\ DistinctCashboxes'
    <2>1. ASSUME NEW q, Begin(r, q), SidesRight(q), q.op # "create" => q.tx \in TxIds
          PROVE  SidesOK' /\ DistinctCashboxes'
      <3>1. \A s \in Requests : request'[s] = IF s = r THEN q ELSE request[s]
        BY <2>1 DEF Begin, TypeInv, TypeOK
      <3> QED
        BY <2>1, <3>1, SidesRead DEF Begin, LiveRow, TypeInv, RequestOK
    <2>2. ASSUME NEW body \in Current, NEW amount \in Amounts,
                 ValidateCreate(r, body, amount)
          PROVE  SidesOK' /\ DistinctCashboxes'
      BY <2>1, <2>2 DEF ValidateCreate, Valid, SidesRight
    <2>3. ASSUME NEW t \in TxIds, CommitCreate(r, t)
          PROVE  SidesOK' /\ DistinctCashboxes'
      <3>1. /\ NewRow(request[r]) \in Row
            /\ NewRow(request[r]).ref = request[r].current.ref
        BY <2>3, NewRowRight
      <3>2. DistinctOK(request[r].current.ref)
        BY <2>3 DEF SidesOK, SidesRight, CommitCreate, Ready
      <3> QED
        BY <2>3, <3>1, <3>2, DistinctAsGuarded, SidesWrite DEF CommitCreate
    <2>4. ASSUME NEW t \in TxIds, NEW patch \in Patch, LoadForUpdate(r, t, patch)
          PROVE  SidesOK' /\ DistinctCashboxes'
      BY <2>1, <2>4 DEF LoadForUpdate, SidesRight, CurrentOf
    <2>5. CASE ValidateUpdate(r)
      <3>1. request[r] \in Pending /\ request[r] # Idle
        BY <2>5, FreshTypes DEF ValidateUpdate, Idle, TypeInv
      <3>2. \A s \in Requests :
               request'[s] = IF s = r THEN [request[r] EXCEPT !.step = "ready"]
                                      ELSE request[s]
        BY <2>5 DEF ValidateUpdate, TypeInv, TypeOK
      <3>3. /\ request'[r].op = request[r].op
            /\ request'[r].tx = request[r].tx
            /\ request'[r].patch = request[r].patch
            /\ request'[r].current = request[r].current
        BY <3>1, <3>2 DEF Pending
      <3>4. SidesRight(request[r]) /\ DistinctOK(MergedRefs(request[r]))
        BY <2>5, <3>1 DEF SidesOK, ValidateUpdate, Valid
      <3>5. MergedRefs(request'[r]) = MergedRefs(request[r])
        BY <3>3 DEF MergedRefs
      <3>6. SidesRight(request'[r])
        BY <3>3, <3>4, <3>5 DEF SidesRight
      <3> QED
        BY <2>5, <3>1, <3>2, <3>3, <3>6, SidesRead DEF ValidateUpdate, LiveRow, TypeInv, RequestOK
    <2>6. CASE CommitUpdate(r)
      <3> DEFINE q == request[r]
                 old == transaction[q.tx]
                 row == Patched(q, old)
      <3>1. q \in Pending /\ q.tx \in TxIds /\ old \in Row /\ row \in Row /\ LiveRow(q.tx)
        BY <2>6, PatchedType, FreshTypes DEF CommitUpdate, Ready, TypeInv, RequestOK
      <3>2. PatchableRefs = {} => \A f \in RefFields : row.ref[f] = old.ref[f]
        <4>1. PatchableRefs = {} => \A f \in RefFields : q.patch.ref[f] = Absent
          BY <3>1 DEF Pending, Patch
        <4> QED
          BY <3>1, <4>1, PatchedRow
      <3>3. \/ \A s \in Requests : s = r
            \/ LiveRow(q.tx) /\ \A f \in RefFields : row.ref[f] = old.ref[f]
        BY <3>1, <3>2 DEF SafePatching
      <3>4. Distinct(row.ref)
        BY <2>6, PatchedSides
      <3>5. Write(r, q.tx, row)
        BY <2>6 DEF CommitUpdate
      <3> QED
        BY <3>1, <3>3, <3>4, <3>5, SidesWrite
    <2>7. ASSUME NEW t \in TxIds, LoadForRemove(r, t)
          PROVE  SidesOK' /\ DistinctCashboxes'
      BY <2>1, <2>7 DEF LoadForRemove, SidesRight, CurrentOf
    <2>8. CASE CommitRemove(r)
      BY <2>8, SidesWrite DEF CommitRemove, Ready, TypeInv, RequestOK
    <2>9. CASE Abort(r)
      <3>1. \A s \in Requests : request'[s] = IF s = r THEN Idle ELSE request[s]
        BY <2>9 DEF Abort, TypeInv, TypeOK
      <3> QED
        BY <2>9, <3>1, SidesRead DEF Abort, LiveRow, TypeInv, RequestOK
    <2> QED
      BY <1>3, <2>2, <2>3, <2>4, <2>5, <2>6, <2>7, <2>8, <2>9 DEF RequestStep
  <1>4. \/ UNCHANGED <<transaction, request>>
        \/ \E c \in Cashboxes : RemoveCashbox(c)
        \/ \E r \in Requests : RequestStep(r)
    BY DEF Next, vars, CashboxStep, CreateCashbox, UpdateCashbox, SetActive
  <1> QED
    BY <1>1, <1>2, <1>3, <1>4

\* Under the condition of NeverOverdrawn no transfer is from a cashbox to itself,
\* also when its sides are edited one at a time or one of them is detached.
THEOREM SidesDiffer == SafePatching => (Spec => []DistinctCashboxes)
  <1> SUFFICES ASSUME SafePatching PROVE Spec => []DistinctCashboxes
    OBVIOUS
  <1>1. Init => RefInv /\ SidesInv
    BY RefInit DEF Init, RefInv, SidesInv, SidesOK, DistinctCashboxes, LiveRow, Unborn
  <1>2. RefInv /\ SidesInv /\ [Next]_vars => (RefInv /\ SidesInv)'
    BY RefStep, SidesStep DEF SidesInv, RefInv
  <1>3. SidesInv => DistinctCashboxes
    BY DEF SidesInv
  <1> QED
    BY <1>1, <1>2, <1>3, PTL DEF Spec

=============================================================================
