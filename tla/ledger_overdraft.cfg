CONSTANTS
    c1 = c1
    c2 = c2
    t1 = t1
    t2 = t2
    r1 = r1
    r2 = r2
    m1 = m1
    m2 = m2
    None = None
    Absent = Absent
    Cashboxes <- TwoCashboxes
    TxIds <- OneTx
    Requests <- TwoRequests
    Types <- OnlyOut
    Amounts = {1, 2}
    InitialBalances = {1}
    Months <- OneMonth
    PatchableRefs <- AnyCashbox
SYMMETRY Symmetry
SPECIFICATION Spec
INVARIANT NonNegative
\* A state is terminal only when the finite supply of ids is used up.
CHECK_DEADLOCK FALSE
