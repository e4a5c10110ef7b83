-------------------------- MODULE MCCashboxLedger --------------------------
(* TLC instances of CashboxLedger. *)
EXTENDS CashboxLedger, TLC

CONSTANTS c1, c2, t1, t2, r1, r2, m1, m2

OneCashbox   == {c1}
TwoCashboxes == {c1, c2}
OneTx        == {t1}
TwoTxs       == {t1, t2}

OneRequest   == {r1}
TwoRequests  == {r1, r2}
OneMonth     == {m1}
TwoMonths    == {m1, m2}

CashboxTypes == {"CASHBOX_IN", "CASHBOX_OUT", "CASHBOX_TRANSFER"}
InAndOut     == {"CASHBOX_IN", "CASHBOX_OUT"}
OnlyOut      == {"CASHBOX_OUT"}

NoRefs          == {}
AnyCashbox      == Cashboxes
AnyCashboxOrNull == Cashboxes \cup {None}

\* Ids are interchangeable: the specification only compares them.
Symmetry == Permutations(Cashboxes) \cup Permutations(TxIds) \cup Permutations(Requests)
=============================================================================
