---------------------------- MODULE CashboxPots ----------------------------
(***************************************************************************)
(* What the cashboxes promise their user, whatever rows they are derived   *)
(* from: an open pot holds an amount that is never negative; a pot is      *)
(* opened with what is already in it, changes by postings, and is closed   *)
(* for good, only when it is empty and without touching the other pots.    *)
(***************************************************************************)
EXTENDS Integers

CONSTANT Pots

VARIABLES standing,  \* "unborn", "live" or "deleted"
          funds      \* what each pot holds; 0 unless it is live

potVars == <<standing, funds>>

PotsInit == /\ standing = [p \in Pots |-> "unborn"]
            /\ funds = [p \in Pots |-> 0]

OthersKeepFunds(p) == \A o \in Pots \ {p} : funds'[o] = funds[o]

Open(p) == /\ standing[p] = "unborn"
           /\ standing' = [standing EXCEPT ![p] = "live"]
           /\ funds'[p] >= 0
           /\ OthersKeepFunds(p)

Close(p) == /\ standing[p] = "live"
            /\ funds[p] = 0
            /\ standing' = [standing EXCEPT ![p] = "deleted"]
            /\ UNCHANGED funds

\* A posting changes some live pots, none of which it leaves overdrawn.
Post == /\ UNCHANGED standing
        /\ \A p \in Pots : \/ funds'[p] = funds[p]
                           \/ (standing[p] = "live" /\ funds'[p] >= 0)

PotsNext == Post \/ \E p \in Pots : Open(p) \/ Close(p)

PotsSpec == PotsInit /\ [][PotsNext]_potVars
=============================================================================
