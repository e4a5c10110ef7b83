------------------------------ MODULE CsvImport ------------------------------
(***************************************************************************)
(* Confirming CSV files into one account (csv-import.service.ts), with the *)
(* transactions endpoints that write to the same account.                  *)
(*                                                                         *)
(* A line is known by its fingerprint: date, type, amount, description.    *)
(* Lines with the same fingerprint are told apart only by counting, so an  *)
(* account is how many rows it has of each fingerprint, and a file how     *)
(* many valid lines.                                                       *)
(*                                                                         *)
(* The transaction of confirm() is Serializable: it reads what was         *)
(* committed before its first statement, which is the one that waits for   *)
(* the advisory lock of the account.  One that waited therefore does not   *)
(* see what it waited for; that PostgreSQL refuses it is what is left to   *)
(* keep its lines from being counted as new again.                         *)
(***************************************************************************)
EXTENDS Naturals

CONSTANTS
  Prints,   \* fingerprints
  MaxRows,  \* MAX_ROWS, most lines of a file
  Files,    \* files a user may upload
  Imports   \* confirmations, each used again for a retry

ASSUME ImportAssumption ==
  /\ MaxRows \in Nat
  /\ Files \subseteq [Prints -> 0..MaxRows]

VARIABLES
  stored,   \* rows of the account, by fingerprint
  confirm,  \* the confirmations
  added,    \* history: rows imported
  removed,  \* history: rows deleted, or edited into another fingerprint
  most      \* history: most lines a confirmed file has had

csvVars == <<stored, confirm, added, removed, most>>

NoLines == [p \in Prints |-> 0]

NoImport == [phase |-> "idle", file |-> NoLines, snapshot |-> NoLines, stale |-> FALSE]

CsvInit ==
  /\ stored = NoLines
  /\ confirm = [r \in Imports |-> NoImport]
  /\ added = NoLines
  /\ removed = NoLines
  /\ most = NoLines

-----------------------------------------------------------------------------
(* confirm()                                                               *)

\* The transaction's first statement: its snapshot, and the wait for the lock.
BeginImport(r, file) ==
  /\ confirm[r].phase = "idle"
  /\ confirm' = [confirm EXCEPT ![r] = [phase |-> "waiting", file |-> file,
                                        snapshot |-> stored, stale |-> FALSE]]
  /\ UNCHANGED <<stored, added, removed, most>>

\* The lock of the account is free: nobody else is between it and a commit.
LockAccount(r) ==
  /\ confirm[r].phase = "waiting"
  /\ \A s \in Imports : confirm[s].phase # "importing"
  /\ confirm' = [confirm EXCEPT ![r].phase = "importing"]
  /\ UNCHANGED <<stored, added, removed, most>>

\* Mutant of NewLines: occurrence < count.
NewLinesBelow(n, known) ==
  LET duplicates == IF known > 0 THEN known - 1 ELSE 0
  IN IF n > duplicates THEN n - duplicates ELSE 0

\* Of n lines with one fingerprint the first known ones are duplicates.
NewLines(n, known) == IF n > known THEN n - known ELSE 0

\* What the user may have selected of the new lines.
Selections(r) ==
  {new \in [Prints -> 0..MaxRows] :
     \A p \in Prints : new[p] <= NewLines(confirm[r].file[p], confirm[r].snapshot[p])}

\* PostgreSQL refuses a Serializable transaction that would write lines on a
\* count another one has changed since.
MayCommit(r, new) == ~confirm[r].stale \/ new = NoLines

CommitImport(r, new) ==
  /\ confirm[r].phase = "importing"
  /\ MayCommit(r, new)
  /\ stored' = [p \in Prints |-> stored[p] + new[p]]
  /\ added' = [p \in Prints |-> added[p] + new[p]]
  /\ most' = [p \in Prints |-> IF confirm[r].file[p] > most[p] THEN confirm[r].file[p] ELSE most[p]]
  /\ confirm' = [s \in Imports |->
       IF s = r \/ confirm[s].phase = "idle"
       THEN NoImport ELSE [confirm[s] EXCEPT !.stale = @ \/ new # NoLines]]
  /\ UNCHANGED removed

\* A bad request, an inactive account, a serialization failure (never retried
\* by the service), a lost connection.
AbortImport(r) ==
  /\ confirm[r].phase # "idle"
  /\ confirm' = [confirm EXCEPT ![r] = NoImport]
  /\ UNCHANGED <<stored, added, removed, most>>

-----------------------------------------------------------------------------
(* The transactions endpoints.  They are Serializable as well, so that      *)
(* PostgreSQL may refuse an import beside one of them; here none is.        *)

AddRow(p) ==
  /\ stored' = [stored EXCEPT ![p] = @ + 1]
  /\ UNCHANGED <<confirm, added, removed, most>>

RemoveRow(p) ==
  /\ stored[p] > 0
  /\ stored' = [stored EXCEPT ![p] = @ - 1]
  /\ removed' = [removed EXCEPT ![p] = @ + 1]
  /\ UNCHANGED <<confirm, added, most>>

EditRow(p, q) ==
  /\ p # q
  /\ stored[p] > 0
  /\ stored' = [stored EXCEPT ![p] = @ - 1, ![q] = @ + 1]
  /\ removed' = [removed EXCEPT ![p] = @ + 1]
  /\ UNCHANGED <<confirm, added, most>>

-----------------------------------------------------------------------------

CsvNext ==
  \/ \E r \in Imports, file \in Files : BeginImport(r, file)
  \/ \E r \in Imports : LockAccount(r)
  \/ \E r \in Imports : \E new \in Selections(r) : CommitImport(r, new)
  \/ \E r \in Imports : AbortImport(r)
  \/ \E p \in Prints : AddRow(p)
  \/ \E p \in Prints : RemoveRow(p)
  \/ \E p, q \in Prints : EditRow(p, q)

CsvSpec == CsvInit /\ [][CsvNext]_csvVars

-----------------------------------------------------------------------------

\* Every variable has its type.
CsvTypeOK ==
  /\ stored \in [Prints -> Nat]
  /\ confirm \in [Imports -> [phase : {"idle", "waiting", "importing"},
                              file : [Prints -> 0..MaxRows], snapshot : [Prints -> Nat],
                              stale : BOOLEAN]]
  /\ added \in [Prints -> Nat]
  /\ removed \in [Prints -> Nat]
  /\ most \in [Prints -> Nat]

\* A line is never imported twice, however many files have it and however
\* their confirmations overlap: the imports have added no more rows of a
\* fingerprint than the file with most of them has lines, and one more for
\* each row the user has deleted or edited away.
NoLineTwice == \A p \in Prints : added[p] <= most[p] + removed[p]

=============================================================================
