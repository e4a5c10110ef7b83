--------------------------- MODULE CsvImportProofs ---------------------------
(***************************************************************************)
(* Theorems about CsvImport, for every set of fingerprints, every bound on *)
(* the lines of a file and any number of confirmations.                    *)
(***************************************************************************)
EXTENDS CsvImport, TLAPS

\* Every row an import has added is there, or was taken away since.
RowsAccounted == \A p \in Prints : added[p] <= stored[p] + removed[p]

\* A confirmation that nobody has overtaken knows every imported row, those
\* that have been taken away since excepted.
SnapshotsAccounted ==
  \A r \in Imports : confirm[r].phase # "idle" /\ ~confirm[r].stale =>
    \A p \in Prints : added[p] <= confirm[r].snapshot[p] + removed[p]

CsvInv == CsvTypeOK /\ RowsAccounted /\ SnapshotsAccounted /\ NoLineTwice

Import ==
  [phase : {"idle", "waiting", "importing"}, file : [Prints -> 0..MaxRows],
   snapshot : [Prints -> Nat], stale : BOOLEAN]

LEMMA NoImportTyped == NoImport \in Import /\ NoLines \in [Prints -> 0..MaxRows]
  BY ImportAssumption DEF NoImport, NoLines, Import

LEMMA CsvInvInit == CsvInit => CsvInv
  <1> SUFFICES ASSUME CsvInit PROVE CsvInv
    OBVIOUS
  <1>1. CsvTypeOK
    BY NoImportTyped DEF CsvInit, CsvTypeOK, Import, NoLines
  <1>2. RowsAccounted /\ NoLineTwice
    BY DEF CsvInit, RowsAccounted, NoLineTwice, NoLines
  <1>3. SnapshotsAccounted
    BY DEF CsvInit, SnapshotsAccounted, NoImport
  <1> QED
    BY <1>1, <1>2, <1>3 DEF CsvInv

-----------------------------------------------------------------------------

LEMMA BeginImportKeeps ==
  ASSUME CsvInv, NEW r \in Imports, NEW file \in Files, BeginImport(r, file)
  PROVE  CsvInv'
  <1> USE DEF CsvInv, BeginImport
  <1>1. CsvTypeOK'
    BY ImportAssumption DEF CsvTypeOK
  <1>2. RowsAccounted' /\ NoLineTwice'
    BY DEF RowsAccounted, NoLineTwice
  <1>3. SnapshotsAccounted'
    BY DEF CsvTypeOK, SnapshotsAccounted, RowsAccounted
  <1> QED
    BY <1>1, <1>2, <1>3

LEMMA LockAccountKeeps ==
  ASSUME CsvInv, NEW r \in Imports, LockAccount(r)
  PROVE  CsvInv'
  <1> USE DEF CsvInv, LockAccount
  <1>1. CsvTypeOK'
    BY DEF CsvTypeOK
  <1>2. RowsAccounted' /\ NoLineTwice'
    BY DEF RowsAccounted, NoLineTwice
  <1>3. SnapshotsAccounted'
    BY DEF CsvTypeOK, SnapshotsAccounted
  <1> QED
    BY <1>1, <1>2, <1>3

LEMMA AbortImportKeeps ==
  ASSUME CsvInv, NEW r \in Imports, AbortImport(r)
  PROVE  CsvInv'
  <1> USE DEF CsvInv, AbortImport
  <1>1. CsvTypeOK'
    BY NoImportTyped DEF CsvTypeOK, Import
  <1>2. RowsAccounted' /\ NoLineTwice'
    BY DEF RowsAccounted, NoLineTwice
  <1>3. SnapshotsAccounted'
    BY DEF CsvTypeOK, SnapshotsAccounted, NoImport
  <1> QED
    BY <1>1, <1>2, <1>3

\* The step that adds rows: what a selection may add to what was imported.
LEMMA CommitImportKeeps ==
  ASSUME CsvInv, NEW r \in Imports, NEW new \in Selections(r), CommitImport(r, new)
  PROVE  CsvInv'
  <1> USE DEF CsvInv
  <1>1. /\ new \in [Prints -> 0..MaxRows]
        /\ \A p \in Prints : new[p] <= NewLines(confirm[r].file[p], confirm[r].snapshot[p])
    BY DEF Selections
  <1>2. CsvTypeOK'
    <2>1. added' \in [Prints -> Nat] /\ stored' \in [Prints -> Nat]
      BY <1>1, ImportAssumption DEF CommitImport, CsvTypeOK
    <2>2. most' \in [Prints -> Nat]
      BY ImportAssumption DEF CommitImport, CsvTypeOK
    <2>3. confirm' \in [Imports -> Import]
      <3>1. \A s \in Imports : [confirm[s] EXCEPT !.stale = @ \/ new # NoLines] \in Import
        BY DEF CsvTypeOK, Import
      <3> QED
        BY <3>1, NoImportTyped DEF CommitImport
    <2> QED
      BY <2>1, <2>2, <2>3 DEF CommitImport, CsvTypeOK, Import
  <1>3. RowsAccounted'
    BY <1>1, ImportAssumption DEF CommitImport, CsvTypeOK, RowsAccounted
  <1>4. SnapshotsAccounted'
    <2> SUFFICES ASSUME NEW s \in Imports, confirm'[s].phase # "idle", ~confirm'[s].stale,
                        NEW p \in Prints
                 PROVE  added'[p] <= confirm'[s].snapshot[p] + removed'[p]
      BY DEF SnapshotsAccounted
    <2>1. confirm'[s] = IF s = r \/ confirm[s].phase = "idle"
                       THEN NoImport ELSE [confirm[s] EXCEPT !.stale = @ \/ new # NoLines]
      BY DEF CommitImport
    <2>2. /\ confirm[s].phase # "idle"
          /\ confirm'[s] = [confirm[s] EXCEPT !.stale = @ \/ new # NoLines]
      BY <2>1 DEF NoImport
    <2>3. ~confirm[s].stale /\ new = NoLines /\ confirm'[s].snapshot = confirm[s].snapshot
      <3>1. ASSUME NEW stale
            PROVE  /\ [confirm[s] EXCEPT !.stale = stale].stale = stale
                   /\ [confirm[s] EXCEPT !.stale = stale].snapshot = confirm[s].snapshot
        BY DEF CsvTypeOK
      <3>2. /\ confirm'[s].stale = (confirm[s].stale \/ new # NoLines)
            /\ confirm'[s].snapshot = confirm[s].snapshot
        BY <2>2, <3>1, Zenon
      <3> QED
        BY <3>2, Zenon
    <2>4. added'[p] = added[p] /\ removed'[p] = removed[p]
      BY <2>3 DEF CommitImport, NoLines, CsvTypeOK
    <2> QED
      BY <2>2, <2>3, <2>4 DEF SnapshotsAccounted
  <1>5. NoLineTwice'
    <2> SUFFICES ASSUME NEW p \in Prints
                 PROVE  added'[p] <= most'[p] + removed'[p]
      BY DEF NoLineTwice
    <2>1. /\ added'[p] = added[p] + new[p]
          /\ removed'[p] = removed[p]
          /\ most'[p] >= most[p] /\ most'[p] >= confirm[r].file[p]
          /\ most'[p] \in Nat
      BY <1>2, ImportAssumption DEF CommitImport, CsvTypeOK
    <2>2. CASE new[p] = 0
      BY <2>1, <2>2 DEF NoLineTwice, CsvTypeOK
    <2>3. CASE new[p] # 0
      <3>1. ~confirm[r].stale /\ confirm[r].phase # "idle"
        BY <2>3 DEF CommitImport, MayCommit, NoLines
      <3>2. new[p] + confirm[r].snapshot[p] <= confirm[r].file[p]
        BY <1>1, <2>3, ImportAssumption DEF NewLines, CsvTypeOK
      <3>3. added[p] <= confirm[r].snapshot[p] + removed[p]
        BY <3>1 DEF SnapshotsAccounted
      <3> QED
        BY <1>1, <2>1, <3>2, <3>3, ImportAssumption DEF CsvTypeOK
    <2> QED
      BY <2>2, <2>3
  <1> QED
    BY <1>2, <1>3, <1>4, <1>5

LEMMA RowsKeep ==
  ASSUME CsvInv, NEW p \in Prints, NEW q \in Prints,
         AddRow(p) \/ RemoveRow(p) \/ EditRow(p, q)
  PROVE  CsvInv'
  <1> USE DEF CsvInv
  <1>1. /\ stored' \in [Prints -> Nat] /\ removed' \in [Prints -> Nat]
        /\ \A x \in Prints : /\ removed'[x] >= removed[x]
                             /\ stored'[x] + removed'[x] >= stored[x] + removed[x]
        /\ UNCHANGED <<confirm, added, most>>
    <2> USE DEF CsvTypeOK
    <2>1. CASE AddRow(p)
      BY <2>1 DEF AddRow
    <2>2. CASE RemoveRow(p)
      BY <2>2 DEF RemoveRow
    <2>3. CASE EditRow(p, q)
      <3>1. /\ p # q /\ stored[p] > 0
            /\ removed' = [removed EXCEPT ![p] = @ + 1]
            /\ UNCHANGED <<confirm, added, most>>
        BY <2>3 DEF EditRow
      <3>2. stored' = [x \in Prints |-> CASE x = p -> stored[p] - 1
                                         [] x = q -> stored[q] + 1
                                         [] OTHER -> stored[x]]
        BY <2>3 DEF EditRow
      <3> QED
        BY <3>1, <3>2
    <2> QED
      BY <2>1, <2>2, <2>3
  <1>2. CsvTypeOK'
    BY <1>1 DEF CsvTypeOK
  <1>3. RowsAccounted' /\ NoLineTwice'
    BY <1>1 DEF RowsAccounted, NoLineTwice, CsvTypeOK
  <1>4. SnapshotsAccounted'
    BY <1>1 DEF SnapshotsAccounted, CsvTypeOK
  <1> QED
    BY <1>2, <1>3, <1>4

LEMMA CsvInvStep == CsvInv /\ [CsvNext]_csvVars => CsvInv'
  <1> SUFFICES ASSUME CsvInv, [CsvNext]_csvVars PROVE CsvInv'
    OBVIOUS
  <1>1. CASE UNCHANGED csvVars
    BY <1>1 DEF csvVars, CsvInv, CsvTypeOK, RowsAccounted, SnapshotsAccounted, NoLineTwice
  <1> QED
    BY <1>1, BeginImportKeeps, LockAccountKeeps, AbortImportKeeps, CommitImportKeeps, RowsKeep
       DEF CsvNext

\* However many confirmations overlap, whatever files they carry and whatever
\* rows are added, edited or deleted meanwhile, no line is imported twice.
THEOREM LinesImportedOnce == CsvSpec => []NoLineTwice
  <1>1. CsvInv => NoLineTwice
    BY DEF CsvInv
  <1> QED
    BY CsvInvInit, CsvInvStep, <1>1, PTL DEF CsvSpec

=============================================================================
