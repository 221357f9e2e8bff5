-------------------------- MODULE Inventory_proofs --------------------------
(***************************************************************************)
(* Proofs about Inventory, for any number of paths, contents and scanners: *)
(* type correctness, with the lemmas about each step of a scan; then what  *)
(* the rows say after one undisturbed scan, and what the aggregates say    *)
(* after two.                                                              *)
(***************************************************************************)
EXTENDS Inventory, TLAPS, FiniteSetTheorems, WellFoundedInduction

-----------------------------------------------------------------------------
(* The choices of the code are well defined.                               *)

\* A non-empty set of natural numbers has a least element: what the ORDER BY
\* ... LIMIT 1 of the services relies on.
LEMMA LeastNumber ==
  ASSUME NEW T, T \subseteq Nat, T # {}
  PROVE  \E n \in T : \A m \in T : n <= m
<1> DEFINE R == {ss \in Nat \X Nat : ss[1] < ss[2]}
<1>1. IsWellFoundedOn(R, Nat)
  BY NatLessThanWellFounded DEF OpToRel
<1>2. \A m, n \in T : m < n => <<m, n>> \in R
  OBVIOUS
<1> HIDE DEF R
<1>3. PICK n \in T : \A m \in T : ~ (<<m, n>> \in R)
  BY <1>1, WFMin
<1>4. ASSUME NEW m \in T PROVE n <= m
  <2>1. n \in Nat /\ m \in Nat
    OBVIOUS
  <2>2. ~ (m < n)
    BY <1>2, <1>3
  <2> QED
    BY <2>1, <2>2
<1> QED
  BY <1>4

\* The next path of a scan is one of those still to do (inventory_scanner.py,
\* the loop over sorted(candidates)).
LEMMA LeastIsMember ==
  ASSUME NEW S, S \subseteq Paths, S # {}
  PROVE  Least(S) \in S
<1>1. S \subseteq Nat
  BY NPathsAssumption DEF Paths
<1>2. \E x \in S : \A y \in S : x <= y
  BY <1>1, LeastNumber
<1> QED
  BY <1>2 DEF Least

\* The first instance by id is one of the instances (the ORDER BY created_at,
\* id of 001 and 002).
LEMMA FirstByIdIsMember ==
  ASSUME NEW S, S # {}, NEW t, \A x \in S : t[x].id \in Nat
  PROVE  FirstById(t, S) \in S
<1> DEFINE T == {t[x].id : x \in S}
<1>1. T \subseteq Nat /\ T # {}
  OBVIOUS
<1>2. PICK n \in T : \A m \in T : n <= m
  BY <1>1, LeastNumber
<1>3. PICK x \in S : t[x].id = n
  OBVIOUS
<1>4. \A y \in S : t[x].id <= t[y].id
  BY <1>2, <1>3
<1> QED
  BY <1>3, <1>4 DEF FirstById

\* Counting instances gives a number (instance_count).
LEMMA CountIsNat ==
  ASSUME NEW S, S \subseteq Paths
  PROVE  Cardinality(S) \in Nat
<1>1. IsFiniteSet(Paths)
  BY FS_Interval, NPathsAssumption DEF Paths
<1>2. IsFiniteSet(S)
  BY <1>1, FS_Subset
<1> QED
  BY <1>2, FS_CardinalityType

-----------------------------------------------------------------------------
(* Type correctness.  TypeOK alone is not inductive: what a process writes *)
(* is well typed only because it knows, in the middle of its work, which   *)
(* path and which content it has in hand.                                  *)

ScanHasFile ==
  \A p \in Scanners :
    /\ scan[p].pc \in {"txn", "error"} => scan[p].path \in Paths
    /\ scan[p].pc = "txn" => txn[p].sha \in Contents

\* What an open transaction of a scan has loaded.
TxnState == [sha : Contents \cup {NoSha}, content : ContentRow,
             inst : [Paths -> InstRow]]

ScanInv == TablesTypeOK /\ ScanTypeOK /\ ScanHasFile

\* The rows that a scan writes are rows (_upsert_content, _upsert_instance
\* and the ORM's UPDATE of inventory_scanner.py).
LEMMA UpsertInstanceType ==
  ASSUME NEW loaded \in InstRow, NEW s \in Contents, NEW id \in Nat
  PROVE  UpsertInstance(loaded, s, id) \in InstRow
  BY DEF UpsertInstance, InstRow

LEMMA WriteBackInstType ==
  ASSUME NEW row \in InstRow, NEW loaded \in InstRow, NEW new \in InstRow
  PROVE  WriteBackInst(row, loaded, new) \in InstRow
  BY DEF WriteBackInst, InstRow

LEMMA UpsertContentType ==
  ASSUME NEW loaded \in ContentRow
  PROVE  /\ UpsertContent(loaded) \in ContentRow
         /\ UpsertContent(loaded).vault # "NONE"
         /\ loaded.vault = "NONE" => UpsertContent(loaded).vault = "NOT_COPIED"
  BY DEF UpsertContent, ContentRow, VaultStatus, NoPath

LEMMA WriteBackContentType ==
  ASSUME NEW row \in ContentRow, NEW loaded, NEW new \in ContentRow
  PROVE  /\ WriteBackContent(row, loaded, new) \in ContentRow
         /\ WriteBackContent(row, loaded, new).vault = row.vault
  BY DEF WriteBackContent, ContentRow

LEMMA RefreshedInstType ==
  ASSUME NEW rows \in [Paths -> InstRow], NEW peers, NEW ids
  PROVE  RefreshedInst(rows, peers, ids) \in [Paths -> InstRow]
  BY DEF RefreshedInst, InstRow

LEMMA RefreshedContentType ==
  ASSUME NEW row \in ContentRow, NEW peers, peers \subseteq Paths,
         NEW ids \in [Paths -> InstRow]
  PROVE  /\ RefreshedContent(row, peers, ids) \in ContentRow
         /\ RefreshedContent(row, peers, ids).vault = row.vault
<1>1. CASE peers = {}
  BY <1>1 DEF RefreshedContent
<1>2. CASE peers # {}
  <2>1. \A x \in peers : ids[x].id \in Nat
    BY DEF InstRow
  <2>2. FirstById(ids, peers) \in peers
    BY <1>2, <2>1, FirstByIdIsMember
  <2>3. Cardinality(peers) \in Nat
    BY CountIsNat
  <2> QED
    BY <1>2, <2>2, <2>3 DEF RefreshedContent, ContentRow
<1> QED
  BY <1>1, <1>2

LEMMA NextIdIsNat == NextId \in Nat
<1>1. Cardinality({x \in Paths : inst[x].status # "NONE"}) \in Nat
  BY CountIsNat
<1> QED
  BY <1>1 DEF NextId

\* What a scan may do to vault_status: give it to a new row.
ScanKeepsVaultStatus ==
  \A s \in Contents :
    \/ content'[s].vault = content[s].vault
    \/ content[s].vault = "NONE" /\ content'[s].vault = "NOT_COPIED"

\* The long step of a scan (CommitFile, the rest of _process_file).
LEMMA CommitFileStep ==
  ASSUME ScanInv, NEW p \in Scanners, CommitFile(p)
  PROVE  ScanInv' /\ ScanKeepsVaultStatus
<1> DEFINE x == scan[p].path
           s == txn[p].sha
           loaded == txn[p].inst
           isNew == loaded[x].status = "NONE"
           rows == [loaded EXCEPT ![x] = UpsertInstance(@, s, NextId)]
           peers == VisiblePeers(loaded, x, s)
           newRows == RefreshedInst(rows, peers, rows)
           newContent == RefreshedContent(UpsertContent(txn[p].content), peers, rows)
<1>1. /\ scan[p].pc = "txn" /\ ~InsertConflict(p)
      /\ inst' = [y \in Paths |->
                    IF y = x /\ isNew THEN newRows[x]
                    ELSE WriteBackInst(inst[y], loaded[y], newRows[y])]
      /\ content' = [content EXCEPT ![s] =
                       IF txn[p].content.vault = "NONE" THEN newContent
                       ELSE WriteBackContent(@, txn[p].content, newContent)]
      /\ scan' = [scan EXCEPT ![p].pc = "files", ![p].path = NoPath]
      /\ txn' = [txn EXCEPT ![p] = NoTxn]
      /\ UNCHANGED <<fs, passes>>
  BY DEF CommitFile
<1>2. x \in Paths /\ s \in Contents
  BY <1>1 DEF ScanInv, ScanHasFile
<1>3. loaded \in [Paths -> InstRow] /\ txn[p].content \in ContentRow
  BY DEF ScanInv, ScanTypeOK
<1>4. rows \in [Paths -> InstRow]
  <2>1. UpsertInstance(loaded[x], s, NextId) \in InstRow
    BY <1>2, <1>3, NextIdIsNat, UpsertInstanceType
  <2> QED
    BY <1>2, <1>3, <2>1
<1>5. peers \subseteq Paths
  BY <1>2 DEF VisiblePeers, DiscoveredWith
<1> HIDE DEF x, s, loaded, isNew, rows, peers
<1>6. newRows \in [Paths -> InstRow]
  BY <1>4, RefreshedInstType
<1>7. /\ newContent \in ContentRow
      /\ newContent.vault # "NONE"
      /\ txn[p].content.vault = "NONE" => newContent.vault = "NOT_COPIED"
  BY <1>3, <1>4, <1>5, UpsertContentType, RefreshedContentType
<1> HIDE DEF newRows, newContent
<1>8. inst \in [Paths -> InstRow] /\ content \in [Contents -> ContentRow]
  BY DEF ScanInv, TablesTypeOK
<1>9. inst' \in [Paths -> InstRow]
  <2>1. \A y \in Paths :
          WriteBackInst(inst[y], loaded[y], newRows[y]) \in InstRow
    BY <1>3, <1>6, <1>8, WriteBackInstType
  <2> QED
    BY <1>1, <1>2, <1>6, <2>1
<1>10. WriteBackContent(content[s], txn[p].content, newContent) \in ContentRow
    /\ WriteBackContent(content[s], txn[p].content, newContent).vault = content[s].vault
  BY <1>2, <1>7, <1>8, WriteBackContentType
<1>11. content' \in [Contents -> ContentRow]
  BY <1>1, <1>7, <1>8, <1>10
<1>12. ScanKeepsVaultStatus
  <2>1. txn[p].content.vault = "NONE" => content[s].vault = "NONE"
    BY <1>1 DEF InsertConflict, s
  <2>2. content'[s].vault = IF txn[p].content.vault = "NONE" THEN "NOT_COPIED"
                            ELSE content[s].vault
    BY <1>1, <1>2, <1>7, <1>8, <1>10
  <2>3. \A r \in Contents \ {s} : content'[r] = content[r]
    BY <1>1, <1>8
  <2> QED
    BY <2>1, <2>2, <2>3 DEF ScanKeepsVaultStatus
<1>13. ScanTypeOK' /\ ScanHasFile'
  BY <1>1, NPathsAssumption DEF ScanInv, ScanTypeOK, ScanHasFile, ScanState, NoTxn, NoContent,
     NoInst, ContentRow, InstRow, VaultStatus, NoPath, Paths
<1> QED
  BY <1>1, <1>9, <1>11, <1>12, <1>13 DEF ScanInv, TablesTypeOK

LEMMA NoTxnType ==
  NoTxn \in [ sha : Contents \cup {NoSha}, content : ContentRow,
             inst : [Paths -> InstRow] ]
<1>1. NoInst \in InstRow
  BY DEF NoInst, InstRow
<1>2. NoContent \in ContentRow
  BY DEF NoContent, ContentRow, NoPath
<1> QED
  BY <1>1, <1>2 DEF NoTxn

\* A step that changes nothing but where process p is, and its transaction.
LEMMA OneScanner ==
  ASSUME ScanTypeOK, ScanHasFile, NEW p \in Scanners,
         NEW f \in ScanState, NEW t \in TxnState,
         f.pc \in {"txn", "error"} => f.path \in Paths,
         f.pc = "txn" => t.sha \in Contents,
         scan' = [scan EXCEPT ![p] = f], txn' = [txn EXCEPT ![p] = t],
         passes' \in 0..2
  PROVE  ScanTypeOK' /\ ScanHasFile'
<1>1. scan \in [Scanners -> ScanState] /\ txn \in [Scanners -> TxnState]
  BY DEF ScanTypeOK, TxnState
<1>2. ScanTypeOK'
  BY <1>1 DEF ScanTypeOK, TxnState
<1>3. ASSUME NEW q \in Scanners
      PROVE  /\ scan'[q].pc \in {"txn", "error"} => scan'[q].path \in Paths
             /\ scan'[q].pc = "txn" => txn'[q].sha \in Contents
  <2>1. CASE q = p
    BY <1>1, <2>1
  <2>2. CASE q # p
    BY <1>1, <2>2 DEF ScanHasFile
  <2> QED
    BY <2>1, <2>2
<1> QED
  BY <1>2, <1>3 DEF ScanHasFile

\* Noting that a scan has been disturbed moves no process.
LEMMA DisturbedType ==
  ASSUME NEW f \in [Scanners -> ScanState]
  PROVE  /\ Disturbed(f) \in [Scanners -> ScanState]
         /\ \A q \in Scanners : /\ Disturbed(f)[q].pc = f[q].pc
                                /\ Disturbed(f)[q].path = f[q].path
  BY DEF Disturbed, ScanState

LEMMA UnchangedTables ==
  ASSUME TablesTypeOK, UNCHANGED tableVars
  PROVE  TablesTypeOK' /\ ScanKeepsVaultStatus
  BY DEF TablesTypeOK, tableVars, ScanKeepsVaultStatus

\* The short steps of a scan that does its work.
LEMMA StartScanStep ==
  ASSUME ScanInv, NEW p \in Scanners, StartScan(p)
  PROVE  ScanInv' /\ ScanKeepsVaultStatus
<1> DEFINE new == [pc |-> "files", path |-> NoPath,
                   todo |-> {x \in Paths : fs[x] # Missing}, clean |-> TRUE]
           f == [scan EXCEPT ![p] = new]
<1>1. /\ scan' = f \/ scan' = Disturbed(f)
      /\ UNCHANGED tableVars /\ txn' = txn /\ passes' = passes
  BY DEF StartScan
<1>2. new \in ScanState
  BY DEF ScanState, NoPath
<1>3. scan \in [Scanners -> ScanState]
  BY DEF ScanInv, ScanTypeOK
<1>4. f \in [Scanners -> ScanState]
  BY <1>2, <1>3
<1>5. /\ scan' \in [Scanners -> ScanState]
      /\ \A q \in Scanners : scan'[q].pc = f[q].pc /\ scan'[q].path = f[q].path
  BY <1>1, <1>4, DisturbedType
<1>6. ScanTypeOK'
  BY <1>1, <1>5 DEF ScanInv, ScanTypeOK
<1>7. \A q \in Scanners : q = p => f[q].pc = "files"
  BY <1>3
<1>8. \A q \in Scanners : q # p => f[q] = scan[q]
  BY <1>3
<1> HIDE DEF f, new
<1>9. ScanHasFile'
  BY <1>1, <1>5, <1>7, <1>8 DEF ScanInv, ScanHasFile
<1> QED
  BY <1>1, <1>6, <1>9, UnchangedTables DEF ScanInv

LEMMA HashStep ==
  ASSUME ScanInv, NEW p \in Scanners, HashFile(p) \/ HashRaises(p)
  PROVE  ScanInv' /\ ScanKeepsVaultStatus
<1> DEFINE x == Least(scan[p].todo)
<1>1. scan[p] \in ScanState /\ txn[p] \in TxnState
  BY DEF ScanInv, ScanTypeOK, TxnState
<1>2. x \in Paths
  BY <1>1, LeastIsMember DEF HashFile, HashRaises, ScanState
<1> HIDE DEF x
<1> DEFINE new(pc) == [scan[p] EXCEPT !.path = x, !.todo = @ \ {x}, !.pc = pc]
<1>3. \A pc \in {"txn", "error"} :
        new(pc) \in ScanState /\ new(pc).path = x /\ new(pc).pc = pc
  BY <1>1, <1>2 DEF ScanState
<1>4. UNCHANGED tableVars /\ passes' = passes
  BY DEF HashFile, HashRaises, tableVars
<1>5. passes' \in 0..2
  BY <1>4 DEF ScanInv, ScanTypeOK
<1>6. CASE HashFile(p)
  <2> DEFINE t == [sha |-> fs[x], content |-> content[fs[x]], inst |-> inst]
  <2>1. /\ fs[x] \in Contents
        /\ scan' = [scan EXCEPT ![p].path = x, ![p].todo = @ \ {x},
                                ![p].pc = "txn"]
        /\ txn' = [txn EXCEPT ![p] = t]
    BY <1>6 DEF HashFile, x
  <2>2. scan' = [scan EXCEPT ![p] = new("txn")]
    BY <2>1
  <2>3. t \in TxnState /\ t.sha \in Contents
    BY <2>1 DEF ScanInv, TablesTypeOK, TxnState
  <2> HIDE DEF new, t
  <2>4. ScanTypeOK' /\ ScanHasFile'
    BY <1>2, <1>3, <1>5, <2>1, <2>2, <2>3, OneScanner DEF ScanInv
  <2> QED
    BY <1>4, <2>4, UnchangedTables DEF ScanInv
<1>7. CASE HashRaises(p)
  <2>1. /\ scan' = [scan EXCEPT ![p].path = x, ![p].todo = @ \ {x},
                                ![p].pc = "error"]
        /\ txn' = txn
    BY <1>7 DEF HashRaises, x
  <2>2. scan' = [scan EXCEPT ![p] = new("error")]
    BY <2>1
  <2>3. txn' = [txn EXCEPT ![p] = txn[p]]
    BY <2>1 DEF ScanInv, ScanTypeOK
  <2> HIDE DEF new
  <2>4. ScanTypeOK' /\ ScanHasFile'
    BY <1>1, <1>2, <1>3, <1>5, <2>2, <2>3, OneScanner DEF ScanInv
  <2> QED
    BY <1>4, <2>4, UnchangedTables DEF ScanInv
<1> QED
  BY <1>6, <1>7

LEMMA RecordErrorStep ==
  ASSUME ScanInv, NEW p \in Scanners, RecordError(p)
  PROVE  ScanInv' /\ ScanKeepsVaultStatus
<1>1. inst' \in [Paths -> InstRow]
  BY NextIdIsNat DEF RecordError, ScanInv, TablesTypeOK, NoInst, InstRow
<1>2. scan[p] \in ScanState /\ txn[p] \in TxnState
  BY DEF ScanInv, ScanTypeOK, TxnState
<1> DEFINE new == [scan[p] EXCEPT !.pc = "files", !.path = NoPath]
<1>3. new \in ScanState /\ new.pc = "files"
  BY <1>2 DEF ScanState, NoPath
<1>4. scan' = [scan EXCEPT ![p] = new] /\ txn' = [txn EXCEPT ![p] = txn[p]]
  BY DEF RecordError, ScanInv, ScanTypeOK
<1>5. passes' \in 0..2
  BY DEF RecordError, ScanInv, ScanTypeOK
<1> HIDE DEF new
<1>6. ScanTypeOK' /\ ScanHasFile'
  BY <1>2, <1>3, <1>4, <1>5, OneScanner DEF ScanInv
<1> QED
  BY <1>1, <1>6 DEF RecordError, ScanInv, TablesTypeOK, ScanKeepsVaultStatus

LEMMA FinishScanStep ==
  ASSUME ScanInv, NEW p \in Scanners, FinishScan(p)
  PROVE  ScanInv' /\ ScanKeepsVaultStatus
<1>1. IdleScan \in ScanState /\ IdleScan.pc = "idle"
  BY DEF IdleScan, ScanState, NoPath
<1>2. txn[p] \in TxnState
  BY DEF ScanInv, ScanTypeOK, TxnState
<1>3. /\ scan' = [scan EXCEPT ![p] = IdleScan]
      /\ txn' = [txn EXCEPT ![p] = txn[p]]
      /\ UNCHANGED tableVars
  BY DEF FinishScan, ScanInv, ScanTypeOK
<1>4. passes' \in 0..2
  BY DEF FinishScan, ScanInv, ScanTypeOK
<1>5. ScanTypeOK' /\ ScanHasFile'
  BY <1>1, <1>2, <1>3, <1>4, OneScanner DEF ScanInv
<1> QED
  BY <1>3, <1>5, UnchangedTables DEF ScanInv

LEMMA ScanWorkStep ==
  ASSUME ScanInv, NEW p \in Scanners, ScanWork(p)
  PROVE  ScanInv' /\ ScanKeepsVaultStatus
BY StartScanStep, HashStep, CommitFileStep, RecordErrorStep, FinishScanStep
   DEF ScanWork

\* What may go wrong with a scan, at any point.
LEMMA ScanFaultStep ==
  ASSUME ScanInv, NEW p \in Scanners, ScanFault(p)
  PROVE  ScanInv' /\ UNCHANGED tableVars
<1>1. PICK f \in ScanState, t \in TxnState :
        /\ f.pc \in {"idle", "files", "error"}
        /\ f.pc = "error" => f.path \in Paths
        /\ scan' = [scan EXCEPT ![p] = f]
        /\ txn' = [txn EXCEPT ![p] = t]
  <2>1. scan[p] \in ScanState /\ txn[p] \in TxnState
    BY DEF ScanInv, ScanTypeOK, TxnState
  <2>2. NoTxn \in TxnState
    BY NoTxnType DEF TxnState
  <2>3. CASE RollbackFile(p)
    <3> DEFINE f == [scan[p] EXCEPT !.pc = "error", !.clean = FALSE]
    <3>1. f \in ScanState /\ f.pc = "error" /\ f.path \in Paths
      BY <2>1, <2>3 DEF RollbackFile, ScanInv, ScanHasFile, ScanState
    <3>2. scan' = [scan EXCEPT ![p] = f] /\ txn' = [txn EXCEPT ![p] = NoTxn]
      BY <2>3 DEF RollbackFile
    <3> QED
      BY <2>2, <3>1, <3>2
  <2>4. CASE LoseError(p)
    <3> DEFINE f == [scan[p] EXCEPT !.pc = "files", !.path = NoPath,
                                    !.clean = FALSE]
    <3>1. f \in ScanState /\ f.pc = "files"
      BY <2>1 DEF ScanState, NoPath
    <3>2. scan' = [scan EXCEPT ![p] = f] /\ txn' = [txn EXCEPT ![p] = txn[p]]
      BY <2>4 DEF LoseError, ScanInv, ScanTypeOK
    <3> QED
      BY <2>1, <3>1, <3>2
  <2>5. CASE KillScan(p)
    <3>1. IdleScan \in ScanState /\ IdleScan.pc = "idle"
      BY DEF IdleScan, ScanState, NoPath
    <3>2. scan' = [scan EXCEPT ![p] = IdleScan] /\ txn' = [txn EXCEPT ![p] = NoTxn]
      BY <2>5 DEF KillScan
    <3> QED
      BY <2>2, <3>1, <3>2
  <2> QED
    BY <2>3, <2>4, <2>5 DEF ScanFault
<1>2. passes' \in 0..2 /\ UNCHANGED tableVars
  BY DEF ScanFault, RollbackFile, LoseError, KillScan, ScanInv, ScanTypeOK
<1>3. ScanTypeOK' /\ ScanHasFile'
  BY <1>1, <1>2, OneScanner DEF ScanInv
<1> QED
  BY <1>2, <1>3, UnchangedTables DEF ScanInv

\* The owner of the files at work.
LEMMA EditFileStep ==
  ASSUME ScanInv, NEW x \in Paths,
         NEW v \in Contents \cup {Missing, Unreadable}, EditFile(x, v)
  PROVE  ScanInv' /\ content' = content
<1>1. /\ fs' = [fs EXCEPT ![x] = v] /\ scan' = Disturbed(scan) /\ passes' = 0
      /\ inst' = inst /\ content' = content /\ txn' = txn
  BY DEF EditFile
<1>2. TablesTypeOK'
  BY <1>1 DEF ScanInv, TablesTypeOK
<1>3. scan \in [Scanners -> ScanState]
  BY DEF ScanInv, ScanTypeOK
<1>4. /\ scan' \in [Scanners -> ScanState]
      /\ \A q \in Scanners : scan'[q].pc = scan[q].pc /\ scan'[q].path = scan[q].path
  BY <1>1, <1>3, DisturbedType
<1>5. ScanTypeOK'
  BY <1>1, <1>4 DEF ScanInv, ScanTypeOK
<1>6. ScanHasFile'
  BY <1>1, <1>4 DEF ScanInv, ScanHasFile
<1> QED
  BY <1>1, <1>2, <1>5, <1>6 DEF ScanInv

-----------------------------------------------------------------------------
LEMMA ScanInvInitially == TablesInit /\ ScanInit => ScanInv
<1> SUFFICES ASSUME TablesInit, ScanInit PROVE ScanInv
  OBVIOUS
<1>1. TablesTypeOK
  BY DEF TablesInit, TablesTypeOK, NoInst, InstRow, NoContent, ContentRow, NoPath
<1>2. IdleScan \in ScanState /\ IdleScan.pc = "idle"
  BY DEF IdleScan, ScanState, NoPath
<1>3. ScanTypeOK
  BY <1>2, NoTxnType DEF ScanInit, ScanTypeOK
<1>4. ScanHasFile
  BY <1>2 DEF ScanInit, ScanHasFile
<1> QED
  BY <1>1, <1>3, <1>4 DEF ScanInv

LEMMA ScanInvStutters == ScanInv /\ UNCHANGED inventoryVars => ScanInv'
BY DEF ScanInv, inventoryVars, tableVars, scanVars, TablesTypeOK, ScanTypeOK,
       ScanHasFile

LEMMA ScanInvStep == ScanInv /\ [InventoryNext]_inventoryVars => ScanInv'
<1> SUFFICES ASSUME ScanInv, [InventoryNext]_inventoryVars PROVE ScanInv'
  OBVIOUS
<1>1. ASSUME NEW p \in Scanners, ScanWork(p) PROVE ScanInv'
  BY <1>1, ScanWorkStep
<1>2. ASSUME NEW p \in Scanners, ScanFault(p) PROVE ScanInv'
  BY <1>2, ScanFaultStep
<1>3. ASSUME NEW x \in Paths, NEW v \in Contents \cup {Missing, Unreadable},
             EditFile(x, v)
      PROVE  ScanInv'
  BY <1>3, EditFileStep
<1>4. CASE UNCHANGED inventoryVars
  BY <1>4, ScanInvStutters
<1> QED
  BY <1>1, <1>2, <1>3, <1>4 DEF InventoryNext

\* Whatever scanners, edits and faults do, in any order, every row of the two
\* tables and every open transaction of inventory_scanner.py is well formed:
\* no status that the columns do not know, no master that is no path.
THEOREM InventoryTypeCorrect == InventorySpec => []InventoryTypeOK
<1>1. InventoryInit => ScanInv
  BY ScanInvInitially DEF InventoryInit
<1>2. ScanInv => InventoryTypeOK
  BY DEF ScanInv, InventoryTypeOK
<1> QED
  BY <1>1, <1>2, ScanInvStep, PTL DEF InventorySpec
-----------------------------------------------------------------------------
(* The inductive invariant.  Nothing in it looks at vault_status or at     *)
(* duplicate_group_uid, so specs 002 and 003, which write these columns    *)
(* while a scan is in the middle of a transaction, cannot disturb it.      *)

\* The same rows, as far as a scan looks at them.
SameInst(t, u) ==
  \A y \in Paths :
    /\ t[y].sha = u[y].sha /\ t[y].status = u[y].status
    /\ t[y].dup = u[y].dup /\ t[y].id = u[y].id

SameContent(c, d) == c.count = d.count /\ c.master = d.master

\* The paths that scan p has listed and not yet dealt with.
Ahead(p) ==
  scan[p].todo
    \cup (IF scan[p].pc \in {"txn", "error"} THEN {scan[p].path} ELSE {})

Behind(p) == Paths \ Ahead(p)

\* The row of path x says what is on disk.
RowIsRight(x) ==
  /\ fs[x] \in Contents => inst[x].status = "DISCOVERED" /\ inst[x].sha = fs[x]
  /\ fs[x] = Unreadable => inst[x].status = "ERROR"

\* A scan that nothing has disturbed runs alone.
CleanIsAlone ==
  \A p \in Scanners :
    /\ scan[p].pc = "idle" => scan[p] = IdleScan
    /\ scan[p].clean => \A q \in Scanners \ {p} : scan[q].pc = "idle"

\* While no file has changed, a scan knows of each path what is there.
ScanSeesFiles ==
  \A p \in Scanners : scan[p].clean \/ passes >= 1 =>
    /\ \A x \in Ahead(p) : fs[x] # Missing
    /\ scan[p].pc = "txn" => txn[p].sha = fs[scan[p].path]
    /\ scan[p].pc = "error" => fs[scan[p].path] \notin Contents

\* An undisturbed scan leaves right rows behind, and, when the rows were all
\* right before it started, exact aggregates.
CleanScan ==
  \A p \in Scanners : scan[p].clean =>
    /\ scan[p].pc = "txn" =>
         /\ SameInst(txn[p].inst, inst)
         /\ SameContent(txn[p].content, content[txn[p].sha])
    /\ \A x \in Behind(p) : RowIsRight(x)
    /\ passes >= 1 =>
         \A x \in Behind(p) : fs[x] \in Contents => AggregatesExact(fs[x])

\* After two undisturbed scans no snapshot is ever stale.
SettledTxn ==
  passes = 2 =>
    \A p \in Scanners : scan[p].pc = "txn" => SameInst(txn[p].inst, inst)

ExactInv ==
  /\ ScanInv
  /\ CleanIsAlone
  /\ ScanSeesFiles
  /\ CleanScan
  /\ SettledTxn
  /\ RowsFollowFiles
  /\ TwoScansAreExact

-----------------------------------------------------------------------------
(* Lemmas about the rows.                                                  *)

\* Which instance comes first depends on the ids only (ORDER BY created_at,
\* id).
LEMMA FirstBySameIds ==
  ASSUME NEW S, NEW t, NEW u, \A x \in S : t[x].id = u[x].id
  PROVE  FirstById(t, S) = FirstById(u, S)
<1>1. \A x \in S : (\A y \in S : t[x].id <= t[y].id)
                     <=> (\A y \in S : u[x].id <= u[y].id)
  OBVIOUS
<1>2. \A x : (x \in S /\ \A y \in S : t[x].id <= t[y].id)
               <=> (x \in S /\ \A y \in S : u[x].id <= u[y].id)
  BY <1>1
<1> QED
  BY <1>2, Zenon DEF FirstById

\* The aggregates are exact as long as nobody writes a row.
LEMMA UnchangedAggregates ==
  ASSUME fs' = fs, inst' = inst, content' = content
  PROVE  /\ \A s : AggregatesExact(s)' <=> AggregatesExact(s)
         /\ \A x : AggregatesExact(fs[x])' <=> AggregatesExact(fs[x])
BY DEF AggregatesExact, DiscoveredWith, FirstById

\* A row that is right for a path which is not there, or stays as it is.
LEMMA MissingIsRight ==
  ASSUME NEW x, fs[x] = Missing
  PROVE  RowIsRight(x) /\ fs[x] \notin Contents
BY ContentsAssumption DEF RowIsRight, Missing, Unreadable

LEMMA RightRows ==
  ASSUME RowsFollowFiles, passes >= 1
  PROVE  \A x \in Paths : RowIsRight(x)
BY DEF RowsFollowFiles, RowIsRight

\* Disturbing a process that does nothing changes nothing.
LEMMA DisturbedIdle ==
  ASSUME NEW f, NEW q \in Scanners, f[q] = IdleScan
  PROVE  Disturbed(f)[q] = IdleScan
<1>1. Disturbed(f)[q] = [IdleScan EXCEPT !.clean = FALSE]
  BY DEF Disturbed
<1> QED
  BY <1>1 DEF IdleScan

LEMMA DisturbedFields ==
  ASSUME NEW f \in [Scanners -> ScanState], NEW q \in Scanners
  PROVE  /\ Disturbed(f)[q].pc = f[q].pc /\ Disturbed(f)[q].path = f[q].path
         /\ Disturbed(f)[q].todo = f[q].todo
         /\ ~ Disturbed(f)[q].clean
<1>1. f[q] \in ScanState
  OBVIOUS
<1>2. Disturbed(f)[q] = [f[q] EXCEPT !.clean = FALSE]
  BY DEF Disturbed
<1> QED
  BY <1>1, <1>2 DEF ScanState

-----------------------------------------------------------------------------
(* Steps that change no table.                                             *)

\* Whatever disturbs every scan and starts the count of scans again.
LEMMA DisturbanceExact ==
  ASSUME ScanInv', passes' = 0, \A p \in Scanners : ~ scan'[p].clean,
         \A p \in Scanners : scan'[p].pc = "idle" => scan'[p] = IdleScan
  PROVE  ExactInv'
BY DEF ExactInv, CleanIsAlone, ScanSeesFiles, CleanScan, SettledTxn,
       RowsFollowFiles, TwoScansAreExact

\* A scan that is under way takes a step and looks at the tables only.
LEMMA LookingExact ==
  ASSUME ExactInv, ScanInv', NEW p \in Scanners,
         NEW f \in ScanState, NEW t \in TxnState,
         scan[p].pc # "idle", f.clean => scan[p].clean,
         f.pc = "idle" => f = IdleScan,
         scan' = [scan EXCEPT ![p] = f], txn' = [txn EXCEPT ![p] = t],
         UNCHANGED tableVars, passes' = passes,
         f.pc # "idle" => Ahead(p)' = Ahead(p),
         f.pc = "txn" => /\ t.sha = fs[f.path] /\ SameInst(t.inst, inst)
                         /\ SameContent(t.content, content[t.sha]),
         f.pc = "error" => fs[f.path] \notin Contents
  PROVE  ExactInv'
<1>1. /\ scan'[p] = f /\ txn'[p] = t
      /\ \A q \in Scanners \ {p} : scan'[q] = scan[q] /\ txn'[q] = txn[q]
      /\ fs' = fs /\ inst' = inst /\ content' = content
  BY DEF ExactInv, ScanInv, ScanTypeOK, tableVars
<1>2. \A q \in Scanners \ {p} : Ahead(q)' = Ahead(q)
  BY <1>1 DEF Ahead
<1>3. CleanIsAlone'
  BY <1>1 DEF ExactInv, CleanIsAlone
<1>4. \A q \in Scanners \ {p} : ~ scan'[q].clean
  BY <1>1 DEF ExactInv, CleanIsAlone
<1>5. f.pc = "idle" => Ahead(p)' = {}
  BY <1>1 DEF Ahead, IdleScan
<1>6. ScanSeesFiles'
  <2>1. ASSUME NEW q \in Scanners, (scan[q].clean \/ passes >= 1)'
        PROVE  /\ \A x \in Ahead(q)' : fs'[x] # Missing
               /\ scan'[q].pc = "txn" => txn'[q].sha = fs'[scan'[q].path]
               /\ scan'[q].pc = "error" => fs'[scan'[q].path] \notin Contents
    <3>1. CASE q = p
      BY <1>1, <1>5, <2>1, <3>1 DEF ExactInv, ScanSeesFiles
    <3>2. CASE q # p
      BY <1>1, <1>2, <2>1, <3>2 DEF ExactInv, ScanSeesFiles
    <3> QED
      BY <3>1, <3>2
  <2> QED
    BY <2>1 DEF ScanSeesFiles
<1>7. CleanScan'
  <2>1. f.clean => f.pc # "idle"
    BY DEF IdleScan
  <2>2. f.clean => Behind(p)' = Behind(p)
    BY <2>1 DEF Behind
  <2>3. \A x : RowIsRight(x)' <=> RowIsRight(x)
    BY <1>1 DEF RowIsRight
  <2>4. \A s : AggregatesExact(s)' <=> AggregatesExact(s)
    BY <1>1, UnchangedAggregates
  <2> QED
    BY <1>1, <1>4, <2>2, <2>3, <2>4 DEF ExactInv, CleanScan
<1>8. SettledTxn'
  BY <1>1 DEF ExactInv, SettledTxn
<1>9. RowsFollowFiles' /\ TwoScansAreExact'
  <2>1. \A s : AggregatesExact(s)' <=> AggregatesExact(s)
    BY <1>1, UnchangedAggregates
  <2> QED
    BY <1>1, <2>1 DEF ExactInv, RowsFollowFiles, TwoScansAreExact, LiveCopies
<1> QED
  BY <1>3, <1>6, <1>7, <1>8, <1>9 DEF ExactInv

\* A scan lists the files that are there (_collect_candidates).
LEMMA StartScanExact ==
  ASSUME ExactInv, NEW p \in Scanners, StartScan(p)
  PROVE  ExactInv'
<1> DEFINE new == [pc |-> "files", path |-> NoPath,
                   todo |-> {x \in Paths : fs[x] # Missing}, clean |-> TRUE]
           f == [scan EXCEPT ![p] = new]
           alone == \A q \in Scanners \ {p} : scan[q].pc = "idle"
<1>1. /\ scan[p].pc = "idle"
      /\ scan' = IF alone THEN f ELSE Disturbed(f)
      /\ fs' = fs /\ inst' = inst /\ content' = content
      /\ txn' = txn /\ passes' = passes
  BY DEF StartScan, tableVars
<1>2. ScanInv'
  BY StartScanStep DEF ExactInv
<1>3. scan \in [Scanners -> ScanState]
  BY DEF ExactInv, ScanInv, ScanTypeOK
<1>4. /\ f \in [Scanners -> ScanState]
      /\ \A q \in Scanners \ {p} : f[q] = scan[q]
      /\ f[p].pc = "files" /\ f[p].path = NoPath
      /\ f[p].todo = {x \in Paths : fs[x] # Missing}
  <2>1. new \in ScanState
    BY DEF ScanState, NoPath
  <2> QED
    BY <1>3, <2>1
<1> HIDE DEF new, f, alone
<1>5. /\ scan'[p].pc = "files" /\ scan'[p].path = NoPath
      /\ scan'[p].todo = {x \in Paths : fs[x] # Missing}
  BY <1>1, <1>4, DisturbedFields
<1>6. \A q \in Scanners \ {p} :
        /\ scan'[q].pc = scan[q].pc /\ scan'[q].path = scan[q].path
        /\ scan'[q].todo = scan[q].todo
        /\ ~ scan'[q].clean
        /\ scan[q].pc = "idle" => scan'[q] = IdleScan
  <2>1. \A q \in Scanners : scan[q].pc = "idle" => scan[q] = IdleScan
    BY DEF ExactInv, CleanIsAlone
  <2>2. CASE alone
    <3>1. \A q \in Scanners \ {p} : scan[q] = IdleScan /\ scan'[q] = scan[q]
      BY <1>1, <1>4, <2>1, <2>2 DEF alone
    <3>2. ~ IdleScan.clean
      BY DEF IdleScan
    <3> QED
      BY <3>1, <3>2
  <2>3. CASE ~ alone
    <3>1. scan' = Disturbed(f)
      BY <1>1, <2>3
    <3>2. \A q \in Scanners \ {p} : scan[q].pc = "idle" => scan'[q] = IdleScan
      BY <1>4, <2>1, <3>1, DisturbedIdle
    <3>3. \A q \in Scanners \ {p} :
            /\ scan'[q].pc = scan[q].pc /\ scan'[q].path = scan[q].path
            /\ scan'[q].todo = scan[q].todo
            /\ ~ scan'[q].clean
      BY <1>4, <3>1, DisturbedFields
    <3> QED
      BY <3>2, <3>3
  <2> QED
    BY <2>2, <2>3
<1>7. scan'[p].clean => alone
  BY <1>1, <1>4, DisturbedFields
<1>8. Ahead(p)' = {x \in Paths : fs[x] # Missing}
  BY <1>5 DEF Ahead
<1>9. \A q \in Scanners \ {p} : Ahead(q)' = Ahead(q)
  BY <1>6 DEF Ahead
<1>10. CleanIsAlone'
  BY <1>5, <1>6, <1>7 DEF CleanIsAlone, alone
<1>11. ScanSeesFiles'
  BY <1>1, <1>5, <1>6, <1>8, <1>9 DEF ExactInv, ScanSeesFiles
<1>12. CleanScan'
  <2>1. \A x \in Behind(p)' : RowIsRight(x)' /\ fs'[x] \notin Contents
    <3>1. \A x \in Behind(p)' : fs'[x] = Missing
      BY <1>1, <1>8 DEF Behind
    <3> QED
      BY <1>1, <3>1, ContentsAssumption DEF RowIsRight, Missing, Unreadable
  <2> QED
    BY <1>5, <1>6, <2>1 DEF CleanScan
<1>13. SettledTxn'
  BY <1>1, <1>5, <1>6 DEF ExactInv, SettledTxn
<1>14. RowsFollowFiles' /\ TwoScansAreExact'
  <2>1. \A s : AggregatesExact(s)' <=> AggregatesExact(s)
    BY <1>1, UnchangedAggregates
  <2> QED
    BY <1>1, <2>1 DEF ExactInv, RowsFollowFiles, TwoScansAreExact, LiveCopies
<1> QED
  BY <1>2, <1>10, <1>11, <1>12, <1>13, <1>14 DEF ExactInv

\* The file that a scan takes from its list stays in its hands.
LEMMA HashExact ==
  ASSUME ExactInv, NEW p \in Scanners, HashFile(p) \/ HashRaises(p)
  PROVE  ExactInv'
<1> DEFINE x == Least(scan[p].todo)
<1>1. scan[p] \in ScanState /\ txn[p] \in TxnState
  BY DEF ExactInv, ScanInv, ScanTypeOK, TxnState
<1>2. x \in scan[p].todo /\ x \in Paths
  BY <1>1, LeastIsMember DEF HashFile, HashRaises, ScanState
<1> HIDE DEF x
<1> DEFINE new(pc) == [scan[p] EXCEPT !.path = x, !.todo = @ \ {x}, !.pc = pc]
<1>3. \A pc \in {"txn", "error"} :
        /\ new(pc) \in ScanState /\ new(pc).path = x /\ new(pc).pc = pc
        /\ new(pc).clean = scan[p].clean /\ new(pc).todo = scan[p].todo \ {x}
  BY <1>1, <1>2 DEF ScanState
<1>4. UNCHANGED tableVars /\ passes' = passes /\ scan[p].pc = "files"
  BY DEF HashFile, HashRaises, tableVars
<1>5. ScanInv'
  BY HashStep DEF ExactInv
<1>6. scan \in [Scanners -> ScanState]
  BY DEF ExactInv, ScanInv, ScanTypeOK
<1>7. ASSUME NEW pc \in {"txn", "error"}, scan' = [scan EXCEPT ![p] = new(pc)]
      PROVE  Ahead(p)' = Ahead(p)
  <2>1. scan'[p] = new(pc)
    BY <1>6, <1>7
  <2> HIDE DEF new
  <2> QED
    BY <1>2, <1>3, <1>4, <2>1 DEF Ahead
<1>8. CASE HashFile(p)
  <2> DEFINE t == [sha |-> fs[x], content |-> content[fs[x]], inst |-> inst]
  <2>1. /\ fs[x] \in Contents
        /\ scan' = [scan EXCEPT ![p] = new("txn")]
        /\ txn' = [txn EXCEPT ![p] = t]
    BY <1>8 DEF HashFile, x
  <2>2. /\ t \in TxnState /\ t.sha = fs[x] /\ SameInst(t.inst, inst)
        /\ SameContent(t.content, content[t.sha])
    BY <2>1 DEF ExactInv, ScanInv, TablesTypeOK, TxnState, SameInst, SameContent
  <2> HIDE DEF new, t
  <2>3. Ahead(p)' = Ahead(p)
    BY <1>7, <2>1
  <2> QED
    BY <1>3, <1>4, <1>5, <2>1, <2>2, <2>3, LookingExact
<1>9. CASE HashRaises(p)
  <2>1. /\ fs[x] \notin Contents
        /\ scan' = [scan EXCEPT ![p] = new("error")]
        /\ txn' = txn
    BY <1>9 DEF HashRaises, x
  <2>2. txn' = [txn EXCEPT ![p] = txn[p]]
    BY <2>1 DEF ExactInv, ScanInv, ScanTypeOK
  <2> HIDE DEF new
  <2>3. Ahead(p)' = Ahead(p)
    BY <1>7, <2>1
  <2> QED
    BY <1>1, <1>3, <1>4, <1>5, <2>1, <2>2, <2>3, LookingExact
<1> QED
  BY <1>8, <1>9

LEMMA KillScanExact ==
  ASSUME ExactInv, NEW p \in Scanners, KillScan(p)
  PROVE  ExactInv'
<1>1. IdleScan \in ScanState /\ IdleScan.pc = "idle" /\ ~ IdleScan.clean
  BY DEF IdleScan, ScanState, NoPath
<1>2. NoTxn \in TxnState
  BY NoTxnType DEF TxnState
<1>3. /\ scan' = [scan EXCEPT ![p] = IdleScan] /\ txn' = [txn EXCEPT ![p] = NoTxn]
      /\ UNCHANGED tableVars /\ passes' = passes /\ scan[p].pc # "idle"
  BY DEF KillScan
<1>4. ScanInv'
  BY ScanFaultStep DEF ExactInv, ScanFault
<1> QED
  BY <1>1, <1>2, <1>3, <1>4, LookingExact

\* A transaction that is rolled back, an error that is lost, a file that the
\* owner changes.
LEMMA DisturbersExact ==
  ASSUME ExactInv,
         \/ \E p \in Scanners : RollbackFile(p) \/ LoseError(p)
         \/ \E x \in Paths, v \in Contents \cup {Missing, Unreadable} :
              EditFile(x, v)
  PROVE  ExactInv'
<1>1. ScanInv'
  BY ScanFaultStep, EditFileStep DEF ExactInv, ScanFault
<1>2. scan \in [Scanners -> ScanState]
  BY DEF ExactInv, ScanInv, ScanTypeOK
<1>3. ASSUME NEW p \in Scanners, RollbackFile(p) \/ LoseError(p)
      PROVE  ExactInv'
  <2>1. /\ passes' = 0 /\ scan[p].pc # "idle"
        /\ scan'[p].pc # "idle" /\ ~ scan'[p].clean
        /\ \A q \in Scanners \ {p} : scan'[q] = scan[q]
    <3>1. scan[p] \in ScanState
      BY <1>2
    <3>2. CASE RollbackFile(p)
      <4>1. /\ passes' = 0 /\ scan[p].pc = "txn"
            /\ scan' = [scan EXCEPT ![p] = [scan[p] EXCEPT !.pc = "error",
                                                          !.clean = FALSE]]
        BY <3>2 DEF RollbackFile
      <4> QED
        BY <1>2, <3>1, <4>1 DEF ScanState
    <3>3. CASE LoseError(p)
      <4>1. /\ passes' = 0 /\ scan[p].pc = "error"
            /\ scan' = [scan EXCEPT ![p] = [scan[p] EXCEPT !.pc = "files",
                                             !.path = NoPath, !.clean = FALSE]]
        BY <3>3 DEF LoseError
      <4> QED
        BY <1>2, <3>1, <4>1 DEF ScanState
    <3> QED
      BY <1>3, <3>2, <3>3
  <2>2. \A q \in Scanners : ~ scan'[q].clean
    BY <2>1 DEF ExactInv, CleanIsAlone
  <2>3. \A q \in Scanners : scan'[q].pc = "idle" => scan'[q] = IdleScan
    BY <2>1 DEF ExactInv, CleanIsAlone
  <2> QED
    BY <1>1, <2>1, <2>2, <2>3, DisturbanceExact
<1>4. ASSUME NEW x \in Paths, NEW v \in Contents \cup {Missing, Unreadable},
             EditFile(x, v)
      PROVE  ExactInv'
  <2>1. scan' = Disturbed(scan) /\ passes' = 0
    BY <1>4 DEF EditFile
  <2>2. \A q \in Scanners : ~ scan'[q].clean
    BY <1>2, <2>1, DisturbedFields
  <2>3. \A q \in Scanners : scan'[q].pc = "idle" => scan'[q] = IdleScan
    <3>1. \A q \in Scanners : scan[q].pc = "idle" => scan[q] = IdleScan
      BY DEF ExactInv, CleanIsAlone
    <3> QED
      BY <1>2, <2>1, <3>1, DisturbedType, DisturbedIdle
  <2> QED
    BY <1>1, <2>1, <2>2, <2>3, DisturbanceExact
<1> QED
  BY <1>3, <1>4

\* The end of an undisturbed scan is what the history counts.
LEMMA FinishScanExact ==
  ASSUME ExactInv, NEW p \in Scanners, FinishScan(p)
  PROVE  ExactInv'
<1>1. IdleScan \in ScanState /\ IdleScan.pc = "idle" /\ ~ IdleScan.clean
      /\ IdleScan.todo = {}
  BY DEF IdleScan, ScanState, NoPath
<1>2. txn[p] \in TxnState /\ scan \in [Scanners -> ScanState]
      /\ txn \in [Scanners -> TxnState]
  BY DEF ExactInv, ScanInv, ScanTypeOK, TxnState
<1>3. /\ scan[p].pc = "files" /\ scan[p].todo = {}
      /\ scan' = [scan EXCEPT ![p] = IdleScan] /\ UNCHANGED tableVars /\ txn' = txn
      /\ passes' = IF scan[p].clean /\ passes < 2 THEN passes + 1 ELSE passes
  BY DEF FinishScan
<1>4. ScanInv'
  BY FinishScanStep DEF ExactInv
<1>5. CASE passes' = passes
  <2>1. txn' = [txn EXCEPT ![p] = txn[p]]
    BY <1>2, <1>3
  <2> QED
    BY <1>1, <1>2, <1>3, <1>4, <1>5, <2>1, LookingExact
<1>6. CASE passes' # passes
  <2>1. scan[p].clean /\ passes' = passes + 1 /\ passes \in 0..2
    BY <1>3, <1>6 DEF ExactInv, ScanInv, ScanTypeOK
  <2>2. \A q \in Scanners : scan'[q] = IdleScan
    BY <1>2, <1>3, <2>1 DEF ExactInv, CleanIsAlone
  <2>3. \A q \in Scanners : Ahead(q)' = {}
    BY <1>1, <2>2 DEF Ahead
  <2>4. CleanIsAlone' /\ ScanSeesFiles' /\ CleanScan' /\ SettledTxn'
    BY <1>1, <2>2, <2>3 DEF CleanIsAlone, ScanSeesFiles, CleanScan, SettledTxn
  <2>5. Behind(p) = Paths
    BY <1>3 DEF Behind, Ahead
  <2>6. RowsFollowFiles'
    <3>1. \A x \in Paths : RowIsRight(x)
      BY <2>1, <2>5 DEF ExactInv, CleanScan
    <3> QED
      BY <1>3, <3>1 DEF RowsFollowFiles, RowIsRight, tableVars
  <2>7. TwoScansAreExact'
    <3>1. passes' = 2 => \A x \in Paths : fs[x] \in Contents => AggregatesExact(fs[x])
      BY <2>1, <2>5 DEF ExactInv, CleanScan
    <3>2. passes' = 2 => \A s \in Contents : LiveCopies(s) # {} => AggregatesExact(s)
      BY <3>1 DEF LiveCopies
    <3> QED
      BY <1>3, <3>2, UnchangedAggregates DEF TwoScansAreExact, LiveCopies, tableVars
  <2> QED
    BY <1>4, <2>4, <2>6, <2>7 DEF ExactInv
<1> QED
  BY <1>5, <1>6

-----------------------------------------------------------------------------
(* Steps that write rows.                                                  *)

\* A scan goes on with the rest of its list.
GoesOn(p) ==
  /\ scan'[p].pc = "files" /\ scan'[p].todo = scan[p].todo
  /\ scan'[p].clean = scan[p].clean
  /\ \A q \in Scanners \ {p} : scan'[q] = scan[q]

LEMMA ScanGoesOn ==
  ASSUME ScanInv, NEW p \in Scanners,
         scan' = [scan EXCEPT ![p].pc = "files", ![p].path = NoPath]
  PROVE  GoesOn(p)
<1> DEFINE new == [scan[p] EXCEPT !.pc = "files", !.path = NoPath]
<1>1. scan \in [Scanners -> ScanState] /\ scan' = [scan EXCEPT ![p] = new]
  BY DEF ScanInv, ScanTypeOK
<1>2. new.pc = "files" /\ new.todo = scan[p].todo /\ new.clean = scan[p].clean
  BY <1>1 DEF ScanState
<1> HIDE DEF new
<1> QED
  BY <1>1, <1>2 DEF GoesOn

\* What has to be known of the rows that a scan writes for its file.
LEMMA WritingExact ==
  ASSUME ExactInv, ScanInv', NEW p \in Scanners, scan[p].pc \in {"txn", "error"},
         GoesOn(p), \A q \in Scanners \ {p} : txn'[q] = txn[q],
         fs' = fs, passes' = passes,
         scan[p].clean =>
           \A x \in Behind(p) \cup {scan[p].path} :
             /\ RowIsRight(x)'
             /\ passes >= 1 /\ fs[x] \in Contents => AggregatesExact(fs[x])',
         passes >= 1 => \A x \in Paths : RowIsRight(x)',
         passes = 2 => inst' = inst /\ TwoScansAreExact'
  PROVE  ExactInv'
<1>1. /\ \A q \in Scanners \ {p} : scan'[q] = scan[q]
      /\ scan'[p].pc = "files" /\ scan'[p].todo = scan[p].todo
      /\ scan'[p].clean = scan[p].clean
  BY DEF GoesOn
<1>2. Ahead(p)' = scan[p].todo
  BY <1>1 DEF Ahead
<1>3. \A q \in Scanners \ {p} : Ahead(q)' = Ahead(q)
  BY <1>1 DEF Ahead
<1>4. \A q \in Scanners \ {p} : ~ scan[q].clean
  BY DEF ExactInv, CleanIsAlone
<1>5. CleanIsAlone'
  <2>1. scan'[p].clean => \A q \in Scanners \ {p} : scan[q].pc = "idle"
    BY <1>1 DEF ExactInv, CleanIsAlone
  <2>2. \A q \in Scanners \ {p} : scan[q].pc = "idle" => scan[q] = IdleScan
    BY DEF ExactInv, CleanIsAlone
  <2>3. ASSUME NEW q \in Scanners, scan'[q].pc = "idle"
        PROVE  scan'[q] = IdleScan
    <3>1. q # p
      BY <1>1, <2>3
    <3> QED
      BY <1>1, <2>2, <2>3, <3>1
  <2>4. ASSUME NEW q \in Scanners, scan'[q].clean
        PROVE  \A r \in Scanners \ {q} : scan'[r].pc = "idle"
    <3>1. q = p
      BY <1>1, <1>4, <2>4
    <3> QED
      BY <1>1, <2>1, <2>4, <3>1
  <2> QED
    BY <2>3, <2>4 DEF CleanIsAlone
<1>6. ScanSeesFiles'
  <2>1. scan[p].todo \subseteq Ahead(p)
    BY DEF Ahead
  <2>2. ASSUME NEW q \in Scanners, scan'[q].clean \/ passes >= 1
        PROVE  /\ \A x \in Ahead(q)' : fs[x] # Missing
               /\ scan'[q].pc = "txn" => txn'[q].sha = fs[scan'[q].path]
               /\ scan'[q].pc = "error" => fs[scan'[q].path] \notin Contents
    <3>1. CASE q = p
      BY <1>1, <1>2, <2>1, <2>2, <3>1 DEF ExactInv, ScanSeesFiles
    <3>2. CASE q # p
      BY <1>1, <1>3, <2>2, <3>2 DEF ExactInv, ScanSeesFiles
    <3> QED
      BY <3>1, <3>2
  <2> QED
    BY <2>2 DEF ScanSeesFiles
<1>7. CleanScan'
  <2>1. Behind(p)' \subseteq Behind(p) \cup {scan[p].path}
    BY <1>2 DEF Behind, Ahead
  <2>2. \A q \in Scanners : scan'[q].clean => q = p
    BY <1>1, <1>4
  <2>3. scan'[p].clean => \A x \in Behind(p)' :
          /\ RowIsRight(x)'
          /\ passes' >= 1 /\ fs'[x] \in Contents => AggregatesExact(fs[x])'
    BY <1>1, <2>1
  <2> QED
    BY <1>1, <2>2, <2>3 DEF CleanScan
<1>8. SettledTxn'
  BY <1>1 DEF ExactInv, SettledTxn
<1>9. RowsFollowFiles'
  BY DEF RowsFollowFiles, RowIsRight
<1>10. TwoScansAreExact'
  BY DEF TwoScansAreExact
<1> QED
  BY <1>5, <1>6, <1>7, <1>8, <1>9, <1>10 DEF ExactInv

\* An error record says of a file that cannot be read what the row should say
\* (_record_instance_error).
LEMMA RecordErrorExact ==
  ASSUME ExactInv, NEW p \in Scanners, RecordError(p)
  PROVE  ExactInv'
<1> DEFINE x == scan[p].path
<1>1. /\ scan[p].pc = "error"
      /\ inst' = [inst EXCEPT ![x] =
                    IF @.status = "NONE"
                    THEN [NoInst EXCEPT !.status = "ERROR", !.id = NextId]
                    ELSE [@ EXCEPT !.status = "ERROR"]]
      /\ scan' = [scan EXCEPT ![p].pc = "files", ![p].path = NoPath]
      /\ fs' = fs /\ content' = content /\ txn' = txn /\ passes' = passes
  BY DEF RecordError
<1>2. ScanInv'
  BY RecordErrorStep DEF ExactInv
<1>3. x \in Paths /\ inst \in [Paths -> InstRow] /\ passes \in 0..2
      /\ fs[x] \in Contents \cup {Missing, Unreadable}
  BY <1>1 DEF ExactInv, ScanInv, ScanHasFile, TablesTypeOK, ScanTypeOK
<1>4. scan[p].clean \/ passes >= 1 =>
        fs[x] \notin Contents /\ fs[x] # Missing
  BY <1>1 DEF ExactInv, ScanSeesFiles, Ahead
<1>5. (\A y \in Paths \ {x} : inst'[y] = inst[y]) /\ inst'[x].status = "ERROR"
  BY <1>1, <1>3 DEF InstRow, NoInst
<1>6. passes >= 1 => inst' = inst
  <2>1. ASSUME passes >= 1 PROVE inst[x].status = "ERROR"
    BY <1>3, <1>4, <2>1 DEF ExactInv, RowsFollowFiles
  <2>2. ASSUME passes >= 1 PROVE inst' = [inst EXCEPT ![x] = inst[x]]
    <3>1. [inst[x] EXCEPT !.status = "ERROR"] = inst[x]
      BY <1>3, <2>1, <2>2 DEF InstRow
    <3> QED
      BY <1>1, <1>3, <2>1, <2>2, <3>1
  <2> QED
    BY <1>3, <2>2
<1>7. scan[p].clean => \A y \in Behind(p) \cup {x} :
        /\ RowIsRight(y)'
        /\ passes >= 1 /\ fs[y] \in Contents => AggregatesExact(fs[y])'
  <2> SUFFICES ASSUME scan[p].clean, NEW y \in Behind(p) \cup {x}
               PROVE  /\ RowIsRight(y)'
                      /\ passes >= 1 /\ fs[y] \in Contents =>
                           AggregatesExact(fs[y])'
    OBVIOUS
  <2>1. CASE y = x
    BY <1>1, <1>4, <1>5, <2>1 DEF RowIsRight
  <2>2. CASE y # x
    <3>1. y \in Behind(p) /\ y \in Paths
      BY <2>2 DEF Behind
    <3>2. RowIsRight(y)'
      BY <1>1, <1>5, <2>2, <3>1 DEF ExactInv, CleanScan, RowIsRight
    <3>3. passes >= 1 /\ fs[y] \in Contents => AggregatesExact(fs[y])
      BY <3>1 DEF ExactInv, CleanScan
    <3>4. passes >= 1 /\ fs[y] \in Contents => AggregatesExact(fs[y])'
      BY <1>1, <1>6, <3>3, UnchangedAggregates
    <3> QED
      BY <3>2, <3>4
  <2> QED
    BY <2>1, <2>2
<1>8. passes >= 1 => \A y \in Paths : RowIsRight(y)'
  <2>1. passes >= 1 => \A y \in Paths : RowIsRight(y)
    BY RightRows DEF ExactInv
  <2> QED
    BY <1>1, <1>6, <2>1 DEF RowIsRight
<1>9. passes = 2 => inst' = inst /\ TwoScansAreExact'
  BY <1>1, <1>3, <1>6, UnchangedAggregates DEF ExactInv, TwoScansAreExact, LiveCopies
<1>10. GoesOn(p)
  BY <1>1, ScanGoesOn DEF ExactInv
<1> QED
  BY <1>1, <1>2, <1>7, <1>8, <1>9, <1>10, WritingExact

\* A transaction writes sha and status of its own file only.
LEMMA CommitRows ==
  ASSUME ScanInv, NEW p \in Scanners, CommitFile(p)
  PROVE  /\ \A y \in Paths \ {scan[p].path} :
              /\ inst'[y].sha = inst[y].sha
              /\ inst'[y].status = inst[y].status
         /\ LET x == scan[p].path IN
              /\ x \in Paths
              /\ inst'[x].status \in {"DISCOVERED", inst[x].status}
              /\ inst'[x].sha \in {txn[p].sha, inst[x].sha}
              /\ SameInst(txn[p].inst, inst) =>
                   inst'[x].status = "DISCOVERED" /\ inst'[x].sha = txn[p].sha
<1> DEFINE x == scan[p].path
           s == txn[p].sha
           loaded == txn[p].inst
           isNew == loaded[x].status = "NONE"
           rows == [loaded EXCEPT ![x] = UpsertInstance(@, s, NextId)]
           peers == VisiblePeers(loaded, x, s)
           newRows == RefreshedInst(rows, peers, rows)
<1>1. /\ scan[p].pc = "txn"
      /\ inst' = [y \in Paths |->
                    IF y = x /\ isNew THEN newRows[x]
                    ELSE WriteBackInst(inst[y], loaded[y], newRows[y])]
  BY DEF CommitFile
<1>2. x \in Paths /\ s \in Contents
  BY <1>1 DEF ScanInv, ScanHasFile
<1>3. loaded \in [Paths -> InstRow] /\ inst \in [Paths -> InstRow]
  BY DEF ScanInv, ScanTypeOK, TablesTypeOK
<1> HIDE DEF x, s, loaded, peers
<1>4. /\ UpsertInstance(loaded[x], s, NextId) \in InstRow
      /\ UpsertInstance(loaded[x], s, NextId).status = "DISCOVERED"
      /\ UpsertInstance(loaded[x], s, NextId).sha = s
  <2>1. loaded[x] \in InstRow
    BY <1>2, <1>3
  <2>2. UpsertInstance(loaded[x], s, NextId) \in InstRow
    BY <1>2, <2>1, NextIdIsNat, UpsertInstanceType
  <2> QED
    BY <2>1, <2>2 DEF UpsertInstance, InstRow
<1>5. /\ rows \in [Paths -> InstRow]
      /\ rows[x].status = "DISCOVERED" /\ rows[x].sha = s
      /\ \A y \in Paths \ {x} : rows[y] = loaded[y]
  BY <1>2, <1>3, <1>4
<1> HIDE DEF rows
<1>6. \A y \in Paths : /\ newRows[y].sha = rows[y].sha
                       /\ newRows[y].status = rows[y].status
  BY <1>5 DEF RefreshedInst, InstRow
<1> HIDE DEF newRows
<1>7. ASSUME NEW y \in Paths \ {x}
      PROVE  inst'[y].sha = inst[y].sha /\ inst'[y].status = inst[y].status
  <2>1. inst'[y] = WriteBackInst(inst[y], loaded[y], newRows[y])
    BY <1>1, <1>7
  <2> QED
    BY <1>5, <1>6, <1>7, <2>1 DEF WriteBackInst
<1>8. CASE isNew
  <2>1. inst'[x] = newRows[x]
    BY <1>1, <1>2, <1>8
  <2> QED
    BY <1>2, <1>5, <1>6, <1>7, <2>1 DEF x, s
<1>9. CASE ~ isNew
  <2>1. inst'[x] = WriteBackInst(inst[x], loaded[x], newRows[x])
    BY <1>1, <1>2, <1>9
  <2>2. /\ inst'[x].sha = IF s = loaded[x].sha THEN inst[x].sha ELSE s
        /\ inst'[x].status = IF "DISCOVERED" = loaded[x].status THEN inst[x].status
                             ELSE "DISCOVERED"
    BY <1>2, <1>5, <1>6, <2>1 DEF WriteBackInst
  <2> QED
    BY <1>2, <1>7, <2>2 DEF SameInst, x, s, loaded
<1> QED
  BY <1>8, <1>9

\* A transaction that finds the row of its file as it should be writes the
\* duplicate flags of its content, and its count and master.
LEMMA CommitAggregates ==
  ASSUME ScanInv, NEW p \in Scanners, CommitFile(p),
         SameInst(txn[p].inst, inst),
         inst[scan[p].path].status = "DISCOVERED",
         inst[scan[p].path].sha = txn[p].sha
  PROVE  LET s == txn[p].sha
             D == DiscoveredWith(inst, s)
         IN /\ s \in Contents /\ scan[p].path \in D
            /\ \A y \in Paths :
                 inst'[y] = IF y \in D
                            THEN [inst[y] EXCEPT !.dup = (y # FirstById(inst, D))]
                            ELSE inst[y]
            /\ \A r \in Contents \ {s} : content'[r] = content[r]
            /\ \/ content'[s].count = Cardinality(D)
               \/ /\ txn[p].content.count = Cardinality(D)
                  /\ content'[s].count = content[s].count
            /\ \/ content'[s].master = FirstById(inst, D)
               \/ /\ txn[p].content.master = FirstById(inst, D)
                  /\ content'[s].master = content[s].master
<1> DEFINE x == scan[p].path
           s == txn[p].sha
           loaded == txn[p].inst
           isNew == loaded[x].status = "NONE"
           rows == [loaded EXCEPT ![x] = UpsertInstance(@, s, NextId)]
           peers == VisiblePeers(loaded, x, s)
           newRows == RefreshedInst(rows, peers, rows)
           newContent == RefreshedContent(UpsertContent(txn[p].content), peers, rows)
           D == DiscoveredWith(inst, s)
<1>1. /\ scan[p].pc = "txn"
      /\ inst' = [y \in Paths |->
                    IF y = x /\ isNew THEN newRows[x]
                    ELSE WriteBackInst(inst[y], loaded[y], newRows[y])]
      /\ content' = [content EXCEPT ![s] =
                       IF txn[p].content.vault = "NONE" THEN newContent
                       ELSE WriteBackContent(@, txn[p].content, newContent)]
  BY DEF CommitFile
<1>2. x \in Paths /\ s \in Contents
  BY <1>1 DEF ScanInv, ScanHasFile
<1>3. /\ SameInst(loaded, inst)
      /\ loaded \in [Paths -> InstRow] /\ inst \in [Paths -> InstRow]
      /\ inst[x].status = "DISCOVERED" /\ inst[x].sha = s
      /\ content \in [Contents -> ContentRow] /\ txn[p].content \in ContentRow
  BY DEF ScanInv, ScanTypeOK, TablesTypeOK
<1> HIDE DEF x, s, loaded
<1>4. ~ isNew /\ peers = D
  BY <1>2, <1>3 DEF VisiblePeers, DiscoveredWith, SameInst
<1>5. x \in D /\ D \subseteq Paths
  BY <1>2, <1>3 DEF DiscoveredWith
<1>6. rows = loaded
  <2> DEFINE row == loaded[x]
  <2>1. row \in InstRow /\ row.sha = s /\ row.status = "DISCOVERED"
    BY <1>2, <1>3 DEF SameInst
  <2>2. UpsertInstance(row, s, NextId) = [row EXCEPT !.sha = s, !.status = "DISCOVERED"]
    BY <2>1 DEF UpsertInstance
  <2> HIDE DEF row
  <2>3. [row EXCEPT !.sha = s, !.status = "DISCOVERED"] = row
    BY <2>1 DEF InstRow
  <2>4. UpsertInstance(loaded[x], s, NextId) = loaded[x]
    BY <2>2, <2>3 DEF row
  <2> QED
    BY <1>2, <1>3, <2>4
<1> HIDE DEF rows, peers, D, isNew
<1>7. FirstById(loaded, D) = FirstById(inst, D)
  BY <1>3, <1>5, FirstBySameIds DEF SameInst
<1>8. /\ newRows = [y \in Paths |-> IF y \in D
                                   THEN [loaded[y] EXCEPT !.dup =
                                           (y # FirstById(inst, D))]
                                   ELSE loaded[y]]
      /\ newContent = IF D = {} THEN UpsertContent(txn[p].content)
                      ELSE [UpsertContent(txn[p].content) EXCEPT
                              !.count = Cardinality(D),
                              !.master = FirstById(inst, D)]
  BY <1>4, <1>6, <1>7 DEF RefreshedInst, RefreshedContent
<1> HIDE DEF newRows, newContent
<1>9. ASSUME NEW y \in Paths
      PROVE  inst'[y] = IF y \in D
                        THEN [inst[y] EXCEPT !.dup = (y # FirstById(inst, D))]
                        ELSE inst[y]
  <2> DEFINE row == inst[y]
             old == loaded[y]
             new == newRows[y]
             dup == y # FirstById(inst, D)
  <2>1. /\ row \in InstRow /\ old \in InstRow
        /\ old.sha = row.sha /\ old.status = row.status /\ old.dup = row.dup
    BY <1>3 DEF SameInst
  <2>2. new = IF y \in D THEN [old EXCEPT !.dup = dup] ELSE old
    BY <1>8
  <2>3. inst'[y] = WriteBackInst(row, old, new)
    BY <1>1, <1>4
  <2> HIDE DEF row, old, new, dup
  <2>4. CASE y \in D
    <3>1. new.sha = old.sha /\ new.status = old.status /\ new.dup = dup
      BY <2>1, <2>2, <2>4 DEF InstRow
    <3>2. WriteBackInst(row, old, new) = [row EXCEPT !.dup = dup]
      BY <2>1, <3>1 DEF WriteBackInst, InstRow
    <3> QED
      BY <2>3, <2>4, <3>2 DEF row, dup
  <2>5. CASE y \notin D
    <3>1. WriteBackInst(row, old, old) = row
      BY <2>1 DEF WriteBackInst, InstRow
    <3> QED
      BY <2>2, <2>3, <2>5, <3>1 DEF row
  <2> QED
    BY <2>4, <2>5
<1>10. \A r \in Contents \ {s} : content'[r] = content[r]
  BY <1>1, <1>3
<1>11. newContent.count = Cardinality(D) /\ newContent.master = FirstById(inst, D)
  <2>1. UpsertContent(txn[p].content) \in ContentRow
    BY <1>3, UpsertContentType
  <2> HIDE DEF D
  <2> QED
    BY <1>5, <1>8, <2>1 DEF ContentRow
<1>12. content'[s] = IF txn[p].content.vault = "NONE" THEN newContent
                     ELSE WriteBackContent(content[s], txn[p].content, newContent)
  BY <1>1, <1>2, <1>3
<1>13. /\ \/ content'[s].count = Cardinality(D)
          \/ /\ txn[p].content.count = Cardinality(D)
             /\ content'[s].count = content[s].count
       /\ \/ content'[s].master = FirstById(inst, D)
          \/ /\ txn[p].content.master = FirstById(inst, D)
             /\ content'[s].master = content[s].master
  BY <1>11, <1>12 DEF WriteBackContent
<1> QED
  BY <1>2, <1>5, <1>9, <1>10, <1>13 DEF D, s, x

\* Such a transaction makes the aggregates of its content exact, and leaves
\* those of the others as they were (_refresh_duplicate_state).
LEMMA CommitMakesExact ==
  ASSUME ScanInv, NEW p \in Scanners, CommitFile(p),
         NEW s \in Contents, s = txn[p].sha, SameInst(txn[p].inst, inst),
         inst[scan[p].path].status = "DISCOVERED",
         inst[scan[p].path].sha = s,
         SameContent(txn[p].content, content[s]) \/ AggregatesExact(s)
  PROVE  /\ AggregatesExact(s)'
         /\ AggregatesExact(s) => inst' = inst
         /\ \A r \in Contents : AggregatesExact(r) => AggregatesExact(r)'
<1> DEFINE D == DiscoveredWith(inst, s)
           first == FirstById(inst, D)
<1>1. /\ s \in Contents /\ scan[p].path \in D
      /\ \A y \in Paths : inst'[y] = IF y \in D
                                     THEN [inst[y] EXCEPT !.dup = (y # first)]
                                     ELSE inst[y]
      /\ \A r \in Contents \ {s} : content'[r] = content[r]
      /\ \/ content'[s].count = Cardinality(D)
         \/ /\ txn[p].content.count = Cardinality(D)
            /\ content'[s].count = content[s].count
      /\ \/ content'[s].master = first
         \/ /\ txn[p].content.master = first
            /\ content'[s].master = content[s].master
  BY CommitAggregates
<1>2. inst \in [Paths -> InstRow] /\ inst' \in [Paths -> InstRow]
  BY CommitFileStep DEF ScanInv, TablesTypeOK
<1>3. D \subseteq Paths /\ D # {}
  BY <1>1 DEF DiscoveredWith
<1>4. AggregatesExact(s) =>
        /\ content[s].count = Cardinality(D) /\ content[s].master = first
        /\ \A y \in D : inst[y].dup = (y # first)
  BY <1>3 DEF AggregatesExact
<1>5. content'[s].count = Cardinality(D) /\ content'[s].master = first
  BY <1>1, <1>4 DEF SameContent
<1>6. \A r \in Contents : DiscoveredWith(inst, r) \subseteq Paths
  BY DEF DiscoveredWith
<1>7. \A y \in DiscoveredWith(inst, s) : inst[y].sha = s
  BY DEF DiscoveredWith
<1> HIDE DEF D, first
<1>8. \A y \in Paths : /\ inst'[y].sha = inst[y].sha
                       /\ inst'[y].status = inst[y].status
                       /\ inst'[y].id = inst[y].id
                       /\ y \notin D => inst'[y].dup = inst[y].dup
                       /\ y \in D => inst'[y].dup = (y # first)
  BY <1>1, <1>2 DEF InstRow
<1>9. ASSUME NEW r
      PROVE  /\ DiscoveredWith(inst, r)' = DiscoveredWith(inst, r)
             /\ FirstById(inst, DiscoveredWith(inst, r))'
                  = FirstById(inst, DiscoveredWith(inst, r))
  <2>1. DiscoveredWith(inst', r) = DiscoveredWith(inst, r)
    BY <1>8 DEF DiscoveredWith
  <2>2. \A y \in DiscoveredWith(inst, r) : inst'[y].id = inst[y].id
    BY <1>8 DEF DiscoveredWith
  <2>3. FirstById(inst', DiscoveredWith(inst, r))
          = FirstById(inst, DiscoveredWith(inst, r))
    BY <2>2, FirstBySameIds
  <2>4. DiscoveredWith(inst, r)' = DiscoveredWith(inst', r)
    BY DEF DiscoveredWith
  <2>5. FirstById(inst, DiscoveredWith(inst, r))'
          = FirstById(inst', DiscoveredWith(inst, r)')
    BY DEF FirstById
  <2> QED
    BY <2>1, <2>3, <2>4, <2>5
<1>10. \A y \in D : inst'[y].dup = (y # first)
  BY <1>3, <1>8
<1>11. AggregatesExact(s)'
  BY <1>5, <1>9, <1>10 DEF AggregatesExact, D, first
<1>12. AggregatesExact(s) => inst' = inst
  <2> SUFFICES ASSUME AggregatesExact(s), NEW y \in Paths PROVE inst'[y] = inst[y]
    BY <1>2
  <2>1. CASE y \in D
    <3>1. inst[y].dup = (y # first) /\ inst[y] \in InstRow
      BY <1>2, <1>4, <2>1
    <3>2. [inst[y] EXCEPT !.dup = (y # first)] = inst[y]
      BY <3>1 DEF InstRow
    <3> QED
      BY <1>1, <2>1, <3>2
  <2>2. CASE y \notin D
    BY <1>1, <2>2
  <2> QED
    BY <2>1, <2>2
<1>13. ASSUME NEW r \in Contents, r # s, AggregatesExact(r)
       PROVE  AggregatesExact(r)'
  <2>1. \A y \in DiscoveredWith(inst, r) : y \in Paths /\ y \notin D
    BY <1>7, <1>13 DEF DiscoveredWith, D
  <2>2. \A y \in DiscoveredWith(inst, r) : inst'[y].dup = inst[y].dup
    BY <1>8, <2>1
  <2>3. content'[r] = content[r]
    BY <1>1, <1>13
  <2> QED
    BY <1>9, <1>13, <2>2, <2>3 DEF AggregatesExact
<1> QED
  BY <1>11, <1>12, <1>13

\* The long step of a scan (the rest of _process_file).
LEMMA CommitFileExact ==
  ASSUME ExactInv, NEW p \in Scanners, CommitFile(p)
  PROVE  ExactInv'
<1> DEFINE x == scan[p].path
           s == txn[p].sha
<1>1. /\ scan[p].pc = "txn" /\ fs' = fs /\ passes' = passes
      /\ scan' = [scan EXCEPT ![p].pc = "files", ![p].path = NoPath]
      /\ txn' = [txn EXCEPT ![p] = NoTxn]
  BY DEF CommitFile
<1>2. ScanInv'
  BY CommitFileStep DEF ExactInv
<1>3. /\ \A y \in Paths \ {x} : /\ inst'[y].sha = inst[y].sha
                                /\ inst'[y].status = inst[y].status
      /\ x \in Paths
      /\ inst'[x].status \in {"DISCOVERED", inst[x].status}
      /\ inst'[x].sha \in {s, inst[x].sha}
      /\ SameInst(txn[p].inst, inst) =>
           inst'[x].status = "DISCOVERED" /\ inst'[x].sha = s
  BY CommitRows DEF ExactInv
<1>4. /\ s \in Contents /\ passes \in 0..2
      /\ scan[p].clean \/ passes >= 1 => s = fs[x]
  BY <1>1 DEF ExactInv, ScanInv, ScanHasFile, ScanTypeOK, ScanSeesFiles
<1>5. GoesOn(p) /\ \A q \in Scanners \ {p} : txn'[q] = txn[q]
  BY <1>1, ScanGoesOn DEF ExactInv, ScanInv, ScanTypeOK
<1>6. scan[p].clean => /\ SameInst(txn[p].inst, inst)
                       /\ SameContent(txn[p].content, content[s])
  BY <1>1 DEF ExactInv, CleanScan
<1>7. passes = 2 => SameInst(txn[p].inst, inst)
  BY <1>1 DEF ExactInv, SettledTxn
<1>8. passes >= 1 => inst[x].status = "DISCOVERED" /\ inst[x].sha = s
  BY <1>3, <1>4 DEF ExactInv, RowsFollowFiles
<1>9. ASSUME passes >= 1, SameInst(txn[p].inst, inst),
             SameContent(txn[p].content, content[s]) \/ AggregatesExact(s)
      PROVE  /\ \A r \in Contents : (r = s \/ AggregatesExact(r)) => AggregatesExact(r)'
             /\ AggregatesExact(s) => inst' = inst
  <2>1. inst[scan[p].path].status = "DISCOVERED" /\ inst[scan[p].path].sha = s
    BY <1>8, <1>9
  <2>2. PICK r \in Contents : r = txn[p].sha
    BY <1>4
  <2>3. /\ AggregatesExact(r)'
        /\ AggregatesExact(r) => inst' = inst
        /\ \A c \in Contents : AggregatesExact(c) => AggregatesExact(c)'
    BY <1>9, <2>1, <2>2, CommitMakesExact DEF ExactInv
  <2> QED
    BY <2>2, <2>3
<1> HIDE DEF x, s
<1>10. scan[p].clean => \A y \in Behind(p) \cup {x} :
         /\ RowIsRight(y)'
         /\ passes >= 1 /\ fs[y] \in Contents => AggregatesExact(fs[y])'
  <2> SUFFICES ASSUME scan[p].clean, NEW y \in Behind(p) \cup {x}
               PROVE  /\ RowIsRight(y)'
                      /\ passes >= 1 /\ fs[y] \in Contents =>
                           AggregatesExact(fs[y])'
    OBVIOUS
  <2>1. RowIsRight(y)'
    <3>1. CASE y = x
      BY <1>1, <1>3, <1>4, <1>6, <3>1, ContentsAssumption
         DEF RowIsRight, Unreadable
    <3>2. CASE y # x
      <4>1. RowIsRight(y) /\ y \in Paths
        BY <3>2 DEF ExactInv, CleanScan, Behind
      <4> QED
        BY <1>1, <1>3, <3>2, <4>1 DEF RowIsRight
    <3> QED
      BY <3>1, <3>2
  <2>2. ASSUME passes >= 1, fs[y] \in Contents PROVE AggregatesExact(fs[y])'
    <3>1. PICK r \in Contents : r = fs[y]
      BY <2>2
    <3>2. r = s \/ AggregatesExact(r)
      BY <1>4, <2>2, <3>1 DEF ExactInv, CleanScan
    <3>3. AggregatesExact(r)'
      BY <1>6, <1>9, <2>2, <3>2
    <3>4. fs'[y] = r
      BY <1>1, <3>1
    <3> QED
      BY <3>3, <3>4
  <2> QED
    BY <2>1, <2>2
<1>11. passes >= 1 => \A y \in Paths : RowIsRight(y)'
  <2> SUFFICES ASSUME passes >= 1, NEW y \in Paths PROVE RowIsRight(y)'
    OBVIOUS
  <2>1. RowIsRight(y)
    BY RightRows DEF ExactInv
  <2>2. inst'[y].status = inst[y].status /\ inst'[y].sha = inst[y].sha
    BY <1>3, <1>8
  <2> QED
    BY <1>1, <2>1, <2>2 DEF RowIsRight
<1>12. passes = 2 => inst' = inst /\ TwoScansAreExact'
  <2> SUFFICES ASSUME passes = 2 PROVE inst' = inst /\ TwoScansAreExact'
    OBVIOUS
  <2>1. \A r \in Contents : LiveCopies(r) # {} => AggregatesExact(r)
    BY DEF ExactInv, TwoScansAreExact
  <2>2. x \in LiveCopies(s)
    BY <1>3, <1>4 DEF LiveCopies
  <2>3. AggregatesExact(s)
    BY <1>4, <2>1, <2>2
  <2>4. inst' = inst /\ \A r \in Contents : AggregatesExact(r) => AggregatesExact(r)'
    BY <1>7, <1>9, <2>3
  <2> QED
    BY <1>1, <2>1, <2>4 DEF TwoScansAreExact, LiveCopies
<1> QED
  BY <1>1, <1>2, <1>5, <1>10, <1>11, <1>12, WritingExact DEF x

-----------------------------------------------------------------------------
LEMMA ExactInvInitially == InventoryInit => ExactInv
<1> SUFFICES ASSUME InventoryInit PROVE ExactInv
  OBVIOUS
<1>1. ScanInv
  BY ScanInvInitially DEF InventoryInit
<1>2. passes = 0 /\ \A p \in Scanners : scan[p] = IdleScan
  BY DEF InventoryInit, ScanInit
<1>3. ~ IdleScan.clean
  BY DEF IdleScan
<1> QED
  BY <1>1, <1>2, <1>3 DEF ExactInv, CleanIsAlone, ScanSeesFiles, CleanScan,
     SettledTxn, RowsFollowFiles, TwoScansAreExact

\* Whoever writes only vault_status and duplicate_group_uid disturbs no scan:
\* the ORM never writes back a column that it has not changed.
LEMMA OtherColumnsExact ==
  ASSUME ExactInv, ScanInv', UNCHANGED <<fs, scanVars>>,
         SameInst(inst, inst'),
         \A s \in Contents : SameContent(content[s], content'[s])
  PROVE  ExactInv'
<1>1. scan' = scan /\ txn' = txn /\ passes' = passes /\ fs' = fs
  BY DEF scanVars
<1>2. \A y \in Paths : /\ inst'[y].sha = inst[y].sha
                       /\ inst'[y].status = inst[y].status
                       /\ inst'[y].dup = inst[y].dup
                       /\ inst'[y].id = inst[y].id
  BY DEF SameInst
<1>3. \A s \in Contents : /\ content'[s].count = content[s].count
                          /\ content'[s].master = content[s].master
  BY DEF SameContent
<1>4. ASSUME NEW s \in Contents, AggregatesExact(s)
      PROVE  AggregatesExact(s)'
  <2> DEFINE D == DiscoveredWith(inst, s)
  <2>1. D \subseteq Paths /\ DiscoveredWith(inst', s) = D
    BY <1>2 DEF DiscoveredWith
  <2>2. /\ content[s].count = Cardinality(D)
        /\ D # {} => /\ content[s].master = FirstById(inst, D)
                     /\ \A x \in D : inst[x].dup = (x # content[s].master)
    BY <1>4 DEF AggregatesExact
  <2> HIDE DEF D
  <2>3. FirstById(inst', D) = FirstById(inst, D)
    BY <1>2, <2>1, FirstBySameIds
  <2>4. /\ content'[s].count = Cardinality(D)
        /\ D # {} => /\ content'[s].master = FirstById(inst', D)
                     /\ \A x \in D : inst'[x].dup = (x # content'[s].master)
    BY <1>2, <1>3, <2>1, <2>2, <2>3
  <2> QED
    BY <2>1, <2>4 DEF AggregatesExact, DiscoveredWith, FirstById
<1>5. \A x \in Paths : RowIsRight(x) => RowIsRight(x)'
  BY <1>1, <1>2 DEF RowIsRight
<1>6. \A q : Ahead(q)' = Ahead(q) /\ Behind(q)' = Behind(q)
  BY <1>1 DEF Behind, Ahead
<1>7. \A t : SameInst(t, inst) => SameInst(t, inst')
  BY <1>2 DEF SameInst
<1>8. CleanIsAlone' /\ ScanSeesFiles' /\ SettledTxn'
  BY <1>1, <1>6, <1>7 DEF ExactInv, CleanIsAlone, ScanSeesFiles, SettledTxn,
     SameInst
<1>9. RowsFollowFiles'
  BY <1>1, <1>2 DEF ExactInv, RowsFollowFiles
<1>10. TwoScansAreExact'
  BY <1>1, <1>4 DEF ExactInv, TwoScansAreExact, LiveCopies
<1>11. CleanScan'
  <2> SUFFICES ASSUME NEW p \in Scanners, scan[p].clean
               PROVE  /\ scan[p].pc = "txn" =>
                           /\ SameInst(txn[p].inst, inst')
                           /\ SameContent(txn[p].content, content'[txn[p].sha])
                      /\ \A x \in Behind(p) : RowIsRight(x)'
                      /\ passes >= 1 =>
                           \A x \in Behind(p) :
                             fs[x] \in Contents => AggregatesExact(fs[x])'
    BY <1>1, <1>6 DEF CleanScan, SameInst, SameContent
  <2>1. scan[p].pc = "txn" => txn[p].sha \in Contents
    BY DEF ExactInv, ScanInv, ScanHasFile
  <2>2. scan[p].pc = "txn" =>
          SameContent(txn[p].content, content'[txn[p].sha])
    BY <1>3, <2>1 DEF ExactInv, CleanScan, SameContent
  <2>3. ASSUME passes >= 1, NEW x \in Behind(p), fs[x] \in Contents
        PROVE  AggregatesExact(fs[x])'
    <3>1. PICK s \in Contents : s = fs[x]
      BY <2>3
    <3>2. AggregatesExact(s)'
      BY <1>4, <2>3, <3>1 DEF ExactInv, CleanScan
    <3> QED
      BY <1>1, <3>1, <3>2
  <2> QED
    BY <1>5, <1>7, <2>2, <2>3 DEF ExactInv, CleanScan, Behind
<1> QED
  BY <1>8, <1>9, <1>10, <1>11 DEF ExactInv

LEMMA ExactInvStep == ExactInv /\ [InventoryNext]_inventoryVars => ExactInv'
<1> SUFFICES ASSUME ExactInv, [InventoryNext]_inventoryVars PROVE ExactInv'
  OBVIOUS
<1>1. ASSUME NEW p \in Scanners, ScanWork(p) PROVE ExactInv'
  BY <1>1, StartScanExact, HashExact, CommitFileExact, RecordErrorExact,
     FinishScanExact DEF ScanWork
<1>2. ASSUME NEW p \in Scanners, ScanFault(p) PROVE ExactInv'
  BY <1>2, KillScanExact, DisturbersExact DEF ScanFault
<1>3. ASSUME NEW x \in Paths, NEW v \in Contents \cup {Missing, Unreadable},
             EditFile(x, v)
      PROVE  ExactInv'
  BY <1>3, DisturbersExact
<1>4. CASE UNCHANGED inventoryVars
  <2>1. ScanInv'
    BY <1>4, ScanInvStutters DEF ExactInv
  <2>2. /\ scan' = scan /\ txn' = txn /\ passes' = passes
        /\ fs' = fs /\ inst' = inst /\ content' = content
    BY <1>4 DEF inventoryVars, tableVars, scanVars
  <2>3. \A x : RowIsRight(x)' <=> RowIsRight(x)
    BY <2>2 DEF RowIsRight
  <2>4. \A q : Ahead(q)' = Ahead(q) /\ Behind(q)' = Behind(q)
    BY <2>2 DEF Behind, Ahead
  <2>5. CleanIsAlone' /\ ScanSeesFiles' /\ SettledTxn' /\ RowsFollowFiles'
    BY <2>2, <2>4 DEF ExactInv, CleanIsAlone, ScanSeesFiles, SettledTxn,
       RowsFollowFiles
  <2>6. CleanScan'
    BY <2>2, <2>3, <2>4, UnchangedAggregates DEF ExactInv, CleanScan
  <2>7. TwoScansAreExact'
    BY <2>2, UnchangedAggregates DEF ExactInv, TwoScansAreExact, LiveCopies
  <2> QED
    BY <2>1, <2>5, <2>6, <2>7 DEF ExactInv
<1> QED
  BY <1>1, <1>2, <1>3, <1>4 DEF InventoryNext

\* Once a scan has gone through without an edit, a fault or another scan, the
\* row of every file says what is on disk, and it stays so whatever scanners
\* do, alone or together, until the next edit or fault (_process_file and
\* _record_instance_error of inventory_scanner.py).
THEOREM RowsKeepToFiles == InventorySpec => []RowsFollowFiles
<1>1. InventoryInit => ExactInv
  BY ExactInvInitially DEF InventoryInit
<1>2. ExactInv => RowsFollowFiles
  BY DEF ExactInv
<1> QED
  BY <1>1, <1>2, ExactInvStep, PTL DEF InventorySpec

\* Once two such scans have gone through, instance_count, the master and the
\* duplicate flags of every content that some file holds are exact, and stay
\* exact, although _refresh_duplicate_state reads behind its own writes.
THEOREM AggregatesConverge == InventorySpec => []TwoScansAreExact
<1>1. InventoryInit => ExactInv
  BY ExactInvInitially DEF InventoryInit
<1>2. ExactInv => TwoScansAreExact
  BY DEF ExactInv
<1> QED
  BY <1>1, <1>2, ExactInvStep, PTL DEF InventorySpec

-----------------------------------------------------------------------------
(* A scan goes on to its end.                                              *)

Advances(p) ==
  scan[p].pc # "idle" =>
    \/ scan'[p].pc = "idle"
    \/ scan'[p] \in {scan[p], [scan[p] EXCEPT !.clean = FALSE]}
    \/ StepsLeft(p)' < StepsLeft(p)

\* A list without one of its files is shorter.
LEMMA ShorterList ==
  ASSUME NEW S \in SUBSET Paths
  PROVE  /\ Cardinality(S) \in Nat
         /\ \A x \in S : Cardinality(S \ {x}) = Cardinality(S) - 1
                         /\ Cardinality(S \ {x}) \in Nat
<1>1. IsFiniteSet(Paths)
  BY FS_Interval, NPathsAssumption DEF Paths
<1>2. IsFiniteSet(S)
  BY <1>1, FS_Subset
<1>3. \A x \in S : Cardinality(S \ {x}) = Cardinality(S) - 1
  BY <1>2, FS_RemoveElement
<1>4. \A T \in SUBSET Paths : Cardinality(T) \in Nat
  BY CountIsNat
<1> QED
  BY <1>3, <1>4

\* A step of scanner p that takes a file off its list, or goes on within it.
LEMMA StepShortens ==
  ASSUME ScanInv, NEW p \in Scanners,
         \/ HashFile(p) \/ HashRaises(p) \/ CommitFile(p) \/ RecordError(p)
         \/ RollbackFile(p) \/ LoseError(p)
  PROVE  StepsLeft(p)' < StepsLeft(p)
         /\ \A q \in Scanners \ {p} : scan'[q] = scan[q]
<1>1. scan \in [Scanners -> ScanState] /\ scan[p] \in ScanState
  BY DEF ScanInv, ScanTypeOK
<1>2. scan[p].todo \in SUBSET Paths
  BY <1>1 DEF ScanState
<1> DEFINE n == Cardinality(scan[p].todo)
<1>3. n \in Nat
  BY <1>2, ShorterList
<1>4. CASE HashFile(p) \/ HashRaises(p)
  <2> DEFINE x == Least(scan[p].todo)
  <2>1. x \in scan[p].todo
    BY <1>2, <1>4, LeastIsMember DEF HashFile, HashRaises
  <2>2. /\ scan[p].pc = "files"
        /\ scan'[p].todo = scan[p].todo \ {x}
        /\ scan'[p].pc \in {"txn", "error"}
        /\ \A q \in Scanners \ {p} : scan'[q] = scan[q]
    BY <1>1, <1>4 DEF HashFile, HashRaises, ScanState
  <2>3. Cardinality(scan'[p].todo) = n - 1
    BY <1>2, <2>1, <2>2, ShorterList
  <2>4. StepsLeft(p) = 3 * n
    BY <1>3, <2>2 DEF StepsLeft
  <2>5. StepsLeft(p)' \in {3 * (n - 1) + 2, 3 * (n - 1) + 1}
    BY <2>2, <2>3 DEF StepsLeft
  <2> HIDE DEF n
  <2> QED
    BY <1>3, <2>2, <2>4, <2>5
<1>5. CASE CommitFile(p) \/ RecordError(p) \/ RollbackFile(p) \/ LoseError(p)
  <2>1. /\ scan'[p].todo = scan[p].todo
        /\ \/ scan[p].pc \in {"txn", "error"} /\ scan'[p].pc = "files"
           \/ scan[p].pc = "txn" /\ scan'[p].pc = "error"
        /\ \A q \in Scanners \ {p} : scan'[q] = scan[q]
    <3>1. \/ /\ scan[p].pc = "txn" \/ scan[p].pc = "error"
             /\ \E clean : scan' = [scan EXCEPT ![p] = [scan[p] EXCEPT
                                     !.pc = "files", !.path = NoPath, !.clean = clean]]
          \/ /\ scan[p].pc = "txn"
             /\ scan' = [scan EXCEPT ![p] = [scan[p] EXCEPT
                                     !.pc = "error", !.clean = FALSE]]
      <4>1. CASE CommitFile(p) \/ RecordError(p)
        <5>1. /\ scan[p].pc = "txn" \/ scan[p].pc = "error"
              /\ scan' = [scan EXCEPT ![p].pc = "files", ![p].path = NoPath]
          BY <4>1 DEF CommitFile, RecordError
        <5>2. scan' = [scan EXCEPT ![p] = [scan[p] EXCEPT
                         !.pc = "files", !.path = NoPath, !.clean = scan[p].clean]]
          BY <1>1, <5>1 DEF ScanState
        <5> QED
          BY <5>1, <5>2
      <4>2. CASE RollbackFile(p)
        BY <1>1, <4>2 DEF RollbackFile
      <4>3. CASE LoseError(p)
        BY <1>1, <4>3 DEF LoseError
      <4> QED
        BY <1>5, <4>1, <4>2, <4>3
    <3>2. ASSUME NEW new, scan' = [scan EXCEPT ![p] = new]
          PROVE  scan'[p] = new /\ \A q \in Scanners \ {p} : scan'[q] = scan[q]
      BY <1>1, <3>2
    <3>3. ASSUME NEW clean
          PROVE  LET new == [scan[p] EXCEPT !.pc = "files", !.path = NoPath,
                                            !.clean = clean]
                 IN new.pc = "files" /\ new.todo = scan[p].todo
      BY <1>1 DEF ScanState
    <3>4. LET new == [scan[p] EXCEPT !.pc = "error", !.clean = FALSE]
          IN new.pc = "error" /\ new.todo = scan[p].todo
      BY <1>1 DEF ScanState
    <3>5. CASE /\ scan[p].pc = "txn"
               /\ scan' = [scan EXCEPT ![p] = [scan[p] EXCEPT
                                     !.pc = "error", !.clean = FALSE]]
      <4> DEFINE new == [scan[p] EXCEPT !.pc = "error", !.clean = FALSE]
      <4>1. new.pc = "error" /\ new.todo = scan[p].todo /\ scan' = [scan EXCEPT ![p] = new]
        BY <3>4, <3>5
      <4> HIDE DEF new
      <4> QED
        BY <3>2, <3>5, <4>1
    <3>6. CASE /\ scan[p].pc = "txn" \/ scan[p].pc = "error"
               /\ \E clean : scan' = [scan EXCEPT ![p] = [scan[p] EXCEPT
                                     !.pc = "files", !.path = NoPath, !.clean = clean]]
      <4>1. PICK clean : scan' = [scan EXCEPT ![p] = [scan[p] EXCEPT
                                     !.pc = "files", !.path = NoPath, !.clean = clean]]
        BY <3>6
      <4> DEFINE new == [scan[p] EXCEPT !.pc = "files", !.path = NoPath, !.clean = clean]
      <4>2. new.pc = "files" /\ new.todo = scan[p].todo /\ scan' = [scan EXCEPT ![p] = new]
        BY <3>3, <4>1
      <4> HIDE DEF new
      <4> QED
        BY <3>2, <3>6, <4>2
    <3> QED
      BY <3>1, <3>5, <3>6
  <2>2. StepsLeft(p) \in {3 * n + 2, 3 * n + 1}
    BY <2>1 DEF StepsLeft
  <2>3. \/ StepsLeft(p)' = 3 * n
        \/ scan[p].pc = "txn" /\ StepsLeft(p)' = 3 * n + 1
    BY <1>3, <2>1 DEF StepsLeft
  <2>4. scan[p].pc = "txn" => StepsLeft(p) = 3 * n + 2
    BY DEF StepsLeft
  <2> HIDE DEF n
  <2> QED
    BY <1>3, <2>1, <2>2, <2>3, <2>4
<1> QED
  BY <1>4, <1>5

\* Whatever the steps of the inventory are, an edit or another scan only notes
\* that a scan has been disturbed.
LEMMA EveryoneAdvances ==
  ASSUME ScanInv, [InventoryNext]_inventoryVars, NEW p \in Scanners
  PROVE  Advances(p)
<1>1. scan \in [Scanners -> ScanState]
  BY DEF ScanInv, ScanTypeOK
<1> SUFFICES ASSUME scan[p].pc # "idle" PROVE Advances(p)
  BY DEF Advances
<1>2. ASSUME NEW q \in Scanners,
             \/ HashFile(q) \/ HashRaises(q) \/ CommitFile(q) \/ RecordError(q)
             \/ RollbackFile(q) \/ LoseError(q)
      PROVE  Advances(p)
  BY <1>2, StepShortens DEF Advances
<1>3. ASSUME NEW q \in Scanners, StartScan(q)
      PROVE  Advances(p)
  <2>1. q # p
    BY <1>3 DEF StartScan
  <2>2. \E f : /\ f = [scan EXCEPT ![q] = [pc |-> "files", path |-> NoPath,
                                        todo |-> {x \in Paths : fs[x] # Missing},
                                        clean |-> TRUE]]
               /\ scan' = f \/ scan' = Disturbed(f)
    BY <1>3 DEF StartScan
  <2> QED
    BY <1>1, <2>1, <2>2 DEF Disturbed, Advances
<1>4. ASSUME NEW q \in Scanners, FinishScan(q) \/ KillScan(q)
      PROVE  Advances(p)
  BY <1>1, <1>4 DEF FinishScan, KillScan, IdleScan, Advances
<1>5. ASSUME NEW x \in Paths, NEW v \in Contents \cup {Missing, Unreadable},
             EditFile(x, v)
      PROVE  Advances(p)
  BY <1>1, <1>5 DEF EditFile, Disturbed, Advances
<1>6. CASE UNCHANGED inventoryVars
  BY <1>6 DEF inventoryVars, scanVars, Advances
<1> QED
  BY <1>2, <1>3, <1>4, <1>5, <1>6 DEF InventoryNext, ScanWork, ScanFault

\* The safe half of ScanEnds: for any number of scanners and files, a scan that
\* is scheduled comes to its end, since each of its steps leaves it less to do
\* and no step of anybody else more (the loop of scan() in
\* inventory_scanner.py goes over a list made once, and continues after an
\* error).
THEOREM ScansOnlyAdvance == InventorySpec => ScansAdvance
<1>1. InventoryInit => ScanInv
  BY ScanInvInitially DEF InventoryInit
<1>2. ScanInv /\ [InventoryNext]_inventoryVars
        => [\A p \in Scanners : Advances(p)]_inventoryVars
  BY EveryoneAdvances
<1>3. ScanInv /\ [InventoryNext]_inventoryVars
        => [\A p \in Scanners :
              scan[p].pc # "idle" =>
                \/ scan'[p].pc = "idle"
                \/ scan'[p] \in {scan[p], [scan[p] EXCEPT !.clean = FALSE]}
                \/ StepsLeft(p)' < StepsLeft(p)]_inventoryVars
  BY <1>2 DEF Advances
<1> QED
  BY <1>1, <1>3, ScanInvStep, PTL DEF InventorySpec, ScansAdvance
=============================================================================
