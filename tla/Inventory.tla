------------------------------ MODULE Inventory ------------------------------
(***************************************************************************)
(* Spec 001, services/inventory_scanner.py: a scan registers every         *)
(* candidate file, one database transaction per file.                      *)
(*                                                                         *)
(* Two facts of the session decide what a transaction does.  It is opened  *)
(* with autoflush=False, so a SELECT does not see the pending changes of   *)
(* the ORM objects (only what session.flush() has written); and the ORM    *)
(* writes back only the columns whose value differs from the one loaded.   *)
(* InnoDB's REPEATABLE READ gives the whole transaction the snapshot of    *)
(* its first SELECT.  Hence a transaction is two steps, HashFile (hash the *)
(* file, take the snapshot) and CommitFile (the flushes and the commit),   *)
(* with anything else in between.                                          *)
(***************************************************************************)
EXTENDS FileTables

CONSTANT Scanners        \* the CLI processes that may be running "scan"

VARIABLES
  scan,      \* scan[p]: where process p is in its run
  txn,       \* txn[p]: what its open transaction has loaded
  passes     \* history: complete undisturbed scans since the last change
             \* of a file and the last fault, counted up to 2

scanVars == <<scan, txn, passes>>

(***************************************************************************)
(* clean is history too: nothing but p's own scan has happened to the      *)
(* files and the tables since the scan started.                            *)
(***************************************************************************)
ScanState == [ pc    : {"idle", "files", "txn", "error"},
               todo  : SUBSET Paths,
               path  : Paths \cup {NoPath},
               clean : BOOLEAN ]

IdleScan == [pc |-> "idle", todo |-> {}, path |-> NoPath, clean |-> FALSE]

NoTxn == [sha |-> NoSha, content |-> NoContent,
          inst |-> [x \in Paths |-> NoInst]]

ScanTypeOK ==
  /\ scan \in [Scanners -> ScanState]
  /\ txn \in [Scanners -> [ sha     : Contents \cup {NoSha},
                            content : ContentRow,
                            inst    : [Paths -> InstRow] ]]
  /\ passes \in 0..2

ScanInit ==
  /\ scan = [p \in Scanners |-> IdleScan]
  /\ txn = [p \in Scanners |-> NoTxn]
  /\ passes = 0

Least(S) == CHOOSE x \in S : \A y \in S : x <= y

\* Every scan under way is disturbed, and what was settled no longer is.
Disturbed(f) == [p \in Scanners |-> [f[p] EXCEPT !.clean = FALSE]]

-----------------------------------------------------------------------------
\* _collect_candidates: rglob finds every path that exists.  A second scan
\* that overlaps with another one disturbs both.
StartScan(p) ==
  /\ scan[p].pc = "idle"
  /\ LET alone == \A q \in Scanners \ {p} : scan[q].pc = "idle"
         f == [scan EXCEPT ![p] = [pc |-> "files", path |-> NoPath,
                                   todo |-> {x \in Paths : fs[x] # Missing},
                                   clean |-> TRUE]]
     IN scan' = IF alone THEN f ELSE Disturbed(f)
  /\ UNCHANGED <<tableVars, txn, passes>>

\* stat() and compute_sha256() succeed; then the snapshot of the first SELECT.
HashFile(p) ==
  /\ scan[p].pc = "files" /\ scan[p].todo # {}
  /\ LET x == Least(scan[p].todo) IN
       /\ fs[x] \in Contents
       /\ scan' = [scan EXCEPT ![p].path = x, ![p].todo = @ \ {x},
                               ![p].pc = "txn"]
       /\ txn' = [txn EXCEPT ![p] = [sha |-> fs[x], content |-> content[fs[x]],
                                     inst |-> inst]]
  /\ UNCHANGED <<tableVars, passes>>

\* Mutant: the file that raises stays first in the list.
HashRaisesAgain(p) ==
  /\ scan[p].pc = "files" /\ scan[p].todo # {}
  /\ fs[Least(scan[p].todo)] \notin Contents
  /\ UNCHANGED <<tableVars, scanVars>>

\* Mutant: a file that raises is tried again once its error is recorded.
HashRaisesRetries(p) ==
  /\ scan[p].pc = "files" /\ scan[p].todo # {}
  /\ LET x == Least(scan[p].todo) IN
       /\ fs[x] \notin Contents
       /\ scan' = [scan EXCEPT ![p].path = x, ![p].pc = "error"]
  /\ UNCHANGED <<tableVars, txn, passes>>

\* A file that has vanished since it was listed, or cannot be read, raises
\* before any transaction.
HashRaises(p) ==
  /\ scan[p].pc = "files" /\ scan[p].todo # {}
  /\ LET x == Least(scan[p].todo) IN
       /\ fs[x] \notin Contents
       /\ scan' = [scan EXCEPT ![p].path = x, ![p].todo = @ \ {x},
                               ![p].pc = "error"]
  /\ UNCHANGED <<tableVars, txn, passes>>

\* Mutant: the new row gets a status of another column.
UpsertContentPending(loaded) ==
  IF loaded.vault = "NONE"
  THEN [vault |-> "PENDING", count |-> 0, master |-> NoPath]
  ELSE loaded

\* _upsert_content: a new row, or the loaded one (only its size, extension
\* and MIME type are overwritten).
UpsertContent(loaded) ==
  IF loaded.vault = "NONE"
  THEN [vault |-> "NOT_COPIED", count |-> 0, master |-> NoPath]
  ELSE loaded

\* Mutant: a file that was in ERROR stays in ERROR.
UpsertInstanceSticky(loaded, s, id) ==
  IF loaded.status = "NONE"
  THEN [sha |-> s, status |-> "DISCOVERED", dup |-> FALSE,
        group |-> NoSha, id |-> id]
  ELSE [loaded EXCEPT !.sha = s]

\* _upsert_instance: a new row, or the loaded one rebound to the sha.  The
\* duplicate flag and the group of an existing row are left alone.
UpsertInstance(loaded, s, id) ==
  IF loaded.status = "NONE"
  THEN [sha |-> s, status |-> "DISCOVERED", dup |-> FALSE,
        group |-> NoSha, id |-> id]
  ELSE [loaded EXCEPT !.sha = s, !.status = "DISCOVERED"]

\* The rows that the SELECT of _refresh_duplicate_state returns: those of
\* the snapshot, and the row of x only if it was inserted (and so flushed);
\* the update of an existing row is still pending.
VisiblePeers(loaded, x, s) ==
  DiscoveredWith(loaded, s)
    \cup (IF loaded[x].status = "NONE" THEN {x} ELSE {})

\* The ORM's UPDATE: only the columns changed since they were loaded.
WriteBackInst(row, loaded, new) ==
  [ sha    |-> IF new.sha = loaded.sha THEN row.sha ELSE new.sha,
    status |-> IF new.status = loaded.status THEN row.status ELSE new.status,
    dup    |-> IF new.dup = loaded.dup THEN row.dup ELSE new.dup,
    group  |-> row.group,
    id     |-> row.id ]

WriteBackContent(row, loaded, new) ==
  [ vault  |-> row.vault,
    count  |-> IF new.count = loaded.count THEN row.count ELSE new.count,
    master |-> IF new.master = loaded.master THEN row.master ELSE new.master ]

NextId == 1 + Cardinality({x \in Paths : inst[x].status # "NONE"})

\* The unique keys uk_sha256 and uk_source_path_hash: another process has
\* inserted the row that this one is about to insert.
InsertConflict(p) ==
  \/ txn[p].content.vault = "NONE" /\ content[txn[p].sha].vault # "NONE"
  \/ /\ txn[p].inst[scan[p].path].status = "NONE"
     /\ inst[scan[p].path].status # "NONE"

\* Mutant: flags are raised, never lowered.
RefreshedInstRaiseOnly(rows, peers, ids) ==
  [x \in Paths |-> IF x \in peers /\ x # FirstById(ids, peers)
                   THEN [rows[x] EXCEPT !.dup = TRUE]
                   ELSE rows[x]]

\* _refresh_duplicate_state: the first peer is the master, the others are
\* duplicates; with no peer in sight nothing is written.
RefreshedInst(rows, peers, ids) ==
  [x \in Paths |-> IF x \in peers
                   THEN [rows[x] EXCEPT !.dup = (x # FirstById(ids, peers))]
                   ELSE rows[x]]

RefreshedContent(row, peers, ids) ==
  IF peers = {} THEN row
  ELSE [row EXCEPT !.count = Cardinality(peers),
                   !.master = FirstById(ids, peers)]

\* The rest of the transaction of _process_file.
CommitFile(p) ==
  LET x == scan[p].path
      s == txn[p].sha
      loaded == txn[p].inst
      isNew == loaded[x].status = "NONE"
      rows == [loaded EXCEPT ![x] = UpsertInstance(@, s, NextId)]
      peers == VisiblePeers(loaded, x, s)
      newRows == RefreshedInst(rows, peers, rows)
      newContent == RefreshedContent(UpsertContent(txn[p].content), peers, rows)
  IN /\ scan[p].pc = "txn"
     /\ ~InsertConflict(p)
     /\ inst' = [y \in Paths |->
                   IF y = x /\ isNew THEN newRows[x]
                   ELSE WriteBackInst(inst[y], loaded[y], newRows[y])]
     /\ content' = [content EXCEPT ![s] =
                      IF txn[p].content.vault = "NONE" THEN newContent
                      ELSE WriteBackContent(@, txn[p].content, newContent)]
     /\ scan' = [scan EXCEPT ![p].pc = "files", ![p].path = NoPath]
     /\ txn' = [txn EXCEPT ![p] = NoTxn]
     /\ UNCHANGED <<fs, passes>>

\* The transaction raises (a unique key, a deadlock, a lost connection) and
\* is rolled back.
RollbackFile(p) ==
  /\ scan[p].pc = "txn"
  /\ scan' = [scan EXCEPT ![p].pc = "error", ![p].clean = FALSE]
  /\ txn' = [txn EXCEPT ![p] = NoTxn]
  /\ passes' = 0
  /\ UNCHANGED tableVars

\* _record_instance_error, a transaction of its own.  The sha, the duplicate
\* flag and the aggregates of the content stay as they are.
RecordError(p) ==
  LET x == scan[p].path IN
  /\ scan[p].pc = "error"
  /\ inst' = [inst EXCEPT ![x] =
                IF @.status = "NONE"
                THEN [NoInst EXCEPT !.status = "ERROR", !.id = NextId]
                ELSE [@ EXCEPT !.status = "ERROR"]]
  /\ scan' = [scan EXCEPT ![p].pc = "files", ![p].path = NoPath]
  /\ UNCHANGED <<fs, content, txn, passes>>

\* The error cannot be recorded either; the exception is only logged.
LoseError(p) ==
  /\ scan[p].pc = "error"
  /\ scan' = [scan EXCEPT ![p].pc = "files", ![p].path = NoPath,
                          ![p].clean = FALSE]
  /\ passes' = 0
  /\ UNCHANGED <<tableVars, txn>>

\* The report is written; the run is over.
FinishScan(p) ==
  /\ scan[p].pc = "files" /\ scan[p].todo = {}
  /\ scan' = [scan EXCEPT ![p] = IdleScan]
  /\ passes' = IF scan[p].clean /\ passes < 2 THEN passes + 1 ELSE passes
  /\ UNCHANGED <<tableVars, txn>>

\* The process is killed; an open transaction is rolled back by the server.
KillScan(p) ==
  /\ scan[p].pc # "idle"
  /\ scan' = [scan EXCEPT ![p] = IdleScan]
  /\ txn' = [txn EXCEPT ![p] = NoTxn]
  /\ UNCHANGED <<tableVars, passes>>

\* The owner of the files edits, adds, locks or removes one of them.
EditFile(x, v) ==
  /\ fs[x] # v
  /\ fs' = [fs EXCEPT ![x] = v]
  /\ scan' = Disturbed(scan)
  /\ passes' = 0
  /\ UNCHANGED <<inst, content, txn>>
-----------------------------------------------------------------------------
ScanWork(p) ==
  \/ StartScan(p)
  \/ HashFile(p)
  \/ HashRaises(p)
  \/ CommitFile(p)
  \/ RecordError(p)
  \/ FinishScan(p)

ScanFault(p) ==
  \/ RollbackFile(p)
  \/ LoseError(p)
  \/ KillScan(p)

InventoryNext ==
  \/ \E p \in Scanners : ScanWork(p) \/ ScanFault(p)
  \/ \E x \in Paths, v \in Contents \cup {Missing, Unreadable} : EditFile(x, v)

inventoryVars == <<tableVars, scanVars>>

InventoryInit == TablesInit /\ ScanInit

InventorySpec == InventoryInit /\ [][InventoryNext]_inventoryVars

(***************************************************************************)
(* The steps of a process that is running are scheduled by the operating   *)
(* system.  Nothing makes anybody start a scan, and edits, faults and      *)
(* kills are never fair.                                                   *)
(***************************************************************************)
ScanProgress(p) ==
  \/ HashFile(p) \/ HashRaises(p) \/ CommitFile(p)
  \/ RecordError(p) \/ FinishScan(p)
  \/ (scan[p].pc = "txn" /\ InsertConflict(p) /\ RollbackFile(p))

ScanFairness == \A p \in Scanners : WF_inventoryVars(ScanProgress(p))

FairInventorySpec == InventorySpec /\ ScanFairness
-----------------------------------------------------------------------------
InventoryTypeOK == TablesTypeOK /\ ScanTypeOK

\* After one undisturbed scan, the row of every file that is on disk says what
\* is on disk: DISCOVERED with its sha256, or ERROR if it cannot be read.
RowsFollowFiles ==
  passes >= 1 =>
    \A x \in Paths :
      /\ fs[x] \in Contents =>
           inst[x].status = "DISCOVERED" /\ inst[x].sha = fs[x]
      /\ fs[x] = Unreadable => inst[x].status = "ERROR"

\* After two undisturbed scans, instance_count, master_file_instance_uid and
\* is_duplicate_instance are exact for every content that some file holds.
\* One scan is not enough: see OneScanIsExact.
TwoScansAreExact ==
  passes = 2 => \A s \in Contents : LiveCopies(s) # {} => AggregatesExact(s)

\* What specs/003-duplicate-governance/plan.md relies on: instance_count, kept
\* up by 001, is the number of instances of that sha256 (after a scan).
OneScanIsExact ==
  passes >= 1 => \A s \in Contents : LiveCopies(s) # {} => AggregatesExact(s)

\* Whatever another scan, an edit or a bad file does, a scan that is not
\* killed comes to its end: one bad file never stalls the batch.
ScanEnds == \A p \in Scanners : scan[p].pc # "idle" ~> scan[p].pc = "idle"

\* What a scan has before it: the files on its list, each a look, a commit and
\* at worst an error record, and what is left of the file in hand.
StepsLeft(p) ==
  3 * Cardinality(scan[p].todo)
    + (CASE scan[p].pc = "txn"   -> 2
         [] scan[p].pc = "error" -> 1
         [] OTHER                -> 0)

\* Why ScanEnds holds: whoever makes a step (this scan or another, a fault, an
\* edit), a scan under way is over, stands where it stood or has less to do.
\* Nothing that happens meanwhile puts a file on its list.
ScansAdvance ==
  [][\A p \in Scanners :
       scan[p].pc # "idle" =>
         \/ scan'[p].pc = "idle"
         \/ scan'[p] \in {scan[p], [scan[p] EXCEPT !.clean = FALSE]}
         \/ StepsLeft(p)' < StepsLeft(p)]_inventoryVars
=============================================================================
