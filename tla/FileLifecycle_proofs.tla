------------------------ MODULE FileLifecycle_proofs ------------------------
(***************************************************************************)
(* Proofs about FileLifecycle, for any number of paths, contents, scanners *)
(* and faults: type correctness, and what the raw vault promises.          *)
(***************************************************************************)
EXTENDS FileLifecycle, Inventory_proofs

(***************************************************************************)
(* The inductive invariant.  TypeOK, CopiedIsArchived and StatusesAgree    *)
(* are not inductive by themselves: they are kept because a copy in the    *)
(* middle of its work knows which content it has in hand, and what the     *)
(* original.bin of that content holds.                                     *)
(***************************************************************************)
CopyHasContent ==
  /\ copy.pc \notin {"idle", "next"} => copy.cur \in Contents
  /\ copy.pc = "write" => copy.bytes \in Contents

VaultInv == /\ VaultTypeOK
            /\ CopyHasContent
            /\ CopyKnowsBin
            /\ CopiedIsArchived
            /\ StatusesAgree

CountersInv == edits \in 0..MaxEdits /\ faults \in 0..MaxFaults

LifecycleInv == ScanInv /\ VaultInv /\ GovernTypeOK /\ CountersInv

\* What a step does to the vault, as ValidBinIsKept and Archive see it.
Store     == {s \in Contents : bin[s] = s}
Published == {s \in Contents : content[s].vault = "COPIED"}

KeepsValidBin == \A s \in Contents : bin[s] = s => bin'[s] = s
ArchiveStep   == [A!Next]_<<Store, Published>>

VaultStepOK == VaultInv' /\ KeepsValidBin /\ ArchiveStep

-----------------------------------------------------------------------------
(* The steps of a copy.                                                    *)

LEMMA TornIsNoContent == Torn \notin Contents /\ Absent \notin Contents
BY BinAssumption

\* The source of a copy is one of the usable ones (_resolve_copy_source).
LEMMA CopySourceIsPath ==
  ASSUME NEW s \in Contents, TablesTypeOK, UsableSources(s) # {}
  PROVE  CopySource(s) \in Paths
<1>1. UsableSources(s) \subseteq Paths
  BY DEF UsableSources
<1>2. \A x \in UsableSources(s) : inst[x].id \in Nat
  BY <1>1 DEF TablesTypeOK, InstRow
<1>3. FirstById(inst, UsableSources(s)) \in UsableSources(s)
  BY <1>2, FirstByIdIsMember
<1> QED
  BY <1>1, <1>3 DEF CopySource

\* The three steps of Archive, in terms of the vault.
LEMMA ArchivePuts ==
  ASSUME NEW s \in Contents, Store' = Store \cup {s}, Published' = Published
  PROVE  ArchiveStep
<1>1. A!Put(s)
  BY DEF A!Put, Store, Published
<1> QED
  BY <1>1 DEF A!Next, ArchiveStep

LEMMA ArchivePublishes ==
  ASSUME NEW s \in Contents, s \in Store,
         Published' = Published \cup {s}, Store' = Store
  PROVE  ArchiveStep
<1>1. A!Publish(s)
  BY DEF A!Publish, Store, Published
<1> QED
  BY <1>1 DEF A!Next, ArchiveStep

LEMMA ArchiveWithdraws ==
  ASSUME NEW s \in Contents, Published' = Published \ {s}, Store' = Store
  PROVE  ArchiveStep
<1>1. A!Withdraw(s)
  BY DEF A!Withdraw, Store, Published
<1> QED
  BY <1>1 DEF A!Next, ArchiveStep

\* A step that changes neither the disk nor the statuses.
LEMMA QuietStep ==
  ASSUME VaultInv, copy' \in CopyState, CopyHasContent', CopyKnowsBin',
         UNCHANGED <<content, bin, sources, vobj>>
  PROVE  VaultStepOK
<1>1. VaultTypeOK'
  BY DEF VaultInv, VaultTypeOK
<1>2. CopiedIsArchived' /\ StatusesAgree'
  BY DEF VaultInv, CopiedIsArchived, StatusesAgree
<1>3. KeepsValidBin /\ ArchiveStep
  BY DEF KeepsValidBin, ArchiveStep, Store, Published
<1> QED
  BY <1>1, <1>2, <1>3 DEF VaultInv, VaultStepOK

LEMMA IdleCopyType == IdleCopy \in CopyState /\ IdleCopy.pc = "idle"
BY DEF CopyState, IdleCopy, NoPath, Modes

LEMMA NextContentType ==
  ASSUME copy \in CopyState
  PROVE  NextContent \in CopyState /\ NextContent.pc = "next"
BY DEF CopyState, NextContent, NoPath

\* A step that only brings the process back between two contents, or to rest.
LEMMA RestStep ==
  ASSUME VaultInv, copy' \in {IdleCopy, NextContent},
         UNCHANGED <<content, bin, sources, vobj>>
  PROVE  VaultStepOK
<1>1. copy \in CopyState
  BY DEF VaultInv, VaultTypeOK
<1>2. copy' \in CopyState /\ copy'.pc \in {"idle", "next"}
  BY <1>1, IdleCopyType, NextContentType
<1>3. CopyHasContent' /\ CopyKnowsBin'
  BY <1>2 DEF CopyHasContent, CopyKnowsBin
<1> QED
  BY <1>2, <1>3, QuietStep

LEMMA StartCopyStep ==
  ASSUME VaultInv, NEW mode \in Modes, NEW target \in Contents,
         StartCopy(mode, target)
  PROVE  VaultStepOK
<1>1. Candidates(mode, target) \subseteq Contents
  BY DEF Candidates
<1> DEFINE batch == Candidates(mode, target)
<1>2. copy' = [IdleCopy EXCEPT !.pc = "next", !.mode = mode, !.batch = batch]
  BY DEF StartCopy
<1> HIDE DEF batch
<1>3. copy' \in CopyState /\ copy'.pc = "next"
  BY <1>1, <1>2 DEF CopyState, IdleCopy, NoPath, Modes, batch
<1>4. CopyHasContent' /\ CopyKnowsBin'
  BY <1>3 DEF CopyHasContent, CopyKnowsBin
<1> QED
  BY <1>3, <1>4, QuietStep DEF StartCopy, tableVars

LEMMA LoadContentStep ==
  ASSUME ScanInv, VaultInv, NEW s \in Contents, NEW b \in BOOLEAN,
         LoadContent(s, b)
  PROVE  VaultStepOK
<1> DEFINE members == {x \in Paths : inst[x].status # "NONE" /\ inst[x].sha = s}
           found == members # {} /\ UsableSources(s) # {}
           source == IF found THEN CopySource(s) ELSE NoPath
           pc == IF ~found \/ (copy.mode = "refresh" /\ ~BinValid(s)) THEN "error"
                 ELSE IF BinValid(s) THEN "sidecar" ELSE "open"
<1>1. copy' = [copy EXCEPT !.batch = @ \ {s}, !.cur = s, !.settled = b,
                 !.io = FALSE, !.members = members, !.source = source, !.pc = pc]
  BY DEF LoadContent
<1>2. source \in Paths \cup {NoPath}
  BY CopySourceIsPath DEF ScanInv
<1>3. members \subseteq Paths
  OBVIOUS
<1>4. /\ pc \in {"error", "sidecar", "open"}
      /\ pc = "open" => bin[s] # s
      /\ pc = "sidecar" => bin[s] = s
      /\ pc # "error" => members # {}
  BY DEF BinValid
<1> HIDE DEF members, source, pc
<1>5. copy \in CopyState
  BY DEF VaultInv, VaultTypeOK
<1>6. copy' \in CopyState
  BY <1>1, <1>2, <1>3, <1>4, <1>5 DEF CopyState
<1>7. copy'.pc = pc /\ copy'.cur = s /\ copy'.members = members
  BY <1>1, <1>5 DEF CopyState
<1>8. bin' = bin
  BY DEF LoadContent
<1>9. CopyHasContent' /\ CopyKnowsBin'
  BY <1>4, <1>7, <1>8 DEF CopyHasContent, CopyKnowsBin
<1> QED
  BY <1>6, <1>9, QuietStep DEF LoadContent, tableVars

LEMMA WriteSidecarsStep ==
  ASSUME VaultInv, WriteSidecars
  PROVE  VaultStepOK
<1>1. copy \in CopyState /\ copy.pc = "sidecar"
  BY DEF WriteSidecars, VaultInv, VaultTypeOK
<1>2. copy.cur \in Contents /\ bin[copy.cur] = copy.cur /\ copy.members # {}
  BY <1>1 DEF VaultInv, CopyHasContent, CopyKnowsBin
<1>3. /\ sources' = [sources EXCEPT ![copy.cur] = copy.members]
      /\ copy' = [copy EXCEPT !.pc = "commit"]
      /\ content' = content /\ bin' = bin /\ vobj' = vobj
  BY DEF WriteSidecars, tableVars
<1>4. copy' \in CopyState /\ copy'.pc = "commit" /\ copy'.cur = copy.cur
      /\ copy'.members = copy.members
  BY <1>1, <1>3 DEF CopyState
<1>5. sources' \in [Contents -> SUBSET Paths]
  BY <1>1, <1>3 DEF VaultInv, VaultTypeOK, CopyState
<1>6. VaultTypeOK'
  BY <1>3, <1>4, <1>5 DEF VaultInv, VaultTypeOK
<1>7. \A s \in Contents :
        sources'[s] = IF s = copy.cur THEN copy.members ELSE sources[s]
  BY <1>3 DEF VaultInv, VaultTypeOK
<1>8. CopyHasContent' /\ CopyKnowsBin'
  BY <1>2, <1>3, <1>4, <1>7 DEF CopyHasContent, CopyKnowsBin
<1>9. CopiedIsArchived' /\ StatusesAgree'
  BY <1>2, <1>3, <1>7 DEF VaultInv, CopiedIsArchived, StatusesAgree
<1>10. KeepsValidBin /\ ArchiveStep
  BY <1>3 DEF KeepsValidBin, ArchiveStep, Store, Published
<1> QED
  BY <1>6, <1>8, <1>9, <1>10 DEF VaultInv, VaultStepOK

\* A step that writes original.bin of the content in hand (_copy_file_chunked):
\* only of a content whose binary is not right, hence not COPIED.
LEMMA BinStep ==
  ASSUME VaultInv, NEW v \in Contents \cup {Absent, Torn},
         copy.pc \in {"open", "write"},
         bin' = [bin EXCEPT ![copy.cur] = v],
         UNCHANGED <<content, sources, vobj>>,
         copy' \in CopyState, CopyHasContent', CopyKnowsBin'
  PROVE  VaultStepOK
<1>1. copy.cur \in Contents /\ bin[copy.cur] # copy.cur
  BY DEF VaultInv, CopyHasContent, CopyKnowsBin
<1>2. bin \in [Contents -> Contents \cup {Absent, Torn}]
  BY DEF VaultInv, VaultTypeOK
<1>3. VaultTypeOK'
  BY <1>2 DEF VaultInv, VaultTypeOK
<1>4. \A s \in Contents : bin'[s] = IF s = copy.cur THEN v ELSE bin[s]
  BY <1>2
<1>5. CopiedIsArchived' /\ StatusesAgree'
  BY <1>1, <1>4 DEF VaultInv, CopiedIsArchived, StatusesAgree
<1>6. KeepsValidBin
  BY <1>1, <1>4 DEF KeepsValidBin
<1>7. Published' = Published
  BY DEF Published
<1>8. ArchiveStep
  <2>1. CASE v = copy.cur
    <3>1. PICK s \in Contents : s = copy.cur
      BY <1>1
    <3>2. Store' = Store \cup {s}
      BY <1>1, <1>4, <2>1, <3>1 DEF Store
    <3> QED
      BY <1>7, <3>2, ArchivePuts
  <2>2. CASE v # copy.cur
    <3>1. Store' = Store
      BY <1>1, <1>4, <2>2 DEF Store
    <3> QED
      BY <1>7, <3>1 DEF ArchiveStep
  <2> QED
    BY <2>1, <2>2
<1> QED
  BY <1>3, <1>5, <1>6, <1>8 DEF VaultInv, VaultStepOK

LEMMA OpenFilesStep ==
  ASSUME VaultInv, OpenFiles
  PROVE  VaultStepOK
<1>1. copy \in CopyState /\ copy.pc = "open" /\ copy.cur \in Contents
  BY DEF OpenFiles, VaultInv, VaultTypeOK, CopyHasContent
<1>2. bin[copy.cur] # copy.cur /\ copy.members # {}
  BY <1>1 DEF VaultInv, CopyKnowsBin
<1>3. CASE Readable(copy.source)
  <2>1. /\ bin' = [bin EXCEPT ![copy.cur] = Torn]
        /\ copy' = [copy EXCEPT !.pc = "write", !.bytes = fs[copy.source]]
        /\ UNCHANGED <<content, sources, vobj>>
    BY <1>3 DEF OpenFiles, tableVars
  <2>2. fs[copy.source] \in Contents
    BY <1>3 DEF Readable
  <2>3. /\ copy' \in CopyState
        /\ copy'.pc = "write" /\ copy'.cur = copy.cur /\ copy'.bytes \in Contents
        /\ copy'.members = copy.members
    BY <1>1, <2>1, <2>2 DEF CopyState
  <2>4. bin'[copy.cur] # copy.cur
    BY <1>1, <2>1, TornIsNoContent DEF VaultInv, VaultTypeOK
  <2>5. CopyHasContent' /\ CopyKnowsBin'
    BY <1>1, <1>2, <2>3, <2>4 DEF CopyHasContent, CopyKnowsBin
  <2> QED
    BY <1>1, <2>1, <2>3, <2>5, BinStep
<1>4. CASE ~Readable(copy.source)
  <2>1. copy' = [copy EXCEPT !.pc = "error"]
        /\ UNCHANGED <<content, bin, sources, vobj>>
    BY <1>4 DEF OpenFiles, tableVars
  <2>2. copy' \in CopyState /\ copy'.pc = "error" /\ copy'.cur = copy.cur
    BY <1>1, <2>1 DEF CopyState
  <2>3. CopyHasContent' /\ CopyKnowsBin'
    BY <1>1, <2>2 DEF CopyHasContent, CopyKnowsBin
  <2> QED
    BY <2>1, <2>2, <2>3, QuietStep
<1> QED
  BY <1>3, <1>4

LEMMA WriteBinStep ==
  ASSUME VaultInv, WriteBin
  PROVE  VaultStepOK
<1>1. copy \in CopyState /\ copy.pc = "write"
  BY DEF WriteBin, VaultInv, VaultTypeOK
<1>2. copy.cur \in Contents /\ copy.bytes \in Contents
  BY <1>1 DEF VaultInv, CopyHasContent
<1>3. PICK v \in Delivered :
        /\ bin' = [bin EXCEPT ![copy.cur] = v]
        /\ copy' = [copy EXCEPT !.pc = IF v = copy.cur THEN "sidecar" ELSE "error"]
  BY DEF WriteBin
<1>4. v \in Contents \cup {Absent, Torn}
  BY <1>2 DEF Delivered
<1>5. /\ copy' \in CopyState
      /\ copy'.pc = IF v = copy.cur THEN "sidecar" ELSE "error"
      /\ copy'.cur = copy.cur /\ copy'.members = copy.members
  BY <1>1, <1>3 DEF CopyState
<1>6. bin'[copy.cur] = v
  BY <1>2, <1>3 DEF VaultInv, VaultTypeOK
<1>7. CopyHasContent' /\ CopyKnowsBin'
  BY <1>1, <1>2, <1>5, <1>6 DEF CopyHasContent, CopyKnowsBin, VaultInv
<1> QED
  BY <1>1, <1>3, <1>4, <1>5, <1>7, BinStep DEF WriteBin, tableVars

\* The commit of a copy (_process_content): both statuses at once, of a content
\* whose binary and sidecars are on disk.
LEMMA CommitCopyStep ==
  ASSUME ScanInv, VaultInv, CommitCopy
  PROVE  VaultStepOK /\ TablesTypeOK'
<1>1. copy \in CopyState /\ copy.pc = "commit"
  BY DEF CommitCopy, VaultInv, VaultTypeOK
<1>2. PICK c \in Contents : c = copy.cur
  BY <1>1 DEF VaultInv, CopyHasContent
<1>3. bin[c] = c /\ sources[c] # {}
  BY <1>1, <1>2 DEF VaultInv, CopyKnowsBin
<1>4. /\ content' = [content EXCEPT ![c].vault = "COPIED"]
      /\ vobj' = [vobj EXCEPT ![c] = "COPIED"]
      /\ copy' = NextContent
      /\ UNCHANGED <<fs, inst, bin, sources>>
  BY <1>2 DEF CommitCopy
<1>5. /\ content \in [Contents -> ContentRow]
      /\ vobj \in [Contents -> {"NONE", "COPIED", "ERROR"}]
  BY DEF ScanInv, TablesTypeOK, VaultInv, VaultTypeOK
<1>6. content' \in [Contents -> ContentRow]
  BY <1>4, <1>5 DEF ContentRow, VaultStatus
<1>7. \A s \in Contents :
        /\ content'[s].vault = IF s = c THEN "COPIED" ELSE content[s].vault
        /\ vobj'[s] = IF s = c THEN "COPIED" ELSE vobj[s]
  BY <1>4, <1>5 DEF ContentRow
<1>8. copy' \in CopyState /\ copy'.pc = "next"
  BY <1>1, <1>4, NextContentType
<1>9. VaultTypeOK' /\ CopyHasContent' /\ CopyKnowsBin'
  <2>1. vobj' \in [Contents -> {"NONE", "COPIED", "ERROR"}]
    BY <1>4, <1>5
  <2>2. VaultTypeOK'
    BY <1>4, <1>8, <2>1 DEF VaultInv, VaultTypeOK
  <2>3. CopyHasContent' /\ CopyKnowsBin'
    BY <1>8 DEF CopyHasContent, CopyKnowsBin
  <2> QED
    BY <2>2, <2>3
<1>10. CopiedIsArchived' /\ StatusesAgree'
  BY <1>3, <1>4, <1>7 DEF VaultInv, CopiedIsArchived, StatusesAgree
<1>11. KeepsValidBin
  BY <1>4 DEF KeepsValidBin
<1>12. ArchiveStep
  <2>1. Published' = Published \cup {c} /\ Store' = Store
    BY <1>4, <1>7 DEF Published, Store
  <2>2. c \in Store
    BY <1>3 DEF Store
  <2> QED
    BY <2>1, <2>2, ArchivePublishes
<1> QED
  BY <1>4, <1>6, <1>9, <1>10, <1>11, <1>12
     DEF VaultInv, VaultStepOK, ScanInv, TablesTypeOK

\* The record of an error (_record_copy_error): both statuses at once; the disk
\* stays as it is.
LEMMA RecordCopyErrorStep ==
  ASSUME ScanInv, VaultInv, RecordCopyError
  PROVE  VaultStepOK /\ TablesTypeOK'
<1>1. copy \in CopyState /\ copy.pc = "error"
  BY DEF RecordCopyError, VaultInv, VaultTypeOK
<1>2. PICK c \in Contents : c = copy.cur
  BY <1>1 DEF VaultInv, CopyHasContent
<1>3. /\ content' = [content EXCEPT ![c].vault = "COPY_ERROR"]
      /\ vobj' = [vobj EXCEPT ![c] = "ERROR"]
      /\ copy' = NextContent
      /\ UNCHANGED <<fs, inst, bin, sources>>
  BY <1>2 DEF RecordCopyError
<1>4. /\ content \in [Contents -> ContentRow]
      /\ vobj \in [Contents -> {"NONE", "COPIED", "ERROR"}]
  BY DEF ScanInv, TablesTypeOK, VaultInv, VaultTypeOK
<1>5. content' \in [Contents -> ContentRow]
  BY <1>3, <1>4 DEF ContentRow, VaultStatus
<1>6. \A s \in Contents :
        /\ content'[s].vault = IF s = c THEN "COPY_ERROR" ELSE content[s].vault
        /\ vobj'[s] = IF s = c THEN "ERROR" ELSE vobj[s]
  BY <1>3, <1>4 DEF ContentRow
<1>7. copy' \in CopyState /\ copy'.pc = "next"
  BY <1>1, <1>3, NextContentType
<1>8. VaultTypeOK' /\ CopyHasContent' /\ CopyKnowsBin'
  <2>1. vobj' \in [Contents -> {"NONE", "COPIED", "ERROR"}]
    BY <1>3, <1>4
  <2>2. VaultTypeOK'
    BY <1>3, <1>7, <2>1 DEF VaultInv, VaultTypeOK
  <2>3. CopyHasContent' /\ CopyKnowsBin'
    BY <1>7 DEF CopyHasContent, CopyKnowsBin
  <2> QED
    BY <2>2, <2>3
<1>9. CopiedIsArchived' /\ StatusesAgree'
  BY <1>3, <1>6 DEF VaultInv, CopiedIsArchived, StatusesAgree
<1>10. KeepsValidBin
  BY <1>3 DEF KeepsValidBin
<1>11. ArchiveStep
  <2>1. Published' = Published \ {c} /\ Store' = Store
    BY <1>3, <1>6 DEF Published, Store
  <2> QED
    BY <2>1, ArchiveWithdraws
<1> QED
  BY <1>3, <1>5, <1>8, <1>9, <1>10, <1>11
     DEF VaultInv, VaultStepOK, ScanInv, TablesTypeOK

\* A step that only brings the process to the error of the content in hand.
LEMMA FailCopyStep ==
  ASSUME VaultInv, FailCopy
  PROVE  VaultStepOK
<1>1. copy \in CopyState /\ copy.cur \in Contents
  BY DEF FailCopy, VaultInv, VaultTypeOK, CopyHasContent
<1>2. copy' = [copy EXCEPT !.pc = "error", !.io = TRUE]
  BY DEF FailCopy
<1>3. copy' \in CopyState /\ copy'.pc = "error" /\ copy'.cur = copy.cur
  BY <1>1, <1>2 DEF CopyState
<1>4. CopyHasContent' /\ CopyKnowsBin'
  BY <1>1, <1>3 DEF CopyHasContent, CopyKnowsBin
<1> QED
  BY <1>3, <1>4, QuietStep DEF FailCopy, tableVars

\* Every step of copy-to-vault, and everything that may go wrong with it.
LEMMA VaultWorkStep ==
  ASSUME ScanInv, VaultInv, VaultWork(Settled)
  PROVE  VaultStepOK /\ TablesTypeOK'
<1>1. CASE CommitCopy \/ RecordCopyError
  BY <1>1, CommitCopyStep, RecordCopyErrorStep
<1>2. ASSUME NEW s \in Contents, LoadContent(s, Settled)
      PROVE  VaultStepOK /\ UNCHANGED tableVars
  <2>1. PICK b \in BOOLEAN : b = Settled
    BY DEF Settled
  <2>2. LoadContent(s, b)
    BY <1>2, <2>1 DEF LoadContent
  <2> QED
    BY <2>2, LoadContentStep DEF LoadContent
<1>3. ASSUME NEW mode \in Modes, NEW target \in Contents,
             StartCopy(mode, target)
      PROVE  VaultStepOK /\ UNCHANGED tableVars
  BY <1>3, StartCopyStep DEF StartCopy
<1>4. CASE OpenFiles
  BY <1>4, OpenFilesStep, UnchangedTables DEF OpenFiles, ScanInv
<1>5. CASE WriteBin
  BY <1>5, WriteBinStep, UnchangedTables DEF WriteBin, ScanInv
<1>6. CASE WriteSidecars
  BY <1>6, WriteSidecarsStep, UnchangedTables DEF WriteSidecars, ScanInv
<1>7. CASE FinishCopy
  BY <1>7, RestStep, UnchangedTables DEF FinishCopy, ScanInv, tableVars
<1> QED
  BY <1>1, <1>2, <1>3, <1>4, <1>5, <1>6, <1>7, UnchangedTables
     DEF VaultWork, ScanInv

LEMMA VaultFaultStep ==
  ASSUME VaultInv, VaultFault
  PROVE  VaultStepOK /\ UNCHANGED tableVars
<1>1. CASE FailCopy
  BY <1>1, FailCopyStep DEF FailCopy
<1>2. CASE LoseCopyError
  BY <1>2, RestStep DEF LoseCopyError, tableVars
<1>3. CASE KillCopy
  BY <1>3, RestStep DEF KillCopy, tableVars
<1> QED
  BY <1>1, <1>2, <1>3 DEF VaultFault

-----------------------------------------------------------------------------
(* The steps of the others leave the vault alone.                          *)

\* A scan writes the row of a content, but a status only into a new row.
LEMMA ScanLeavesVault ==
  ASSUME VaultInv, ScanKeepsVaultStatus, UNCHANGED vaultVars
  PROVE  VaultStepOK
<1>1. bin' = bin /\ sources' = sources /\ vobj' = vobj /\ copy' = copy
  BY DEF vaultVars
<1>2. VaultTypeOK' /\ CopyHasContent' /\ CopyKnowsBin'
  BY <1>1 DEF VaultInv, VaultTypeOK, CopyHasContent, CopyKnowsBin
<1>3. CopiedIsArchived' /\ StatusesAgree'
  BY <1>1 DEF VaultInv, CopiedIsArchived, StatusesAgree, ScanKeepsVaultStatus
<1>4. Store' = Store /\ Published' = Published
  BY <1>1 DEF Store, Published, ScanKeepsVaultStatus
<1>5. KeepsValidBin /\ ArchiveStep
  BY <1>1, <1>4 DEF KeepsValidBin, ArchiveStep
<1> QED
  BY <1>2, <1>3, <1>5 DEF VaultInv, VaultStepOK

\* select_master_candidate returns one of the candidates (003).
LEMMA SelectMasterIsMember ==
  ASSUME NEW D, D \subseteq Paths, D # {},
         \A x \in D : inst[x].dup \in BOOLEAN
  PROVE  SelectMaster(D) \in D
<1> DEFINE B == IF \E x \in D : ~inst[x].dup THEN {x \in D : ~inst[x].dup} ELSE D
           T == {NameRank[x] : x \in B}
<1>1. B \subseteq D /\ B # {}
  OBVIOUS
<1>2. T \subseteq Nat /\ T # {}
  BY <1>1, NameRankAssumption
<1>3. PICK n \in T : \A m \in T : n <= m
  BY <1>2, LeastNumber
<1>4. PICK x \in B : NameRank[x] = n
  OBVIOUS
<1>5. \A y \in B : NameRank[x] <= NameRank[y]
  BY <1>3, <1>4
<1>6. \A y \in D : Preferred(x, y)
  BY <1>1, <1>4, <1>5 DEF Preferred
<1> QED
  BY <1>1, <1>6 DEF SelectMaster

\* A govern-duplicates step writes group columns and group rows only.
LEMMA StartGovernStep ==
  ASSUME GovernTypeOK, NEW only, only \subseteq Contents, StartGovern(only)
  PROVE  GovernTypeOK' /\ UNCHANGED tableVars
<1> DEFINE batch == {s \in only : /\ content[s].vault # "NONE"
                                  /\ content[s].count >= 2}
<1>1. govern' = [IdleGovern EXCEPT !.pc = "next", !.batch = batch]
  BY DEF StartGovern
<1>2. batch \subseteq Contents
  OBVIOUS
<1> HIDE DEF batch
<1>3. govern' \in GovernState
  BY <1>1, <1>2 DEF IdleGovern, GovernState
<1> QED
  BY <1>3 DEF StartGovern, GovernTypeOK

LEMMA GovernContentStep ==
  ASSUME ScanInv, GovernTypeOK, NEW s \in Contents, GovernContent(s)
  PROVE  GovernTypeOK' /\ TablesTypeOK' /\ content' = content
<1> DEFINE D == DiscoveredWith(inst, s)
           master == SelectMaster(D)
<1>1. /\ govern \in GovernState
      /\ groups \in [Contents -> GroupRow]
      /\ inst \in [Paths -> InstRow]
  BY DEF GovernTypeOK, ScanInv, TablesTypeOK
<1>2. D \subseteq Paths /\ Cardinality(D) \in Nat
  BY CountIsNat DEF DiscoveredWith
<1>3. CASE Cardinality(D) < 2
  <2>1. /\ govern' = [govern EXCEPT !.batch = @ \ {s}]
        /\ UNCHANGED <<fs, inst, content, groups>>
    BY <1>3 DEF GovernContent
  <2>2. govern' \in GovernState
    BY <1>1, <2>1 DEF GovernState
  <2> QED
    BY <2>1, <2>2 DEF GovernTypeOK, ScanInv, TablesTypeOK
<1>4. CASE ~(Cardinality(D) < 2)
  <2>1. D # {}
    BY <1>4, FS_EmptySet
  <2>2. \A x \in D : inst[x].dup \in BOOLEAN
    BY <1>1, <1>2 DEF InstRow
  <2>3. master \in Paths
    BY <1>2, <2>1, <2>2, SelectMasterIsMember
  <2>4. /\ groups' = [groups EXCEPT ![s] =
                        [exists |-> TRUE, count |-> Cardinality(D),
                         master |-> master]]
        /\ inst' = [x \in Paths |-> IF x \in D
                                    THEN [inst[x] EXCEPT !.group = s]
                                    ELSE inst[x]]
        /\ govern' = [govern EXCEPT !.batch = @ \ {s},
                        !.suggested = @ \cup ({master} \X (D \ {master}))]
        /\ UNCHANGED <<fs, content>>
    BY <1>4 DEF GovernContent
  <2> HIDE DEF D, master
  <2>5. groups' \in [Contents -> GroupRow]
    BY <1>1, <1>2, <2>3, <2>4 DEF GroupRow
  <2>6. inst' \in [Paths -> InstRow]
    BY <1>1, <2>4 DEF InstRow
  <2>7. govern' \in GovernState
    <3>1. {master} \X (D \ {master}) \subseteq Paths \X Paths
      BY <1>2, <2>3
    <3> QED
      BY <1>1, <2>4, <3>1 DEF GovernState
  <2> QED
    BY <2>4, <2>5, <2>6, <2>7 DEF GovernTypeOK, ScanInv, TablesTypeOK
<1> QED
  BY <1>3, <1>4

LEMMA GovernStep ==
  ASSUME ScanInv, GovernTypeOK, GovernWork \/ GovernFault
  PROVE  GovernTypeOK' /\ TablesTypeOK' /\ content' = content
<1>1. ASSUME UNCHANGED <<tableVars, groups>>, govern' \in GovernState
      PROVE  GovernTypeOK' /\ TablesTypeOK' /\ content' = content
  BY <1>1, UnchangedTables DEF ScanInv, GovernTypeOK, tableVars
<1>2. IdleGovern \in GovernState
  BY DEF IdleGovern, GovernState
<1>3. CASE FinishGovern \/ KillGovern
  BY <1>1, <1>2, <1>3 DEF FinishGovern, KillGovern
<1>4. ASSUME NEW s \in Contents, FailGovern(s)
      PROVE  GovernTypeOK' /\ TablesTypeOK' /\ content' = content
  <2>1. govern' \in GovernState
    BY <1>4 DEF FailGovern, GovernTypeOK, GovernState
  <2> QED
    BY <1>1, <1>4, <2>1 DEF FailGovern
<1>5. ASSUME NEW s \in Contents, StartGovern({s})
      PROVE  GovernTypeOK' /\ TablesTypeOK' /\ content' = content
  BY <1>5, StartGovernStep, UnchangedTables DEF ScanInv, tableVars
<1>6. CASE StartGovern(Contents)
  BY <1>6, StartGovernStep, UnchangedTables DEF ScanInv, tableVars
<1>7. ASSUME NEW s \in Contents, GovernContent(s)
      PROVE  GovernTypeOK' /\ TablesTypeOK' /\ content' = content
  BY <1>7, GovernContentStep
<1> QED
  BY <1>3, <1>4, <1>5, <1>6, <1>7 DEF GovernWork, GovernFault

\* Tables that change while no scan moves.
LEMMA ScansRest ==
  ASSUME ScanInv, TablesTypeOK', UNCHANGED scanVars
  PROVE  ScanInv'
BY DEF ScanInv, scanVars, ScanTypeOK, ScanHasFile

LEMMA SameContentKeepsStatus ==
  ASSUME content' = content
  PROVE  ScanKeepsVaultStatus
BY DEF ScanKeepsVaultStatus

\* An edit only makes a copy forget that the state was settled.
LEMMA EditStep ==
  ASSUME LifecycleInv, Edit
  PROVE  ScanInv' /\ VaultStepOK
<1>1. PICK x \in Paths, v \in Contents \cup {Missing, Unreadable} :
        EditFile(x, v)
  BY DEF Edit
<1>2. ScanInv' /\ content' = content
  BY <1>1, EditFileStep DEF LifecycleInv
<1>3. copy' = [copy EXCEPT !.settled = FALSE] /\ copy \in CopyState
      /\ UNCHANGED <<bin, sources, vobj>>
  BY DEF Edit, LifecycleInv, VaultInv, VaultTypeOK
<1>4. /\ copy' \in CopyState /\ copy'.pc = copy.pc /\ copy'.cur = copy.cur
      /\ copy'.bytes = copy.bytes /\ copy'.members = copy.members
  BY <1>3 DEF CopyState
<1>5. CopyHasContent' /\ CopyKnowsBin'
  BY <1>3, <1>4 DEF LifecycleInv, VaultInv, CopyHasContent, CopyKnowsBin
<1> QED
  BY <1>2, <1>3, <1>4, <1>5, QuietStep DEF LifecycleInv

-----------------------------------------------------------------------------
(* All steps together.                                                     *)

LEMMA InitiallyOK == Init => LifecycleInv
<1> SUFFICES ASSUME Init PROVE LifecycleInv
  OBVIOUS
<1>1. ScanInv
  BY ScanInvInitially DEF Init
<1>2. GovernTypeOK
  BY DEF Init, GovernInit, GovernTypeOK, GovernState, GroupRow, IdleGovern,
         NoGroup, NoPath
<1>3. VaultTypeOK
  BY IdleCopyType DEF Init, VaultInit, VaultTypeOK
<1>4. CopyHasContent /\ CopyKnowsBin
  BY IdleCopyType DEF Init, VaultInit, CopyHasContent, CopyKnowsBin
<1>5. CopiedIsArchived /\ StatusesAgree
  BY DEF Init, TablesInit, VaultInit, NoContent, CopiedIsArchived, StatusesAgree
<1>6. CountersInv
  BY BoundsAssumption DEF Init, CountersInv
<1> QED
  BY <1>1, <1>2, <1>3, <1>4, <1>5, <1>6 DEF LifecycleInv, VaultInv

\* The step theorem: every step of every process keeps the invariant, keeps
\* every binary that is right, and is a step of the archive or no step of it.
LEMMA LifecycleStep ==
  ASSUME LifecycleInv, [Next]_lifecycleVars
  PROVE  LifecycleInv' /\ VaultStepOK
<1>1. CASE Scan
  <2>1. PICK p \in Scanners : ScanWork(p)
    BY <1>1 DEF Scan
  <2>2. ScanInv' /\ ScanKeepsVaultStatus
    BY <2>1, ScanWorkStep DEF LifecycleInv
  <2>3. VaultStepOK
    BY <1>1, <2>2, ScanLeavesVault DEF Scan, LifecycleInv
  <2>4. GovernTypeOK' /\ CountersInv'
    BY <1>1 DEF Scan, LifecycleInv, GovernTypeOK, CountersInv, governVars
  <2> QED
    BY <2>2, <2>3, <2>4 DEF LifecycleInv, VaultStepOK
<1>2. CASE CopyToVault
  <2>1. VaultStepOK /\ TablesTypeOK'
    BY <1>2, VaultWorkStep DEF CopyToVault, LifecycleInv
  <2>2. ScanInv'
    BY <1>2, <2>1, ScansRest DEF CopyToVault, LifecycleInv
  <2>3. GovernTypeOK' /\ CountersInv'
    BY <1>2 DEF CopyToVault, LifecycleInv, GovernTypeOK, CountersInv, governVars
  <2> QED
    BY <2>1, <2>2, <2>3 DEF LifecycleInv, VaultStepOK
<1>3. CASE GovernDuplicates
  <2>1. GovernTypeOK' /\ TablesTypeOK' /\ content' = content
    BY <1>3, GovernStep DEF GovernDuplicates, LifecycleInv
  <2>2. ScanInv' /\ VaultStepOK
    BY <1>3, <2>1, ScansRest, ScanLeavesVault, SameContentKeepsStatus
       DEF GovernDuplicates, LifecycleInv
  <2>3. CountersInv'
    BY <1>3 DEF GovernDuplicates, LifecycleInv, CountersInv
  <2> QED
    BY <2>1, <2>2, <2>3 DEF LifecycleInv, VaultStepOK
<1>4. CASE Edit
  <2>1. ScanInv' /\ VaultStepOK
    BY <1>4, EditStep
  <2>2. GovernTypeOK' /\ CountersInv'
    BY <1>4, BoundsAssumption
       DEF Edit, LifecycleInv, GovernTypeOK, CountersInv, governVars
  <2> QED
    BY <2>1, <2>2 DEF LifecycleInv, VaultStepOK
<1>5. CASE Fault
  <2>1. CountersInv'
    BY <1>5, BoundsAssumption DEF Fault, LifecycleInv, CountersInv
  <2>2. CASE (\E p \in Scanners : ScanFault(p)) /\ UNCHANGED <<vaultVars, governVars>>
    <3>1. PICK p \in Scanners : ScanFault(p)
      BY <2>2
    <3>2. ScanInv' /\ content' = content
      BY <3>1, ScanFaultStep DEF LifecycleInv, tableVars
    <3>3. VaultStepOK
      BY <2>2, <3>2, ScanLeavesVault, SameContentKeepsStatus DEF LifecycleInv
    <3>4. GovernTypeOK'
      BY <2>2 DEF LifecycleInv, GovernTypeOK, governVars
    <3> QED
      BY <2>1, <3>2, <3>3, <3>4 DEF LifecycleInv, VaultStepOK
  <2>3. CASE VaultFault /\ UNCHANGED <<scanVars, governVars>>
    <3>1. VaultStepOK /\ UNCHANGED tableVars
      BY <2>3, VaultFaultStep DEF LifecycleInv
    <3>2. ScanInv'
      BY <2>3, <3>1, ScansRest, UnchangedTables DEF LifecycleInv, ScanInv
    <3>3. GovernTypeOK'
      BY <2>3 DEF LifecycleInv, GovernTypeOK, governVars
    <3> QED
      BY <2>1, <3>1, <3>2, <3>3 DEF LifecycleInv, VaultStepOK
  <2>4. CASE GovernFault /\ UNCHANGED <<scanVars, vaultVars>>
    <3>1. GovernTypeOK' /\ TablesTypeOK' /\ content' = content
      BY <2>4, GovernStep DEF LifecycleInv
    <3>2. ScanInv' /\ VaultStepOK
      BY <2>4, <3>1, ScansRest, ScanLeavesVault, SameContentKeepsStatus
         DEF LifecycleInv
    <3> QED
      BY <2>1, <3>1, <3>2 DEF LifecycleInv, VaultStepOK
  <2> QED
    BY <1>5, <2>2, <2>3, <2>4 DEF Fault
<1>6. CASE UNCHANGED lifecycleVars
  <2>1. /\ UNCHANGED <<tableVars, scanVars, vaultVars, governVars>>
        /\ edits' = edits /\ faults' = faults
    BY <1>6 DEF lifecycleVars
  <2>2. ScanInv' /\ VaultStepOK
    BY <2>1, ScansRest, UnchangedTables, ScanLeavesVault
       DEF LifecycleInv, ScanInv
  <2>3. GovernTypeOK' /\ CountersInv'
    BY <2>1 DEF LifecycleInv, GovernTypeOK, CountersInv, governVars
  <2> QED
    BY <2>2, <2>3 DEF LifecycleInv, VaultStepOK
<1> QED
  BY <1>1, <1>2, <1>3, <1>4, <1>5, <1>6 DEF Next

LEMMA InvariantHolds == Spec => []LifecycleInv
<1>1. LifecycleInv /\ [Next]_lifecycleVars => LifecycleInv'
  BY LifecycleStep
<1> QED
  BY <1>1, InitiallyOK, PTL DEF Spec

-----------------------------------------------------------------------------
\* Every row, every file of the vault and every process of 001, 002 and 003 is
\* well formed at all times.
THEOREM TypeCorrect == Spec => []TypeOK
<1>1. LifecycleInv => TypeOK
  BY DEF LifecycleInv, ScanInv, VaultInv, CountersInv, TypeOK
<1> QED
  BY <1>1, InvariantHolds, PTL

\* What the database calls COPIED is archived: original.bin has its very bytes
\* and its sidecars are on disk (file_content_vault.py, _process_content),
\* whatever is killed, fails or changes in between.
THEOREM CopiedContentIsArchived == Spec => []CopiedIsArchived
<1>1. LifecycleInv => CopiedIsArchived
  BY DEF LifecycleInv, VaultInv
<1> QED
  BY <1>1, InvariantHolds, PTL

\* vault_status and copy_status never disagree (the commit of _process_content,
\* _record_copy_error, and the rows that a scan writes).
THEOREM VaultStatusesAgree == Spec => []StatusesAgree
<1>1. LifecycleInv => StatusesAgree
  BY DEF LifecycleInv, VaultInv
<1> QED
  BY <1>1, InvariantHolds, PTL

\* What a copy has found out about original.bin is still true when it acts on
\* it (_process_content, from bin_valid to the commit).
THEOREM CopyKnowledgeIsStable == Spec => []CopyKnowsBin
<1>1. LifecycleInv => CopyKnowsBin
  BY DEF LifecycleInv, VaultInv
<1> QED
  BY <1>1, InvariantHolds, PTL

\* No step of any process overwrites an original.bin whose hash is right
\* (_copy_file_chunked is called only if bin_valid is false).
THEOREM ValidBinIsNeverOverwritten == Spec => ValidBinIsKept
<1>1. LifecycleInv /\ [Next]_lifecycleVars
        => [\A s \in Contents : bin[s] = s => bin'[s] = s]_lifecycleVars
  BY LifecycleStep DEF VaultStepOK, KeepsValidBin
<1> QED
  BY <1>1, InvariantHolds, PTL DEF Spec, ValidBinIsKept

\* The vault, with its three tables, its files and its processes, is the
\* write-once archive of module Archive.
THEOREM VaultImplementsArchive == Spec => ImplementsArchive
<1>1. Init => A!Init
  <2> SUFFICES ASSUME Init PROVE A!Init
    OBVIOUS
  <2>1. \A s \in Contents : bin[s] # s /\ content[s].vault # "COPIED"
    BY TornIsNoContent DEF Init, TablesInit, VaultInit, NoContent
  <2> QED
    BY <2>1 DEF A!Init
<1>2. LifecycleInv /\ [Next]_lifecycleVars => [A!Next]_<<Store, Published>>
  BY LifecycleStep DEF VaultStepOK, ArchiveStep
<1> QED
  BY <1>1, <1>2, InvariantHolds, PTL
     DEF Spec, ImplementsArchive, A!Spec, Store, Published
-----------------------------------------------------------------------------
(***************************************************************************)
(* The settled state.  Specs 002 and 003 change no column that ExactInv    *)
(* looks at, so what two quiet scans make exact stays exact beside them,   *)
(* and then both can rely on it.                                           *)
(***************************************************************************)

\* A copy that was loaded in a settled state has a source that holds its
\* content, if any file does, until a file changes.
CopySourceHolds ==
  copy.settled /\ LiveCopies(copy.cur) # {} =>
    /\ copy.pc \in {"open", "write"} => fs[copy.source] = copy.cur
    /\ copy.pc = "write" => copy.bytes = copy.cur
    /\ copy.pc = "error" /\ ~copy.io => copy.mode = "refresh"

SettledInv == LifecycleInv /\ ExactInv /\ CopySourceHolds

\* A copy writes vault_status only (CommitCopy, RecordCopyError).
LEMMA CopyKeepsCounts ==
  ASSUME TablesTypeOK, VaultWork(Settled) \/ VaultFault
  PROVE  /\ fs' = fs /\ inst' = inst
         /\ \A s \in Contents : SameContent(content[s], content'[s])
<1>1. content \in [Contents -> ContentRow]
  BY DEF TablesTypeOK
<1>2. CASE UNCHANGED tableVars
  BY <1>2 DEF tableVars, SameContent
<1>3. CASE CommitCopy \/ RecordCopyError
  <2>1. PICK v \in {"COPIED", "COPY_ERROR"} :
          /\ content' = [content EXCEPT ![copy.cur] = [@ EXCEPT !.vault = v]]
          /\ fs' = fs /\ inst' = inst
    BY <1>3 DEF CommitCopy, RecordCopyError
  <2>2. ASSUME NEW s \in Contents PROVE SameContent(content[s], content'[s])
    <3>1. content'[s] \in {content[s], [content[s] EXCEPT !.vault = v]}
      BY <1>1, <2>1
    <3>2. content[s] \in ContentRow
      BY <1>1
    <3> QED
      BY <3>1, <3>2 DEF SameContent, ContentRow
  <2> QED
    BY <2>1, <2>2
<1>4. VaultWork(Settled) \/ VaultFault =>
        UNCHANGED tableVars \/ CommitCopy \/ RecordCopyError
  BY DEF VaultWork, VaultFault, StartCopy, LoadContent, OpenFiles, WriteBin,
         WriteSidecars, FinishCopy, FailCopy, LoseCopyError, KillCopy, tableVars
<1> QED
  BY <1>2, <1>3, <1>4

\* A govern-duplicates step writes duplicate_group_uid only.
LEMMA GovernKeepsRows ==
  ASSUME TablesTypeOK, GovernWork \/ GovernFault
  PROVE  fs' = fs /\ SameInst(inst, inst') /\ content' = content
<1>1. CASE UNCHANGED tableVars
  BY <1>1 DEF tableVars, SameInst
<1>2. ASSUME NEW s \in Contents, GovernContent(s)
      PROVE  fs' = fs /\ SameInst(inst, inst') /\ content' = content
  <2>1. /\ fs' = fs /\ content' = content
        /\ \A x \in Paths : inst'[x] \in {inst[x], [inst[x] EXCEPT !.group = s]}
    BY <1>2 DEF GovernContent
  <2>2. \A x \in Paths : inst[x] \in InstRow
    BY DEF TablesTypeOK
  <2> QED
    BY <2>1, <2>2 DEF SameInst, InstRow
<1>3. GovernWork \/ GovernFault =>
        UNCHANGED tableVars \/ \E s \in Contents : GovernContent(s)
  BY DEF GovernWork, GovernFault, StartGovern, FinishGovern, FailGovern,
         KillGovern, tableVars
<1> QED
  BY <1>1, <1>2, <1>3

\* The convergence of 001, in the company of 002 and 003.
LEMMA ExactStep ==
  ASSUME LifecycleInv, ExactInv, [Next]_lifecycleVars
  PROVE  ExactInv'
<1>1. ScanInv' /\ TablesTypeOK
  BY LifecycleStep DEF LifecycleInv, ScanInv
<1>2. CASE Scan
  BY <1>2, ExactInvStep DEF Scan, InventoryNext
<1>3. CASE Edit
  BY <1>3, ExactInvStep DEF Edit, InventoryNext
<1>4. CASE (VaultWork(Settled) \/ VaultFault) /\ UNCHANGED scanVars
  <2>1. SameInst(inst, inst')
    BY <1>1, <1>4, CopyKeepsCounts DEF SameInst
  <2> QED
    BY <1>1, <1>4, <2>1, CopyKeepsCounts, OtherColumnsExact
<1>5. CASE (GovernWork \/ GovernFault) /\ UNCHANGED scanVars
  <2>1. \A s \in Contents : SameContent(content[s], content'[s])
    BY <1>1, <1>5, GovernKeepsRows DEF SameContent
  <2> QED
    BY <1>1, <1>5, <2>1, GovernKeepsRows, OtherColumnsExact
<1>6. CASE (\E p \in Scanners : ScanFault(p))
  BY <1>6, ExactInvStep DEF InventoryNext
<1>7. CASE UNCHANGED lifecycleVars
  BY <1>7, ExactInvStep DEF lifecycleVars, inventoryVars
<1> QED
  BY <1>2, <1>3, <1>4, <1>5, <1>6, <1>7
     DEF Next, CopyToVault, GovernDuplicates, Fault

\* In a settled state every source that 002 may take holds the content: the
\* master is one of its instances, and a readable instance says the truth.
LEMMA SettledSource ==
  ASSUME ScanInv, RowsFollowFiles, TwoScansAreExact, Settled,
         NEW s \in Contents, LiveCopies(s) # {}
  PROVE  /\ {x \in Paths : inst[x].status # "NONE" /\ inst[x].sha = s} # {}
         /\ UsableSources(s) # {}
         /\ CopySource(s) \in Paths /\ fs[CopySource(s)] = s
<1> DEFINE D == DiscoveredWith(inst, s)
<1>1. passes = 2 /\ inst \in [Paths -> InstRow]
  BY DEF Settled, ScanInv, TablesTypeOK
<1>2. \A x \in Paths : fs[x] \in Contents =>
        inst[x].status = "DISCOVERED" /\ inst[x].sha = fs[x]
  BY <1>1 DEF RowsFollowFiles
<1>3. PICK x \in Paths : fs[x] = s
  BY DEF LiveCopies
<1>4. x \in D /\ D \subseteq Paths
  BY <1>2, <1>3 DEF DiscoveredWith
<1>5. content[s].master \in D
  <2>1. content[s].master = FirstById(inst, D)
    BY <1>1, <1>4 DEF TwoScansAreExact, AggregatesExact
  <2>2. \A y \in D : inst[y].id \in Nat
    BY <1>1, <1>4 DEF InstRow
  <2> HIDE DEF D
  <2> QED
    BY <1>4, <2>1, <2>2, FirstByIdIsMember
<1>6. \A y \in D : inst[y].sha = s
  BY DEF DiscoveredWith
<1>7. \A y \in UsableSources(s) : y \in Paths /\ fs[y] = s
  BY <1>2, <1>5, <1>6 DEF UsableSources, Readable
<1>8. x \in UsableSources(s)
  BY <1>2, <1>3 DEF UsableSources, Readable
<1>9. CopySource(s) \in UsableSources(s)
  <2>1. \A y \in UsableSources(s) : inst[y].id \in Nat
    BY <1>1, <1>7 DEF InstRow
  <2>2. FirstById(inst, UsableSources(s)) \in UsableSources(s)
    BY <1>8, <2>1, FirstByIdIsMember
  <2> QED
    BY <2>2 DEF CopySource
<1>10. inst[x].status # "NONE" /\ inst[x].sha = s
  BY <1>2, <1>3
<1> QED
  BY <1>7, <1>8, <1>9, <1>10

\* _process_content, up to the choice between error, sidecars and copying.
LEMMA LoadContentHolds ==
  ASSUME LifecycleInv, ExactInv, NEW s \in Contents, LoadContent(s, Settled)
  PROVE  CopySourceHolds'
<1> DEFINE members == {x \in Paths : inst[x].status # "NONE" /\ inst[x].sha = s}
           found == members # {} /\ UsableSources(s) # {}
           source == IF found THEN CopySource(s) ELSE NoPath
           pc == IF ~found \/ (copy.mode = "refresh" /\ ~BinValid(s))
                 THEN "error"
                 ELSE IF BinValid(s) THEN "sidecar" ELSE "open"
<1>1. copy' = [copy EXCEPT !.batch = @ \ {s}, !.cur = s, !.settled = Settled,
                           !.io = FALSE, !.members = members,
                           !.source = source, !.pc = pc]
      /\ fs' = fs
  BY DEF LoadContent, tableVars
<1>2. copy \in CopyState
  BY DEF LifecycleInv, VaultInv, VaultTypeOK
<1>3. Settled /\ LiveCopies(s) # {} => found /\ fs[source] = s
  BY SettledSource DEF LifecycleInv, ExactInv
<1>4. /\ pc # "write" /\ (pc = "error" => ~found \/ copy.mode = "refresh")
  OBVIOUS
<1> HIDE DEF members, found, source, pc
<1>5. /\ copy'.cur = s /\ copy'.settled = Settled /\ copy'.source = source
      /\ copy'.pc = pc /\ copy'.mode = copy.mode
  BY <1>1, <1>2 DEF CopyState
<1>6. LiveCopies(copy.cur)' = LiveCopies(s)
  BY <1>1, <1>5 DEF LiveCopies
<1> QED
  BY <1>1, <1>3, <1>4, <1>5, <1>6 DEF CopySourceHolds

\* _copy_file_chunked and the hash of the copy.
LEMMA CopyFileHolds ==
  ASSUME LifecycleInv, CopySourceHolds, OpenFiles \/ WriteBin
  PROVE  CopySourceHolds'
<1>1. copy \in CopyState /\ copy.cur \in Contents /\ fs' = fs
  BY DEF LifecycleInv, VaultInv, VaultTypeOK, CopyHasContent, OpenFiles,
         WriteBin, tableVars
<1> SUFFICES ASSUME copy'.settled, LiveCopies(copy'.cur) # {}
             PROVE  /\ copy'.pc \in {"open", "write"} =>
                         fs[copy'.source] = copy'.cur
                    /\ copy'.pc = "write" => copy'.bytes = copy'.cur
                    /\ copy'.pc = "error" /\ ~copy'.io => copy'.mode = "refresh"
  BY <1>1 DEF CopySourceHolds, LiveCopies
<1>2. CASE OpenFiles
  <2>1. /\ copy.pc = "open"
        /\ copy' \in {[copy EXCEPT !.pc = "write", !.bytes = fs[copy.source]],
                      [copy EXCEPT !.pc = "error"]}
        /\ Readable(copy.source) =>
             copy' = [copy EXCEPT !.pc = "write", !.bytes = fs[copy.source]]
    BY <1>2 DEF OpenFiles
  <2>2. copy'.cur = copy.cur /\ copy'.settled = copy.settled
    BY <1>1, <2>1 DEF CopyState
  <2>3. fs[copy.source] = copy.cur
    BY <2>1, <2>2 DEF CopySourceHolds
  <2>4. copy' = [copy EXCEPT !.pc = "write", !.bytes = copy.cur]
    BY <1>1, <2>1, <2>3 DEF Readable
  <2> QED
    BY <1>1, <2>3, <2>4 DEF CopyState
<1>3. CASE WriteBin
  <2>1. PICK v \in Delivered :
          /\ copy.pc = "write"
          /\ copy' = [copy EXCEPT !.pc = IF v = copy.cur THEN "sidecar"
                                         ELSE "error"]
    BY <1>3 DEF WriteBin
  <2>2. copy'.cur = copy.cur /\ copy'.settled = copy.settled
    BY <1>1, <2>1 DEF CopyState
  <2>3. fs[copy.source] = copy.cur /\ copy.bytes = copy.cur
    BY <2>1, <2>2 DEF CopySourceHolds
  <2>4. v = copy.cur
    BY <2>3 DEF Delivered
  <2>5. copy'.pc = "sidecar"
    BY <1>1, <2>1, <2>4 DEF CopyState
  <2> QED
    BY <2>5
<1> QED
  BY <1>2, <1>3

\* The other steps: most begin or end something.
LEMMA CopySourceStep ==
  ASSUME SettledInv, [Next]_lifecycleVars
  PROVE  CopySourceHolds'
<1>1. copy \in CopyState
  BY DEF SettledInv, LifecycleInv, VaultInv, VaultTypeOK
<1>2. ASSUME fs' = fs,
             copy' = copy \/ ~copy'.settled
               \/ (copy'.pc \in {"sidecar", "commit"})
               \/ (copy'.pc = "error" /\ copy'.io)
      PROVE  CopySourceHolds'
  BY <1>2 DEF SettledInv, CopySourceHolds, LiveCopies
<1>3. ~IdleCopy.settled /\ ~NextContent.settled
  BY <1>1 DEF IdleCopy, NextContent, CopyState
<1>4. CASE Edit
  BY <1>1, <1>4 DEF Edit, CopyState, CopySourceHolds
<1>5. CASE CopyToVault
  <2>1. ASSUME NEW s \in Contents, LoadContent(s, Settled)
        PROVE  CopySourceHolds'
    BY <2>1, LoadContentHolds DEF SettledInv
  <2>2. CASE OpenFiles \/ WriteBin
    BY <2>2, CopyFileHolds DEF SettledInv
  <2>3. ASSUME NEW mode \in Modes, NEW target \in Contents,
               StartCopy(mode, target)
        PROVE  CopySourceHolds'
    <3>1. ~copy'.settled /\ fs' = fs
      BY <2>3 DEF StartCopy, IdleCopy, tableVars
    <3> QED
      BY <1>2, <3>1
  <2>4. CASE WriteSidecars
    <3>1. copy'.pc = "commit" /\ fs' = fs
      BY <1>1, <2>4 DEF WriteSidecars, CopyState, tableVars
    <3> QED
      BY <1>2, <3>1
  <2>5. CASE CommitCopy \/ RecordCopyError \/ FinishCopy
    <3>1. copy' \in {NextContent, IdleCopy} /\ fs' = fs
      BY <2>5 DEF CommitCopy, RecordCopyError, FinishCopy, tableVars
    <3> QED
      BY <1>2, <1>3, <3>1
  <2> QED
    BY <1>5, <2>1, <2>2, <2>3, <2>4, <2>5 DEF CopyToVault, VaultWork
<1>6. CASE Scan \/ GovernDuplicates \/ UNCHANGED lifecycleVars
  <2>1. copy' = copy
    BY <1>6 DEF Scan, GovernDuplicates, lifecycleVars, vaultVars
  <2>2. fs' = fs
    BY <1>6, GovernKeepsRows
       DEF SettledInv, LifecycleInv, ScanInv, Scan, ScanWork, StartScan,
           HashFile, HashRaises, CommitFile, RecordError, FinishScan,
           GovernDuplicates, lifecycleVars, tableVars
  <2> QED
    BY <1>2, <2>1, <2>2
<1>7. CASE Fault
  <2>1. CASE VaultFault
    <3>1. CASE FailCopy
      <4>1. copy'.pc = "error" /\ copy'.io /\ fs' = fs
        BY <1>1, <3>1 DEF FailCopy, CopyState, tableVars
      <4> QED
        BY <1>2, <4>1
    <3>2. CASE LoseCopyError \/ KillCopy
      <4>1. copy' \in {NextContent, IdleCopy} /\ fs' = fs
        BY <3>2 DEF LoseCopyError, KillCopy, tableVars
      <4> QED
        BY <1>2, <1>3, <4>1
    <3> QED
      BY <2>1, <3>1, <3>2 DEF VaultFault
  <2>2. CASE UNCHANGED vaultVars /\ (GovernFault \/ \E p \in Scanners : ScanFault(p))
    <3>1. copy' = copy /\ fs' = fs
      BY <2>2, GovernKeepsRows
         DEF SettledInv, LifecycleInv, ScanInv, vaultVars, ScanFault,
             RollbackFile, LoseError, KillScan, tableVars
    <3> QED
      BY <1>2, <3>1
  <2> QED
    BY <1>7, <2>1, <2>2 DEF Fault
<1> QED
  BY <1>4, <1>5, <1>6, <1>7 DEF Next

LEMMA SettledInvariant == Spec => []SettledInv
<1>1. Init => SettledInv
  <2> SUFFICES ASSUME Init PROVE SettledInv
    OBVIOUS
  <2>1. InventoryInit
    BY DEF Init, InventoryInit
  <2>2. CopySourceHolds
    BY DEF Init, VaultInit, IdleCopy, CopySourceHolds
  <2> QED
    BY <2>1, <2>2, InitiallyOK, ExactInvInitially DEF SettledInv
<1>2. SettledInv /\ [Next]_lifecycleVars => SettledInv'
  BY LifecycleStep, ExactStep, CopySourceStep DEF SettledInv
<1> QED
  BY <1>1, <1>2, PTL DEF Spec

\* What two undisturbed scans have made exact stays exact while files are
\* archived and duplicates governed, in the middle of the transactions of any
\* number of scanners (_refresh_duplicate_state).
THEOREM AggregatesStayExact == Spec => []TwoScansAreExact
<1>1. SettledInv => TwoScansAreExact
  BY DEF SettledInv, ExactInv
<1> QED
  BY <1>1, SettledInvariant, PTL

\* In a settled state copy-to-vault fails for no reason of its own: if a file
\* holds the content, _resolve_copy_source finds it, and what it copies has
\* the right hash.
THEOREM SettledCopiesSucceed == Spec => []SettledCopySucceeds
<1>1. SettledInv => SettledCopySucceeds
  BY DEF SettledInv, CopySourceHolds, SettledCopySucceeds
<1> QED
  BY <1>1, SettledInvariant, PTL

\* The one instance that is no duplicate wins, whatever the names are.
LEMMA MasterIsOriginal ==
  ASSUME NEW D, D \subseteq Paths, NEW m \in D,
         \A x \in D : inst[x].dup = (x # m)
  PROVE  SelectMaster(D) = m
<1>1. NameRank[m] <= NameRank[m]
  BY NameRankAssumption
<1>2. \A y \in D : Preferred(m, y)
  BY <1>1 DEF Preferred
<1>3. ASSUME NEW x \in D, \A y \in D : Preferred(x, y)
      PROVE  x = m
  BY <1>3 DEF Preferred
<1> QED
  BY <1>2, <1>3 DEF SelectMaster

\* In a settled state govern-duplicates records the master and the count that
\* the inventory has (_govern_content, select_master_candidate).
THEOREM SettledGroupsAgree == Spec => SettledGovernAgrees
<1>1. ASSUME SettledInv, Next, NEW s \in Contents, Settled,
             groups'[s] # groups[s], LiveCopies(s) # {}
      PROVE  /\ groups'[s].master = content[s].master
             /\ groups'[s].count = content[s].count
  <2> DEFINE D == DiscoveredWith(inst, s)
  <2>1. groups' # groups
    BY <1>1
  <2>2. PICK r \in Contents : GovernContent(r)
    <3>1. GovernDuplicates \/ (Fault /\ GovernFault)
      BY <1>1, <2>1 DEF Next, Scan, CopyToVault, Edit, Fault, governVars
    <3> QED
      BY <2>1, <3>1 DEF GovernDuplicates, GovernWork, GovernFault, StartGovern,
                        FinishGovern, FailGovern, KillGovern
  <2>3. groups \in [Contents -> GroupRow] /\ inst \in [Paths -> InstRow]
    BY <1>1 DEF SettledInv, LifecycleInv, GovernTypeOK, ScanInv, TablesTypeOK
  <2>4. r = s /\ ~(Cardinality(D) < 2)
    BY <1>1, <2>2, <2>3 DEF GovernContent
  <2>5. groups'[s] = [exists |-> TRUE, count |-> Cardinality(D),
                      master |-> SelectMaster(D)]
    BY <2>2, <2>3, <2>4 DEF GovernContent
  <2>6. D # {} /\ D \subseteq Paths
    <3>1. D \subseteq Paths
      BY DEF DiscoveredWith
    <3> HIDE DEF D
    <3>2. D # {}
      BY <2>4, FS_EmptySet
    <3> QED
      BY <3>1, <3>2
  <2>7. /\ content[s].count = Cardinality(D)
        /\ content[s].master = FirstById(inst, D)
        /\ \A x \in D : inst[x].dup = (x # content[s].master)
    BY <1>1, <2>6 DEF SettledInv, ExactInv, TwoScansAreExact, Settled,
                      AggregatesExact
  <2>8. \A x \in D : inst[x].id \in Nat
    BY <2>3, <2>6 DEF InstRow
  <2> HIDE DEF D
  <2>9. content[s].master \in D
    BY <2>6, <2>7, <2>8, FirstByIdIsMember
  <2>10. SelectMaster(D) = content[s].master
    BY <2>6, <2>7, <2>9, MasterIsOriginal
  <2> QED
    BY <2>5, <2>7, <2>10
<1>2. SettledInv /\ [Next]_lifecycleVars =>
        [\A s \in Contents :
           Settled /\ groups'[s] # groups[s] /\ LiveCopies(s) # {} =>
             /\ groups'[s].master = content[s].master
             /\ groups'[s].count = content[s].count]_lifecycleVars
  BY <1>1
<1> QED
  BY <1>2, SettledInvariant, PTL DEF Spec, SettledGovernAgrees
=============================================================================
