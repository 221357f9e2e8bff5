---------------------------- MODULE FileLifecycle ----------------------------
(***************************************************************************)
(* Specs 001, 002 and 003 together over the tables and the disk that they  *)
(* share: one scan, one copy-to-vault and one govern-duplicates process in *)
(* any interleaving, while files are edited, steps fail and processes are  *)
(* killed.                                                                 *)
(***************************************************************************)
EXTENDS Inventory, Vault, Governance

CONSTANTS
  Commands,    \* the commands that are run beside "scan"
  MaxEdits,    \* bound on the edits of files
  MaxFaults    \* bound on kills, rollbacks and failed steps

ASSUME BoundsAssumption ==
  /\ Commands \subseteq {"copy-to-vault", "govern-duplicates"}
  /\ MaxEdits \in Nat
  /\ MaxFaults \in Nat

VARIABLES edits, faults

lifecycleVars ==
  <<tableVars, scanVars, vaultVars, governVars, edits, faults>>

Init ==
  /\ TablesInit
  /\ ScanInit
  /\ VaultInit
  /\ GovernInit
  /\ edits = 0
  /\ faults = 0

\* The tables are exact for every content on disk (see TwoScansAreExact).
Settled == passes = 2

Scan ==
  /\ \E p \in Scanners : ScanWork(p)
  /\ UNCHANGED <<vaultVars, governVars, edits, faults>>

CopyToVault ==
  /\ "copy-to-vault" \in Commands
  /\ VaultWork(Settled)
  /\ UNCHANGED <<scanVars, governVars, edits, faults>>

GovernDuplicates ==
  /\ "govern-duplicates" \in Commands
  /\ GovernWork
  /\ UNCHANGED <<scanVars, vaultVars, edits, faults>>

Edit ==
  /\ edits < MaxEdits
  /\ edits' = edits + 1
  /\ \E x \in Paths, v \in Contents \cup {Missing, Unreadable} : EditFile(x, v)
  /\ copy' = [copy EXCEPT !.settled = FALSE]
  /\ UNCHANGED <<bin, sources, vobj, governVars, faults>>

Fault ==
  /\ faults < MaxFaults
  /\ faults' = faults + 1
  /\ \/ /\ \E p \in Scanners : ScanFault(p)
        /\ UNCHANGED <<vaultVars, governVars>>
     \/ VaultFault /\ UNCHANGED <<scanVars, governVars>>
     \/ GovernFault /\ UNCHANGED <<scanVars, vaultVars>>
  /\ UNCHANGED edits

Next == Scan \/ CopyToVault \/ GovernDuplicates \/ Edit \/ Fault

Spec == Init /\ [][Next]_lifecycleVars
-----------------------------------------------------------------------------
TypeOK ==
  /\ TablesTypeOK
  /\ ScanTypeOK
  /\ VaultTypeOK
  /\ GovernTypeOK
  /\ edits \in 0..MaxEdits
  /\ faults \in 0..MaxFaults

\* A content that the database calls COPIED has its very bytes in original.bin
\* and its sidecars on disk, and its vault object says COPIED too: across
\* kills between the write, the sidecars and the commit, and across sources
\* that change while they are being copied.
CopiedIsArchived ==
  \A s \in Contents :
    content[s].vault = "COPIED" =>
      bin[s] = s /\ sources[s] # {} /\ vobj[s] = "COPIED"

\* What a copy has found out or done stays true until it commits: nothing else
\* touches original.bin between the check, the write, the sidecars and the
\* commit, and a binary that is right is never opened for writing.
CopyKnowsBin ==
  /\ copy.pc \in {"open", "write"} => bin[copy.cur] # copy.cur
  /\ copy.pc \in {"sidecar", "commit"} => bin[copy.cur] = copy.cur
  /\ copy.pc \in {"open", "write", "sidecar", "commit"} => copy.members # {}
  /\ copy.pc = "commit" => sources[copy.cur] # {}

\* No run, in any mode and after any failure, overwrites an original.bin whose
\* hash is right.
ValidBinIsKept ==
  [][\A s \in Contents : bin[s] = s => bin'[s] = s]_lifecycleVars

\* vault_status and copy_status are written in two tables by two different
\* transactions (success, error) and by two processes (a scan writes the row
\* of the content too), and never disagree.
StatusesAgree ==
  \A s \in Contents :
    /\ content[s].vault = "COPIED" <=> vobj[s] = "COPIED"
    /\ content[s].vault = "COPY_ERROR" <=> vobj[s] = "ERROR"

\* In a settled state a copy cannot fail for a reason of its own: if some
\* file holds the content, the recorded master or a fallback leads to it.
\* (Before that, a stale master may deliver the bytes of another content.)
SettledCopySucceeds ==
  copy.pc = "error" /\ copy.settled /\ ~copy.io /\ copy.mode # "refresh" =>
    LiveCopies(copy.cur) = {}

\* In a settled state 003 chooses the same master, and counts the same
\* instances, as 001 has recorded, whatever the names of the copies.
SettledGovernAgrees ==
  [][\A s \in Contents :
       Settled /\ groups'[s] # groups[s] /\ LiveCopies(s) # {} =>
         /\ groups'[s].master = content[s].master
         /\ groups'[s].count = content[s].count]_lifecycleVars

\* The archive that the vault implements.
A == INSTANCE Archive WITH
       store     <- {s \in Contents : bin[s] = s},
       published <- {s \in Contents : content[s].vault = "COPIED"}

\* The raw vault is a write-once archive with a truthful catalogue.
ImplementsArchive == A!Spec

\* specs/002-file-content-vault/plan.md: a failure can be run again, the
\* status being still NOT_COPIED or COPY_ERROR.
FailuresAreRetried ==
  [][copy.pc = "idle" /\ copy'.pc = "next" /\ copy'.mode = "plain" =>
       {s \in Contents : content[s].vault \in {"NOT_COPIED", "COPY_ERROR"}}
         \subseteq copy'.batch]_lifecycleVars
=============================================================================
