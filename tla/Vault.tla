-------------------------------- MODULE Vault --------------------------------
(***************************************************************************)
(* Spec 002, services/file_content_vault.py: each registered content gets  *)
(* one copy of its bytes, original.bin, in a directory named by its        *)
(* sha256, three sidecar files and a row of kb_raw_vault_object.           *)
(*                                                                         *)
(* One copy-to-vault process.  Everything it does to the disk happens in   *)
(* the middle of an open transaction and survives a rollback or a kill:    *)
(* the binary is overwritten in place ("wb"), then verified, then the      *)
(* sidecars are written, then the rows are committed.                      *)
(***************************************************************************)
EXTENDS FileTables

Absent == "absent"       \* no original.bin
Torn   == "torn"         \* an original.bin whose sha256 is that of nothing

ASSUME BinAssumption == {Absent, Torn} \cap Contents = {}

VARIABLES
  bin,       \* bin[s]: the bytes of original.bin in the directory of s
  sources,   \* sources[s]: the paths listed in source_paths.json; {} = no file
  vobj,      \* vobj[s]: copy_status of the kb_raw_vault_object row, or "NONE"
  copy       \* the copy-to-vault process

vaultVars == <<bin, sources, vobj, copy>>

Modes == {"plain", "refresh", "target"}

(***************************************************************************)
(* settled is history: the tables were exact and no file has changed since *)
(* the content was loaded.  io is history: an I/O or database fault has    *)
(* hit the content in hand.                                                *)
(***************************************************************************)
CopyState == [ pc      : {"idle", "next", "open", "write", "sidecar",
                          "commit", "error"},
               mode    : Modes,
               batch   : SUBSET Contents,
               cur     : Contents \cup {NoSha},
               source  : Paths \cup {NoPath},     \* copy_source
               members : SUBSET Paths,            \* instances, as loaded
               bytes   : Contents \cup {NoSha},   \* of the opened source
               settled : BOOLEAN,
               io      : BOOLEAN ]

IdleCopy == [pc |-> "idle", mode |-> "plain", batch |-> {}, cur |-> NoSha,
             source |-> NoPath, members |-> {}, bytes |-> NoSha,
             settled |-> FALSE, io |-> FALSE]

VaultTypeOK ==
  /\ bin \in [Contents -> Contents \cup {Absent, Torn}]
  /\ sources \in [Contents -> SUBSET Paths]
  /\ vobj \in [Contents -> {"NONE", "COPIED", "ERROR"}]
  /\ copy \in CopyState

VaultInit ==
  /\ bin = [s \in Contents |-> Absent]
  /\ sources = [s \in Contents |-> {}]
  /\ vobj = [s \in Contents |-> "NONE"]
  /\ copy = IdleCopy

-----------------------------------------------------------------------------
\* _load_candidates.  An explicit --sha256 takes its content in whatever
\* vault_status it is; a plain run takes only NOT_COPIED.
Candidates(mode, target) ==
  {s \in Contents :
     /\ content[s].vault # "NONE"
     /\ CASE mode = "target"  -> s = target
          [] mode = "refresh" -> content[s].vault = "COPIED"
          [] mode = "plain"   -> content[s].vault = "NOT_COPIED"}

StartCopy(mode, target) ==
  /\ copy.pc = "idle"
  /\ copy' = [IdleCopy EXCEPT !.pc = "next", !.mode = mode,
                              !.batch = Candidates(mode, target)]
  /\ UNCHANGED <<tableVars, bin, sources, vobj>>

\* _is_readable_source
Readable(x) == fs[x] \in Contents

\* Mutant: no fallback.
MasterOnly(s) ==
  {x \in Paths : /\ inst[x].status = "DISCOVERED"
                 /\ x = content[s].master
                 /\ Readable(x)}

\* _resolve_copy_source: the recorded master first, whatever sha256 its row
\* has by now, then the instances of s by id; the first one that is
\* DISCOVERED and readable.
UsableSources(s) ==
  {x \in Paths : /\ inst[x].status = "DISCOVERED"
                 /\ inst[x].sha = s \/ x = content[s].master
                 /\ Readable(x)}

CopySource(s) ==
  IF content[s].master \in UsableSources(s) THEN content[s].master
  ELSE FirstById(inst, UsableSources(s))

\* Mutant: trust vault_status.
BinTrusted(s) == content[s].vault = "COPIED"

\* Mutant: trust that the file is there.
BinExists(s) == bin[s] # Absent

\* bin_valid: original.bin exists and its sha256 is s.
BinValid(s) == bin[s] = s

\* The first part of _process_content: load the row and its instances (in
\* any status), choose the source, then look at original.bin.  isSettled is
\* what the caller knows of the tables.
LoadContent(s, isSettled) ==
  LET members == {x \in Paths : inst[x].status # "NONE" /\ inst[x].sha = s}
      found == members # {} /\ UsableSources(s) # {}
  IN /\ copy.pc = "next" /\ s \in copy.batch
     /\ copy' = [copy EXCEPT
          !.batch = @ \ {s},
          !.cur = s,
          !.settled = isSettled,
          !.io = FALSE,
          !.members = members,
          !.source = IF found THEN CopySource(s) ELSE NoPath,
          !.pc = IF ~found \/ (copy.mode = "refresh" /\ ~BinValid(s)) THEN "error"
                 ELSE IF BinValid(s) THEN "sidecar" ELSE "open"]
     /\ UNCHANGED <<tableVars, bin, sources, vobj>>

\* _copy_file_chunked opens the source, then truncates the destination.
OpenFiles ==
  /\ copy.pc = "open"
  /\ IF Readable(copy.source)
     THEN /\ bin' = [bin EXCEPT ![copy.cur] = Torn]
          /\ copy' = [copy EXCEPT !.pc = "write", !.bytes = fs[copy.source]]
     ELSE /\ copy' = [copy EXCEPT !.pc = "error"]
          /\ UNCHANGED bin
  /\ UNCHANGED <<tableVars, sources, vobj>>

\* What the read loop can deliver: the bytes that were there when the source
\* was opened, or, if the file has changed since, the new ones or a mixture.
Delivered ==
  {copy.bytes} \cup (IF fs[copy.source] = copy.bytes THEN {}
                     ELSE {Torn} \cup ({fs[copy.source]} \cap Contents))

\* Mutant: the copy is not hashed.
WriteBinUnverified ==
  /\ copy.pc = "write"
  /\ \E v \in Delivered : bin' = [bin EXCEPT ![copy.cur] = v]
  /\ copy' = [copy EXCEPT !.pc = "sidecar"]
  /\ UNCHANGED <<tableVars, sources, vobj>>

\* The copy is completed and hashed.
WriteBin ==
  /\ copy.pc = "write"
  /\ \E v \in Delivered :
       /\ bin' = [bin EXCEPT ![copy.cur] = v]
       /\ copy' = [copy EXCEPT !.pc = IF v = copy.cur THEN "sidecar"
                                      ELSE "error"]
  /\ UNCHANGED <<tableVars, sources, vobj>>

\* _write_sidecar_files, from the instances as they were loaded.
WriteSidecars ==
  /\ copy.pc = "sidecar"
  /\ sources' = [sources EXCEPT ![copy.cur] = copy.members]
  /\ copy' = [copy EXCEPT !.pc = "commit"]
  /\ UNCHANGED <<tableVars, bin, vobj>>

NextContent == [copy EXCEPT !.pc = "next", !.cur = NoSha, !.source = NoPath,
                            !.members = {}, !.bytes = NoSha,
                            !.settled = FALSE, !.io = FALSE]

\* vault_status, vault_path and the vault object, in one commit.
CommitCopy ==
  /\ copy.pc = "commit"
  /\ content' = [content EXCEPT ![copy.cur].vault = "COPIED"]
  /\ vobj' = [vobj EXCEPT ![copy.cur] = "COPIED"]
  /\ copy' = NextContent
  /\ UNCHANGED <<fs, inst, bin, sources>>

\* Anything else that raises before the commit: a full disk, a lost
\* connection.  What is on the disk stays there.
FailCopy ==
  /\ copy.pc \in {"open", "write", "sidecar", "commit"}
  /\ copy' = [copy EXCEPT !.pc = "error", !.io = TRUE]
  /\ UNCHANGED <<tableVars, bin, sources, vobj>>

\* Mutant: VAULT_COPY_ERROR where COPY_ERROR belongs.
RecordOtherError ==
  /\ copy.pc = "error"
  /\ content' = [content EXCEPT ![copy.cur].vault = "COPY_ERROR"]
  /\ vobj' = [vobj EXCEPT ![copy.cur] = "COPY_ERROR"]
  /\ copy' = NextContent
  /\ UNCHANGED <<fs, inst, bin, sources>>

\* Mutant: the vault object keeps its status.
RecordErrorOnContent ==
  /\ copy.pc = "error"
  /\ content' = [content EXCEPT ![copy.cur].vault = "COPY_ERROR"]
  /\ copy' = NextContent
  /\ UNCHANGED <<fs, inst, bin, sources, vobj>>

\* _record_copy_error, a transaction of its own.
RecordCopyError ==
  /\ copy.pc = "error"
  /\ content' = [content EXCEPT ![copy.cur].vault = "COPY_ERROR"]
  /\ vobj' = [vobj EXCEPT ![copy.cur] = "ERROR"]
  /\ copy' = NextContent
  /\ UNCHANGED <<fs, inst, bin, sources>>

\* ... which may fail too; the exception is only logged.
LoseCopyError ==
  /\ copy.pc = "error"
  /\ copy' = NextContent
  /\ UNCHANGED <<tableVars, bin, sources, vobj>>

FinishCopy ==
  /\ copy.pc = "next" /\ copy.batch = {}
  /\ copy' = IdleCopy
  /\ UNCHANGED <<tableVars, bin, sources, vobj>>

\* The process is killed: the transaction is gone, the files stay.
KillCopy ==
  /\ copy.pc # "idle"
  /\ copy' = IdleCopy
  /\ UNCHANGED <<tableVars, bin, sources, vobj>>

VaultWork(isSettled) ==
  \/ \E mode \in Modes, target \in Contents : StartCopy(mode, target)
  \/ \E s \in Contents : LoadContent(s, isSettled)
  \/ OpenFiles
  \/ WriteBin
  \/ WriteSidecars
  \/ CommitCopy
  \/ RecordCopyError
  \/ FinishCopy

VaultFault ==
  \/ FailCopy
  \/ LoseCopyError
  \/ KillCopy
=============================================================================
