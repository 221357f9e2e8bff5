--------------------------- MODULE ParsePipeline ---------------------------
(***************************************************************************)
(* Specs 005, 006, 007 and 008 together: two parsers and a registrar over  *)
(* the parsed directories, with kills, failed steps and contents whose     *)
(* route changes.  The quality checker (008) only reads: it is an operator *)
(* on the state.                                                           *)
(***************************************************************************)
EXTENDS Registry

CONSTANTS
  MaxFaults,    \* bound on kills, exceptions and failed transactions
  MaxReroutes   \* bound on changes of route

ASSUME PipelineBounds == MaxFaults \in Nat /\ MaxReroutes \in Nat

VARIABLES faults, reroutes

pipelineVars == <<storeVars, registryVars, faults, reroutes>>

Init ==
  /\ StoreInit
  /\ RegistryInit
  /\ faults = 0
  /\ reroutes = 0

\* The registry's history takes note of a change of the disk.
SeeDisk ==
  /\ registrar' = [registrar EXCEPT !.still = @ /\ disk' = disk,
                                    !.repeat = @ /\ disk' = disk]
  /\ settled' = IF disk' = disk THEN settled ELSE 0
  /\ UNCHANGED <<runs, results, parseStatus, document>>

Parse ==
  /\ \E p \in Parsers :
       /\ parser[p].pc # "idle" \/ registrar.pc = "idle" \/ Overlap
       /\ ParserWork(p)
  /\ SeeDisk
  /\ UNCHANGED <<faults, reroutes>>

Register ==
  /\ \/ RegistryStart /\ (Active = {} \/ Overlap)
     \/ RegistryWork
  /\ UNCHANGED <<faults, reroutes>>

Rescan ==
  /\ reroutes < MaxReroutes
  /\ reroutes' = reroutes + 1
  /\ \E s \in Contents, r \in Parsers \cup {None} : Reroute(s, r)
  /\ UNCHANGED <<registryVars, faults>>

Fault ==
  /\ faults < MaxFaults
  /\ faults' = faults + 1
  /\ \/ (\E p \in Parsers : ParserFault(p)) /\ SeeDisk
     \/ RegistryFault
  /\ UNCHANGED reroutes

\* No command runs, and perhaps none will be started any more.
Rest ==
  /\ Active = {} /\ registrar.pc = "idle"
  /\ UNCHANGED pipelineVars

Next == Parse \/ Register \/ Rescan \/ Fault \/ Rest

Spec == Init /\ [][Next]_pipelineVars
-----------------------------------------------------------------------------
(***************************************************************************)
(* check-parse-quality, services/parse_quality_checker.py: the issue codes *)
(* for one row of kb_parse_result.  Left out are the checks that compare   *)
(* sha256 and content_uid inside a manifest with those of its row: both    *)
(* come from the same content row here; the checks for temporary paths;    *)
(* and the code of its own for a missing directory.                        *)
(***************************************************************************)
OnDisk(s) ==
  {f \in Artifacts :
     CASE f = "manifest" -> disk[s].manifest.status # None
       [] f = "text" -> disk[s].text # None
       [] f = "meta" -> disk[s].meta # None}

MissingCode == [manifest |-> "MISSING_PARSE_MANIFEST",
                text     |-> "MISSING_PARSED_TEXT",
                meta     |-> "MISSING_PARSED_METADATA"]

FileIssues(s) ==
  (IF original[s] THEN {} ELSE {"MISSING_RAW_VAULT_OBJECT"}) \cup
  {MissingCode[f] : f \in Artifacts \ OnDisk(s)}

ManifestIssues(k, s) ==
  LET m == disk[s].manifest IN
  IF m.status = None THEN {}
  ELSE IF m.status = Torn THEN {"INVALID_PARSE_MANIFEST_JSON"}
  ELSE IF m.parser # Label(k) THEN {"MANIFEST_PARSER_NAME_INVALID"}
  ELSE {}

RegistryIssues(k, s) ==
  LET row == results[k][s] IN
  (IF row.status = "SUCCESS" /\ OnDisk(s) # Artifacts
   THEN {"REGISTRY_STATUS_FILE_MISMATCH"} ELSE {}) \cup
  (CASE row.missing -> {"REGISTRY_MISSING_MANIFEST_RESULT"}
     [] ~row.missing /\ row.status = "FAILED" -> {"REGISTRY_FAILED_RESULT"}
     [] row.status = "EMPTY" -> {"REGISTRY_EMPTY_RESULT"}
     [] row.status = "SKIPPED" -> {"REGISTRY_SKIPPED_RESULT"}
     [] OTHER -> {}) \cup
  (IF row.indexed \subseteq OnDisk(s) THEN {}
   ELSE {"REGISTRY_ARTIFACT_PATH_MISSING"})

Issues(k, s) == FileIssues(s) \cup ManifestIssues(k, s) \cup RegistryIssues(k, s)
-----------------------------------------------------------------------------
TypeOK ==
  /\ StoreTypeOK
  /\ RegistryTypeOK
  /\ faults \in 0..MaxFaults
  /\ reroutes \in 0..MaxReroutes

\* The items that an undisturbed parser run reported as parsed and that have
\* been registered, with nothing done since.
Delivered ==
  IF settled = 0 THEN {}
  ELSE IF runs[settled].report # fresh \/ fresh = 0 THEN {}
  ELSE {s \in Contents : reports[fresh].items[s] \in {"SUCCESS", "EMPTY"}}

\* Parse, then register: four tables and three files say the same of each
\* delivered content, whatever was on the disk and in the tables before.
DeliveredIsRegistered ==
  \A s \in Delivered :
    LET item == reports[fresh].items[s]
        row == results[settled][s]
    IN /\ row.status = item /\ row.indexed = Artifacts
       /\ row.hash = disk[s].text /\ ~row.flagged /\ ~row.missing
       /\ parseStatus[s] = document[s].status
       /\ document[s] = [status |-> IF item = "SUCCESS" THEN "PARSED"
                                    ELSE "PARSED_EMPTY",
                         parser |-> reports[fresh].parser,
                         hash   |-> disk[s].text]

\* The quality checker raises no alarm for a delivered content, except that an
\* empty text is called empty.
DeliveredPassesQuality ==
  \A s \in Delivered :
    Issues(settled, s) = IF reports[fresh].items[s] = "EMPTY"
                         THEN {"REGISTRY_EMPTY_RESULT"} ELSE {}
=============================================================================
