------------------------------ MODULE Registry ------------------------------
(***************************************************************************)
(* Spec 006, services/parse_registry.py: register-parse-report and         *)
(* reconcile-parsed-artifacts read what the parsers left on the disk and   *)
(* record it: one kb_parse_run per report (or per reconcile), one          *)
(* kb_parse_result per run and content, kb_parsed_artifact rows, the       *)
(* parse_status of the content and one kb_document per content.            *)
(*                                                                         *)
(* One registrar.  Every item is a transaction of its own, and so are the  *)
(* creation, the start and the end of the run.  The label of a run is the  *)
(* parser_name of its report; reconcile always says "markitdown".  Left    *)
(* out: paths, sizes and counts, and retry_of_result_id, which no service  *)
(* reads.                                                                  *)
(***************************************************************************)
EXTENDS ParsedStore

CONSTANT MaxRuns    \* bound on rows of kb_parse_run

ASSUME MaxRunsAssumption == MaxRuns \in Nat

VARIABLES
  runs,         \* the rows of kb_parse_run, by id
  results,      \* results[k][s]: the kb_parse_result of run k for s
  parseStatus,  \* parseStatus[s]: kb_file_content.parse_status
  document,     \* document[s]: the kb_document of s
  registrar,    \* the command that runs, or has run last
  settled       \* history: the run whose registration was complete, and that
                \* nothing on the disk or in the tables has changed since, or 0

registryVars == <<runs, results, parseStatus, document, registrar, settled>>

Run == [ report : 0..MaxReports,     \* 0: a reconcile
         status : {"PENDING", "RUNNING", "COMPLETED", "PARTIAL", "FAILED"} ]

Artifacts == {"manifest", "text", "meta"}

Result == [ status  : ItemStatus,
            hash    : Outputs \cup {Blank, None},
            flagged : BOOLEAN,        \* HASH_MISMATCH in metadata_json
            missing : BOOLEAN,        \* error_code = MISSING_MANIFEST
            indexed : SUBSET Artifacts ]

NoResult == [status |-> None, hash |-> None, flagged |-> FALSE,
             missing |-> FALSE, indexed |-> {}]

Document == [ status : {"PARSED", "PARSED_EMPTY", None},
              parser : Parsers \cup {None},
              hash   : Outputs \cup {Blank, None} ]

NoDocument == [status |-> None, parser |-> None, hash |-> None]

(***************************************************************************)
(* still is history: the disk has not changed since the command started.   *)
(* repeat is history: what it registers is registered already.  raised:    *)
(* the last command was ended by an exception (and run is the run it had). *)
(***************************************************************************)
Registrar == [ pc     : {"idle", "pending", "items", "finish"},
               run    : 0..MaxRuns,
               todo   : SUBSET Contents,
               errors : BOOLEAN,
               still  : BOOLEAN,
               repeat : BOOLEAN,
               raised : BOOLEAN ]

IdleRegistrar == [pc |-> "idle", run |-> 0, todo |-> {}, errors |-> FALSE,
                  still |-> FALSE, repeat |-> FALSE, raised |-> FALSE]

RegistryTypeOK ==
  /\ runs \in Seq(Run) /\ Len(runs) <= MaxRuns
  /\ results \in Seq([Contents -> Result]) /\ Len(results) = Len(runs)
  /\ parseStatus \in [Contents -> {None, "PARSED", "PARSED_EMPTY",
                                   "PARSE_FAILED"}]
  /\ document \in [Contents -> Document]
  /\ registrar \in Registrar
  /\ registrar.run <= Len(runs)
  /\ settled \in 0..Len(runs)

RegistryInit ==
  /\ runs = <<>>
  /\ results = <<>>
  /\ parseStatus = [s \in Contents |-> None]
  /\ document = [s \in Contents |-> NoDocument]
  /\ registrar = IdleRegistrar
  /\ settled = 0

\* Mutant: the parser_name of the report is not read.
DefaultLabel(k) == "markitdown"

Label(k) == IF runs[k].report = 0 THEN "markitdown"
            ELSE reports[runs[k].report].parser

ItemsOf(k) == reports[runs[k].report].items

Readable(s) == disk[s].manifest.status \in Verdicts
-----------------------------------------------------------------------------
StartRun(k, row, todo, repeat) ==
  /\ runs' = IF k > Len(runs) THEN Append(runs, row) ELSE runs
  /\ results' = IF k > Len(runs)
                THEN Append(results, [s \in Contents |-> NoResult])
                ELSE results
  /\ registrar' = [IdleRegistrar EXCEPT !.pc = "pending", !.run = k,
                     !.todo = todo, !.still = TRUE, !.repeat = repeat]
  /\ settled' = 0
  /\ UNCHANGED <<storeVars, parseStatus, document>>

RunsOf(r) == {k \in 1..Len(runs) : runs[k].report = r}

\* Mutant: the run of the report is not looked up.
RegisterAnew(r) ==
  /\ registrar.pc = "idle"
  /\ Len(runs) < MaxRuns
  /\ StartRun(Len(runs) + 1, [report |-> r, status |-> "PENDING"],
              {s \in Contents : reports[r].items[s] # None},
              settled \in RunsOf(r))

\* _get_or_create_run_for_report: a report that has a run gets it again.
StartRegister(r) ==
  /\ registrar.pc = "idle"
  /\ LET k == IF RunsOf(r) # {} THEN CHOOSE k \in RunsOf(r) : TRUE
              ELSE Len(runs) + 1
     IN /\ k <= MaxRuns
        /\ StartRun(k, [report |-> r, status |-> "PENDING"],
                    {s \in Contents : reports[r].items[s] # None},
                    settled \in RunsOf(r))

\* _discover_manifests and _get_or_create_reconcile_run, which always creates.
StartReconcile(targets) ==
  /\ registrar.pc = "idle"
  /\ Len(runs) < MaxRuns
  /\ StartRun(Len(runs) + 1, [report |-> 0, status |-> "PENDING"],
              {s \in targets : disk[s].manifest.status # None}, FALSE)

BeginRun ==
  /\ registrar.pc = "pending"
  /\ runs' = [runs EXCEPT ![registrar.run].status = "RUNNING"]
  /\ registrar' = [registrar EXCEPT !.pc = "items"]
  /\ UNCHANGED <<storeVars, results, parseStatus, document, settled>>

\* The beginning of _persist_content_result: a manifest that can be read wins
\* over what the report says; without one, only SKIPPED is believed.
ResultStatus(item, m, readable) ==
  IF readable THEN m.status
  ELSE IF item = "SKIPPED" THEN "SKIPPED"
  ELSE "FAILED"

\* Mutant: an empty text is not worth an artifact.
IndexedIfSuccess(old, status, readable) ==
  old \cup (IF readable THEN {"manifest"} ELSE {})
      \cup (IF readable /\ status = "SUCCESS" THEN {"text", "meta"} ELSE {})

\* record_parsed_artifact, for the manifest and, if it says so, for the files
\* that it names; rows of an earlier registration stay.
Indexed(old, status, readable) ==
  old \cup (IF readable THEN {"manifest"} ELSE {})
      \cup (IF readable /\ status \in {"SUCCESS", "EMPTY"} THEN {"text", "meta"}
            ELSE {})

\* Mutant: the status of the result, as it is.
StatusAsIs(old, status) == IF status = "SKIPPED" THEN old ELSE status

\* _update_parse_status
ParseStatusAfter(old, status) ==
  CASE status = "SUCCESS" -> "PARSED"
    [] status = "EMPTY" -> "PARSED_EMPTY"
    [] status = "FAILED" -> "PARSE_FAILED"
    [] status = "SKIPPED" -> old

\* Mutant: an existing document is left alone.
InsertDocument(old, status, label, hash) ==
  IF status \in {"SUCCESS", "EMPTY"} /\ old = NoDocument
  THEN [status |-> IF status = "SUCCESS" THEN "PARSED" ELSE "PARSED_EMPTY",
        parser |-> label, hash |-> hash]
  ELSE old

\* _upsert_document: the parser is the label of the run, whatever the manifest
\* says; a failure leaves the document of an earlier success.
DocumentAfter(old, status, label, hash) ==
  IF status \in {"SUCCESS", "EMPTY"}
  THEN [status |-> IF status = "SUCCESS" THEN "PARSED" ELSE "PARSED_EMPTY",
        parser |-> label, hash |-> hash]
  ELSE old

\* _ingest_report_item or _ingest_manifest_path, one transaction.  Reconcile
\* refuses a manifest that cannot be read (any more).
IngestItem(s) ==
  LET k == registrar.run
      m == disk[s].manifest
      readable == Readable(s)
      old == results[k][s]
      item == IF runs[k].report = 0 THEN m.status ELSE ItemsOf(k)[s]
      status == ResultStatus(item, m, readable)
  IN /\ registrar.pc = "items" /\ s \in registrar.todo
     /\ runs[k].report = 0 => readable
     /\ registrar' = [registrar EXCEPT !.todo = @ \ {s}]
     /\ results' = [results EXCEPT ![k][s] =
          [status  |-> status,
           hash    |-> m.hash,
           flagged |-> m.hash # None /\ disk[s].text \notin {None, m.hash},
           missing |-> ~readable /\ status = "FAILED",
           indexed |-> Indexed(old.indexed, status, readable)]]
     /\ parseStatus' = [parseStatus EXCEPT ![s] = ParseStatusAfter(@, status)]
     /\ document' = [document EXCEPT ![s] =
                       DocumentAfter(@, status, Label(k), m.hash)]
     /\ UNCHANGED <<storeVars, runs, settled>>

\* An item raises: its transaction is rolled back and the run goes on.
IngestFails(s) ==
  /\ registrar.pc = "items" /\ s \in registrar.todo
  /\ registrar' = [registrar EXCEPT !.todo = @ \ {s}, !.errors = TRUE]
  /\ UNCHANGED <<storeVars, runs, results, parseStatus, document, settled>>

\* Reconcile raises for a torn manifest by itself.
RefuseManifest(s) ==
  /\ registrar.pc = "items" /\ runs[registrar.run].report = 0
  /\ ~Readable(s)
  /\ IngestFails(s)

\* The row of the report itself (register only); it may fail as well.
EndItems(failed) ==
  /\ registrar.pc = "items" /\ registrar.todo = {}
  /\ failed => runs[registrar.run].report # 0
  /\ registrar' = [registrar EXCEPT !.pc = "finish", !.errors = @ \/ failed]
  /\ UNCHANGED <<storeVars, runs, results, parseStatus, document, settled>>

\* Mutant: an error does not make a run PARTIAL.
CountsOnly(k) ==
  IF runs[k].report # 0 /\ \E s \in Contents : ItemsOf(k)[s] = "FAILED"
  THEN "PARTIAL" ELSE "COMPLETED"

FinalStatus(k) ==
  IF \/ registrar.errors
     \/ runs[k].report # 0 /\ \E s \in Contents : ItemsOf(k)[s] = "FAILED"
  THEN "PARTIAL" ELSE "COMPLETED"

FinishRun ==
  LET k == registrar.run IN
  /\ registrar.pc = "finish"
  /\ runs' = [runs EXCEPT ![k].status = FinalStatus(k)]
  /\ registrar' = IdleRegistrar
  /\ settled' = IF registrar.still /\ ~registrar.errors THEN k ELSE 0
  /\ UNCHANGED <<storeVars, results, parseStatus, document>>

\* Outside the items, an exception ends the command and nothing catches it;
\* fail_parse_run is never called.
RunRaises ==
  /\ registrar.pc \in {"pending", "finish"}
  /\ registrar' = [IdleRegistrar EXCEPT !.run = registrar.run, !.raised = TRUE]
  /\ UNCHANGED <<storeVars, runs, results, parseStatus, document, settled>>

KillRegistrar ==
  /\ registrar.pc # "idle"
  /\ registrar' = IdleRegistrar
  /\ UNCHANGED <<storeVars, runs, results, parseStatus, document, settled>>
-----------------------------------------------------------------------------
RegistryStart ==
  \/ \E r \in 1..Len(reports) : StartRegister(r)
  \/ \E S \in Targets : StartReconcile(S)

RegistryWork ==
  \/ BeginRun
  \/ \E s \in Contents : IngestItem(s) \/ RefuseManifest(s)
  \/ EndItems(FALSE)
  \/ FinishRun

RegistryFault ==
  \/ \E s \in Contents : IngestFails(s)
  \/ EndItems(TRUE)
  \/ RunRaises
  \/ KillRegistrar
-----------------------------------------------------------------------------
\* What parse_status promises, the document of the content holds: a content
\* that the tables call parsed has a document with the same verdict, after any
\* sequence of registrations of old and new reports.
ParsedHasDocument ==
  \A s \in Contents :
    /\ parseStatus[s] = "PARSED" => document[s].status = "PARSED"
    /\ parseStatus[s] = "PARSED_EMPTY" => document[s].status = "PARSED_EMPTY"

\* A run is called COMPLETED only if every item of its report has a result,
\* and none of them was reported as failed.
CompletedRunIsComplete ==
  \A k \in 1..Len(runs) :
    runs[k].status = "COMPLETED" /\ runs[k].report # 0 =>
      \A s \in Contents :
        /\ ItemsOf(k)[s] # "FAILED"
        /\ ItemsOf(k)[s] # None => results[k][s].status # None

\* Registering a report once more, with nothing changed in between, changes no
\* result, no document and no parse_status, even if it fails half way.
ReRegisterIsIdempotent ==
  [][registrar.repeat =>
       UNCHANGED <<results, document, parseStatus>>]_registryVars

\* specs/006-parse-job-registry/plan.md: parser_name comes from the manifest.
DocumentParserIsManifests ==
  settled # 0 =>
    \A s \in Contents :
      results[settled][s].status = "SUCCESS" =>
        document[s].parser = disk[s].manifest.parser

\* specs/006-parse-job-registry/plan.md: a registration that ends by an
\* exception marks its run FAILED.
RaisedRunFails ==
  registrar.raised => runs[registrar.run].status = "FAILED"
=============================================================================
