# Verification of pkb_sdd

TLA+ models of the ingestion pipeline of the personal knowledge base
(`src/backend/app`), TLC runs on small instances, and TLAPS proofs for every
value of the constants. Every definition is translated from the code; the specs
under `src/specs/` are used only to say what was *promised*.

## 1. The system

A batch program: one person runs commands of `cli/main.py` by hand or from
`scripts/`, each a process of its own, against one MySQL schema and three
directory trees (the personal files, the raw vault, the parsed store). There is
no daemon, no queue, no lock file. Everything that is hard comes from that:
stages communicate only through rows and files, two commands may overlap, each
may be killed at any point, the user edits files meanwhile, and the disk is not
part of a transaction.

| component | state it keeps | operations that change state | what would make it correct |
|---|---|---|---|
| 001 inventory (`inventory_scanner.py`) | `kb_file_instance`, `kb_file_content` | `scan`: hash a file, upsert both rows, refresh count, master and duplicate flags; error record | rows say what is on disk; the aggregates are exact; one bad file never stalls a scan |
| 002 vault (`file_content_vault.py`) | `original.bin` and three sidecars per sha256, `kb_raw_vault_object`, `vault_status` | `copy-to-vault`, plain, `--refresh-metadata-only`, `--sha256`: choose a source, copy, hash, sidecars, commit; error record | COPIED means archived; a good binary is never overwritten; two status columns agree |
| 003 governance (`duplicate_governance.py`) | `kb_duplicate_group`, `duplicate_group_uid`, two reports | `govern-duplicates` for all or for one content | agrees with 001 on master and count |
| 004 router (`parser_router.py`, `core/parser_routing.py`) | none (a report) | – | one route per content |
| 005 MarkItDown, 007 MinerU | three files per content, a report per run | `parse-markitdown`, `parse-mineru-pdf [--force]` | a manifest tells the truth about the files beside it; a report about the manifests |
| 006 registry (`parse_registry.py`) | `kb_parse_run`, `kb_parse_result`, `kb_parsed_artifact`, `kb_document`, `parse_status` | `register-parse-report`, `reconcile-parsed-artifacts` | tables agree with files and with one another; registering twice changes nothing; a COMPLETED run is complete |
| 008 quality checker, 009 summary | reports only | – | no false alarm, no missed one; the counts add up |
| 010 evidence chain (`evidence_chain.py`) | `kb_document_chunk`, `kb_evidence` | `build-evidence-chain [--force] [--limit]`: cut the parsed text of each registered content, upsert chunks and evidence, one transaction for the whole batch | evidence has its chunk; what is served comes from one text; what was counted is stored; a uid is never withdrawn |
| 011 curated assets (`curated_project_assets.py`) | `kb_project`, `kb_project_document`, `kb_curated_asset`, three files per project | `build-curated-project [--force]`: resolve mappings, render, write files, commit the rows | a row agrees with its file; references exist; a forced build is current |
| 012 search (`search_service.py`) | none (SELECTs) | – | merged pages neither skip nor repeat; the total is what a reader gets |
| 013 admin console (`frontend/streamlit_admin`) | none | – | reads only |
| CLI, configuration, session, schema | connection settings, unique keys | – | `autoflush=False` and InnoDB's snapshots shape 001; the unique keys are its conflicts |

How they interact: 001 writes the rows that 002 and 003 select from, and also
the row whose `vault_status` 002 owns. 002 reads `master_file_instance_uid` and
the instances of 001, which may be stale by the time it opens a file. 003
rewrites `duplicate_group_uid` in rows that a scan has loaded. 005 and 007 take
COPIED contents, decide by the file extension of 001 who is responsible, and
share one directory per content. 006 reads reports and manifests, at a later
time. 008 compares all of them; 009 reads what 008 wrote. 010 takes the usable results
of 006 and reads the files of 005 and 007, which may be replaced at any time.
011 reads `kb_document` and `kb_evidence` from the snapshot of its transaction
and writes the uids it found into files and JSON columns, where no foreign key
protects them; it relies on 010 never withdrawing one. 012 ranks the rows of all
of them, and 011's `kb_project_document` is its project filter.

The hazards that follow, each with its line in the source, are listed in
`PROJECT.json`; the properties below are written against them.

## 2. Modules

```
FileTables ── Inventory ──┐
          ├── Vault ──────┼── FileLifecycle ── MCFileLifecycle
          └── Governance ─┘        │  └─ implements Archive
ParsedStore ── Registry ── ParsePipeline ── MCParsePipeline
Sections ── Evidence ── MCEvidence        Curated ── MCCurated
   │           └─ implements EvidenceFeed ──┘ assumed by
   └─ MCSections                          Search ── MCSearch

Inventory_proofs (about Inventory) ── FileLifecycle_proofs (about FileLifecycle)
ParsePipeline_proofs ── ParsedTruth_proofs             (about ParsePipeline)
Evidence_proofs (about Evidence)   Curated_proofs (about Curated)
Sections_proofs (about MCSections) Search_proofs (about Search)
```

**FileTables**: the disk `fs` and the rows `inst`, `content`. A path is its rank
in `sorted(candidates)`; the bytes of a file are a member of `Contents`, and its
sha256 is that same member, because the code keys everything by it.

**Inventory** (001): `scan[p]` is where process p is, `txn[p]` the snapshot its
open transaction works on. `HashFile` is stat, hash and first SELECT;
`CommitFile` is the rest of `_process_file`: both upserts, the flushes of new
rows, `_refresh_duplicate_state` over what its SELECT can see, and the ORM's
UPDATE of only those columns that differ from the loaded ones. Between the two,
anything may happen. `InsertConflict` is the unique keys. `HashRaises`,
`RollbackFile`, `RecordError`, `LoseError`, `KillScan` are the error paths.

**Vault** (002): `bin`, `sources`, `vobj` and the process `copy`. One action per
point at which a kill or another process makes a difference: `LoadContent`,
`OpenFiles` (truncates the destination), `WriteBin` (the source may have changed
while it was read, so the bytes may be the old ones, the new ones or a mixture),
`WriteSidecars`, `CommitCopy`; the error record is a transaction of its own that
may be lost.

**Governance** (003): `groups` and the process `govern`; `SelectMaster` is
`select_master_candidate`, with the rules about names folded into the constant
`NameRank` (a strict order, because the last criterion of the code is unique).

**FileLifecycle** composes the three and adds `Edit` and `Fault`.
**Archive** is what the vault promises, without files, tables or processes: a
store that only grows and a catalogue of stored contents.

**ParsedStore** (005 and 007): `disk[s]` holds text, metadata and manifest,
`parser[p]` is a command in the middle of its work. Each file write, and each
removal before a forced parse, is an action; an interruption leaves the file it
was writing whole, cut short or untouched. `Reroute` is a rescan that finds the
same bytes under another extension.

**Registry** (006): `runs`, `results`, `parseStatus`, `document` and the process
`registrar`. Creating, starting and finishing a run and each item are separate
transactions; `Indexed`, `ResultStatus`, `ParseStatusAfter`, `DocumentAfter` are
the rules of `_persist_content_result`.

**ParsePipeline** composes both and states 008 as the operator `Issues`. Its
disjunct `Rest` says that the commands may all be over; so deadlock is checked
in every run.

**Sections** (010, `_split_markdown_sections`): headings, the stack of the
heading path and the ends of the sections, as operators on a sequence of lines;
a recursive function stands for the loop over the headings, and `InOrder` for
the order in which `finditer` finds them.

**Evidence** (010): `parsed` and `results` are what 005, 007 and 006 leave for
it, changed by the actions `WriteParsed` and `RegisterResult` in any order;
`chunks` and `evidence` are the committed rows, `builder[b].chunks` and
`.evidence` those that build b has upserted and nobody sees yet. One action per
content (`SkipContent`, `BuildContent`), because nothing inside a transaction is
visible; `StatementFails` commits the statements before the failing one later,
as the code's missing savepoint does; `DeadlockVictim` is MySQL undoing the
whole transaction while the loop goes on, and `BeginAgain` the new snapshot.
A uid is the tuple that the code hashes, so equal payloads give equal uids.

**EvidenceFeed** is what 010 promises to 011 and 012: a set of uids that only
grows. `Evidence` is shown to implement it (`FeedOnlyGrows`), and the
environment of `Curated` is that module and nothing stronger.

**Curated** (011): one project. `PlanBuild` is everything a build reads,
`BeginWriting` the first upsert, which takes the lock of the `kb_project` row,
`WriteAsset` one file, `CommitBuild` all the rows, `AbortBuild` a kill or an
exception at any point, which may cut the file in hand short. A manifest names
any contents in any order; what is left of it is any list of the contents that
are not dropped (`Resolved`, `FromManifest`).

**Search** (012): `SearchPage` with its scopes, filters, `LIMIT`/`OFFSET`, merge
and counts; `Ranked` is `ORDER BY` and `list.sort` alike, a row at the place that
says how many come before it. A search changes nothing, so the state is its caller's: `listing`
asks page after page and keeps what it was shown. When 010 or 011 change the
tables the listing is abandoned: the code promises nothing across a change.

Taken from outside the code (*external* in `PROJECT.json`, or said at the
definition): the REPEATABLE READ snapshot of a transaction, InnoDB's lock of a
row that was written, the unique keys, MySQL's statement and deadlock rollback,
the scores of FULLTEXT, the two converters.

Variables called *history* in their comments (`passes`, `clean`, `settled`,
`torn`, `fresh`, `still`, `repeat`, `io`, `reported`, `rebuilt`, `doubtful`) do
not exist in the code. No guard of an action that models code reads one; they
say in which states a property has anything to say.

## 3. Runs

| run | instance | shows |
|---|---|---|
| `inventory` | 1 scanner, 2 paths, 2 contents, any edits and faults | rows follow files after one undisturbed scan; after two, counts, masters and flags are exact; every scan ends, because no step of anybody gives it more to do |
| `inventory_one_scan` | as `inventory` | *violated*: one scan after an edit leaves `instance_count` wrong |
| `vault` | 1 scan, 1 copy, 2 paths, 2 contents, 1 edit, 1 fault | COPIED is archived, statuses agree, a good binary is kept, the vault implements `Archive`, a copy in a settled state finds a live source |
| `governance` | 2 scans, 1 govern, 2 paths, 2 contents, 1 edit, 1 fault | the aggregates converge after racing scans, with a govern between them; 003 and 001 agree on master and count in a settled state |
| `parse` | both parsers overlapping, 1 content, 2 texts, 3 reports, 1 fault, 1 reroute | manifests are true, reports of undisturbed runs are true |
| `registry` | 1 content, 1 text, 2 reports, 2 runs, 1 fault | documents exist for what is called parsed; a COMPLETED run is complete; parse then register makes tables, files and checker agree; registering again changes nothing |
| `sections` | every text of up to 5 lines, 3 heading levels | the heading path of a section is the headings that enclose it; every inked line is quoted once |
| `evidence` | builds one after the other, none forced, 2 contents, 3 texts, 2 results, `--limit` 1 or none, failing statements | what is served of a content comes from one text |
| `evidence_force` | 2 overlapping builds, forced or not, 1 content, 2 texts, 2 results, failing statements, deadlocks | evidence has its chunk, what was counted is stored, a forced build is served, 010 implements `EvidenceFeed` |
| `evidence_failure` | 1 build, 1 content, 2 texts, failing statements | *violated*: a chunk is committed without its evidence |
| `curated` | 2 overlapping builds, forced or not, 1 content, 1 evidence row, manifests of 1 entry | rows agree with files, references are stored, a forced build is current, a mapping has its document |
| `search` | 6 rows in 5 tables, 2 documents, scores 0 to 2, `--limit` 1 or 2 | the pages of a listing are the beginning of one ranking; the announced total is reached |

Why the bounds are enough to meet the interesting cases: two paths and two
contents give duplicates, a file moving from one content to another, a stale
master and a fallback; one edit and one fault place a change or a kill between
any two steps; commands repeat freely, so a restart after the fault is included.
`inventory` has no bound on edits and faults at all: its state is finite.
Three reports over one content give a parse by one parser, a reroute, a parse by
the other and a forced one. Two runs give register, then register again or
reconcile. Five lines are enough for a heading path to grow by two, to be cut
back past a skipped level and to grow again. Of the two texts of a content, one
changes the first chunk and moves the second, whose uid stays, so an upsert meets
rows of the other text; two results give a limit something to cut. Two builds of 011 overlap in
every order, and either may die at every file. Six rows give pages of one and of
two hits that cross every border between two scopes, and ties that only the type
or only the uid decides.

What the bounds leave out: one content in `registry` means that no kill falls
"between two items"; the theorem `CompletedRunsAreComplete` holds for any number
of them. `evidence_force` has one content, so the content that a deadlock undoes
is never one that was counted before; with two, `ReportedIsStored` fails (below),
and the theorem about it takes either one content or no deadlocks.

`inventory_one_scan` and `evidence_failure` show disagreements between the code
and a document of the repository; `PROJECT.json` quotes the line each time.
Deadlock is checked in every run but `sections`, whose text stops growing at its
bound.

**Fairness.** Only `ScanEnds` needs any. A process that runs is scheduled by the
operating system, so the steps of a scan that is under way are weakly fair
(`ScanProgress`); the rollback is fair only where a unique key forces it.
Nothing makes anyone start a command, and edits, kills and failures are never
fair. Without the loop's `continue` after an error (mutant `HashRaisesAgain`)
the property fails.

### Statements of the documents that the code does not keep

Each is stated beside the model, and TLC finds it violated with the constants of
the run named, changed as said; no run is spent on them.

| statement | where | what the documents say | what happens | to see it |
|---|---|---|---|---|
| `FailuresAreRetried` | `FileLifecycle` | 002 `plan.md:358`: a failure can be run again, NOT_COPIED or COPY_ERROR | a plain batch selects NOT_COPIED only | `vault` |
| `FailureHasManifest` | `ParsedStore` | 007 `plan.md:263`: the error is caught and a FAILED manifest written | a failed conversion leaves no manifest | `parse` |
| `DocumentParserIsManifests` | `Registry` | 006 registry `plan.md:331`: `parser_name` from the manifest | a reconciled MinerU manifest gives a document of markitdown | `registry` |
| `RaisedRunFails` | `Registry` | 006 registry `plan.md:574`: a run that fails is marked FAILED | a registration that raises leaves its run PENDING or RUNNING | `registry` |
| `ForceOverwrites` | `Evidence` | 010 `p3_implementation_gate.md:268`: `--force` recomputes and overwrites | chunks that the new text does not have stay and are served | `evidence_force`, one builder |
| `ReportedIsStored` | `Evidence` | 010 `plan.md:197`: a failure concerns one content, the batch continues | a deadlock undoes the contents before it too, and they stay counted | `evidence_force`, two contents |
| `MappedHasDocument` | `Curated` | 011 `plan.md:232`: a mapping without a `kb_document` is skipped | a `document_uid` given by a manifest is not looked up | `curated`, `Named = TRUE` |
| `CountIsMapped` | `Curated` | 011 `p2_db_review.md:346`: `document_count` is what a join would give | it is the length of the last plan, while older mappings stay | `curated`, two contents |

## 4. Proofs

For any number of paths, contents, texts, scanners, reports, runs, builds,
edits, faults and failures, any subset of the commands, texts of any length and
tables of any size. The assumptions named in the modules (`NPathsAssumption`,
`ContentsAssumption` and so on) say only that the constants are what their
comments say; among them that the contents of `Curated` and the rows of `Search`
are finitely many, as those of a database are. Each invariant and each action
property of a run that passes is proved; `ScanEnds` alone is not.

| theorem | module |
|---|---|
| `InventoryTypeCorrect` | `Inventory_proofs` |
| `RowsKeepToFiles`, `AggregatesConverge`, `ScansOnlyAdvance` | `Inventory_proofs` |
| `TypeCorrect` | `FileLifecycle_proofs` |
| `CopiedContentIsArchived`, `VaultStatusesAgree` | `FileLifecycle_proofs` |
| `CopyKnowledgeIsStable`, `ValidBinIsNeverOverwritten` | `FileLifecycle_proofs` |
| `VaultImplementsArchive` | `FileLifecycle_proofs` |
| `AggregatesStayExact`, `SettledCopiesSucceed`, `SettledGroupsAgree` | `FileLifecycle_proofs` |
| `PipelineTypeCorrect` | `ParsePipeline_proofs` |
| `ParsedContentHasDocument`, `CompletedRunsAreComplete` | `ParsePipeline_proofs` |
| `ManifestsAreTrue`, `FreshReportsAreTrue` | `ParsedTruth_proofs` |
| `RegisteringAgainChangesNothing` | `ParsedTruth_proofs` |
| `DeliveredAreRegistered`, `DeliveredPassTheCheck` | `ParsedTruth_proofs` |
| `TypeCorrect`, `EvidenceKeepsChunk`, `EvidenceIsFeed` | `Evidence_proofs` |
| `ReportedStaysStored`, `RebuiltStaysServed` (no deadlock, or one content) | `Evidence_proofs` |
| `OneTextServed` (no `--force`, no overlap) | `Evidence_proofs` |
| `ReferencesStayStored`, `RowsKeepToFiles`, `ForcedStaysCurrent` | `Curated_proofs` |
| `FeedIsModelled`, `TypeCorrect` | `Curated_proofs` |
| `MappedStayDocumented` (no manifest names a document) | `Curated_proofs` |
| `PathsEnclose`, `EverythingIsQuotedOnce` | `Sections_proofs` |
| `TypeCorrect`, `PagesAreOneRanking`, `TotalIsExact` | `Search_proofs` |

*The convergence of 001.* `RowsFollowFiles` and `TwoScansAreExact` speak of the
ends of scans; `ExactInv` says what is true in the middle of one. An undisturbed
scan runs alone (`CleanIsAlone`) and knows of each path what is there
(`ScanSeesFiles`); behind it the rows are right, and, when all rows were right
before it started, the aggregates are exact (`CleanScan`). This is where two
scans are needed: in the second one `sha256` and status do not change any more,
so the peers that the SELECT sees are all there are (`CommitAggregates`), and a
transaction makes its own content exact and disturbs no other
(`CommitMakesExact`). After that no snapshot is stale (`SettledTxn`): later
scans, overlapping or not, write back what is there already.

*The inductive invariant of 001–003.* `TypeOK` is not inductive: a write is well
typed because the process knows a path or a content in the middle of its work
(`ScanHasFile`, `CopyHasContent`). `CopiedIsArchived` is not inductive either:
`CommitCopy` writes COPIED without looking at the disk, so one has to know that
between the check and the commit the binary is right, the sidecars are written
and the list of instances is not empty (`CopyKnowsBin`); and `OpenFiles`
truncates a file, so one has to know that it is never the file of a COPIED
content, which follows from `bin[cur] # cur` before the write. `LifecycleInv` is
the conjunction. The proof goes once through all steps (`LifecycleStep`), with
the lemma that a scan changes a vault status only in a row that is new
(`ScanKeepsVaultStatus`, where the ORM's column-wise UPDATE and the unique key
matter), and yields the invariant, the action property and the step of the
refinement together. The choices of the code (`ORDER BY ... LIMIT 1`, `min` of
the rules of 003) are shown to be defined by the least-number lemma.

*The settled state.* `ExactInv` looks at no `vault_status` and at no
`duplicate_group_uid` (`SameInst`, `SameContent`), and 002 and 003 write nothing
else into the tables of 001, so it holds beside them (`OtherColumnsExact`,
`ExactStep`): the ORM, which writes back only what it has changed, makes the
stale columns of a snapshot harmless. In a settled state the master of a content
is one of its instances and every readable instance says the truth
(`SettledSource`), so what a copy reads is the content until a file changes
(`CopySourceHolds`); and exactly one instance is no duplicate, so the rule of 003
takes it whatever the names are (`MasterIsOriginal`).

*The inductive invariants of 005–007.* In the store, a parser in the middle of
its work has a content in hand (`ParserHasContent`), and each command that runs
has a place left for its report (`RoomForReports`, a count of commands), without
which the report at the end of a run need not fit. In the registry,
`CompletedRunIsComplete` is not inductive: `FinishRun` looks at the errors and at
the report, never at the results. What makes it true is that an item is taken
off the list either with a result or with an error noted (`ItemsDone`), that
nothing finishes with items to do (`RegistrarHasRun`), and that a report is never
written again (`ReportsStay`), so the items of an old run stay what they were.
A run that is registered again keeps its results, and a parser that works
meanwhile only adds reports (`TablesRest`); these two facts are where
interleaving matters. The proof goes through all steps in `PipelineStep`.

*The truth of the manifests.* The manifest is written last, so what makes it
true is what is known of the files written before it: the verdict of a parser
fits the output it is about to write (`VerdictFits`), and after each file the
directory holds it (`WrittenFits`), except where somebody else has written
there, which `clean` and `torn` say (`TrueSoFar`). For the report the same is
needed of the items already done (`ItemFits`) as long as nothing has touched
their directories (`ReportSoFar`).

*Registering twice, and what is delivered.* An item is `Recorded` when its row,
document and parse status are what registering it would write now; it stays so
until somebody writes its directory or its rows. A report has one run
(`OneRunPerReport`), and the items a registrar is done with are recorded as long
as nothing has touched them (`RecordedSoFar`), so a run that ends well leaves all
items recorded, and one that takes up the same run again writes what is there
(`RepeatIsRecorded`). For a delivery one needs, besides, what `ManifestIsTrue`
does not say of a directory that somebody is about to write while the report
still holds: the content had its original, and the files lie there complete
(`FreshIsSound`, which `DeliversSoFar` prepares item by item). Together they make
tables, files and report agree (`DeliveredFacts`), and the checker silent.

*010.* The tables have one row per uid, and every pending evidence row has its
pending or stored chunk (`TablesInv`); an upsert replaces rows by rows of the
same uid, so what is found by its uid stays found, and the set of uids only
grows: that is the refinement. A build still holds all that it has counted
(`WholeBuilder`) unless a deadlock undoes it, which takes a second content
(`UndoesNothingCounted`): this gives the two theorems about counting and
rebuilding. For builds one after the other the content is skipped exactly when
it has rows, so rows of a second text never reach it (`OneTextInv`).

*011 beside 010.* `Curated` takes of `kb_evidence` any step that `EvidenceFeed`
allows (`FeedIsModelled`), and `Evidence` implements `EvidenceFeed`
(`EvidenceIsFeed`): assumption and guarantee meet in one module. Evidence in a
plan is stored, and stays so (`PlansAreStored`). Rows agree with files because a
build that writes holds the lock (`LockHeld`), so between its write and its
commit nobody else touches the file (`WrittenStays`), a forced build writes
every asset (`ForcedWritesAll`), and nothing is called settled while somebody
writes (`SettledUnlocked`).

*A scan goes on.* `StepsLeft` counts what a scan has before it. The list of files
is made once, and every step takes a file off it or goes on with the file in
hand, errors included (`StepShortens`); an edit or another scan touches only the
history variable `clean` (`EveryoneAdvances`). So the steps of a scan that is
neither killed nor left unscheduled run out: that is all of `ScanEnds` but the
fairness.

*Induction over data.* The induction theorems of the library cannot be used with
these provers. The loops over mappings and over headings, and the places of a
ranking, are done by the least counterexample instead: `LeastNumber` (from the
well-foundedness of `<`) gives the first place at which the claim, or the
recursive function itself, fails, and the place before it refutes that
(`MappedIs`, `StackIs`, `StackShowsEnclosing`).

*010's sections.* `InOrder` lists a finite set of numbers, each once, the smaller
first, and nothing else does (`InOrderLists`, `ListIsInOrder`). What encloses a
heading is what enclosed the one before, without what is not shallower, and the
heading itself (`NextEncloses`); along such a list the levels deepen
(`EnclosingDeepens`), so what the `while` loop pops is exactly its tail
(`UnwindKeeps`), and the stack after each heading shows what encloses it
(`StackShowsEnclosing`). For the quotations: a line from the first heading on
stands between one heading and the next and nowhere else (`OneSection`), and
stripping takes away no inked line (`StripKeepsInk`).

*011's tables.* `kb_project_document` keeps one row per content: an upsert
replaces the row or appends one, so the rows do not repeat (`UpsertedIs`,
`MappedIs`) and are no more than the contents (`RowsAreFew`), which is what
`document_count` needs to stay in its type. A document row is never withdrawn,
and a build maps only contents that had one when it looked, so its mappings keep
their documents (`DocumentsStep`). This needs `Named = FALSE`: a `document_uid`
that a manifest gives is not looked up (see the table of section 3).

*012.* In a strict order each row has a place of its own, and the places are
`1..n`; so a ranking gives every row once. A row among the first *n* of all is
among the first *n* of its own scope (`BestOfPart`), hence `FetchCap` rows of each
scope are enough to cut the page from (`BestIsEnough`): this is the fact that the
merge relies on, and that fails when only `limit` rows are asked for. `SearchInv`
carries it over the pages of a listing (`PageAdds`). The total is a sum over
scopes that share no row (`SumOfFive`).

*Left to TLC.* The liveness property `ScanEnds`, because `WF_` needs `ENABLED`,
which is out of the prover's reach; and the statements of the table in section 3,
which do not hold.

## 5. What is not modelled

- 009 reads one JSON report, filters it and counts in one pass: it keeps no
  state, calls nothing and runs beside nobody. 013 shows SELECTs. 004 writes a
  report of what `route` says and changes nothing else.
- `retry_of_result_id` (no service reads it); image files of 007; dry runs,
  which write only reports; the check codes of 008 for temporary paths and for a
  missing directory; page chunks of 010, for which no adapter writes the list of
  pages.
- Clocks: report names carry seconds, so two commands in one second share a
  file; reports are numbered here. `created_at, id` is an id.
- A change of `pipeline_version` between runs: a constant here, although the
  unique key of `kb_document` ignores it (see the hazards). What one item suffers
  from it is `IngestFails`; that it suffers it every time is not modelled.
- Two `copy-to-vault`, two registrars or two `govern-duplicates` at once. Two
  scans, the two parsers, two builds of 010 and two of 011 do overlap.
- One item of 003 or 006 is one step: its transaction reads one snapshot and
  nobody else writes the columns it writes. So is one content of 010, whose
  writes nobody sees before the commit.
- A change of route by a rescan is free (`Reroute`), not tied to `Inventory`;
  the texts and results that 010 finds are free, not tied to `ParsePipeline`.
- 007 may replace the SUCCESS outputs of 005 after a change of route, which
  007's plan forbids; `ParsedStore` models what the code does.

## 6. Plan

1. *(done)* 001–003 over shared tables, the vault's refinement and its proofs;
   005–007 with the registry and the checker.
2. *(done)* 010, 011 and 012, with `EvidenceFeed` between 010 and its readers;
   the convergence of 001 and the truth of manifests and reports proved.
3. A second copier in `Vault`, a change of `pipeline_version` in `Registry`.
4. *(done)* Idempotent registration, the two properties of a delivery and the
   two of a settled state proved.
5. *(done)* The sections of 010, the types and mappings of 011 and the pages of
   012 proved; of `ScanEnds`, that a scan only advances.
