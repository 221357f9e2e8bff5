------------------------------ MODULE Evidence ------------------------------
(***************************************************************************)
(* Spec 010, services/evidence_chain.py: build-evidence-chain reads the    *)
(* parsed text of each registered content, cuts it into chunks and upserts *)
(* one kb_document_chunk and one kb_evidence per chunk.  A build is one    *)
(* transaction: what it has upserted is visible to nobody before it        *)
(* commits, so everything it does for one content is one step here; and    *)
(* what it has not seen when it started it does not see later (REPEATABLE  *)
(* READ, the default of MySQL, which core/database.py leaves alone).       *)
(*                                                                         *)
(* A row of either table is a section of a text with its content and its   *)
(* chunk_index.  The document_uid of a content is that content, as 006     *)
(* makes it.  Left out: page chunks, since no adapter of 005 or 007 writes *)
(* a page list, and --dry-run, which changes nothing.                      *)
(***************************************************************************)
EXTENDS Sections

CONSTANTS
  Contents,    \* the contents that may be parsed
  Texts,       \* the texts that a parsed_text.md may hold
  Builders,    \* the build-evidence-chain commands
  Forces,      \* the values given for --force
  Limits,      \* the values given for --limit; 0: none
  Overlap,     \* TRUE: two builds may run at the same time
  Failures,    \* what the database may do to a statement
  MaxResults,  \* bound on rows of kb_parse_result
  None         \* no file, or no text

ASSUME TextsAssumption ==
  Texts # {} /\ Texts \subseteq Seq([level : Nat, words : STRING])
ASSUME ForcesAssumption == Forces \subseteq BOOLEAN
ASSUME LimitsAssumption == Limits \subseteq Nat
ASSUME OverlapAssumption == Overlap \in BOOLEAN
ASSUME FailuresAssumption == Failures \subseteq {"error", "deadlock"}
ASSUME MaxResultsAssumption == MaxResults \in Nat
ASSUME NoneAssumption == None \notin Texts

VARIABLES
  parsed,     \* parsed[s]: the parsed directory of s
  results,    \* the rows of kb_parse_result, by id
  chunks,     \* kb_document_chunk
  evidence,   \* kb_evidence
  builder,    \* builder[b]: the command b
  reported,   \* history: what builds that committed counted as processed
  rebuilt     \* rebuilt[s], history: the text of the last forced build of s,
              \* as long as nothing has touched s since, or None

vars == <<parsed, results, chunks, evidence, builder, reported, rebuilt>>

ParsedDir == [ text  : Texts \cup {None},
               state : {"whole", "no manifest", "bad json"} ]

Result == [content : Contents, usable : BOOLEAN]  \* SUCCESS or EMPTY

\* The chunks of text t of content s.
PlannedRows(s, t) ==
  LET sections == SplitSections(t) IN
  { [ content |-> s, index |-> k - 1, body |-> sections[k].body,
      start |-> sections[k].start, stop |-> sections[k].stop,
      path |-> sections[k].path ] : k \in DOMAIN sections }

Rows == UNION {PlannedRows(s, t) : s \in Contents, t \in Texts}

\* The payloads that _chunk_uid and _evidence_uid hash.
ChunkUid(row) == <<row.content, row.index, row.body>>

EvidenceUid(row) == <<ChunkUid(row), row.start, row.stop>>

Uids == {EvidenceUid(row) : row \in Rows}

Builder == [ pc        : {"idle", "build", "undone"},
             force     : BOOLEAN,
             todo      : SUBSET Nat,        \* the ids of the results taken
             seen      : SUBSET Contents,   \* those with chunks in the snapshot
             chunks    : SUBSET Rows,       \* upserted, not yet committed
             evidence  : SUBSET Rows,
             processed : SUBSET (Contents \X Texts) ]

IdleBuilder == [pc |-> "idle", force |-> FALSE, todo |-> {}, seen |-> {},
                chunks |-> {}, evidence |-> {}, processed |-> {}]

TypeOK ==
  /\ parsed \in [Contents -> ParsedDir]
  /\ results \in Seq(Result)
  /\ chunks \subseteq Rows
  /\ evidence \subseteq Rows
  /\ \A c, d \in chunks : ChunkUid(c) = ChunkUid(d) => c = d
  /\ \A d, e \in evidence : EvidenceUid(d) = EvidenceUid(e) => d = e
  /\ builder \in [Builders -> Builder]
  /\ \A b \in Builders : builder[b].todo \subseteq DOMAIN results
  /\ reported \subseteq Contents \X Texts
  /\ rebuilt \in [Contents -> Texts \cup {None}]

Init ==
  /\ parsed = [s \in Contents |-> [text |-> None, state |-> "no manifest"]]
  /\ results = <<>>
  /\ chunks = {}
  /\ evidence = {}
  /\ builder = [b \in Builders |-> IdleBuilder]
  /\ reported = {}
  /\ rebuilt = [s \in Contents |-> None]
-----------------------------------------------------------------------------
\* 005 and 007 replace the files of s; an interrupted one leaves no manifest,
\* or a JSON file cut short.
WriteParsed(s, dir) ==
  /\ dir # parsed[s]
  /\ parsed' = [parsed EXCEPT ![s] = dir]
  /\ rebuilt' = [rebuilt EXCEPT ![s] = None]
  /\ UNCHANGED <<results, chunks, evidence, builder, reported>>

\* 006 registers what it finds; a FAILED or SKIPPED result is not usable.
RegisterResult(s, usable) ==
  /\ Len(results) < MaxResults
  /\ usable => parsed[s].text # None /\ parsed[s].state = "whole"
  /\ results' = Append(results, [content |-> s, usable |-> usable])
  /\ UNCHANGED <<parsed, chunks, evidence, builder, reported, rebuilt>>
-----------------------------------------------------------------------------
\* _load_candidates: the newest results, of which the newest of each content
\* counts; the limit is applied before that.
Candidates(targets, limit) ==
  LET rows == {i \in DOMAIN results :
                 results[i].usable /\ results[i].content \in targets}
      taken == {i \in rows :
                  limit = 0 \/ Cardinality({j \in rows : j > i}) < limit}
  IN {i \in taken :
        \A j \in taken : j > i => results[j].content # results[i].content}

ContentsOf(rows) == {row.content : row \in rows}

StartBuild(b, targets, force, limit) ==
  /\ builder[b].pc = "idle"
  /\ Overlap \/ \A c \in Builders : builder[c].pc = "idle"
  /\ builder' = [builder EXCEPT ![b] =
       [IdleBuilder EXCEPT !.pc = "build", !.force = force,
                           !.todo = Candidates(targets, limit),
                           !.seen = ContentsOf(chunks)]]
  /\ UNCHANGED <<parsed, results, chunks, evidence, reported, rebuilt>>

\* Mutant: a plain INSERT, and no UNIQUE key that would refuse it.
InsertChunks(old, new) == old \cup new

\* Mutant: the row that is there already is kept.
KeepChunks(old, new) ==
  old \cup {d \in new : \A c \in old : ChunkUid(d) # ChunkUid(c)}

\* ON DUPLICATE KEY UPDATE
UpsertChunks(old, new) ==
  {c \in old : \A d \in new : ChunkUid(d) # ChunkUid(c)} \cup new

\* Mutant: the evidence of the contents that are built is deleted first.
ReplaceEvidence(old, new) ==
  {e \in old : e.content \notin ContentsOf(new)} \cup new

UpsertEvidence(old, new) ==
  {e \in old : \A d \in new : EvidenceUid(d) # EvidenceUid(e)} \cup new

\* s, of result i, is the next content of build b: newest result first.
Turn(b, i, s) ==
  /\ builder[b].pc = "build"
  /\ i \in builder[b].todo
  /\ \A j \in builder[b].todo : j <= i
  /\ s = results[i].content

\* Mutant: a content is skipped only if this build has upserted it already.
SkippedAfterwards(b, s) ==
  ~builder[b].force /\ s \in ContentsOf(builder[b].chunks)

\* _has_existing_chunks
Skipped(b, s) == ~builder[b].force /\ s \in builder[b].seen

\* Without both files, with JSON that does not parse or with a blank text there
\* is nothing to plan.
Plannable(s) ==
  parsed[s].text # None /\ parsed[s].state = "whole"
    /\ SplitSections(parsed[s].text) # <<>>

\* The service goes on with the next content, whatever has become of this one.
NextContent(b, i, pending) ==
  /\ builder' = [builder EXCEPT ![b] = [pending EXCEPT !.todo = @ \ {i}]]
  /\ UNCHANGED <<parsed, results, chunks, evidence, reported, rebuilt>>

\* _process_candidate returns False, or an exception is logged, before the
\* first statement that writes.
SkipContent(b, i, s) ==
  /\ Turn(b, i, s)
  /\ Skipped(b, s) \/ ~Plannable(s)
  /\ NextContent(b, i, builder[b])

Upserted(b, chunkRows, evidenceRows) ==
  [builder[b] EXCEPT !.chunks = UpsertChunks(@, chunkRows),
                     !.evidence = UpsertEvidence(@, evidenceRows)]

BuildContent(b, i, s) ==
  LET rows == PlannedRows(s, parsed[s].text)
  IN /\ Turn(b, i, s) /\ ~Skipped(b, s) /\ Plannable(s)
     /\ NextContent(b, i, [Upserted(b, rows, rows) EXCEPT
                             !.processed = @ \cup {<<s, parsed[s].text>>}])

\* Mutant: each chunk is followed by its evidence, which comes first.
UpsertedFirst(n, rows) ==
  [chunks   |-> {row \in rows : row.index < n},
   evidence |-> {row \in rows : row.index <= n}]

\* The rows that the first n statements have upserted: chunks, then evidence.
UpsertedBy(n, rows) ==
  [chunks   |-> {row \in rows : row.index < n},
   evidence |-> {row \in rows : row.index + Cardinality(rows) < n}]

\* A statement fails after n others (a heading path, for instance, that is
\* longer than source_location) and the exception is logged: MySQL undoes that
\* statement only.
StatementFails(b, i, s, n) ==
  LET rows == PlannedRows(s, parsed[s].text)
      done == UpsertedBy(n, rows)
  IN /\ "error" \in Failures
     /\ Turn(b, i, s) /\ ~Skipped(b, s) /\ Plannable(s)
     /\ n < 2 * Cardinality(rows)
     /\ NextContent(b, i, Upserted(b, done.chunks, done.evidence))

\* A deadlock with another build: MySQL undoes the whole transaction.
DeadlockVictim(b, i, s) ==
  /\ "deadlock" \in Failures
  /\ Turn(b, i, s) /\ ~Skipped(b, s) /\ Plannable(s)
  /\ \E c \in Builders \ {b} : builder[c].chunks # {}
  /\ NextContent(b, i, [builder[b] EXCEPT !.pc = "undone",
                                          !.chunks = {}, !.evidence = {}])

\* The session goes on in a new transaction, with a snapshot of its own.
BeginAgain(b) ==
  /\ builder[b].pc = "undone"
  /\ builder' = [builder EXCEPT ![b] =
       [builder[b] EXCEPT !.pc = "build", !.seen = ContentsOf(chunks)]]
  /\ UNCHANGED <<parsed, results, chunks, evidence, reported, rebuilt>>

CommitBuild(b) ==
  LET me == builder[b]
      touched == ContentsOf(me.chunks)
  IN /\ me.pc = "build" /\ me.todo = {}
     /\ chunks' = UpsertChunks(chunks, me.chunks)
     /\ evidence' = UpsertEvidence(evidence, me.evidence)
     /\ builder' = [builder EXCEPT ![b] = IdleBuilder]
     /\ reported' = reported \cup me.processed
     /\ rebuilt' = [s \in Contents |->
          IF me.force /\ <<s, parsed[s].text>> \in me.processed
          THEN parsed[s].text
          ELSE IF s \in touched THEN None
          ELSE rebuilt[s]]
     /\ UNCHANGED <<parsed, results>>

\* Without its commit the transaction is rolled back.
KillBuild(b) ==
  /\ builder[b].pc # "idle"
  /\ builder' = [builder EXCEPT ![b] = IdleBuilder]
  /\ UNCHANGED <<parsed, results, chunks, evidence, reported, rebuilt>>
-----------------------------------------------------------------------------
Environment ==
  \E s \in Contents :
    \/ \E dir \in ParsedDir : WriteParsed(s, dir)
    \/ \E usable \in BOOLEAN : RegisterResult(s, usable)

BuilderStep(b) ==
  \/ \E targets \in {Contents} \cup {{s} : s \in Contents}, force \in Forces,
        limit \in Limits : StartBuild(b, targets, force, limit)
  \/ \E i \in DOMAIN results, s \in Contents :
       \/ SkipContent(b, i, s)
       \/ BuildContent(b, i, s)
       \/ \E n \in 0..(2 * Cardinality(Rows)) : StatementFails(b, i, s, n)
       \/ DeadlockVictim(b, i, s)
  \/ BeginAgain(b)
  \/ CommitBuild(b)
  \/ KillBuild(b)

Next == Environment \/ \E b \in Builders : BuilderStep(b)

Spec == Init /\ [][Next]_vars
-----------------------------------------------------------------------------
\* Every evidence row leads to its chunk, although no foreign key says so and
\* whatever a failed statement, a deadlock or a kill has undone.
EvidenceHasChunk ==
  \A e \in evidence : \E c \in chunks : ChunkUid(c) = ChunkUid(e)

\* With builds one after the other and never forced, all that is served of a
\* content comes from one and the same text, however often it is parsed again.
OneTextPerContent ==
  \A s \in Contents : \E t \in Texts :
    \A row \in chunks \cup evidence :
      row.content = s => row \in PlannedRows(s, t)

\* What a build that committed has counted in documents_processed can be found
\* by its uids ever after, whatever other builds have done meanwhile.
ReportedIsStored ==
  \A done \in reported : \A row \in PlannedRows(done[1], done[2]) :
    /\ \E c \in chunks : ChunkUid(c) = ChunkUid(row)
    /\ \E e \in evidence : EvidenceUid(e) = EvidenceUid(row)

\* After a forced build, the chunks and the evidence of the text on the disk
\* are served with their offsets and heading paths of today.
RebuiltIsServed ==
  \A s \in Contents :
    rebuilt[s] # None => PlannedRows(s, rebuilt[s]) \subseteq chunks \cap evidence

\* A chunk that is served has its evidence.
ChunkHasEvidence ==
  \A c \in chunks : \E e \in evidence : ChunkUid(e) = ChunkUid(c)

\* "Recompute and upsert-overwrite": after a forced build, nothing else is
\* served of the content.
ForceOverwrites ==
  \A s \in Contents :
    rebuilt[s] # None =>
      {row \in chunks : row.content = s} = PlannedRows(s, rebuilt[s])

Feed == INSTANCE EvidenceFeed
          WITH stored <- {EvidenceUid(e) : e \in evidence}

\* 010 implements what 011 and 012 rely on: no evidence_uid is ever withdrawn.
FeedOnlyGrows == Feed!Spec
=============================================================================
