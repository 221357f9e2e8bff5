------------------------------ MODULE Curated -------------------------------
(***************************************************************************)
(* Spec 011, services/curated_project_assets.py: build-curated-project     *)
(* maps documents to a project, renders three Markdown files from the      *)
(* rows of kb_document and kb_evidence, and records the files in           *)
(* kb_curated_asset.  One project: what is keyed by its project_uid or     *)
(* stands in its directory concerns no other.                              *)
(*                                                                         *)
(* A build reads from the snapshot of its transaction, writes the files    *)
(* one after the other and commits all its rows at the end.  Its first     *)
(* write is the row of kb_project, whose lock InnoDB (external) keeps      *)
(* until the commit: a second build of the project plans meanwhile, and    *)
(* waits before it writes.  Names, titles and --dry-run are left out.      *)
(***************************************************************************)
EXTENDS SequencesExt

CONSTANTS
  Contents,    \* the contents that may be mapped
  MaxEvidence, \* bound on the evidence rows of a content
  Builders,    \* the build-curated-project commands
  Forces,      \* the values given for --force
  MaxEntries,  \* bound on the entries of a manifest
  Named,       \* TRUE: a manifest may give the document_uid of an entry
  None         \* no row, or nothing yet

Assets  == <<"project_card", "evidence_index", "source_documents">>
Parsers == {"markitdown", "mineru"}

ASSUME ContentsAssumption == IsFiniteSet(Contents)
ASSUME MaxEvidenceAssumption == MaxEvidence \in Nat
ASSUME ForcesAssumption == Forces \subseteq BOOLEAN
ASSUME MaxEntriesAssumption == MaxEntries \in Nat
ASSUME NamedAssumption == Named \in BOOLEAN
ASSUME NoneAssumption == None \notin Builders \cup Parsers

VARIABLES
  stored,     \* the evidence_uids in kb_evidence, a list that 010 makes longer
  document,   \* document[s]: the parser_name in the kb_document of s, or None
  project,    \* kb_project.document_count, or None without a row
  mapped,     \* the contents in kb_project_document, by id
  asset,      \* asset[a]: the kb_curated_asset
  file,       \* file[a]: the Markdown file
  lock,       \* the build that holds the row of the project, or None
  builder,    \* builder[b]: the command b
  doubtful,   \* history: files that a build wrote and did not commit
  settled     \* history: the plan of the last build, if it was forced and as
              \* long as nothing it depends on or has written changes, or None

rowVars == <<project, mapped, asset>>
vars == <<stored, document, rowVars, file, lock, builder, doubtful, settled>>

Uid == [content : Contents, n : 1..MaxEvidence]

Feed == INSTANCE EvidenceFeed WITH Uids <- Uid

(***************************************************************************)
(* A plan is all that the files are rendered from: the documents in order, *)
(* as the project counts them, their parsers, and the evidence.            *)
(***************************************************************************)
MaxDocs == Max({MaxEntries, Cardinality(Contents)})

Plan == [ docs     : BoundedSeq(Contents, MaxDocs),
          parsers  : [Contents -> Parsers \cup {None}],
          evidence : SUBSET Uid ]

NoFile   == [is |-> "absent"]
TornFile == [is |-> "torn"]      \* cut short by the death of its writer

\* What a file shows of a plan.
Render(a, plan) ==
  CASE a = "project_card"     -> [is |-> "whole", docs |-> plan.docs]
    [] a = "evidence_index"   -> [is |-> "whole", evidence |-> plan.evidence]
    [] a = "source_documents" ->
         [is |-> "whole", docs |-> plan.docs,
          parsers |-> [i \in DOMAIN plan.docs |-> plan.parsers[plan.docs[i]]]]

\* The kb_curated_asset of a plan: its status and the related_*_uids.
AssetRow(a, plan) ==
  [ status   |-> IF a = "evidence_index" /\ plan.evidence = {} THEN "SKIPPED"
                 ELSE "SUCCESS",
    contents |-> ToSet(plan.docs),
    evidence |-> plan.evidence ]

Row == [ status   : {"SUCCESS", "SKIPPED"},
         contents : SUBSET Contents,
         evidence : SUBSET Uid ]

Builder == [ pc      : {"idle", "planned", "writing"},
             force   : BOOLEAN,
             plan    : Plan \cup {None},
             seen    : SUBSET ToSet(Assets),   \* SUCCESS in the snapshot
             todo    : BoundedSeq(ToSet(Assets), Len(Assets)),
             pending : SUBSET ToSet(Assets) ]  \* upserted, not committed

IdleBuilder == [pc |-> "idle", force |-> FALSE, plan |-> None, seen |-> {},
                todo |-> <<>>, pending |-> {}]

TypeOK ==
  /\ stored \subseteq Uid
  /\ document \in [Contents -> Parsers \cup {None}]
  /\ project \in 1..MaxDocs \cup {None}
  /\ mapped \in BoundedSeq(Contents, Cardinality(Contents))
  /\ asset \in [ToSet(Assets) -> Row \cup {None}]
  /\ \A a \in ToSet(Assets) :
       file[a] \in {NoFile, TornFile} \cup {Render(a, plan) : plan \in Plan}
  /\ lock \in Builders \cup {None}
  /\ builder \in [Builders -> Builder]
  /\ doubtful \subseteq ToSet(Assets)
  /\ settled \in Plan \cup {None}

Init ==
  /\ stored = {}
  /\ document \in [Contents -> Parsers \cup {None}]
  /\ project = None
  /\ mapped = <<>>
  /\ asset = [a \in ToSet(Assets) |-> None]
  /\ file = [a \in ToSet(Assets) |-> NoFile]
  /\ lock = None
  /\ builder = [b \in Builders |-> IdleBuilder]
  /\ doubtful = {}
  /\ settled = None
-----------------------------------------------------------------------------
\* 010 commits evidence rows.  What is relied on here is what it is shown to
\* implement, and no more.
EvidenceStored(uids) ==
  /\ ~(uids \subseteq stored)
  /\ stored' = stored \cup uids
  /\ Feed!Next
  /\ settled' = None
  /\ UNCHANGED <<document, rowVars, file, lock, builder, doubtful>>

\* 006 registers the document of s, or another parser of it.
RegisterDocument(s, p) ==
  /\ document[s] # p
  /\ document' = [document EXCEPT ![s] = p]
  /\ settled' = None
  /\ UNCHANGED <<stored, rowVars, file, lock, builder, doubtful>>
-----------------------------------------------------------------------------
\* Mutant: like 010, take the content for a document that is not there.
Assumed(s) == TRUE

\* An entry of a manifest that gives no document_uid is dropped if its content
\* has no kb_document; one that does is taken at its word.
Resolved(s) == Named \/ document[s] # None

\* A manifest names any contents in any order, so what is left of it is any
\* list of contents that are not dropped.
FromManifest == BoundedSeq({s \in Contents : Resolved(s)}, MaxEntries)

\* _resolve_document_mappings: from a manifest, from --content-uid, or from the
\* rows of earlier builds.  --limit cuts the end off.
Mappings ==
  FromManifest
    \cup {<<s>> : s \in {s \in Contents : document[s] # None}}
    \cup {SubSeq(mapped, 1, n) : n \in 1..Len(mapped)}

\* Mutant: the evidence_uids are computed from the documents, not read.
DerivedPlan(docs) ==
  [ docs     |-> docs,
    parsers  |-> [s \in Contents |-> IF s \in ToSet(docs) THEN document[s]
                                     ELSE None],
    evidence |-> [content : ToSet(docs), n : 1..MaxEvidence] ]

\* _load_documents, _load_evidence and _plan_assets
NewPlan(docs) ==
  [ docs     |-> docs,
    parsers  |-> [s \in Contents |-> IF s \in ToSet(docs) THEN document[s]
                                     ELSE None],
    evidence |-> {u \in stored : u.content \in ToSet(docs)} ]

Recorded ==
  {a \in ToSet(Assets) : asset[a] # None /\ asset[a].status = "SUCCESS"}

\* Up to here a build only reads; without a mapping it raises.
PlanBuild(b, docs, force) ==
  /\ builder[b].pc = "idle"
  /\ docs # <<>>
  /\ builder' = [builder EXCEPT ![b] =
       [IdleBuilder EXCEPT !.pc = "planned", !.force = force,
          !.plan = NewPlan(docs), !.seen = Recorded, !.todo = Assets]]
  /\ UNCHANGED <<stored, document, rowVars, file, lock, doubtful, settled>>

\* Mutant: the row of kb_project is upserted last, just before the commit.
BeginWithoutLock(b) ==
  /\ builder[b].pc = "planned"
  /\ builder' = [builder EXCEPT ![b].pc = "writing"]
  /\ settled' = None
  /\ UNCHANGED <<stored, document, rowVars, file, lock, doubtful>>

\* _upsert_project waits for the row, and then holds it.
BeginWriting(b) ==
  /\ builder[b].pc = "planned"
  /\ lock = None
  /\ lock' = b
  /\ builder' = [builder EXCEPT ![b].pc = "writing"]
  /\ settled' = None
  /\ UNCHANGED <<stored, document, rowVars, file, doubtful>>

\* Mutant: the check of --force is lost.
SkipUnforced(b, a) == a \in builder[b].seen /\ file[a] # NoFile

\* _should_skip_asset: the row as the snapshot has it, the file as it is now.
SkipAsset(b, a) ==
  ~builder[b].force /\ a \in builder[b].seen /\ file[a] # NoFile

Writing(b) == builder[b].pc = "writing" /\ builder[b].todo # <<>>

\* _write_asset
WriteAsset(b) ==
  LET a == Head(builder[b].todo)
      plan == builder[b].plan
  IN /\ Writing(b)
     /\ IF SkipAsset(b, a)
        THEN /\ builder' = [builder EXCEPT ![b].todo = Tail(@)]
             /\ UNCHANGED <<file, doubtful>>
        ELSE /\ builder' = [builder EXCEPT ![b].todo = Tail(@),
                              ![b].pending = @ \cup {a}]
             /\ file' = [file EXCEPT ![a] = Render(a, plan)]
             /\ doubtful' = doubtful \cup {a}
     /\ UNCHANGED <<stored, document, rowVars, lock, settled>>

\* Mutant: the rows are inserted, not upserted.
MappedAgain(docs) == mapped \o docs

\* _upsert_project_document adds rows and withdraws none.
Mapped(docs) ==
  LET rows[i \in 0..Len(docs)] ==
        IF i = 0 THEN mapped
        ELSE IF docs[i] \in ToSet(rows[i - 1]) THEN rows[i - 1]
        ELSE Append(rows[i - 1], docs[i])
  IN rows[Len(docs)]

CommitBuild(b) ==
  LET plan == builder[b].plan
      pending == builder[b].pending
  IN /\ builder[b].pc = "writing" /\ builder[b].todo = <<>>
     /\ project' = Len(plan.docs)
     /\ mapped' = Mapped(plan.docs)
     /\ asset' = [a \in ToSet(Assets) |-> IF a \in pending
                                          THEN AssetRow(a, plan) ELSE asset[a]]
     /\ doubtful' = doubtful \ pending
     /\ settled' = IF builder[b].force /\ plan = NewPlan(plan.docs) THEN plan
                   ELSE None
     /\ lock' = None
     /\ builder' = [builder EXCEPT ![b] = IdleBuilder]
     /\ UNCHANGED <<stored, document, file>>

\* The build is killed, or a statement or a write raises: all its rows are
\* rolled back, the files that it has written stay, and the one that it was
\* writing may be cut short.
AbortBuild(b, cut) ==
  LET a == Head(builder[b].todo) IN
  /\ builder[b].pc # "idle"
  /\ cut => Writing(b) /\ ~SkipAsset(b, a)
  /\ file' = IF cut THEN [file EXCEPT ![a] = TornFile] ELSE file
  /\ doubtful' = IF cut THEN doubtful \cup {a} ELSE doubtful
  /\ lock' = IF lock = b THEN None ELSE lock
  /\ builder' = [builder EXCEPT ![b] = IdleBuilder]
  /\ UNCHANGED <<stored, document, rowVars, settled>>
-----------------------------------------------------------------------------
Environment ==
  \/ \E uids \in SUBSET Uid : EvidenceStored(uids)
  \/ \E s \in Contents, p \in Parsers : RegisterDocument(s, p)

BuilderStep(b) ==
  \/ \E docs \in Mappings, force \in Forces : PlanBuild(b, docs, force)
  \/ BeginWriting(b)
  \/ WriteAsset(b)
  \/ CommitBuild(b)
  \/ \E cut \in BOOLEAN : AbortBuild(b, cut)

Next == Environment \/ \E b \in Builders : BuilderStep(b)

Spec == Init /\ [][Next]_vars
-----------------------------------------------------------------------------
\* What the row of asset a relates to is what its file shows.
Agrees(a) ==
  /\ file[a].is = "whole"
  /\ a = "project_card" => ToSet(file[a].docs) = asset[a].contents
  /\ a = "evidence_index" => file[a].evidence = asset[a].evidence
  /\ a = "source_documents" => ToSet(file[a].docs) = asset[a].contents

\* Each recorded asset is there and shows what its related_*_uids say, however
\* two builds have overlapped, unless a build has rewritten the file and not
\* yet committed, or died before it did.
RowsMatchFiles ==
  \A a \in ToSet(Assets) \ doubtful : asset[a] # None => Agrees(a)

\* Specs 011, G007, and 012 follow evidence_uids from a row or from the index
\* to kb_evidence: the evidence is there, although 010 builds it again at any
\* time and nothing but its uid protects it.
ReferencesAreStored ==
  /\ \A a \in ToSet(Assets) : asset[a] # None => asset[a].evidence \subseteq stored
  /\ file["evidence_index"].is = "whole" =>
       file["evidence_index"].evidence \subseteq stored

\* What a forced build leaves, as long as its inputs stay and nobody else
\* writes, is its plan: three files, three rows, and the count.
ForcedBuildIsCurrent ==
  settled # None =>
    /\ project = Len(settled.docs)
    /\ \A a \in ToSet(Assets) :
         /\ file[a] = Render(a, settled)
         /\ asset[a] = AssetRow(a, settled)

\* plan.md: a mapping without a kb_document is skipped.
MappedHasDocument ==
  \A s \in ToSet(mapped) : document[s] # None

\* p2_db_review.md: document_count is the number that a join with
\* kb_project_document gives.
CountIsMapped ==
  project # None => project = Len(mapped)
=============================================================================
