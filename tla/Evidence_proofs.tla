-------------------------- MODULE Evidence_proofs ---------------------------
(***************************************************************************)
(* Theorems about Evidence, for any contents, texts, builds and limits.    *)
(*                                                                         *)
(* All rest on two facts.  The rows planned for a text have different      *)
(* indexes, so a text never overwrites its own rows.  And an upsert loses  *)
(* no uid: the row of an old uid is kept or replaced by one of the same.   *)
(***************************************************************************)
EXTENDS Evidence, TLAPS, FiniteSetTheorems

-----------------------------------------------------------------------------
(***************************************************************************)
(* The rows of a text.                                                     *)
(***************************************************************************)
LEMMA TupleLength ==
  ASSUME NEW S, NEW n \in Nat, NEW seq \in [1..n -> S]
  PROVE  seq \in Seq(S) /\ Len(seq) = n
<1>1. seq \in Seq(S)
  OBVIOUS
<1>2. Len(seq) \in Nat /\ DOMAIN seq = 1..Len(seq)
  BY <1>1
<1> QED
  BY <1>1, <1>2

LEMMA SectionsFinite ==
  ASSUME NEW t \in Texts
  PROVE  \E n \in Nat : DOMAIN SplitSections(t) = 1..n
<1> DEFINE marks == {i \in 1..Len(t) : IsHeading(t[i])}
           heads == Headings(t)
           n == Cardinality(marks)
           Spots == {heads[k] : k \in 1..n}
<1>1. Len(t) \in Nat
  BY TextsAssumption
<1>2. n \in Nat
  <2>1. IsFiniteSet(1..Len(t))
    BY <1>1, FS_Interval
  <2> QED
    BY <2>1, FS_Subset, FS_CardinalityType
<1>3. DOMAIN heads = 1..n /\ heads \in [1..n -> Spots]
  BY DEF Headings, InOrder
<1>4. heads \in Seq(Spots) /\ Len(heads) = n
  BY <1>2, <1>3, TupleLength
<1>5. CASE heads # <<>>
  <2>1. DOMAIN SplitSections(t) = 1..Len(heads)
    BY <1>5 DEF SplitSections
  <2> QED
    BY <2>1, <1>4, <1>2
<1>6. CASE heads = <<>> /\ Strip(t) = <<>>
  <2>1. SplitSections(t) = <<>>
    BY <1>6 DEF SplitSections
  <2>2. DOMAIN SplitSections(t) = 1..0
    BY <2>1
  <2> QED
    BY <2>2
<1>7. CASE heads = <<>> /\ Strip(t) # <<>>
  <2>1. DOMAIN SplitSections(t) = 1..1
    BY <1>7 DEF SplitSections
  <2> QED
    BY <2>1
<1> QED
  BY <1>5, <1>6, <1>7

LEMMA PlannedRowsOf ==
  ASSUME NEW s, NEW t \in Texts
  PROVE  /\ \A c \in PlannedRows(s, t) : c.content = s /\ c.index \in Int
         /\ \A c, d \in PlannedRows(s, t) : c.index = d.index => c = d
<1> DEFINE sections == SplitSections(t)
           RowAt(k) == [ content |-> s, index |-> k - 1, body |-> sections[k].body,
                         start |-> sections[k].start, stop |-> sections[k].stop,
                         path |-> sections[k].path ]
<1>1. DOMAIN sections \subseteq Int
  BY SectionsFinite
<1>2. PlannedRows(s, t) = {RowAt(k) : k \in DOMAIN sections}
  BY DEF PlannedRows
<1>3. \A k \in DOMAIN sections : RowAt(k).content = s /\ RowAt(k).index = k - 1
  OBVIOUS
<1> HIDE DEF RowAt, sections
<1>4. ASSUME NEW c \in PlannedRows(s, t)
      PROVE  c.content = s /\ c.index \in Int
  BY <1>1, <1>2, <1>3
<1>5. ASSUME NEW c \in PlannedRows(s, t), NEW d \in PlannedRows(s, t),
             c.index = d.index
      PROVE  c = d
  <2>1. PICK k \in DOMAIN sections : c = RowAt(k)
    BY <1>2
  <2>2. PICK j \in DOMAIN sections : d = RowAt(j)
    BY <1>2
  <2>3. k - 1 = j - 1
    BY <2>1, <2>2, <1>3, <1>5
  <2>4. k = j
    BY <2>3, <1>1
  <2> QED
    BY <2>1, <2>2, <2>4
<1> QED
  BY <1>4, <1>5

LEMMA PlannedRowsCounted ==
  ASSUME NEW s, NEW t \in Texts
  PROVE  Cardinality(PlannedRows(s, t)) \in Nat
<1> DEFINE sections == SplitSections(t)
           RowAt(k) == [ content |-> s, index |-> k - 1, body |-> sections[k].body,
                         start |-> sections[k].start, stop |-> sections[k].stop,
                         path |-> sections[k].path ]
           row == [k \in DOMAIN sections |-> RowAt(k)]
<1>1. IsFiniteSet(DOMAIN sections)
  BY SectionsFinite, FS_Interval
<1>2. PlannedRows(s, t) = {row[k] : k \in DOMAIN sections}
  BY DEF PlannedRows
<1>3. row \in Surjection(DOMAIN sections, PlannedRows(s, t))
  BY <1>2 DEF Surjection
<1>4. IsFiniteSet(PlannedRows(s, t))
  BY <1>1, <1>3, FS_Surjection
<1> QED
  BY <1>4, FS_CardinalityType

LEMMA PlannedAreRows ==
  ASSUME NEW s \in Contents, NEW t \in Texts
  PROVE  PlannedRows(s, t) \subseteq Rows
BY DEF Rows

\* Whatever n, the evidence that has been upserted has its chunk.
LEMMA UpsertedByPlanned ==
  ASSUME NEW s, NEW t \in Texts, NEW n \in Int
  PROVE  LET done == UpsertedBy(n, PlannedRows(s, t))
         IN done.evidence \subseteq done.chunks
              /\ done.chunks \subseteq PlannedRows(s, t)
BY PlannedRowsOf, PlannedRowsCounted DEF UpsertedBy
-----------------------------------------------------------------------------
(***************************************************************************)
(* Upserts.                                                                *)
(***************************************************************************)
UniqueChunks(rows) == \A c, d \in rows : ChunkUid(c) = ChunkUid(d) => c = d

UniqueEvidence(rows) ==
  \A d, e \in rows : EvidenceUid(d) = EvidenceUid(e) => d = e

LEMMA UpsertIsUnique ==
  ASSUME NEW old, NEW new
  PROVE  /\ UniqueChunks(old) /\ UniqueChunks(new)
              => UniqueChunks(UpsertChunks(old, new))
         /\ UniqueEvidence(old) /\ UniqueEvidence(new)
              => UniqueEvidence(UpsertEvidence(old, new))
BY DEF UpsertChunks, UpsertEvidence, UniqueChunks, UniqueEvidence

LEMMA UpsertIsBetween ==
  ASSUME NEW old, NEW new
  PROVE  /\ new \subseteq UpsertChunks(old, new)
         /\ UpsertChunks(old, new) \subseteq old \cup new
         /\ new \subseteq UpsertEvidence(old, new)
         /\ UpsertEvidence(old, new) \subseteq old \cup new
BY DEF UpsertChunks, UpsertEvidence

\* A uid tells the content, and an evidence_uid the chunk.
LEMMA UidsTell ==
  ASSUME NEW c, NEW d
  PROVE  /\ ChunkUid(c) = ChunkUid(d) => c.content = d.content /\ c.index = d.index
         /\ EvidenceUid(c) = EvidenceUid(d) => ChunkUid(c) = ChunkUid(d)
BY DEF ChunkUid, EvidenceUid

LEMMA PlannedIsUnique ==
  ASSUME NEW s, NEW t \in Texts, NEW rows, rows \subseteq PlannedRows(s, t)
  PROVE  UniqueChunks(rows) /\ UniqueEvidence(rows)
BY PlannedRowsOf, UidsTell DEF UniqueChunks, UniqueEvidence

-----------------------------------------------------------------------------
(***************************************************************************)
(* The inductive invariant behind TypeOK and EvidenceHasChunk: what holds  *)
(* of the tables holds of what every build has upserted so far.            *)
(***************************************************************************)
HasChunk(w) ==
  \A e \in w.evidence : \E c \in w.chunks : ChunkUid(c) = ChunkUid(e)

GoodBuilder(w) ==
  /\ w \in Builder
  /\ UniqueChunks(w.chunks)
  /\ UniqueEvidence(w.evidence)
  /\ HasChunk(w)

TablesInv ==
  /\ TypeOK
  /\ EvidenceHasChunk
  /\ \A b \in Builders : GoodBuilder(builder[b])

LEMMA IdleIsGood == GoodBuilder(IdleBuilder) /\ IdleBuilder.todo = {}
BY DEF GoodBuilder, IdleBuilder, Builder, UniqueChunks, UniqueEvidence, HasChunk

LEMMA ResultsOf ==
  ASSUME TypeOK
  PROVE  /\ DOMAIN results = 1..Len(results) /\ Len(results) \in Nat
         /\ \A i \in DOMAIN results : results[i] \in Result
<1>1. results \in Seq(Result)
  BY DEF TypeOK
<1> QED
  BY <1>1

LEMMA InitTables == Init => TablesInv
<1> SUFFICES ASSUME Init PROVE TablesInv
  OBVIOUS
<1>1. \A b \in Builders : builder[b] = IdleBuilder
  BY DEF Init
<1>2. \A b \in Builders : GoodBuilder(builder[b]) /\ builder[b].todo = {}
  BY <1>1, IdleIsGood
<1>3. builder \in [Builders -> Builder]
  BY IdleIsGood DEF Init, GoodBuilder
<1>4. parsed \in [Contents -> ParsedDir]
  BY DEF Init, ParsedDir
<1>5. results = <<>> /\ rebuilt \in [Contents -> Texts \cup {None}]
  BY DEF Init
<1>6. chunks = {} /\ evidence = {} /\ reported = {}
  BY DEF Init
<1>7. TypeOK
  BY <1>2, <1>3, <1>4, <1>5, <1>6 DEF TypeOK
<1> QED
  BY <1>2, <1>7 DEF Init, TablesInv, EvidenceHasChunk

\* A step of one build that leaves the tables alone.
LEMMA BuilderChanges ==
  ASSUME TablesInv, NEW b \in Builders, NEW w, GoodBuilder(w),
         w.todo \subseteq DOMAIN results,
         builder' = [builder EXCEPT ![b] = w],
         UNCHANGED <<parsed, results, chunks, evidence, reported, rebuilt>>
  PROVE  TablesInv'
<1>1. \A c \in Builders : builder'[c] = IF c = b THEN w ELSE builder[c]
  BY DEF TablesInv, TypeOK
<1>2. builder' \in [Builders -> Builder]
  BY DEF TablesInv, TypeOK, GoodBuilder
<1>3. \A c \in Builders : GoodBuilder(builder'[c])
  BY <1>1 DEF TablesInv
<1>4. \A c \in Builders : builder'[c].todo \subseteq DOMAIN results'
  BY <1>1 DEF TablesInv, TypeOK
<1>5. TypeOK'
  BY <1>2, <1>4 DEF TablesInv, TypeOK, ChunkUid, EvidenceUid
<1>6. EvidenceHasChunk'
  BY DEF TablesInv, EvidenceHasChunk, ChunkUid
<1>7. (\A c \in Builders : GoodBuilder(builder[c]))'
  BY <1>3 DEF GoodBuilder, UniqueChunks, UniqueEvidence, HasChunk, ChunkUid, EvidenceUid
<1> QED
  BY <1>5, <1>6, <1>7 DEF TablesInv

LEMMA GoesOn ==
  ASSUME TablesInv, NEW b \in Builders, NEW i, NEW w, GoodBuilder(w),
         w.todo \subseteq DOMAIN results, NextContent(b, i, w)
  PROVE  TablesInv'
<1> DEFINE v == [w EXCEPT !.todo = @ \ {i}]
<1>1. w \in Builder
  BY DEF GoodBuilder
<1>2. /\ v \in Builder /\ v.todo \subseteq w.todo
      /\ v.chunks = w.chunks /\ v.evidence = w.evidence
  BY <1>1 DEF Builder
<1>3. GoodBuilder(v)
  BY <1>2 DEF GoodBuilder, HasChunk
<1>4. builder' = [builder EXCEPT ![b] = v]
  BY DEF NextContent
<1>5. UNCHANGED <<parsed, results, chunks, evidence, reported, rebuilt>>
  BY DEF NextContent
<1> HIDE DEF v
<1> QED
  BY <1>2, <1>3, <1>4, <1>5, BuilderChanges

\* Upserting rows of one text, with a chunk for each evidence.
LEMMA UpsertedIsGood ==
  ASSUME TablesInv, NEW b \in Builders, NEW s \in Contents, NEW t \in Texts,
         NEW chunkRows, NEW evidenceRows,
         chunkRows \subseteq PlannedRows(s, t), evidenceRows \subseteq chunkRows
  PROVE  LET w == Upserted(b, chunkRows, evidenceRows)
         IN /\ GoodBuilder(w)
            /\ w.chunks = UpsertChunks(builder[b].chunks, chunkRows)
            /\ w.evidence = UpsertEvidence(builder[b].evidence, evidenceRows)
            /\ w.todo = builder[b].todo
            /\ w.processed = builder[b].processed
            /\ w.pc = builder[b].pc /\ w.force = builder[b].force
            /\ w.seen = builder[b].seen
<1> DEFINE w == Upserted(b, chunkRows, evidenceRows)
           oldChunks == builder[b].chunks
           oldEvidence == builder[b].evidence
<1>1. GoodBuilder(builder[b]) /\ builder[b] \in Builder
  BY DEF TablesInv, GoodBuilder
<1>2. oldChunks \subseteq Rows /\ oldEvidence \subseteq Rows
  BY <1>1 DEF Builder
<1>3. /\ w.chunks = UpsertChunks(oldChunks, chunkRows)
      /\ w.evidence = UpsertEvidence(oldEvidence, evidenceRows)
      /\ w.todo = builder[b].todo /\ w.processed = builder[b].processed
      /\ w.pc = builder[b].pc /\ w.force = builder[b].force
      /\ w.seen = builder[b].seen
  BY <1>1 DEF Upserted, Builder
<1>4. w.chunks \subseteq Rows /\ w.evidence \subseteq Rows
  BY <1>2, <1>3, UpsertIsBetween, PlannedAreRows
<1>5. w \in Builder
  BY <1>1, <1>4 DEF Upserted, Builder
<1>6. UniqueChunks(chunkRows) /\ UniqueEvidence(evidenceRows)
  BY PlannedIsUnique
<1>7. UniqueChunks(w.chunks) /\ UniqueEvidence(w.evidence)
  BY <1>1, <1>3, <1>6, UpsertIsUnique DEF GoodBuilder
<1>8. ASSUME NEW e \in w.evidence
      PROVE  \E c \in w.chunks : ChunkUid(c) = ChunkUid(e)
  <2>1. e \in oldEvidence \cup evidenceRows
    BY <1>3, UpsertIsBetween
  <2>2. PICK d \in oldChunks \cup chunkRows : ChunkUid(d) = ChunkUid(e)
    BY <1>1, <2>1 DEF GoodBuilder, HasChunk
  <2>3. \E c \in UpsertChunks(oldChunks, chunkRows) : ChunkUid(c) = ChunkUid(d)
    BY <2>2 DEF UpsertChunks
  <2> QED
    BY <1>3, <2>2, <2>3
<1> HIDE DEF w
<1>9. GoodBuilder(w)
  BY <1>5, <1>7, <1>8 DEF GoodBuilder, HasChunk
<1> QED
  BY <1>3, <1>9 DEF w

LEMMA PlannableText ==
  ASSUME TypeOK, NEW s \in Contents, Plannable(s)
  PROVE  parsed[s].text \in Texts
BY DEF TypeOK, ParsedDir, Plannable
-----------------------------------------------------------------------------
LEMMA EnvironmentKeepsTables ==
  ASSUME TablesInv, Environment
  PROVE  TablesInv'
<1> USE DEF TablesInv
<1>1. PICK s \in Contents :
        \/ \E dir \in ParsedDir : WriteParsed(s, dir)
        \/ \E usable \in BOOLEAN : RegisterResult(s, usable)
  BY DEF Environment
<1> DEFINE Kept ==
             /\ parsed' \in [Contents -> ParsedDir]
             /\ results' \in Seq(Result)
             /\ DOMAIN results \subseteq DOMAIN results'
             /\ rebuilt' \in [Contents -> Texts \cup {None}]
             /\ UNCHANGED <<chunks, evidence, builder, reported>>
<1>2. Kept
  <2>1. ASSUME NEW dir \in ParsedDir, WriteParsed(s, dir)
        PROVE  Kept
    BY <2>1 DEF WriteParsed, TypeOK
  <2>2. ASSUME NEW usable \in BOOLEAN, RegisterResult(s, usable)
        PROVE  Kept
    <3>1. results \in Seq(Result) /\ [content |-> s, usable |-> usable] \in Result
      BY DEF TypeOK, Result
    <3>2. results' = Append(results, [content |-> s, usable |-> usable])
      BY <2>2 DEF RegisterResult
    <3>3. results' \in Seq(Result) /\ DOMAIN results \subseteq DOMAIN results'
      BY <3>1, <3>2
    <3> QED
      BY <2>2, <3>3 DEF RegisterResult, TypeOK
  <2> QED
    BY <1>1, <2>1, <2>2
<1>3. TypeOK'
  BY <1>2 DEF TypeOK, ChunkUid, EvidenceUid
<1>4. EvidenceHasChunk'
  BY <1>2 DEF EvidenceHasChunk, ChunkUid
<1>5. (\A b \in Builders : GoodBuilder(builder[b]))'
  BY <1>2 DEF GoodBuilder, UniqueChunks, UniqueEvidence, HasChunk, ChunkUid,
              EvidenceUid
<1> QED
  BY <1>3, <1>4, <1>5

LEMMA ChunksOfContents ==
  ASSUME TablesInv
  PROVE  ContentsOf(chunks) \subseteq Contents
<1>1. \A row \in Rows : row.content \in Contents
  BY PlannedRowsOf DEF Rows
<1> QED
  BY <1>1 DEF TablesInv, TypeOK, ContentsOf

LEMMA StartKeepsTables ==
  ASSUME TablesInv, NEW b \in Builders, NEW targets, NEW force \in BOOLEAN,
         NEW limit, StartBuild(b, targets, force, limit)
  PROVE  TablesInv'
<1> DEFINE w == [IdleBuilder EXCEPT !.pc = "build", !.force = force,
                                    !.todo = Candidates(targets, limit),
                                    !.seen = ContentsOf(chunks)]
<1>1. Candidates(targets, limit) \subseteq DOMAIN results
  BY DEF Candidates
<1>2. DOMAIN results \subseteq Nat
  BY ResultsOf DEF TablesInv
<1>3. ContentsOf(chunks) \subseteq Contents
  BY ChunksOfContents
<1>4. w.chunks = {} /\ w.evidence = {} /\ w.todo = Candidates(targets, limit)
  BY DEF IdleBuilder
<1>5. w \in Builder
  BY <1>1, <1>2, <1>3 DEF IdleBuilder, Builder
<1>6. builder' = [builder EXCEPT ![b] = w]
      /\ UNCHANGED <<parsed, results, chunks, evidence, reported, rebuilt>>
  BY DEF StartBuild
<1> HIDE DEF w
<1>7. GoodBuilder(w)
  BY <1>4, <1>5 DEF GoodBuilder, UniqueChunks, UniqueEvidence, HasChunk
<1> QED
  BY <1>1, <1>4, <1>6, <1>7, BuilderChanges

LEMMA SkipKeepsTables ==
  ASSUME TablesInv, NEW b \in Builders, NEW i, NEW s, SkipContent(b, i, s)
  PROVE  TablesInv'
BY GoesOn DEF SkipContent, TablesInv, TypeOK

LEMMA BuildKeepsTables ==
  ASSUME TablesInv, NEW b \in Builders, NEW i, NEW s \in Contents,
         BuildContent(b, i, s)
  PROVE  TablesInv'
<1> DEFINE t == parsed[s].text
           rows == PlannedRows(s, t)
           w == Upserted(b, rows, rows)
           v == [w EXCEPT !.processed = @ \cup {<<s, t>>}]
<1>1. t \in Texts
  BY PlannableText DEF BuildContent, TablesInv
<1>2. GoodBuilder(w) /\ w.todo = builder[b].todo
  BY <1>1, UpsertedIsGood
<1>3. w \in Builder
  BY <1>2 DEF GoodBuilder
<1>4. NextContent(b, i, v)
  BY DEF BuildContent
<1> HIDE DEF t, rows, w
<1>5. /\ v \in Builder /\ v.todo = w.todo
      /\ v.chunks = w.chunks /\ v.evidence = w.evidence
  BY <1>1, <1>3 DEF Builder
<1> HIDE DEF v
<1>6. GoodBuilder(v)
  BY <1>2, <1>5 DEF GoodBuilder, HasChunk
<1>7. v.todo \subseteq DOMAIN results
  BY <1>2, <1>5 DEF TablesInv, TypeOK
<1> QED
  BY <1>4, <1>6, <1>7, GoesOn

LEMMA FailureKeepsTables ==
  ASSUME TablesInv, NEW b \in Builders, NEW i, NEW s \in Contents, NEW n \in Int,
         StatementFails(b, i, s, n)
  PROVE  TablesInv'
<1> DEFINE t == parsed[s].text
           done == UpsertedBy(n, PlannedRows(s, t))
           w == Upserted(b, done.chunks, done.evidence)
<1>1. t \in Texts
  BY PlannableText DEF StatementFails, TablesInv
<1>2. done.evidence \subseteq done.chunks /\ done.chunks \subseteq PlannedRows(s, t)
  BY <1>1, UpsertedByPlanned
<1>3. NextContent(b, i, w)
  BY DEF StatementFails
<1> HIDE DEF t, done
<1>4. GoodBuilder(w) /\ w.todo = builder[b].todo
  BY <1>1, <1>2, UpsertedIsGood
<1> HIDE DEF w
<1> QED
  BY <1>3, <1>4, GoesOn DEF TablesInv, TypeOK

LEMMA DeadlockKeepsTables ==
  ASSUME TablesInv, NEW b \in Builders, NEW i, NEW s, DeadlockVictim(b, i, s)
  PROVE  TablesInv'
<1> DEFINE w == [builder[b] EXCEPT !.pc = "undone", !.chunks = {}, !.evidence = {}]
<1>1. builder[b] \in Builder
  BY DEF TablesInv, GoodBuilder
<1>2. w \in Builder /\ w.todo = builder[b].todo /\ w.chunks = {} /\ w.evidence = {}
  BY <1>1 DEF Builder
<1>3. NextContent(b, i, w)
  BY DEF DeadlockVictim
<1> HIDE DEF w
<1>4. GoodBuilder(w)
  BY <1>2 DEF GoodBuilder, UniqueChunks, UniqueEvidence, HasChunk
<1> QED
  BY <1>2, <1>3, <1>4, GoesOn DEF TablesInv, TypeOK

LEMMA BeginAgainKeepsTables ==
  ASSUME TablesInv, NEW b \in Builders, BeginAgain(b)
  PROVE  TablesInv'
<1> DEFINE me == builder[b]
           w == [me EXCEPT !.pc = "build", !.seen = ContentsOf(chunks)]
<1>1. GoodBuilder(me) /\ me \in Builder /\ me.todo \subseteq DOMAIN results
  BY DEF TablesInv, GoodBuilder, TypeOK
<1>2. ContentsOf(chunks) \subseteq Contents
  BY ChunksOfContents
<1>3. /\ w \in Builder /\ w.todo = me.todo
      /\ w.chunks = me.chunks /\ w.evidence = me.evidence
  BY <1>1, <1>2 DEF Builder
<1>4. /\ builder' = [builder EXCEPT ![b] = w]
      /\ UNCHANGED <<parsed, results, chunks, evidence, reported, rebuilt>>
  BY DEF BeginAgain
<1> HIDE DEF w
<1>5. GoodBuilder(w)
  BY <1>1, <1>3 DEF GoodBuilder, HasChunk
<1> QED
  BY <1>1, <1>3, <1>4, <1>5, BuilderChanges

LEMMA CommitKeepsTables ==
  ASSUME TablesInv, NEW b \in Builders, CommitBuild(b)
  PROVE  TablesInv'
<1> DEFINE me == builder[b]
<1>1. GoodBuilder(me) /\ me \in Builder
  BY DEF TablesInv, GoodBuilder
<1>2. /\ chunks' = UpsertChunks(chunks, me.chunks)
      /\ evidence' = UpsertEvidence(evidence, me.evidence)
      /\ builder' = [builder EXCEPT ![b] = IdleBuilder]
      /\ reported' = reported \cup me.processed
      /\ UNCHANGED <<parsed, results>>
  BY DEF CommitBuild
<1>3. me.chunks \subseteq Rows /\ me.evidence \subseteq Rows
      /\ me.processed \subseteq Contents \X Texts
  BY <1>1 DEF Builder
<1>4. UniqueChunks(chunks) /\ UniqueEvidence(evidence)
  BY DEF TablesInv, TypeOK, UniqueChunks, UniqueEvidence
<1> HIDE DEF me
<1>5. chunks' \subseteq Rows /\ evidence' \subseteq Rows
  BY <1>2, <1>3, UpsertIsBetween DEF TablesInv, TypeOK
<1>6. UniqueChunks(chunks') /\ UniqueEvidence(evidence')
  BY <1>1, <1>2, <1>4, UpsertIsUnique DEF GoodBuilder
<1>7. \A c \in Builders : builder'[c] = IdleBuilder \/ builder'[c] = builder[c]
  BY <1>2 DEF TablesInv, TypeOK
<1>8. \A c \in Builders : GoodBuilder(builder'[c])
  BY <1>7, IdleIsGood DEF TablesInv
<1>9. \A c \in Builders : builder'[c].todo \subseteq DOMAIN results'
  BY <1>2, <1>7, IdleIsGood DEF TablesInv, TypeOK
<1>10. builder' \in [Builders -> Builder]
  BY <1>2, IdleIsGood DEF TablesInv, TypeOK, GoodBuilder
<1>11. rebuilt' \in [Contents -> Texts \cup {None}]
  <2>1. ASSUME NEW s \in Contents
        PROVE  rebuilt'[s] \in Texts \cup {None}
    <3>1. rebuilt'[s] \in {parsed[s].text, None, rebuilt[s]}
      BY DEF CommitBuild
    <3> QED
      BY <3>1 DEF TablesInv, TypeOK, ParsedDir
  <2>2. \E f : rebuilt' = [s \in Contents |-> f[s]]
    <3>1. rebuilt' = [s \in Contents |-> rebuilt'[s]]
      BY DEF CommitBuild
    <3> QED
      BY <3>1
  <2> QED
    BY <2>1, <2>2
<1>12. TypeOK'
  BY <1>2, <1>3, <1>5, <1>6, <1>9, <1>10, <1>11
     DEF TablesInv, TypeOK, UniqueChunks, UniqueEvidence, ChunkUid, EvidenceUid
<1>13. ASSUME NEW e \in evidence'
       PROVE  \E c \in chunks' : ChunkUid(c) = ChunkUid(e)
  <2>1. e \in evidence \cup me.evidence
    BY <1>2, UpsertIsBetween
  <2>2. PICK d \in chunks \cup me.chunks : ChunkUid(d) = ChunkUid(e)
    BY <1>1, <2>1 DEF TablesInv, EvidenceHasChunk, GoodBuilder, HasChunk
  <2>3. \E c \in UpsertChunks(chunks, me.chunks) : ChunkUid(c) = ChunkUid(d)
    BY <2>2 DEF UpsertChunks
  <2> QED
    BY <1>2, <2>2, <2>3
<1>14. EvidenceHasChunk'
  BY <1>13 DEF EvidenceHasChunk, ChunkUid
<1>15. (\A c \in Builders : GoodBuilder(builder[c]))'
  BY <1>8 DEF GoodBuilder, UniqueChunks, UniqueEvidence, HasChunk, ChunkUid,
              EvidenceUid
<1> QED
  BY <1>12, <1>14, <1>15 DEF TablesInv

LEMMA KillKeepsTables ==
  ASSUME TablesInv, NEW b \in Builders, KillBuild(b)
  PROVE  TablesInv'
BY IdleIsGood, BuilderChanges DEF KillBuild

LEMMA TablesNext == TablesInv /\ [Next]_vars => TablesInv'
<1> SUFFICES ASSUME TablesInv, [Next]_vars PROVE TablesInv'
  OBVIOUS
<1>1. CASE Environment
  BY <1>1, EnvironmentKeepsTables
<1>2. ASSUME NEW b \in Builders, BuilderStep(b) PROVE TablesInv'
  <2>1. CASE \E targets \in {Contents} \cup {{s} : s \in Contents},
                force \in Forces, limit \in Limits :
                StartBuild(b, targets, force, limit)
    BY <2>1, StartKeepsTables, ForcesAssumption
  <2>2. ASSUME NEW i \in DOMAIN results, NEW s \in Contents, SkipContent(b, i, s)
        PROVE  TablesInv'
    BY <2>2, SkipKeepsTables
  <2>3. ASSUME NEW i \in DOMAIN results, NEW s \in Contents, BuildContent(b, i, s)
        PROVE  TablesInv'
    BY <2>3, BuildKeepsTables
  <2>4. ASSUME NEW i \in DOMAIN results, NEW s \in Contents,
               NEW n \in 0..(2 * Cardinality(Rows)), StatementFails(b, i, s, n)
        PROVE  TablesInv'
    BY <2>4, FailureKeepsTables
  <2>5. ASSUME NEW i \in DOMAIN results, NEW s \in Contents,
               DeadlockVictim(b, i, s)
        PROVE  TablesInv'
    BY <2>5, DeadlockKeepsTables
  <2>6. CASE CommitBuild(b)
    BY <2>6, CommitKeepsTables
  <2>7. CASE KillBuild(b)
    BY <2>7, KillKeepsTables
  <2>8. CASE BeginAgain(b)
    BY <2>8, BeginAgainKeepsTables
  <2> QED
    BY <1>2, <2>1, <2>2, <2>3, <2>4, <2>5, <2>6, <2>7, <2>8 DEF BuilderStep
<1>3. CASE UNCHANGED vars
  <2>1. TypeOK'
    BY <1>3 DEF vars, TablesInv, TypeOK, ChunkUid, EvidenceUid
  <2>2. EvidenceHasChunk'
    BY <1>3 DEF vars, TablesInv, EvidenceHasChunk, ChunkUid
  <2>3. (\A b \in Builders : GoodBuilder(builder[b]))'
    BY <1>3 DEF vars, TablesInv, GoodBuilder, UniqueChunks, UniqueEvidence,
                HasChunk, ChunkUid, EvidenceUid
  <2> QED
    BY <2>1, <2>2, <2>3 DEF TablesInv
<1> QED
  BY <1>1, <1>2, <1>3 DEF Next

LEMMA TablesInvariant == Spec => []TablesInv
BY InitTables, TablesNext, PTL DEF Spec

\* Every state of 010 is well formed; in particular the uids are keys, in both
\* tables, for all texts and interleavings of builds.
THEOREM TypeCorrect == Spec => []TypeOK
<1>1. TablesInv => TypeOK
  BY DEF TablesInv
<1> QED
  BY <1>1, TablesInvariant, PTL

\* No evidence without its chunk, whatever fails, is undone or is killed.
THEOREM EvidenceKeepsChunk == Spec => []EvidenceHasChunk
<1>1. TablesInv => EvidenceHasChunk
  BY DEF TablesInv
<1> QED
  BY <1>1, TablesInvariant, PTL
-----------------------------------------------------------------------------
(***************************************************************************)
(* The refinement of EvidenceFeed: only a commit changes kb_evidence.      *)
(***************************************************************************)
LEMMA OnlyCommitsStore ==
  ASSUME [Next]_vars
  PROVE  \/ UNCHANGED <<chunks, evidence>>
         \/ \E b \in Builders : CommitBuild(b)
<1>1. CASE Environment
  BY <1>1 DEF Environment, WriteParsed, RegisterResult
<1>2. ASSUME NEW b \in Builders, BuilderStep(b)
      PROVE  UNCHANGED <<chunks, evidence>> \/ CommitBuild(b)
  BY <1>2 DEF BuilderStep, StartBuild, SkipContent, BuildContent, StatementFails,
              DeadlockVictim, BeginAgain, NextContent, KillBuild
<1>3. CASE UNCHANGED vars
  BY <1>3 DEF vars
<1> QED
  BY <1>1, <1>2, <1>3 DEF Next

LEMMA FeedStep ==
  ASSUME TablesInv, TablesInv', [Next]_vars
  PROVE  [Feed!Next]_{EvidenceUid(e) : e \in evidence}
<1>1. {EvidenceUid(e) : e \in evidence'} \subseteq Uids
  BY DEF TablesInv, TypeOK, Uids
<1>2. CASE UNCHANGED <<chunks, evidence>>
  BY <1>2 DEF EvidenceUid, ChunkUid
<1>3. ASSUME NEW b \in Builders, CommitBuild(b)
      PROVE  Feed!Next
  <2>1. evidence' = UpsertEvidence(evidence, builder[b].evidence)
    BY <1>3 DEF CommitBuild
  <2>2. \A e \in evidence :
          \E d \in evidence' : EvidenceUid(d) = EvidenceUid(e)
    BY <2>1 DEF UpsertEvidence
  <2>3. {EvidenceUid(e) : e \in evidence} \subseteq {EvidenceUid(e) : e \in evidence'}
    BY <2>2
  <2> QED
    BY <1>1, <2>3 DEF Feed!Next, EvidenceUid, ChunkUid
<1> QED
  BY <1>2, <1>3, OnlyCommitsStore

\* What 011 and 012 rely on, for any number of builds, forced or not, with any
\* failure: an evidence_uid that has been stored stays.
THEOREM EvidenceIsFeed == Spec => FeedOnlyGrows
<1>1. Init => Feed!Init
  BY DEF Init, Feed!Init
<1>2. TablesInv /\ TablesInv' /\ [Next]_vars
        => [Feed!Next]_{EvidenceUid(e) : e \in evidence}
  BY FeedStep
<1> QED
  BY <1>1, <1>2, TablesInvariant, PTL DEF Spec, FeedOnlyGrows, Feed!Spec
-----------------------------------------------------------------------------
(***************************************************************************)
(* What a build has processed it has upserted as a whole, and does not     *)
(* come back to: the results that it takes are of different contents.  A   *)
(* deadlock breaks this when there are two contents, for it undoes what is  *)
(* counted already.                                                        *)
(***************************************************************************)
WholeBuilder(w) ==
  /\ \A done \in w.processed :
       /\ PlannedRows(done[1], done[2]) \subseteq w.chunks \cap w.evidence
       /\ \A i \in w.todo : results[i].content # done[1]
  /\ \A i, j \in w.todo : results[i].content = results[j].content => i = j

BuildersWhole == \A b \in Builders : WholeBuilder(builder[b])

ServedInv == TablesInv /\ BuildersWhole /\ ReportedIsStored /\ RebuiltIsServed

LEMMA IdleIsWhole == WholeBuilder(IdleBuilder)
BY DEF WholeBuilder, IdleBuilder

LEMMA InitServed == Init => ServedInv
<1> SUFFICES ASSUME Init PROVE ServedInv
  OBVIOUS
<1>1. \A b \in Builders : builder[b] = IdleBuilder
  BY DEF Init
<1>2. BuildersWhole
  BY <1>1, IdleIsWhole DEF BuildersWhole
<1>3. ReportedIsStored
  BY DEF Init, ReportedIsStored
<1>4. RebuiltIsServed
  BY DEF Init, RebuiltIsServed
<1> QED
  BY <1>2, <1>3, <1>4, InitTables DEF ServedInv

\* As long as no table changes, what is served stays served.
LEMMA ServedStays ==
  ASSUME ServedInv, UNCHANGED <<chunks, evidence, reported>>,
         \A s \in Contents : rebuilt'[s] \in {rebuilt[s], None}
  PROVE  ReportedIsStored' /\ RebuiltIsServed'
<1>1. ReportedIsStored'
  BY DEF ServedInv, ReportedIsStored, PlannedRows, ChunkUid, EvidenceUid
<1>2. RebuiltIsServed'
  BY DEF ServedInv, RebuiltIsServed, PlannedRows
<1> QED
  BY <1>1, <1>2

LEMMA EnvironmentKeepsServed ==
  ASSUME ServedInv, Environment
  PROVE  BuildersWhole' /\ ReportedIsStored' /\ RebuiltIsServed'
<1>1. PICK s \in Contents :
        \/ \E dir \in ParsedDir : WriteParsed(s, dir)
        \/ \E usable \in BOOLEAN : RegisterResult(s, usable)
  BY DEF Environment
<1>2. results \in Seq(Result) /\ rebuilt \in [Contents -> Texts \cup {None}]
  BY DEF ServedInv, TablesInv, TypeOK
<1>3. \A i \in DOMAIN results : results'[i] = results[i]
  <2>1. ASSUME NEW usable \in BOOLEAN, RegisterResult(s, usable)
        PROVE  \A i \in DOMAIN results : results'[i] = results[i]
    <3>1. [content |-> s, usable |-> usable] \in Result
      BY DEF Result
    <3> QED
      BY <1>2, <2>1, <3>1 DEF RegisterResult
  <2> QED
    BY <1>1, <2>1 DEF WriteParsed
<1>4. /\ UNCHANGED <<chunks, evidence, reported, builder>>
      /\ \A r \in Contents : rebuilt'[r] \in {rebuilt[r], None}
  BY <1>1, <1>2 DEF WriteParsed, RegisterResult
<1>5. \A b \in Builders : builder[b].todo \subseteq DOMAIN results
  BY DEF ServedInv, TablesInv, TypeOK
<1>6. BuildersWhole'
  BY <1>3, <1>4, <1>5 DEF ServedInv, BuildersWhole, WholeBuilder, PlannedRows
<1> QED
  BY <1>4, <1>6, ServedStays

\* A step of one build that leaves the tables alone.
LEMMA BuilderKeepsServed ==
  ASSUME ServedInv, NEW b \in Builders, NEW w, WholeBuilder(w),
         builder' = [builder EXCEPT ![b] = w],
         UNCHANGED <<parsed, results, chunks, evidence, reported, rebuilt>>
  PROVE  BuildersWhole' /\ ReportedIsStored' /\ RebuiltIsServed'
<1>1. \A c \in Builders : builder'[c] = IF c = b THEN w ELSE builder[c]
  BY DEF ServedInv, TablesInv, TypeOK
<1>2. \A c \in Builders : WholeBuilder(builder'[c])
  BY <1>1 DEF ServedInv, BuildersWhole
<1>3. BuildersWhole'
  BY <1>2 DEF BuildersWhole, WholeBuilder, PlannedRows
<1> QED
  BY <1>3, ServedStays

LEMMA StartKeepsServed ==
  ASSUME ServedInv, NEW b \in Builders, NEW targets, NEW force, NEW limit,
         StartBuild(b, targets, force, limit)
  PROVE  BuildersWhole' /\ ReportedIsStored' /\ RebuiltIsServed'
<1> DEFINE w == [IdleBuilder EXCEPT !.pc = "build", !.force = force,
                                    !.todo = Candidates(targets, limit),
                                    !.seen = ContentsOf(chunks)]
<1>1. \A i, j \in Candidates(targets, limit) :
        ~(i < j /\ results[j].content = results[i].content)
  BY DEF Candidates
<1>2. Candidates(targets, limit) \subseteq Nat
  BY ResultsOf DEF Candidates, ServedInv, TablesInv
<1>3. \A i, j \in Candidates(targets, limit) :
        results[i].content = results[j].content => i = j
  BY <1>1, <1>2
<1>4. w.processed = {} /\ w.todo = Candidates(targets, limit)
  BY DEF IdleBuilder
<1>5. builder' = [builder EXCEPT ![b] = w]
      /\ UNCHANGED <<parsed, results, chunks, evidence, reported, rebuilt>>
  BY DEF StartBuild
<1> HIDE DEF w
<1>6. WholeBuilder(w)
  BY <1>3, <1>4 DEF WholeBuilder
<1> QED
  BY <1>5, <1>6, BuilderKeepsServed

\* The next content goes; what is upserted of it leaves the others alone.
LEMMA TurnKeepsWhole ==
  ASSUME ServedInv, NEW b \in Builders, NEW i, NEW s \in Contents, Turn(b, i, s),
         NEW t \in Texts, NEW chunkRows, NEW evidenceRows,
         chunkRows \subseteq PlannedRows(s, t), evidenceRows \subseteq chunkRows
  PROVE  LET w == Upserted(b, chunkRows, evidenceRows)
         IN \A done \in builder[b].processed :
              /\ PlannedRows(done[1], done[2]) \subseteq w.chunks \cap w.evidence
              /\ done[1] # s
<1> DEFINE me == builder[b]
           w == Upserted(b, chunkRows, evidenceRows)
<1>1. w.chunks = UpsertChunks(me.chunks, chunkRows)
      /\ w.evidence = UpsertEvidence(me.evidence, evidenceRows)
  BY UpsertedIsGood DEF ServedInv
<1>2. \A c \in chunkRows \cup evidenceRows : c.content = s
  BY PlannedRowsOf
<1>3. me.processed \subseteq Contents \X Texts
  BY DEF ServedInv, TablesInv, GoodBuilder, Builder
<1> HIDE DEF w
<1>4. ASSUME NEW done \in me.processed
      PROVE  /\ PlannedRows(done[1], done[2]) \subseteq w.chunks \cap w.evidence
             /\ done[1] # s
  <2>1. PlannedRows(done[1], done[2]) \subseteq me.chunks \cap me.evidence
    BY DEF ServedInv, BuildersWhole, WholeBuilder
  <2>2. done[1] # s
    BY DEF ServedInv, BuildersWhole, WholeBuilder, Turn
  <2>3. done[2] \in Texts
    BY <1>3
  <2>4. \A row \in PlannedRows(done[1], done[2]) : row.content = done[1]
    BY <2>3, PlannedRowsOf
  <2>5. ASSUME NEW row \in PlannedRows(done[1], done[2])
        PROVE  row \in w.chunks \cap w.evidence
    <3>1. \A c \in chunkRows \cup evidenceRows : c.content # row.content
      BY <1>2, <2>2, <2>4
    <3> HIDE DEF me
    <3>2. row \in me.chunks /\ row \in me.evidence
      BY <2>1
    <3>3. row \in UpsertChunks(me.chunks, chunkRows)
      BY <3>1, <3>2, UidsTell DEF UpsertChunks
    <3>4. row \in UpsertEvidence(me.evidence, evidenceRows)
      BY <3>1, <3>2, UidsTell DEF UpsertEvidence
    <3> QED
      BY <1>1, <3>3, <3>4
  <2> QED
    BY <2>2, <2>5
<1> QED
  BY <1>4 DEF w

LEMMA SkipKeepsServed ==
  ASSUME ServedInv, NEW b \in Builders, NEW i, NEW s, SkipContent(b, i, s)
  PROVE  BuildersWhole' /\ ReportedIsStored' /\ RebuiltIsServed'
<1> DEFINE v == [builder[b] EXCEPT !.todo = @ \ {i}]
<1>1. builder[b] \in Builder
  BY DEF ServedInv, TablesInv, GoodBuilder
<1>2. /\ v.todo = builder[b].todo \ {i} /\ v.processed = builder[b].processed
      /\ v.chunks = builder[b].chunks /\ v.evidence = builder[b].evidence
  BY <1>1 DEF Builder
<1>3. builder' = [builder EXCEPT ![b] = v]
      /\ UNCHANGED <<parsed, results, chunks, evidence, reported, rebuilt>>
  BY DEF SkipContent, NextContent
<1> HIDE DEF v
<1>4. WholeBuilder(v)
  BY <1>2 DEF ServedInv, BuildersWhole, WholeBuilder
<1> QED
  BY <1>3, <1>4, BuilderKeepsServed

LEMMA BuildKeepsServed ==
  ASSUME ServedInv, NEW b \in Builders, NEW i, NEW s \in Contents,
         BuildContent(b, i, s)
  PROVE  BuildersWhole' /\ ReportedIsStored' /\ RebuiltIsServed'
<1> DEFINE t == parsed[s].text
           rows == PlannedRows(s, t)
           w == Upserted(b, rows, rows)
           v == [w EXCEPT !.processed = @ \cup {<<s, t>>}, !.todo = @ \ {i}]
<1>1. t \in Texts
  BY PlannableText DEF BuildContent, ServedInv, TablesInv
<1>2. /\ w \in Builder
      /\ w.chunks = UpsertChunks(builder[b].chunks, rows)
      /\ w.evidence = UpsertEvidence(builder[b].evidence, rows)
      /\ w.todo = builder[b].todo /\ w.processed = builder[b].processed
  BY <1>1, UpsertedIsGood DEF ServedInv, GoodBuilder
<1>3. /\ v.todo = w.todo \ {i} /\ v.processed = w.processed \cup {<<s, t>>}
      /\ v.chunks = w.chunks /\ v.evidence = w.evidence
  BY <1>2 DEF Builder
<1>4. Turn(b, i, s)
  BY DEF BuildContent
<1>5. \A done \in builder[b].processed :
        /\ PlannedRows(done[1], done[2]) \subseteq w.chunks \cap w.evidence
        /\ done[1] # s
  <2>1. rows \subseteq PlannedRows(s, t)
    OBVIOUS
  <2> HIDE DEF t, rows
  <2> QED
    BY <1>1, <1>4, <2>1, TurnKeepsWhole
<1>6. rows \subseteq w.chunks \cap w.evidence
  BY <1>2, UpsertIsBetween
<1>7. \A j \in builder[b].todo \ {i} : results[j].content # s
  BY <1>4 DEF Turn, ServedInv, BuildersWhole, WholeBuilder
<1>8. builder' = [builder EXCEPT ![b] = v]
      /\ UNCHANGED <<parsed, results, chunks, evidence, reported, rebuilt>>
  <2>1. [[w EXCEPT !.processed = @ \cup {<<s, t>>}] EXCEPT !.todo = @ \ {i}] = v
    BY <1>2 DEF Builder
  <2> QED
    BY <2>1 DEF BuildContent, NextContent
<1> HIDE DEF v, w
<1>9. ASSUME NEW done \in v.processed
      PROVE  /\ PlannedRows(done[1], done[2]) \subseteq v.chunks \cap v.evidence
             /\ \A j \in v.todo : results[j].content # done[1]
  <2>1. CASE done \in builder[b].processed
    <3>1. \A j \in builder[b].todo : results[j].content # done[1]
      BY <2>1 DEF ServedInv, BuildersWhole, WholeBuilder
    <3> QED
      BY <1>2, <1>3, <1>5, <2>1, <3>1
  <2>2. CASE done = <<s, t>>
    BY <1>2, <1>3, <1>6, <1>7, <2>2
  <2> QED
    BY <1>2, <1>3, <2>1, <2>2
<1>10. \A j, k \in v.todo : results[j].content = results[k].content => j = k
  BY <1>2, <1>3 DEF ServedInv, BuildersWhole, WholeBuilder
<1>11. WholeBuilder(v)
  BY <1>9, <1>10 DEF WholeBuilder
<1> QED
  BY <1>8, <1>11, BuilderKeepsServed

LEMMA FailureKeepsServed ==
  ASSUME ServedInv, NEW b \in Builders, NEW i, NEW s \in Contents, NEW n \in Int,
         StatementFails(b, i, s, n)
  PROVE  BuildersWhole' /\ ReportedIsStored' /\ RebuiltIsServed'
<1> DEFINE t == parsed[s].text
           done == UpsertedBy(n, PlannedRows(s, t))
           w == Upserted(b, done.chunks, done.evidence)
           v == [w EXCEPT !.todo = @ \ {i}]
<1>1. t \in Texts
  BY PlannableText DEF StatementFails, ServedInv, TablesInv
<1>2. done.evidence \subseteq done.chunks /\ done.chunks \subseteq PlannedRows(s, t)
  BY <1>1, UpsertedByPlanned
<1>3. Turn(b, i, s) /\ NextContent(b, i, w)
  BY DEF StatementFails
<1> HIDE DEF t, done
<1>4. /\ w \in Builder
      /\ w.todo = builder[b].todo /\ w.processed = builder[b].processed
  BY <1>1, <1>2, UpsertedIsGood DEF ServedInv, GoodBuilder
<1>5. \A d \in builder[b].processed :
        PlannedRows(d[1], d[2]) \subseteq w.chunks \cap w.evidence
  BY <1>1, <1>2, <1>3, TurnKeepsWhole
<1> HIDE DEF w
<1>6. /\ v.todo = w.todo \ {i} /\ v.processed = w.processed
      /\ v.chunks = w.chunks /\ v.evidence = w.evidence
  BY <1>4 DEF Builder
<1>7. builder' = [builder EXCEPT ![b] = v]
      /\ UNCHANGED <<parsed, results, chunks, evidence, reported, rebuilt>>
  BY <1>3 DEF NextContent
<1> HIDE DEF v
<1>8. WholeBuilder(v)
  BY <1>4, <1>5, <1>6 DEF ServedInv, BuildersWhole, WholeBuilder
<1> QED
  BY <1>7, <1>8, BuilderKeepsServed
\* Without a deadlock, a commit stores all that was counted, and what is
\* upserted for other contents displaces none of the rows of s.
LEMMA CommitKeepsServed ==
  ASSUME ServedInv, NEW b \in Builders, CommitBuild(b)
  PROVE  BuildersWhole' /\ ReportedIsStored' /\ RebuiltIsServed'
<1> DEFINE me == builder[b]
<1>1. /\ chunks' = UpsertChunks(chunks, me.chunks)
      /\ evidence' = UpsertEvidence(evidence, me.evidence)
      /\ builder' = [builder EXCEPT ![b] = IdleBuilder]
      /\ reported' = reported \cup me.processed
      /\ rebuilt' = [s \in Contents |->
           IF me.force /\ <<s, parsed[s].text>> \in me.processed
           THEN parsed[s].text
           ELSE IF s \in ContentsOf(me.chunks) THEN None ELSE rebuilt[s]]
      /\ UNCHANGED results
  BY DEF CommitBuild
<1>2. WholeBuilder(me) /\ HasChunk(me) /\ me \in Builder
  BY DEF ServedInv, TablesInv, BuildersWhole, GoodBuilder
<1>3. me.processed \subseteq Contents \X Texts
  BY <1>2 DEF Builder
<1>4. \A c \in Builders : builder'[c] = IdleBuilder \/ builder'[c] = builder[c]
  BY <1>1 DEF ServedInv, TablesInv, TypeOK
<1>5. \A c \in Builders : WholeBuilder(builder'[c])
  BY <1>4, IdleIsWhole DEF ServedInv, BuildersWhole
<1>6. BuildersWhole'
  BY <1>1, <1>5 DEF BuildersWhole, WholeBuilder, PlannedRows
<1> HIDE DEF me
<1>7. me.chunks \subseteq chunks' /\ me.evidence \subseteq evidence'
  BY <1>1, UpsertIsBetween
<1>8. ASSUME NEW done \in reported', NEW row \in PlannedRows(done[1], done[2])
      PROVE  /\ \E c \in chunks' : ChunkUid(c) = ChunkUid(row)
             /\ \E e \in evidence' : EvidenceUid(e) = EvidenceUid(row)
  <2>1. CASE done \in reported
    <3>1. PICK c \in chunks : ChunkUid(c) = ChunkUid(row)
      BY <2>1 DEF ServedInv, ReportedIsStored
    <3>2. PICK e \in evidence : EvidenceUid(e) = EvidenceUid(row)
      BY <2>1 DEF ServedInv, ReportedIsStored
    <3>3. \E d \in UpsertChunks(chunks, me.chunks) : ChunkUid(d) = ChunkUid(c)
      BY <3>1 DEF UpsertChunks
    <3>4. \E d \in UpsertEvidence(evidence, me.evidence) :
            EvidenceUid(d) = EvidenceUid(e)
      BY <3>2 DEF UpsertEvidence
    <3> QED
      BY <1>1, <3>1, <3>2, <3>3, <3>4
  <2>2. CASE done \in me.processed
    BY <1>2, <1>7, <2>2 DEF WholeBuilder
  <2> QED
    BY <1>1, <2>1, <2>2
<1>9. ReportedIsStored'
  BY <1>8 DEF ReportedIsStored, PlannedRows, ChunkUid, EvidenceUid
<1>10. ASSUME NEW s \in Contents, rebuilt'[s] # None
       PROVE  PlannedRows(s, rebuilt'[s]) \subseteq chunks' \cap evidence'
  <2>1. CASE <<s, rebuilt'[s]>> \in me.processed
    BY <1>2, <1>7, <2>1 DEF WholeBuilder
  <2>2. CASE s \notin ContentsOf(me.chunks) /\ rebuilt'[s] = rebuilt[s]
    <3>1. PlannedRows(s, rebuilt[s]) \subseteq chunks \cap evidence
      BY <1>10, <2>2 DEF ServedInv, RebuiltIsServed
    <3>2. rebuilt[s] \in Texts
      BY <1>10, <2>2 DEF ServedInv, TablesInv, TypeOK
    <3>3. \A row \in PlannedRows(s, rebuilt[s]) : row.content = s
      BY <3>2, PlannedRowsOf
    <3>4. \A c \in me.chunks : c.content # s
      BY <2>2 DEF ContentsOf
    <3>5. \A e \in me.evidence : e.content # s
      BY <1>2, <3>4, UidsTell DEF HasChunk
    <3>6. ASSUME NEW row \in PlannedRows(s, rebuilt[s])
          PROVE  row \in chunks' \cap evidence'
      <4>1. row \in UpsertChunks(chunks, me.chunks)
        BY <3>1, <3>3, <3>4, UidsTell DEF UpsertChunks
      <4>2. row \in UpsertEvidence(evidence, me.evidence)
        BY <3>1, <3>3, <3>5, UidsTell DEF UpsertEvidence
      <4> QED
        BY <1>1, <4>1, <4>2
    <3> QED
      BY <2>2, <3>6
  <2> QED
    BY <1>1, <1>10, <2>1, <2>2
<1>11. RebuiltIsServed'
  BY <1>10 DEF RebuiltIsServed, PlannedRows
<1> QED
  BY <1>6, <1>9, <1>11

LEMMA BeginAgainKeepsServed ==
  ASSUME ServedInv, NEW b \in Builders, BeginAgain(b)
  PROVE  BuildersWhole' /\ ReportedIsStored' /\ RebuiltIsServed'
<1> DEFINE me == builder[b]
           w == [me EXCEPT !.pc = "build", !.seen = ContentsOf(chunks)]
<1>1. me \in Builder /\ WholeBuilder(me)
  BY DEF ServedInv, TablesInv, GoodBuilder, BuildersWhole
<1>2. /\ w.todo = me.todo /\ w.processed = me.processed
      /\ w.chunks = me.chunks /\ w.evidence = me.evidence
  BY <1>1 DEF Builder
<1>3. /\ builder' = [builder EXCEPT ![b] = w]
      /\ UNCHANGED <<parsed, results, chunks, evidence, reported, rebuilt>>
  BY DEF BeginAgain
<1> HIDE DEF w
<1>4. WholeBuilder(w)
  BY <1>1, <1>2 DEF WholeBuilder
<1> QED
  BY <1>3, <1>4, BuilderKeepsServed

LEMMA KillKeepsServed ==
  ASSUME ServedInv, NEW b \in Builders, KillBuild(b)
  PROVE  BuildersWhole' /\ ReportedIsStored' /\ RebuiltIsServed'
BY IdleIsWhole, BuilderKeepsServed DEF KillBuild

\* With one content the victim has counted nothing yet, for it comes to the
\* content once: the deadlock undoes an empty transaction.
LEMMA DeadlockKeepsServed ==
  ASSUME ServedInv, \A r, s \in Contents : r = s,
         NEW b \in Builders, NEW i, NEW s \in Contents, DeadlockVictim(b, i, s)
  PROVE  BuildersWhole' /\ ReportedIsStored' /\ RebuiltIsServed'
<1> DEFINE me == builder[b]
           w == [me EXCEPT !.pc = "undone", !.chunks = {}, !.evidence = {}]
           v == [w EXCEPT !.todo = @ \ {i}]
<1>1. me \in Builder /\ WholeBuilder(me)
  BY DEF ServedInv, TablesInv, GoodBuilder, BuildersWhole
<1>2. i \in me.todo /\ results[i].content = s
  BY DEF DeadlockVictim, Turn
<1>3. me.processed = {}
  <2>1. \A done \in me.processed : done[1] \in Contents
    BY <1>1 DEF Builder
  <2> QED
    BY <1>1, <1>2, <2>1 DEF WholeBuilder
<1>4. v.todo = me.todo \ {i} /\ v.processed = me.processed
  BY <1>1 DEF Builder
<1>5. /\ builder' = [builder EXCEPT ![b] = v]
      /\ UNCHANGED <<parsed, results, chunks, evidence, reported, rebuilt>>
  BY DEF DeadlockVictim, NextContent
<1> HIDE DEF v
<1>6. WholeBuilder(v)
  BY <1>1, <1>3, <1>4 DEF WholeBuilder
<1> QED
  BY <1>5, <1>6, BuilderKeepsServed

\* A deadlock undoes nothing that was counted: there are none, or there is one
\* content only.
UndoesNothingCounted ==
  "deadlock" \notin Failures \/ \A r, s \in Contents : r = s

LEMMA ServedNext ==
  ASSUME UndoesNothingCounted
  PROVE  ServedInv /\ [Next]_vars => ServedInv'
<1> SUFFICES ASSUME ServedInv, [Next]_vars
             PROVE  BuildersWhole' /\ ReportedIsStored' /\ RebuiltIsServed'
  BY TablesNext DEF ServedInv
<1> DEFINE Kept == BuildersWhole' /\ ReportedIsStored' /\ RebuiltIsServed'
<1>1. CASE Environment
  BY <1>1, EnvironmentKeepsServed
<1>2. ASSUME NEW b \in Builders, BuilderStep(b) PROVE Kept
  <2>1. ASSUME NEW targets, NEW force, NEW limit,
               StartBuild(b, targets, force, limit)
        PROVE  Kept
    BY <2>1, StartKeepsServed
  <2>2. ASSUME NEW i, NEW s, SkipContent(b, i, s) PROVE Kept
    BY <2>2, SkipKeepsServed
  <2>3. ASSUME NEW i, NEW s \in Contents, BuildContent(b, i, s) PROVE Kept
    BY <2>3, BuildKeepsServed
  <2>4. ASSUME NEW i, NEW s \in Contents, NEW n \in Int, StatementFails(b, i, s, n)
        PROVE  Kept
    BY <2>4, FailureKeepsServed
  <2>5. CASE CommitBuild(b)
    BY <2>5, CommitKeepsServed
  <2>6. CASE KillBuild(b)
    BY <2>6, KillKeepsServed
  <2>7. ASSUME NEW i, NEW s \in Contents, DeadlockVictim(b, i, s) PROVE Kept
    <3>1. "deadlock" \in Failures
      BY <2>7 DEF DeadlockVictim
    <3> QED
      BY <2>7, <3>1, DeadlockKeepsServed DEF UndoesNothingCounted
  <2>8. 0..(2 * Cardinality(Rows)) \subseteq Int
    OBVIOUS
  <2>9. CASE BeginAgain(b)
    BY <2>9, BeginAgainKeepsServed
  <2> HIDE DEF Kept
  <2> QED
    BY <1>2, <2>1, <2>2, <2>3, <2>4, <2>5, <2>6, <2>7, <2>8, <2>9 DEF BuilderStep
<1>3. CASE UNCHANGED vars
  <2>1. BuildersWhole'
    BY <1>3 DEF vars, ServedInv, BuildersWhole, WholeBuilder, PlannedRows
  <2>2. \A s \in Contents : rebuilt'[s] \in {rebuilt[s], None}
    BY <1>3 DEF vars
  <2> QED
    BY <1>3, <2>1, <2>2, ServedStays DEF vars
<1> QED
  BY <1>1, <1>2, <1>3 DEF Next

\* documents_processed is no empty promise, as long as no deadlock undoes what
\* is counted: that can be found, whatever is built afterwards.
THEOREM ReportedStaysStored ==
  ASSUME UndoesNothingCounted
  PROVE  Spec => []ReportedIsStored
<1>1. ServedInv /\ [Next]_vars => ServedInv'
  BY ServedNext
<1>2. ServedInv => ReportedIsStored
  BY DEF ServedInv
<1> QED
  BY <1>1, <1>2, InitServed, PTL DEF Spec

\* A forced build serves the text of today as a whole, and builds of other
\* contents, at the same time or later, do not disturb it.
THEOREM RebuiltStaysServed ==
  ASSUME UndoesNothingCounted
  PROVE  Spec => []RebuiltIsServed
<1>1. ServedInv /\ [Next]_vars => ServedInv'
  BY ServedNext
<1>2. ServedInv => RebuiltIsServed
  BY DEF ServedInv
<1> QED
  BY <1>1, <1>2, InitServed, PTL DEF Spec
-----------------------------------------------------------------------------
(***************************************************************************)
(* Builds that are never forced and never overlap: a build knows all the   *)
(* contents that have chunks, and adds rows for no other.                  *)
(***************************************************************************)
FromOneText(rows) ==
  \A s \in Contents : \E t \in Texts :
    \A row \in rows : row.content = s => row \in PlannedRows(s, t)

AddsContents(w) ==
  /\ ~w.force
  /\ w.seen = ContentsOf(chunks)
  /\ \A row \in w.chunks \cup w.evidence :
       /\ row.content \notin w.seen
       /\ \A i \in w.todo : results[i].content # row.content
  /\ \A i, j \in w.todo : results[i].content = results[j].content => i = j
  /\ FromOneText(w.chunks \cup w.evidence)

BuildsAlone(b) ==
  builder[b].pc # "idle" =>
    /\ \A c \in Builders \ {b} : builder[c].pc = "idle"
    /\ AddsContents(builder[b])

OneTextInv ==
  /\ TablesInv
  /\ \A b \in Builders : BuildsAlone(b)
  /\ FromOneText(chunks \cup evidence)

LEMMA InitOneText == Init => OneTextInv
<1> SUFFICES ASSUME Init PROVE OneTextInv
  OBVIOUS
<1>1. \A b \in Builders : builder[b].pc = "idle"
  BY DEF Init, IdleBuilder
<1>2. FromOneText({})
  BY TextsAssumption DEF FromOneText
<1>3. chunks \cup evidence = {}
  BY DEF Init
<1> QED
  BY <1>1, <1>2, <1>3, InitTables DEF OneTextInv, BuildsAlone

\* A step of one build, after which it is idle or has only added contents.
LEMMA BuilderKeepsOneText ==
  ASSUME OneTextInv, NEW b \in Builders, NEW w,
         w.pc # "idle" =>
           /\ AddsContents(w)
           /\ \A c \in Builders \ {b} : builder[c].pc = "idle",
         builder' = [builder EXCEPT ![b] = w],
         UNCHANGED <<results, chunks, evidence>>
  PROVE  (\A c \in Builders : BuildsAlone(c))' /\ FromOneText(chunks \cup evidence)'
<1>1. \A c \in Builders : builder'[c] = IF c = b THEN w ELSE builder[c]
  BY DEF OneTextInv, TablesInv, TypeOK
<1>2. ASSUME NEW c \in Builders, builder'[c].pc # "idle"
      PROVE  /\ \A d \in Builders \ {c} : builder'[d].pc = "idle"
             /\ AddsContents(builder'[c])
  <2>1. CASE c = b
    BY <1>1, <1>2, <2>1
  <2>2. CASE c # b
    <3>1. builder[c].pc # "idle" /\ builder'[c] = builder[c]
      BY <1>1, <1>2, <2>2
    <3>2. AddsContents(builder[c]) /\ \A d \in Builders \ {c} : builder[d].pc = "idle"
      BY <3>1 DEF OneTextInv, BuildsAlone
    <3>3. w.pc = "idle"
      BY <2>2, <3>1
    <3> QED
      BY <1>1, <3>1, <3>2, <3>3
  <2> QED
    BY <2>1, <2>2
<1>3. (\A c \in Builders : BuildsAlone(c))'
  BY <1>2 DEF BuildsAlone, AddsContents, ContentsOf, FromOneText, PlannedRows
<1>4. FromOneText(chunks \cup evidence)'
  BY DEF OneTextInv, FromOneText, PlannedRows
<1> QED
  BY <1>3, <1>4
LEMMA EnvironmentKeepsOneText ==
  ASSUME OneTextInv, Environment
  PROVE  (\A c \in Builders : BuildsAlone(c))' /\ FromOneText(chunks \cup evidence)'
<1>1. PICK s \in Contents :
        \/ \E dir \in ParsedDir : WriteParsed(s, dir)
        \/ \E usable \in BOOLEAN : RegisterResult(s, usable)
  BY DEF Environment
<1>2. results \in Seq(Result)
  BY DEF OneTextInv, TablesInv, TypeOK
<1>3. \A i \in DOMAIN results : results'[i] = results[i]
  <2>1. ASSUME NEW usable \in BOOLEAN, RegisterResult(s, usable)
        PROVE  \A i \in DOMAIN results : results'[i] = results[i]
    <3>1. [content |-> s, usable |-> usable] \in Result
      BY DEF Result
    <3> QED
      BY <1>2, <2>1, <3>1 DEF RegisterResult
  <2> QED
    BY <1>1, <2>1 DEF WriteParsed
<1>4. UNCHANGED <<chunks, evidence, builder>>
  BY <1>1 DEF WriteParsed, RegisterResult
<1>5. \A b \in Builders : builder[b].todo \subseteq DOMAIN results
  BY DEF OneTextInv, TablesInv, TypeOK
<1>6. ASSUME NEW b \in Builders, builder[b].pc # "idle"
      PROVE  AddsContents(builder[b])'
  <2>1. AddsContents(builder[b])
    BY <1>6 DEF OneTextInv, BuildsAlone
  <2> QED
    BY <1>3, <1>4, <1>5, <2>1 DEF AddsContents, ContentsOf, FromOneText, PlannedRows
<1>7. (\A c \in Builders : BuildsAlone(c))'
  BY <1>4, <1>6 DEF OneTextInv, BuildsAlone
<1>8. FromOneText(chunks \cup evidence)'
  BY <1>4 DEF OneTextInv, FromOneText, PlannedRows
<1> QED
  BY <1>7, <1>8

LEMMA StartKeepsOneText ==
  ASSUME OneTextInv, ~Overlap, NEW b \in Builders, NEW targets, NEW limit,
         StartBuild(b, targets, FALSE, limit)
  PROVE  (\A c \in Builders : BuildsAlone(c))' /\ FromOneText(chunks \cup evidence)'
<1> DEFINE w == [IdleBuilder EXCEPT !.pc = "build", !.force = FALSE,
                                    !.todo = Candidates(targets, limit),
                                    !.seen = ContentsOf(chunks)]
<1>1. \A i, j \in Candidates(targets, limit) :
        ~(i < j /\ results[j].content = results[i].content)
  BY DEF Candidates
<1>2. Candidates(targets, limit) \subseteq Nat
  BY ResultsOf DEF Candidates, OneTextInv, TablesInv
<1>3. \A i, j \in Candidates(targets, limit) :
        results[i].content = results[j].content => i = j
  BY <1>1, <1>2
<1>4. /\ w.pc = "build" /\ w.force = FALSE /\ w.seen = ContentsOf(chunks)
      /\ w.todo = Candidates(targets, limit)
      /\ w.chunks = {} /\ w.evidence = {}
  BY DEF IdleBuilder
<1>5. /\ builder' = [builder EXCEPT ![b] = w]
      /\ UNCHANGED <<results, chunks, evidence>>
      /\ \A c \in Builders : builder[c].pc = "idle"
  BY DEF StartBuild
<1> HIDE DEF w
<1>6. FromOneText({})
  BY TextsAssumption DEF FromOneText
<1>7. w.chunks \cup w.evidence = {}
  BY <1>4
<1>8. AddsContents(w)
  BY <1>3, <1>4, <1>6, <1>7 DEF AddsContents
<1> QED
  BY <1>4, <1>5, <1>8, BuilderKeepsOneText

\* Rows of one text of a content that has none yet.
LEMMA TurnAdds ==
  ASSUME OneTextInv, NEW b \in Builders, NEW i, NEW s \in Contents, Turn(b, i, s),
         ~Skipped(b, s), NEW t \in Texts, NEW chunkRows, NEW evidenceRows,
         chunkRows \subseteq PlannedRows(s, t), evidenceRows \subseteq chunkRows,
         NEW v, v.force = builder[b].force, v.seen = builder[b].seen,
         v.todo = builder[b].todo \ {i},
         v.chunks = UpsertChunks(builder[b].chunks, chunkRows),
         v.evidence = UpsertEvidence(builder[b].evidence, evidenceRows)
  PROVE  AddsContents(v)
<1> DEFINE me == builder[b]
           old == me.chunks \cup me.evidence
<1>1. me.pc = "build" /\ i \in me.todo /\ results[i].content = s
  BY DEF Turn
<1>2. AddsContents(me)
  BY <1>1 DEF OneTextInv, BuildsAlone
<1>3. \A row \in chunkRows \cup evidenceRows :
        row.content = s /\ row \in PlannedRows(s, t)
  BY PlannedRowsOf
<1>4. s \notin me.seen
  BY <1>2 DEF AddsContents, Skipped
<1>5. v.chunks \cup v.evidence \subseteq old \cup chunkRows
  BY UpsertIsBetween
<1>6. \A row \in old : /\ row.content \notin me.seen /\ row.content # s
                      /\ \A j \in me.todo : results[j].content # row.content
  BY <1>1, <1>2 DEF AddsContents
<1>7. \A j \in me.todo \ {i} : results[j].content # s
  BY <1>1, <1>2 DEF AddsContents
<1>8. FromOneText(v.chunks \cup v.evidence)
  <2>1. ASSUME NEW r \in Contents
        PROVE  \E u \in Texts : \A row \in v.chunks \cup v.evidence :
                 row.content = r => row \in PlannedRows(r, u)
    <3>1. CASE r = s
      BY <1>3, <1>5, <1>6, <3>1
    <3>2. CASE r # s
      <4>1. PICK u \in Texts :
              \A row \in old : row.content = r => row \in PlannedRows(r, u)
        BY <1>2 DEF AddsContents, FromOneText
      <4> QED
        BY <1>3, <1>5, <3>2, <4>1
    <3> QED
      BY <3>1, <3>2
  <2> QED
    BY <2>1 DEF FromOneText
<1> HIDE DEF old
<1>9. \A row \in v.chunks \cup v.evidence :
        /\ row.content \notin v.seen
        /\ \A j \in v.todo : results[j].content # row.content
  BY <1>3, <1>4, <1>5, <1>6, <1>7
<1> QED
  BY <1>2, <1>8, <1>9 DEF AddsContents

LEMMA ContentKeepsOneText ==
  ASSUME OneTextInv, NEW b \in Builders, NEW i, NEW s \in Contents,
         \/ SkipContent(b, i, s)
         \/ BuildContent(b, i, s)
         \/ \E n \in Int : StatementFails(b, i, s, n)
         \/ DeadlockVictim(b, i, s)
  PROVE  (\A c \in Builders : BuildsAlone(c))' /\ FromOneText(chunks \cup evidence)'
<1> DEFINE me == builder[b]
           t == parsed[s].text
<1>1. /\ Turn(b, i, s) /\ me \in Builder /\ me.pc = "build" /\ AddsContents(me)
      /\ \A c \in Builders \ {b} : builder[c].pc = "idle"
  BY DEF SkipContent, BuildContent, StatementFails, DeadlockVictim, Turn, OneTextInv,
         TablesInv, GoodBuilder, BuildsAlone
<1>2. Plannable(s) => t \in Texts
  BY PlannableText DEF OneTextInv, TablesInv
<1>3. PICK w : /\ NextContent(b, i, w) /\ w \in Builder
               /\ AddsContents([w EXCEPT !.todo = @ \ {i}])
  <2>1. CASE SkipContent(b, i, s)
    <3> DEFINE v == [me EXCEPT !.todo = @ \ {i}]
    <3>1. /\ v.todo = me.todo \ {i} /\ v.seen = me.seen /\ v.force = me.force
          /\ v.chunks = me.chunks /\ v.evidence = me.evidence
      BY <1>1 DEF Builder
    <3> HIDE DEF v
    <3>2. AddsContents(v)
      BY <1>1, <3>1 DEF AddsContents
    <3> QED
      BY <1>1, <2>1, <3>2 DEF SkipContent, v
  <2>2. CASE BuildContent(b, i, s)
    <3> DEFINE rows == PlannedRows(s, t)
               up == Upserted(b, rows, rows)
               w == [up EXCEPT !.processed = @ \cup {<<s, t>>}]
               v == [w EXCEPT !.todo = @ \ {i}]
    <3>1. t \in Texts /\ ~Skipped(b, s) /\ NextContent(b, i, w)
      BY <1>2, <2>2 DEF BuildContent
    <3>2. rows \subseteq PlannedRows(s, t)
      OBVIOUS
    <3> HIDE DEF rows, t
    <3>3. /\ up \in Builder /\ up.pc = me.pc
          /\ up.chunks = UpsertChunks(me.chunks, rows)
          /\ up.evidence = UpsertEvidence(me.evidence, rows)
          /\ up.todo = me.todo /\ up.force = me.force /\ up.seen = me.seen
      BY <3>1, <3>2, UpsertedIsGood DEF OneTextInv, GoodBuilder
    <3> HIDE DEF up
    <3>4. w \in Builder
      BY <1>1, <3>1, <3>3 DEF Builder
    <3>5. /\ v.chunks = up.chunks /\ v.evidence = up.evidence
          /\ v.todo = up.todo \ {i} /\ v.force = up.force /\ v.seen = up.seen
      BY <3>3 DEF Builder
    <3> HIDE DEF v
    <3>6. AddsContents(v)
      BY <1>1, <3>1, <3>2, <3>3, <3>5, TurnAdds
    <3> QED
      BY <3>1, <3>4, <3>6 DEF v
  <2>3. ASSUME NEW n \in Int, StatementFails(b, i, s, n)
        PROVE  \E w : /\ NextContent(b, i, w) /\ w \in Builder
                      /\ AddsContents([w EXCEPT !.todo = @ \ {i}])
    <3> DEFINE done == UpsertedBy(n, PlannedRows(s, t))
               w == Upserted(b, done.chunks, done.evidence)
               v == [w EXCEPT !.todo = @ \ {i}]
    <3>1. t \in Texts /\ ~Skipped(b, s) /\ NextContent(b, i, w)
      BY <1>2, <2>3 DEF StatementFails
    <3>2. done.evidence \subseteq done.chunks /\ done.chunks \subseteq PlannedRows(s, t)
      BY <3>1, UpsertedByPlanned
    <3> HIDE DEF done, t
    <3>3. /\ w \in Builder /\ w.pc = me.pc
          /\ w.chunks = UpsertChunks(me.chunks, done.chunks)
          /\ w.evidence = UpsertEvidence(me.evidence, done.evidence)
          /\ w.todo = me.todo /\ w.force = me.force /\ w.seen = me.seen
      BY <3>1, <3>2, UpsertedIsGood DEF OneTextInv, GoodBuilder
    <3> HIDE DEF w
    <3>4. /\ v.chunks = w.chunks /\ v.evidence = w.evidence
          /\ v.todo = w.todo \ {i} /\ v.force = w.force /\ v.seen = w.seen
      BY <3>3 DEF Builder
    <3> HIDE DEF v
    <3>5. AddsContents(v)
      BY <1>1, <3>1, <3>2, <3>3, <3>4, TurnAdds
    <3> QED
      BY <1>1, <3>1, <3>3, <3>5 DEF v
  <2>4. CASE DeadlockVictim(b, i, s)
    <3> DEFINE w == [me EXCEPT !.pc = "undone", !.chunks = {}, !.evidence = {}]
               v == [w EXCEPT !.todo = @ \ {i}]
    <3>1. NextContent(b, i, w)
      BY <2>4 DEF DeadlockVictim
    <3>2. w \in Builder
      BY <1>1 DEF Builder
    <3>3. /\ v.chunks = {} /\ v.evidence = {}
          /\ v.todo = me.todo \ {i} /\ v.force = me.force /\ v.seen = me.seen
      BY <1>1 DEF Builder
    <3> HIDE DEF v, w
    <3>4. v.chunks \cup v.evidence = {} /\ FromOneText({})
      BY <3>3, TextsAssumption DEF FromOneText
    <3>5. AddsContents(v)
      BY <1>1, <3>3, <3>4 DEF AddsContents
    <3> QED
      BY <3>1, <3>2, <3>5 DEF v
  <2> QED
    BY <2>1, <2>2, <2>3, <2>4
<1> DEFINE v == [w EXCEPT !.todo = @ \ {i}]
<1>4. builder' = [builder EXCEPT ![b] = v] /\ UNCHANGED <<results, chunks, evidence>>
  BY <1>3 DEF NextContent
<1>5. AddsContents(v)
  BY <1>3
<1> HIDE DEF v
<1> QED
  BY <1>1, <1>4, <1>5, BuilderKeepsOneText

LEMMA BeginAgainKeepsOneText ==
  ASSUME OneTextInv, NEW b \in Builders, BeginAgain(b)
  PROVE  (\A c \in Builders : BuildsAlone(c))' /\ FromOneText(chunks \cup evidence)'
<1> DEFINE me == builder[b]
           w == [me EXCEPT !.pc = "build", !.seen = ContentsOf(chunks)]
<1>1. /\ me \in Builder /\ AddsContents(me)
      /\ \A c \in Builders \ {b} : builder[c].pc = "idle"
  BY DEF BeginAgain, OneTextInv, TablesInv, GoodBuilder, BuildsAlone
<1>2. /\ w.todo = me.todo /\ w.force = me.force /\ w.seen = ContentsOf(chunks)
      /\ w.chunks = me.chunks /\ w.evidence = me.evidence
  BY <1>1 DEF Builder
<1>3. /\ builder' = [builder EXCEPT ![b] = w]
      /\ UNCHANGED <<results, chunks, evidence>>
  BY DEF BeginAgain
<1> HIDE DEF w
<1>4. AddsContents(w)
  BY <1>1, <1>2 DEF AddsContents
<1> QED
  BY <1>1, <1>3, <1>4, BuilderKeepsOneText

LEMMA CommitKeepsOneText ==
  ASSUME OneTextInv, NEW b \in Builders, CommitBuild(b)
  PROVE  (\A c \in Builders : BuildsAlone(c))' /\ FromOneText(chunks \cup evidence)'
<1> DEFINE me == builder[b]
<1>1. /\ chunks' = UpsertChunks(chunks, me.chunks)
      /\ evidence' = UpsertEvidence(evidence, me.evidence)
      /\ builder' = [builder EXCEPT ![b] = IdleBuilder]
      /\ me.pc = "build"
  BY DEF CommitBuild
<1>2. AddsContents(me) /\ \A c \in Builders \ {b} : builder[c].pc = "idle"
  BY <1>1 DEF OneTextInv, BuildsAlone
<1>3. \A c \in Builders : builder'[c].pc = "idle"
  BY <1>1, <1>2 DEF OneTextInv, TablesInv, TypeOK, IdleBuilder
<1>4. (\A c \in Builders : BuildsAlone(c))'
  BY <1>3 DEF BuildsAlone
<1> HIDE DEF me
<1>5. \A row \in chunks \cup evidence : row.content \in ContentsOf(chunks)
  BY UidsTell DEF OneTextInv, TablesInv, EvidenceHasChunk, ContentsOf
<1>6. \A row \in me.chunks \cup me.evidence : row.content \notin ContentsOf(chunks)
  BY <1>2 DEF AddsContents
<1>7. ASSUME NEW s \in Contents
      PROVE  \E t \in Texts : \A row \in chunks' \cup evidence' :
               row.content = s => row \in PlannedRows(s, t)
  <2>1. chunks' \cup evidence'
          \subseteq (chunks \cup evidence) \cup (me.chunks \cup me.evidence)
    BY <1>1, UpsertIsBetween
  <2>2. PICK t \in Texts : \A row \in chunks \cup evidence :
               row.content = s => row \in PlannedRows(s, t)
    BY DEF OneTextInv, FromOneText
  <2>3. PICK u \in Texts : \A row \in me.chunks \cup me.evidence :
               row.content = s => row \in PlannedRows(s, u)
    BY <1>2 DEF AddsContents, FromOneText
  <2>4. CASE s \in ContentsOf(chunks)
    BY <1>6, <2>1, <2>2, <2>4
  <2>5. CASE s \notin ContentsOf(chunks)
    BY <1>5, <2>1, <2>3, <2>5
  <2> QED
    BY <2>4, <2>5
<1>8. FromOneText(chunks \cup evidence)'
  BY <1>7 DEF FromOneText, PlannedRows
<1> QED
  BY <1>4, <1>8

LEMMA KillKeepsOneText ==
  ASSUME OneTextInv, NEW b \in Builders, KillBuild(b)
  PROVE  (\A c \in Builders : BuildsAlone(c))' /\ FromOneText(chunks \cup evidence)'
<1>1. IdleBuilder.pc = "idle"
  BY DEF IdleBuilder
<1> QED
  BY <1>1, BuilderKeepsOneText DEF KillBuild

\* Whatever is parsed, fails or is killed, the chunks and the evidence of a
\* content never mix two of its texts, as long as nobody says --force and
\* builds do not overlap.
THEOREM OneTextServed ==
  ASSUME ~Overlap, Forces \subseteq {FALSE}
  PROVE  Spec => []OneTextPerContent
<1> DEFINE Kept == (\A c \in Builders : BuildsAlone(c))'
                     /\ FromOneText(chunks \cup evidence)'
<1>1. ASSUME OneTextInv, [Next]_vars PROVE Kept
  <2>1. CASE Environment
    BY <1>1, <2>1, EnvironmentKeepsOneText
  <2>2. ASSUME NEW b \in Builders, BuilderStep(b) PROVE Kept
    <3>1. ASSUME NEW targets, NEW force \in Forces, NEW limit,
                 StartBuild(b, targets, force, limit)
          PROVE  Kept
      BY <1>1, <3>1, StartKeepsOneText
    <3>2. ASSUME NEW i, NEW s \in Contents,
                 \/ SkipContent(b, i, s)
                 \/ BuildContent(b, i, s)
                 \/ \E n \in Int : StatementFails(b, i, s, n)
                 \/ DeadlockVictim(b, i, s)
          PROVE  Kept
      BY <1>1, <3>2, ContentKeepsOneText
    <3>3. CASE CommitBuild(b)
      BY <1>1, <3>3, CommitKeepsOneText
    <3>4. CASE KillBuild(b)
      BY <1>1, <3>4, KillKeepsOneText
    <3>5. 0..(2 * Cardinality(Rows)) \subseteq Int
      OBVIOUS
    <3>6. CASE BeginAgain(b)
      BY <1>1, <3>6, BeginAgainKeepsOneText
    <3> HIDE DEF Kept
    <3> QED
      BY <2>2, <3>1, <3>2, <3>3, <3>4, <3>5, <3>6 DEF BuilderStep
  <2>3. CASE UNCHANGED vars
    BY <1>1, <2>3 DEF vars, OneTextInv, BuildsAlone, AddsContents, ContentsOf,
                      FromOneText, PlannedRows
  <2> QED
    BY <1>1, <2>1, <2>2, <2>3 DEF Next
<1>2. OneTextInv /\ [Next]_vars => OneTextInv'
  BY <1>1, TablesNext DEF OneTextInv
<1>3. OneTextInv => OneTextPerContent
  BY DEF OneTextInv, FromOneText, OneTextPerContent
<1> QED
  BY <1>2, <1>3, InitOneText, PTL DEF Spec
=============================================================================
